---------------------------- MODULE RecordsProofs ----------------------------
(***************************************************************************)
(* Theorems about Records, proved for any users, keys, seasons and           *)
(* commodities, any tables to begin with and any number of events.           *)
(***************************************************************************)
EXTENDS Records, SumTheorems

-----------------------------------------------------------------------------
(* What Reached computes: the least set that holds the first key and is closed *)
(* under the relation.                                                        *)

OneStep(keys, Steps) == keys \cup {p[2] : p \in {q \in Steps : q[1] \in keys}}
Closed(keys, Steps) == \A p \in Steps : p[1] \in keys => p[2] \in keys
Walked(n, first, Steps, f) == f = [m \in 0 .. n |-> IF m = 0 THEN {first} ELSE OneStep(f[m - 1], Steps)]

LEMMA WalkedExists ==
  ASSUME NEW N \in Nat, NEW first, NEW Steps
  PROVE  \E f : Walked(N, first, Steps, f)
  <1> DEFINE F == {n \in 0 .. N : \E f : Walked(n, first, Steps, f)}
  <1>1. 0 \in F
    <2> DEFINE f == [m \in 0 .. 0 |-> {first}]
    <2>1. f = [m \in 0 .. 0 |-> IF m = 0 THEN {first} ELSE OneStep(f[m - 1], Steps)]
      <3>1. \A m \in 0 .. 0 : m = 0
        OBVIOUS
      <3> QED BY <3>1
    <2> HIDE DEF f
    <2>2. Walked(0, first, Steps, f) /\ 0 \in 0 .. N
      BY <2>1 DEF Walked
    <2> QED BY <2>2
  <1>2. ASSUME NEW n \in 0 .. (N - 1), n \in F PROVE n + 1 \in F
    <2>1. PICK f : Walked(n, first, Steps, f)
      BY <1>2
    <2>2. f = [m \in 0 .. n |-> IF m = 0 THEN {first} ELSE OneStep(f[m - 1], Steps)]
      BY <2>1 DEF Walked
    <2> DEFINE g == [m \in 0 .. (n + 1) |-> IF m = n + 1 THEN OneStep(f[n], Steps) ELSE f[m]]
    <2>3. ASSUME NEW m \in 0 .. (n + 1)
          PROVE  g[m] = IF m = 0 THEN {first} ELSE OneStep(g[m - 1], Steps)
      <3>1. CASE m = n + 1
        <4>1. m # 0 /\ m - 1 = n /\ n \in 0 .. (n + 1) /\ n # n + 1
          BY <3>1
        <4>2. g[m - 1] = f[n]
          BY <4>1
        <4>3. g[m] = OneStep(f[n], Steps)
          BY <3>1
        <4> HIDE DEF g
        <4> QED BY <4>1, <4>2, <4>3
      <3>2. CASE m = 0
        <4>1. m \in 0 .. n /\ m # n + 1
          BY <3>2
        <4>2. f[m] = {first}
          BY <2>2, <3>2, <4>1
        <4> QED BY <3>2, <4>1, <4>2
      <3>3. CASE m # n + 1 /\ m # 0
        <4>1. m \in 0 .. n /\ m - 1 \in 0 .. n /\ m - 1 # n + 1 /\ m - 1 \in 0 .. (n + 1)
          BY <3>3
        <4>2. f[m] = OneStep(f[m - 1], Steps)
          BY <2>2, <3>3, <4>1
        <4>3. g[m] = f[m] /\ g[m - 1] = f[m - 1]
          BY <3>3, <4>1
        <4> HIDE DEF g
        <4> QED BY <3>3, <4>2, <4>3
      <3> QED BY <3>1, <3>2, <3>3
    <2>4. g = [m \in 0 .. (n + 1) |-> g[m]]
      OBVIOUS
    <2>5. Walked(n + 1, first, Steps, g)
      <3> HIDE DEF g
      <3> QED BY <2>3, <2>4 DEF Walked
    <2> HIDE DEF g
    <2> QED BY <2>5
  <1>3. 0 .. N \subseteq F
    <2> HIDE DEF F
    <2> QED BY <1>1, <1>2, UpTo
  <1>4. N \in 0 .. N
    OBVIOUS
  <1> QED BY <1>3, <1>4

LEMMA ReachedUnfolds ==
  ASSUME NEW first, NEW Steps
  PROVE  \E f : /\ Walked(Cardinality(Keys), first, Steps, f)
                /\ Reached(first, Steps) = f[Cardinality(Keys)]
  <1> DEFINE f == CHOOSE f : Walked(Cardinality(Keys), first, Steps, f)
  <1>1. Reached(first, Steps) = f[Cardinality(Keys)]
    BY DEF Reached, Walked, OneStep
  <1>2. Cardinality(Keys) \in Nat
    BY SchemaAssumption, FS_CardinalityType
  <1>3. Walked(Cardinality(Keys), first, Steps, f)
    BY <1>2, WalkedExists
  <1> HIDE DEF f
  <1> QED BY <1>1, <1>3

LEMMA ReachedIsLeast ==
  ASSUME NEW first \in Keys, NEW Steps \in SUBSET (Keys \X Keys)
  PROVE  /\ Reached(first, Steps) \subseteq Keys
         /\ first \in Reached(first, Steps)
         /\ Closed(Reached(first, Steps), Steps)
         /\ \A keys \in SUBSET Keys : first \in keys /\ Closed(keys, Steps) => Reached(first, Steps) \subseteq keys
  <1> DEFINE N == Cardinality(Keys)
  <1>1. N \in Nat
    BY SchemaAssumption, FS_CardinalityType
  <1>2. PICK f : Walked(N, first, Steps, f) /\ Reached(first, Steps) = f[N]
    BY ReachedUnfolds
  <1> HIDE DEF N
  <1>3. f[0] = {first} /\ \A n \in 0 .. (N - 1) : f[n + 1] = OneStep(f[n], Steps)
    <2>1. f[0] = {first}
      BY <1>1, <1>2 DEF Walked
    <2>2. ASSUME NEW n \in 0 .. (N - 1) PROVE f[n + 1] = OneStep(f[n], Steps)
      <3>1. n + 1 \in 0 .. N /\ n + 1 # 0 /\ (n + 1) - 1 = n
        BY <1>1
      <3>2. f[n + 1] = OneStep(f[(n + 1) - 1], Steps)
        BY <1>2, <3>1 DEF Walked
      <3> QED BY <3>1, <3>2
    <2> QED BY <2>1, <2>2
  <1>4. ASSUME NEW keys \in SUBSET Keys, first \in keys, Closed(keys, Steps)
        PROVE  \A n \in 0 .. N : f[n] \subseteq keys
    <2> DEFINE F == {n \in 0 .. N : f[n] \subseteq keys}
    <2>1. 0 \in F
      BY <1>1, <1>3, <1>4
    <2>2. ASSUME NEW n \in 0 .. (N - 1), n \in F PROVE n + 1 \in F
      <3>1. f[n + 1] = OneStep(f[n], Steps)
        BY <1>3
      <3>2. n + 1 \in 0 .. N
        BY <1>1
      <3> QED BY <1>4, <2>2, <3>1, <3>2 DEF OneStep, Closed
    <2>3. 0 .. N \subseteq F
      <3> HIDE DEF F
      <3> QED BY <1>1, <2>1, <2>2, UpTo
    <2> QED BY <2>3
  <1>5. N \in 0 .. N
    BY <1>1
  <1>6. \A n \in 0 .. N : f[n] \subseteq Keys
    BY <1>4 DEF Closed
  \* A set that still grows after n steps has more than n keys.
  <1>7. \A n \in 0 .. N : first \in f[n] /\ (Closed(f[n], Steps) \/ n + 1 <= Cardinality(f[n]))
    <2> DEFINE F == {n \in 0 .. N : first \in f[n] /\ (Closed(f[n], Steps) \/ n + 1 <= Cardinality(f[n]))}
    <2>1. 0 \in F
      <3>1. Cardinality({first}) = 1
        BY FS_Singleton
      <3> QED BY <1>1, <1>3, <3>1
    <2>2. ASSUME NEW n \in 0 .. (N - 1), n \in F PROVE n + 1 \in F
      <3>1. f[n + 1] = OneStep(f[n], Steps)
        BY <1>3
      <3>2. n + 1 \in 0 .. N /\ n \in 0 .. N
        BY <1>1
      <3>3. CASE Closed(f[n], Steps)
        <4>1. f[n + 1] = f[n]
          BY <3>1, <3>3 DEF OneStep, Closed
        <4> QED BY <2>2, <3>2, <3>3, <4>1
      <3>4. CASE ~Closed(f[n], Steps)
        <4>1. PICK p \in Steps : p[1] \in f[n] /\ p[2] \notin f[n]
          BY <3>4 DEF Closed
        <4>2. f[n] \cup {p[2]} \subseteq f[n + 1]
          BY <3>1, <4>1 DEF OneStep
        <4>3. f[n + 1] \subseteq Keys /\ f[n] \subseteq Keys
          BY <1>6, <3>2
        <4>4. IsFiniteSet(f[n + 1]) /\ IsFiniteSet(f[n])
          BY <4>3, SchemaAssumption, FS_Subset
        <4>5. Cardinality(f[n] \cup {p[2]}) = Cardinality(f[n]) + 1 /\ Cardinality(f[n]) \in Nat
          BY <4>1, <4>4, FS_AddElement, FS_CardinalityType
        <4>6. Cardinality(f[n] \cup {p[2]}) <= Cardinality(f[n + 1]) /\ Cardinality(f[n + 1]) \in Nat
          BY <4>2, <4>4, FS_Subset, FS_CardinalityType
        <4>7. n + 1 <= Cardinality(f[n])
          BY <2>2, <3>4
        <4>8. (n + 1) + 1 <= Cardinality(f[n + 1])
          BY <4>5, <4>6, <4>7
        <4>9. first \in f[n + 1]
          BY <2>2, <4>2
        <4> QED BY <3>2, <4>8, <4>9
      <3> QED BY <3>3, <3>4
    <2>3. 0 .. N \subseteq F
      <3> HIDE DEF F
      <3> QED BY <1>1, <2>1, <2>2, UpTo
    <2> QED BY <2>3
  <1>8. Closed(f[N], Steps)
    <2>1. f[N] \subseteq Keys
      BY <1>5, <1>6
    <2>2. Cardinality(f[N]) <= N /\ Cardinality(f[N]) \in Nat
      BY <2>1, SchemaAssumption, FS_Subset, FS_CardinalityType DEF N
    <2> QED BY <1>1, <1>5, <1>7, <2>2
  <1> QED BY <1>2, <1>4, <1>5, <1>6, <1>7, <1>8

\* More steps reach more.
LEMMA ReachedGrows ==
  ASSUME NEW first \in Keys, NEW Few \in SUBSET (Keys \X Keys), NEW Many \in SUBSET (Keys \X Keys), Few \subseteq Many
  PROVE  Reached(first, Few) \subseteq Reached(first, Many)
  BY ReachedIsLeast DEF Closed
-----------------------------------------------------------------------------
(* Steps, by what they write. *)

StepOfTrader ==
  \E w \in Workers :
    \/ \E request \in Requests, k \in Keys : Trade(w, request, k)
    \/ \E at \in {"accept", "reject", "upload"}, k \in Written :
         Read(w, at, k) /\ (at # "upload" => Pending(k)) /\ (at = "accept" => None \notin {trx[k].seller, trx[k].buyer})
    \/ \E content \in {"invalid", "valid"} : UploadNew(w, content)
    \/ \E auto \in SUBSET Keys : Accept(w, auto)
    \/ Reject(w)
    \/ \E u \in Uploads : Upload(w, u[1], u[2])
    \/ SaveLocation(w)
    \/ Abandon(w)

StepOfForm ==
  \/ \E e \in SeasonEdits : SaveSeason(e[1], e[2], e[3])
  \/ \E e \in RecipeEdits : SaveRecipe(e[1], e[2], e[3])
  \/ \E e \in CommodityEdits : SaveCommodity(e[1], e[2])

LEMMA StepKinds ==
  ASSUME [Next]_vars
  PROVE  \/ StepOfTrader /\ UNCHANGED <<removal, jobs>>
         \/ StepOfForm /\ UNCHANGED <<removal, handlers, jobs>>
         \/ (\E o \in Objects : Collect(o)) /\ UNCHANGED <<handlers, jobs>>
         \/ Delete /\ UNCHANGED <<handlers, jobs>>
         \/ Distribute /\ UNCHANGED <<removal, handlers, walk, listing, metrics, cache>>
         \/ Reader
         \/ UNCHANGED vars
  <1>1. CASE Trader
    <2>1. PICK w \in Workers :
            \/ \E request \in Requests, k \in Keys : Trade(w, request, k)
            \/ \E k \in Keys : AcceptRead(w, k)
            \/ \E k \in Keys : RejectRead(w, k)
            \/ \E k \in Supplied : UpdateRead(w, k)
            \/ \E content \in {"invalid", "valid"} : UploadNew(w, content)
            \/ \E auto \in {{}} \cup {{a} : a \in Keys} : Accept(w, auto)
            \/ Reject(w)
            \/ \E u \in Uploads : Upload(w, u[1], u[2])
            \/ SaveLocation(w)
            \/ Abandon(w)
      BY <1>1 DEF Trader
    <2>2. UNCHANGED <<removal, jobs>>
      BY <1>1 DEF Trader
    <2>3. ASSUME NEW k \in Keys, AcceptRead(w, k) PROVE StepOfTrader
      BY <2>3 DEF AcceptRead, Pending, StepOfTrader
    <2>4. ASSUME NEW k \in Keys, RejectRead(w, k) PROVE StepOfTrader
      BY <2>4 DEF RejectRead, Pending, StepOfTrader
    <2>5. ASSUME NEW k \in Supplied, UpdateRead(w, k) PROVE StepOfTrader
      BY <2>5 DEF UpdateRead, StepOfTrader
    <2>6. ASSUME NEW auto \in {{}} \cup {{a} : a \in Keys}, Accept(w, auto) PROVE StepOfTrader
      BY <2>6 DEF StepOfTrader
    <2>7. ASSUME \/ \E request \in Requests, k \in Keys : Trade(w, request, k)
                 \/ \E content \in {"invalid", "valid"} : UploadNew(w, content)
                 \/ Reject(w) \/ SaveLocation(w) \/ Abandon(w)
                 \/ \E u \in Uploads : Upload(w, u[1], u[2])
          PROVE  StepOfTrader
      BY <2>7 DEF StepOfTrader
    <2> QED BY <2>1, <2>2, <2>3, <2>4, <2>5, <2>6, <2>7
  <1>2. CASE Admin
    BY <1>2 DEF Admin, StepOfForm, Deletion
  <1>3. CASE SeasonTask
    BY <1>3 DEF SeasonTask
  <1>4. CASE Reader
    BY <1>4
  <1> QED BY <1>1, <1>2, <1>3, <1>4 DEF Next

LEMMA ReadersRead ==
  ASSUME Reader
  PROVE  UNCHANGED <<tables, removal, handlers, run>>
  <1>1. CASE Quiet /\ Event /\ \E k \in Walks : StartWalk(k)
    BY <1>1 DEF Reader, StartWalk
  <1>2. CASE \E l \in Lists : OpenList(l)
    BY <1>2 DEF Reader, OpenList
  <1>3. CASE \E u \in Screens : AskFigures(u)
    BY <1>3 DEF Reader, AskFigures
  <1>4. CASE Walk
    BY <1>4 DEF Reader, Walk, Round, Bundle, Features, Export, EndWalk
  <1>5. CASE List
    BY <1>5 DEF Reader, List, CountRows, ReadPage, CloseList
  <1>6. CASE Measure
    BY <1>6 DEF Reader, Measure, CountTransactions, CountSuppliers, ListOwn, CountPlots, CountFiles, StoreFigures,
                ReadFigures
  <1>7. CASE \E u \in Users : Outdated(u)
    BY <1>7 DEF Reader, Outdated
  <1> QED BY <1>1, <1>2, <1>3, <1>4, <1>5, <1>6, <1>7 DEF Reader

-----------------------------------------------------------------------------
(* Types of the tables, and what may happen to a transaction. *)

\* What a deletion has collected: an object that the admin site deletes, and pairs.
Collected ==
  /\ removal \in [object : Objects \cup {None}, rows : SUBSET Objects]
  /\ removal # NoRemoval =>
       /\ removal.object \in Objects /\ removal.object[1] \in Registered /\ removal.object \in removal.rows
       /\ \A r \in removal.rows : r = removal.object \/ r[1] \in {"participant", "input", "output"}

\* The season task works on transactions that are still there.
Running ==
  /\ DistributionTypeOK
  /\ run = [at |-> run.at, last |-> run.last, batch |-> run.batch, found |-> run.found]
  /\ run.batch \subseteq Written

Jobs == [at : {"free", "accept", "reject", "upload", "save", "file"}, key : Keys \cup {0},
         row : TransactionRow \cup {NoTransaction}, met : BOOLEAN]

\* A copy in memory is of a row that is there: the columns that nobody changes are the
\* row's, and a copy that nobody has overtaken has its status and its location too.
CopyOf(copy, row) ==
  /\ copy \in TransactionRow
  /\ copy.type = row.type /\ copy.commodity = row.commodity /\ copy.seller = row.seller
  /\ copy.buyer = row.buyer /\ copy.creator = row.creator /\ copy.batch = row.batch /\ copy.plot = row.plot
  /\ (copy.status # "pending" => row.status # "pending")

Copied(job, rows) ==
  job # NoWork =>
    /\ job.key \in Keys /\ rows[job.key] # NoTransaction /\ CopyOf(job.row, rows[job.key])
    /\ job.at \in {"accept", "reject"} => job.row.type = "downstream"
    /\ job.at = "accept" => job.row.seller \in Users /\ job.row.buyer \in Users
    /\ job.met = FALSE => job.row.status = rows[job.key].status
    /\ job.met = FALSE /\ job.at # "save" => job.row.location = rows[job.key].location

Handling == HandlersTypeOK /\ \A w \in Workers : Copied(work[w], trx)

Typed == SchemaTypeOK /\ Handling /\ Collected /\ Running

\* Of a transaction only its status, its location and its season change; only trades
\* are settled, and no settled one is pending again.
Lasts(old, new) ==
  /\ new \in TransactionRow
  /\ new.type = old.type /\ new.commodity = old.commodity /\ new.seller = old.seller /\ new.buyer = old.buyer
  /\ new.creator = old.creator /\ new.batch = old.batch
  /\ new.plot = old.plot /\ new.created = old.created
  /\ (old.status # "pending" => new.status # "pending")
  /\ (old.type # "downstream" => new.status = old.status)

\* Only the season changes.
Seasoned(old, new) == Lasts(old, new) /\ new.status = old.status /\ new.location = old.location

\* At most one transaction is written at a time, and it is the last in time; an
\* acceptance is final but for the record of one undone; files stay.
Grows ==
  /\ \A k \in Written : Lasts(trx[k], trx'[k])
  /\ \A k \in Written : trx[k].status = "accepted" /\ undone' = {} => trx'[k].status = "accepted"
  /\ \A k \in Keys \ Written : trx'[k] # NoTransaction =>
       /\ trx'[k] \in TransactionRow /\ trx'[k].created = Now
       /\ trx'[k].type # "conversion" /\ trx'[k].season = None
       /\ \A j \in Keys \ Written : trx'[j] # NoTransaction => j = k
  /\ undone' = {} => undone = {}
  /\ \A k \in Keys : file[k] # "none" => file'[k] # "none"

\* What everybody but the traders does to transactions.
Calm ==
  /\ \A k \in Written : Seasoned(trx[k], trx'[k])
  /\ \A k \in Keys \ Written : trx'[k] = NoTransaction
  /\ UNCHANGED <<file, handlers>>

LEMMA RowsAreThere ==
  /\ \A row \in TransactionRow : row # NoTransaction
  /\ \A row \in SeasonRow : row # NoSeason
  <1>1. ASSUME NEW row \in TransactionRow PROVE row # NoTransaction
    <2>1. row.type # NoTransaction.type
      BY DEF TransactionRow, NoTransaction
    <2> QED BY <2>1
  <1>2. ASSUME NEW row \in SeasonRow PROVE row # NoSeason
    <2>1. DOMAIN row = {"start", "end"}
      BY DEF SeasonRow
    <2>2. "absent" \in DOMAIN NoSeason
      BY DEF NoSeason
    <2> QED BY <2>1, <2>2
  <1> QED BY <1>1, <1>2

LEMMA WrittenRows ==
  ASSUME SchemaTypeOK
  PROVE  /\ \A k \in Written : k \in Keys /\ trx[k] \in TransactionRow
         /\ IsFiniteSet(Written) /\ Cardinality(Written) \in Nat
         /\ \A k \in Keys \ Written : trx[k] = NoTransaction /\ Now \in Moments
  <1>1. \A k \in Written : k \in Keys /\ trx[k] \in TransactionRow
    BY DEF SchemaTypeOK, TransactionTable, Written
  <1>2. Written \subseteq Keys
    BY DEF Written
  <1>3. IsFiniteSet(Written) /\ Cardinality(Written) \in Nat
    BY <1>2, SchemaAssumption, FS_Subset, FS_CardinalityType
  <1>4. ASSUME NEW k \in Keys \ Written PROVE trx[k] = NoTransaction /\ Now \in Moments
    <2>1. Cardinality(Written \cup {k}) = Cardinality(Written) + 1
      BY <1>3, FS_AddElement
    <2>2. Cardinality(Written \cup {k}) <= Cardinality(Keys) /\ Cardinality(Keys) \in Nat
      BY <1>2, SchemaAssumption, FS_Subset, FS_CardinalityType
    <2> QED BY <1>3, <2>1, <2>2 DEF Written, Now, Moments
  <1> QED BY <1>1, <1>3, <1>4

LEMMA NewRows ==
  ASSUME NEW at \in Moments
  PROVE  \A request \in [type : {"producer", "downstream"}, commodity : Commodities, seller : Users \cup {None},
                         buyer : Users \cup {None}, creator : Users, location : {"none", "manual", "file", "qr"},
                         plot : Plots \cup {None}] :
           /\ RowOf(request, at) \in TransactionRow
           /\ RowOf(request, at).type = request.type /\ RowOf(request, at).created = at
           /\ RowOf(request, at).season = None /\ RowOf(request, at).commodity = request.commodity
  BY DEF RowOf, TransactionRow

LEMMA StatusLasts ==
  ASSUME NEW row \in TransactionRow, NEW s \in {"accepted", "rejected"}, row.type = "downstream"
  PROVE  /\ Lasts(row, [row EXCEPT !.status = s])
         /\ [row EXCEPT !.status = s].season = row.season /\ [row EXCEPT !.status = s].status = s
         /\ [row EXCEPT !.status = s].location = row.location
  BY DEF Lasts, TransactionRow

LEMMA LocationLasts ==
  ASSUME NEW row \in TransactionRow, NEW l \in {"none", "manual", "file", "qr"}
  PROVE  /\ Lasts(row, [row EXCEPT !.location = l])
         /\ [row EXCEPT !.location = l].season = row.season /\ [row EXCEPT !.location = l].status = row.status
         /\ [row EXCEPT !.location = l].location = l
  BY DEF Lasts, TransactionRow

LEMMA SeasonLasts ==
  ASSUME NEW row \in TransactionRow, NEW s \in Seasons \cup {None}
  PROVE  Seasoned(row, [row EXCEPT !.season = s]) /\ [row EXCEPT !.season = s].season = s
  BY DEF Seasoned, Lasts, TransactionRow

LEMMA NothingLasts ==
  ASSUME NEW row \in TransactionRow
  PROVE  Seasoned(row, row) /\ Lasts(row, row)
  BY DEF Seasoned, Lasts

LEMMA HistoryDomain ==
  ASSUME NEW objects, Recorded(objects)
  PROVE  DOMAIN history' = Objects
  BY DEF Recorded

LEMMA SavedDomain ==
  ASSUME NEW instances, Saved(instances)
  PROVE  DOMAIN history' = Objects
  BY DEF Saved

LEMMA RowLasts ==
  ASSUME SchemaTypeOK, Grows, NEW k \in Written
  PROVE  Lasts(trx[k], trx'[k]) /\ trx'[k] # NoTransaction /\ k \in Written'
  <1>1. Lasts(trx[k], trx'[k])
    BY DEF Grows
  <1> QED BY <1>1, RowsAreThere DEF Lasts, Written

LEMMA QuietIsCalm ==
  ASSUME SchemaTypeOK, UNCHANGED <<trx, file, handlers>>
  PROVE  Calm
  BY WrittenRows, NothingLasts DEF Calm

LEMMA CalmGrows ==
  ASSUME SchemaTypeOK, Calm
  PROVE  Grows /\ Written' = Written
  <1>1. Written' = Written
    BY RowsAreThere DEF Calm, Seasoned, Lasts, Written
  <1>2. UNCHANGED <<file, undone>>
    BY DEF Calm, handlers
  <1> QED BY <1>1, <1>2 DEF Calm, Seasoned, Grows

\* The copies of the others stay copies.
LEMMA CalmHandling ==
  ASSUME SchemaTypeOK, Handling, Calm
  PROVE  Handling'
  <1>1. Written' = Written
    BY CalmGrows
  <1>2. UNCHANGED <<work, stale, undone>>
    BY DEF Calm, handlers
  <1>3. HandlersTypeOK'
    BY <1>2 DEF Handling, HandlersTypeOK
  <1>4. ASSUME NEW w \in Workers PROVE Copied(work[w], trx')
    <2> DEFINE job == work[w]
    <2>1. Copied(job, trx)
      BY DEF Handling
    <2>2. job # NoWork => job.key \in Written
      BY <2>1 DEF Copied, Written
    <2>3. job # NoWork => Seasoned(trx[job.key], trx'[job.key]) /\ trx'[job.key] # NoTransaction
      BY <1>1, <2>2 DEF Calm, Written
    <2> HIDE DEF job
    <2>4. job # NoWork => CopyOf(job.row, trx'[job.key])
      BY <2>1, <2>3 DEF Copied, CopyOf, Seasoned, Lasts
    <2>5. job # NoWork => trx'[job.key].status = trx[job.key].status /\ trx'[job.key].location = trx[job.key].location
      BY <2>3 DEF Seasoned
    <2>6. job # NoWork => Copied(job, trx')
      BY <2>1, <2>3, <2>4, <2>5 DEF Copied
    <2> QED BY <2>6 DEF Copied, job
  <1> QED BY <1>2, <1>3, <1>4 DEF Handling

-----------------------------------------------------------------------------
(* The traders' own steps. *)

LEMMA NoWorkThere ==
  ASSUME NEW job, job.at # "free"
  PROVE  job # NoWork
  BY DEF NoWork

LEMMA JobsAreTyped ==
  /\ HandlersTypeOK <=> work \in [Workers -> Jobs] /\ stale \subseteq Keys /\ undone \subseteq Keys
  /\ HandlersTypeOK' <=> work' \in [Workers -> Jobs] /\ stale' \subseteq Keys /\ undone' \subseteq Keys
  BY DEF HandlersTypeOK, Jobs

\* A new row: everybody's copies are of other rows.
LEMMA TradeTyped ==
  ASSUME SchemaTypeOK, Handling, NEW w \in Workers, NEW request \in Requests, NEW k \in Keys,
         Trade(w, request, k)
  PROVE  SchemaTypeOK' /\ Handling' /\ Grows
  <1> USE DEF SchemaTypeOK
  <1>1. request \in Request
    BY RecordsAssumption
  <1>2. k \in Keys \ Written
    BY DEF Trade, Written
  <1> DEFINE row == RowOf(request, Now)
             job == [at |-> "file", key |-> k, row |-> row, met |-> FALSE]
  <1>3. row \in TransactionRow /\ row.type # "conversion" /\ row.created = Now /\ row.season = None
    BY <1>1, <1>2, WrittenRows, NewRows DEF Request
  <1>4. trx' = [trx EXCEPT ![k] = row] /\ UNCHANGED <<file, stale, undone>>
        /\ (work' = work \/ work' = [work EXCEPT ![w] = job])
    BY DEF Trade
  <1> HIDE DEF row
  <1>5. trx' \in TransactionTable
    BY <1>3, <1>4 DEF TransactionTable
  <1>6. \A j \in Written : trx'[j] = trx[j]
    BY <1>2, <1>4 DEF Written, TransactionTable
  <1>7. \A j \in Keys \ Written : trx'[j] = IF j = k THEN row ELSE NoTransaction
    BY <1>4, WrittenRows DEF TransactionTable
  <1>8. Grows
    BY <1>3, <1>4, <1>6, <1>7, WrittenRows, NothingLasts DEF Grows
  <1>9. request.type = "producer" => <<request.buyer, request.commodity>> \in Users \X Commodities
    BY <1>1 DEF Request
  <1>10. balance' \in BalanceTable
    BY <1>9 DEF Trade, BalanceTable
  <1>11. DOMAIN history' = Objects
    BY HistoryDomain DEF Trade
  <1>12. SchemaTypeOK'
    BY <1>5, <1>10, <1>11 DEF Trade, catalogue
  <1>18. job \in Jobs
    BY <1>2, <1>3 DEF Jobs
  <1>13. HandlersTypeOK'
    <2> HIDE DEF job
    <2> QED BY <1>4, <1>18, JobsAreTyped DEF Handling
  <1>14. Copied(job, trx')
    <2>1. trx'[k] = row /\ row # NoTransaction
      BY <1>2, <1>3, <1>7, RowsAreThere
    <2> QED BY <1>3, <2>1 DEF Copied, CopyOf
  <1>15. ASSUME NEW v \in Workers PROVE Copied(work[v], trx')
    <2>1. Copied(work[v], trx)
      BY DEF Handling
    <2>2. work[v] # NoWork => work[v].key \in Written
      BY <2>1 DEF Copied, Written
    <2> QED BY <1>6, <2>1, <2>2 DEF Copied
  <1>16. \A v \in Workers : work'[v] = work[v] \/ work'[v] = job
    BY <1>4 DEF Handling, HandlersTypeOK
  <1> HIDE DEF job
  <1>17. \A v \in Workers : Copied(work'[v], trx')
    BY <1>14, <1>15, <1>16
  <1> QED BY <1>8, <1>12, <1>13, <1>17 DEF Handling

\* Steps that leave the transactions alone.
LEMMA HandsTyped ==
  ASSUME SchemaTypeOK, Handling, UNCHANGED <<commodity, group, season, participant, recipe, input, output, balance,
                                             trx, history, stale, undone>>,
         file' \in FileTable, \A k \in Keys : file[k] # "none" => file'[k] # "none",
         NEW w \in Workers, NEW job \in Jobs,
         Copied(job, trx), work' = [work EXCEPT ![w] = job]
  PROVE  SchemaTypeOK' /\ Handling' /\ Grows
  <1>1. SchemaTypeOK'
    BY DEF SchemaTypeOK
  <1>2. Grows
    BY WrittenRows, NothingLasts DEF Grows
  <1>3. HandlersTypeOK'
    BY JobsAreTyped DEF Handling
  <1>4. \A v \in Workers : work'[v] = work[v] \/ work'[v] = job
    BY JobsAreTyped DEF Handling
  <1> QED BY <1>1, <1>2, <1>3, <1>4 DEF Handling

LEMMA ReadTyped ==
  ASSUME SchemaTypeOK, Handling, NEW w \in Workers, NEW at \in {"accept", "reject", "upload"}, NEW k \in Written,
         Read(w, at, k), at # "upload" => Pending(k), at = "accept" => None \notin {trx[k].seller, trx[k].buyer}
  PROVE  SchemaTypeOK' /\ Handling' /\ Grows
  <1> DEFINE job == [at |-> at, key |-> k, row |-> trx[k], met |-> FALSE]
  <1>1. k \in Keys /\ trx[k] \in TransactionRow /\ trx[k] # NoTransaction
    BY WrittenRows, RowsAreThere
  <1>2. Copied(job, trx)
    BY <1>1 DEF Copied, CopyOf, Pending, TransactionRow
  <1>3. work' = [work EXCEPT ![w] = job] /\ UNCHANGED <<tables, stale, undone>>
    BY DEF Read
  <1>4. job \in Jobs
    BY <1>1 DEF Jobs
  <1> HIDE DEF job
  <1> QED BY <1>2, <1>3, <1>4, HandsTyped DEF tables, SchemaTypeOK

LEMMA UploadTyped ==
  ASSUME SchemaTypeOK, Handling, NEW w \in Workers, NEW u \in Uploads, Upload(w, u[1], u[2])
  PROVE  SchemaTypeOK' /\ Handling' /\ Grows
  <1> DEFINE old == work[w]
             copy == [old.row EXCEPT !.location = u[1]]
             job == [at |-> "save", key |-> old.key, met |-> old.met, row |-> copy]
  <1>1. u[1] \in {"file", "qr"} /\ u[2] \in {"invalid", "valid"}
    BY RecordsAssumption
  <1>2. old.at = "upload" /\ old # NoWork /\ Copied(old, trx)
    BY NoWorkThere DEF Upload, Handling
  <1>3. old \in Jobs
    BY JobsAreTyped DEF Handling
  <1>4. file' = [file EXCEPT ![old.key] = u[2]]
        /\ UNCHANGED <<catalogue, balance, trx, history, stale, undone>>
    BY DEF Upload
  <1>5. work' = [work EXCEPT ![w] = job]
    BY DEF Upload
  <1> HIDE DEF old
  <1>6. Lasts(old.row, copy) /\ copy.status = old.row.status
    BY <1>1, <1>2, LocationLasts DEF Copied, CopyOf
  <1> HIDE DEF copy
  <1>7. Copied(job, trx)
    BY <1>2, <1>6 DEF Copied, CopyOf, Lasts
  <1>8. job \in Jobs
    BY <1>3, <1>6 DEF Lasts, Jobs
  <1>9. file' \in FileTable /\ \A k \in Keys : file[k] # "none" => file'[k] # "none"
    BY <1>1, <1>4 DEF SchemaTypeOK, FileTable
  <1> HIDE DEF job
  <1> QED BY <1>4, <1>5, <1>7, <1>8, <1>9, HandsTyped DEF catalogue

LEMMA LeaveTyped ==
  ASSUME SchemaTypeOK, Handling, NEW w \in Workers,
         Abandon(w) \/ \E content \in {"invalid", "valid"} : UploadNew(w, content)
  PROVE  SchemaTypeOK' /\ Handling' /\ Grows
  <1>1. work' = [work EXCEPT ![w] = NoWork]
        /\ UNCHANGED <<commodity, group, season, participant, recipe, input, output, balance, trx, history, stale, undone>>
    BY DEF Abandon, UploadNew, tables, catalogue
  <1>2. Copied(NoWork, trx)
    BY DEF Copied
  <1>3. NoWork \in Jobs
    BY DEF NoWork, Jobs
  <1>4. file' \in FileTable /\ \A k \in Keys : file[k] # "none" => file'[k] # "none"
    BY DEF Abandon, UploadNew, tables, SchemaTypeOK, FileTable
  <1> QED BY <1>1, <1>2, <1>3, <1>4, HandsTyped

\* A save changes one row, and the other copies of it know.
LEMMA Finished ==
  ASSUME SchemaTypeOK, SchemaTypeOK', Handling, NEW w \in Workers, work[w] # NoWork, Finish(w), Grows,
         undone' \subseteq Keys, \A j \in Written \ {work[w].key} : trx'[j] = trx[j]
  PROVE  Handling'
  <1> DEFINE k == work[w].key
  <1>1. k \in Keys /\ k \in Written /\ Lasts(trx[k], trx'[k]) /\ trx'[k] # NoTransaction
    <2>1. Copied(work[w], trx)
      BY DEF Handling
    <2>2. k \in Keys /\ k \in Written
      BY <2>1 DEF Copied, Written
    <2> QED BY <2>2, RowLasts
  <1>2. /\ work' = [v \in Workers |-> IF v = w THEN NoWork
                                     ELSE IF work[v].key = k THEN [work[v] EXCEPT !.met = TRUE] ELSE work[v]]
        /\ stale' = IF work[w].met THEN stale \cup {k} ELSE stale \ {k}
    BY DEF Finish
  <1> HIDE DEF k
  <1>3. ASSUME NEW v \in Workers
        PROVE  /\ Copied(work'[v], trx')
               /\ work'[v] \in Jobs
    <2>1. CASE v = w
      <3>1. work'[v] = NoWork
        BY <1>2, <2>1
      <3>2. Copied(NoWork, trx') /\ NoWork \in Jobs
        BY DEF Copied, NoWork, Jobs
      <3> QED BY <3>1, <3>2
    <2>2. CASE v # w
      <3> DEFINE old == work[v]
                 job == [old EXCEPT !.met = TRUE]
      <3>1. work'[v] = IF old.key = k THEN job ELSE old
        BY <1>2, <2>2
      <3>2. old \in Jobs
        BY JobsAreTyped DEF Handling
      <3>3. Copied(old, trx)
        BY DEF Handling
      <3> HIDE DEF old
      <3>4. job \in Jobs /\ job.at = old.at /\ job.key = old.key /\ job.row = old.row /\ job.met = TRUE
        BY <3>2 DEF Jobs
      <3> HIDE DEF job
      <3>5. CASE old = NoWork
        <4>1. old.key # k
          BY <1>1, <3>5, SchemaAssumption DEF NoWork
        <4> QED BY <3>1, <3>2, <3>5, <4>1 DEF Copied
      <3>6. CASE old # NoWork /\ old.key = k
        <4>1. CopyOf(old.row, trx'[k])
          BY <1>1, <3>3, <3>6 DEF Copied, CopyOf, Lasts
        <4>2. Copied(job, trx')
          BY <1>1, <3>3, <3>4, <3>6, <4>1 DEF Copied
        <4> QED BY <3>1, <3>4, <3>6, <4>2
      <3>7. CASE old # NoWork /\ old.key # k
        <4>1. old.key \in Written
          BY <3>3, <3>7 DEF Copied, Written
        <4>2. trx'[old.key] = trx[old.key]
          BY <3>7, <4>1 DEF k
        <4> QED BY <3>1, <3>2, <3>3, <3>7, <4>2 DEF Copied
      <3> QED BY <3>5, <3>6, <3>7
    <2> QED BY <2>1, <2>2
  <1>4. work' = [v \in Workers |-> work'[v]]
    BY <1>2
  <1>5. stale' \subseteq Keys
    BY <1>1, <1>2 DEF Handling, HandlersTypeOK
  <1>6. HandlersTypeOK'
    BY <1>3, <1>4, <1>5, JobsAreTyped
  <1> QED BY <1>3, <1>6 DEF Handling

\* What a worker that saves has read.
LEMMA CopyAtHand ==
  ASSUME SchemaTypeOK, Handling, NEW w \in Workers, work[w].at \in {"accept", "reject", "save"}
  PROVE  /\ work[w] # NoWork /\ Copied(work[w], trx)
         /\ work[w].key \in Keys /\ work[w].key \in Written
         /\ trx[work[w].key] \in TransactionRow /\ work[w].row \in TransactionRow
         /\ CopyOf(work[w].row, trx[work[w].key])
         /\ work[w].at # "save" => trx[work[w].key].type = "downstream"
  <1>1. work[w] # NoWork /\ Copied(work[w], trx)
    BY NoWorkThere DEF Handling
  <1>2. work[w].key \in Keys /\ work[w].key \in Written
    BY <1>1 DEF Copied, Written
  <1> QED BY <1>1, <1>2, WrittenRows DEF Copied, CopyOf

LEMMA AcceptTyped ==
  ASSUME SchemaTypeOK, Handling, NEW w \in Workers, NEW auto \in SUBSET Keys, Accept(w, auto)
  PROVE  SchemaTypeOK' /\ Handling' /\ Grows
  <1> DEFINE k == work[w].key
             copy == work[w].row
             row == [trx[k] EXCEPT !.status = "accepted"]
  <1>1. /\ k \in Keys /\ k \in Written /\ trx[k] \in TransactionRow /\ trx[k].type = "downstream"
        /\ copy \in TransactionRow /\ copy.seller \in Users /\ copy.buyer \in Users /\ copy.commodity \in Commodities
        /\ work[w] # NoWork
    <2>1. work[w].at = "accept"
      BY DEF Accept
    <2> QED BY <2>1, CopyAtHand DEF Copied, TransactionRow
  <1>2. auto = {} \/ \E a \in Keys \ Written : auto = {a}
    BY DEF Accept
  <1>3. Lasts(trx[k], row) /\ row.status = "accepted"
    BY <1>1, StatusLasts
  <1>4. \/ auto = {}
        \/ /\ Automatic(copy, Now) \in TransactionRow /\ Automatic(copy, Now).type # "conversion"
           /\ Automatic(copy, Now).created = Now /\ Automatic(copy, Now).season = None
    BY <1>1, <1>2, WrittenRows, NewRows DEF Automatic
  <1>5. trx' = [j \in Keys |-> IF j = k THEN row ELSE IF j \in auto THEN Automatic(copy, Now) ELSE trx[j]]
        /\ balance' = balance \cup ({copy.seller, copy.buyer} \X {copy.commodity})
        /\ Finish(w) /\ UNCHANGED <<catalogue, file, undone>>
    BY DEF Accept
  <1>6. DOMAIN history' = Objects
    BY SavedDomain DEF Accept
  <1> HIDE DEF row, copy, k
  <1>7. trx' \in TransactionTable
    BY <1>2, <1>3, <1>4, <1>5 DEF TransactionTable, Lasts, SchemaTypeOK
  <1>8. \A j \in Written : trx'[j] = trx[j] \/ (j = k /\ trx'[j] = row)
    BY <1>2, <1>5 DEF Written
  <1>9. \A j \in Keys \ Written : trx'[j] = IF j \in auto THEN Automatic(copy, Now) ELSE NoTransaction
    BY <1>1, <1>5, WrittenRows
  <1>10. \A j \in Written : Lasts(trx[j], trx'[j]) /\ (trx[j].status = "accepted" => trx'[j].status = "accepted")
    BY <1>3, <1>8, WrittenRows, NothingLasts
  <1>11. Grows
    BY <1>2, <1>4, <1>5, <1>9, <1>10 DEF Grows
  <1>12. balance' \in BalanceTable
    BY <1>1, <1>5 DEF BalanceTable, SchemaTypeOK
  <1>13. SchemaTypeOK'
    BY <1>5, <1>6, <1>7, <1>12 DEF catalogue, SchemaTypeOK
  <1>14. \A j \in Written \ {work[w].key} : trx'[j] = trx[j]
    BY <1>8 DEF k
  <1>15. undone' \subseteq Keys
    BY <1>5 DEF Handling, HandlersTypeOK
  <1> QED BY <1>1, <1>5, <1>11, <1>13, <1>14, <1>15, Finished

LEMMA RejectTyped ==
  ASSUME SchemaTypeOK, Handling, NEW w \in Workers, Reject(w)
  PROVE  SchemaTypeOK' /\ Handling' /\ Grows
  <1> DEFINE k == work[w].key
             row == [trx[k] EXCEPT !.status = "rejected"]
  <1>1. /\ k \in Keys /\ k \in Written /\ trx[k] \in TransactionRow /\ trx[k].type = "downstream"
        /\ work[w] # NoWork
    <2>1. work[w].at = "reject"
      BY DEF Reject
    <2> QED BY <2>1, CopyAtHand
  <1>2. Lasts(trx[k], row)
    BY <1>1, StatusLasts
  <1>3. trx' = [trx EXCEPT ![k] = row] /\ Finish(w) /\ (undone' = IF trx[k].status = "accepted" THEN undone \cup {k} ELSE undone)
        /\ undone' \subseteq Keys /\ UNCHANGED <<catalogue, balance, file>>
    BY <1>1, JobsAreTyped DEF Reject, Handling
  <1>4. DOMAIN history' = Objects
    BY SavedDomain DEF Reject
  <1> HIDE DEF row, k
  <1>5. trx' \in TransactionTable
    BY <1>2, <1>3 DEF TransactionTable, Lasts, SchemaTypeOK
  <1>6. \A j \in Keys : trx'[j] = IF j = k THEN row ELSE trx[j]
    BY <1>3 DEF TransactionTable, SchemaTypeOK
  <1>7. \A j \in Written : Lasts(trx[j], trx'[j]) /\ (trx[j].status = "accepted" /\ undone' = {} => trx'[j].status = "accepted")
    BY <1>2, <1>3, <1>6, WrittenRows, NothingLasts
  <1>8. \A j \in Keys \ Written : trx'[j] = NoTransaction
    BY <1>1, <1>6, WrittenRows
  <1>9. Grows
    BY <1>3, <1>7, <1>8 DEF Grows
  <1>10. SchemaTypeOK'
    BY <1>3, <1>4, <1>5 DEF catalogue, SchemaTypeOK
  <1>11. \A j \in Written \ {work[w].key} : trx'[j] = trx[j]
    BY <1>6 DEF k, Written
  <1> QED BY <1>1, <1>3, <1>9, <1>10, <1>11, Finished

LEMMA SaveTyped ==
  ASSUME SchemaTypeOK, Handling, NEW w \in Workers, SaveLocation(w)
  PROVE  SchemaTypeOK' /\ Handling' /\ Grows
  <1> DEFINE k == work[w].key
             l == work[w].row.location
             row == [trx[k] EXCEPT !.location = l]
  <1>1. /\ k \in Keys /\ k \in Written /\ trx[k] \in TransactionRow /\ work[w] # NoWork
        /\ l \in {"none", "manual", "file", "qr"}
    <2>1. work[w].at = "save"
      BY DEF SaveLocation
    <2> QED BY <2>1, CopyAtHand DEF TransactionRow
  <1>2. trx' = [trx EXCEPT ![k] = row] /\ Finish(w) /\ UNCHANGED <<catalogue, balance, file, undone>>
    BY DEF SaveLocation
  <1>3. DOMAIN history' = Objects
    BY SavedDomain DEF SaveLocation
  <1> HIDE DEF l, k
  <1>4. Lasts(trx[k], row) /\ row.status = trx[k].status
    BY <1>1, LocationLasts
  <1> HIDE DEF row
  <1>5. trx' \in TransactionTable
    BY <1>2, <1>4 DEF TransactionTable, Lasts, SchemaTypeOK
  <1>6. \A j \in Keys : trx'[j] = IF j = k THEN row ELSE trx[j]
    BY <1>2 DEF TransactionTable, SchemaTypeOK
  <1>7. \A j \in Written : Lasts(trx[j], trx'[j]) /\ (trx[j].status = "accepted" => trx'[j].status = "accepted")
    BY <1>4, <1>6, WrittenRows, NothingLasts DEF Written
  <1>8. \A j \in Keys \ Written : trx'[j] = NoTransaction
    BY <1>1, <1>6, WrittenRows
  <1>9. Grows
    BY <1>2, <1>7, <1>8 DEF Grows
  <1>10. SchemaTypeOK'
    BY <1>2, <1>3, <1>5 DEF catalogue, SchemaTypeOK
  <1>11. \A j \in Written \ {work[w].key} : trx'[j] = trx[j]
    BY <1>6 DEF k, Written
  <1>12. undone' \subseteq Keys
    BY <1>2 DEF Handling, HandlersTypeOK
  <1> QED BY <1>1, <1>2, <1>9, <1>10, <1>11, <1>12, Finished

LEMMA TraderTyped ==
  ASSUME SchemaTypeOK, Handling, StepOfTrader
  PROVE  SchemaTypeOK' /\ Handling' /\ Grows
  BY TradeTyped, ReadTyped, UploadTyped, LeaveTyped, AcceptTyped, RejectTyped, SaveTyped DEF StepOfTrader

-----------------------------------------------------------------------------
(* The steps of the others. *)

LEMMA FormTyped ==
  ASSUME SchemaTypeOK, StepOfForm, UNCHANGED handlers
  PROVE  SchemaTypeOK' /\ Calm
  <1> USE DEF SchemaTypeOK
  <1>1. ASSUME NEW e \in SeasonEdits, SaveSeason(e[1], e[2], e[3])
        PROVE  SchemaTypeOK' /\ UNCHANGED <<trx, file>>
    <2>1. e[1] \in Seasons /\ e[2] \in SeasonRow /\ e[3] \in SUBSET Commodities
      BY RecordsAssumption
    <2>2. season' \in SeasonTable
      BY <1>1, <2>1 DEF SaveSeason, SeasonTable
    <2>3. participant' \in ParticipantTable
      BY <1>1, <2>1 DEF SaveSeason, ParticipantTable
    <2>4. DOMAIN history' = Objects
      BY <1>1, HistoryDomain DEF SaveSeason
    <2> QED BY <1>1, <2>2, <2>3, <2>4 DEF SaveSeason
  <1>2. ASSUME NEW e \in RecipeEdits, SaveRecipe(e[1], e[2], e[3])
        PROVE  SchemaTypeOK' /\ UNCHANGED <<trx, file>>
    <2>1. e[1] \in Recipes /\ e[2] \in SUBSET Commodities /\ e[3] \in SUBSET Commodities
      BY RecordsAssumption
    <2>2. recipe' \in RecipeTable /\ input' \in InputTable /\ output' \in OutputTable
      BY <1>2, <2>1 DEF SaveRecipe, RecipeTable, InputTable, OutputTable
    <2>3. DOMAIN history' = Objects
      BY <1>2, HistoryDomain DEF SaveRecipe
    <2> QED BY <1>2, <2>2, <2>3 DEF SaveRecipe
  <1>3. ASSUME NEW e \in CommodityEdits, SaveCommodity(e[1], e[2])
        PROVE  SchemaTypeOK' /\ UNCHANGED <<trx, file>>
    <2>1. e[1] \in Commodities /\ e[2] \in Groups
      BY RecordsAssumption
    <2>2. commodity' \in CommodityTable
      BY <1>3, <2>1 DEF SaveCommodity, CommodityTable
    <2>3. DOMAIN history' = Objects
      BY <1>3, HistoryDomain DEF SaveCommodity
    <2> QED BY <1>3, <2>2, <2>3 DEF SaveCommodity
  <1> QED BY <1>1, <1>2, <1>3, QuietIsCalm DEF StepOfForm

\* No deletion collects a transaction: the reference to a commodity is PROTECT, the
\* one to a season SET_NULL.
LEMMA TransactionsAreNotCollected ==
  ASSUME Collected, removal # NoRemoval, NEW k
  PROVE  <<"transaction", k>> \notin removal.rows
  <1>1. <<"transaction", k>>[1] = "transaction"
    OBVIOUS
  <1> QED BY <1>1 DEF Collected, Registered

LEMMA DeleteTyped ==
  ASSUME SchemaTypeOK, Collected, Delete, UNCHANGED handlers
  PROVE  SchemaTypeOK' /\ Calm /\ Collected'
  <1>0. Collected'
    BY DEF Delete, Collected, NoRemoval
  <1> USE DEF SchemaTypeOK
  <1> DEFINE o == removal.object
             rows == removal.rows
  <1>1. CASE UNCHANGED tables
    <2>1. UNCHANGED <<trx, file>>
      BY <1>1 DEF tables
    <2> QED BY <1>0, <1>1, <2>1, QuietIsCalm DEF tables
  <1>2. CASE (Protectors(o) \cup Dependents(o)) \subseteq rows
    <2> USE <1>2 DEF Delete
    <2>1. group' \in GroupTable /\ participant' \in ParticipantTable /\ recipe' \in RecipeTable
          /\ input' \in InputTable /\ output' \in OutputTable /\ balance' \in BalanceTable
      BY DEF GroupTable, ParticipantTable, RecipeTable, InputTable, OutputTable
    <2>2. commodity' \in CommodityTable
      BY DEF CommodityTable
    <2>3. season' \in SeasonTable
      BY DEF SeasonTable
    <2>4. \A k \in Keys : trx'[k] = IF k \in Forgotten(o) THEN [trx[k] EXCEPT !.season = None] ELSE trx[k]
      BY TransactionsAreNotCollected
    <2>5. trx' = [k \in Keys |-> trx'[k]]
      OBVIOUS
    <2>6. Forgotten(o) \subseteq Written
      BY DEF Forgotten
    <2>7. DOMAIN history' = Objects
      BY HistoryDomain
    <2> HIDE DEF Delete
    <2>8. \A k \in Written : Seasoned(trx[k], trx'[k])
      <3> SUFFICES ASSUME NEW k \in Written PROVE Seasoned(trx[k], trx'[k])
        OBVIOUS
      <3>1. k \in Keys /\ trx[k] \in TransactionRow
        BY WrittenRows
      <3>2. Seasoned(trx[k], [trx[k] EXCEPT !.season = None])
        BY <3>1, SeasonLasts
      <3>3. Seasoned(trx[k], trx[k])
        BY <3>1, NothingLasts
      <3> QED BY <2>4, <3>1, <3>2, <3>3
    <2>9. \A k \in Keys \ Written : trx'[k] = NoTransaction
      BY <2>4, <2>6, WrittenRows
    <2>10. trx' \in TransactionTable
      BY <2>5, <2>8, <2>9 DEF TransactionTable, Seasoned, Lasts
    <2>12. UNCHANGED file
      BY DEF Delete
    <2>11. Calm
      BY <2>8, <2>9, <2>12 DEF Calm
    <2> QED BY <1>0, <2>1, <2>2, <2>3, <2>7, <2>10, <2>11, <2>12
  <1> QED BY <1>1, <1>2 DEF Delete

LEMMA CollectTyped ==
  ASSUME SchemaTypeOK, Collected, NEW o \in Objects, Collect(o), UNCHANGED handlers
  PROVE  SchemaTypeOK' /\ Calm /\ Collected'
  <1>1. UNCHANGED tables /\ removal' = [object |-> o, rows |-> {o} \cup Dependents(o)]
        /\ o[1] \in Registered
    BY DEF Collect
  <1>2. Dependents(o) \subseteq Objects /\ \A r \in Dependents(o) : r[1] \in {"participant", "input", "output"}
    BY DEF SchemaTypeOK, Dependents, Objects, ParticipantTable, InputTable, OutputTable
  <1> DEFINE rows == {o} \cup Dependents(o)
  <1>3. rows \in SUBSET Objects
    BY <1>2
  <1>4. \A r \in rows : r = o \/ r[1] \in {"participant", "input", "output"}
    BY <1>2
  <1>5. removal' = [object |-> o, rows |-> rows]
    BY <1>1
  <1>6. o \in rows
    OBVIOUS
  <1> HIDE DEF rows
  <1>7. Collected'
    BY <1>1, <1>3, <1>4, <1>5, <1>6 DEF Collected
  <1>8. SchemaTypeOK' /\ UNCHANGED <<trx, file>>
    BY <1>1 DEF tables, SchemaTypeOK
  <1> QED BY <1>7, <1>8, QuietIsCalm
-----------------------------------------------------------------------------
(* The season task. *)

\* The season with the first start date, and of those the first in the order of keys.
LEMMA MatchingIsASeason ==
  ASSUME SchemaTypeOK, NEW created, NEW c
  PROVE  MatchingSeason(created, c) \in Seasons \cup {None}
  <1> DEFINE matching == {s \in OpenSeasons : Covers(s, created) /\ <<s, c>> \in participant}
             start(u) == IF season[u].start = 0 THEN Cardinality(Keys) + 1 ELSE season[u].start
             starts == {start(s) : s \in matching}
  <1> SUFFICES ASSUME matching # {} PROVE \E s \in matching : \A t \in matching : Before(s, t)
    BY DEF MatchingSeason, OpenSeasons
  <1>1. matching \subseteq Seasons /\ Seasons \subseteq Nat /\ IsFiniteSet(Seasons) /\ IsFiniteSet(Keys)
    BY SchemaAssumption DEF OpenSeasons
  <1>2. IsFiniteSet(matching) /\ Cardinality(Keys) \in Nat
    BY <1>1, FS_Subset, FS_CardinalityType
  <1>3. \A s \in matching : season[s] \in SeasonRow
    BY <1>1 DEF SchemaTypeOK, SeasonTable, OpenSeasons
  <1>4. \A s \in matching : start(s) \in Nat
    BY <1>2, <1>3 DEF SeasonRow, Moments
  <1> HIDE DEF start
  <1>5. IsFiniteSet(starts) /\ starts \subseteq Nat /\ starts # {}
    <2> HIDE DEF matching
    <2> DEFINE f == [s \in matching |-> start(s)]
    <2>1. IsFiniteSet(starts)
      <3>1. starts = {f[s] : s \in matching}
        OBVIOUS
      <3> HIDE DEF f, starts
      <3> QED BY <1>2, <3>1, ImageIsFinite
    <2> QED BY <1>4, <2>1
  <1>6. PICK a \in starts : \A b \in starts : a =< b
    <2> HIDE DEF starts
    <2> QED BY <1>5, Extremes
  <1> DEFINE first == {s \in matching : start(s) = a}
  <1>7. first # {} /\ first \subseteq Nat /\ IsFiniteSet(first)
    <2>1. first \subseteq matching
      OBVIOUS
    <2> QED BY <1>1, <1>2, <1>6, <2>1, FS_Subset
  <1>8. PICK s \in first : \A t \in first : s =< t
    <2> HIDE DEF first
    <2> QED BY <1>7, Extremes
  <1>9. ASSUME NEW t \in matching PROVE start(s) < start(t) \/ (start(s) = start(t) /\ s <= t)
    <2>1. start(s) = a /\ start(t) \in starts /\ a =< start(t) /\ a \in Nat /\ start(t) \in Nat
      BY <1>4, <1>6, <1>8
    <2>2. CASE t \in first
      BY <1>8, <2>1, <2>2
    <2>3. CASE t \notin first
      BY <2>1, <2>3
    <2> QED BY <2>2, <2>3
  <1>10. \A t \in matching : Before(s, t)
    BY <1>9 DEF Before, start
  <1> QED BY <1>8, <1>10

LEMMA StaysRunning ==
  ASSUME SchemaTypeOK, Running, UNCHANGED run, Grows, SchemaTypeOK'
  PROVE  Running'
  <1>1. \A k \in Written : k \in Written'
    BY RowLasts
  <1> QED BY <1>1 DEF Running, DistributionTypeOK

LEMMA DistributeTyped ==
  ASSUME SchemaTypeOK, Running, Distribute, UNCHANGED handlers
  PROVE  SchemaTypeOK' /\ Running' /\ Calm
  <1>1. CASE Start
    <2>1. SchemaTypeOK' /\ UNCHANGED <<trx, file>>
      BY <1>1 DEF Start, tables, SchemaTypeOK
    <2>2. run' = [at |-> "read", last |-> 0, batch |-> {}, found |-> <<>>]
      BY <1>1 DEF Start, NoRun
    <2>3. DOMAIN <<>> = {}
      OBVIOUS
    <2>4. Running'
      BY <2>2, <2>3 DEF Running, DistributionTypeOK
    <2> QED BY <2>1, <2>4, QuietIsCalm
  <1>2. CASE ReadBatch
    <2>1. SchemaTypeOK' /\ UNCHANGED <<trx, file>>
      BY <1>2 DEF ReadBatch, tables, SchemaTypeOK
    <2> DEFINE batch == FirstOf({k \in Written : trx[k].season = None /\ k > run.last})
    <2>2. batch \subseteq Written /\ batch \subseteq Keys /\ Keys \subseteq Nat
      BY SchemaAssumption DEF FirstOf, Written
    <2>3. run' = IF batch = {} THEN NoRun ELSE [at |-> "match", last |-> Max(batch), batch |-> batch, found |-> <<>>]
      BY <1>2 DEF ReadBatch
    <2> HIDE DEF batch
    <2>4. DOMAIN <<>> = {}
      OBVIOUS
    <2>5. batch # {} => Max(batch) \in Keys
      <3>1. IsFiniteSet(batch)
        BY <2>2, SchemaAssumption, FS_Subset
      <3>2. batch # {} => \E x \in batch : \A y \in batch : x >= y
        BY <2>2, <3>1, Extremes
      <3>3. batch # {} => Max(batch) \in batch
        BY <3>2 DEF Max
      <3> QED BY <2>2, <3>3
    <2>6. Written' = Written
      BY <2>1 DEF Written
    <2>7. Running'
      BY <2>2, <2>3, <2>4, <2>5, <2>6 DEF Running, DistributionTypeOK, NoRun
    <2> QED BY <2>1, <2>7, QuietIsCalm
  <1>3. CASE MatchOne
    <2>1. SchemaTypeOK' /\ UNCHANGED <<trx, file>>
      BY <1>3 DEF MatchOne, tables, SchemaTypeOK
    <2> DEFINE left == run.batch \ DOMAIN run.found
               k == Min(left)
               found == [j \in DOMAIN run.found \cup {k} |->
                          IF j = k THEN MatchingSeason(trx[k].created, trx[k].commodity) ELSE run.found[j]]
    <2>2. left # {} /\ run' = [run EXCEPT !.found = found]
      BY <1>3 DEF MatchOne
    <2>3. k \in left
      <3>1. left \subseteq Keys /\ left \subseteq Nat /\ IsFiniteSet(left)
        <4>1. left \subseteq Keys
          BY DEF Running, DistributionTypeOK
        <4> QED BY <4>1, SchemaAssumption, FS_Subset
      <3>2. \E x \in left : \A y \in left : x =< y
        <4> HIDE DEF left
        <4> QED BY <2>2, <3>1, Extremes
      <3> HIDE DEF left
      <3> QED BY <3>2 DEF Min
    <2>4. MatchingSeason(trx[k].created, trx[k].commodity) \in Seasons \cup {None}
      BY MatchingIsASeason
    <2> HIDE DEF k
    <2>5. DOMAIN found \subseteq run.batch /\ \A j \in DOMAIN found : found[j] \in Seasons \cup {None}
      BY <2>3, <2>4 DEF Running, DistributionTypeOK
    <2> HIDE DEF found
    <2>6. Written' = Written
      BY <2>1 DEF Written
    <2>7. Running'
      BY <2>2, <2>5, <2>6 DEF Running, DistributionTypeOK
    <2> QED BY <2>1, <2>7, QuietIsCalm
  <1>4. CASE WriteBatch
    <2>0. UNCHANGED file
      BY <1>4 DEF WriteBatch
    <2>1. CASE UNCHANGED trx /\ run' = NoRun
      <3>1. SchemaTypeOK'
        BY <1>4, <2>1 DEF WriteBatch, SchemaTypeOK
      <3>2. DOMAIN <<>> = {}
        OBVIOUS
      <3>3. Running'
        BY <2>1, <3>2 DEF Running, DistributionTypeOK, NoRun
      <3> QED BY <2>0, <2>1, <3>1, <3>3, QuietIsCalm
    <2>2. CASE /\ \A k \in run.batch : run.found[k] \in OpenSeasons \cup {None}
               /\ trx' = [k \in Keys |-> IF k \in run.batch THEN [trx[k] EXCEPT !.season = run.found[k]] ELSE trx[k]]
               /\ run' = [run EXCEPT !.at = "read", !.batch = {}, !.found = <<>>]
      <3>1. ASSUME NEW k \in Written PROVE Seasoned(trx[k], trx'[k])
        <4>1. k \in Keys /\ trx[k] \in TransactionRow
          BY WrittenRows
        <4>2. CASE k \in run.batch
          <5>1. run.found[k] \in Seasons \cup {None}
            BY <2>2, <4>2 DEF OpenSeasons
          <5>2. trx'[k] = [trx[k] EXCEPT !.season = run.found[k]]
            BY <2>2, <4>1, <4>2
          <5> QED BY <4>1, <5>1, <5>2, SeasonLasts
        <4>3. CASE k \notin run.batch
          <5>1. trx'[k] = trx[k]
            BY <2>2, <4>1, <4>3
          <5> QED BY <4>1, <5>1, NothingLasts
        <4> QED BY <4>2, <4>3
      <3>2. \A k \in Keys \ Written : trx'[k] = NoTransaction
        BY <2>2, WrittenRows DEF Running
      <3>3. trx' = [k \in Keys |-> trx'[k]]
        BY <2>2
      <3>4. trx' \in TransactionTable
        BY <3>1, <3>2, <3>3 DEF TransactionTable, Seasoned, Lasts
      <3>5. SchemaTypeOK'
        BY <1>4, <3>4 DEF WriteBatch, SchemaTypeOK
      <3>6. DOMAIN <<>> = {}
        OBVIOUS
      <3>7. Running'
        BY <2>2, <3>6 DEF Running, DistributionTypeOK
      <3>8. Calm
        BY <2>0, <3>1, <3>2 DEF Calm
      <3> QED BY <3>5, <3>7, <3>8
    <2> QED BY <1>4, <2>1, <2>2 DEF WriteBatch
  <1> QED BY <1>1, <1>2, <1>3, <1>4 DEF Distribute

-----------------------------------------------------------------------------
(* Every step. *)

LEMMA InitTyped == Init => Typed
  <1> SUFFICES ASSUME Init PROVE Typed
    OBVIOUS
  <1>1. SchemaTypeOK
    BY RecordsAssumption DEF Init, SchemaTypeOK
  <1>2. Collected
    BY DEF Init, Collected, NoRemoval
  <1>3. DOMAIN <<>> = {}
    OBVIOUS
  <1>4. Running
    BY <1>3 DEF Init, Running, DistributionTypeOK, NoRun
  <1>5. HandlersTypeOK
    BY DEF Init, HandlersTypeOK, NoWork
  <1>6. \A w \in Workers : Copied(work[w], trx)
    BY DEF Init, Copied
  <1> QED BY <1>1, <1>2, <1>4, <1>5, <1>6 DEF Typed, Handling

LEMMA NextTyped == Typed /\ [Next]_vars => Typed' /\ Grows
  <1> SUFFICES ASSUME Typed, [Next]_vars PROVE Typed' /\ Grows
    OBVIOUS
  <1> USE DEF Typed
  <1>1. ASSUME UNCHANGED removal PROVE Collected'
    BY <1>1 DEF Collected
  <1>2. CASE StepOfTrader /\ UNCHANGED <<removal, jobs>>
    BY <1>1, <1>2, TraderTyped, StaysRunning DEF jobs
  <1>3. CASE StepOfForm /\ UNCHANGED <<removal, handlers, jobs>>
    BY <1>1, <1>3, FormTyped, CalmGrows, CalmHandling, StaysRunning DEF jobs
  <1>4. CASE (\E o \in Objects : Collect(o)) /\ UNCHANGED <<handlers, jobs>>
    BY <1>4, CollectTyped, CalmGrows, CalmHandling, StaysRunning DEF jobs
  <1>5. CASE Delete /\ UNCHANGED <<handlers, jobs>>
    BY <1>5, DeleteTyped, CalmGrows, CalmHandling, StaysRunning DEF jobs
  <1>6. CASE Distribute /\ UNCHANGED <<removal, handlers, walk, listing, metrics, cache>>
    BY <1>1, <1>6, DistributeTyped, CalmGrows, CalmHandling
  <1>7. CASE UNCHANGED <<tables, removal, handlers, run>>
    <2>1. SchemaTypeOK' /\ UNCHANGED <<trx, file>>
      BY <1>7 DEF tables, SchemaTypeOK
    <2> QED BY <1>1, <1>7, <2>1, QuietIsCalm, CalmGrows, CalmHandling, StaysRunning
  <1> QED BY <1>2, <1>3, <1>4, <1>5, <1>6, <1>7, StepKinds, ReadersRead DEF vars, jobs

\* No edit of the catalogue, deletion or run of the season task removes a transaction
\* or changes who traded what and when (TransactionsAreKept; db/models/transactions.py:80).
THEOREM TradesAreKept == Spec => TransactionsAreKept
  <1>1. Typed /\ [Next]_vars => [\A k \in Written : trx'[k] # NoTransaction /\ Trades(k)' = Trades(k)]_vars
    <2> SUFFICES ASSUME Typed, [Next]_vars, NEW k \in Written
                 PROVE  trx'[k] # NoTransaction /\ Trades(k)' = Trades(k)
      OBVIOUS
    <2>1. Grows
      BY NextTyped
    <2>2. Lasts(trx[k], trx'[k]) /\ trx'[k] # NoTransaction
      BY <2>1, RowLasts DEF Typed
    <2> QED BY <2>2 DEF Lasts, Trades
  <1> QED BY <1>1, InitTyped, NextTyped, PTL DEF Spec, TransactionsAreKept
-----------------------------------------------------------------------------
(* References. *)

LEMMA SeasonsThere ==
  ASSUME SchemaTypeOK
  PROVE  \A s \in Seasons : s \in OpenSeasons <=> season[s] \in SeasonRow
  BY RowsAreThere DEF SchemaTypeOK, SeasonTable, OpenSeasons

LEMMA TraderReferences ==
  ASSUME SchemaTypeOK, Handling, ReferencesHold, StepOfTrader
  PROVE  ReferencesHold'
  <1>1. ASSUME UNCHANGED <<commodity, group, season, participant, recipe, input, output, balance>>,
               \A j \in Written : trx'[j].season = trx[j].season /\ trx'[j].commodity = trx[j].commodity,
               \A j \in Keys \ Written : trx'[j] = NoTransaction
        PROVE  ReferencesHold'
    <2>1. Written' \subseteq Written
      BY <1>1 DEF Written
    <2> QED BY <1>1, <2>1 DEF ReferencesHold, OpenSeasons
  <1>2. ASSUME NEW w \in Workers, NEW auto \in SUBSET Keys, Accept(w, auto) PROVE ReferencesHold'
    <2> DEFINE k == work[w].key
               copy == work[w].row
               row == [trx[k] EXCEPT !.status = "accepted"]
    <2>1. /\ k \in Keys /\ k \in Written /\ trx[k] \in TransactionRow /\ trx[k].type = "downstream"
          /\ copy \in TransactionRow /\ copy.seller \in Users /\ copy.commodity = trx[k].commodity
          /\ copy.commodity \in Commodities
      <3>1. work[w].at = "accept"
        BY <1>2 DEF Accept
      <3> QED BY <3>1, CopyAtHand DEF Copied, CopyOf, TransactionRow
    <2>2. row.season = trx[k].season /\ Lasts(trx[k], row)
      BY <2>1, StatusLasts
    <2>3. trx' = [j \in Keys |-> IF j = k THEN row ELSE IF j \in auto THEN Automatic(copy, Now) ELSE trx[j]]
      BY <1>2 DEF Accept
    <2> HIDE DEF row
    <2>4. auto = {} \/ \E a \in Keys \ Written : auto = {a}
      BY <1>2 DEF Accept
    <2>5. auto = {} \/ (Automatic(copy, Now).season = None /\ Automatic(copy, Now).commodity = trx[k].commodity)
      BY <2>1, <2>4, WrittenRows, NewRows DEF Automatic
    <2>6. UNCHANGED <<commodity, group, season, participant, recipe, input, output>>
          /\ balance' = balance \cup ({copy.seller, copy.buyer} \X {copy.commodity})
      BY <1>2 DEF Accept, catalogue
    <2> HIDE DEF k, copy
    <2>7. ASSUME NEW j \in Written'
          PROVE  trx'[j].season \in OpenSeasons \cup {None} /\ commodity[trx'[j].commodity] # None
      <3>0. j \in Keys
        BY DEF Written
      <3>1. CASE j = k
        BY <2>1, <2>2, <2>3, <3>1 DEF ReferencesHold, Lasts
      <3>2. CASE j # k /\ j \in auto
        <4>1. trx'[j] = Automatic(copy, Now)
          BY <2>3, <3>2
        <4> QED BY <2>1, <2>5, <3>2, <4>1 DEF ReferencesHold
      <3>3. CASE j # k /\ j \notin auto
        <4>1. trx'[j] = trx[j] /\ j \in Written
          BY <2>3, <3>0, <3>3 DEF Written
        <4> QED BY <4>1 DEF ReferencesHold
      <3> QED BY <3>1, <3>2, <3>3
    <2>8. \A p \in balance' : commodity[p[2]] # None
      <3>1. commodity[copy.commodity] # None
        BY <2>1 DEF ReferencesHold
      <3> QED BY <2>6, <3>1 DEF ReferencesHold
    <2> QED BY <2>6, <2>7, <2>8 DEF ReferencesHold, OpenSeasons
  <1>3. ASSUME NEW w \in Workers, NEW request \in Requests, NEW k \in Keys, Trade(w, request, k) PROVE ReferencesHold'
    <2>1. request \in Request /\ k \in Keys \ Written
      BY <1>3, RecordsAssumption DEF Trade, Written
    <2> DEFINE row == RowOf(request, Now)
    <2>2. row.season = None /\ row.commodity = request.commodity
      BY <2>1, WrittenRows, NewRows DEF Request
    <2>3. trx' = [trx EXCEPT ![k] = row]
      BY <1>3 DEF Trade
    <2> HIDE DEF row
    <2>4. UNCHANGED <<commodity, group, season, participant, recipe, input, output>>
          /\ commodity[request.commodity] # None
      BY <1>3 DEF Trade, catalogue
    <2>5. ASSUME NEW j \in Written'
          PROVE  trx'[j].season \in OpenSeasons \cup {None} /\ commodity[trx'[j].commodity] # None
      <3>1. CASE j = k
        <4>1. trx'[j] = row
          BY <2>3, <3>1 DEF SchemaTypeOK, TransactionTable
        <4> QED BY <2>2, <2>4, <4>1
      <3>2. CASE j # k
        <4>1. trx'[j] = trx[j] /\ j \in Written
          BY <2>3, <3>2 DEF Written, SchemaTypeOK, TransactionTable
        <4> QED BY <4>1 DEF ReferencesHold
      <3> QED BY <3>1, <3>2
    <2>6. \A p \in balance' : commodity[p[2]] # None
      <3>1. balance' = balance \/ balance' = balance \cup {<<request.buyer, request.commodity>>}
        BY <1>3 DEF Trade
      <3> QED BY <2>4, <3>1 DEF ReferencesHold
    <2> QED BY <2>4, <2>5, <2>6 DEF ReferencesHold, OpenSeasons
  <1>4. ASSUME NEW w \in Workers, Reject(w) PROVE ReferencesHold'
    <2> DEFINE k == work[w].key
               row == [trx[k] EXCEPT !.status = "rejected"]
    <2>1. k \in Keys /\ k \in Written /\ trx[k] \in TransactionRow /\ trx[k].type = "downstream"
      <3>1. work[w].at = "reject"
        BY <1>4 DEF Reject
      <3> QED BY <3>1, CopyAtHand
    <2>2. row.season = trx[k].season /\ Lasts(trx[k], row)
      BY <2>1, StatusLasts
    <2>3. trx' = [trx EXCEPT ![k] = row]
          /\ UNCHANGED <<commodity, group, season, participant, recipe, input, output, balance>>
      BY <1>4 DEF Reject, catalogue
    <2> HIDE DEF row, k
    <2>4. \A j \in Keys : trx'[j] = IF j = k THEN row ELSE trx[j]
      BY <2>3 DEF TransactionTable, SchemaTypeOK
    <2> QED BY <1>1, <2>1, <2>2, <2>3, <2>4, WrittenRows DEF Lasts
  <1>5. ASSUME NEW w \in Workers, SaveLocation(w) PROVE ReferencesHold'
    <2> DEFINE k == work[w].key
               l == work[w].row.location
               row == [trx[k] EXCEPT !.location = l]
    <2>1. k \in Keys /\ k \in Written /\ trx[k] \in TransactionRow /\ l \in {"none", "manual", "file", "qr"}
      <3>1. work[w].at = "save"
        BY <1>5 DEF SaveLocation
      <3> QED BY <3>1, CopyAtHand DEF TransactionRow
    <2>2. trx' = [trx EXCEPT ![k] = row]
          /\ UNCHANGED <<commodity, group, season, participant, recipe, input, output, balance>>
      BY <1>5 DEF SaveLocation, catalogue
    <2> HIDE DEF k, l
    <2>3. row.season = trx[k].season /\ Lasts(trx[k], row)
      BY <2>1, LocationLasts
    <2> HIDE DEF row
    <2>4. \A j \in Keys : trx'[j] = IF j = k THEN row ELSE trx[j]
      BY <2>2 DEF TransactionTable, SchemaTypeOK
    <2> QED BY <1>1, <2>1, <2>2, <2>3, <2>4, WrittenRows DEF Lasts
  <1>6. ASSUME UNCHANGED <<commodity, group, season, participant, recipe, input, output, balance, trx>>
        PROVE  ReferencesHold'
    BY <1>1, <1>6, WrittenRows
  <1>7. ASSUME NEW w \in Workers,
               \/ \E at \in {"accept", "reject", "upload"}, k \in Written : Read(w, at, k)
               \/ \E content \in {"invalid", "valid"} : UploadNew(w, content)
               \/ \E u \in Uploads : Upload(w, u[1], u[2])
               \/ Abandon(w)
        PROVE  ReferencesHold'
    BY <1>6, <1>7 DEF Read, UploadNew, Upload, Abandon, tables, catalogue
  <1> QED BY <1>2, <1>3, <1>4, <1>5, <1>7 DEF StepOfTrader

LEMMA FormReferences ==
  ASSUME SchemaTypeOK, ReferencesHold, StepOfForm
  PROVE  ReferencesHold'
  <1>1. ASSUME NEW e \in SeasonEdits, SaveSeason(e[1], e[2], e[3]) PROVE ReferencesHold'
    <2>1. e[1] \in Seasons /\ e[2] \in SeasonRow /\ e[3] \in SUBSET Commodities
      BY RecordsAssumption
    <2>2. OpenSeasons' = OpenSeasons \cup {e[1]}
      BY <1>1, <2>1, RowsAreThere DEF SaveSeason, OpenSeasons, SchemaTypeOK, SeasonTable
    <2>3. Written' = Written
      BY <1>1 DEF SaveSeason, Written
    <2>4. \A p \in participant' : p[1] \in OpenSeasons' /\ commodity[p[2]] # None
      BY <1>1, <2>1, <2>2 DEF SaveSeason, ReferencesHold
    <2> QED BY <1>1, <2>2, <2>3, <2>4 DEF SaveSeason, ReferencesHold
  <1>2. ASSUME NEW e \in RecipeEdits, SaveRecipe(e[1], e[2], e[3]) PROVE ReferencesHold'
    <2>1. OpenSeasons' = OpenSeasons /\ Written' = Written
      BY <1>2 DEF SaveRecipe, Written, OpenSeasons
    <2>2. \A p \in input' \cup output' : p[1] \in recipe' /\ commodity[p[2]] # None
      BY <1>2 DEF SaveRecipe, ReferencesHold
    <2> QED BY <1>2, <2>1, <2>2 DEF SaveRecipe, ReferencesHold
  <1>3. ASSUME NEW e \in CommodityEdits, SaveCommodity(e[1], e[2]) PROVE ReferencesHold'
    <2>1. OpenSeasons' = OpenSeasons /\ Written' = Written
      BY <1>3 DEF SaveCommodity, Written, OpenSeasons
    <2>2. e[1] \in Commodities /\ e[2] \in Groups /\ e[2] # None /\ e[2] \in group
      BY <1>3, RecordsAssumption, SchemaAssumption DEF SaveCommodity
    <2>3. \A c \in Commodities : commodity'[c] = IF c = e[1] THEN e[2] ELSE commodity[c]
      BY <1>3 DEF SaveCommodity, SchemaTypeOK, CommodityTable
    <2>4. \A k \in Written : trx[k].commodity \in Commodities
      BY WrittenRows DEF TransactionRow
    <2>5. \A p \in participant \cup input \cup output \cup balance : p[2] \in Commodities
      BY DEF SchemaTypeOK, ParticipantTable, InputTable, OutputTable, BalanceTable
    <2> QED BY <1>3, <2>1, <2>2, <2>3, <2>4, <2>5 DEF SaveCommodity, ReferencesHold
  <1> QED BY <1>1, <1>2, <1>3 DEF StepOfForm

LEMMA DistributeReferences ==
  ASSUME SchemaTypeOK, ReferencesHold, Running, Distribute
  PROVE  ReferencesHold'
  <1>1. CASE UNCHANGED tables
    BY <1>1 DEF tables, ReferencesHold, Written, OpenSeasons
  <1>2. CASE WriteBatch
    <2>1. UNCHANGED <<commodity, group, season, participant, recipe, input, output, balance, history>>
      BY <1>2 DEF WriteBatch
    <2>2. CASE UNCHANGED trx
      BY <2>1, <2>2 DEF ReferencesHold, Written, OpenSeasons
    <2>3. CASE /\ \A k \in run.batch : run.found[k] \in OpenSeasons \cup {None}
               /\ trx' = [k \in Keys |-> IF k \in run.batch THEN [trx[k] EXCEPT !.season = run.found[k]] ELSE trx[k]]
      <3>1. ASSUME NEW k \in Written'
            PROVE  trx'[k].season \in OpenSeasons \cup {None} /\ commodity[trx'[k].commodity] # None
        <4>1. k \in Keys
          BY DEF Written
        <4>2. CASE k \in run.batch
          <5>1. k \in Written /\ trx[k] \in TransactionRow
            BY <4>2, WrittenRows DEF Running
          <5>2. run.found[k] \in OpenSeasons \cup {None}
            BY <2>3, <4>2
          <5>3. run.found[k] \in Seasons \cup {None}
            BY <5>2 DEF OpenSeasons
          <5>4. trx'[k] = [trx[k] EXCEPT !.season = run.found[k]]
            BY <2>3, <4>1, <4>2
          <5>5. trx'[k].season = run.found[k] /\ trx'[k].commodity = trx[k].commodity
            BY <5>1, <5>3, <5>4, SeasonLasts DEF Seasoned, Lasts
          <5> QED BY <5>1, <5>2, <5>5 DEF ReferencesHold
        <4>3. CASE k \notin run.batch
          <5>1. trx'[k] = trx[k] /\ k \in Written
            BY <2>3, <4>1, <4>3 DEF Written
          <5> QED BY <5>1 DEF ReferencesHold
        <4> QED BY <4>2, <4>3
      <3> QED BY <2>1, <3>1 DEF ReferencesHold, OpenSeasons
    <2> QED BY <1>2, <2>2, <2>3 DEF WriteBatch
  <1> QED BY <1>1, <1>2 DEF Distribute, Start, ReadBatch, MatchOne
\* What a deletion that PostgreSQL lets pass has covered.
LEMMA Covered ==
  ASSUME SchemaTypeOK, Collected, removal # NoRemoval,
         (Protectors(removal.object) \cup Dependents(removal.object)) \subseteq removal.rows
  PROVE  /\ \A kind \in Registered : \A x : <<kind, x>> \in removal.rows => removal.object = <<kind, x>>
         /\ \A g : <<"group", g>> \in removal.rows => \A c \in Commodities : commodity[c] # g
         /\ \A c : <<"commodity", c>> \in removal.rows =>
              /\ \A k \in Written : trx[k].commodity # c
              /\ \A p \in balance : p[2] # c
              /\ \A p \in participant : p[2] = c => <<"participant", p>> \in removal.rows
              /\ \A p \in input : p[2] = c => <<"input", p>> \in removal.rows
              /\ \A p \in output : p[2] = c => <<"output", p>> \in removal.rows
         /\ \A s : <<"season", s>> \in removal.rows =>
              /\ \A k \in Written : trx[k].season = s => k \in Forgotten(removal.object)
              /\ \A p \in participant : p[1] = s => <<"participant", p>> \in removal.rows
         /\ \A r : <<"recipe", r>> \in removal.rows =>
              /\ \A p \in input : p[1] = r => <<"input", p>> \in removal.rows
              /\ \A p \in output : p[1] = r => <<"output", p>> \in removal.rows
  <1> DEFINE o == removal.object
             rows == removal.rows
  <1>1. ASSUME NEW kind \in Registered, NEW x, <<kind, x>> \in rows PROVE o = <<kind, x>>
    <2>1. <<kind, x>>[1] \notin {"participant", "input", "output"}
      BY DEF Registered
    <2> QED BY <1>1, <2>1 DEF Collected
  <1>2. "group" \in Registered /\ "commodity" \in Registered /\ "season" \in Registered /\ "recipe" \in Registered
    BY DEF Registered
  <1>3. ASSUME NEW g, <<"group", g>> \in rows, NEW c \in Commodities, commodity[c] = g PROVE FALSE
    <2>1. o = <<"group", g>>
      BY <1>1, <1>2, <1>3
    <2>2. o[1] = "group" /\ o[2] = g
      BY <2>1
    <2>3. <<"commodity", c>> \in Protectors(o)
      BY <1>3, <2>2 DEF Protectors
    <2>4. o = <<"commodity", c>>
      BY <1>1, <1>2, <2>3
    <2> QED BY <2>2, <2>4
  <1>4. ASSUME NEW c, <<"commodity", c>> \in rows
        PROVE  /\ \A k \in Written : trx[k].commodity # c
               /\ \A p \in balance : p[2] # c
               /\ \A p \in participant : p[2] = c => <<"participant", p>> \in rows
               /\ \A p \in input : p[2] = c => <<"input", p>> \in rows
               /\ \A p \in output : p[2] = c => <<"output", p>> \in rows
    <2>1. o[1] = "commodity" /\ o[2] = c
      BY <1>1, <1>2, <1>4
    <2>2. ASSUME NEW k \in Written, trx[k].commodity = c PROVE FALSE
      <3>1. <<"transaction", k>> \in Protectors(o)
        BY <2>1, <2>2 DEF Protectors
      <3> QED BY <3>1, TransactionsAreNotCollected
    <2>3. ASSUME NEW p \in balance, p[2] = c PROVE FALSE
      <3>1. <<"balance", p>> \in Protectors(o)
        BY <2>1, <2>3 DEF Protectors
      <3>2. <<"balance", p>> \in Objects /\ <<"balance", p>>[1] = "balance"
        BY <3>1 DEF Collected
      <3> QED BY <3>2 DEF Objects
    <2>4. /\ \A p \in participant : p[2] = c => <<"participant", p>> \in Dependents(o)
          /\ \A p \in input : p[2] = c => <<"input", p>> \in Dependents(o)
          /\ \A p \in output : p[2] = c => <<"output", p>> \in Dependents(o)
      BY <2>1 DEF Dependents
    <2> QED BY <2>2, <2>3, <2>4
  <1>5. ASSUME NEW s, <<"season", s>> \in rows
        PROVE  /\ \A k \in Written : trx[k].season = s => k \in Forgotten(o)
               /\ \A p \in participant : p[1] = s => <<"participant", p>> \in rows
    <2>1. o[1] = "season" /\ o[2] = s
      BY <1>1, <1>2, <1>5
    <2>2. \A k \in Written : trx[k].season = s => k \in Forgotten(o)
      BY <2>1 DEF Forgotten
    <2>3. \A p \in participant : p[1] = s => <<"participant", p>> \in Dependents(o)
      BY <2>1 DEF Dependents
    <2> QED BY <2>2, <2>3
  <1>6. ASSUME NEW r, <<"recipe", r>> \in rows
        PROVE  /\ \A p \in input : p[1] = r => <<"input", p>> \in rows
               /\ \A p \in output : p[1] = r => <<"output", p>> \in rows
    <2>1. o[1] = "recipe" /\ o[2] = r
      BY <1>1, <1>2, <1>6
    <2>2. /\ \A p \in input : p[1] = r => <<"input", p>> \in Dependents(o)
          /\ \A p \in output : p[1] = r => <<"output", p>> \in Dependents(o)
      BY <2>1 DEF Dependents
    <2> QED BY <2>2
  <1> QED BY <1>1, <1>3, <1>4, <1>5, <1>6

\* The effect of a deletion, with the names of its definition.
LEMMA Deleted ==
  ASSUME SchemaTypeOK, Collected, Delete, UNCHANGED handlers
  PROVE  \/ UNCHANGED tables
         \/ /\ removal # NoRemoval
            /\ (Protectors(removal.object) \cup Dependents(removal.object)) \subseteq removal.rows
            /\ group' = {g \in group : <<"group", g>> \notin removal.rows}
            /\ \A c \in Commodities : commodity'[c] = IF <<"commodity", c>> \in removal.rows THEN None ELSE commodity[c]
            /\ \A s \in Seasons : season'[s] = IF <<"season", s>> \in removal.rows THEN NoSeason ELSE season[s]
            /\ participant' = {p \in participant : <<"participant", p>> \notin removal.rows}
            /\ recipe' = {r \in recipe : <<"recipe", r>> \notin removal.rows}
            /\ input' = {p \in input : <<"input", p>> \notin removal.rows}
            /\ output' = {p \in output : <<"output", p>> \notin removal.rows}
            /\ UNCHANGED balance /\ Recorded(removal.rows)
            /\ Written' = Written
            /\ \A k \in Written : trx'[k] = IF k \in Forgotten(removal.object)
                                            THEN [trx[k] EXCEPT !.season = None] ELSE trx[k]
  <1> SUFFICES ASSUME ~UNCHANGED tables
               PROVE  /\ Written' = Written
                      /\ \A k \in Written : trx'[k] = IF k \in Forgotten(removal.object)
                                                      THEN [trx[k] EXCEPT !.season = None] ELSE trx[k]
    BY DEF Delete
  <1>1. \A k \in Keys : trx'[k] = IF k \in Forgotten(removal.object)
                                  THEN [trx[k] EXCEPT !.season = None] ELSE trx[k]
    <2>1. removal # NoRemoval
      BY DEF Delete
    <2>2. \A k \in Keys : <<"transaction", k>> \notin removal.rows
      BY <2>1, TransactionsAreNotCollected
    <2>3. trx' = [k \in Keys |->
                   IF <<"transaction", k>> \in removal.rows THEN NoTransaction
                   ELSE IF k \in Forgotten(removal.object) THEN [trx[k] EXCEPT !.season = None] ELSE trx[k]]
      BY DEF Delete
    <2> QED BY <2>2, <2>3
  <1>2. \A k \in Keys \ Written : k \notin Forgotten(removal.object)
    BY DEF Forgotten
  <1>3. \A k \in Keys \ Written : trx'[k] = NoTransaction
    BY <1>1, <1>2, WrittenRows
  <1>4. \A k \in Written : trx'[k] # NoTransaction
    <2>1. Grows
      BY DeleteTyped, CalmGrows
    <2> QED BY <2>1, RowLasts
  <1> QED BY <1>1, <1>3, <1>4 DEF Written

LEMMA DeleteReferences ==
  ASSUME SchemaTypeOK, ReferencesHold, Collected, Delete, UNCHANGED handlers
  PROVE  ReferencesHold'
  <1> DEFINE o == removal.object
             rows == removal.rows
             gone == Forgotten(o)
  <1>1. CASE UNCHANGED tables
    BY <1>1 DEF tables, ReferencesHold, Written, OpenSeasons
  <1>2. CASE ~UNCHANGED tables
    <2>1. (Protectors(o) \cup Dependents(o)) \subseteq rows /\ removal # NoRemoval
      BY <1>2, Deleted
    <2>2. /\ group' = {g \in group : <<"group", g>> \notin rows}
          /\ \A c \in Commodities : commodity'[c] = IF <<"commodity", c>> \in rows THEN None ELSE commodity[c]
          /\ \A s \in Seasons : season'[s] = IF <<"season", s>> \in rows THEN NoSeason ELSE season[s]
          /\ participant' = {p \in participant : <<"participant", p>> \notin rows}
          /\ recipe' = {r \in recipe : <<"recipe", r>> \notin rows}
          /\ input' = {p \in input : <<"input", p>> \notin rows}
          /\ output' = {p \in output : <<"output", p>> \notin rows}
          /\ UNCHANGED balance
          /\ Written' = Written
          /\ \A k \in Written : trx'[k] = IF k \in gone THEN [trx[k] EXCEPT !.season = None] ELSE trx[k]
      BY <1>2, Deleted
    <2>3. \A s \in OpenSeasons : <<"season", s>> \notin rows => s \in OpenSeasons'
      BY <2>2 DEF OpenSeasons
    <2>4. /\ \A k \in Written : trx[k].commodity \in Commodities
          /\ \A p \in participant \cup input \cup output \cup balance : p[2] \in Commodities
      BY WrittenRows DEF TransactionRow, SchemaTypeOK, ParticipantTable, InputTable, OutputTable, BalanceTable
    <2>5. /\ \A g : <<"group", g>> \in rows => \A c \in Commodities : commodity[c] # g
          /\ \A c : <<"commodity", c>> \in rows =>
               /\ \A k \in Written : trx[k].commodity # c
               /\ \A p \in balance : p[2] # c
               /\ \A p \in participant : p[2] = c => <<"participant", p>> \in rows
               /\ \A p \in input : p[2] = c => <<"input", p>> \in rows
               /\ \A p \in output : p[2] = c => <<"output", p>> \in rows
          /\ \A s : <<"season", s>> \in rows =>
               /\ \A k \in Written : trx[k].season = s => k \in gone
               /\ \A p \in participant : p[1] = s => <<"participant", p>> \in rows
          /\ \A r : <<"recipe", r>> \in rows =>
               /\ \A p \in input : p[1] = r => <<"input", p>> \in rows
               /\ \A p \in output : p[1] = r => <<"output", p>> \in rows
      BY <2>1, Covered
    <2> HIDE DEF gone, rows, o
    <2>6. ASSUME NEW k \in Written
          PROVE  trx'[k].season \in OpenSeasons' \cup {None} /\ commodity'[trx'[k].commodity] # None
      <3>1. trx[k] \in TransactionRow
        BY WrittenRows
      <3>2. trx[k].season \in OpenSeasons \cup {None} /\ commodity[trx[k].commodity] # None
        BY DEF ReferencesHold
      <3>3. commodity'[trx[k].commodity] # None
        BY <2>2, <2>4, <2>5, <3>2
      <3>4. CASE k \in gone
        <4> DEFINE row == [trx[k] EXCEPT !.season = None]
        <4>1. Lasts(trx[k], row) /\ row.season = None
          BY <3>1, SeasonLasts DEF Seasoned
        <4>2. trx'[k] = row
          BY <2>2, <3>4
        <4> HIDE DEF row
        <4> QED BY <3>3, <4>1, <4>2 DEF Lasts
      <3>5. CASE k \notin gone
        <4>1. trx'[k] = trx[k]
          BY <2>2, <3>5
        <4>2. trx[k].season = None \/ trx[k].season \in OpenSeasons'
          BY <2>3, <2>5, <3>2, <3>5
        <4> QED BY <3>3, <4>1, <4>2
      <3> QED BY <3>4, <3>5
    <2>7. \A c \in Commodities : commodity'[c] \in group' \cup {None}
      BY <2>2, <2>5 DEF ReferencesHold
    <2>8. \A p \in participant' : p[1] \in OpenSeasons'
      BY <2>2, <2>3, <2>5 DEF ReferencesHold
    <2>9. \A p \in input' \cup output' : p[1] \in recipe'
      BY <2>2, <2>5 DEF ReferencesHold
    <2>10. \A p \in participant' \cup input' \cup output' \cup balance' : commodity'[p[2]] # None
      BY <2>2, <2>4, <2>5 DEF ReferencesHold
    <2>11. Written' = Written
      BY <2>2
    <2> QED BY <2>6, <2>7, <2>8, <2>9, <2>10, <2>11 DEF ReferencesHold
  <1> QED BY <1>1, <1>2

LEMMA InitReferences == Init => ReferencesHold
  BY RecordsAssumption DEF Init, ReferencesHold, Written, OpenSeasons

LEMMA NextReferences == Typed /\ ReferencesHold /\ [Next]_vars => ReferencesHold'
  <1> SUFFICES ASSUME Typed, ReferencesHold, [Next]_vars PROVE ReferencesHold'
    OBVIOUS
  <1>1. CASE UNCHANGED tables
    BY <1>1 DEF tables, ReferencesHold, Written, OpenSeasons
  <1>2. CASE \E o \in Objects : Collect(o)
    BY <1>1, <1>2 DEF Collect
  <1>3. CASE UNCHANGED vars \/ Reader
    BY <1>1, <1>3, ReadersRead DEF vars
  <1> QED BY <1>2, <1>3, StepKinds, TraderReferences, FormReferences, DistributeReferences,
             DeleteReferences DEF Typed

\* Whatever is deleted while trades are proposed, accepted and assigned to seasons,
\* what a row refers to exists (ReferencesHold; the foreign keys of whimo/db/models).
THEOREM NothingDangles == Spec => []ReferencesHold
  BY InitTyped, NextTyped, InitReferences, NextReferences, PTL DEF Spec
-----------------------------------------------------------------------------
(* Histories. *)

LEMMA Kinds ==
  ASSUME NEW o \in Objects
  PROVE  /\ o = <<o[1], o[2]>>
         /\ \/ o[1] = "group" /\ o[2] \in Groups
            \/ o[1] = "commodity" /\ o[2] \in Commodities
            \/ o[1] = "season" /\ o[2] \in Seasons
            \/ o[1] = "participant" /\ o[2] \in Seasons \X Commodities
            \/ o[1] = "recipe" /\ o[2] \in Recipes
            \/ o[1] \in {"input", "output"} /\ o[2] \in Recipes \X Commodities
            \/ o[1] = "transaction" /\ o[2] \in Keys
  BY DEF Objects

\* The row behind an object is as it was.
SameRow(o) ==
  /\ o[1] = "group" => (o[2] \in group' <=> o[2] \in group)
  /\ o[1] = "commodity" => commodity'[o[2]] = commodity[o[2]]
  /\ o[1] = "season" => season'[o[2]] = season[o[2]]
  /\ o[1] = "participant" => (o[2] \in participant' <=> o[2] \in participant)
  /\ o[1] = "recipe" => (o[2] \in recipe' <=> o[2] \in recipe)
  /\ o[1] = "input" => (o[2] \in input' <=> o[2] \in input)
  /\ o[1] = "output" => (o[2] \in output' <=> o[2] \in output)

LEMMA SameRecord ==
  ASSUME NEW o \in Objects, o[1] # "transaction", SameRow(o)
  PROVE  Record(o)' = Record(o)
  <1> USE DEF Record, SameRow
  <1>1. CASE o[1] = "group"
    BY <1>1 DEF RecordOfGroup
  <1>2. CASE o[1] = "commodity"
    BY <1>2 DEF RecordOfCommodity
  <1>3. CASE o[1] = "season"
    BY <1>3 DEF RecordOfSeason
  <1>4. CASE o[1] = "participant"
    BY <1>4 DEF RecordOfParticipant
  <1>5. CASE o[1] = "recipe"
    BY <1>5 DEF RecordOfRecipe
  <1>6. CASE o[1] = "input"
    BY <1>6 DEF RecordOfInput
  <1>7. CASE o[1] = "output"
    BY <1>7 DEF RecordOfOutput
  <1> HIDE DEF Record, SameRow
  <1> QED BY <1>1, <1>2, <1>3, <1>4, <1>5, <1>6, <1>7, Kinds

\* What HistoryAgrees says of one transaction.
Agreed(k) ==
  IF k \notin Written THEN history[<<"transaction", k>>] = NoTransaction
  ELSE trx[k].type # "conversion" => Told(history[<<"transaction", k>>], trx[k], k \in stale)

LEMMA AgreedOneByOne ==
  /\ HistoryAgrees <=> /\ \A o \in Objects : o[1] # "transaction" => history[o] = Record(o)
                       /\ \A k \in Keys : Agreed(k)
  /\ HistoryAgrees' <=> /\ \A o \in Objects : o[1] # "transaction" => history'[o] = Record(o)'
                        /\ \A k \in Keys : Agreed(k)'
  <1>1. ASSUME NEW k \in Keys
        PROVE  <<"transaction", k>> \in Objects /\ <<"transaction", k>>[1] = "transaction" /\ <<"transaction", k>>[2] = k
    BY DEF Objects
  <1>2. ASSUME NEW o \in Objects, o[1] = "transaction" PROVE o[2] \in Keys /\ o = <<"transaction", o[2]>>
    BY <1>2, Kinds
  <1>3. ASSUME HistoryAgrees, NEW k \in Keys PROVE Agreed(k)
    BY <1>1, <1>3 DEF HistoryAgrees, Agreed
  <1>4. ASSUME HistoryAgrees', NEW k \in Keys PROVE Agreed(k)'
    BY <1>1, <1>4 DEF HistoryAgrees, Agreed
  <1>5. ASSUME \A o \in Objects : o[1] # "transaction" => history[o] = Record(o), \A k \in Keys : Agreed(k)
        PROVE  HistoryAgrees
    BY <1>2, <1>5 DEF HistoryAgrees, Agreed
  <1>6. ASSUME \A o \in Objects : o[1] # "transaction" => history'[o] = Record(o)', \A k \in Keys : Agreed(k)'
        PROVE  HistoryAgrees'
    BY <1>2, <1>6 DEF HistoryAgrees, Agreed
  <1>7. HistoryAgrees => \A o \in Objects : o[1] # "transaction" => history[o] = Record(o)
    BY DEF HistoryAgrees
  <1>8. HistoryAgrees' => \A o \in Objects : o[1] # "transaction" => history'[o] = Record(o)'
    BY DEF HistoryAgrees
  <1> QED BY <1>3, <1>4, <1>5, <1>6, <1>7, <1>8

\* Nothing is recorded, and nothing changes but the season.
LEMMA StaysAgreed ==
  ASSUME SchemaTypeOK, NEW k \in Keys, Agreed(k), history'[<<"transaction", k>>] = history[<<"transaction", k>>],
         k \in Written' <=> k \in Written, k \in Written => Seasoned(trx[k], trx'[k]),
         k \in stale' <=> k \in stale
  PROVE  Agreed(k)'
  <1> DEFINE h == history[<<"transaction", k>>]
             new == history'[<<"transaction", k>>]
  <1>1. CASE k \notin Written
    BY <1>1 DEF Agreed
  <1>2. CASE k \in Written /\ trx[k].type = "conversion"
    BY <1>2 DEF Agreed, Seasoned, Lasts
  <1>3. CASE k \in Written /\ trx[k].type # "conversion"
    <2>1. Told(h, trx[k], k \in stale) /\ Seasoned(trx[k], trx'[k]) /\ k \in Written'
      BY <1>3 DEF Agreed
    <2>2. new = h
      OBVIOUS
    <2> HIDE DEF h, new
    <2>3. Told(new, trx'[k], k \in stale')
      BY <2>1, <2>2 DEF Told, Terms, Seasoned, Lasts
    <2> QED BY <2>1, <2>3 DEF Agreed, new
  <1> QED BY <1>1, <1>2, <1>3

LEMMA HistoryKeepsAll ==
  ASSUME NEW row \in TransactionRow
  PROVE  /\ Terms(InHistory(row)) = Terms(row)
         /\ InHistory(row).status = row.status /\ InHistory(row).location = row.location
  <1>1. row # NoTransaction
    BY RowsAreThere
  <1> DEFINE h == [row EXCEPT !.created = 0]
  <1>2. /\ h.type = row.type /\ h.commodity = row.commodity /\ h.seller = row.seller /\ h.buyer = row.buyer
        /\ h.creator = row.creator /\ h.batch = row.batch /\ h.plot = row.plot
        /\ h.status = row.status /\ h.location = row.location
    BY DEF TransactionRow
  <1>3. InHistory(row) = h
    BY <1>1 DEF InHistory
  <1> HIDE DEF h
  <1> QED BY <1>2, <1>3 DEF Terms

\* A save of the row as it is, whoever has overtaken whom.
LEMMA NowAgreed ==
  ASSUME NEW k \in Keys, trx'[k] \in TransactionRow, history'[<<"transaction", k>>] = InHistory(trx'[k])
  PROVE  Agreed(k)'
  <1>1. k \in Written'
    BY RowsAreThere DEF Written
  <1>2. Told(history'[<<"transaction", k>>], trx'[k], k \in stale')
    BY HistoryKeepsAll DEF Told
  <1> QED BY <1>1, <1>2 DEF Agreed

LEMMA CatalogueStays ==
  ASSUME HistoryAgrees, UNCHANGED catalogue, \A o \in Objects : o[1] # "transaction" => history'[o] = history[o],
         \A k \in Keys : Agreed(k)'
  PROVE  HistoryAgrees'
  <1>1. ASSUME NEW o \in Objects, o[1] # "transaction" PROVE history'[o] = Record(o)'
    <2>1. SameRow(o)
      BY DEF catalogue, SameRow
    <2> QED BY <1>1, <2>1, SameRecord, AgreedOneByOne
  <1> QED BY <1>1, AgreedOneByOne

\* Steps that write neither transactions nor history.
LEMMA StillHistory ==
  ASSUME SchemaTypeOK, HistoryAgrees, UNCHANGED <<catalogue, trx, history, stale>>
  PROVE  HistoryAgrees'
  <1>1. ASSUME NEW k \in Keys PROVE Agreed(k)'
    <2>1. k \in Written' <=> k \in Written
      BY DEF Written
    <2>2. k \in Written => Seasoned(trx[k], trx'[k])
      BY WrittenRows, NothingLasts
    <2> QED BY <2>1, <2>2, StaysAgreed, AgreedOneByOne
  <1> QED BY <1>1, CatalogueStays

\* A save of the copy of worker w, and of rows that are new.
Saves(k, new, copy, met) ==
  /\ trx'[k] \in TransactionRow
  /\ new \in SUBSET (Keys \ {k})
  /\ \A j \in new : trx'[j] \in TransactionRow
  /\ \A j \in Keys \ {k} : j \notin new => trx'[j] = trx[j]
  /\ \A o \in Objects : o[1] # "transaction" => history'[o] = history[o]
  /\ \A j \in Keys : history'[<<"transaction", j>>] = IF j = k THEN InHistory(copy)
                                                   ELSE IF j \in new THEN InHistory(trx'[j])
                                                   ELSE history[<<"transaction", j>>]
  /\ Terms(copy) = Terms(trx'[k])
  /\ copy.status = trx'[k].status \/ (met # FALSE /\ copy.location = trx'[k].location)
  /\ copy.location = trx'[k].location \/ met # FALSE
  /\ copy.status # "pending" => trx'[k].status # "pending"

LEMMA SaveHistory ==
  ASSUME SchemaTypeOK, HistoryAgrees, Handling, NEW w \in Workers, Finish(w), UNCHANGED catalogue,
         NEW k \in Keys, k = work[w].key, NEW new, NEW copy \in TransactionRow, Saves(k, new, copy, work[w].met)
  PROVE  HistoryAgrees'
  <1> USE DEF Saves
  <1>1. work[w].met \in BOOLEAN
    BY JobsAreTyped DEF Handling, Jobs
  <1>2. /\ work[w].met # FALSE => k \in stale'
        /\ \A j \in Keys \ {k} : j \in stale' <=> j \in stale
    BY <1>1 DEF Finish
  <1>3. ASSUME NEW j \in Keys PROVE Agreed(j)'
    <2>1. CASE j = k
      <3> DEFINE h == history'[<<"transaction", k>>]
      <3>1. Terms(h) = Terms(copy) /\ h.status = copy.status /\ h.location = copy.location
        BY HistoryKeepsAll
      <3> HIDE DEF h
      <3>2. Told(h, trx'[k], k \in stale')
        BY <1>2, <3>1 DEF Told
      <3>3. k \in Written'
        BY RowsAreThere DEF Written
      <3> QED BY <2>1, <3>2, <3>3 DEF Agreed, h
    <2>2. CASE j \in new
      BY <2>2, NowAgreed
    <2>3. CASE j # k /\ j \notin new
      <3>1. trx'[j] = trx[j] /\ history'[<<"transaction", j>>] = history[<<"transaction", j>>]
        BY <2>3
      <3>2. j \in Written' <=> j \in Written
        BY <3>1 DEF Written
      <3>3. j \in Written => Seasoned(trx[j], trx'[j])
        BY <3>1, WrittenRows, NothingLasts
      <3>4. j \in stale' <=> j \in stale
        BY <1>2, <2>3
      <3> QED BY <3>1, <3>2, <3>3, <3>4, StaysAgreed, AgreedOneByOne
    <2> QED BY <2>1, <2>2, <2>3
  <1> QED BY <1>3, CatalogueStays

\* What Saved says of each object.
LEMMA SavedOneByOne ==
  ASSUME NEW instances, Saved(instances)
  PROVE  /\ \A o \in Objects : o[1] # "transaction" => history'[o] = history[o]
         /\ \A j \in Keys : history'[<<"transaction", j>>] =
              IF j \in DOMAIN instances THEN InHistory(instances[j]) ELSE history[<<"transaction", j>>]
  <1>1. \A j \in Keys : <<"transaction", j>> \in Objects /\ <<"transaction", j>>[1] = "transaction"
                       /\ <<"transaction", j>>[2] = j
    BY DEF Objects
  <1> QED BY <1>1 DEF Saved

LEMMA TradeHistory ==
  ASSUME SchemaTypeOK, SchemaTypeOK', HistoryAgrees, NEW w \in Workers, NEW request \in Requests, NEW k \in Keys,
         Trade(w, request, k)
  PROVE  HistoryAgrees'
  <1> DEFINE row == RowOf(request, Now)
  <1>1. trx' = [trx EXCEPT ![k] = row] /\ UNCHANGED <<catalogue, stale>> /\ Recorded({<<"transaction", k>>})
        /\ k \in Keys \ Written
    BY DEF Trade, Written
  <1>2. row \in TransactionRow
    BY <1>1, RecordsAssumption, WrittenRows, NewRows DEF Request
  <1> HIDE DEF row
  <1>3. \A j \in Keys : trx'[j] = IF j = k THEN row ELSE trx[j]
    BY <1>1 DEF SchemaTypeOK, TransactionTable
  <1>4. \A o \in Objects : history'[o] = IF o = <<"transaction", k>> THEN Record(o)' ELSE history[o]
    BY <1>1 DEF Recorded
  <1>5. Record(<<"transaction", k>>)' = InHistory(trx'[k])
    <2>1. <<"transaction", k>>[1] = "transaction" /\ <<"transaction", k>>[2] = k
      OBVIOUS
    <2> QED BY <2>1 DEF Record, RecordOfTransaction
  <1>6. ASSUME NEW j \in Keys PROVE Agreed(j)'
    <2>1. <<"transaction", j>> \in Objects /\ (<<"transaction", j>> = <<"transaction", k>> <=> j = k)
      BY DEF Objects
    <2>2. CASE j = k
      BY <1>2, <1>3, <1>4, <1>5, <2>1, <2>2, NowAgreed
    <2>3. CASE j # k
      <3>1. trx'[j] = trx[j] /\ history'[<<"transaction", j>>] = history[<<"transaction", j>>]
        BY <1>3, <1>4, <2>1, <2>3
      <3>2. j \in Written' <=> j \in Written
        BY <3>1 DEF Written
      <3>3. j \in Written => Seasoned(trx[j], trx'[j])
        BY <3>1, WrittenRows, NothingLasts
      <3> QED BY <1>1, <3>1, <3>2, <3>3, StaysAgreed, AgreedOneByOne
    <2> QED BY <2>2, <2>3
  <1>7. \A o \in Objects : o[1] # "transaction" => history'[o] = history[o]
    BY <1>4
  <1> QED BY <1>1, <1>6, <1>7, CatalogueStays

LEMMA AcceptHistory ==
  ASSUME SchemaTypeOK, SchemaTypeOK', HistoryAgrees, Handling, NEW w \in Workers, NEW auto \in SUBSET Keys,
         Accept(w, auto)
  PROVE  HistoryAgrees'
  <1>1. /\ work[w].at = "accept" /\ Finish(w) /\ UNCHANGED catalogue
        /\ auto = {} \/ \E a \in Keys \ Written : auto = {a}
    BY DEF Accept
  <1>2. /\ Copied(work[w], trx) /\ work[w].key \in Keys /\ work[w].key \in Written /\ work[w].row \in TransactionRow
        /\ work[w] # NoWork
    BY <1>1, CopyAtHand
  <1>3. PICK k \in Keys : k = work[w].key
    BY <1>2
  <1>4. PICK copy \in TransactionRow : copy = work[w].row
    BY <1>2
  <1>5. PICK bought : bought = Automatic(copy, Now)
    OBVIOUS
  <1> DEFINE accepted == [copy EXCEPT !.status = "accepted"]
             instances == [j \in {k} \cup auto |-> IF j = k THEN accepted ELSE bought]
  <1>6. /\ trx' = [j \in Keys |-> IF j = k THEN [trx[k] EXCEPT !.status = "accepted"]
                                  ELSE IF j \in auto THEN bought ELSE trx[j]]
        /\ Saved(instances)
    BY <1>3, <1>4, <1>5 DEF Accept
  <1>7. k \in Written /\ trx[k] \in TransactionRow /\ CopyOf(copy, trx[k])
        /\ (copy.location = trx[k].location \/ work[w].met # FALSE)
    BY <1>1, <1>2, <1>3, <1>4, WrittenRows DEF Copied
  <1>8. accepted \in TransactionRow /\ accepted.status = "accepted" /\ accepted.location = copy.location
        /\ Terms(accepted) = Terms(trx[k])
    BY <1>7 DEF TransactionRow, CopyOf, Terms
  <1>9. /\ trx'[k] \in TransactionRow /\ trx'[k].status = "accepted" /\ trx'[k].location = trx[k].location
        /\ Terms(trx'[k]) = Terms(trx[k])
    BY <1>6, <1>7 DEF TransactionRow, Terms
  <1>10. auto \in SUBSET (Keys \ {k})
    BY <1>1, <1>7
  <1>11. ASSUME NEW j \in auto PROVE trx'[j] = bought /\ trx'[j] \in TransactionRow
    <2>1. trx'[j] = bought
      BY <1>6, <1>10
    <2>2. bought.type = "producer"
      BY <1>5 DEF Automatic, RowOf
    <2>3. bought # NoTransaction
      BY <2>2 DEF NoTransaction
    <2> QED BY <1>10, <2>1, <2>3 DEF SchemaTypeOK, TransactionTable
  <1>12. \A j \in Keys \ {k} : j \notin auto => trx'[j] = trx[j]
    BY <1>6
  <1>13. DOMAIN instances = {k} \cup auto /\ instances[k] = accepted /\ \A j \in auto : instances[j] = bought
    BY <1>10
  <1> HIDE DEF instances, accepted
  <1>14. /\ \A o \in Objects : o[1] # "transaction" => history'[o] = history[o]
         /\ \A j \in Keys : history'[<<"transaction", j>>] = IF j = k THEN InHistory(accepted)
                                                         ELSE IF j \in auto THEN InHistory(trx'[j])
                                                         ELSE history[<<"transaction", j>>]
    BY <1>6, <1>11, <1>13, SavedOneByOne
  <1>15. Saves(k, auto, accepted, work[w].met)
    BY <1>7, <1>8, <1>9, <1>10, <1>11, <1>12, <1>14 DEF Saves
  <1> QED BY <1>1, <1>3, <1>8, <1>15, SaveHistory

LEMMA OneSaveHistory ==
  ASSUME SchemaTypeOK, SchemaTypeOK', HistoryAgrees, Handling, NEW w \in Workers, Reject(w) \/ SaveLocation(w)
  PROVE  HistoryAgrees'
  <1>1. work[w].at \in {"reject", "save"} /\ Finish(w) /\ UNCHANGED catalogue
    BY DEF Reject, SaveLocation
  <1>2. /\ Copied(work[w], trx) /\ work[w].key \in Keys /\ work[w].key \in Written /\ work[w].row \in TransactionRow
        /\ work[w] # NoWork
    BY <1>1, CopyAtHand
  <1>3. PICK k \in Keys : k = work[w].key
    BY <1>2
  <1>4. PICK copy \in TransactionRow : copy = work[w].row
    BY <1>2
  <1>5. k \in Written /\ trx[k] \in TransactionRow /\ CopyOf(copy, trx[k])
    BY <1>2, <1>3, <1>4, WrittenRows DEF Copied
  <1>6. /\ work[w].at # "save" => copy.location = trx[k].location \/ work[w].met # FALSE
        /\ copy.status = trx[k].status \/ work[w].met # FALSE
    BY <1>2, <1>3, <1>4 DEF Copied
  <1>7. ASSUME NEW saved \in TransactionRow, Saved([j \in {k} |-> saved]), \A j \in Keys \ {k} : trx'[j] = trx[j],
               trx'[k] \in TransactionRow, Terms(saved) = Terms(trx'[k]),
               saved.status = trx'[k].status \/ (work[w].met # FALSE /\ saved.location = trx'[k].location),
               saved.location = trx'[k].location \/ work[w].met # FALSE,
               saved.status # "pending" => trx'[k].status # "pending"
        PROVE  HistoryAgrees'
    <2> DEFINE instances == [j \in {k} |-> saved]
               new == {}
    <2>1. DOMAIN instances = {k} /\ instances[k] = saved /\ Saved(instances)
      BY <1>7
    <2>2. /\ new \in SUBSET (Keys \ {k}) /\ \A j \in new : trx'[j] \in TransactionRow
          /\ \A j \in Keys \ {k} : j \notin new => trx'[j] = trx[j]
      BY <1>7
    <2>3. \A j : j \notin new
      OBVIOUS
    <2> HIDE DEF instances, new
    <2>4. /\ \A o \in Objects : o[1] # "transaction" => history'[o] = history[o]
          /\ \A j \in Keys : history'[<<"transaction", j>>] = IF j = k THEN InHistory(saved)
                                                         ELSE IF j \in new THEN InHistory(trx'[j])
                                                         ELSE history[<<"transaction", j>>]
      BY <2>1, <2>3, SavedOneByOne
    <2>5. Saves(k, new, saved, work[w].met)
      BY <1>7, <2>2, <2>4 DEF Saves
    <2> QED BY <1>1, <1>3, <1>7, <2>5, SaveHistory
  <1>8. CASE Reject(w)
    <2> DEFINE rejected == [copy EXCEPT !.status = "rejected"]
    <2>1. trx' = [trx EXCEPT ![k].status = "rejected"] /\ Saved([j \in {k} |-> rejected]) /\ work[w].at = "reject"
      BY <1>3, <1>4, <1>8 DEF Reject
    <2>2. rejected \in TransactionRow /\ rejected.status = "rejected" /\ rejected.location = copy.location
          /\ Terms(rejected) = Terms(trx[k])
      BY <1>5 DEF TransactionRow, CopyOf, Terms
    <2>3. /\ trx'[k] \in TransactionRow /\ trx'[k].status = "rejected" /\ trx'[k].location = trx[k].location
          /\ Terms(trx'[k]) = Terms(trx[k])
      BY <1>5, <2>1 DEF TransactionRow, Terms, SchemaTypeOK, TransactionTable
    <2>4. \A j \in Keys \ {k} : trx'[j] = trx[j]
      BY <2>1 DEF SchemaTypeOK, TransactionTable
    <2> HIDE DEF rejected
    <2> QED BY <1>6, <1>7, <2>1, <2>2, <2>3, <2>4
  <1>9. CASE SaveLocation(w)
    <2>1. trx' = [trx EXCEPT ![k].location = copy.location] /\ Saved([j \in {k} |-> copy])
      BY <1>3, <1>4, <1>9 DEF SaveLocation
    <2>2. /\ trx'[k] \in TransactionRow /\ trx'[k].status = trx[k].status /\ trx'[k].location = copy.location
          /\ Terms(trx'[k]) = Terms(trx[k])
      BY <1>5, <2>1 DEF TransactionRow, Terms, SchemaTypeOK, TransactionTable
    <2>3. Terms(copy) = Terms(trx[k]) /\ (copy.status # "pending" => trx[k].status # "pending")
      BY <1>5 DEF CopyOf, Terms
    <2>4. \A j \in Keys \ {k} : trx'[j] = trx[j]
      BY <2>1 DEF SchemaTypeOK, TransactionTable
    <2> QED BY <1>6, <1>7, <2>1, <2>2, <2>3, <2>4
  <1> QED BY <1>8, <1>9

LEMMA TraderHistory ==
  ASSUME SchemaTypeOK, SchemaTypeOK', Handling, HistoryAgrees, StepOfTrader
  PROVE  HistoryAgrees'
  <1>1. PICK w \in Workers :
          \/ \E request \in Requests, k \in Keys : Trade(w, request, k)
          \/ UNCHANGED <<catalogue, trx, history, stale>>
          \/ \E auto \in SUBSET Keys : Accept(w, auto)
          \/ Reject(w) \/ SaveLocation(w)
    BY DEF StepOfTrader, Read, UploadNew, Upload, Abandon, tables, catalogue
  <1> QED BY <1>1, TradeHistory, StillHistory, AcceptHistory, OneSaveHistory

\* What is written single, or in bulk and only as the season of transactions.
LEMMA HistoryFollows ==
  ASSUME SchemaTypeOK, HistoryAgrees, Calm, NEW objects,
         history' = [o \in Objects |-> IF o \in objects THEN Record(o)' ELSE history[o]],
         \A o \in Objects \ objects : o[1] # "transaction" => SameRow(o),
         \A k : <<"transaction", k>> \notin objects
  PROVE  HistoryAgrees'
  <1>1. ASSUME NEW o \in Objects, o[1] # "transaction" PROVE history'[o] = Record(o)'
    BY <1>1, SameRecord, AgreedOneByOne
  <1>2. ASSUME NEW k \in Keys PROVE Agreed(k)'
    <2>1. history'[<<"transaction", k>>] = history[<<"transaction", k>>]
      <3>1. <<"transaction", k>> \in Objects
        BY DEF Objects
      <3> QED BY <3>1
    <2>2. k \in Written' <=> k \in Written
      BY CalmGrows
    <2>3. (k \in Written => Seasoned(trx[k], trx'[k])) /\ UNCHANGED stale
      BY DEF Calm, handlers
    <2> QED BY <2>1, <2>2, <2>3, StaysAgreed, AgreedOneByOne
  <1> QED BY <1>1, <1>2, AgreedOneByOne

LEMMA FormHistory ==
  ASSUME SchemaTypeOK, HistoryAgrees, StepOfForm, UNCHANGED handlers
  PROVE  HistoryAgrees'
  <1>1. ASSUME NEW objects, Recorded(objects), \A k : <<"transaction", k>> \notin objects,
               \A o \in Objects \ objects : o[1] # "transaction" => SameRow(o)
        PROVE  HistoryAgrees'
    <2>1. history' = [o \in Objects |-> IF o \in objects THEN Record(o)' ELSE history[o]]
      BY <1>1 DEF Recorded
    <2>2. Calm
      BY FormTyped
    <2> QED BY <1>1, <2>1, <2>2, HistoryFollows
  <1>2. ASSUME NEW e \in SeasonEdits, SaveSeason(e[1], e[2], e[3]) PROVE HistoryAgrees'
    <2> DEFINE objects == {<<"season", e[1]>>} \cup ({"participant"} \X ({e[1]} \X Commodities))
    <2>1. Recorded(objects) /\ \A k : <<"transaction", k>> \notin objects
      BY <1>2 DEF SaveSeason
    <2>2. ASSUME NEW o \in Objects, o \notin objects PROVE SameRow(o)
      <3>1. o[1] = "season" => o[2] # e[1] /\ o[2] \in Seasons
        BY <2>2, Kinds
      <3>2. o[1] = "participant" => o[2][1] # e[1]
        BY <2>2, Kinds
      <3>3. o[1] = "season" => season'[o[2]] = season[o[2]]
        BY <1>2, <3>1 DEF SaveSeason, SchemaTypeOK, SeasonTable
      <3>4. o[1] = "participant" => (o[2] \in participant' <=> o[2] \in participant)
        BY <1>2, <3>2 DEF SaveSeason
      <3> QED BY <1>2, <3>3, <3>4 DEF SaveSeason, SameRow
    <2> HIDE DEF objects
    <2> QED BY <1>1, <2>1, <2>2
  <1>3. ASSUME NEW e \in RecipeEdits, SaveRecipe(e[1], e[2], e[3]) PROVE HistoryAgrees'
    <2> DEFINE objects == {<<"recipe", e[1]>>} \cup ({"input", "output"} \X ({e[1]} \X Commodities))
    <2>1. Recorded(objects) /\ \A k : <<"transaction", k>> \notin objects
      BY <1>3 DEF SaveRecipe
    <2>2. ASSUME NEW o \in Objects, o \notin objects PROVE SameRow(o)
      <3>1. o[1] = "recipe" => o[2] # e[1]
        BY <2>2, Kinds
      <3>2. o[1] \in {"input", "output"} => o[2][1] # e[1]
        BY <2>2, Kinds
      <3>3. o[1] = "recipe" => (o[2] \in recipe' <=> o[2] \in recipe)
        BY <1>3, <3>1 DEF SaveRecipe
      <3>4. o[1] = "input" => (o[2] \in input' <=> o[2] \in input)
        BY <1>3, <3>2 DEF SaveRecipe
      <3>5. o[1] = "output" => (o[2] \in output' <=> o[2] \in output)
        BY <1>3, <3>2 DEF SaveRecipe
      <3> QED BY <1>3, <3>3, <3>4, <3>5 DEF SaveRecipe, SameRow
    <2> HIDE DEF objects
    <2> QED BY <1>1, <2>1, <2>2
  <1>4. ASSUME NEW e \in CommodityEdits, SaveCommodity(e[1], e[2]) PROVE HistoryAgrees'
    <2>1. Recorded({<<"commodity", e[1]>>}) /\ \A k : <<"transaction", k>> \notin {<<"commodity", e[1]>>}
      BY <1>4 DEF SaveCommodity
    <2>2. ASSUME NEW o \in Objects, o \notin {<<"commodity", e[1]>>} PROVE SameRow(o)
      <3>1. o[1] = "commodity" => o[2] # e[1] /\ o[2] \in Commodities
        BY <2>2, Kinds
      <3>2. o[1] = "commodity" => commodity'[o[2]] = commodity[o[2]]
        BY <1>4, <3>1 DEF SaveCommodity, SchemaTypeOK, CommodityTable
      <3> QED BY <1>4, <3>2 DEF SaveCommodity, SameRow
    <2> QED BY <1>1, <2>1, <2>2
  <1> QED BY <1>2, <1>3, <1>4 DEF StepOfForm

LEMMA DeleteHistory ==
  ASSUME SchemaTypeOK, HistoryAgrees, Collected, Delete, UNCHANGED handlers
  PROVE  HistoryAgrees'
  <1>1. CASE UNCHANGED tables
    BY <1>1, StillHistory DEF tables, catalogue, handlers
  <1>2. CASE ~UNCHANGED tables
    <2> DEFINE rows == removal.rows
               gone == Forgotten(removal.object)
    <2>1. /\ group' = {g \in group : <<"group", g>> \notin rows}
          /\ \A c \in Commodities : commodity'[c] = IF <<"commodity", c>> \in rows THEN None ELSE commodity[c]
          /\ \A s \in Seasons : season'[s] = IF <<"season", s>> \in rows THEN NoSeason ELSE season[s]
          /\ participant' = {p \in participant : <<"participant", p>> \notin rows}
          /\ recipe' = {r \in recipe : <<"recipe", r>> \notin rows}
          /\ input' = {p \in input : <<"input", p>> \notin rows}
          /\ output' = {p \in output : <<"output", p>> \notin rows}
          /\ Recorded(rows)
          /\ Written' = Written
          /\ \A k \in Written : trx'[k] = IF k \in gone THEN [trx[k] EXCEPT !.season = None] ELSE trx[k]
      BY <1>2, Deleted
    <2> HIDE DEF rows, gone
    <2>2. ASSUME NEW o \in Objects, o \notin rows PROVE SameRow(o)
      <3>1. o = <<o[1], o[2]>>
        BY Kinds
      <3>2. (o[1] = "commodity" => o[2] \in Commodities) /\ (o[1] = "season" => o[2] \in Seasons)
        BY Kinds
      <3> QED BY <2>1, <2>2, <3>1, <3>2 DEF SameRow
    <2>3. ~(UNCHANGED tables)
      BY <1>2
    <2>4. removal # NoRemoval
      BY <2>3, Deleted
    <2>5. \A k : <<"transaction", k>> \notin rows
      BY <2>4, TransactionsAreNotCollected DEF rows
    <2>6. history' = [o \in Objects |-> IF o \in rows THEN Record(o)' ELSE history[o]]
      BY <2>1 DEF Recorded
    <2>7. Calm
      BY DeleteTyped
    <2> QED BY <2>2, <2>5, <2>6, <2>7, HistoryFollows
  <1> QED BY <1>1, <1>2

\* A bulk update writes no history, and seasons of transactions are all it changes.
LEMMA DistributeHistory ==
  ASSUME SchemaTypeOK, HistoryAgrees, Running, Distribute, UNCHANGED handlers
  PROVE  HistoryAgrees'
  <1>1. UNCHANGED <<commodity, group, season, participant, recipe, input, output, history>>
    BY DEF Distribute, Start, ReadBatch, MatchOne, WriteBatch, tables
  <1>2. Calm
    BY DistributeTyped
  <1>3. \A o \in Objects : SameRow(o)
    BY <1>1 DEF SameRow
  <1>5. ASSUME NEW o \in Objects, o[1] # "transaction" PROVE history'[o] = Record(o)'
    BY <1>1, <1>3, <1>5, SameRecord, AgreedOneByOne
  <1>6. ASSUME NEW k \in Keys PROVE Agreed(k)'
    <2>1. k \in Written' <=> k \in Written
      BY <1>2, CalmGrows
    <2>2. (k \in Written => Seasoned(trx[k], trx'[k])) /\ UNCHANGED stale
      BY <1>2 DEF Calm, handlers
    <2> QED BY <1>1, <2>1, <2>2, StaysAgreed, AgreedOneByOne
  <1> QED BY <1>5, <1>6, AgreedOneByOne

LEMMA InitHistory == Init => HistoryAgrees
  <1> SUFFICES ASSUME Init PROVE HistoryAgrees
    OBVIOUS
  <1>0. SchemaTypeOK
    BY InitTyped DEF Typed
  <1>1. ASSUME NEW o \in Objects
        PROVE  history[o] = IF o[1] = "transaction" /\ trx[o[2]].type = "conversion" THEN NoTransaction ELSE Record(o)
    BY DEF Init
  <1>2. ASSUME NEW o \in Objects, o[1] # "transaction" PROVE history[o] = Record(o)
    BY <1>1, <1>2
  <1>3. ASSUME NEW k \in Keys PROVE Agreed(k)
    <2> DEFINE o == <<"transaction", k>>
    <2>1. o \in Objects /\ o[1] = "transaction" /\ o[2] = k
      BY DEF Objects
    <2> HIDE DEF o
    <2>2. history[o] = IF trx[k].type = "conversion" THEN NoTransaction ELSE InHistory(trx[k])
      BY <1>1, <2>1 DEF Record, RecordOfTransaction
    <2>3. CASE k \notin Written
      BY <1>0, <2>2, <2>3, WrittenRows DEF Agreed, InHistory, NoTransaction, o
    <2>4. CASE k \in Written /\ trx[k].type # "conversion"
      <3>1. trx[k] \in TransactionRow /\ history[o] = InHistory(trx[k])
        BY <1>0, <2>2, <2>4, WrittenRows
      <3>2. Told(history[o], trx[k], k \in stale)
        BY <3>1, HistoryKeepsAll DEF Told
      <3> QED BY <2>4, <3>2 DEF Agreed, o
    <2>5. CASE k \in Written /\ trx[k].type = "conversion"
      BY <2>5 DEF Agreed
    <2> QED BY <2>3, <2>4, <2>5
  <1> QED BY <1>2, <1>3, AgreedOneByOne

LEMMA NextHistory == Typed /\ HistoryAgrees /\ [Next]_vars => HistoryAgrees'
  <1> SUFFICES ASSUME Typed, HistoryAgrees, [Next]_vars PROVE HistoryAgrees'
    OBVIOUS
  <1>0. SchemaTypeOK'
    BY NextTyped DEF Typed
  <1>1. CASE (\E o \in Objects : Collect(o)) /\ UNCHANGED handlers
    BY <1>1, StillHistory DEF Collect, Typed, tables, catalogue, handlers
  <1>2. CASE UNCHANGED vars \/ Reader
    BY <1>2, ReadersRead, StillHistory DEF vars, Typed, tables, catalogue, handlers
  <1> QED BY <1>0, <1>1, <1>2, StepKinds, TraderHistory, FormHistory, DistributeHistory, DeleteHistory DEF Typed

\* Of every object the last history row says what its table says.  Each save and each
\* deletion records all it changes, inlines and cascades included, and the bulk update of
\* the season task changes nothing but the season; a save from a copy that another save
\* had overtaken may be wrong about the status or about the location, and never shows a
\* pending transaction as settled (HistoryAgrees; services.py:183, 359, 416, 433).
THEOREM HistoriesAgree == Spec => []HistoryAgrees
  BY InitTyped, NextTyped, InitHistory, NextHistory, PTL DEF Spec
-----------------------------------------------------------------------------
(* Pages. *)

Listings ==
  [at : {"idle", "count", "slice", "end"}, list : ListRequest \cup {None}, page : Nat, count : 0 .. Cardinality(Keys),
   seen : SUBSET Keys, last : SUBSET Keys, stayed : SUBSET Keys, gone : Nat, tied : BOOLEAN]

\* The rows on the pages before this one, as the query before had them: of those that
\* stayed, as many are not seen as rows have left.
Followed(l, page, seen, last, stayed, gone) ==
  /\ page = 1 \/ ~Tied(l, last)
  /\ \E Q \in Prefixes(l, last, (page - 1) * PageSize) : Cardinality((Q \cap stayed) \ seen) <= gone

Paged ==
  /\ listing \in Listings
  /\ listing.stayed \subseteq listing.last
  /\ listing.at # "idle" => listing.list \in ListRequest
  /\ listing.at \in {"count", "slice"} =>
       /\ listing.page > 0 /\ listing.last \subseteq Written
       /\ \/ listing.tied # FALSE
          \/ Followed(listing.list, listing.page, listing.seen, listing.last, listing.stayed, listing.gone)
  /\ SkipsAreDepartures

LEMMA Pages ==
  ASSUME NEW n \in Nat, NEW s \in Nat \ {0}
  PROVE  TotalPages(n, s) \in Nat \ {0} /\ n <= TotalPages(n, s) * s
  <1>1. CASE n = 0
    BY <1>1 DEF TotalPages
  <1>2. CASE n > 0
    <2> DEFINE m == n + s - 1
               q == m \div s
               r == m % s
    <2>1. m \in Nat /\ q \in Int /\ r \in 0 .. (s - 1) /\ m = s * q + r
      OBVIOUS
    <2>2. q >= 1
      <3>1. m >= s
        BY <1>2
      <3>2. ASSUME q <= 0 PROVE FALSE
        <4>1. s * q <= 0
          BY <2>1, <3>2
        <4> QED BY <2>1, <3>1, <4>1
      <3> QED BY <2>1, <3>2
    <2>3. TotalPages(n, s) = q
      BY <1>2 DEF TotalPages
    <2>4. q * s = s * q
      BY <2>1
    <2> HIDE DEF q, r
    <2> QED BY <1>2, <2>1, <2>2, <2>3, <2>4
  <1> QED BY <1>1, <1>2

LEMMA Offsets ==
  ASSUME NEW p \in Nat \ {0}, NEW q \in Nat \ {0}, NEW s \in Nat \ {0}
  PROVE  /\ (p - 1) * s \in Nat /\ (p - 1) * s + s = p * s /\ p * s \in Nat
         /\ p <= q => (p - 1) * s <= (q - 1) * s
  <1>1. (p - 1) * s \in Nat /\ (p - 1) * s + s = p * s /\ p * s \in Nat
    OBVIOUS
  <1>2. ASSUME p <= q PROVE (p - 1) * s <= (q - 1) * s
    <2>1. q - 1 \in Nat /\ p - 1 \in Nat /\ p - 1 <= q - 1
      BY <1>2
    <2> QED BY <2>1
  <1> QED BY <1>1, <1>2

\* Rows that do not have the same rank come one after the other.
LEMMA Ranked ==
  ASSUME SchemaTypeOK, NEW l \in ListRequest, NEW rows \in SUBSET Written, ~Tied(l, rows), NEW j \in rows, NEW k \in rows
  PROVE  j = k \/ Ahead(l, j, k) \/ Ahead(l, k, j)
  <1>1. Rank(l, j) \in Nat /\ Rank(l, k) \in Nat
    <2>1. trx[j].created \in Nat /\ trx[k].created \in Nat /\ j \in Keys /\ k \in Keys
      BY WrittenRows DEF TransactionRow, Moments
    <2>2. Volume[j] \in Nat /\ Volume[k] \in Nat
      BY <2>1, ListingAssumption
    <2>3. l.order \in {"created_at", "amount", "commodity_name"}
      BY DEF ListRequest
    <2> QED BY <2>1, <2>2, <2>3 DEF Rank
  <1>2. j = k \/ Rank(l, j) # Rank(l, k)
    BY DEF Tied
  <1> QED BY <1>1, <1>2 DEF Ahead

LEMMA RanksStay ==
  ASSUME SchemaTypeOK, Grows, NEW l \in ListRequest, NEW rows \in SUBSET Written
  PROVE  /\ (Tied(l, rows))' <=> Tied(l, rows)
         /\ \A n : Prefixes(l, rows, n)' = Prefixes(l, rows, n)
  <1>1. ASSUME NEW k \in rows PROVE Rank(l, k)' = Rank(l, k)
    <2>1. trx'[k].created = trx[k].created
      BY RowLasts DEF Lasts
    <2> QED BY <2>1 DEF Rank
  <1>2. (Tied(l, rows))' <=> Tied(l, rows)
    BY <1>1 DEF Tied
  <1>3. \A j, k \in rows : Ahead(l, j, k)' <=> Ahead(l, j, k)
    BY <1>1 DEF Ahead
  <1>4. ASSUME NEW n PROVE Prefixes(l, rows, n)' = Prefixes(l, rows, n)
    BY <1>3 DEF Prefixes
  <1> QED BY <1>2, <1>4

LEMMA FollowedStays ==
  ASSUME SchemaTypeOK, Grows, NEW l \in ListRequest, NEW page, NEW seen, NEW last \in SUBSET Written, NEW stayed, NEW gone,
         Followed(l, page, seen, last, stayed, gone)
  PROVE  Followed(l, page, seen, last, stayed, gone)' /\ last \subseteq Written'
  <1>1. last \subseteq Written'
    BY RowLasts
  <1> QED BY <1>1, RanksStay DEF Followed

LEMMA PrefixIsFinite ==
  ASSUME NEW l, NEW rows, IsFiniteSet(rows), NEW n \in Nat, NEW P \in Prefixes(l, rows, n)
  PROVE  /\ P \subseteq rows /\ IsFiniteSet(P) /\ Cardinality(P) \in Nat /\ Cardinality(P) <= n
         /\ P = rows \/ Cardinality(P) = n
         /\ \A k \in P, j \in rows : Ahead(l, j, k) => j \in P
  <1>1. /\ P \subseteq rows /\ (Cardinality(P) = IF n < Cardinality(rows) THEN n ELSE Cardinality(rows))
        /\ \A k \in P, j \in rows : Ahead(l, j, k) => j \in P
    BY DEF Prefixes
  <1>2. IsFiniteSet(P) /\ Cardinality(P) \in Nat /\ Cardinality(rows) \in Nat
    BY <1>1, FS_Subset, FS_CardinalityType
  <1>3. Cardinality(P) = Cardinality(rows) => P = rows
    BY <1>1, FS_Subset
  <1> QED BY <1>1, <1>2, <1>3

\* Where Q begins a list that changes from A to B, and P is no longer and begins it then,
\* rows of A come into P for rows that have gone.
LEMMA ComeForGone ==
  ASSUME SchemaTypeOK, NEW l \in ListRequest, NEW A \in SUBSET Written, NEW B \in SUBSET Written,
         NEW n \in Nat, NEW m \in Nat, m <= n, NEW Q \in Prefixes(l, A, n), NEW P \in Prefixes(l, B, m),
         n = 0 \/ ~Tied(l, A)
  PROVE  Cardinality((P \cap A) \ Q) <= Cardinality(A \ B)
  <1> DEFINE come == (P \cap A) \ Q
             kept == Q \cap B
             left == Q \ B
  <1>1. IsFiniteSet(A) /\ IsFiniteSet(B)
    BY WrittenRows, FS_Subset
  <1>2. /\ Q \subseteq A /\ IsFiniteSet(Q) /\ Cardinality(Q) \in Nat /\ (Q = A \/ Cardinality(Q) = n)
        /\ \A k \in Q, j \in A : Ahead(l, j, k) => j \in Q
    BY <1>1, PrefixIsFinite
  <1>3. /\ P \subseteq B /\ IsFiniteSet(P) /\ Cardinality(P) \in Nat /\ Cardinality(P) <= m
        /\ \A k \in P, j \in B : Ahead(l, j, k) => j \in P
    BY <1>1, PrefixIsFinite
  <1>4. IsFiniteSet(A \ B) /\ Cardinality(A \ B) \in Nat
    BY <1>1, FS_Subset, FS_CardinalityType
  <1>5. CASE come = {}
    <2>1. Cardinality(come) = 0
      BY <1>5, FS_EmptySet
    <2> HIDE DEF come
    <2>2. Cardinality(come) <= Cardinality(A \ B)
      BY <1>4, <2>1
    <2> QED BY <2>2 DEF come
  <1>6. CASE come # {}
    <2>1. PICK k \in come : TRUE
      BY <1>6
    <2>2. Cardinality(Q) = n
      BY <1>2, <2>1
    <2>3. ~Tied(l, A)
      <3>1. n = 0 => P = {}
        BY <1>3, FS_EmptySet
      <3> QED BY <2>1, <3>1
    <2>4. kept \subseteq P
      <3> SUFFICES ASSUME NEW q \in kept PROVE q \in P
        OBVIOUS
      <3>1. q # k /\ ~Ahead(l, k, q)
        BY <1>2, <2>1
      <3>2. Ahead(l, q, k)
        BY <1>2, <2>1, <2>3, <3>1, Ranked
      <3> QED BY <1>3, <2>1, <3>2
    <2>5. come \cap kept = {} /\ kept \cap left = {} /\ kept \cup left = Q /\ come \cup kept \subseteq P /\ left \subseteq A \ B
          /\ come \subseteq P /\ kept \subseteq Q /\ left \subseteq Q
      BY <1>2, <2>4
    <2> HIDE DEF come, kept, left
    <2>6. IsFiniteSet(come) /\ IsFiniteSet(kept) /\ IsFiniteSet(left)
      BY <1>2, <1>3, <2>5, FS_Subset
    <2>7. Cardinality(come) \in Nat /\ Cardinality(kept) \in Nat /\ Cardinality(left) \in Nat
      BY <2>6, FS_CardinalityType
    <2>8. Cardinality(come \cup kept) = Cardinality(come) + Cardinality(kept)
      <3>1. Cardinality(come \cap kept) = 0
        BY <2>5, FS_EmptySet
      <3>2. Cardinality(come \cup kept) = Cardinality(come) + Cardinality(kept) - Cardinality(come \cap kept)
        BY <2>6, FS_Union
      <3> QED BY <2>7, <3>1, <3>2
    <2>9. Cardinality(kept) + Cardinality(left) = n
      <3>1. Cardinality(kept \cap left) = 0
        BY <2>5, FS_EmptySet
      <3>2. Cardinality(kept \cup left) = Cardinality(kept) + Cardinality(left) - Cardinality(kept \cap left)
        BY <2>6, FS_Union
      <3> QED BY <2>2, <2>5, <2>7, <3>1, <3>2
    <2>10. Cardinality(come \cup kept) <= Cardinality(P)
      BY <1>3, <2>5, FS_Subset
    <2>11. Cardinality(left) <= Cardinality(A \ B)
      BY <1>4, <2>5, FS_Subset
    <2>12. Cardinality(come) <= Cardinality(A \ B)
      BY <1>3, <1>4, <2>7, <2>8, <2>9, <2>10, <2>11
    <2> QED BY <2>12 DEF come
  <1> QED BY <1>5, <1>6

LEMMA ListIsFinite ==
  ASSUME SchemaTypeOK, NEW l
  PROVE  Listed(l) \in SUBSET Written /\ Listed(l) \in SUBSET Keys /\ Cardinality(Listed(l)) \in 0 .. Cardinality(Keys)
  <1>1. Listed(l) \subseteq Written /\ Listed(l) \subseteq Keys
    BY DEF Listed, Written
  <1> QED BY <1>1, SchemaAssumption, FS_Subset, FS_CardinalityType

LEMMA ListSteps ==
  ASSUME [Next]_vars
  PROVE  \/ UNCHANGED listing
         \/ UNCHANGED tables /\ List
         \/ UNCHANGED tables /\ \E l \in Lists : OpenList(l)
  <1>1. CASE Reader
    <2>1. CASE Quiet /\ Event /\ \E k \in Walks : StartWalk(k) /\ UNCHANGED <<listing, metrics, cache>>
      BY <2>1
    <2>2. CASE \E l \in Lists : OpenList(l)
      BY <1>1, <2>2, ReadersRead
    <2> QED BY <1>1, <2>1, <2>2, ReadersRead DEF Reader
  <1> QED BY <1>1, StepKinds DEF jobs, vars

LEMMA ListingStays ==
  ASSUME SchemaTypeOK, Grows, Paged, UNCHANGED listing
  PROVE  Paged'
  <1>1. SkipsAreDepartures'
    BY DEF Paged, SkipsAreDepartures
  <1>2. ASSUME listing.at \in {"count", "slice"}
        PROVE  /\ listing.last \subseteq Written'
               /\ \/ listing.tied # FALSE
                  \/ Followed(listing.list, listing.page, listing.seen, listing.last, listing.stayed, listing.gone)'
    <2>1. PICK l, page, seen, last, stayed, gone :
            /\ l = listing.list /\ page = listing.page /\ seen = listing.seen
            /\ last = listing.last /\ stayed = listing.stayed /\ gone = listing.gone
      OBVIOUS
    <2>2. l \in ListRequest /\ last \in SUBSET Written
      BY <1>2, <2>1 DEF Paged
    <2>3. listing.tied # FALSE \/ Followed(l, page, seen, last, stayed, gone)
      BY <1>2, <2>1 DEF Paged
    <2>4. last \subseteq Written'
      BY <2>2, RowLasts
    <2>5. listing.tied # FALSE \/ Followed(l, page, seen, last, stayed, gone)'
      BY <2>2, <2>3, FollowedStays
    <2> QED BY <2>1, <2>4, <2>5
  <1> QED BY <1>1, <1>2 DEF Paged

LEMMA OpenListPaged ==
  ASSUME SchemaTypeOK, Grows, NEW l \in Lists, OpenList(l)
  PROVE  Paged'
  <1>1. l \in ListRequest
    BY RecordsAssumption
  <1>2. PICK rows \in SUBSET Written : rows = Listed(l)
    BY ListIsFinite
  <1>3. listing' = [at |-> "count", list |-> l, page |-> 1, count |-> 0, seen |-> {}, last |-> rows,
                    stayed |-> rows, gone |-> 0, tied |-> FALSE]
    BY <1>2 DEF OpenList, NoListing
  <1>4. rows \in SUBSET Keys /\ 0 \in 0 .. Cardinality(Keys) /\ IsFiniteSet(rows) /\ Cardinality(rows) \in Nat
    BY WrittenRows, SchemaAssumption, FS_Subset, FS_CardinalityType
  <1>5. listing' \in Listings
    BY <1>1, <1>3, <1>4 DEF Listings
  <1>6. {} \in Prefixes(l, rows, 0)
    BY <1>4, FS_EmptySet DEF Prefixes
  <1>7. Cardinality(({} \cap rows) \ {}) <= 0 /\ (1 - 1) * PageSize = 0
    <2>1. ({} \cap rows) \ {} = {}
      OBVIOUS
    <2> QED BY <2>1, FS_EmptySet, ListingAssumption
  <1>8. Followed(l, 1, {}, rows, rows, 0)
    BY <1>6, <1>7 DEF Followed
  <1>9. Followed(l, 1, {}, rows, rows, 0)' /\ rows \subseteq Written'
    BY <1>1, <1>8, FollowedStays
  <1> QED BY <1>1, <1>3, <1>5, <1>9 DEF Paged, SkipsAreDepartures

LEMMA CountPaged ==
  ASSUME SchemaTypeOK, Grows, Paged, CountRows
  PROVE  Paged'
  <1>1. PICK l, page, seen, last, stayed, gone, n :
          /\ l = listing.list /\ page = listing.page /\ seen = listing.seen
          /\ last = listing.last /\ stayed = listing.stayed /\ gone = listing.gone /\ n = Cardinality(Listed(listing.list))
    OBVIOUS
  <1>2. listing.at = "count" /\ listing \in Listings /\ listing' = [listing EXCEPT !.at = "slice", !.count = n]
    BY <1>1 DEF CountRows, Paged
  <1>3. n \in 0 .. Cardinality(Keys)
    BY <1>1, ListIsFinite
  <1>4. listing' \in Listings
    BY <1>2, <1>3 DEF Listings
  <1>5. /\ listing'.at = "slice" /\ listing'.list = l /\ listing'.page = page /\ listing'.seen = seen
        /\ listing'.last = last /\ listing'.stayed = stayed /\ listing'.gone = gone /\ listing'.tied = listing.tied
    BY <1>1, <1>2 DEF Listings
  <1>6. l \in ListRequest /\ last \in SUBSET Written /\ page > 0 /\ stayed \subseteq last
        /\ (listing.tied # FALSE \/ Followed(l, page, seen, last, stayed, gone))
    BY <1>1, <1>2 DEF Paged
  <1>7. last \subseteq Written' /\ (listing.tied # FALSE \/ Followed(l, page, seen, last, stayed, gone)')
    BY <1>6, RowLasts, FollowedStays
  <1>8. SkipsAreDepartures'
    BY <1>5 DEF SkipsAreDepartures
  <1> QED BY <1>4, <1>5, <1>6, <1>7, <1>8 DEF Paged

\* What a page adds.
LEMMA PageFollows ==
  ASSUME SchemaTypeOK, NEW l \in ListRequest, NEW page \in Nat \ {0}, NEW now \in Nat \ {0}, now <= page,
         NEW seen \in SUBSET Keys, NEW last \in SUBSET Written, NEW rows \in SUBSET Written, NEW stayed \in SUBSET last,
         NEW gone \in Nat, Followed(l, page, seen, last, stayed, gone),
         NEW slice \in Slices(l, rows, (now - 1) * PageSize, PageSize)
  PROVE  \E Q \in Prefixes(l, rows, now * PageSize) :
           Cardinality((Q \cap (stayed \cap rows)) \ (seen \cup slice)) <= gone + Cardinality(last \ rows)
  <1>1. PICK A \in Prefixes(l, last, (page - 1) * PageSize) : Cardinality((A \cap stayed) \ seen) <= gone
    BY DEF Followed
  <1>2. /\ (page - 1) * PageSize \in Nat /\ (now - 1) * PageSize \in Nat /\ (now - 1) * PageSize <= (page - 1) * PageSize
        /\ (now - 1) * PageSize + PageSize = now * PageSize
    BY ListingAssumption, Offsets
  <1>3. PICK P \in Prefixes(l, rows, (now - 1) * PageSize), Q \in Prefixes(l, rows, now * PageSize) : slice = Q \ P
    BY <1>2 DEF Slices
  <1> DEFINE come == (P \cap last) \ A
             unseen == (A \cap stayed) \ seen
             missed == (Q \cap (stayed \cap rows)) \ (seen \cup slice)
  <1>4. (page - 1) * PageSize = 0 \/ ~Tied(l, last)
    <2>1. page = 1 => (page - 1) * PageSize = 0
      BY ListingAssumption
    <2> QED BY <2>1 DEF Followed
  <1>5. Cardinality(come) <= Cardinality(last \ rows)
    BY <1>2, <1>4, ComeForGone
  <1>6. missed \subseteq come \cup unseen
    BY <1>3
  <1>7. IsFiniteSet(last)
    BY WrittenRows, FS_Subset
  <1>8. come \subseteq last /\ unseen \subseteq last
    OBVIOUS
  <1>9. Cardinality(unseen) <= gone
    BY <1>1
  <1> HIDE DEF come, unseen
  <1>10. IsFiniteSet(come) /\ IsFiniteSet(unseen) /\ IsFiniteSet(last \ rows) /\ Cardinality(come) \in Nat
         /\ Cardinality(unseen) \in Nat /\ Cardinality(last \ rows) \in Nat /\ come \cap unseen \subseteq last
    BY <1>7, <1>8, FS_Subset, FS_CardinalityType
  <1>11. IsFiniteSet(come \cap unseen) /\ Cardinality(come \cap unseen) \in Nat
    BY <1>7, <1>10, FS_Subset, FS_CardinalityType
  <1>12. IsFiniteSet(come \cup unseen)
         /\ Cardinality(come \cup unseen) = Cardinality(come) + Cardinality(unseen) - Cardinality(come \cap unseen)
    BY <1>10, FS_Union
  <1>13. Cardinality(missed) <= Cardinality(come \cup unseen) /\ Cardinality(missed) \in Nat
    <2> HIDE DEF missed
    <2> QED BY <1>6, <1>12, FS_Subset, FS_CardinalityType
  <1>14. Cardinality(missed) <= gone + Cardinality(last \ rows)
    <2> HIDE DEF missed
    <2> QED BY <1>5, <1>9, <1>10, <1>11, <1>12, <1>13
  <1> QED BY <1>14

LEMMA ReadPaged ==
  ASSUME SchemaTypeOK, Grows, Paged, ReadPage
  PROVE  Paged'
  <1>1. listing \in Listings /\ listing.at = "slice" /\ listing.page > 0
    BY DEF ReadPage, Paged
  <1>2. PICK l, page, count, seen, last, stayed, gone, rows :
          /\ l = listing.list /\ page = listing.page /\ count = listing.count /\ seen = listing.seen
          /\ last = listing.last /\ stayed = listing.stayed /\ gone = listing.gone /\ rows = Listed(listing.list)
    OBVIOUS
  <1>3. /\ l \in ListRequest /\ page \in Nat \ {0} /\ count \in Nat /\ seen \in SUBSET Keys /\ gone \in Nat
        /\ last \in SUBSET Written /\ stayed \in SUBSET last /\ last \in SUBSET Keys
    <2>1. 0 .. Cardinality(Keys) \subseteq Nat
      BY SchemaAssumption, FS_CardinalityType
    <2> QED BY <1>1, <1>2, <2>1 DEF Listings, Paged
  <1>4. rows \in SUBSET Written /\ rows \in SUBSET Keys /\ rows = Listed(l)
    BY <1>2, ListIsFinite
  <1> DEFINE total == TotalPages(count, PageSize)
             now == IF page > total THEN total ELSE page
  <1>5. total \in Nat \ {0} /\ count <= total * PageSize
    BY <1>3, ListingAssumption, Pages
  <1>6. PICK slice \in Slices(l, rows, (now - 1) * PageSize, PageSize) :
          listing' = [listing EXCEPT !.at = IF now < total THEN "count" ELSE "end",
                                     !.page = IF now < total THEN now + 1 ELSE now,
                                     !.seen = seen \cup slice, !.last = rows, !.stayed = stayed \cap rows,
                                     !.gone = gone + Cardinality(last \ rows),
                                     !.tied = listing.tied \/ Tied(l, rows)]
    BY <1>2 DEF ReadPage
  <1> HIDE DEF total
  <1>7. now \in Nat \ {0} /\ now <= page /\ now <= total
    BY <1>3, <1>5
  <1>8. slice \subseteq rows
    BY DEF Slices, Prefixes
  <1> DEFINE at == IF now < total THEN "count" ELSE "end"
             next == IF now < total THEN now + 1 ELSE now
             more == gone + Cardinality(last \ rows)
             tied == listing.tied \/ Tied(l, rows)
  <1>9. IsFiniteSet(last \ rows) /\ Cardinality(last \ rows) \in Nat /\ IsFiniteSet(rows) /\ Cardinality(rows) \in Nat
    BY <1>3, <1>4, WrittenRows, FS_Subset, FS_CardinalityType
  <1>10. at \in {"idle", "count", "slice", "end"} /\ next \in Nat \ {0} /\ more \in Nat /\ tied \in BOOLEAN
    BY <1>3, <1>7, <1>9
  <1>11. listing' = [listing EXCEPT !.at = at, !.page = next, !.seen = seen \cup slice, !.last = rows,
                                    !.stayed = stayed \cap rows, !.gone = more, !.tied = tied]
    BY <1>6
  <1>12. tied = FALSE => listing.tied = FALSE /\ ~Tied(l, rows)
    BY <1>1 DEF Listings
  <1>13. at = "count" => next = now + 1 /\ now < total
    OBVIOUS
  <1>14. at = "end" => now = total
    BY <1>5, <1>7
  <1> HIDE DEF at, next, more, tied, now
  <1>15. listing' \in Listings
    BY <1>1, <1>3, <1>4, <1>8, <1>10, <1>11 DEF Listings
  <1>16. /\ listing'.at = at /\ listing'.list = l /\ listing'.page = next /\ listing'.seen = seen \cup slice
         /\ listing'.last = rows /\ listing'.stayed = stayed \cap rows /\ listing'.gone = more /\ listing'.tied = tied
         /\ listing'.count = count
    BY <1>1, <1>2, <1>11 DEF Listings
  <1>17. ASSUME tied = FALSE
         PROVE  \E Q \in Prefixes(l, rows, now * PageSize) : Cardinality((Q \cap (stayed \cap rows)) \ (seen \cup slice)) <= more
    <2>1. Followed(l, page, seen, last, stayed, gone)
      BY <1>1, <1>2, <1>12, <1>17 DEF Paged
    <2> QED BY <1>3, <1>4, <1>7, <2>1, PageFollows DEF more
  <1>18. ASSUME at = "count", tied = FALSE PROVE Followed(l, next, seen \cup slice, rows, stayed \cap rows, more)
    <2>1. next = now + 1 /\ next - 1 = now
      BY <1>7, <1>13, <1>18
    <2> QED BY <1>12, <1>17, <1>18, <2>1 DEF Followed
  <1>19. rows \subseteq Written' /\ (at = "count" /\ tied = FALSE =>
           Followed(l, next, seen \cup slice, rows, stayed \cap rows, more)')
    BY <1>3, <1>4, <1>18, RowLasts, FollowedStays
  <1>20. ASSUME at = "end", tied = FALSE, Cardinality(rows) <= count
         PROVE  Cardinality((stayed \cap rows) \ (seen \cup slice)) <= more
    <2>1. PICK Q \in Prefixes(l, rows, now * PageSize) :
            Cardinality((Q \cap (stayed \cap rows)) \ (seen \cup slice)) <= more
      BY <1>17, <1>20
    <2>2. now * PageSize \in Nat /\ count <= now * PageSize
      <3>1. now = total
        BY <1>14, <1>20
      <3>2. count <= now * PageSize
        BY <1>5, <3>1
      <3>3. now * PageSize \in Nat
        BY <1>7, ListingAssumption, Offsets
      <3> QED BY <3>2, <3>3
    <2>3. Q \subseteq rows /\ (Q = rows \/ Cardinality(Q) = now * PageSize)
      <3>1. PICK n \in Nat : n = now * PageSize
        BY <2>2
      <3>2. Q \in Prefixes(l, rows, n)
        BY <2>1, <3>1
      <3>3. Q \subseteq rows /\ (Q = rows \/ Cardinality(Q) = n)
        BY <1>9, <3>2, PrefixIsFinite
      <3> QED BY <3>1, <3>3
    <2>4. Cardinality(Q) <= Cardinality(rows) /\ (Cardinality(Q) = Cardinality(rows) => Q = rows)
      BY <1>9, <2>3, FS_Subset
    <2>5. Q = rows
      BY <1>3, <1>9, <1>20, <2>2, <2>3, <2>4
    <2>6. Q \cap (stayed \cap rows) = stayed \cap rows
      BY <2>5
    <2> QED BY <2>1, <2>6
  <1>21. SkipsAreDepartures'
    <2>1. ASSUME listing'.at = "end", ~listing'.tied, Cardinality(listing'.last) <= listing'.count
          PROVE  Cardinality(listing'.stayed \ listing'.seen) <= listing'.gone
      <3>1. tied = FALSE
        BY <1>10, <1>16, <2>1
      <3> QED BY <1>16, <1>20, <2>1, <3>1
    <2> QED BY <2>1 DEF SkipsAreDepartures
  <1>22. at \in {"count", "end"}
    BY DEF at
  <1>23. at = "count" =>
           /\ next > 0 /\ rows \subseteq Written'
           /\ tied # FALSE \/ Followed(l, next, seen \cup slice, rows, stayed \cap rows, more)'
    <2>1. at = "count" => next > 0 /\ rows \subseteq Written'
      BY <1>10, <1>19
    <2>2. at = "count" => tied # FALSE \/ Followed(l, next, seen \cup slice, rows, stayed \cap rows, more)'
      BY <1>19, Zenon
    <2> QED BY <2>1, <2>2
  <1>24. stayed \cap rows \subseteq rows
    OBVIOUS
  <1> QED BY <1>3, <1>15, <1>16, <1>21, <1>22, <1>23, <1>24 DEF Paged

LEMMA ListPaged ==
  ASSUME SchemaTypeOK, Grows, Paged, List
  PROVE  Paged'
  <1>1. CASE CloseList
    <2>1. listing' = NoListing
      BY <1>1 DEF CloseList
    <2>2. 0 \in 0 .. Cardinality(Keys)
      BY SchemaAssumption, FS_CardinalityType
    <2> QED BY <2>1, <2>2 DEF Paged, SkipsAreDepartures, NoListing, Listings
  <1> QED BY <1>1, CountPaged, ReadPaged DEF List

LEMMA InitPaged == Init => Paged
  <1> SUFFICES ASSUME Init PROVE Paged
    OBVIOUS
  <1>1. 0 \in 0 .. Cardinality(Keys)
    BY SchemaAssumption, FS_CardinalityType
  <1> QED BY <1>1 DEF Init, Paged, SkipsAreDepartures, NoListing, Listings

LEMMA NextPaged == Typed /\ Paged /\ [Next]_vars => Paged'
  <1> SUFFICES ASSUME Typed, Paged, [Next]_vars PROVE Paged'
    OBVIOUS
  <1>1. SchemaTypeOK /\ Grows
    BY NextTyped DEF Typed
  <1> QED BY <1>1, ListSteps, ListingStays, OpenListPaged, ListPaged

\* Whoever reads a list to the end, with any filters and in any order that leaves no rows
\* tied, misses at most one of the rows that stayed on it for each row that left it
\* between two pages, if none came between the count and the slice of the last page
\* (SkipsAreDepartures; common/utils.py:32, storages/transactions.py:103).
THEOREM SkipsHaveDepartures == Spec => []SkipsAreDepartures
  <1>1. Paged => SkipsAreDepartures
    BY DEF Paged
  <1> QED BY <1>1, InitTyped, NextTyped, InitPaged, NextPaged, PTL DEF Spec
-----------------------------------------------------------------------------
(* Figures. *)

\* The plots that the chains of some transactions come from.
Within(keys) == PlotsOf(UNION {OwnChain(k) : k \in keys})

\* Accepted purchases of the seller of j within the commodity of first.
OwnSteps(first) ==
  {p \in Written \X Written : trx[p[2]].commodity = trx[first].commodity /\ Supplies(p[2], p[1])}

LEMMA OwnChains ==
  SchemaTypeOK => \A k \in Written : OwnChain(k) \subseteq Written
  <1> SUFFICES ASSUME SchemaTypeOK, NEW k \in Written PROVE OwnChain(k) \subseteq Written
    OBVIOUS
  <1>1. k \in Keys /\ Written \subseteq Keys /\ OwnSteps(k) \subseteq Keys \X Keys
    BY DEF Written, OwnSteps
  <1>2. Closed(Written, OwnSteps(k))
    BY DEF Closed, OwnSteps
  <1>3. OwnChain(k) = Reached(k, OwnSteps(k))
    BY DEF OwnChain, OwnSteps
  <1> QED BY <1>1, <1>2, <1>3, ReachedIsLeast

LEMMA PlotsOfChains ==
  ASSUME NEW keys, NEW x
  PROVE  x \in Within(keys) <=> x # None /\ \E k \in keys : \E j \in OwnChain(k) : x = trx[j].plot
  BY DEF Within, PlotsOf

LEMMA PlotsAreFinite ==
  SchemaTypeOK => \A keys \in SUBSET Written : Within(keys) \subseteq Plots /\ IsFiniteSet(Within(keys))
  <1> SUFFICES ASSUME SchemaTypeOK, NEW keys \in SUBSET Written
               PROVE  Within(keys) \subseteq Plots /\ IsFiniteSet(Within(keys))
    OBVIOUS
  <1> DEFINE f == [j \in Written |-> trx[j].plot]
             all == {f[j] : j \in Written}
  <1>1. Within(keys) \subseteq all \ {None}
    BY OwnChains, PlotsOfChains
  <1>2. \A j \in Written : f[j] \in Plots \cup {None}
    BY WrittenRows DEF TransactionRow
  <1>3. IsFiniteSet(all)
    <2> HIDE DEF f
    <2> QED BY WrittenRows, ImageIsFinite
  <1>4. Within(keys) \subseteq Plots
    BY <1>1, <1>2
  <1> HIDE DEF all
  <1> QED BY <1>1, <1>3, <1>4, FS_Subset

LEMMA CountsAreNumbers ==
  SchemaTypeOK =>
    \A v : /\ Own(v) \subseteq Written /\ IsFiniteSet(Own(v))
           /\ IsFiniteSet({trx[k].seller : k \in {j \in Written : trx[j].buyer = v}} \ {None})
           /\ IsFiniteSet(Within(Own(v)))
           /\ IsFiniteSet({k \in Written : trx[k].creator = v /\ file[k] # "none"})
  <1> SUFFICES ASSUME SchemaTypeOK, NEW u
               PROVE  /\ Own(u) \subseteq Written /\ IsFiniteSet(Own(u))
                      /\ IsFiniteSet({trx[k].seller : k \in {j \in Written : trx[j].buyer = u}} \ {None})
                      /\ IsFiniteSet(Within(Own(u)))
                      /\ IsFiniteSet({k \in Written : trx[k].creator = u /\ file[k] # "none"})
    OBVIOUS
  <1>1. Own(u) \subseteq Written /\ IsFiniteSet(Own(u))
    <2>1. Own(u) \subseteq Written
      BY DEF Own
    <2> QED BY <2>1, WrittenRows, FS_Subset
  <1>2. IsFiniteSet({trx[k].seller : k \in {j \in Written : trx[j].buyer = u}} \ {None})
    <2> DEFINE f == [j \in Written |-> trx[j].seller]
               all == {f[j] : j \in Written}
    <2>1. {trx[k].seller : k \in {j \in Written : trx[j].buyer = u}} \ {None} \subseteq all
      OBVIOUS
    <2>2. IsFiniteSet(all)
      <3> HIDE DEF f
      <3> QED BY WrittenRows, ImageIsFinite
    <2> HIDE DEF all
    <2> QED BY <2>1, <2>2, FS_Subset
  <1>3. IsFiniteSet({k \in Written : trx[k].creator = u /\ file[k] # "none"})
    BY WrittenRows, FS_Subset
  <1> QED BY <1>1, <1>2, <1>3, PlotsAreFinite

LEMMA FiguresAreNumbers ==
  SchemaTypeOK => \A v : FiguresNow(v) \in Figures
  <1> SUFFICES ASSUME SchemaTypeOK, NEW u PROVE FiguresNow(u) \in Figures
    OBVIOUS
  <1>1. Cardinality(Own(u)) \in Nat /\ SuppliersCount(u) \in Nat /\ FilesCount(u) \in Nat
    BY CountsAreNumbers, FS_CardinalityType DEF SuppliersCount, FilesCount
  <1>2. Cardinality(PlotsOf(UNION {OwnChain(k) : k \in Own(u)})) \in Nat
    BY CountsAreNumbers, FS_CardinalityType DEF Within
  <1> QED BY <1>1, <1>2 DEF FiguresNow, Figures

\* Figure by figure, with none counted as zero.
LEMMA FigureByFigure ==
  ASSUME NEW f \in Figures, NEW g \in Figures \cup {NoFigures}
  PROVE  Above(f, g) <=> /\ f.transactions >= g.transactions /\ f.suppliers >= g.suppliers
                         /\ f.plots >= g.plots /\ f.files >= g.files
  <1> DEFINE names == {"transactions", "suppliers", "plots", "files"}
  <1>1. DOMAIN f = names /\ (DOMAIN g = names \/ g = NoFigures)
    BY DEF Figures
  <1>2. DOMAIN NoFigures = names \cup {"none"}
    BY DEF NoFigures
  <1>3. DOMAIN f \cap DOMAIN g = names
    BY <1>1, <1>2
  <1> QED BY <1>3 DEF Above

LEMMA CountsStayNumbers ==
  SchemaTypeOK' =>
    (\A v : /\ Own(v) \subseteq Written /\ IsFiniteSet(Own(v))
            /\ IsFiniteSet({trx[k].seller : k \in {j \in Written : trx[j].buyer = v}} \ {None})
            /\ IsFiniteSet(Within(Own(v)))
            /\ IsFiniteSet({k \in Written : trx[k].creator = v /\ file[k] # "none"}))'
  BY CountsAreNumbers, PTL

LEMMA FiguresStayNumbers ==
  SchemaTypeOK' => (\A v : FiguresNow(v) \in Figures)'
  BY FiguresAreNumbers, PTL

LEMMA FiguresGrow ==
  ASSUME SchemaTypeOK, SchemaTypeOK', Grows, undone' = {}, NEW u
  PROVE  /\ FiguresNow(u) \in Figures /\ FiguresNow(u)' \in Figures
         /\ Above(FiguresNow(u)', FiguresNow(u))
         /\ Own(u) \subseteq Own(u)' /\ Own(u) \subseteq Written
         /\ \A keys \in SUBSET Written : Within(keys) \subseteq Within(keys)'
  <1>1. ASSUME NEW k \in Written
        PROVE  /\ k \in Written' /\ Lasts(trx[k], trx'[k])
               /\ (trx[k].status = "accepted" => trx'[k].status = "accepted")
    <2>1. k \in Written' /\ Lasts(trx[k], trx'[k])
      BY RowLasts
    <2>2. trx[k].status = "accepted" => trx'[k].status = "accepted"
      BY DEF Grows
    <2> QED BY <2>1, <2>2
  <1>2. /\ (FiguresNow(u) \in Figures)'
        /\ (/\ Own(u) \subseteq Written /\ IsFiniteSet(Own(u))
            /\ IsFiniteSet({trx[k].seller : k \in {j \in Written : trx[j].buyer = u}} \ {None})
            /\ IsFiniteSet(Within(Own(u)))
            /\ IsFiniteSet({k \in Written : trx[k].creator = u /\ file[k] # "none"}))'
    BY FiguresStayNumbers, CountsStayNumbers
  <1>3. ASSUME NEW k \in Written PROVE OwnChain(k) \subseteq OwnChain(k)'
    <2>1. OwnSteps(k) \subseteq OwnSteps(k)'
      BY <1>1, <1>3 DEF OwnSteps, Supplies, Lasts
    <2>2. k \in Keys /\ OwnSteps(k) \subseteq Keys \X Keys /\ OwnSteps(k)' \subseteq Keys \X Keys
      BY DEF Written, OwnSteps
    <2>3. OwnChain(k) = Reached(k, OwnSteps(k)) /\ OwnChain(k)' = Reached(k, OwnSteps(k)')
      BY DEF OwnChain, OwnSteps, Reached
    <2> QED BY <2>1, <2>2, <2>3, ReachedGrows
  <1>4. ASSUME NEW keys \in SUBSET Written PROVE Within(keys) \subseteq Within(keys)'
    <2>1. ASSUME NEW x \in Within(keys) PROVE x \in Within(keys)'
      <3>1. PICK k \in keys : \E j \in OwnChain(k) : x = trx[j].plot /\ x # None
        BY <2>1, PlotsOfChains
      <3>2. PICK j \in OwnChain(k) : x = trx[j].plot /\ x # None
        BY <3>1
      <3>3. j \in OwnChain(k)' /\ x = trx'[j].plot
        BY <1>1, <1>3, <3>2, OwnChains DEF Lasts
      <3> QED BY <3>2, <3>3 DEF Within, PlotsOf
    <2> QED BY <2>1
  <1>5. Own(u) \subseteq Own(u)' /\ Own(u) \subseteq Written
    BY <1>1 DEF Own, Lasts
  <1>6. FiguresNow(u) \in Figures /\ FiguresNow(u)' \in Figures
    BY <1>2, FiguresAreNumbers
  <1>7. Cardinality(Own(u)) <= Cardinality(Own(u)')
    BY <1>2, <1>5, FS_Subset
  <1>8. SuppliersCount(u) <= SuppliersCount(u)'
    <2> DEFINE A == {trx[k].seller : k \in {j \in Written : trx[j].buyer = u}} \ {None}
               B == {trx'[k].seller : k \in {j \in Written' : trx'[j].buyer = u}} \ {None}
    <2>1. A \subseteq B
      BY <1>1 DEF Lasts
    <2>2. IsFiniteSet(B)
      BY <1>2
    <2>3. SuppliersCount(u) = Cardinality(A) /\ SuppliersCount(u)' = Cardinality(B)
      BY DEF SuppliersCount
    <2> HIDE DEF A, B
    <2> QED BY <2>1, <2>2, <2>3, FS_Subset
  <1>9. Cardinality(Within(Own(u))) <= Cardinality(Within(Own(u))')
    <2>1. Within(Own(u)) \subseteq Within(Own(u))'
      <3> PICK own : own = Own(u)
        OBVIOUS
      <3>1. Within(own) \subseteq Within(own)'
        BY <1>4, <1>5
      <3>2. Within(own)' \subseteq Within(Own(u))'
        BY <1>5 DEF Within, PlotsOf
      <3> QED BY <3>1, <3>2
    <2> QED BY <1>2, <2>1, FS_Subset
  <1>10. FilesCount(u) <= FilesCount(u)'
    <2> DEFINE A == {k \in Written : trx[k].creator = u /\ file[k] # "none"}
               B == {k \in Written' : trx'[k].creator = u /\ file'[k] # "none"}
    <2>1. A \subseteq B
      <3>1. \A k \in Written : file[k] # "none" => file'[k] # "none"
        BY DEF Grows, Written
      <3> QED BY <1>1, <3>1 DEF Lasts
    <2>2. IsFiniteSet(B)
      BY <1>2
    <2>3. FilesCount(u) = Cardinality(A) /\ FilesCount(u)' = Cardinality(B)
      BY DEF FilesCount
    <2> HIDE DEF A, B
    <2> QED BY <2>1, <2>2, <2>3, FS_Subset
  <1>11. Above(FiguresNow(u)', FiguresNow(u))
    <2>1. /\ FiguresNow(u).transactions = Cardinality(Own(u)) /\ FiguresNow(u).suppliers = SuppliersCount(u)
          /\ FiguresNow(u).plots = Cardinality(Within(Own(u))) /\ FiguresNow(u).files = FilesCount(u)
      BY DEF FiguresNow, Within
    <2>2. /\ FiguresNow(u)'.transactions = Cardinality(Own(u)') /\ FiguresNow(u)'.suppliers = SuppliersCount(u)'
          /\ FiguresNow(u)'.plots = Cardinality(Within(Own(u))') /\ FiguresNow(u)'.files = FilesCount(u)'
      BY DEF FiguresNow, Within
    <2>3. ASSUME NEW f \in Figures, NEW g \in Figures, f = FiguresNow(u)', g = FiguresNow(u) PROVE Above(f, g)
      <3>1. /\ f.transactions \in Nat /\ f.suppliers \in Nat /\ f.plots \in Nat /\ f.files \in Nat
            /\ g.transactions \in Nat /\ g.suppliers \in Nat /\ g.plots \in Nat /\ g.files \in Nat
        BY DEF Figures
      <3> QED BY <1>7, <1>8, <1>9, <1>10, <2>1, <2>2, <2>3, <3>1, FigureByFigure
    <2> QED BY <1>6, <2>3
  <1> QED BY <1>4, <1>5, <1>6, <1>11

Measurements ==
  [at : {"idle", "count", "suppliers", "list", "plots", "files", "store", "computed", "answered"},
   user : Users \cup {None}, figures : Figures \cup {NoFigures}, left : SUBSET Keys, found : SUBSET Plots,
   began : Figures \cup {NoFigures}]

\* A request for figures: each figure it has counted lies between what was true when it
\* began and what is true now.  While plots are being collected, those of before are
\* among the ones found or in the chains that are left.
MeasuredAs(m) ==
  /\ m \in Measurements /\ (m.at # "plots" => m.found = {})
  /\ m.at # "idle" =>
       /\ m.user \in Users /\ m.began \in Figures
       /\ Above(FiguresNow(m.user), m.began) /\ Above(FiguresNow(m.user), m.figures)
       /\ m.at \in {"suppliers", "list", "plots", "files", "store", "computed"} =>
            m.figures \in Figures /\ m.figures.transactions >= m.began.transactions
       /\ m.at \in {"list", "plots", "files", "store", "computed"} => m.figures.suppliers >= m.began.suppliers
       /\ m.at \in {"files", "store", "computed"} => m.figures.plots >= m.began.plots
       /\ m.at \in {"store", "computed"} => m.figures.files >= m.began.files
       /\ m.at = "plots" =>
            /\ m.left \subseteq Own(m.user) /\ m.found \subseteq Within(Own(m.user))
            /\ \E before : before \subseteq m.found \cup Within(m.left) /\ Cardinality(before) >= m.began.plots

KeptFigures(kept) ==
  kept \in [Users -> Figures \cup {NoFigures}] /\ \A u \in Users : Above(FiguresNow(u), kept[u])

\* The types, whatever becomes of acceptances.
Figured(m) ==
  /\ m \in Measurements /\ (m.at # "plots" => m.found = {})
  /\ m.at # "idle" => m.user \in Users /\ m.began \in Figures
  /\ m.at \in {"suppliers", "list", "plots", "files", "store", "computed"} => m.figures \in Figures
  /\ m.left \subseteq Written /\ IsFiniteSet(m.found)

Measured ==
  /\ Figured(metrics) /\ cache \in [Users -> Figures \cup {NoFigures}]
  /\ undone = {} => MeasuredAs(metrics) /\ KeptFigures(cache)

LEMMA AboveAll ==
  ASSUME NEW f \in Figures, NEW g \in Figures, NEW h \in Figures \cup {NoFigures}, Above(f, g), Above(g, h)
  PROVE  Above(f, h)
  <1>1. /\ f.transactions \in Nat /\ f.suppliers \in Nat /\ f.plots \in Nat /\ f.files \in Nat
        /\ g.transactions \in Nat /\ g.suppliers \in Nat /\ g.plots \in Nat /\ g.files \in Nat
        /\ h.transactions \in Nat /\ h.suppliers \in Nat /\ h.plots \in Nat /\ h.files \in Nat
    BY DEF Figures, NoFigures
  <1> QED BY <1>1, FigureByFigure

\* What was measured stays so while transactions are written and accepted.
LEMMA MeasuredStays ==
  ASSUME SchemaTypeOK, SchemaTypeOK', Grows, undone' = {}, NEW m, MeasuredAs(m)
  PROVE  MeasuredAs(m)'
  <1>1. CASE m.at = "idle"
    BY <1>1 DEF MeasuredAs
  <1>2. CASE m.at # "idle"
    <2>1. m \in Measurements /\ (m.at # "plots" => m.found = {}) /\ m.user \in Users /\ m.began \in Figures
          /\ m.figures \in Figures \cup {NoFigures}
      BY <1>2 DEF MeasuredAs, Measurements
    <2>2. Above(FiguresNow(m.user), m.began) /\ Above(FiguresNow(m.user), m.figures)
      BY <1>2 DEF MeasuredAs
    <2>3. Above(FiguresNow(m.user)', m.began) /\ Above(FiguresNow(m.user)', m.figures)
      BY <2>1, <2>2, FiguresGrow, AboveAll
    <2>4. ASSUME m.at = "plots"
          PROVE  /\ m.left \subseteq Own(m.user)' /\ m.found \subseteq Within(Own(m.user))'
                 /\ \E before : before \subseteq m.found \cup Within(m.left)'
                               /\ Cardinality(before) >= m.began.plots
      <3>1. /\ m.left \subseteq Own(m.user) /\ m.found \subseteq Within(Own(m.user))
            /\ \E before : before \subseteq m.found \cup Within(m.left) /\ Cardinality(before) >= m.began.plots
        BY <2>4 DEF MeasuredAs
      <3>2. Own(m.user) \subseteq Own(m.user)' /\ Own(m.user) \subseteq Written
        BY FiguresGrow
      <3>3. Within(m.left) \subseteq Within(m.left)'
        BY <3>1, <3>2, FiguresGrow
      <3>4. Within(Own(m.user)) \subseteq Within(Own(m.user))'
        <4> PICK own : own = Own(m.user)
          OBVIOUS
        <4>1. Within(own) \subseteq Within(own)'
          BY <3>2, FiguresGrow
        <4>2. Within(own)' \subseteq Within(Own(m.user))'
          BY <3>2 DEF Within, PlotsOf
        <4> QED BY <4>1, <4>2
      <3> QED BY <3>1, <3>2, <3>3, <3>4
    <2> QED BY <1>2, <2>1, <2>3, <2>4 DEF MeasuredAs
  <1> QED BY <1>1, <1>2

LEMMA KeptStays ==
  ASSUME SchemaTypeOK, SchemaTypeOK', Grows, undone' = {}, NEW kept, KeptFigures(kept)
  PROVE  KeptFigures(kept)'
  <1>1. kept \in [Users -> Figures \cup {NoFigures}]
    BY DEF KeptFigures
  <1>2. ASSUME NEW u \in Users PROVE Above(FiguresNow(u)', kept[u])
    <2>1. kept[u] \in Figures \cup {NoFigures} /\ Above(FiguresNow(u), kept[u])
      BY <1>1 DEF KeptFigures
    <2> QED BY <2>1, FiguresGrow, AboveAll
  <1> QED BY <1>1, <1>2 DEF KeptFigures

LEMMA FigureSteps ==
  ASSUME [Next]_vars
  PROVE  \/ UNCHANGED <<metrics, cache>>
         \/ /\ UNCHANGED tables
            /\ \/ \E u \in Screens : AskFigures(u)
               \/ Measure
               \/ \E u \in Users : Outdated(u)
  <1>1. CASE Reader
    <2>1. CASE \/ \E k \in Walks : StartWalk(k) /\ UNCHANGED <<listing, metrics, cache>>
               \/ \E l \in Lists : OpenList(l) /\ UNCHANGED <<walk, metrics, cache>>
      BY <2>1
    <2>2. CASE \E u \in Screens : AskFigures(u)
      BY <1>1, <2>2, ReadersRead
    <2> QED BY <1>1, <2>1, <2>2, ReadersRead DEF Reader
  <1> QED BY <1>1, StepKinds DEF jobs, vars

LEMMA Asked ==
  ASSUME SchemaTypeOK, MeasuredAs(metrics), KeptFigures(cache), NEW u \in Screens, AskFigures(u)
  PROVE  MeasuredAs(metrics') /\ KeptFigures(cache')
  <1>1. u \in Users /\ FiguresNow(u) \in Figures /\ Above(FiguresNow(u), FiguresNow(u))
    <2>1. u \in Users /\ FiguresNow(u) \in Figures
      BY RecordsAssumption, FiguresAreNumbers
    <2>2. \A f \in Figures : Above(f, f)
      <3> TAKE f \in Figures
      <3>1. f.transactions \in Nat /\ f.suppliers \in Nat /\ f.plots \in Nat /\ f.files \in Nat
        BY DEF Figures
      <3> QED BY <3>1, FigureByFigure
    <2> QED BY <2>1, <2>2
  <1>2. cache[u] \in Figures \cup {NoFigures} /\ Above(FiguresNow(u), cache[u])
    BY <1>1 DEF KeptFigures
  <1>3. cache' = cache
    BY DEF AskFigures
  <1> DEFINE at == IF cache[u] # NoFigures THEN "answered" ELSE "count"
  <1>4. metrics' = [at |-> at, user |-> u, figures |-> cache[u], left |-> {}, found |-> {}, began |-> FiguresNow(u)]
    BY DEF AskFigures, CacheKey, NoMetrics
  <1>5. at \in {"answered", "count"}
    OBVIOUS
  <1> HIDE DEF at
  <1>6. metrics' \in Measurements
    BY <1>1, <1>2, <1>4, <1>5 DEF Measurements
  <1> QED BY <1>1, <1>2, <1>3, <1>4, <1>5, <1>6 DEF MeasuredAs

LEMMA NoneMeasured == MeasuredAs(NoMetrics)
  BY DEF MeasuredAs, NoMetrics, Measurements

LEMMA Counted ==
  ASSUME SchemaTypeOK, MeasuredAs(metrics), KeptFigures(cache), Measure
  PROVE  MeasuredAs(metrics') /\ KeptFigures(cache')
  <1> PICK m : m = metrics
    OBVIOUS
  <1>1. m \in Measurements /\ MeasuredAs(m) /\ KeptFigures(cache)
    BY DEF MeasuredAs
  <1> DEFINE now == FiguresNow(m.user)
  <1>2. now \in Figures
    BY FiguresAreNumbers
  <1>3. /\ now.transactions = Cardinality(Own(m.user)) /\ now.suppliers = SuppliersCount(m.user)
        /\ now.plots = Cardinality(Within(Own(m.user))) /\ now.files = FilesCount(m.user)
    BY DEF FiguresNow, Within
  <1>4. /\ now.transactions \in Nat /\ now.suppliers \in Nat /\ now.plots \in Nat /\ now.files \in Nat
    BY <1>2 DEF Figures
  <1>5. m.at # "idle" => m.user \in Users /\ m.began \in Figures /\ Above(now, m.began) /\ Above(now, m.figures)
    BY <1>1 DEF MeasuredAs
  <1> HIDE DEF now
  <1>6. m.at # "idle" => /\ now.transactions >= m.began.transactions /\ now.suppliers >= m.began.suppliers
                         /\ now.plots >= m.began.plots /\ now.files >= m.began.files
                         /\ m.began.transactions \in Nat /\ m.began.suppliers \in Nat
                         /\ m.began.plots \in Nat /\ m.began.files \in Nat
    <2>1. m.began \in Figures => /\ m.began.transactions \in Nat /\ m.began.suppliers \in Nat
                                 /\ m.began.plots \in Nat /\ m.began.files \in Nat
      BY DEF Figures
    <2> QED BY <1>2, <1>5, <2>1, FigureByFigure
  <1>7. ASSUME NEW f \in Figures, f.transactions <= now.transactions, f.suppliers <= now.suppliers,
               f.plots <= now.plots, f.files <= now.files
        PROVE  Above(now, f)
    <2>1. /\ f.transactions \in Nat /\ f.suppliers \in Nat /\ f.plots \in Nat /\ f.files \in Nat
      BY DEF Figures
    <2> QED BY <1>2, <1>4, <1>7, <2>1, FigureByFigure
  <1>8. ASSUME m.figures \in Figures, m.at # "idle"
        PROVE  /\ m.figures.transactions \in Nat /\ m.figures.suppliers \in Nat
               /\ m.figures.plots \in Nat /\ m.figures.files \in Nat
               /\ m.figures.transactions <= now.transactions /\ m.figures.suppliers <= now.suppliers
               /\ m.figures.plots <= now.plots /\ m.figures.files <= now.files
    <2>1. /\ m.figures.transactions \in Nat /\ m.figures.suppliers \in Nat
          /\ m.figures.plots \in Nat /\ m.figures.files \in Nat
      BY <1>8 DEF Figures
    <2> QED BY <1>2, <1>4, <1>5, <1>8, <2>1, FigureByFigure
  <1>9. CASE CountTransactions
    <2> DEFINE f == [transactions |-> now.transactions, suppliers |-> 0, plots |-> 0, files |-> 0]
    <2>1. m.at = "count" /\ metrics' = [m EXCEPT !.at = "suppliers", !.figures = f] /\ cache' = cache
      BY <1>3, <1>9 DEF CountTransactions
    <2>2. f \in Figures /\ f.transactions = now.transactions
      BY <1>4 DEF Figures
    <2>3. Above(now, f)
      BY <1>4, <1>7, <2>2
    <2> HIDE DEF f
    <2>4. metrics' \in Measurements /\ metrics'.at = "suppliers" /\ metrics'.user = m.user
          /\ metrics'.figures = f /\ metrics'.began = m.began
      BY <1>1, <2>1, <2>2 DEF Measurements
    <2> QED BY <1>1, <1>5, <1>6, <2>1, <2>2, <2>3, <2>4 DEF MeasuredAs, now
  <1>10. CASE CountSuppliers
    <2> DEFINE f == [m.figures EXCEPT !.suppliers = now.suppliers]
    <2>1. m.at = "suppliers" /\ cache' = cache /\ metrics' = [m EXCEPT !.at = "list", !.figures = f]
      BY <1>3, <1>10 DEF CountSuppliers
    <2>2. m.figures \in Figures /\ m.figures.transactions >= m.began.transactions
      BY <1>1, <2>1 DEF MeasuredAs
    <2>3. f \in Figures /\ f.suppliers = now.suppliers /\ f.transactions = m.figures.transactions
          /\ f.plots = m.figures.plots /\ f.files = m.figures.files
      BY <1>4, <2>2 DEF Figures
    <2> HIDE DEF f
    <2>4. Above(now, f)
      BY <1>4, <1>7, <1>8, <2>1, <2>2, <2>3
    <2>5. metrics' \in Measurements /\ metrics'.at = "list" /\ metrics'.user = m.user
          /\ metrics'.figures = f /\ metrics'.began = m.began /\ metrics'.found = {}
      BY <1>1, <2>1, <2>3 DEF Measurements, MeasuredAs
    <2> QED BY <1>1, <1>5, <1>6, <2>1, <2>2, <2>3, <2>4, <2>5 DEF MeasuredAs, now
  <1>15. CASE ListOwn
    <2>1. m.at = "list" /\ cache' = cache /\ metrics' = [m EXCEPT !.at = "plots", !.left = Own(m.user)]
      BY <1>15 DEF ListOwn
    <2>2. /\ m.figures \in Figures /\ m.figures.transactions >= m.began.transactions
          /\ m.figures.suppliers >= m.began.suppliers /\ m.found = {}
      BY <1>1, <2>1 DEF MeasuredAs
    <2>3. Own(m.user) \subseteq Written /\ Own(m.user) \subseteq Keys
      BY CountsAreNumbers DEF Written
    <2>4. metrics' \in Measurements /\ metrics'.at = "plots" /\ metrics'.user = m.user
          /\ metrics'.figures = m.figures /\ metrics'.began = m.began /\ metrics'.left = Own(m.user)
          /\ metrics'.found = {}
      BY <1>1, <2>1, <2>2, <2>3 DEF Measurements
    <2>5. \E before : before \subseteq {} \cup Within(Own(m.user)) /\ Cardinality(before) >= m.began.plots
      BY <1>3, <1>6, <2>1
    <2> QED BY <1>1, <1>5, <2>1, <2>2, <2>4, <2>5 DEF MeasuredAs, now
  <1>11. CASE CountPlots
    <2>1. m.at = "plots" /\ cache' = cache
      BY <1>11 DEF CountPlots
    <2>2. /\ m.figures \in Figures /\ m.figures.transactions >= m.began.transactions
          /\ m.figures.suppliers >= m.began.suppliers
          /\ m.left \subseteq Own(m.user) /\ m.found \subseteq Within(Own(m.user))
          /\ \E before : before \subseteq m.found \cup Within(m.left) /\ Cardinality(before) >= m.began.plots
      BY <1>1, <2>1 DEF MeasuredAs
    <2>3. PICK before : before \subseteq m.found \cup Within(m.left) /\ Cardinality(before) >= m.began.plots
      BY <2>2
    <2>4. m.left \subseteq Keys /\ m.found \subseteq Plots
      BY <1>1 DEF Measurements
    <2>5. IsFiniteSet(Within(Own(m.user))) /\ Own(m.user) \subseteq Written
      BY CountsAreNumbers
    <2>6. CASE m.left = {}
      <3> DEFINE f == [m.figures EXCEPT !.plots = Cardinality(m.found)]
      <3>1. metrics' = [m EXCEPT !.at = "files", !.figures = f, !.found = {}]
        BY <1>11, <2>6 DEF CountPlots
      <3>2. Within(m.left) = {}
        BY <2>6 DEF Within, PlotsOf
      <3>3. before \subseteq m.found
        BY <2>3, <3>2
      <3>4. IsFiniteSet(m.found) /\ Cardinality(m.found) <= now.plots
        BY <1>3, <2>2, <2>5, FS_Subset
      <3>5. Cardinality(m.found) \in Nat /\ Cardinality(m.found) >= m.began.plots
        <4>1. Cardinality(before) <= Cardinality(m.found) /\ Cardinality(before) \in Nat
              /\ Cardinality(m.found) \in Nat
          BY <3>3, <3>4, FS_Subset, FS_CardinalityType
        <4> QED BY <1>6, <2>1, <2>3, <4>1
      <3>6. f \in Figures /\ f.plots = Cardinality(m.found) /\ f.transactions = m.figures.transactions
            /\ f.suppliers = m.figures.suppliers /\ f.files = m.figures.files
        BY <2>2, <3>5 DEF Figures
      <3> HIDE DEF f
      <3>7. Above(now, f)
        BY <1>4, <1>7, <1>8, <2>1, <2>2, <3>4, <3>6
      <3>8. metrics' \in Measurements /\ metrics'.at = "files" /\ metrics'.user = m.user
            /\ metrics'.figures = f /\ metrics'.began = m.began /\ metrics'.found = {}
        BY <1>1, <3>1, <3>6 DEF Measurements
      <3> QED BY <1>1, <1>5, <1>6, <2>1, <2>2, <3>5, <3>6, <3>7, <3>8 DEF MeasuredAs, now
    <2>7. CASE m.left # {}
      <3> DEFINE k == Max(m.left)
                 left == m.left \ {k}
                 found == m.found \cup PlotsOf(OwnChain(k))
      <3>1. metrics' = [m EXCEPT !.left = left, !.found = found]
        BY <1>11, <2>7 DEF CountPlots
      <3>2. k \in m.left
        <4>1. m.left \subseteq Nat /\ IsFiniteSet(m.left)
          BY <2>4, SchemaAssumption, FS_Subset
        <4>2. \E x \in m.left : \A y \in m.left : x >= y
          <5> PICK S : S = m.left
            OBVIOUS
          <5> QED BY <2>7, <4>1, Extremes
        <4> QED BY <4>2 DEF Max
      <3> HIDE DEF k
      <3>3. left \subseteq Own(m.user) /\ left \subseteq Keys
        BY <2>2, <2>4
      <3>4. PlotsOf(OwnChain(k)) \subseteq Within(Own(m.user))
        BY <2>2, <3>2 DEF Within, PlotsOf
      <3>5. Within(m.left) \subseteq PlotsOf(OwnChain(k)) \cup Within(left)
        BY DEF Within, PlotsOf
      <3>6. found \subseteq Within(Own(m.user)) /\ before \subseteq found \cup Within(left)
        BY <2>2, <2>3, <3>4, <3>5
      <3>7. found \subseteq Plots
        BY <2>5, <3>6, PlotsAreFinite
      <3> HIDE DEF left, found
      <3>8. metrics' \in Measurements /\ metrics'.at = "plots" /\ metrics'.user = m.user
            /\ metrics'.figures = m.figures /\ metrics'.began = m.began /\ metrics'.found = found
            /\ metrics'.left = left
        BY <1>1, <2>1, <3>1, <3>3, <3>7 DEF Measurements
      <3> QED BY <1>1, <1>5, <2>1, <2>2, <2>3, <3>3, <3>6, <3>8 DEF MeasuredAs, now
    <2> QED BY <2>6, <2>7
  <1>12. CASE CountFiles
    <2> DEFINE f == [m.figures EXCEPT !.files = now.files]
    <2>1. m.at = "files" /\ cache' = cache /\ metrics' = [m EXCEPT !.at = "store", !.figures = f]
      BY <1>3, <1>12 DEF CountFiles
    <2>2. /\ m.figures \in Figures /\ m.figures.transactions >= m.began.transactions
          /\ m.figures.suppliers >= m.began.suppliers /\ m.figures.plots >= m.began.plots
      BY <1>1, <2>1 DEF MeasuredAs
    <2>3. f \in Figures /\ f.files = now.files /\ f.transactions = m.figures.transactions
          /\ f.suppliers = m.figures.suppliers /\ f.plots = m.figures.plots
      BY <1>4, <2>2 DEF Figures
    <2> HIDE DEF f
    <2>4. Above(now, f)
      BY <1>4, <1>7, <1>8, <2>1, <2>2, <2>3
    <2>5. metrics' \in Measurements /\ metrics'.at = "store" /\ metrics'.user = m.user
          /\ metrics'.figures = f /\ metrics'.began = m.began /\ metrics'.found = {}
      BY <1>1, <2>1, <2>3 DEF Measurements, MeasuredAs
    <2> QED BY <1>1, <1>5, <1>6, <2>1, <2>2, <2>3, <2>4, <2>5 DEF MeasuredAs, now
  <1>13. CASE StoreFigures
    <2>1. m.at = "store" /\ metrics' = [m EXCEPT !.at = "computed"]
          /\ cache' = [cache EXCEPT ![m.user] = m.figures]
      BY <1>13 DEF StoreFigures, CacheKey
    <2>2. /\ m.figures \in Figures /\ m.figures.transactions >= m.began.transactions
          /\ m.figures.suppliers >= m.began.suppliers /\ m.figures.plots >= m.began.plots
          /\ m.figures.files >= m.began.files
      BY <1>1, <2>1 DEF MeasuredAs
    <2>3. metrics' \in Measurements /\ metrics'.at = "computed" /\ metrics'.user = m.user
          /\ metrics'.figures = m.figures /\ metrics'.began = m.began /\ metrics'.found = {}
      BY <1>1, <2>1 DEF Measurements, MeasuredAs
    <2>4. MeasuredAs(metrics')
      BY <1>1, <1>5, <2>1, <2>2, <2>3 DEF MeasuredAs, now
    <2>5. KeptFigures(cache')
      <3>1. cache' \in [Users -> Figures \cup {NoFigures}]
        BY <1>1, <2>1, <2>2 DEF KeptFigures
      <3>2. ASSUME NEW u \in Users PROVE Above(FiguresNow(u), cache'[u])
        <4>1. CASE u = m.user
          <5>1. cache'[u] = m.figures
            BY <1>1, <2>1, <4>1 DEF KeptFigures
          <5> QED BY <1>5, <2>1, <4>1, <5>1 DEF now
        <4>2. CASE u # m.user
          <5>1. cache'[u] = cache[u]
            BY <1>1, <2>1, <4>2 DEF KeptFigures
          <5> QED BY <1>1, <5>1 DEF KeptFigures
        <4> QED BY <4>1, <4>2
      <3> QED BY <3>1, <3>2 DEF KeptFigures
    <2> QED BY <2>4, <2>5
  <1>14. CASE ReadFigures
    BY <1>1, <1>14, NoneMeasured DEF ReadFigures
  <1> QED BY <1>9, <1>10, <1>11, <1>12, <1>13, <1>14, <1>15 DEF Measure

LEMMA OutdatedKept ==
  ASSUME SchemaTypeOK, MeasuredAs(metrics), KeptFigures(cache), NEW u \in Users, Outdated(u)
  PROVE  MeasuredAs(metrics') /\ KeptFigures(cache')
  <1>1. metrics' = metrics /\ cache' = [cache EXCEPT ![u] = NoFigures]
    BY DEF Outdated
  <1>2. ASSUME NEW f \in Figures PROVE Above(f, NoFigures)
    <2>1. f.transactions \in Nat /\ f.suppliers \in Nat /\ f.plots \in Nat /\ f.files \in Nat
      BY DEF Figures
    <2> QED BY <2>1, FigureByFigure DEF NoFigures
  <1>3. KeptFigures(cache)
    OBVIOUS
  <1>4. cache' \in [Users -> Figures \cup {NoFigures}]
    BY <1>1, <1>3 DEF KeptFigures
  <1>5. ASSUME NEW v \in Users PROVE Above(FiguresNow(v), cache'[v])
    <2>1. cache'[v] = cache[v] \/ cache'[v] = NoFigures
      BY <1>1, <1>3 DEF KeptFigures
    <2> QED BY <1>2, <1>3, <2>1, FiguresAreNumbers DEF KeptFigures
  <1> QED BY <1>1, <1>4, <1>5 DEF KeptFigures

LEMMA NoneFigured == Figured(NoMetrics)
  BY FS_EmptySet DEF Figured, NoMetrics, Measurements

LEMMA FiguredStays ==
  ASSUME SchemaTypeOK, Grows, NEW m, Figured(m)
  PROVE  Figured(m)'
  <1>1. \A k \in Written : k \in Written'
    BY RowLasts
  <1> QED BY <1>1 DEF Figured

LEMMA FiguredBySteps ==
  ASSUME SchemaTypeOK, Figured(metrics), cache \in [Users -> Figures \cup {NoFigures}],
         \/ \E u \in Screens : AskFigures(u)
         \/ Measure
         \/ \E u \in Users : Outdated(u)
  PROVE  Figured(metrics') /\ cache' \in [Users -> Figures \cup {NoFigures}]
  <1> PICK m : m = metrics
    OBVIOUS
  <1>1. /\ m \in Measurements /\ Figured(m) /\ m.left \subseteq Keys /\ m.left \subseteq Written /\ m.found \subseteq Plots
        /\ IsFiniteSet(m.found) /\ IsFiniteSet({})
    BY FS_EmptySet DEF Figured, Measurements
  <1>2. CASE \E u \in Screens : AskFigures(u)
    <2>1. PICK u \in Screens : AskFigures(u)
      BY <1>2
    <2>2. u \in Users /\ FiguresNow(u) \in Figures /\ cache[u] \in Figures \cup {NoFigures} /\ cache' = cache
      BY <2>1, RecordsAssumption, FiguresAreNumbers DEF AskFigures
    <2> DEFINE at == IF cache[u] # NoFigures THEN "answered" ELSE "count"
    <2>3. metrics' = [at |-> at, user |-> u, figures |-> cache[u], left |-> {}, found |-> {}, began |-> FiguresNow(u)]
          /\ at \in {"answered", "count"}
      BY <2>1 DEF AskFigures, CacheKey, NoMetrics
    <2> HIDE DEF at
    <2> QED BY <1>1, <2>2, <2>3 DEF Figured, Measurements
  <1>3. CASE CountTransactions
    <2> DEFINE f == [transactions |-> Cardinality(Own(m.user)), suppliers |-> 0, plots |-> 0, files |-> 0]
    <2>1. m.at = "count" /\ metrics' = [m EXCEPT !.at = "suppliers", !.figures = f] /\ cache' = cache
      BY <1>3 DEF CountTransactions
    <2>2. f \in Figures
      BY CountsAreNumbers, FS_CardinalityType DEF Figures
    <2> HIDE DEF f
    <2> QED BY <1>1, <2>1, <2>2 DEF Figured, Measurements
  <1>4. CASE CountSuppliers
    <2> DEFINE f == [m.figures EXCEPT !.suppliers = SuppliersCount(m.user)]
    <2>1. m.at = "suppliers" /\ metrics' = [m EXCEPT !.at = "list", !.figures = f] /\ cache' = cache
      BY <1>4 DEF CountSuppliers
    <2>2. SuppliersCount(m.user) \in Nat
      BY CountsAreNumbers, FS_CardinalityType DEF SuppliersCount
    <2>3. f \in Figures
      BY <1>1, <2>1, <2>2 DEF Figured, Figures
    <2> HIDE DEF f
    <2> QED BY <1>1, <2>1, <2>3 DEF Figured, Measurements
  <1>5. CASE ListOwn
    <2>1. m.at = "list" /\ metrics' = [m EXCEPT !.at = "plots", !.left = Own(m.user)] /\ cache' = cache
      BY <1>5 DEF ListOwn
    <2>2. Own(m.user) \subseteq Written /\ Own(m.user) \subseteq Keys
      BY CountsAreNumbers DEF Written
    <2> QED BY <1>1, <2>1, <2>2 DEF Figured, Measurements
  <1>6. CASE CountPlots /\ m.left = {}
    <2> DEFINE f == [m.figures EXCEPT !.plots = Cardinality(m.found)]
    <2>1. m.at = "plots" /\ metrics' = [m EXCEPT !.at = "files", !.figures = f, !.found = {}] /\ cache' = cache
      BY <1>6 DEF CountPlots
    <2>2. Cardinality(m.found) \in Nat
      BY <1>1, FS_CardinalityType
    <2>3. f \in Figures
      BY <1>1, <2>1, <2>2 DEF Figured, Figures
    <2> HIDE DEF f
    <2> QED BY <1>1, <2>1, <2>3 DEF Figured, Measurements
  <1>7. CASE CountPlots /\ m.left # {}
    <2> DEFINE k == Max(m.left)
               left == m.left \ {k}
               found == m.found \cup PlotsOf(OwnChain(k))
    <2>1. m.at = "plots" /\ metrics' = [m EXCEPT !.left = left, !.found = found] /\ cache' = cache
      BY <1>7 DEF CountPlots
    <2>2. k \in m.left
      <3>1. m.left \subseteq Nat /\ IsFiniteSet(m.left)
        BY <1>1, SchemaAssumption, FS_Subset
      <3>2. \E x \in m.left : \A y \in m.left : x >= y
        <4> PICK S : S = m.left
          OBVIOUS
        <4> QED BY <1>7, <3>1, Extremes
      <3> QED BY <3>2 DEF Max
    <2> HIDE DEF k
    <2>3. PlotsOf(OwnChain(k)) \subseteq Within({k}) /\ {k} \in SUBSET Written
      BY <1>1, <2>2 DEF Within, PlotsOf
    <2>4. left \subseteq Keys /\ left \subseteq Written
      BY <1>1
    <2>5. found \subseteq Plots /\ IsFiniteSet(found)
      <3> PICK more : more = PlotsOf(OwnChain(k))
        OBVIOUS
      <3>1. more \subseteq Plots /\ IsFiniteSet(more)
        BY <2>3, PlotsAreFinite, FS_Subset
      <3> QED BY <1>1, <3>1, FS_Union
    <2> HIDE DEF left, found
    <2> QED BY <1>1, <2>1, <2>4, <2>5 DEF Figured, Measurements
  <1>8. CASE CountFiles
    <2> DEFINE f == [m.figures EXCEPT !.files = FilesCount(m.user)]
    <2>1. m.at = "files" /\ metrics' = [m EXCEPT !.at = "store", !.figures = f] /\ cache' = cache
      BY <1>8 DEF CountFiles
    <2>2. FilesCount(m.user) \in Nat
      BY CountsAreNumbers, FS_CardinalityType DEF FilesCount
    <2>3. f \in Figures
      BY <1>1, <2>1, <2>2 DEF Figured, Figures
    <2> HIDE DEF f
    <2> QED BY <1>1, <2>1, <2>3 DEF Figured, Measurements
  <1>9. CASE StoreFigures
    <2>1. m.at = "store" /\ metrics' = [m EXCEPT !.at = "computed"] /\ cache' = [cache EXCEPT ![m.user] = m.figures]
      BY <1>9 DEF StoreFigures, CacheKey
    <2>2. m.figures \in Figures
      BY <1>1, <2>1 DEF Figured
    <2> QED BY <1>1, <2>1, <2>2 DEF Figured, Measurements
  <1>10. CASE ReadFigures
    BY <1>10, NoneFigured DEF ReadFigures
  <1>11. CASE \E u \in Users : Outdated(u)
    BY <1>11 DEF Outdated
  <1> QED BY <1>2, <1>3, <1>4, <1>5, <1>6, <1>7, <1>8, <1>9, <1>10, <1>11 DEF Measure, CountPlots

LEMMA InitMeasured == Init => Measured
  <1> SUFFICES ASSUME Init PROVE Measured
    OBVIOUS
  <1>1. metrics = NoMetrics /\ cache = FirstCache /\ \A u \in Users : Above(FiguresNow(u), cache[u])
    BY DEF Init
  <1> QED BY <1>1, NoneMeasured, NoneFigured, RecordsAssumption DEF Measured, KeptFigures

LEMMA NextMeasured == Typed /\ Measured /\ [Next]_vars => Measured'
  <1> SUFFICES ASSUME Typed, Measured, [Next]_vars PROVE Measured'
    OBVIOUS
  <1>1. SchemaTypeOK /\ SchemaTypeOK' /\ Grows
    BY NextTyped DEF Typed
  <1>2. Figured(metrics) /\ cache \in [Users -> Figures \cup {NoFigures}]
    BY DEF Measured
  <1>3. Figured(metrics') /\ cache' \in [Users -> Figures \cup {NoFigures}]
    <2>1. CASE UNCHANGED <<metrics, cache>>
      BY <1>2, <2>1
    <2> QED BY <1>1, <1>2, <2>1, FigureSteps, FiguredBySteps
  <1> PICK m, kept : m = metrics' /\ kept = cache'
    OBVIOUS
  <1>4. Figured(m)'
    BY <1>1, <1>3, FiguredStays
  <1>5. ASSUME undone' = {} PROVE MeasuredAs(m)' /\ KeptFigures(kept)'
    <2>1. MeasuredAs(metrics) /\ KeptFigures(cache)
      BY <1>1, <1>5 DEF Measured, Grows
    <2>2. MeasuredAs(metrics') /\ KeptFigures(cache')
      <3>1. CASE UNCHANGED <<metrics, cache>>
        BY <2>1, <3>1
      <3> QED BY <1>1, <2>1, <3>1, FigureSteps, Asked, Counted, OutdatedKept
    <2> QED BY <1>1, <1>5, <2>2, MeasuredStays, KeptStays
  <1>6. Figured(metrics)'
    BY <1>4 DEF Figured
  <1>7. undone' = {} => MeasuredAs(metrics)' /\ KeptFigures(cache)'
    BY <1>5 DEF MeasuredAs, KeptFigures
  <1> QED BY <1>3, <1>6, <1>7 DEF Measured

\* As long as no acceptance has been undone, figures are never above what is true of
\* the user they are shown to, and those computed for a request not below what was true
\* when it began, although each is counted at another moment and the cache keeps them
\* (MetricsAreOwn; analytics/services.py:182).
THEOREM FiguresAreOwn == Spec => []MetricsAreOwn
  <1>1. Typed /\ Measured => MetricsAreOwn
    <2> SUFFICES ASSUME MeasuredAs(metrics), metrics.at \in {"answered", "computed"} PROVE MetricsAreOwn
      BY DEF Measured, MetricsAreOwn
    <2>1. Above(FiguresNow(metrics.user), metrics.figures)
      BY DEF MeasuredAs
    <2>2. metrics.at = "computed" => Above(metrics.figures, metrics.began)
      BY FigureByFigure DEF MeasuredAs
    <2> QED BY <2>1, <2>2 DEF MetricsAreOwn
  <1> QED BY <1>1, InitTyped, NextTyped, InitMeasured, NextMeasured, PTL DEF Spec
-----------------------------------------------------------------------------
(* Chains. *)

\* Conversions are written as accepted, and stay so.
Settled == \A k \in Written : trx[k].type = "conversion" => trx[k].status = "accepted"

WalkRows ==
  [at : {"idle", "walk", "bundle", "features", "export"}, first : Keys \cup {0}, ids : SUBSET Keys,
   visited : SUBSET Keys, began : SUBSET Keys, merged : SUBSET Keys, custom : SUBSET Keys, missing : SUBSET Keys,
   rounds : SUBSET [ids : SUBSET Keys, batches : SUBSET Nat, accepted : BOOLEAN, visited : SUBSET Keys]]

\* From a row to the rows that feed it.
Links == {p \in Written \X Written : Feeds(p[2], p[1])}

\* A row of the chain, or a purchase of the seller of one, which may be pending.
Near(k, first) == k \in Chain(first) \/ \E j \in Chain(first) : k \in Sources({j})

\* The links there were at the beginning are all followed, and every key visited is
\* named by a condition: the first whatever its status, others when they are accepted.
Reaching(w) ==
  \E Then \in SUBSET Links :
    /\ w.began = Reached(w.first, Then)
    /\ w.first \in w.visited \cup w.ids
    /\ \A p \in Then : p[1] \in w.visited /\ p[1] \in w.began => p[2] \in w.visited \cup w.ids
    /\ \A k \in w.visited : \E c \in w.rounds : k \in c.ids \ c.visited /\ (k = w.first => ~c.accepted)
    /\ \A k \in w.began : k = w.first \/ trx[k].status = "accepted"

\* The conditions name nothing but rows that are in the chain when they are accepted.
Bounded(w) ==
  /\ IF w.rounds = {} THEN w.ids = {w.first} /\ w.visited = {} ELSE w.first \in w.visited
  /\ \A k \in w.ids : Near(k, w.first)
  /\ \A c \in w.rounds :
       /\ \A k \in c.ids : Near(k, w.first)
       /\ ~c.accepted => c.ids = {w.first}
       /\ \A b \in c.batches : \E j \in Chain(w.first) : IsOutput(j) /\ trx[j].batch = b

Bracketed(w) ==
  LET Part(rows) == IF w.at = "features" THEN FirstSellers(rows) ELSE rows IN
  /\ Part(w.began) \subseteq w.merged \cup w.missing
  /\ w.merged \cup w.missing \subseteq Part(Chain(w.first))
  /\ w.merged \cap w.missing = {}
  /\ w.at = "bundle" => w.merged \subseteq w.custom

WalkedAs(w) ==
  /\ w \in WalkRows
  /\ w.at # "idle" => w.first \in Written /\ w.began \subseteq Written
  /\ w.at = "walk" => Reaching(w) /\ Bounded(w) /\ w.merged = {} /\ w.custom = {} /\ w.missing = {}
  /\ w.at \in {"bundle", "features", "export"} => Bracketed(w)

\* Whatever becomes of acceptances.
Roaming(w) ==
  /\ w \in WalkRows /\ (w.at # "idle" => w.first \in Written)
  /\ w.at = "walk" => w.merged = {} /\ w.custom = {} /\ w.missing = {}
  /\ w.at \in {"bundle", "features", "export"} =>
       w.merged \cap w.missing = {} /\ (w.at = "bundle" => w.merged \subseteq w.custom)

Roams == Roaming(walk) /\ (undone = {} => WalkedAs(walk))

LEMMA InitSettled == Init => Settled
  BY RecordsAssumption DEF Init, Settled, Written

LEMMA NextSettled == Typed /\ Settled /\ [Next]_vars => Settled'
  <1> SUFFICES ASSUME Typed, Settled, [Next]_vars, NEW k \in Written', trx'[k].type = "conversion"
               PROVE  trx'[k].status = "accepted"
    BY DEF Settled
  <1>1. Grows
    BY NextTyped
  <1>2. CASE k \in Written
    <2>1. Lasts(trx[k], trx'[k])
      BY <1>1, <1>2 DEF Grows
    <2>2. trx[k].type = "conversion" /\ trx'[k].status = trx[k].status
      BY <2>1 DEF Lasts
    <2> QED BY <1>2, <2>2 DEF Settled
  <1>3. CASE k \notin Written
    BY <1>1, <1>3 DEF Grows, Written
  <1> QED BY <1>2, <1>3

LEMMA SourcesAndInputs ==
  /\ \A rows, k : k \in Sources(rows) <=> \E j \in rows : k \in Sources({j})
  /\ \A rows, k : k \in Inputs(Batches(rows)) <=> \E j \in rows : k \in Inputs(Batches({j}))
  /\ \A rows : Sources(rows) \subseteq Written /\ Inputs(Batches(rows)) \subseteq Written
  BY DEF Sources, Purchases, Inputs, Batches

LEMMA ChainOfLinks ==
  SchemaTypeOK =>
    \A first \in Written :
      /\ Chain(first) = Reached(first, Links) /\ Links \subseteq Keys \X Keys
      /\ first \in Chain(first) /\ Chain(first) \subseteq Written
      /\ \A j \in Chain(first), k \in Written : Feeds(k, j) => k \in Chain(first)
  <1> SUFFICES ASSUME SchemaTypeOK, NEW first \in Written
               PROVE  /\ Chain(first) = Reached(first, Links) /\ Links \subseteq Keys \X Keys
                      /\ first \in Chain(first) /\ Chain(first) \subseteq Written
                      /\ \A j \in Chain(first), k \in Written : Feeds(k, j) => k \in Chain(first)
    OBVIOUS
  <1>1. Chain(first) = Reached(first, Links)
    BY DEF Chain, Links
  <1>2. Links \subseteq Keys \X Keys /\ first \in Keys /\ Written \subseteq Keys
    BY DEF Links, Written
  <1>3. Closed(Written, Links)
    BY DEF Closed, Links
  <1>4. first \in Chain(first) /\ Chain(first) \subseteq Written /\ Closed(Chain(first), Links)
    BY <1>1, <1>2, <1>3, ReachedIsLeast
  <1>5. ASSUME NEW j \in Chain(first), NEW k \in Written, Feeds(k, j) PROVE k \in Chain(first)
    <2>1. <<j, k>> \in Links
      BY <1>4, <1>5 DEF Links
    <2> QED BY <1>4, <2>1 DEF Closed
  <1> QED BY <1>1, <1>2, <1>4, <1>5

LEMMA LinksGrow ==
  ASSUME SchemaTypeOK, SchemaTypeOK', Grows, undone' = {}
  PROVE  /\ Links \subseteq Links'
         /\ \A first \in Written : Chain(first) \subseteq Chain(first)'
         /\ \A first \in Written : \A k : Near(k, first) => Near(k, first)'
         /\ \A k \in Written : /\ k \in Written' /\ Lasts(trx[k], trx'[k])
                               /\ trx[k].status = "accepted" => trx'[k].status = "accepted"
                               /\ IsOutput(k) => IsOutput(k)'
  <1>1. ASSUME NEW k \in Written
        PROVE  /\ k \in Written' /\ Lasts(trx[k], trx'[k])
               /\ trx[k].status = "accepted" => trx'[k].status = "accepted"
               /\ IsOutput(k) => IsOutput(k)'
               /\ IsInput(k) => IsInput(k)'
    <2>1. k \in Written' /\ Lasts(trx[k], trx'[k])
      BY RowLasts
    <2>2. trx[k].status = "accepted" => trx'[k].status = "accepted"
      BY DEF Grows
    <2> QED BY <2>1, <2>2 DEF Lasts, IsOutput, IsInput
  <1>2. ASSUME NEW j \in Written, NEW k, k \in Sources({j}) PROVE k \in Sources({j})' /\ k \in Written
    <2>1. k \in Written /\ trx[k].buyer = trx[j].seller /\ trx[j].seller # None
      BY <1>2 DEF Sources, Purchases
    <2>2. k \in Written' /\ trx'[k].buyer = trx'[j].seller /\ trx'[j].seller # None
      BY <1>1, <2>1 DEF Lasts
    <2> QED BY <2>1, <2>2 DEF Sources, Purchases
  <1>3. ASSUME NEW j \in Written, NEW k, k \in Inputs(Batches({j})) PROVE k \in Inputs(Batches({j}))'
    <2>1. k \in Written /\ IsInput(k) /\ IsOutput(j) /\ trx[k].batch = trx[j].batch
      BY <1>3 DEF Inputs, Batches
    <2>2. k \in Written' /\ IsInput(k)' /\ IsOutput(j)' /\ trx'[k].batch = trx'[j].batch
      BY <1>1, <2>1 DEF Lasts
    <2> QED BY <2>2 DEF Inputs, Batches, IsInput, IsOutput
  <1>4. ASSUME NEW p \in Links PROVE p \in Links'
    <2>1. p \in Written \X Written /\ p[1] \in Written /\ p[2] \in Written
      BY DEF Links
    <2>2. CASE p[2] \in Sources({p[1]}) /\ trx[p[2]].status = "accepted"
      <3>1. p[2] \in Sources({p[1]})' /\ trx'[p[2]].status = "accepted"
        BY <1>1, <1>2, <2>1, <2>2
      <3> QED BY <1>1, <2>1, <3>1 DEF Links, Feeds
    <2>3. CASE p[2] \in Inputs(Batches({p[1]}))
      <3>1. p[2] \in Inputs(Batches({p[1]}))'
        BY <1>3, <2>1, <2>3
      <3> QED BY <1>1, <2>1, <3>1 DEF Links, Feeds
    <2> QED BY <2>2, <2>3 DEF Links, Feeds
  <1>5. Links \subseteq Links'
    BY <1>4
  <1>6. ASSUME NEW first \in Written PROVE Chain(first) \subseteq Chain(first)' /\ Chain(first) \subseteq Written
    <2>1. Links \subseteq Keys \X Keys /\ Links' \subseteq Keys \X Keys /\ first \in Keys
      BY DEF Links, Written
    <2>2. Chain(first) = Reached(first, Links) /\ Chain(first)' = Reached(first, Links')
      BY DEF Chain, Links, Reached
    <2>3. Reached(first, Links) \subseteq Reached(first, Links')
      BY <1>5, <2>1, ReachedGrows
    <2> QED BY <2>2, <2>3, ChainOfLinks
  <1>7. ASSUME NEW first \in Written, NEW k, Near(k, first) PROVE Near(k, first)'
    <2>1. CASE k \in Chain(first)
      BY <1>6, <2>1 DEF Near
    <2>2. CASE \E j \in Chain(first) : k \in Sources({j})
      <3>1. PICK j \in Chain(first) : k \in Sources({j})
        BY <2>2
      <3>2. j \in Chain(first)' /\ k \in Sources({j})'
        BY <1>2, <1>6, <3>1
      <3> QED BY <3>2 DEF Near
    <2> QED BY <1>7, <2>1, <2>2 DEF Near
  <1> QED BY <1>1, <1>5, <1>6, <1>7

\* What a walk knows stays true while transactions are written and accepted.
LEMMA WalkedStays ==
  ASSUME SchemaTypeOK, SchemaTypeOK', Grows, undone' = {}, NEW w, WalkedAs(w)
  PROVE  WalkedAs(w)'
  <1>1. CASE w.at = "idle"
    BY <1>1 DEF WalkedAs
  <1>2. CASE w.at # "idle"
    <2>1. w \in WalkRows /\ w.first \in Written /\ w.began \subseteq Written
      BY <1>2 DEF WalkedAs
    <2>2. w.first \in Written' /\ w.began \subseteq Written'
      BY <2>1, LinksGrow
    <2>3. ASSUME w.at = "walk" PROVE Reaching(w)'
      <3>1. PICK Then \in SUBSET Links :
              /\ w.began = Reached(w.first, Then)
              /\ w.first \in w.visited \cup w.ids
              /\ \A p \in Then : p[1] \in w.visited /\ p[1] \in w.began => p[2] \in w.visited \cup w.ids
              /\ \A k \in w.visited : \E c \in w.rounds : k \in c.ids \ c.visited /\ (k = w.first => ~c.accepted)
              /\ \A k \in w.began : k = w.first \/ trx[k].status = "accepted"
        BY <2>3 DEF WalkedAs, Reaching
      <3>2. Then \in SUBSET Links'
        BY LinksGrow
      <3>3. \A k \in w.began : k = w.first \/ trx'[k].status = "accepted"
        BY <2>1, <3>1, LinksGrow
      <3> QED BY <3>1, <3>2, <3>3 DEF Reaching, Reached
    <2>4. ASSUME w.at = "walk" PROVE Bounded(w)'
      <3>1. Bounded(w)
        BY <2>4 DEF WalkedAs
      <3>2. \A k : Near(k, w.first) => Near(k, w.first)'
        BY <2>1, LinksGrow
      <3>3. ASSUME NEW b, NEW j \in Chain(w.first), IsOutput(j) /\ trx[j].batch = b
            PROVE  j \in Chain(w.first)' /\ IsOutput(j)' /\ trx'[j].batch = b
        <4>1. j \in Written /\ j \in Chain(w.first)'
          BY <2>1, ChainOfLinks, LinksGrow
        <4> QED BY <3>3, <4>1, LinksGrow DEF Lasts
      <3>4. \A c \in w.rounds : \A b \in c.batches : \E j \in Chain(w.first)' : IsOutput(j)' /\ trx'[j].batch = b
        BY <3>1, <3>3 DEF Bounded
      <3> QED BY <3>1, <3>2, <3>4 DEF Bounded
    <2>5. ASSUME w.at \in {"bundle", "features", "export"} PROVE Bracketed(w)'
      <3>1. Bracketed(w)
        BY <2>5 DEF WalkedAs
      <3>2. Chain(w.first) \subseteq Chain(w.first)' /\ Chain(w.first) \subseteq Written
        BY <2>1, LinksGrow, ChainOfLinks
      <3>3. FirstSellers(w.began)' = FirstSellers(w.began)
        BY <2>1, LinksGrow DEF FirstSellers, Lasts
      <3>4. FirstSellers(Chain(w.first)) \subseteq FirstSellers(Chain(w.first))'
        BY <3>2, LinksGrow DEF FirstSellers, Lasts
      <3> QED BY <3>1, <3>2, <3>3, <3>4 DEF Bracketed
    <2> QED BY <1>2, <2>1, <2>2, <2>3, <2>4, <2>5 DEF WalkedAs
  <1> QED BY <1>1, <1>2

LEMMA WalkSteps ==
  ASSUME [Next]_vars
  PROVE  UNCHANGED walk \/ Walk \/ \E k \in Walks : StartWalk(k)
  <1>1. CASE Reader
    BY <1>1 DEF Reader
  <1> QED BY <1>1, StepKinds DEF jobs, vars

LEMMA NoneWalked == WalkedAs(NoWalk)
  <1>1. NoWalk \in WalkRows /\ NoWalk.at = "idle"
    BY DEF NoWalk, WalkRows
  <1> QED BY <1>1 DEF WalkedAs

LEMMA WalkStarted ==
  ASSUME SchemaTypeOK, Settled, NEW first \in Walks, StartWalk(first)
  PROVE  WalkedAs(walk')
  <1> PICK w : w = walk'
    OBVIOUS
  <1>1. first \in Written /\ first \in Keys
    BY DEF StartWalk, Written
  <1>2. w = [at |-> "walk", first |-> first, ids |-> {first}, visited |-> {}, rounds |-> {},
             began |-> Chain(first), merged |-> {}, custom |-> {}, missing |-> {}]
    BY DEF StartWalk, NoWalk
  <1>3. /\ Chain(first) = Reached(first, Links) /\ Links \subseteq Keys \X Keys
        /\ first \in Chain(first) /\ Chain(first) \subseteq Written /\ Chain(first) \subseteq Keys
    BY <1>1, ChainOfLinks DEF Written
  <1>4. w \in WalkRows
    BY <1>1, <1>2, <1>3 DEF WalkRows
  <1>5. ASSUME NEW k \in Chain(first) PROVE k = first \/ trx[k].status = "accepted"
    <2> DEFINE settled == {j \in Keys : j = first \/ (j \in Written /\ trx[j].status = "accepted")}
    <2>1. ASSUME NEW p \in Links PROVE p[2] \in settled
      <3>1. p[2] \in Written /\ Feeds(p[2], p[1])
        BY <2>1 DEF Links
      <3>2. p[2] \in Inputs(Batches({p[1]})) => trx[p[2]].type = "conversion"
        BY DEF Inputs, IsInput
      <3>3. trx[p[2]].status = "accepted"
        BY <3>1, <3>2 DEF Feeds, Settled
      <3> QED BY <3>1, <3>3 DEF Written
    <2>2. first \in settled /\ Closed(settled, Links) /\ settled \subseteq Keys
      BY <1>1, <2>1 DEF Closed
    <2> HIDE DEF settled
    <2>3. Chain(first) \subseteq settled
      BY <1>1, <1>3, <2>2, ReachedIsLeast
    <2> QED BY <2>3 DEF settled
  <1>6. Reaching(w)
    <2>1. /\ w.began = Reached(w.first, Links)
          /\ w.first \in w.visited \cup w.ids
          /\ \A p \in Links : p[1] \in w.visited /\ p[1] \in w.began => p[2] \in w.visited \cup w.ids
          /\ \A k \in w.visited : \E c \in w.rounds : k \in c.ids \ c.visited /\ (k = w.first => ~c.accepted)
          /\ \A k \in w.began : k = w.first \/ trx[k].status = "accepted"
      BY <1>2, <1>3, <1>5
    <2> QED BY <2>1 DEF Reaching
  <1>7. Bounded(w)
    BY <1>2, <1>3 DEF Bounded, Near
  <1> QED BY <1>1, <1>2, <1>3, <1>4, <1>6, <1>7 DEF WalkedAs

LEMMA RoundWalked ==
  ASSUME SchemaTypeOK, WalkedAs(walk), Round
  PROVE  WalkedAs(walk')
  <1> PICK w, next : w = walk /\ next = walk'
    OBVIOUS
  <1> DEFINE accepted == w.rounds # {}
             rows == Rows(w.ids, accepted, w.visited)
             visited == w.visited \cup w.ids
             turn == Condition(w.ids, Batches(rows), accepted, w.visited)
             rounds == w.rounds \cup {turn}
             ids == Sources(rows) \cup (Inputs(Batches(rows)) \ visited)
             chain == Chain(w.first)
  <1>1. /\ w.at = "walk" /\ w.ids # {}
        /\ next = [w EXCEPT !.rounds = rounds, !.visited = visited, !.ids = ids]
    BY DEF Round
  <1>2. /\ w \in WalkRows /\ w.first \in Written /\ w.began \subseteq Written
        /\ Reaching(w) /\ Bounded(w) /\ w.merged = {} /\ w.custom = {} /\ w.missing = {}
    BY <1>1 DEF WalkedAs
  <1>3. /\ w.first \in chain /\ chain \subseteq Written
        /\ \A j \in chain, k \in Written : Feeds(k, j) => k \in chain
    BY <1>2, ChainOfLinks
  <1>4. rows \subseteq chain
    <2>1. ASSUME NEW k \in rows PROVE k \in chain
      <3>1. k \in Written /\ k \in w.ids /\ (accepted => trx[k].status = "accepted")
        BY DEF Rows
      <3>2. CASE w.rounds = {}
        BY <1>2, <1>3, <3>1, <3>2 DEF Bounded
      <3>3. CASE w.rounds # {}
        <4>1. Near(k, w.first) /\ trx[k].status = "accepted"
          BY <1>2, <3>1, <3>3 DEF Bounded
        <4> QED BY <1>3, <3>1, <4>1 DEF Near, Feeds
      <3> QED BY <3>2, <3>3
    <2> QED BY <2>1
  <1>5. /\ rows \subseteq Written /\ Batches(rows) \subseteq Nat /\ ids \subseteq Written /\ ids \subseteq Keys
        /\ visited \subseteq Keys /\ w.ids \subseteq Keys /\ w.visited \subseteq Keys /\ accepted \in BOOLEAN
    <2>1. rows \subseteq Written
      BY DEF Rows
    <2>2. Batches(rows) \subseteq Nat
      BY <2>1, WrittenRows DEF Batches, TransactionRow
    <2>3. ids \subseteq Written
      BY SourcesAndInputs
    <2> HIDE DEF ids, rows
    <2> QED BY <1>2, <2>1, <2>2, <2>3 DEF WalkRows, Written
  <1>6. turn.ids = w.ids /\ turn.batches = Batches(rows) /\ turn.accepted = accepted /\ turn.visited = w.visited
        /\ turn \in [ids : SUBSET Keys, batches : SUBSET Nat, accepted : BOOLEAN, visited : SUBSET Keys]
    <2> HIDE DEF rows, accepted
    <2> QED BY <1>5 DEF Condition
  <1>7. rounds \subseteq [ids : SUBSET Keys, batches : SUBSET Nat, accepted : BOOLEAN, visited : SUBSET Keys]
    <2> HIDE DEF turn
    <2> QED BY <1>2, <1>6 DEF WalkRows
  <1> HIDE DEF turn, chain
  <1>8. Reaching(next)
    <2> PICK Then \in SUBSET Links :
           /\ w.began = Reached(w.first, Then)
           /\ w.first \in w.visited \cup w.ids
           /\ \A p \in Then : p[1] \in w.visited /\ p[1] \in w.began => p[2] \in w.visited \cup w.ids
           /\ \A k \in w.visited : \E c \in w.rounds : k \in c.ids \ c.visited /\ (k = w.first => ~c.accepted)
           /\ \A k \in w.began : k = w.first \/ trx[k].status = "accepted"
      BY <1>2 DEF Reaching
    <2>1. w.first \in visited
      OBVIOUS
    <2>2. ASSUME NEW p \in Then, p[1] \in visited, p[1] \in w.began PROVE p[2] \in visited \cup ids
      <3>1. CASE p[1] \in w.visited
        BY <2>2, <3>1
      <3>2. CASE p[1] \notin w.visited
        <4>1. p[1] \in w.ids /\ p[1] \in Written /\ p[2] \in Written /\ Feeds(p[2], p[1])
          BY <2>2, <3>2 DEF Links
        <4>2. accepted => trx[p[1]].status = "accepted"
          <5>1. p[1] = w.first => w.rounds = {}
            BY <1>2, <3>2 DEF Bounded
          <5> QED BY <2>2, <5>1
        <4>3. p[1] \in rows
          BY <3>2, <4>1, <4>2 DEF Rows
        <4>4. p[2] \in Sources(rows) \/ p[2] \in Inputs(Batches(rows))
          <5> HIDE DEF rows
          <5> QED BY <4>1, <4>3, SourcesAndInputs DEF Feeds
        <4> QED BY <4>4
      <3> QED BY <3>1, <3>2
    <2>3. ASSUME NEW k \in visited
          PROVE  \E c \in rounds : k \in c.ids \ c.visited /\ (k = w.first => ~c.accepted)
      <3>1. CASE k \in w.visited
        BY <3>1
      <3>2. CASE k \notin w.visited
        <4>1. k \in turn.ids \ turn.visited
          BY <1>6, <3>2
        <4>2. k = w.first => ~turn.accepted
          BY <1>2, <1>6, <3>2 DEF Bounded
        <4> QED BY <4>1, <4>2
      <3> QED BY <3>1, <3>2
    <2>4. next.first = w.first /\ next.began = w.began /\ next.visited = visited /\ next.ids = ids
          /\ next.rounds = rounds
      <3> HIDE DEF rows, accepted, visited, rounds, ids
      <3> QED BY <1>1, <1>2 DEF WalkRows
    <2> HIDE DEF rows, accepted, visited, rounds, ids
    <2> QED BY <2>1, <2>2, <2>3, <2>4 DEF Reaching
  <1>9. Bounded(next)
    <2>1. next.first = w.first /\ next.visited = visited /\ next.ids = ids /\ next.rounds = rounds
      <3> HIDE DEF rows, accepted, visited, rounds, ids
      <3> QED BY <1>1, <1>2 DEF WalkRows
    <2>2. w.first \in visited /\ rounds # {}
      BY <1>2 DEF Reaching
    <2>3. ASSUME NEW k \in ids PROVE Near(k, w.first)
      <3>1. CASE k \in Sources(rows)
        <4>1. PICK j \in rows : k \in Sources({j})
          <5> HIDE DEF rows
          <5> QED BY <3>1, SourcesAndInputs
        <4> QED BY <1>4, <4>1 DEF Near, chain
      <3>2. CASE k \in Inputs(Batches(rows))
        <4>1. PICK j \in rows : k \in Inputs(Batches({j}))
          <5> HIDE DEF rows
          <5> QED BY <3>2, SourcesAndInputs
        <4>2. k \in Written /\ Feeds(k, j)
          BY <4>1, SourcesAndInputs DEF Feeds
        <4> QED BY <1>3, <1>4, <4>1, <4>2 DEF Near, chain
      <3> QED BY <3>1, <3>2
    <2>4. ASSUME NEW b \in Batches(rows) PROVE \E j \in chain : IsOutput(j) /\ trx[j].batch = b
      BY <1>4 DEF Batches
    <2>5. ~turn.accepted => turn.ids = {w.first}
      BY <1>2, <1>6 DEF Bounded
    <2>6. \A k \in w.ids : Near(k, w.first)
      BY <1>2 DEF Bounded
    <2>7. ASSUME NEW c \in rounds
          PROVE  /\ \A k \in c.ids : Near(k, w.first)
                 /\ ~c.accepted => c.ids = {w.first}
                 /\ \A b \in c.batches : \E j \in chain : IsOutput(j) /\ trx[j].batch = b
      <3>1. CASE c \in w.rounds
        BY <1>2, <3>1 DEF Bounded, chain
      <3>2. CASE c = turn
        <4> HIDE DEF rows
        <4> QED BY <1>6, <2>4, <2>5, <2>6, <3>2
      <3> QED BY <3>1, <3>2
    <2> HIDE DEF rows, accepted, visited, rounds, ids
    <2> QED BY <2>1, <2>2, <2>3, <2>7 DEF Bounded, chain
  <1> HIDE DEF rows, accepted, visited, rounds, ids
  <1>10. next.at = "walk" /\ next.first = w.first /\ next.began = w.began
         /\ next.merged = {} /\ next.custom = {} /\ next.missing = {}
    BY <1>1, <1>2 DEF WalkRows
  <1>11. next = [at |-> w.at, first |-> w.first, ids |-> ids, visited |-> visited, rounds |-> rounds,
                 began |-> w.began, merged |-> w.merged, custom |-> w.custom, missing |-> w.missing]
    BY <1>1, <1>2 DEF WalkRows
  <1>12. next \in WalkRows
    BY <1>2, <1>5, <1>7, <1>11 DEF WalkRows
  <1> QED BY <1>2, <1>8, <1>9, <1>10, <1>12 DEF WalkedAs

\* The query of all rounds finds the chain as it was, and only rows of the chain as it is.
LEMMA FoundIsTheChain ==
  ASSUME SchemaTypeOK, WalkedAs(walk), walk.at = "walk", walk.ids = {}
  PROVE  /\ walk.first \in Written /\ walk.began \subseteq Found
         /\ Found \subseteq Chain(walk.first) /\ Found \subseteq Keys
  <1> PICK w : w = walk
    OBVIOUS
  <1>1. /\ w \in WalkRows /\ w.first \in Written /\ w.began \subseteq Written
        /\ Reaching(w) /\ Bounded(w)
    BY DEF WalkedAs
  <1> DEFINE chain == Chain(w.first)
  <1>2. /\ w.first \in chain /\ chain \subseteq Written
        /\ \A j \in chain, k \in Written : Feeds(k, j) => k \in chain
    BY <1>1, ChainOfLinks
  <1> PICK Then \in SUBSET Links :
         /\ w.began = Reached(w.first, Then)
         /\ w.first \in w.visited \cup w.ids
         /\ \A p \in Then : p[1] \in w.visited /\ p[1] \in w.began => p[2] \in w.visited \cup w.ids
         /\ \A k \in w.visited : \E c \in w.rounds : k \in c.ids \ c.visited /\ (k = w.first => ~c.accepted)
         /\ \A k \in w.began : k = w.first \/ trx[k].status = "accepted"
    BY <1>1 DEF Reaching
  <1>3. w.began \subseteq w.visited
    <2>1. Then \in SUBSET (Keys \X Keys) /\ w.first \in Keys
      BY <1>1 DEF Links, Written
    <2>2. w.first \in w.began /\ Closed(w.began, Then) /\ w.began \subseteq Keys
      BY <2>1, ReachedIsLeast
    <2>3. w.first \in w.began \cap w.visited /\ Closed(w.began \cap w.visited, Then)
      BY <2>2 DEF Closed
    <2> DEFINE both == w.began \cap w.visited
    <2>4. w.first \in both /\ Closed(both, Then) /\ both \subseteq Keys
      BY <2>2, <2>3
    <2> HIDE DEF both
    <2>5. w.began \subseteq both
      BY <2>1, <2>4, ReachedIsLeast
    <2> QED BY <2>5 DEF both
  <1>4. ASSUME NEW k \in w.began PROVE k \in Found
    <2>1. PICK c \in w.rounds : k \in c.ids \ c.visited /\ (k = w.first => ~c.accepted)
      BY <1>3, <1>4
    <2>2. c.accepted => trx[k].status = "accepted"
      BY <1>4, <2>1
    <2> QED BY <1>1, <1>4, <2>1, <2>2 DEF Found, Holds
  <1>5. ASSUME NEW k \in Found PROVE k \in chain
    <2>1. PICK c \in w.rounds : Holds(c, k)
      BY <1>5 DEF Found
    <2>2. k \in Written
      BY <1>5 DEF Found
    <2>3. CASE k \in c.ids /\ (c.accepted => trx[k].status = "accepted")
      <3>1. CASE c.accepted
        <4>1. Near(k, w.first) /\ trx[k].status = "accepted"
          BY <1>1, <2>3, <3>1 DEF Bounded
        <4> QED BY <1>2, <2>2, <4>1 DEF Near, Feeds
      <3>2. CASE ~c.accepted
        BY <1>1, <1>2, <2>3, <3>2 DEF Bounded
      <3> QED BY <3>1, <3>2
    <2>4. CASE IsInput(k) /\ trx[k].batch \in c.batches
      <3>1. PICK j \in chain : IsOutput(j) /\ trx[j].batch = trx[k].batch
        BY <1>1, <2>4 DEF Bounded
      <3>2. k \in Inputs(Batches({j}))
        BY <2>2, <2>4, <3>1 DEF Inputs, Batches
      <3> QED BY <1>2, <2>2, <3>1, <3>2 DEF Feeds
    <2> QED BY <2>1, <2>3, <2>4 DEF Holds
  <1> QED BY <1>1, <1>4, <1>5 DEF Found, Written

LEMMA WalkWalked ==
  ASSUME SchemaTypeOK, WalkedAs(walk), Walk
  PROVE  WalkedAs(walk')
  <1> PICK w, next : w = walk /\ next = walk'
    OBVIOUS
  <1>1. w \in WalkRows /\ Found \subseteq Written
    BY DEF WalkedAs, Found
  <1>2. ASSUME NEW at \in {"bundle", "features", "export"}, NEW merged \in SUBSET Found, NEW missing \in SUBSET Found,
               NEW custom \in SUBSET Found, w.at = "walk", w.ids = {},
               next = [at |-> at, first |-> w.first, ids |-> w.ids, visited |-> w.visited, rounds |-> w.rounds,
                       began |-> w.began, merged |-> merged, custom |-> custom, missing |-> missing],
               merged \cap missing = {}, at = "bundle" => merged \subseteq custom,
               merged \cup missing = IF at = "features" THEN FirstSellers(Found) ELSE Found
        PROVE  WalkedAs(next)
    <2>1. /\ w.first \in Written /\ w.began \subseteq Found /\ Found \subseteq Chain(w.first) /\ Found \subseteq Keys
      BY <1>2, FoundIsTheChain
    <2>2. next.at = at /\ next.first = w.first /\ next.began = w.began
          /\ next.merged = merged /\ next.custom = custom /\ next.missing = missing
      BY <1>2
    <2>3. next \in WalkRows
      BY <1>1, <1>2, <2>1 DEF WalkRows
    <2>4. FirstSellers(w.began) \subseteq FirstSellers(Found)
          /\ FirstSellers(Found) \subseteq FirstSellers(Chain(w.first))
      BY <2>1 DEF FirstSellers
    <2>5. Bracketed(next)
      BY <1>2, <2>1, <2>2, <2>4 DEF Bracketed
    <2> QED BY <1>1, <1>2, <2>1, <2>2, <2>3, <2>5 DEF WalkedAs
  <1>3. CASE Round
    BY <1>3, RoundWalked
  <1>4. ASSUME w.at = "walk" PROVE w.merged = {} /\ w.custom = {} /\ w.missing = {}
    BY <1>4 DEF WalkedAs
  <1>5. w = [at |-> w.at, first |-> w.first, ids |-> w.ids, visited |-> w.visited, rounds |-> w.rounds,
             began |-> w.began, merged |-> w.merged, custom |-> w.custom, missing |-> w.missing]
    BY <1>1 DEF WalkRows
  <1>6. CASE Bundle
    <2> DEFINE valid == {k \in Found : trx[k].location = "qr" /\ file[k] = "valid"}
               custom == {k \in Found : trx[k].location = "qr"}
    <2>1. w.at = "walk" /\ w.ids = {}
          /\ next = [w EXCEPT !.at = "bundle", !.merged = valid, !.custom = custom, !.missing = Found \ valid]
      BY <1>6 DEF Bundle
    <2>2. valid \cap (Found \ valid) = {} /\ valid \subseteq custom /\ valid \cup (Found \ valid) = Found
          /\ custom \in SUBSET Found /\ valid \in SUBSET Found /\ Found \ valid \in SUBSET Found
      OBVIOUS
    <2> HIDE DEF valid, custom
    <2>3. next = [at |-> "bundle", first |-> w.first, ids |-> w.ids, visited |-> w.visited, rounds |-> w.rounds,
                  began |-> w.began, merged |-> valid, custom |-> custom, missing |-> Found \ valid]
      BY <1>1, <2>1 DEF WalkRows
    <2> QED BY <1>2, <2>1, <2>2, <2>3
  <1>7. CASE Features
    <2> DEFINE rows == FirstSellers(Found)
               valid == {k \in rows : trx[k].location = "qr" /\ file[k] = "valid"}
    <2>1. CASE walk' = NoWalk
      BY <2>1, NoneWalked
    <2>2. CASE walk' # NoWalk
      <3>1. w.at = "walk" /\ w.ids = {}
            /\ next = [w EXCEPT !.at = "features", !.merged = valid, !.missing = rows \ valid]
        BY <1>7, <2>2 DEF Features
      <3>2. valid \cap (rows \ valid) = {} /\ valid \cup (rows \ valid) = rows /\ rows \subseteq Found
        BY DEF FirstSellers
      <3> HIDE DEF valid
      <3>3. next = [at |-> "features", first |-> w.first, ids |-> w.ids, visited |-> w.visited,
                    rounds |-> w.rounds, began |-> w.began, merged |-> valid, custom |-> w.custom,
                    missing |-> rows \ valid]
        BY <1>5, <3>1
      <3>4. valid \in SUBSET Found /\ rows \ valid \in SUBSET Found /\ w.custom \in SUBSET Found
        BY <1>4, <3>1, <3>2
      <3> QED BY <1>2, <3>1, <3>2, <3>3, <3>4
    <2> QED BY <2>1, <2>2
  <1>8. CASE Export
    <2>1. w.at = "walk" /\ w.ids = {} /\ next = [w EXCEPT !.at = "export", !.merged = Found]
      BY <1>8 DEF Export
    <2>2. w.missing = {} /\ w.custom = {}
      BY <1>4, <2>1
    <2>3. next = [at |-> "export", first |-> w.first, ids |-> w.ids, visited |-> w.visited, rounds |-> w.rounds,
                  began |-> w.began, merged |-> Found, custom |-> {}, missing |-> {}]
      BY <1>5, <2>1, <2>2
    <2>4. Found \in SUBSET Found /\ {} \in SUBSET Found /\ Found \cap {} = {} /\ Found \cup {} = Found
      OBVIOUS
    <2> QED BY <1>2, <2>1, <2>3, <2>4
  <1>9. CASE EndWalk
    BY <1>9, NoneWalked DEF EndWalk
  <1> QED BY <1>3, <1>6, <1>7, <1>8, <1>9 DEF Walk

LEMMA NoneRoaming == Roaming(NoWalk)
  BY DEF Roaming, NoWalk, WalkRows

LEMMA RoamingStays ==
  ASSUME SchemaTypeOK, Grows, NEW w, Roaming(w)
  PROVE  Roaming(w)'
  BY RowLasts DEF Roaming

LEMMA FoundAreKeys == Found \subseteq Keys /\ FirstSellers(Found) \subseteq Keys
  BY DEF Found, FirstSellers, Written

\* What a walk names are keys, those it merges and those it misses apart.
LEMMA RoamingBySteps ==
  ASSUME SchemaTypeOK, Roaming(walk), Walk \/ \E k \in Walks : StartWalk(k)
  PROVE  Roaming(walk')
  <1> PICK w, next, found : w = walk /\ next = walk' /\ found = Found
    OBVIOUS
  <1>1. /\ w \in WalkRows /\ (w.at # "idle" => w.first \in Written)
        /\ w.at = "walk" => w.merged = {} /\ w.custom = {} /\ w.missing = {}
        /\ found \subseteq Keys /\ FirstSellers(found) \subseteq Keys
    BY FoundAreKeys DEF Roaming
  <1>2. w = [at |-> w.at, first |-> w.first, ids |-> w.ids, visited |-> w.visited, rounds |-> w.rounds,
             began |-> w.began, merged |-> w.merged, custom |-> w.custom, missing |-> w.missing]
    BY <1>1 DEF WalkRows
  <1>3. ASSUME NEW at \in {"bundle", "features", "export"}, NEW merged \in SUBSET Keys, NEW missing \in SUBSET Keys,
               NEW custom \in SUBSET Keys, w.at = "walk", merged \cap missing = {}, at = "bundle" => merged \subseteq custom,
               next = [at |-> at, first |-> w.first, ids |-> w.ids, visited |-> w.visited, rounds |-> w.rounds,
                       began |-> w.began, merged |-> merged, custom |-> custom, missing |-> missing]
        PROVE  Roaming(next)
    <2>1. next \in WalkRows
      BY <1>1, <1>3 DEF WalkRows
    <2> QED BY <1>1, <1>3, <2>1 DEF Roaming
  <1>4. CASE \E k \in Walks : StartWalk(k)
    <2>1. PICK k \in Walks : StartWalk(k)
      BY <1>4
    <2>2. k \in Written /\ k \in Keys /\ Chain(k) \subseteq Keys
      BY <2>1, ChainOfLinks DEF StartWalk, Written
    <2>3. next = [at |-> "walk", first |-> k, ids |-> {k}, visited |-> {}, rounds |-> {},
                  began |-> Chain(k), merged |-> {}, custom |-> {}, missing |-> {}]
      BY <2>1 DEF StartWalk, NoWalk
    <2> QED BY <2>2, <2>3 DEF Roaming, WalkRows
  <1>5. CASE Round
    <2> DEFINE accepted == w.rounds # {}
               rows == Rows(w.ids, accepted, w.visited)
               turn == Condition(w.ids, Batches(rows), accepted, w.visited)
               visited == w.visited \cup w.ids
               ids == Sources(rows) \cup (Inputs(Batches(rows)) \ visited)
               rounds == w.rounds \cup {turn}
    <2>1. w.at = "walk" /\ next = [w EXCEPT !.rounds = rounds, !.visited = visited, !.ids = ids]
      BY <1>5 DEF Round
    <2>2. accepted \in BOOLEAN /\ visited \subseteq Keys /\ ids \subseteq Keys
      BY <1>1, SourcesAndInputs DEF WalkRows, Written
    <2>3. rows \subseteq Written
      BY DEF Rows
    <2>4. Batches(rows) \subseteq Nat
      BY <2>3, WrittenRows DEF Batches, TransactionRow
    <2> HIDE DEF accepted, rows, visited, ids
    <2>5. turn \in [ids : SUBSET Keys, batches : SUBSET Nat, accepted : BOOLEAN, visited : SUBSET Keys]
      <3>1. w.ids \in SUBSET Keys /\ w.visited \in SUBSET Keys
        BY <1>1 DEF WalkRows
      <3> QED BY <2>2, <2>4, <3>1 DEF Condition
    <2> HIDE DEF turn
    <2>6. rounds \subseteq [ids : SUBSET Keys, batches : SUBSET Nat, accepted : BOOLEAN, visited : SUBSET Keys]
      BY <1>1, <2>5 DEF WalkRows
    <2> HIDE DEF rounds
    <2>7. next = [at |-> w.at, first |-> w.first, ids |-> ids, visited |-> visited, rounds |-> rounds,
                  began |-> w.began, merged |-> w.merged, custom |-> w.custom, missing |-> w.missing]
      BY <1>2, <2>1
    <2>8. next \in WalkRows
      BY <1>1, <2>2, <2>6, <2>7 DEF WalkRows
    <2> QED BY <1>1, <2>1, <2>7, <2>8 DEF Roaming
  <1>6. CASE Bundle
    <2> DEFINE valid == {k \in found : trx[k].location = "qr" /\ file[k] = "valid"}
               custom == {k \in found : trx[k].location = "qr"}
    <2>1. w.at = "walk" /\ next = [w EXCEPT !.at = "bundle", !.merged = valid, !.custom = custom, !.missing = found \ valid]
      BY <1>6 DEF Bundle
    <2>2. valid \cap (found \ valid) = {} /\ valid \subseteq custom
          /\ custom \in SUBSET Keys /\ valid \in SUBSET Keys /\ found \ valid \in SUBSET Keys
      BY <1>1
    <2> HIDE DEF valid, custom
    <2>3. next = [at |-> "bundle", first |-> w.first, ids |-> w.ids, visited |-> w.visited, rounds |-> w.rounds,
                  began |-> w.began, merged |-> valid, custom |-> custom, missing |-> found \ valid]
      BY <1>2, <2>1
    <2> QED BY <1>3, <2>1, <2>2, <2>3
  <1>7. CASE Features /\ walk' # NoWalk
    <2> DEFINE rows == FirstSellers(found)
               valid == {k \in rows : trx[k].location = "qr" /\ file[k] = "valid"}
    <2>1. w.at = "walk" /\ next = [w EXCEPT !.at = "features", !.merged = valid, !.missing = rows \ valid]
      BY <1>7 DEF Features
    <2>2. valid \cap (rows \ valid) = {} /\ valid \in SUBSET Keys /\ rows \ valid \in SUBSET Keys
          /\ w.custom \in SUBSET Keys
      BY <1>1 DEF WalkRows
    <2> HIDE DEF valid, rows
    <2>3. next = [at |-> "features", first |-> w.first, ids |-> w.ids, visited |-> w.visited,
                  rounds |-> w.rounds, began |-> w.began, merged |-> valid, custom |-> w.custom,
                  missing |-> rows \ valid]
      BY <1>2, <2>1
    <2> PICK merged, missing, custom : merged = valid /\ missing = rows \ valid /\ custom = w.custom
      OBVIOUS
    <2>4. merged \in SUBSET Keys /\ missing \in SUBSET Keys /\ custom \in SUBSET Keys /\ merged \cap missing = {}
      BY <2>2
    <2>5. next = [at |-> "features", first |-> w.first, ids |-> w.ids, visited |-> w.visited,
                  rounds |-> w.rounds, began |-> w.began, merged |-> merged, custom |-> custom, missing |-> missing]
      BY <2>3
    <2> QED BY <1>3, <2>1, <2>4, <2>5
  <1>8. CASE Export
    <2>1. w.at = "walk" /\ next = [w EXCEPT !.at = "export", !.merged = found]
      BY <1>8 DEF Export
    <2>2. next = [at |-> "export", first |-> w.first, ids |-> w.ids, visited |-> w.visited, rounds |-> w.rounds,
                  began |-> w.began, merged |-> found, custom |-> {}, missing |-> {}]
      BY <1>1, <1>2, <2>1
    <2>3. found \in SUBSET Keys /\ {} \in SUBSET Keys /\ found \cap {} = {}
      BY <1>1
    <2> QED BY <1>3, <2>1, <2>2, <2>3
  <1>9. CASE walk' = NoWalk
    BY <1>9, NoneRoaming
  <1> QED BY <1>4, <1>5, <1>6, <1>7, <1>8, <1>9 DEF Walk, EndWalk

LEMMA NextWalked == Typed /\ Settled /\ Roams /\ [Next]_vars => Roams'
  <1> SUFFICES ASSUME Typed, Settled, Roams, [Next]_vars PROVE Roams'
    OBVIOUS
  <1>1. SchemaTypeOK /\ SchemaTypeOK' /\ Grows
    BY NextTyped DEF Typed
  <1> PICK w : w = walk'
    OBVIOUS
  <1>2. Roaming(w)'
    <2>1. Roaming(walk) /\ (UNCHANGED walk => Roaming(walk'))
      BY DEF Roams
    <2>2. Roaming(w)
      BY <1>1, <2>1, WalkSteps, RoamingBySteps
    <2> QED BY <1>1, <2>2, RoamingStays
  <1>3. ASSUME undone' = {} PROVE WalkedAs(w)'
    <2>1. WalkedAs(walk)
      BY <1>1, <1>3 DEF Roams, Grows
    <2>2. WalkedAs(walk')
      <3>1. CASE UNCHANGED walk
        BY <2>1, <3>1
      <3> QED BY <1>1, <2>1, <3>1, WalkSteps, WalkWalked, WalkStarted
    <2> QED BY <1>1, <1>3, <2>2, WalkedStays
  <1>4. Roaming(walk)'
    BY <1>2 DEF Roaming
  <1>5. undone' = {} => WalkedAs(walk)'
    BY <1>3 DEF WalkedAs
  <1> QED BY <1>4, <1>5 DEF Roams

LEMMA InitWalked == Init => Roams
  BY NoneWalked, NoneRoaming DEF Init, Roams

\* A download names what was in the chain when it began and nothing that is not in it
\* now, as long as no acceptance has been undone, and each as merged or missing and never
\* both, for any tables and any trades meanwhile (ChainIsBracketed;
\* storages/transactions.py:172).
THEOREM ChainsAreBracketed == Spec => []ChainIsBracketed
  <1>1. Roams => ChainIsBracketed
    <2> SUFFICES ASSUME Roams, walk.at \in {"bundle", "features", "export"} PROVE ChainIsBracketed
      BY DEF ChainIsBracketed
    <2>1. walk.merged \cap walk.missing = {} /\ (walk.at = "bundle" => walk.merged \subseteq walk.custom)
      BY DEF Roams, Roaming
    <2>2. undone = {} => Bracketed(walk)
      BY DEF Roams, WalkedAs
    <2> QED BY <2>1, <2>2 DEF Bracketed, ChainIsBracketed
  <1> QED BY <1>1, InitTyped, NextTyped, InitSettled, NextSettled, InitWalked, NextWalked, PTL DEF Spec

-----------------------------------------------------------------------------
(* Types of everything. *)

LEMMA NextEvents == events \in 0 .. MaxEvents /\ [Next]_vars => (events \in 0 .. MaxEvents)'
  <1> SUFFICES ASSUME events \in 0 .. MaxEvents, [Next]_vars PROVE (events \in 0 .. MaxEvents)'
    OBVIOUS
  <1>1. events' = events \/ Event
    <2>1. CASE Trader
      BY <2>1 DEF Trader
    <2>2. CASE Admin
      BY <2>2 DEF Admin, Deletion
    <2>3. CASE SeasonTask
      BY <2>3 DEF SeasonTask
    <2>4. CASE Reader
      BY <2>4 DEF Reader
    <2> QED BY <2>1, <2>2, <2>3, <2>4 DEF Next, vars
  <1>2. MaxEvents \in Nat
    BY RecordsAssumption
  <1> QED BY <1>1, <1>2 DEF Event

LEMMA EverythingTyped ==
  Typed /\ Paged /\ Measured /\ Roams /\ events \in 0 .. MaxEvents => TypeOK
  <1> SUFFICES ASSUME Typed, Paged, Measured, Roams, events \in 0 .. MaxEvents PROVE TypeOK
    OBVIOUS
  <1>1. SchemaTypeOK /\ HandlersTypeOK /\ DistributionTypeOK
        /\ removal \in [object : Objects \cup {None}, rows : SUBSET Objects]
    BY DEF Typed, Handling, Running, Collected
  <1>2. WalkTypeOK
    <2>1. walk \in WalkRows
      BY DEF Roams, Roaming
    <2> QED BY <2>1 DEF WalkTypeOK, WalkRows
  <1>3. ListingTypeOK
    <2>1. /\ listing \in Listings /\ listing.stayed \subseteq listing.last
          /\ listing.at # "idle" => listing.list \in ListRequest
      BY DEF Paged
    <2> QED BY <2>1 DEF ListingTypeOK, Listings
  <1>4. AnalyticsTypeOK
    <2>1. metrics \in Measurements /\ cache \in [Users -> Figures \cup {NoFigures}]
      BY DEF Measured, Figured
    <2>2. metrics.figures \in Figures \cup {NoFigures} /\ metrics.began \in Figures \cup {NoFigures}
          /\ \A u \in Users : cache[u] \in Figures \cup {NoFigures}
      BY <2>1 DEF Measurements
    <2> HIDE DEF Figures, NoFigures
    <2>3. {metrics.figures, metrics.began} \cup {cache[u] : u \in Users} \subseteq Figures \cup {NoFigures}
      BY <2>2
    <2> QED BY <2>1, <2>3 DEF AnalyticsTypeOK, Measurements
  <1> QED BY <1>1, <1>2, <1>3, <1>4 DEF TypeOK

\* Tables, workers, deletions, the season task, downloads, lists, figures and the cache keep
\* their types (TypeOK).
THEOREM RecordsTypes == Spec => []TypeOK
  <1>1. Init => events \in 0 .. MaxEvents
    BY RecordsAssumption DEF Init
  <1> QED BY <1>1, NextEvents, EverythingTyped, InitTyped, NextTyped, InitPaged, NextPaged, InitMeasured,
             NextMeasured, InitSettled, NextSettled, InitWalked, NextWalked, PTL DEF Spec
=============================================================================
