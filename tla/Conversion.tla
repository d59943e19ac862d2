----------------------------- MODULE Conversion -----------------------------
(***************************************************************************)
(* create_conversion (whimo/transactions/services.py): one user turns some  *)
(* of what it holds into other commodities, while other conversions and      *)
(* trades of the same user write the same balances.  The module shows one    *)
(* user, because no statement of a conversion reads or locks another user's   *)
(* rows.  As in Trading, one action is one stretch of a request between two  *)
(* points where others can run.                                             *)
(*                                                                         *)
(* Balances and transactions keep two decimals, recipes and overrides more:   *)
(* volumes are counted in hundredths, quantities in parts of a hundredth.    *)
(***************************************************************************)
EXTENDS Integers, FiniteSets, FiniteSetsExt, Functions

CONSTANTS
  Commodities,
  Recipes,       \* conversion recipes: which commodities go in and come out
  Quantities,    \* quantities of a recipe or an override, in parts
  Scale,         \* parts of a hundredth
  Rows,          \* primary keys of the user's rows in table balances
  Requests,      \* web workers
  Levels,        \* traceability levels of purchases
  NoCommodity, NoRequest,
  Races,         \* overlaps the environment may produce, see Undisturbed
  Traded,        \* bound: commodities that trades deal in
  Volumes,       \* bound: volumes of those trades
  MaxStock       \* bound: volume up to which the user buys or makes a commodity

ASSUME NullAssumption == NoCommodity \notin Commodities /\ NoRequest \notin Requests

\* Primary keys are UUIDs: there are finitely many of them.
ASSUME RowsAssumption == IsFiniteSet(Rows)

ASSUME RecipeAssumption ==
  Recipes \subseteq [inputs : SUBSET Commodities, outputs : SUBSET Commodities]

ASSUME QuantityAssumption ==
  /\ Quantities \subseteq Int /\ Volumes \subseteq Nat
  /\ Scale \in Nat \ {0} /\ MaxStock \in Nat

ASSUME LevelAssumption == Levels \subseteq 1..4 /\ Traded \subseteq Commodities

ASSUME RaceAssumption == Races \subseteq {"purchase"}

VARIABLES
  rowOf,      \* commodity of each balance row, NoCommodity when there is no row
  volume,     \* volume of each row
  lockedBy,   \* holder of the row lock
  ledger,     \* what the transactions of each commodity add up to
  levels,     \* traceability levels of the purchases of each commodity
  pc,         \* where each request stands
  take, make, \* quantity of each commodity it converts, 0 for the others
  level,      \* the traceability it found for its inputs
  want,       \* rows its SELECT ... FOR UPDATE has found and not locked yet
  inputs, outputs,  \* rows behind its Balance objects, one for a commodity
  seen        \* the volume with which each of them was loaded

tables == <<rowOf, volume, ledger, levels>>
locals == <<pc, take, make, level, want, inputs, outputs, seen>>
vars == <<tables, lockedBy, locals>>

-----------------------------------------------------------------------------
Incomplete == 1
Steps == {"idle", "ask", "lock_inputs", "lock_outputs"}
Nothing == [c \in Commodities |-> 0]

\* Commodities with a quantity above zero: the others are filtered out.
Positive(quantity) == {c \in Commodities : quantity[c] > 0}

RowsOf(cs) == {r \in Rows : rowOf[r] \in cs}
FreeRows == RowsOf({NoCommodity})

\* numeric(10, 2): the nearest hundredth, a half away from zero (x >= 0).
Rounded(x) == (2 * x + Scale) \div (2 * Scale)

\* Mutant: an input without purchases, or no input, counts as no level at all.
ConversionTraceabilityNone(cs) ==
  LET found == UNION {levels[c] : c \in cs}
  IN IF found = {} THEN 0 ELSE Min(found)

\* Mutant: the best input decides.
ConversionTraceabilityBest(cs) ==
  LET found == UNION {levels[c] : c \in cs}
  IN IF found = {} THEN Incomplete ELSE Max(found)

\* get_conversion_traceability: the worst purchase of any input.
ConversionTraceability(cs) ==
  LET found == UNION {levels[c] : c \in cs}
  IN IF found = {} THEN Incomplete ELSE Min(found)

\* Nothing in the code keeps a purchase of an input away between the moment a
\* conversion reads the traceability and the one it locks the balance; a run with
\* no "purchase" in Races asks what holds when clients happen to avoid it.
Unlocked(w) ==
  IF pc[w] \in {"ask", "lock_inputs"} THEN Positive(take[w]) ELSE {}

Undisturbed(cs) ==
  "purchase" \in Races \/ \A w \in Requests : cs \cap Unlocked(w) = {}

-----------------------------------------------------------------------------
Init ==
  /\ rowOf = [r \in Rows |-> NoCommodity] /\ volume = [r \in Rows |-> 0]
  /\ lockedBy = [r \in Rows |-> NoRequest]
  /\ ledger = Nothing /\ levels = [c \in Commodities |-> {}]
  /\ pc = [w \in Requests |-> "idle"]
  /\ take = [w \in Requests |-> Nothing] /\ make = [w \in Requests |-> Nothing]
  /\ level = [w \in Requests |-> Incomplete]
  /\ want = [w \in Requests |-> {}]
  /\ inputs = [w \in Requests |-> {}] /\ outputs = [w \in Requests |-> {}]
  /\ seen = [w \in Requests |-> [r \in Rows |-> 0]]

\* A request ends: its objects are gone, its locks released.
Leave(w) ==
  /\ pc' = [pc EXCEPT ![w] = "idle"]
  /\ take' = [take EXCEPT ![w] = Nothing] /\ make' = [make EXCEPT ![w] = Nothing]
  /\ level' = [level EXCEPT ![w] = Incomplete]
  /\ want' = [want EXCEPT ![w] = {}]
  /\ inputs' = [inputs EXCEPT ![w] = {}] /\ outputs' = [outputs EXCEPT ![w] = {}]
  /\ seen' = [seen EXCEPT ![w] = [r \in Rows |-> 0]]
  /\ lockedBy' = [r \in Rows |-> IF lockedBy[r] = w THEN NoRequest ELSE lockedBy[r]]

\* Every error and every crash before the commit: no row was written yet.
Rollback(w) == Leave(w) /\ UNCHANGED tables

-----------------------------------------------------------------------------
\* Recipe and overrides are merged before the transaction: an override may give
\* any commodity of the recipe any quantity, and not all inputs may be zero.
Amounts(cs) == {q \in [Commodities -> Quantities \cup {0}] :
                  \A c \in Commodities \ cs : q[c] = 0}

ConvertRead(w, recipe, t, m) ==
  /\ pc[w] = "idle"
  /\ \E c \in recipe.inputs : t[c] # 0
  /\ Undisturbed(Positive(m))
  /\ "purchase" \in Races \/ \A x \in Requests : Positive(make[x]) \cap Positive(t) = {}
  /\ \A c \in Positive(m) : ledger[c] + Rounded(m[c]) <= MaxStock
  /\ pc' = [pc EXCEPT ![w] = "ask"]
  /\ take' = [take EXCEPT ![w] = t] /\ make' = [make EXCEPT ![w] = m]
  /\ level' = [level EXCEPT ![w] = ConversionTraceability(Positive(t))]
  /\ UNCHANGED <<tables, lockedBy, want, inputs, outputs, seen>>

\* The first SELECT ... FOR UPDATE: the rows of all inputs, in no given order.
AskInputs(w) ==
  /\ pc[w] = "ask"
  /\ pc' = [pc EXCEPT ![w] = "lock_inputs"]
  /\ want' = [want EXCEPT ![w] = RowsOf(Positive(take[w]))]
  /\ UNCHANGED <<tables, lockedBy, take, make, level, inputs, outputs, seen>>

\* The dictionary of Balance objects keeps the last row of each commodity.
Pick(rows, r) == {x \in rows : rowOf[x] # rowOf[r]} \cup {r}

\* Mutant: select_for_update is missing.
LockOneWithoutLock(w, r) ==
  /\ r \in want[w] /\ lockedBy[r] \in {NoRequest, w}
  /\ want' = [want EXCEPT ![w] = @ \ {r}]
  /\ seen' = [seen EXCEPT ![w][r] = volume[r]]
  /\ \/ /\ pc[w] = "lock_inputs"
        /\ inputs' = [inputs EXCEPT ![w] = Pick(@, r)] /\ UNCHANGED outputs
     \/ /\ pc[w] = "lock_outputs"
        /\ outputs' = [outputs EXCEPT ![w] = Pick(@, r)] /\ UNCHANGED inputs
  /\ UNCHANGED <<tables, lockedBy, pc, take, make, level>>

\* One row of the statement: its lock is waited for, then it is read.  A lock the
\* transaction holds already is granted at once.
LockOne(w, r) ==
  /\ r \in want[w] /\ lockedBy[r] \in {NoRequest, w}
  /\ lockedBy' = [lockedBy EXCEPT ![r] = w]
  /\ want' = [want EXCEPT ![w] = @ \ {r}]
  /\ seen' = [seen EXCEPT ![w][r] = volume[r]]
  /\ \/ /\ pc[w] = "lock_inputs"
        /\ inputs' = [inputs EXCEPT ![w] = Pick(@, r)] /\ UNCHANGED outputs
     \/ /\ pc[w] = "lock_outputs"
        /\ outputs' = [outputs EXCEPT ![w] = Pick(@, r)] /\ UNCHANGED inputs
  /\ UNCHANGED <<tables, pc, take, make, level>>

\* Mutant: the volumes are not compared.
SufficientRows(w) == \A c \in Positive(take[w]) : \E r \in inputs[w] : rowOf[r] = c

\* Every input has a balance that covers it.
Sufficient(w) ==
  \A c \in Positive(take[w]) :
    \E r \in inputs[w] : rowOf[r] = c /\ Scale * seen[w][r] >= take[w][c]

\* InsufficientBalanceForConversionError.
Refuse(w) ==
  pc[w] = "lock_inputs" /\ want[w] = {} /\ ~Sufficient(w) /\ Rollback(w)

\* The second SELECT ... FOR UPDATE, after the inputs have been checked.
AskOutputs(w) ==
  /\ pc[w] = "lock_inputs" /\ want[w] = {} /\ Sufficient(w)
  /\ pc' = [pc EXCEPT ![w] = "lock_outputs"]
  /\ want' = [want EXCEPT ![w] = RowsOf(Positive(make[w]))]
  /\ UNCHANGED <<tables, lockedBy, take, make, level, inputs, outputs, seen>>

\* bulk_update: one CASE whose first branch for a row counts, inputs before outputs.
Written(w, r) ==
  LET before == Scale * seen[w][r]
  IN IF r \in inputs[w] THEN Rounded(before - take[w][rowOf[r]])
     ELSE IF r \in outputs[w] THEN Rounded(before + make[w][rowOf[r]])
     ELSE volume[r]

\* Outputs for which no Balance object was loaded.
Unopened(w) == {c \in Positive(make[w]) : \A r \in outputs[w] : rowOf[r] # c}

\* Mutant: bulk_create of the balances is missing.
OpenNothing(w) ==
  /\ UNCHANGED rowOf
  /\ volume' = [r \in Rows |-> Written(w, r)]

\* bulk_update of the balances found, bulk_create of the others.
WriteBalances(w) ==
  \E new \in [Unopened(w) -> FreeRows] :
    /\ IsInjective(new)
    /\ rowOf' = [r \in Rows |->
         IF r \in Range(new) THEN CHOOSE c \in Unopened(w) : new[c] = r ELSE rowOf[r]]
    /\ volume' = [r \in Rows |->
         IF r \in Range(new) THEN Rounded(make[w][rowOf'[r]]) ELSE Written(w, r)]

\* One transaction for each input, its volume negative, and for each output.
Entry(w, c) ==
  (IF make[w][c] > 0 THEN Rounded(make[w][c]) ELSE 0)
    - (IF take[w][c] > 0 THEN Rounded(take[w][c]) ELSE 0)

ConvertCommit(w) ==
  /\ pc[w] = "lock_outputs" /\ want[w] = {}
  /\ WriteBalances(w)
  /\ ledger' = [c \in Commodities |-> ledger[c] + Entry(w, c)]
  /\ levels' = [c \in Commodities |->
       IF make[w][c] > 0 THEN levels[c] \cup {level[w]} ELSE levels[c]]
  /\ Leave(w)

-----------------------------------------------------------------------------
\* Trades of the user, as Trading shows them, in one step each: the row they
\* lock is free, there is at most one, and they commit before another can run.
TradableRows(c) ==
  {r \in Rows : \/ /\ RowsOf({c}) = {r}
                  /\ lockedBy[r] = NoRequest
               \/ /\ RowsOf({c}) = {}
                  /\ r \in FreeRows}

Buy(c, v, l) ==
  /\ ledger[c] + v <= MaxStock /\ Undisturbed({c})
  /\ \E r \in TradableRows(c) : /\ rowOf' = [rowOf EXCEPT ![r] = c]
                               /\ volume' = [volume EXCEPT ![r] = @ + v]
  /\ ledger' = [ledger EXCEPT ![c] = @ + v]
  /\ levels' = [levels EXCEPT ![c] = @ \cup {l}]
  /\ UNCHANGED <<lockedBy, locals>>

\* A sale that the balance does not cover buys the rest without traceability.
Sell(c, v) ==
  \E r \in TradableRows(c) :
    LET short == IF v > volume[r] THEN v - volume[r] ELSE 0
    IN /\ short > 0 => Undisturbed({c})
       /\ rowOf' = [rowOf EXCEPT ![r] = c]
       /\ volume' = [volume EXCEPT ![r] = @ + short - v]
       /\ ledger' = [ledger EXCEPT ![c] = @ + short - v]
       /\ levels' = [levels EXCEPT ![c] = IF short > 0 THEN @ \cup {Incomplete} ELSE @]
       /\ UNCHANGED <<lockedBy, locals>>

-----------------------------------------------------------------------------
\* Conversions lock their rows in any order: PostgreSQL cancels a member of a
\* cycle of requests that wait for each other.
WaitsFor(w, x) == \E r \in want[w] : lockedBy[r] = x /\ x # w

DeadlockVictim(w) ==
  /\ \E S \in SUBSET Requests :
       w \in S /\ \A x \in S : /\ \E y \in S : WaitsFor(x, y)
                             /\ \E y \in S : WaitsFor(y, x)
  /\ Rollback(w)

\* The worker process is killed, at any step.
WorkerDies(w) == pc[w] # "idle" /\ Rollback(w)

Convert(w) ==
  \/ \E recipe \in Recipes :
       \E t \in Amounts(recipe.inputs), m \in Amounts(recipe.outputs) :
         ConvertRead(w, recipe, t, m)
  \/ AskInputs(w) \/ Refuse(w) \/ AskOutputs(w) \/ ConvertCommit(w)
  \/ \E r \in Rows : LockOne(w, r)
  \/ DeadlockVictim(w) \/ WorkerDies(w)

Trade ==
  \E c \in Traded, v \in Volumes : Sell(c, v) \/ \E l \in Levels : Buy(c, v, l)

Next == Trade \/ \E w \in Requests : Convert(w)

Spec == Init /\ [][Next]_vars

-----------------------------------------------------------------------------
(* Properties *)

\* Every variable keeps its type: the balances and transactions of one user, and
\* what the requests hold.
TypeOK ==
  /\ rowOf \in [Rows -> Commodities \cup {NoCommodity}]
  /\ volume \in [Rows -> Int] /\ ledger \in [Commodities -> Int]
  /\ lockedBy \in [Rows -> Requests \cup {NoRequest}]
  /\ levels \in [Commodities -> SUBSET (1..4)]
  /\ pc \in [Requests -> Steps]
  /\ take \in [Requests -> [Commodities -> Int]] /\ make \in [Requests -> [Commodities -> Int]]
  /\ level \in [Requests -> 1..4]
  /\ want \in [Requests -> SUBSET Rows]
  /\ inputs \in [Requests -> SUBSET Rows] /\ outputs \in [Requests -> SUBSET Rows]
  /\ seen \in [Requests -> [Rows -> Int]]

\* A conversion never overdraws a balance, although others spend from it between
\* the request and its locks: _process_conversion_inputs compares after locking.
BalancesNeverNegative == \A r \in Rows : volume[r] >= 0

\* What the user holds of a commodity, over all its rows.
Balance(c) == SumFunctionOnSet(volume, RowsOf({c}))

\* The balance a user sees of a commodity is what the transactions add up to, with
\* conversions and trades of the same commodities at the same time, and also after
\* two of them have opened a row each for one commodity.
LedgerAgrees == \A c \in Commodities : Balance(c) = ledger[c]

\* A conversion hands on the worst traceability of what goes in, and what it writes
\* is still the worst at the moment it writes.
LevelIsWorstInput ==
  \A w \in Requests :
    pc[w] = "lock_outputs" =>
      LET bought == UNION {levels[c] : c \in Positive(take[w])}
      IN /\ level[w] \in bought \cup {Incomplete}
         /\ \A l \in bought : level[w] <= l

\* The stock behind the rows.
Ideal == INSTANCE Stock WITH
  stock <- [c \in Commodities |-> Balance(c)], known <- levels

\* A conversion takes effect at one moment, its commit, with the volumes its
\* transactions record: reading the recipe and the traceability before the
\* transaction and locking rows one by one are invisible.
ImplementsStock == Ideal!Spec

=============================================================================
