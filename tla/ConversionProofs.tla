-------------------------- MODULE ConversionProofs --------------------------
(***************************************************************************)
(* What Conversion guarantees for any number of commodities, recipes, rows    *)
(* and workers, and for any quantities, positive or not.                     *)
(***************************************************************************)
EXTENDS Conversion, SumTheorems, TLAPS

\* A dictionary of Balance objects has one for a commodity.
OneEach(rows) == \A r, s \in rows : rowOf[r] = rowOf[s] => r = s

\* What a request has in hand at each of its steps.
InHand(w) ==
  /\ pc[w] \in {"idle", "ask"} => inputs[w] = {} /\ outputs[w] = {} /\ want[w] = {}
  /\ pc[w] = "lock_inputs" => /\ outputs[w] = {}
                              /\ \A r \in want[w] : rowOf[r] \in Positive(take[w])
  /\ pc[w] = "lock_outputs" => /\ Sufficient(w)
                               /\ \A r \in want[w] : rowOf[r] \in Positive(make[w])
  /\ \A r \in inputs[w] : rowOf[r] \in Positive(take[w])
  /\ \A r \in outputs[w] : rowOf[r] \in Positive(make[w])
  /\ OneEach(inputs[w]) /\ OneEach(outputs[w])

\* The rows behind its objects are locked, and still as they were loaded.
Current(w) ==
  \A r \in inputs[w] \cup outputs[w] : lockedBy[r] = w /\ volume[r] = seen[w][r]

Sound ==
  /\ TypeOK /\ BalancesNeverNegative
  /\ \A w \in Requests : InHand(w) /\ Current(w)

-----------------------------------------------------------------------------
\* Rounding to hundredths keeps a volume a volume.
LEMMA RoundedInt == ASSUME NEW x \in Int PROVE Rounded(x) \in Int
  <1>1. Scale \in Nat /\ Scale > 0
    BY QuantityAssumption
  <1> QED BY <1>1 DEF Rounded

LEMMA RoundedNat == ASSUME NEW x \in Int, x >= 0 PROVE Rounded(x) >= 0
  <1>1. Scale \in Nat /\ Scale > 0
    BY QuantityAssumption
  <1> QED BY <1>1 DEF Rounded

\* The traceability of a conversion is one of the four levels, and the worst of
\* those it was computed from.
LEMMA WorstLevel ==
  ASSUME TypeOK, NEW cs \in SUBSET Commodities
  PROVE  LET found == UNION {levels[c] : c \in cs}
         IN /\ ConversionTraceability(cs) \in found \cup {Incomplete}
            /\ \A l \in found : ConversionTraceability(cs) <= l
            /\ ConversionTraceability(cs) \in 1..4
            /\ found \subseteq 1..4
  <1> DEFINE found == UNION {levels[c] : c \in cs}
  <1>1. found \subseteq 1..4
    BY DEF TypeOK
  <1>2. CASE found = {}
    BY <1>2 DEF ConversionTraceability, Incomplete
  <1>3. CASE found # {}
    <2>1. \E x \in found : \A y \in found : x =< y
      <3> HIDE DEF found
      <3>1. \A x \in found : x \in {1, 2, 3, 4}
        BY <1>1
      <3>2. CASE 1 \in found
        BY <3>1, <3>2
      <3>3. CASE 1 \notin found /\ 2 \in found
        BY <3>1, <3>3
      <3>4. CASE 1 \notin found /\ 2 \notin found /\ 3 \in found
        BY <3>1, <3>4
      <3>5. CASE 1 \notin found /\ 2 \notin found /\ 3 \notin found
        <4>1. found = {4}
          BY <3>1, <3>5, <1>3
        <4> QED BY <4>1
      <3> QED BY <3>2, <3>3, <3>4, <3>5
    <2>2. Min(found) \in found /\ \A y \in found : Min(found) <= y
      BY <2>1 DEF Min
    <2>3. ConversionTraceability(cs) = Min(found)
      BY <1>3 DEF ConversionTraceability
    <2> QED BY <1>1, <2>2, <2>3
  <1> QED BY <1>2, <1>3

LEMMA LevelFound ==
  ASSUME TypeOK, NEW cs \in SUBSET Commodities
  PROVE  ConversionTraceability(cs) \in 1..4
  BY WorstLevel

-----------------------------------------------------------------------------
LEMMA InitSound == Init => Sound
  <1> SUFFICES ASSUME Init PROVE Sound
    OBVIOUS
  <1>1. TypeOK
    BY QuantityAssumption DEF Init, TypeOK, Nothing, Incomplete, Steps
  <1>2. BalancesNeverNegative
    BY DEF Init, BalancesNeverNegative
  <1>3. \A w \in Requests : InHand(w) /\ Current(w)
    BY DEF Init, InHand, Current, OneEach
  <1> QED BY <1>1, <1>2, <1>3 DEF Sound

\* The types of what requests keep to themselves, and of the locks.
LocalTypes ==
  /\ lockedBy \in [Rows -> Requests \cup {NoRequest}]
  /\ pc \in [Requests -> Steps]
  /\ take \in [Requests -> [Commodities -> Int]] /\ make \in [Requests -> [Commodities -> Int]]
  /\ level \in [Requests -> 1..4]
  /\ want \in [Requests -> SUBSET Rows]
  /\ inputs \in [Requests -> SUBSET Rows] /\ outputs \in [Requests -> SUBSET Rows]
  /\ seen \in [Requests -> [Rows -> Int]]

\* What the other requests have in hand does not change.
Untouched(x) ==
  /\ pc'[x] = pc[x] /\ take'[x] = take[x] /\ make'[x] = make[x]
  /\ want'[x] = want[x] /\ inputs'[x] = inputs[x] /\ outputs'[x] = outputs[x]
  /\ seen'[x] = seen[x]

LEMMA LeaveLocals ==
  ASSUME Sound, NEW w \in Requests, Leave(w)
  PROVE  /\ LocalTypes'
         /\ InHand(w)' /\ Current(w)'
         /\ \A x \in Requests \ {w} : Untouched(x)
         /\ \A r \in Rows : lockedBy[r] # w => lockedBy'[r] = lockedBy[r]
  <1>1. LocalTypes
    BY DEF Sound, TypeOK, LocalTypes
  <1>2. LocalTypes'
    BY <1>1 DEF Leave, LocalTypes, Nothing, Incomplete, Steps
  <1>3. pc'[w] = "idle" /\ inputs'[w] = {} /\ outputs'[w] = {} /\ want'[w] = {}
    BY <1>1 DEF Leave, LocalTypes
  <1>4. InHand(w)' /\ Current(w)'
    BY <1>3 DEF InHand, Current, OneEach
  <1>5. \A x \in Requests \ {w} : Untouched(x)
    BY <1>1 DEF Leave, LocalTypes, Untouched
  <1>6. \A r \in Rows : lockedBy[r] # w => lockedBy'[r] = lockedBy[r]
    BY <1>1 DEF Leave, LocalTypes
  <1> QED BY <1>2, <1>4, <1>5, <1>6

\* A request that does not move keeps its hold as long as nobody writes its rows.
LEMMA OthersKeep ==
  ASSUME Sound, NEW x \in Requests, Untouched(x),
         \A r \in Rows : rowOf[r] \in Commodities => rowOf'[r] = rowOf[r],
         \A r \in inputs[x] \cup outputs[x] : lockedBy'[r] = x /\ volume'[r] = volume[r]
  PROVE  InHand(x)' /\ Current(x)'
  <1>1. InHand(x) /\ Current(x) /\ TypeOK
    BY DEF Sound
  <1>2. \A r \in Rows : r \in want[x] \cup inputs[x] \cup outputs[x] => rowOf'[r] = rowOf[r]
    BY <1>1 DEF InHand, Positive, TypeOK, Steps
  <1>3. want[x] \subseteq Rows /\ inputs[x] \subseteq Rows /\ outputs[x] \subseteq Rows
    BY <1>1 DEF TypeOK
  <1>4. Positive(take[x])' = Positive(take[x]) /\ Positive(make[x])' = Positive(make[x])
    BY DEF Positive, Untouched
  <1>5. Sufficient(x) => Sufficient(x)'
    BY <1>2, <1>3, <1>4 DEF Sufficient, Untouched
  <1>6. OneEach(inputs[x])' /\ OneEach(outputs[x])'
    BY <1>1, <1>2, <1>3 DEF InHand, OneEach, Untouched
  <1>7. InHand(x)'
    BY <1>1, <1>2, <1>3, <1>4, <1>5, <1>6 DEF InHand, Untouched
  <1>8. Current(x)'
    BY <1>1 DEF Current, Untouched
  <1> QED BY <1>7, <1>8

LEMMA RollbackSound ==
  ASSUME Sound, NEW w \in Requests, Rollback(w)
  PROVE  Sound'
  <1>1. Leave(w) /\ UNCHANGED tables
    BY DEF Rollback
  <1>2. TypeOK /\ BalancesNeverNegative
    BY DEF Sound
  <1>3. TypeOK'
    BY <1>1, <1>2, LeaveLocals DEF TypeOK, LocalTypes, tables
  <1>4. BalancesNeverNegative'
    BY <1>1, <1>2 DEF BalancesNeverNegative, tables
  <1>5. ASSUME NEW x \in Requests
        PROVE  InHand(x)' /\ Current(x)'
    <2>1. CASE x = w
      BY <1>1, <2>1, LeaveLocals
    <2>2. CASE x # w
      <3>1. Untouched(x)
        BY <1>1, <2>2, LeaveLocals
      <3>2. Current(x) /\ inputs[x] \subseteq Rows /\ outputs[x] \subseteq Rows
        BY DEF Sound, TypeOK
      <3>3. \A r \in inputs[x] \cup outputs[x] : lockedBy'[r] = x /\ volume'[r] = volume[r]
        BY <1>1, <2>2, <3>2, LeaveLocals DEF Current, tables
      <3> QED BY <1>1, <3>1, <3>3, OthersKeep DEF tables
    <2> QED BY <2>1, <2>2
  <1> QED BY <1>3, <1>4, <1>5 DEF Sound

-----------------------------------------------------------------------------
(* A step of one request that writes no table. *)

\* Nothing the others hold moves when w only asks, reads or locks.
LEMMA QuietStep ==
  ASSUME Sound, NEW w \in Requests, UNCHANGED tables,
         LocalTypes', InHand(w)', Current(w)',
         \A x \in Requests \ {w} : Untouched(x),
         \A r \in Rows : lockedBy[r] \in Requests \ {w} => lockedBy'[r] = lockedBy[r]
  PROVE  Sound'
  <1>1. TypeOK /\ BalancesNeverNegative
    BY DEF Sound
  <1>2. TypeOK' /\ BalancesNeverNegative'
    BY <1>1 DEF TypeOK, LocalTypes, BalancesNeverNegative, tables
  <1>3. ASSUME NEW x \in Requests \ {w}
        PROVE  InHand(x)' /\ Current(x)'
    <2>1. Current(x) /\ inputs[x] \subseteq Rows /\ outputs[x] \subseteq Rows
      BY DEF Sound, TypeOK
    <2>2. \A r \in inputs[x] \cup outputs[x] : lockedBy'[r] = x /\ volume'[r] = volume[r]
      BY <2>1 DEF Current, tables
    <2> QED BY <2>2, OthersKeep DEF tables
  <1> QED BY <1>2, <1>3 DEF Sound

LEMMA ConvertReadSound ==
  ASSUME Sound, NEW w \in Requests, NEW recipe \in Recipes,
         NEW t \in Amounts(recipe.inputs), NEW m \in Amounts(recipe.outputs),
         ConvertRead(w, recipe, t, m)
  PROVE  Sound'
  <1>1. LocalTypes /\ TypeOK /\ InHand(w)
    BY DEF Sound, TypeOK, LocalTypes
  <1>2. t \in [Commodities -> Int] /\ m \in [Commodities -> Int]
    <2>1. Quantities \cup {0} \subseteq Int
      BY QuantityAssumption
    <2>2. \A q \in [Commodities -> Quantities \cup {0}] : q \in [Commodities -> Int]
      BY <2>1
    <2>3. t \in [Commodities -> Quantities \cup {0}] /\ m \in [Commodities -> Quantities \cup {0}]
      BY DEF Amounts
    <2> QED BY <2>2, <2>3
  <1>3. ConversionTraceability(Positive(t)) \in 1..4
    BY <1>1, LevelFound DEF Positive
  <1>4. LocalTypes'
    BY <1>1, <1>2, <1>3 DEF ConvertRead, LocalTypes, Steps
  <1>5. /\ pc'[w] = "ask" /\ inputs'[w] = {} /\ outputs'[w] = {} /\ want'[w] = {}
    BY <1>1 DEF ConvertRead, LocalTypes, InHand
  <1>6. InHand(w)' /\ Current(w)'
    BY <1>5 DEF InHand, Current, OneEach
  <1>7. \A x \in Requests \ {w} : Untouched(x)
    BY <1>1 DEF ConvertRead, LocalTypes, Untouched
  <1>8. UNCHANGED tables /\ lockedBy' = lockedBy
    BY DEF ConvertRead
  <1> QED BY <1>4, <1>6, <1>7, <1>8, QuietStep

LEMMA AskInputsSound ==
  ASSUME Sound, NEW w \in Requests, AskInputs(w)
  PROVE  Sound'
  <1>1. LocalTypes /\ InHand(w)
    BY DEF Sound, TypeOK, LocalTypes
  <1>2. RowsOf(Positive(take[w])) \in SUBSET Rows
    BY DEF RowsOf
  <1>3. LocalTypes'
    BY <1>1, <1>2 DEF AskInputs, LocalTypes, Steps
  <1>4. /\ pc'[w] = "lock_inputs" /\ inputs'[w] = {} /\ outputs'[w] = {}
        /\ want'[w] = RowsOf(Positive(take[w])) /\ take' = take /\ rowOf' = rowOf
    BY <1>1 DEF AskInputs, LocalTypes, InHand, tables
  <1>5. Positive(take[w])' = Positive(take[w])
    BY <1>4 DEF Positive
  <1>6. InHand(w)' /\ Current(w)'
    BY <1>4, <1>5 DEF InHand, Current, OneEach, RowsOf
  <1>7. \A x \in Requests \ {w} : Untouched(x)
    BY <1>1 DEF AskInputs, LocalTypes, Untouched
  <1>8. UNCHANGED tables /\ lockedBy' = lockedBy
    BY DEF AskInputs
  <1> QED BY <1>3, <1>6, <1>7, <1>8, QuietStep

\* A row joins the dictionary in the place of another of its commodity.
LEMMA PickOne ==
  ASSUME NEW rows \in SUBSET Rows, NEW r \in Rows, OneEach(rows)
  PROVE  /\ OneEach(Pick(rows, r))
         /\ Pick(rows, r) \subseteq rows \cup {r}
  BY DEF OneEach, Pick

LEMMA LockOneSound ==
  ASSUME Sound, NEW w \in Requests, NEW r \in Rows, LockOne(w, r)
  PROVE  Sound'
  <1>1. LocalTypes /\ TypeOK /\ InHand(w) /\ Current(w)
    BY DEF Sound, TypeOK, LocalTypes
  <1>2. pc' = pc /\ take' = take /\ make' = make /\ UNCHANGED tables
    BY DEF LockOne
  <1>3. inputs[w] \subseteq Rows /\ outputs[w] \subseteq Rows /\ want[w] \subseteq Rows
    BY <1>1 DEF LocalTypes
  <1>4. \/ /\ pc[w] = "lock_inputs" /\ inputs' = [inputs EXCEPT ![w] = Pick(@, r)]
           /\ outputs' = outputs
        \/ /\ pc[w] = "lock_outputs" /\ outputs' = [outputs EXCEPT ![w] = Pick(@, r)]
           /\ inputs' = inputs
    BY DEF LockOne
  <1>5. \/ inputs'[w] = Pick(inputs[w], r) /\ outputs'[w] = outputs[w] /\ pc[w] = "lock_inputs"
        \/ outputs'[w] = Pick(outputs[w], r) /\ inputs'[w] = inputs[w] /\ pc[w] = "lock_outputs"
    BY <1>1, <1>4 DEF LocalTypes
  <1>6. Pick(inputs[w], r) \subseteq Rows /\ Pick(outputs[w], r) \subseteq Rows
    BY <1>3 DEF Pick
  <1>7. /\ lockedBy' = [lockedBy EXCEPT ![r] = w]
        /\ want' = [want EXCEPT ![w] = @ \ {r}]
        /\ seen' = [seen EXCEPT ![w][r] = volume[r]]
        /\ r \in want[w] /\ level' = level
    BY DEF LockOne
  <1>8. LocalTypes'
    <2>1. inputs' \in [Requests -> SUBSET Rows] /\ outputs' \in [Requests -> SUBSET Rows]
      <3> DEFINE new == Pick(inputs[w], r)
                 out == Pick(outputs[w], r)
      <3>1. new \in SUBSET Rows /\ out \in SUBSET Rows
        BY <1>6
      <3>2. \/ inputs' = [inputs EXCEPT ![w] = new] /\ outputs' = outputs
            \/ outputs' = [outputs EXCEPT ![w] = out] /\ inputs' = inputs
        BY <1>4
      <3> HIDE DEF new, out
      <3> QED BY <1>1, <3>1, <3>2 DEF LocalTypes
    <2>2. volume[r] \in Int
      BY <1>1 DEF TypeOK
    <2>3. seen' \in [Requests -> [Rows -> Int]]
      BY <1>1, <1>7, <2>2 DEF LocalTypes
    <2> QED BY <1>1, <1>2, <1>7, <2>1, <2>3 DEF LocalTypes
  <1>9. /\ seen'[w][r] = volume[r]
        /\ \A s \in Rows \ {r} : seen'[w][s] = seen[w][s]
        /\ want'[w] = want[w] \ {r}
        /\ lockedBy'[r] = w
        /\ \A s \in Rows \ {r} : lockedBy'[s] = lockedBy[s]
    BY <1>1, <1>7 DEF LocalTypes
  <1>10. InHand(w)'
    <2>1. Positive(take[w])' = Positive(take[w]) /\ Positive(make[w])' = Positive(make[w])
          /\ rowOf' = rowOf
      BY <1>2 DEF Positive, tables
    <2>2. OneEach(Pick(inputs[w], r)) /\ Pick(inputs[w], r) \subseteq inputs[w] \cup {r}
      BY <1>1, <1>3, PickOne DEF InHand
    <2>3. OneEach(Pick(outputs[w], r)) /\ Pick(outputs[w], r) \subseteq outputs[w] \cup {r}
      BY <1>1, <1>3, PickOne DEF InHand
    <2>4. OneEach(inputs[w])' /\ OneEach(outputs[w])'
      BY <1>1, <1>5, <2>1, <2>2, <2>3 DEF OneEach, InHand
    <2>5. CASE pc[w] = "lock_inputs"
      BY <1>1, <1>2, <1>5, <1>7, <1>9, <2>1, <2>2, <2>4, <2>5 DEF InHand
    <2>6. CASE pc[w] = "lock_outputs"
      <3>1. Sufficient(w)'
        <4>1. \A s \in inputs[w] : seen'[w][s] = seen[w][s]
          BY <1>1, <1>3, <1>9 DEF Current
        <4>2. Sufficient(w) /\ inputs'[w] = inputs[w]
          BY <1>1, <1>5, <2>6 DEF InHand
        <4> QED BY <1>2, <2>1, <4>1, <4>2 DEF Sufficient
      <3> QED BY <1>1, <1>2, <1>5, <1>7, <1>9, <2>1, <2>3, <2>4, <2>6, <3>1 DEF InHand
    <2> QED BY <1>5, <2>5, <2>6
  <1>11. Current(w)'
    <2>1. \A s \in inputs'[w] \cup outputs'[w] : s \in Rows /\ s \in inputs[w] \cup outputs[w] \cup {r}
      BY <1>3, <1>5 DEF Pick
    <2>2. volume' = volume
      BY <1>2 DEF tables
    <2> QED BY <1>1, <1>9, <2>1, <2>2 DEF Current
  <1>12. \A x \in Requests \ {w} : Untouched(x)
    BY <1>1, <1>2, <1>4, <1>7 DEF LocalTypes, Untouched
  <1>13. \A s \in Rows : lockedBy[s] \in Requests \ {w} => lockedBy'[s] = lockedBy[s]
    BY <1>9, NullAssumption DEF LockOne
  <1> QED BY <1>2, <1>8, <1>10, <1>11, <1>12, <1>13, QuietStep

LEMMA AskOutputsSound ==
  ASSUME Sound, NEW w \in Requests, AskOutputs(w)
  PROVE  Sound'
  <1>1. LocalTypes /\ InHand(w) /\ Current(w)
    BY DEF Sound, TypeOK, LocalTypes
  <1>2. RowsOf(Positive(make[w])) \in SUBSET Rows
    BY DEF RowsOf
  <1>3. LocalTypes'
    BY <1>1, <1>2 DEF AskOutputs, LocalTypes, Steps
  <1>4. /\ pc'[w] = "lock_outputs" /\ inputs' = inputs /\ outputs' = outputs /\ seen' = seen
        /\ want'[w] = RowsOf(Positive(make[w])) /\ take' = take /\ make' = make
        /\ rowOf' = rowOf /\ volume' = volume /\ lockedBy' = lockedBy
    BY <1>1 DEF AskOutputs, LocalTypes, tables
  <1>5. Positive(take[w])' = Positive(take[w]) /\ Positive(make[w])' = Positive(make[w])
    BY <1>4 DEF Positive
  <1>6. Sufficient(w)'
    BY <1>4, <1>5 DEF AskOutputs, Sufficient
  <1>7. InHand(w)'
    BY <1>1, <1>4, <1>5, <1>6 DEF InHand, OneEach, RowsOf
  <1>8. Current(w)'
    BY <1>1, <1>4 DEF Current
  <1>9. \A x \in Requests \ {w} : Untouched(x)
    BY <1>1 DEF AskOutputs, LocalTypes, Untouched
  <1>10. UNCHANGED tables
    BY DEF AskOutputs
  <1> QED BY <1>3, <1>4, <1>7, <1>8, <1>9, <1>10, QuietStep

-----------------------------------------------------------------------------
(* The steps that write tables. *)

\* What a conversion writes to the rows that exist is not negative: an input that
\* covers the quantity keeps the rest, an output grows.
LEMMA WrittenNat ==
  ASSUME Sound, NEW w \in Requests, pc[w] = "lock_outputs", NEW r \in Rows
  PROVE  Written(w, r) \in Int /\ Written(w, r) >= 0
  <1>1. TypeOK /\ BalancesNeverNegative /\ InHand(w) /\ Current(w)
    BY DEF Sound
  <1>2. volume[r] \in Int /\ volume[r] >= 0 /\ seen[w][r] \in Int /\ Scale \in Int
    BY <1>1, QuantityAssumption DEF TypeOK, BalancesNeverNegative
  <1>3. inputs[w] \subseteq Rows
    BY <1>1 DEF TypeOK
  <1> DEFINE before == Scale * seen[w][r]
  <1>4. before \in Int
    BY <1>2
  <1>5. CASE r \in inputs[w]
    <2>1. rowOf[r] \in Commodities /\ take[w][rowOf[r]] \in Int
      BY <1>1, <1>5 DEF InHand, Positive, TypeOK
    <2>2. PICK s \in inputs[w] : rowOf[s] = rowOf[r] /\ Scale * seen[w][s] >= take[w][rowOf[r]]
      BY <1>1, <1>5 DEF InHand, Sufficient
    <2>3. s = r
      BY <1>1, <1>5, <2>2 DEF InHand, OneEach
    <2>4. before - take[w][rowOf[r]] \in Int /\ before - take[w][rowOf[r]] >= 0
      <3>1. before >= take[w][rowOf[r]]
        BY <2>2, <2>3
      <3> HIDE DEF before
      <3> QED BY <1>4, <2>1, <3>1
    <2>5. Written(w, r) = Rounded(before - take[w][rowOf[r]])
      BY <1>5 DEF Written
    <2> HIDE DEF before
    <2> QED BY <2>4, <2>5, RoundedInt, RoundedNat
  <1>6. CASE r \notin inputs[w] /\ r \in outputs[w]
    <2>1. make[w][rowOf[r]] \in Int /\ make[w][rowOf[r]] > 0
      BY <1>1, <1>6 DEF InHand, Positive, TypeOK
    <2>2. seen[w][r] >= 0
      BY <1>1, <1>2, <1>6 DEF Current
    <2>3. before >= 0
      <3>1. Scale \in Nat /\ seen[w][r] \in Nat
        BY <1>2, <2>2, QuantityAssumption
      <3>2. \A a, b \in Nat : a * b \in Nat
        OBVIOUS
      <3> QED BY <3>1, <3>2
    <2>4. Written(w, r) = Rounded(before + make[w][rowOf[r]])
      BY <1>6 DEF Written
    <2> HIDE DEF before
    <2>5. before + make[w][rowOf[r]] \in Int /\ before + make[w][rowOf[r]] >= 0
      BY <1>4, <2>1, <2>3
    <2> QED BY <2>4, <2>5, RoundedInt, RoundedNat
  <1>7. CASE r \notin inputs[w] /\ r \notin outputs[w]
    BY <1>2, <1>7 DEF Written
  <1> QED BY <1>5, <1>6, <1>7

LEMMA ConvertCommitSound ==
  ASSUME Sound, NEW w \in Requests, ConvertCommit(w)
  PROVE  Sound'
  <1>1. TypeOK /\ BalancesNeverNegative /\ LocalTypes
    BY DEF Sound, TypeOK, LocalTypes
  <1>2. pc[w] = "lock_outputs" /\ Leave(w)
    BY DEF ConvertCommit
  <1>3. PICK new \in [Unopened(w) -> FreeRows] :
          /\ rowOf' = [r \in Rows |->
               IF r \in Range(new) THEN CHOOSE c \in Unopened(w) : new[c] = r ELSE rowOf[r]]
          /\ volume' = [r \in Rows |->
               IF r \in Range(new) THEN Rounded(make[w][rowOf'[r]]) ELSE Written(w, r)]
    BY DEF ConvertCommit, WriteBalances
  <1>4. \A r \in Rows : r \in Range(new) =>
          rowOf[r] = NoCommodity /\ rowOf'[r] \in Commodities /\ make[w][rowOf'[r]] > 0
    <2> SUFFICES ASSUME NEW r \in Rows, r \in Range(new)
                 PROVE  rowOf[r] = NoCommodity /\ rowOf'[r] \in Commodities /\ make[w][rowOf'[r]] > 0
      OBVIOUS
    <2>1. PICK c \in Unopened(w) : new[c] = r
      BY <1>3 DEF Range
    <2>2. r \in FreeRows
      BY <1>3, <2>1
    <2>3. rowOf'[r] = CHOOSE d \in Unopened(w) : new[d] = r
      BY <1>3
    <2>4. rowOf'[r] \in Unopened(w)
      BY <2>1, <2>3
    <2> QED BY <2>2, <2>4 DEF FreeRows, RowsOf, Unopened, Positive
  <1>5. \A r \in Rows : rowOf'[r] \in Commodities \cup {NoCommodity}
    BY <1>1, <1>3, <1>4 DEF TypeOK
  <1>6. \A r \in Rows : volume'[r] \in Int /\ volume'[r] >= 0
    <2> SUFFICES ASSUME NEW r \in Rows
                 PROVE  volume'[r] \in Int /\ volume'[r] >= 0
      OBVIOUS
    <2>1. CASE r \in Range(new)
      <3>1. make[w][rowOf'[r]] \in Int /\ make[w][rowOf'[r]] >= 0
        BY <1>1, <1>4, <2>1 DEF LocalTypes
      <3> QED BY <1>3, <2>1, <3>1, RoundedInt, RoundedNat
    <2>2. CASE r \notin Range(new)
      BY <1>2, <1>3, <2>2, WrittenNat
    <2> QED BY <2>1, <2>2
  <1>7. ledger' \in [Commodities -> Int]
    <2>1. \A c \in Commodities : Entry(w, c) \in Int
      <3> SUFFICES ASSUME NEW c \in Commodities PROVE Entry(w, c) \in Int
        OBVIOUS
      <3>1. make[w][c] \in Int /\ take[w][c] \in Int
        BY <1>1 DEF LocalTypes
      <3>2. Rounded(make[w][c]) \in Int /\ Rounded(take[w][c]) \in Int
        BY <3>1, RoundedInt
      <3> QED BY <3>2 DEF Entry
    <2>2. \A c \in Commodities : ledger[c] + Entry(w, c) \in Int
      BY <1>1, <2>1 DEF TypeOK
    <2> QED BY <2>2 DEF ConvertCommit
  <1>8. levels' \in [Commodities -> SUBSET (1..4)]
    BY <1>1 DEF ConvertCommit, TypeOK
  <1>9. TypeOK'
    <2>1. rowOf' \in [Rows -> Commodities \cup {NoCommodity}] /\ volume' \in [Rows -> Int]
      BY <1>3, <1>5, <1>6
    <2>2. LocalTypes'
      BY <1>2, LeaveLocals
    <2> QED BY <1>7, <1>8, <2>1, <2>2 DEF TypeOK, LocalTypes
  <1>10. BalancesNeverNegative'
    BY <1>6 DEF BalancesNeverNegative
  <1>11. ASSUME NEW x \in Requests
         PROVE  InHand(x)' /\ Current(x)'
    <2>1. CASE x = w
      BY <1>2, <2>1, LeaveLocals
    <2>2. CASE x # w
      <3>1. Untouched(x)
        BY <1>2, <2>2, LeaveLocals
      <3>2. InHand(x) /\ Current(x) /\ Current(w)
        BY DEF Sound
      <3>3. \A r \in Rows : rowOf[r] \in Commodities => r \notin Range(new)
        BY <1>4, NullAssumption
      <3>4. \A r \in Rows : rowOf[r] \in Commodities => rowOf'[r] = rowOf[r]
        BY <1>3, <3>3
      <3>5. ASSUME NEW r \in inputs[x] \cup outputs[x]
            PROVE  lockedBy'[r] = x /\ volume'[r] = volume[r]
        <4>1. r \in Rows /\ rowOf[r] \in Commodities /\ lockedBy[r] = x
          BY <1>1, <3>2 DEF InHand, Positive, TypeOK, Current
        <4>2. lockedBy'[r] = x
          BY <1>2, <2>2, <4>1, LeaveLocals
        <4>3. r \notin inputs[w] /\ r \notin outputs[w]
          BY <2>2, <3>2, <4>1 DEF Current
        <4>4. volume'[r] = volume[r]
          BY <1>3, <3>3, <4>1, <4>3 DEF Written
        <4> QED BY <4>2, <4>4
      <3> QED BY <3>1, <3>4, <3>5, OthersKeep
    <2> QED BY <2>1, <2>2
  <1> QED BY <1>9, <1>10, <1>11 DEF Sound

\* A trade writes one row that no conversion has locked.
LEMMA TradeStep ==
  ASSUME Sound, NEW c \in Commodities, NEW r \in TradableRows(c), NEW v \in Int, v >= 0,
         rowOf' = [rowOf EXCEPT ![r] = c], volume' = [volume EXCEPT ![r] = v],
         ledger' \in [Commodities -> Int], levels' \in [Commodities -> SUBSET (1..4)],
         UNCHANGED <<lockedBy, locals>>
  PROVE  Sound'
  <1>1. TypeOK /\ BalancesNeverNegative
    BY DEF Sound
  <1>2. r \in Rows
    BY DEF TradableRows
  <1>3. \/ rowOf[r] = c /\ lockedBy[r] = NoRequest
        \/ rowOf[r] = NoCommodity
    BY DEF TradableRows, RowsOf, FreeRows
  <1>4. TypeOK'
    BY <1>1, <1>2 DEF TypeOK, locals
  <1>5. BalancesNeverNegative'
    BY <1>1, <1>2 DEF BalancesNeverNegative, TypeOK
  <1>6. ASSUME NEW x \in Requests
        PROVE  InHand(x)' /\ Current(x)'
    <2>1. Untouched(x)
      BY DEF Untouched, locals
    <2>2. \A s \in Rows : rowOf[s] \in Commodities => rowOf'[s] = rowOf[s]
      BY <1>1, <1>2, <1>3, NullAssumption DEF TypeOK
    <2>3. InHand(x) /\ Current(x)
      BY DEF Sound
    <2>4. ASSUME NEW s \in inputs[x] \cup outputs[x]
          PROVE  lockedBy'[s] = x /\ volume'[s] = volume[s]
      <3>1. s \in Rows /\ rowOf[s] \in Commodities /\ lockedBy[s] = x
        BY <1>1, <2>3 DEF InHand, Positive, TypeOK, Current
      <3>2. s # r
        BY <1>3, <3>1, NullAssumption
      <3> QED BY <1>1, <1>2, <3>1, <3>2 DEF TypeOK
    <2> QED BY <2>1, <2>2, <2>4, OthersKeep
  <1> QED BY <1>4, <1>5, <1>6 DEF Sound

LEMMA BuySound ==
  ASSUME Sound, NEW c \in Traded, NEW v \in Volumes, NEW l \in Levels, Buy(c, v, l)
  PROVE  Sound'
  <1>1. TypeOK /\ BalancesNeverNegative
    BY DEF Sound
  <1>2. c \in Commodities /\ v \in Nat /\ l \in 1..4
    BY LevelAssumption, QuantityAssumption
  <1>3. PICK r \in TradableRows(c) : rowOf' = [rowOf EXCEPT ![r] = c]
                                     /\ volume' = [volume EXCEPT ![r] = @ + v]
    BY DEF Buy
  <1>4. volume[r] \in Int /\ volume[r] >= 0 /\ r \in Rows
    BY <1>1 DEF TypeOK, BalancesNeverNegative, TradableRows
  <1>5. volume' = [volume EXCEPT ![r] = volume[r] + v]
    BY <1>3
  <1>6. volume[r] + v \in Int /\ volume[r] + v >= 0
    BY <1>2, <1>4
  <1>7. ledger' \in [Commodities -> Int] /\ levels' \in [Commodities -> SUBSET (1..4)]
    <2>1. ledger' = [ledger EXCEPT ![c] = @ + v] /\ levels' = [levels EXCEPT ![c] = @ \cup {l}]
      BY DEF Buy
    <2>2. ledger' \in [Commodities -> Int]
      BY <1>1, <1>2, <2>1 DEF TypeOK
    <2>3. levels' \in [Commodities -> SUBSET (1..4)]
      BY <1>1, <1>2, <2>1 DEF TypeOK
    <2> QED BY <2>2, <2>3
  <1>8. UNCHANGED <<lockedBy, locals>>
    BY DEF Buy
  <1> QED BY <1>2, <1>3, <1>5, <1>6, <1>7, <1>8, TradeStep

LEMMA SellSound ==
  ASSUME Sound, NEW c \in Traded, NEW v \in Volumes, Sell(c, v)
  PROVE  Sound'
  <1>1. TypeOK /\ BalancesNeverNegative
    BY DEF Sound
  <1>2. c \in Commodities /\ v \in Nat
    BY LevelAssumption, QuantityAssumption
  <1> DEFINE short(r) == IF v > volume[r] THEN v - volume[r] ELSE 0
  <1>3. PICK r \in TradableRows(c) :
          /\ rowOf' = [rowOf EXCEPT ![r] = c]
          /\ volume' = [volume EXCEPT ![r] = @ + short(r) - v]
          /\ ledger' = [ledger EXCEPT ![c] = @ + short(r) - v]
          /\ levels' = [levels EXCEPT ![c] = IF short(r) > 0 THEN @ \cup {Incomplete} ELSE @]
          /\ UNCHANGED <<lockedBy, locals>>
    BY DEF Sell
  <1>4. volume[r] \in Int /\ volume[r] >= 0 /\ r \in Rows
    BY <1>1 DEF TypeOK, BalancesNeverNegative, TradableRows
  <1>5. short(r) \in Int /\ volume[r] + short(r) - v \in Int /\ volume[r] + short(r) - v >= 0
    BY <1>2, <1>4
  <1>6. volume' = [volume EXCEPT ![r] = volume[r] + short(r) - v]
    BY <1>3
  <1>7. ledger' \in [Commodities -> Int] /\ levels' \in [Commodities -> SUBSET (1..4)]
    <2> DEFINE s == short(r)
    <2>1. s \in Int /\ ledger' = [ledger EXCEPT ![c] = @ + s - v]
          /\ levels' = [levels EXCEPT ![c] = IF s > 0 THEN @ \cup {Incomplete} ELSE @]
      BY <1>3, <1>5
    <2> HIDE DEF s
    <2>2. ledger' \in [Commodities -> Int]
      BY <1>1, <1>2, <2>1 DEF TypeOK
    <2>3. levels' \in [Commodities -> SUBSET (1..4)]
      BY <1>1, <1>2, <2>1 DEF TypeOK, Incomplete
    <2> QED BY <2>2, <2>3
  <1> HIDE DEF short
  <1> QED BY <1>2, <1>3, <1>5, <1>6, <1>7, TradeStep

LEMMA StutterSound == Sound /\ UNCHANGED vars => Sound'
  <1> SUFFICES ASSUME Sound, UNCHANGED vars PROVE Sound'
    OBVIOUS
  <1>1. UNCHANGED tables /\ UNCHANGED lockedBy /\ UNCHANGED locals
    BY DEF vars
  <1>2. TypeOK' /\ BalancesNeverNegative'
    BY <1>1 DEF Sound, TypeOK, BalancesNeverNegative, tables, locals
  <1>3. ASSUME NEW x \in Requests
        PROVE  InHand(x)' /\ Current(x)'
    <2>1. Untouched(x)
      BY <1>1 DEF Untouched, locals
    <2>2. \A r \in inputs[x] \cup outputs[x] : lockedBy'[r] = x /\ volume'[r] = volume[r]
      BY <1>1 DEF Sound, Current, tables
    <2> QED BY <1>1, <2>1, <2>2, OthersKeep DEF tables
  <1> QED BY <1>2, <1>3 DEF Sound

LEMMA NextSound == Sound /\ [Next]_vars => Sound'
  <1> SUFFICES ASSUME Sound, [Next]_vars PROVE Sound'
    OBVIOUS
  <1>1. CASE UNCHANGED vars
    BY <1>1, StutterSound
  <1>2. CASE Trade
    BY <1>2, BuySound, SellSound DEF Trade
  <1>3. ASSUME NEW w \in Requests, Convert(w)
        PROVE  Sound'
    <2>1. CASE \E recipe \in Recipes :
                 \E t \in Amounts(recipe.inputs), m \in Amounts(recipe.outputs) :
                   ConvertRead(w, recipe, t, m)
      BY <2>1, ConvertReadSound
    <2>2. CASE AskInputs(w)
      BY <2>2, AskInputsSound
    <2>3. CASE AskOutputs(w)
      BY <2>3, AskOutputsSound
    <2>4. CASE ConvertCommit(w)
      BY <2>4, ConvertCommitSound
    <2>5. CASE \E r \in Rows : LockOne(w, r)
      BY <2>5, LockOneSound
    <2>6. CASE Refuse(w) \/ DeadlockVictim(w) \/ WorkerDies(w)
      BY <2>6, RollbackSound DEF Refuse, DeadlockVictim, WorkerDies
    <2> QED BY <1>3, <2>1, <2>2, <2>3, <2>4, <2>5, <2>6 DEF Convert
  <1> QED BY <1>1, <1>2, <1>3 DEF Next

-----------------------------------------------------------------------------
(* The traceability that a conversion has read stays the worst of its inputs. *)

\* A request without a conversion takes and makes nothing.
AtRest(w) == pc[w] = "idle" => take[w] = Nothing /\ make[w] = Nothing

\* What w has read is what it would read now.
StillTrue(w) == pc[w] # "idle" => level[w] = ConversionTraceability(Positive(take[w]))

\* When x makes an input of w, then w has that input locked, and x, as soon as it
\* has asked for its outputs, waits for it.
Behind(w, x) ==
  \A c \in Positive(take[w]) \cap Positive(make[x]) :
    /\ pc[w] = "lock_outputs"
    /\ pc[x] = "lock_outputs" => \E r \in inputs[w] : rowOf[r] = c /\ r \in want[x]

Traced ==
  \A w \in Requests : /\ AtRest(w) /\ StillTrue(w)
                      /\ \A x \in Requests \ {w} : Behind(w, x)

LEMMA InitTraced == Init => Traced
  <1> SUFFICES ASSUME Init PROVE Traced
    OBVIOUS
  <1>1. ASSUME NEW w \in Requests
        PROVE  AtRest(w) /\ StillTrue(w) /\ \A x \in Requests \ {w} : Behind(w, x)
    <2>1. pc[w] = "idle" /\ take[w] = Nothing /\ make[w] = Nothing
      BY DEF Init
    <2>2. Positive(take[w]) = {}
      BY <2>1 DEF Positive, Nothing
    <2> QED BY <2>1, <2>2 DEF AtRest, StillTrue, Behind
  <1> QED BY <1>1 DEF Traced

LEMMA StillTrueKept ==
  ASSUME NEW w \in Requests, StillTrue(w), pc[w] # "idle",
         level'[w] = level[w], take'[w] = take[w],
         \A c \in Positive(take[w]) : levels'[c] = levels[c]
  PROVE  StillTrue(w)'
  <1>1. Positive(take[w])' = Positive(take[w])
    BY DEF Positive
  <1>2. UNION {levels'[c] : c \in Positive(take[w])} = UNION {levels[c] : c \in Positive(take[w])}
    OBVIOUS
  <1>3. ConversionTraceability(Positive(take[w]))' = ConversionTraceability(Positive(take[w]))
    BY <1>1, <1>2 DEF ConversionTraceability
  <1> QED BY <1>3 DEF StillTrue

\* A step keeps Traced when it leaves the others and the purchases of what they
\* take alone, and is itself in order with each of them.
LEMMA TracedStep ==
  ASSUME Sound, Traced, NEW w \in Requests,
         \A r \in Rows : rowOf[r] \in Commodities => rowOf'[r] = rowOf[r],
         \A x \in Requests \ {w} :
           /\ Untouched(x) /\ level'[x] = level[x]
           /\ \A c \in Positive(take[x]) : levels'[c] = levels[c]
           /\ Behind(w, x)' /\ Behind(x, w)',
         AtRest(w)', StillTrue(w)'
  PROVE  Traced'
  <1> SUFFICES ASSUME NEW y \in Requests
               PROVE  /\ AtRest(y)' /\ StillTrue(y)'
                      /\ \A x \in Requests \ {y} : Behind(y, x)'
    BY DEF Traced
  <1>1. CASE y = w
    BY <1>1
  <1>2. CASE y # w
    <2>1. Untouched(y) /\ level'[y] = level[y] /\ AtRest(y) /\ StillTrue(y)
      BY <1>2 DEF Traced
    <2>2. AtRest(y)'
      BY <2>1 DEF AtRest, Untouched, Nothing
    <2>3. StillTrue(y)'
      <3>1. CASE pc[y] = "idle"
        BY <2>1, <3>1 DEF StillTrue, Untouched
      <3>2. CASE pc[y] # "idle"
        BY <1>2, <2>1, <3>2, StillTrueKept DEF Untouched
      <3> QED BY <3>1, <3>2
    <2>4. ASSUME NEW x \in Requests \ {y}
          PROVE  Behind(y, x)'
      <3>1. CASE x = w
        BY <1>2, <3>1
      <3>2. CASE x # w
        <4>1. Untouched(x) /\ Behind(y, x)
          BY <3>2 DEF Traced
        <4>2. Positive(take[y])' = Positive(take[y]) /\ Positive(make[x])' = Positive(make[x])
          BY <2>1, <4>1 DEF Positive, Untouched
        <4>3. \A r \in inputs[y] : rowOf'[r] = rowOf[r]
          BY DEF Sound, InHand, Positive, TypeOK
        <4> QED BY <2>1, <4>1, <4>2, <4>3 DEF Behind, Untouched
      <3> QED BY <3>1, <3>2
    <2> QED BY <2>2, <2>3, <2>4
  <1> QED BY <1>1, <1>2

\* A request that leaves is in nobody's way.
LEMMA LeaveTraced ==
  ASSUME Sound, Traced, NEW w \in Requests, Leave(w),
         \A r \in Rows : rowOf[r] \in Commodities => rowOf'[r] = rowOf[r],
         \A x \in Requests \ {w} : \A c \in Positive(take[x]) : levels'[c] = levels[c]
  PROVE  Traced'
  <1>1. LocalTypes
    BY DEF Sound, TypeOK, LocalTypes
  <1>2. pc'[w] = "idle" /\ take'[w] = Nothing /\ make'[w] = Nothing
    BY <1>1 DEF Leave, LocalTypes
  <1>3. Positive(take[w])' = {} /\ Positive(make[w])' = {}
    BY <1>2 DEF Positive, Nothing
  <1>4. AtRest(w)' /\ StillTrue(w)'
    BY <1>2 DEF AtRest, StillTrue, Nothing
  <1>5. \A x \in Requests \ {w} : Behind(w, x)' /\ Behind(x, w)'
    BY <1>3 DEF Behind
  <1>6. \A x \in Requests \ {w} : Untouched(x) /\ level'[x] = level[x]
    BY <1>1, LeaveLocals DEF Leave, LocalTypes
  <1> QED BY <1>4, <1>5, <1>6, TracedStep

LEMMA RollbackTraced ==
  ASSUME Sound, Traced, NEW w \in Requests, Rollback(w)
  PROVE  Traced'
  BY LeaveTraced DEF Rollback, tables

\* A commit buys only what it makes, and it has locked all rows of that.
LEMMA ConvertCommitTraced ==
  ASSUME Sound, Traced, NEW w \in Requests, ConvertCommit(w)
  PROVE  Traced'
  <1>1. ASSUME NEW x \in Requests \ {w}, NEW c \in Positive(take[x])
        PROVE  levels'[c] = levels[c]
    <2>1. c \in Commodities /\ Behind(x, w)
      BY DEF Positive, Traced
    <2>2. c \notin Positive(make[w])
      BY <2>1 DEF Behind, ConvertCommit
    <2>3. ~(make[w][c] > 0)
      BY <2>1, <2>2 DEF Positive
    <2> QED BY <2>1, <2>3 DEF ConvertCommit
  <1>2. \A r \in Rows : rowOf[r] \in Commodities => rowOf'[r] = rowOf[r]
    <2>1. PICK new \in [Unopened(w) -> FreeRows] :
            rowOf' = [r \in Rows |->
              IF r \in Range(new) THEN CHOOSE c \in Unopened(w) : new[c] = r ELSE rowOf[r]]
      BY DEF ConvertCommit, WriteBalances
    <2>2. \A r \in Range(new) : rowOf[r] = NoCommodity
      BY <2>1 DEF Range, FreeRows, RowsOf
    <2> QED BY <2>1, <2>2, NullAssumption
  <1> QED BY <1>1, <1>2, LeaveTraced DEF ConvertCommit

LEMMA ConvertReadTraced ==
  ASSUME Sound, Traced, "purchase" \notin Races, NEW w \in Requests, NEW recipe \in Recipes,
         NEW t \in Amounts(recipe.inputs), NEW m \in Amounts(recipe.outputs),
         ConvertRead(w, recipe, t, m)
  PROVE  Traced'
  <1>1. LocalTypes
    BY DEF Sound, TypeOK, LocalTypes
  <1>2. /\ pc'[w] = "ask" /\ take'[w] = t /\ make'[w] = m /\ UNCHANGED tables
        /\ level'[w] = ConversionTraceability(Positive(t))
    BY <1>1 DEF ConvertRead, LocalTypes
  <1>3. \A x \in Requests \ {w} : Untouched(x) /\ level'[x] = level[x]
    BY <1>1 DEF ConvertRead, LocalTypes, Untouched
  <1>4. AtRest(w)'
    BY <1>2 DEF AtRest
  <1>5. StillTrue(w)'
    <2>1. Positive(take[w])' = Positive(t) /\ levels' = levels
      BY <1>2 DEF Positive, tables
    <2>2. ConversionTraceability(Positive(take[w]))' = ConversionTraceability(Positive(t))
      BY <2>1 DEF ConversionTraceability
    <2> QED BY <1>2, <2>2 DEF StillTrue
  <1>6. ASSUME NEW x \in Requests \ {w}
        PROVE  Behind(w, x)' /\ Behind(x, w)'
    <2>1. Positive(take[w])' = Positive(t) /\ Positive(make[w])' = Positive(m)
      BY <1>2 DEF Positive
    <2>2. Positive(take[x])' = Positive(take[x]) /\ Positive(make[x])' = Positive(make[x])
      BY <1>3 DEF Positive, Untouched
    <2>3. Positive(make[x]) \cap Positive(t) = {}
      BY DEF ConvertRead
    <2>4. ASSUME NEW c \in Positive(take[x]) \cap Positive(m)
          PROVE  pc[x] = "lock_outputs"
      <3>1. Positive(m) \cap Unlocked(x) = {}
        BY DEF ConvertRead, Undisturbed
      <3>2. pc[x] \notin {"ask", "lock_inputs"}
        BY <3>1 DEF Unlocked
      <3>3. pc[x] # "idle"
        BY DEF Traced, AtRest, Positive, Nothing
      <3> QED BY <1>1, <3>2, <3>3 DEF LocalTypes, Steps
    <2> QED BY <1>2, <1>3, <2>1, <2>2, <2>3, <2>4 DEF Behind, Untouched
  <1> QED BY <1>2, <1>3, <1>4, <1>5, <1>6, TracedStep DEF tables

\* The steps between reading and committing: w moves, its amounts stay.
LEMMA BetweenTraced ==
  ASSUME Sound, Traced, NEW w \in Requests, UNCHANGED tables, LocalTypes',
         take' = take, make' = make, level' = level,
         pc[w] # "idle", pc'[w] # "idle",
         \A x \in Requests \ {w} : Untouched(x) /\ Behind(w, x)' /\ Behind(x, w)'
  PROVE  Traced'
  <1>1. AtRest(w)'
    BY DEF AtRest
  <1>2. StillTrue(w)'
    BY StillTrueKept DEF Traced, tables
  <1> QED BY <1>1, <1>2, TracedStep DEF tables

LEMMA AskInputsTraced ==
  ASSUME Sound, Traced, NEW w \in Requests, AskInputs(w)
  PROVE  Traced'
  <1>1. LocalTypes /\ Sound'
    BY AskInputsSound DEF Sound, TypeOK, LocalTypes
  <1>2. \A x \in Requests \ {w} : Untouched(x)
    BY <1>1 DEF AskInputs, LocalTypes, Untouched
  <1>3. pc[w] = "ask" /\ pc'[w] = "lock_inputs"
    BY <1>1 DEF AskInputs, LocalTypes
  <1>4. ASSUME NEW x \in Requests \ {w}
        PROVE  Behind(w, x)' /\ Behind(x, w)'
    <2>1. /\ Positive(take[w])' = Positive(take[w]) /\ Positive(make[w])' = Positive(make[w])
          /\ Positive(take[x])' = Positive(take[x]) /\ Positive(make[x])' = Positive(make[x])
      BY DEF AskInputs, Positive
    <2>2. Behind(w, x) /\ Behind(x, w)
      BY DEF Traced
    <2> QED BY <1>2, <1>3, <2>1, <2>2 DEF Behind, Untouched
  <1> QED BY <1>1, <1>2, <1>3, <1>4, BetweenTraced DEF AskInputs, Sound, TypeOK, LocalTypes

LEMMA AskOutputsTraced ==
  ASSUME Sound, Traced, NEW w \in Requests, AskOutputs(w)
  PROVE  Traced'
  <1>1. LocalTypes /\ Sound'
    BY AskOutputsSound DEF Sound, TypeOK, LocalTypes
  <1>2. \A x \in Requests \ {w} : Untouched(x)
    BY <1>1 DEF AskOutputs, LocalTypes, Untouched
  <1>3. /\ pc[w] = "lock_inputs" /\ pc'[w] = "lock_outputs"
        /\ want'[w] = RowsOf(Positive(make[w])) /\ inputs' = inputs
        /\ rowOf' = rowOf
    BY <1>1 DEF AskOutputs, LocalTypes, tables
  <1>4. ASSUME NEW x \in Requests \ {w}
        PROVE  Behind(w, x)' /\ Behind(x, w)'
    <2>1. /\ Positive(take[w])' = Positive(take[w]) /\ Positive(make[w])' = Positive(make[w])
          /\ Positive(take[x])' = Positive(take[x]) /\ Positive(make[x])' = Positive(make[x])
      BY DEF AskOutputs, Positive
    <2>2. Behind(w, x) /\ Behind(x, w)
      BY DEF Traced
    <2>3. Behind(w, x)'
      BY <1>3, <2>1, <2>2 DEF Behind
    <2>4. ASSUME NEW c \in Positive(take[x]) \cap Positive(make[w])
          PROVE  pc[x] = "lock_outputs" /\ \E r \in inputs[x] : rowOf[r] = c /\ r \in want'[w]
      <3>1. pc[x] = "lock_outputs"
        BY <2>2 DEF Behind
      <3>2. PICK r \in inputs[x] : rowOf[r] = c
        BY <3>1 DEF Sound, InHand, Sufficient
      <3>3. r \in Rows
        BY <1>1 DEF LocalTypes
      <3> QED BY <1>3, <3>1, <3>2, <3>3 DEF RowsOf
    <2>5. Behind(x, w)'
      BY <1>2, <1>3, <2>1, <2>4 DEF Behind, Untouched
    <2> QED BY <2>3, <2>5
  <1> QED BY <1>1, <1>2, <1>3, <1>4, BetweenTraced DEF AskOutputs, Sound, TypeOK, LocalTypes

LEMMA LockOneTraced ==
  ASSUME Sound, Traced, NEW w \in Requests, NEW r \in Rows, LockOne(w, r)
  PROVE  Traced'
  <1>1. LocalTypes /\ Sound'
    BY LockOneSound DEF Sound, TypeOK, LocalTypes
  <1>2. \A x \in Requests \ {w} : Untouched(x)
    BY <1>1 DEF LockOne, LocalTypes, Untouched
  <1>3. /\ pc' = pc /\ pc[w] \in {"lock_inputs", "lock_outputs"} /\ rowOf' = rowOf
        /\ want'[w] = want[w] \ {r} /\ lockedBy[r] \in {NoRequest, w}
        /\ pc[w] = "lock_outputs" => inputs' = inputs
    BY <1>1 DEF LockOne, LocalTypes, tables
  <1>4. ASSUME NEW x \in Requests \ {w}
        PROVE  Behind(w, x)' /\ Behind(x, w)'
    <2>1. /\ Positive(take[w])' = Positive(take[w]) /\ Positive(make[w])' = Positive(make[w])
          /\ Positive(take[x])' = Positive(take[x]) /\ Positive(make[x])' = Positive(make[x])
      BY DEF LockOne, Positive
    <2>2. Behind(w, x) /\ Behind(x, w)
      BY DEF Traced
    <2>3. Behind(w, x)'
      BY <1>2, <1>3, <2>1, <2>2 DEF Behind, Untouched
    <2>4. \A s \in inputs[x] : s # r
      BY <1>3, NullAssumption DEF Sound, Current
    <2>5. Behind(x, w)'
      BY <1>2, <1>3, <2>1, <2>2, <2>4 DEF Behind, Untouched
    <2> QED BY <2>3, <2>5
  <1> QED BY <1>1, <1>2, <1>3, <1>4, BetweenTraced DEF LockOne, Sound, TypeOK, LocalTypes

\* No trade buys what a conversion has read and not locked, and none finds a row
\* of what a conversion has locked.
LEMMA TradeTraced ==
  ASSUME Sound, Traced, NEW c \in Commodities, NEW r \in TradableRows(c), NEW ls,
         rowOf' = [rowOf EXCEPT ![r] = c], levels' = [levels EXCEPT ![c] = ls],
         ls = levels[c] \/ \A x \in Requests : {c} \cap Unlocked(x) = {},
         UNCHANGED locals
  PROVE  Traced'
  <1>1. TypeOK /\ r \in Rows
    BY DEF Sound, TradableRows
  <1>2. ASSUME NEW x \in Requests
        PROVE  /\ Untouched(x) /\ level'[x] = level[x]
               /\ \A d \in Positive(take[x]) : levels'[d] = levels[d]
    <2>1. ASSUME c \in Positive(take[x]), ls # levels[c]
          PROVE  FALSE
      <3>1. pc[x] \notin {"ask", "lock_inputs"}
        BY <2>1 DEF Unlocked
      <3>2. pc[x] # "idle"
        BY <2>1 DEF Traced, AtRest, Positive, Nothing
      <3>3. pc[x] = "lock_outputs"
        BY <1>1, <3>1, <3>2 DEF TypeOK, Steps
      <3>4. PICK s \in inputs[x] : rowOf[s] = c
        BY <2>1, <3>3 DEF Sound, InHand, Sufficient
      <3>5. s \in Rows /\ lockedBy[s] = x
        BY <1>1 DEF TypeOK, Sound, Current
      <3>6. s \in RowsOf({c})
        BY <3>4, <3>5 DEF RowsOf
      <3> QED BY <3>5, <3>6, NullAssumption DEF TradableRows
    <2>2. \A d \in Commodities : d # c => levels'[d] = levels[d]
      BY <1>1 DEF TypeOK
    <2>3. ls = levels[c] => levels'[c] = levels[c]
      BY <1>1 DEF TypeOK
    <2> QED BY <2>1, <2>2, <2>3 DEF Untouched, locals, Positive
  <1>3. \A s \in Rows : rowOf[s] \in Commodities => rowOf'[s] = rowOf[s]
    <2>1. rowOf[r] = c \/ rowOf[r] = NoCommodity
      BY DEF TradableRows, RowsOf, FreeRows
    <2> QED BY <1>1, <2>1, NullAssumption DEF TypeOK
  <1> SUFFICES ASSUME NEW y \in Requests
               PROVE  /\ AtRest(y)' /\ StillTrue(y)'
                      /\ \A x \in Requests \ {y} : Behind(y, x)'
    BY DEF Traced
  <1>4. AtRest(y)' /\ pc' = pc
    BY DEF AtRest, Traced, locals, Nothing
  <1>5. StillTrue(y)'
    <2>1. CASE pc[y] = "idle"
      BY <1>4, <2>1 DEF StillTrue
    <2>2. CASE pc[y] # "idle"
      BY <1>2, <2>2, StillTrueKept DEF Traced, Untouched
    <2> QED BY <2>1, <2>2
  <1>6. \A s \in inputs[y] : rowOf'[s] = rowOf[s]
    BY <1>3 DEF Sound, InHand, Positive, TypeOK
  <1>7. ASSUME NEW x \in Requests \ {y}
        PROVE  Behind(y, x)'
    BY <1>6 DEF Traced, Behind, Positive, locals
  <1> QED BY <1>4, <1>5, <1>7

LEMMA BuyTraced ==
  ASSUME Sound, Traced, "purchase" \notin Races,
         NEW c \in Traded, NEW v \in Volumes, NEW l \in Levels, Buy(c, v, l)
  PROVE  Traced'
  <1>1. PICK r \in TradableRows(c) : rowOf' = [rowOf EXCEPT ![r] = c]
    BY DEF Buy
  <1>2. /\ levels' = [levels EXCEPT ![c] = levels[c] \cup {l}] /\ UNCHANGED locals
        /\ \A x \in Requests : {c} \cap Unlocked(x) = {}
    BY DEF Buy, Undisturbed
  <1>3. c \in Commodities
    BY LevelAssumption
  <1> QED BY <1>1, <1>2, <1>3, TradeTraced

LEMMA SellTraced ==
  ASSUME Sound, Traced, "purchase" \notin Races, NEW c \in Traded, NEW v \in Volumes, Sell(c, v)
  PROVE  Traced'
  <1> DEFINE short(r) == IF v > volume[r] THEN v - volume[r] ELSE 0
             known(r) == IF short(r) > 0 THEN levels[c] \cup {Incomplete} ELSE levels[c]
  <1>1. PICK r \in TradableRows(c) :
          /\ rowOf' = [rowOf EXCEPT ![r] = c] /\ UNCHANGED locals
          /\ levels' = [levels EXCEPT ![c] = known(r)]
          /\ known(r) = levels[c] \/ \A x \in Requests : {c} \cap Unlocked(x) = {}
    BY DEF Sell, Undisturbed
  <1>2. c \in Commodities
    BY LevelAssumption
  <1> HIDE DEF known
  <1> QED BY <1>1, <1>2, TradeTraced

LEMMA NextTraced ==
  Sound /\ Traced /\ "purchase" \notin Races /\ [Next]_vars => Traced'
  <1> SUFFICES ASSUME Sound, Traced, "purchase" \notin Races, [Next]_vars PROVE Traced'
    OBVIOUS
  <1>1. CASE UNCHANGED vars
    <2>1. UNCHANGED <<pc, take, make, level, inputs, want, rowOf, levels>>
      BY <1>1 DEF vars, tables, locals
    <2>2. ASSUME NEW w \in Requests
          PROVE  AtRest(w)' /\ StillTrue(w)' /\ \A x \in Requests \ {w} : Behind(w, x)'
      <3>1. AtRest(w)' /\ \A x \in Requests \ {w} : Behind(w, x)'
        BY <2>1 DEF Traced, AtRest, Behind, Positive, Nothing
      <3>2. StillTrue(w)'
        <4>1. CASE pc[w] = "idle"
          BY <2>1, <4>1 DEF StillTrue
        <4>2. CASE pc[w] # "idle"
          BY <2>1, <4>2, StillTrueKept DEF Traced
        <4> QED BY <4>1, <4>2
      <3> QED BY <3>1, <3>2
    <2> QED BY <2>2 DEF Traced
  <1>2. CASE Trade
    BY <1>2, BuyTraced, SellTraced DEF Trade
  <1>3. ASSUME NEW w \in Requests, Convert(w)
        PROVE  Traced'
    <2>1. CASE \E recipe \in Recipes :
                 \E t \in Amounts(recipe.inputs), m \in Amounts(recipe.outputs) :
                   ConvertRead(w, recipe, t, m)
      BY <2>1, ConvertReadTraced
    <2>2. CASE AskInputs(w)
      BY <2>2, AskInputsTraced
    <2>3. CASE AskOutputs(w)
      BY <2>3, AskOutputsTraced
    <2>4. CASE ConvertCommit(w)
      BY <2>4, ConvertCommitTraced
    <2>5. CASE \E r \in Rows : LockOne(w, r)
      BY <2>5, LockOneTraced
    <2>6. CASE Refuse(w) \/ DeadlockVictim(w) \/ WorkerDies(w)
      BY <2>6, RollbackTraced DEF Refuse, DeadlockVictim, WorkerDies
    <2> QED BY <1>3, <2>1, <2>2, <2>3, <2>4, <2>5, <2>6 DEF Convert
  <1> QED BY <1>1, <1>2, <1>3 DEF Next

LEMMA TracedIsRight == Sound /\ Traced => LevelIsWorstInput
  <1> SUFFICES ASSUME Sound, Traced, NEW w \in Requests, pc[w] = "lock_outputs"
               PROVE  LET bought == UNION {levels[c] : c \in Positive(take[w])}
                      IN /\ level[w] \in bought \cup {Incomplete}
                         /\ \A l \in bought : level[w] <= l
    BY DEF LevelIsWorstInput
  <1>1. level[w] = ConversionTraceability(Positive(take[w]))
    BY DEF Traced, StillTrue
  <1>2. Positive(take[w]) \in SUBSET Commodities /\ TypeOK
    BY DEF Positive, Sound
  <1> QED BY <1>1, <1>2, WorstLevel

-----------------------------------------------------------------------------
(* Rounding, for quantities of any scale. *)

\* Division leaves a rest below the divisor, and only one quotient does.
LEMMA DivSandwich ==
  ASSUME NEW a \in Int, NEW n \in Nat \ {0}
  PROVE  /\ a \div n \in Int
         /\ n * (a \div n) <= a
         /\ a < n * (a \div n) + n
  OBVIOUS

LEMMA TimesOrdered ==
  ASSUME NEW n \in Nat \ {0}, NEW j \in Int, NEW k \in Int, j < k
  PROVE  n * j + n <= n * k
  <1>1. k - j - 1 \in Nat
    OBVIOUS
  <1>2. \A i \in Nat : n * i >= 0
    OBVIOUS
  <1>3. n * (k - j - 1) >= 0
    BY <1>1, <1>2
  <1>4. n * (k - j - 1) = n * k - n * j - n
    OBVIOUS
  <1> QED BY <1>3, <1>4

LEMMA DivUnique ==
  ASSUME NEW a \in Int, NEW n \in Nat \ {0}, NEW k \in Int,
         n * k <= a, a < n * k + n
  PROVE  a \div n = k
  <1>1. PICK d \in Int : d = a \div n
    BY DivSandwich
  <1>2. n * d <= a /\ a < n * d + n
    BY <1>1, DivSandwich
  <1>3. PICK nd \in Int, nk \in Int : nd = n * d /\ nk = n * k
    OBVIOUS
  <1>4. CASE d < k
    <2>1. nd + n <= nk
      BY <1>3, <1>4, TimesOrdered
    <2> QED BY <1>2, <1>3, <2>1
  <1>5. CASE k < d
    <2>1. nk + n <= nd
      BY <1>3, <1>5, TimesOrdered
    <2> QED BY <1>2, <1>3, <2>1
  <1> QED BY <1>1, <1>4, <1>5

LEMMA ModIs ==
  ASSUME NEW a \in Int, NEW n \in Nat \ {0}, NEW k \in Int, NEW r \in 0..(n - 1), a = n * k + r
  PROVE  a % n = r
  OBVIOUS

\* Rounding gives the nearest hundredth.
LEMMA RoundedBounds ==
  ASSUME NEW x \in Int
  PROVE  /\ Rounded(x) \in Int
         /\ 2 * (Scale * Rounded(x)) <= 2 * x + Scale
         /\ 2 * x < 2 * (Scale * Rounded(x)) + Scale
  <1>1. 2 * Scale \in Nat \ {0} /\ 2 * x + Scale \in Int
    BY QuantityAssumption
  <1>2. PICK d \in Int : d = (2 * x + Scale) \div (2 * Scale)
    BY <1>1, DivSandwich
  <1>3. (2 * Scale) * d <= 2 * x + Scale /\ 2 * x + Scale < (2 * Scale) * d + 2 * Scale
    BY <1>1, <1>2, DivSandwich
  <1>4. PICK e \in Int : e = Scale * d
    BY QuantityAssumption
  <1>5. (2 * Scale) * d = 2 * e
    BY QuantityAssumption, <1>4
  <1> QED BY QuantityAssumption, <1>2, <1>3, <1>4, <1>5 DEF Rounded

LEMMA RoundedIs ==
  ASSUME NEW x \in Int, NEW k \in Int,
         2 * (Scale * k) <= 2 * x + Scale, 2 * x < 2 * (Scale * k) + Scale
  PROVE  Rounded(x) = k
  <1>1. 2 * Scale \in Nat \ {0} /\ 2 * x + Scale \in Int
    BY QuantityAssumption
  <1>2. (2 * Scale) * k = 2 * (Scale * k) /\ Scale * k \in Int
    BY QuantityAssumption
  <1>3. PICK e \in Int, m \in Int : e = (2 * Scale) * k /\ e = 2 * (Scale * k) /\ m = 2 * Scale
    BY QuantityAssumption, <1>2
  <1>4. e <= 2 * x + Scale /\ 2 * x + Scale < e + m
    BY QuantityAssumption, <1>3
  <1>5. (2 * x + Scale) \div (2 * Scale) = k
    BY <1>1, <1>3, <1>4, DivUnique
  <1> QED BY <1>5 DEF Rounded

\* A whole number of hundredths may be added before or after rounding; a quantity may
\* also be subtracted before or after, unless it lies between two hundredths.
LEMMA RoundedAdds ==
  ASSUME NEW v \in Int, NEW x \in Int
  PROVE  Rounded(Scale * v + x) = v + Rounded(x)
  <1>1. PICK k \in Int : k = Rounded(x)
    BY RoundedBounds
  <1>2. PICK a \in Int, b \in Int : a = Scale * v /\ b = Scale * k
    BY QuantityAssumption
  <1>3. Scale * (v + k) = a + b
    BY QuantityAssumption, <1>2
  <1>4. 2 * b <= 2 * x + Scale /\ 2 * x < 2 * b + Scale
    BY <1>1, <1>2, RoundedBounds
  <1>5. v + k \in Int /\ a + x \in Int
    OBVIOUS
  <1>6. 2 * (Scale * (v + k)) <= 2 * (a + x) + Scale /\ 2 * (a + x) < 2 * (Scale * (v + k)) + Scale
    BY QuantityAssumption, <1>3, <1>4
  <1>7. Rounded(a + x) = v + k
    BY <1>5, <1>6, RoundedIs
  <1> QED BY <1>1, <1>2, <1>7

LEMMA RoundedTakes ==
  ASSUME NEW v \in Int, NEW x \in Int, (2 * x) % (2 * Scale) # Scale
  PROVE  Rounded(Scale * v - x) = v - Rounded(x)
  <1>1. PICK k \in Int : k = Rounded(x)
    BY RoundedBounds
  <1>2. PICK a \in Int, b \in Int : a = Scale * v /\ b = Scale * k
    BY QuantityAssumption
  <1>3. Scale * (v - k) = a - b
    BY QuantityAssumption, <1>2
  <1>4. 2 * b <= 2 * x + Scale /\ 2 * x < 2 * b + Scale
    BY <1>1, <1>2, RoundedBounds
  <1>5. 2 * b # 2 * x + Scale
    <2> SUFFICES ASSUME 2 * b = 2 * x + Scale PROVE FALSE
      OBVIOUS
    <2>1. PICK m \in Nat \ {0} : m = 2 * Scale
      BY QuantityAssumption
    <2>2. m * (k - 1) = 2 * b - m
      BY QuantityAssumption, <2>1, <1>2
    <2>3. 2 * x = m * (k - 1) + Scale /\ 0 <= Scale /\ Scale < m
      BY QuantityAssumption, <2>1, <2>2
    <2>4. Scale \in 0..(m - 1) /\ k - 1 \in Int /\ 2 * x \in Int
      BY QuantityAssumption, <2>3
    <2>5. PICK y \in Int, j \in Int : y = 2 * x /\ j = k - 1
      BY <2>4
    <2>6. y = m * j + Scale
      BY <2>3, <2>5
    <2>7. y % m = Scale
      BY <2>4, <2>6, ModIs
    <2> QED BY <2>1, <2>5, <2>7
  <1>6. v - k \in Int /\ a - x \in Int
    OBVIOUS
  <1>7. 2 * (Scale * (v - k)) <= 2 * (a - x) + Scale /\ 2 * (a - x) < 2 * (Scale * (v - k)) + Scale
    BY QuantityAssumption, <1>3, <1>4, <1>5
  <1>8. Rounded(a - x) = v - k
    BY <1>6, <1>7, RoundedIs
  <1> QED BY <1>1, <1>2, <1>8
-----------------------------------------------------------------------------
(* The balances of a commodity are what its transactions add up to. *)

\* No recipe makes what it takes.
NoLoops == \A recipe \in Recipes : recipe.inputs \cap recipe.outputs = {}

\* No quantity lies half-way between two hundredths: a half is rounded up in what is
\* added to a balance, and up in what is left of it.
NoHalves == \A q \in Quantities : (2 * q) % (2 * Scale) # Scale

\* What a row is worth to the balance of a commodity.
Worth(c) == [r \in Rows |-> IF rowOf[r] = c THEN volume[r] ELSE 0]

\* A request converts quantities of a recipe, and no commodity into itself.
Measured(w) ==
  /\ \A c \in Commodities : take[w][c] \in Quantities \cup {0} /\ make[w][c] \in Quantities \cup {0}
  /\ Positive(take[w]) \cap Positive(make[w]) = {}

\* Rows that are not there are worth nothing.
Vacant == \A r \in FreeRows : volume[r] = 0

Booked == \A c \in Commodities : SumFunctionOnSet(Worth(c), Rows) = ledger[c]

Counted == Vacant /\ Booked /\ \A w \in Requests : Measured(w)

LEMMA WorthInt ==
  ASSUME TypeOK, NEW c
  PROVE  \A r \in Rows : Worth(c)[r] \in Int
  BY DEF TypeOK, Worth

LEMMA BalanceIsWorth ==
  ASSUME TypeOK, NEW c \in Commodities
  PROVE  Balance(c) = SumFunctionOnSet(Worth(c), Rows)
  <1>1. RowsOf({c}) \in SUBSET Rows
    BY DEF RowsOf
  <1>2. \A r \in RowsOf({c}) : Worth(c)[r] = volume[r]
    BY DEF RowsOf, Worth
  <1>3. \A r \in Rows \ RowsOf({c}) : Worth(c)[r] = 0
    BY DEF RowsOf, Worth
  <1>4. \A r \in Rows : Worth(c)[r] \in Int
    BY WorthInt
  <1>5. SumFunctionOnSet(Worth(c), Rows) = SumFunctionOnSet(volume, RowsOf({c}))
    <2> DEFINE f == Worth(c)
               T == RowsOf({c})
    <2>1. /\ T \in SUBSET Rows
          /\ \A r \in Rows : f[r] \in Int
          /\ \A r \in T : f[r] = volume[r]
          /\ \A r \in Rows \ T : f[r] = 0
      BY <1>1, <1>2, <1>3, <1>4
    <2> HIDE DEF f, T
    <2>2. SumFunctionOnSet(f, Rows) = SumFunctionOnSet(volume, T)
      BY <2>1, RowsAssumption, SumOverSubset
    <2> QED BY <2>2 DEF f, T
  <1> QED BY <1>5 DEF Balance

LEMMA InitCounted == Init => Counted
  <1> SUFFICES ASSUME Init PROVE Counted
    OBVIOUS
  <1>1. Vacant
    BY DEF Init, Vacant, FreeRows, RowsOf
  <1>2. \A w \in Requests : Measured(w)
    BY DEF Init, Measured, Nothing, Positive
  <1>3. ASSUME NEW c \in Commodities
        PROVE  SumFunctionOnSet(Worth(c), Rows) = ledger[c]
    <2>1. \A r \in Rows : Worth(c)[r] = 0
      BY DEF Init, Worth
    <2> DEFINE f == Worth(c)
               none == [r \in {} |-> 0]
    <2>2. {} \in SUBSET Rows /\ (\A r \in Rows : f[r] \in Int)
          /\ (\A r \in {} : f[r] = none[r]) /\ \A r \in Rows \ {} : f[r] = 0
      BY <2>1
    <2> HIDE DEF f, none
    <2>3. SumFunctionOnSet(f, Rows) = SumFunctionOnSet(none, {})
      BY <2>2, RowsAssumption, SumOverSubset
    <2>4. SumFunctionOnSet(f, Rows) = 0
      BY <2>3, SumOfNothing
    <2> QED BY <2>4 DEF f, Init, Nothing
  <1> QED BY <1>1, <1>2, <1>3 DEF Counted, Booked

\* What is booked follows the one row of a commodity that a step writes.
LEMMA OneRowMoves ==
  ASSUME TypeOK, TypeOK', Booked, NEW c \in Commodities, NEW r \in Rows,
         \A s \in Rows \ {r} : Worth(c)'[s] = Worth(c)[s],
         ledger'[c] = ledger[c] + Worth(c)'[r] - Worth(c)[r]
  PROVE  SumFunctionOnSet(Worth(c)', Rows) = ledger'[c]
  <1> DEFINE f == Worth(c)
             g == Worth(c)'
  <1>1. \A s \in Rows : f[s] \in Int /\ g[s] \in Int
    BY DEF TypeOK, Worth
  <1>2. \A s \in Rows \ {r} : f[s] = g[s]
    OBVIOUS
  <1>3. SumFunctionOnSet(f, Rows) = ledger[c]
    BY DEF Booked
  <1>4. ledger'[c] = ledger[c] + g[r] - f[r]
    OBVIOUS
  <1> HIDE DEF f, g
  <1>5. SumFunctionOnSet(g, Rows) = SumFunctionOnSet(f, Rows) + g[r] - f[r]
    BY <1>1, <1>2, RowsAssumption, SumFollowsChange
  <1>6. SumFunctionOnSet(g, Rows) = ledger'[c]
    BY <1>3, <1>4, <1>5
  <1> QED BY <1>6 DEF g

LEMMA NoRowMoves ==
  ASSUME Booked, NEW c \in Commodities,
         \A s \in Rows : Worth(c)'[s] = Worth(c)[s], ledger'[c] = ledger[c]
  PROVE  SumFunctionOnSet(Worth(c)', Rows) = ledger'[c]
  <1> DEFINE f == Worth(c)
             g == Worth(c)'
  <1>1. \A s \in Rows : f[s] = g[s]
    OBVIOUS
  <1>2. SumFunctionOnSet(f, Rows) = ledger'[c]
    BY DEF Booked
  <1> HIDE DEF f, g
  <1>3. SumFunctionOnSet(f, Rows) = SumFunctionOnSet(g, Rows)
    BY <1>1, RowsAssumption, SumOfSame
  <1> QED BY <1>2, <1>3 DEF g

\* What a commit writes: exactly the rounded quantities come off and on.
LEMMA WrittenExactly ==
  ASSUME Sound, Counted, NoHalves, NEW w \in Requests, pc[w] = "lock_outputs", NEW r \in Rows
  PROVE  /\ r \in inputs[w] => /\ Written(w, r) = volume[r] - Rounded(take[w][rowOf[r]])
                               /\ r \notin outputs[w]
         /\ r \in outputs[w] => Written(w, r) = volume[r] + Rounded(make[w][rowOf[r]])
         /\ r \notin inputs[w] \cup outputs[w] => Written(w, r) = volume[r]
  <1>1. TypeOK /\ InHand(w) /\ Current(w) /\ Measured(w)
    BY DEF Sound, Counted
  <1>2. r \in inputs[w] => r \notin outputs[w]
    BY <1>1 DEF InHand, Measured
  <1>3. ASSUME r \in inputs[w]
        PROVE  Written(w, r) = volume[r] - Rounded(take[w][rowOf[r]])
    <2>1. rowOf[r] \in Positive(take[w])
      BY <1>1, <1>3 DEF InHand
    <2>2. PICK q \in Int : q = take[w][rowOf[r]]
      BY <1>1, <2>1 DEF TypeOK, Positive
    <2>3. q \in Quantities
      BY <1>1, <2>1, <2>2 DEF Measured, Positive
    <2>4. volume[r] \in Int /\ volume[r] = seen[w][r]
      BY <1>1, <1>3 DEF TypeOK, Current
    <2>5. Rounded(Scale * volume[r] - q) = volume[r] - Rounded(q)
      BY <2>2, <2>3, <2>4, RoundedTakes DEF NoHalves
    <2> QED BY <1>3, <2>2, <2>4, <2>5 DEF Written
  <1>4. ASSUME r \in outputs[w]
        PROVE  Written(w, r) = volume[r] + Rounded(make[w][rowOf[r]])
    <2>1. PICK q \in Int : q = make[w][rowOf[r]]
      BY <1>1, <1>4 DEF TypeOK, Positive, InHand
    <2>2. volume[r] \in Int /\ volume[r] = seen[w][r]
      BY <1>1, <1>4 DEF TypeOK, Current
    <2>3. Rounded(Scale * volume[r] + q) = volume[r] + Rounded(q)
      BY <2>1, <2>2, RoundedAdds
    <2> QED BY <1>2, <1>4, <2>1, <2>2, <2>3 DEF Written
  <1> QED BY <1>2, <1>3, <1>4 DEF Written

LEMMA ConvertCommitBooked ==
  ASSUME Sound, Counted, NoHalves, NEW w \in Requests, ConvertCommit(w)
  PROVE  Vacant' /\ Booked'
  <1>1. TypeOK /\ InHand(w) /\ Current(w) /\ Measured(w) /\ TypeOK'
    BY ConvertCommitSound DEF Sound, Counted
  <1>2. pc[w] = "lock_outputs"
    BY DEF ConvertCommit
  <1>3. PICK new \in [Unopened(w) -> FreeRows] :
          /\ IsInjective(new)
          /\ rowOf' = [r \in Rows |->
               IF r \in Range(new) THEN CHOOSE c \in Unopened(w) : new[c] = r ELSE rowOf[r]]
          /\ volume' = [r \in Rows |->
               IF r \in Range(new) THEN Rounded(make[w][rowOf'[r]]) ELSE Written(w, r)]
    BY DEF ConvertCommit, WriteBalances
  <1>4. /\ \A c \in Unopened(w) : new[c] \in Rows /\ rowOf'[new[c]] = c
        /\ \A r \in Range(new) : /\ rowOf[r] = NoCommodity /\ rowOf'[r] \in Unopened(w)
                                 /\ new[rowOf'[r]] = r
        /\ \A r \in Rows \ Range(new) : rowOf'[r] = rowOf[r]
    <2>1. ASSUME NEW c \in Unopened(w)
          PROVE  new[c] \in Rows /\ new[c] \in Range(new) /\ rowOf'[new[c]] = c
      <3>1. new[c] \in Rows /\ new[c] \in Range(new)
        BY DEF Range, FreeRows, RowsOf
      <3>2. rowOf'[new[c]] = CHOOSE d \in Unopened(w) : new[d] = new[c]
        BY <1>3, <3>1
      <3>3. \A d \in Unopened(w) : new[d] = new[c] => d = c
        BY <1>3 DEF IsInjective
      <3>4. (CHOOSE d \in Unopened(w) : new[d] = new[c]) = c
        BY <3>3
      <3> QED BY <3>1, <3>2, <3>4
    <2>2. ASSUME NEW r \in Range(new)
          PROVE  /\ rowOf[r] = NoCommodity /\ rowOf'[r] \in Unopened(w)
                 /\ new[rowOf'[r]] = r
      <3>1. PICK c \in Unopened(w) : new[c] = r
        BY DEF Range
      <3>2. rowOf'[r] = c
        BY <2>1, <3>1
      <3>3. rowOf[r] = NoCommodity
        BY <3>1 DEF FreeRows, RowsOf
      <3> QED BY <3>1, <3>2, <3>3
    <2>3. \A r \in Rows \ Range(new) : rowOf'[r] = rowOf[r]
      BY <1>3
    <2> QED BY <2>1, <2>2, <2>3
  <1>5. /\ inputs[w] \subseteq Rows /\ outputs[w] \subseteq Rows
        /\ \A r \in inputs[w] : rowOf[r] \in Positive(take[w]) /\ r \notin Range(new)
        /\ \A r \in outputs[w] : rowOf[r] \in Positive(make[w]) /\ r \notin Range(new)
    BY <1>1, <1>4, NullAssumption DEF InHand, Positive, TypeOK
  <1>6. \A r \in Rows \ Range(new) :
          r \notin inputs[w] \cup outputs[w] => volume'[r] = volume[r]
    BY <1>2, <1>3, WrittenExactly
  <1>7. Vacant'
    <2> SUFFICES ASSUME NEW r \in Rows, rowOf'[r] = NoCommodity PROVE volume'[r] = 0
      BY DEF Vacant, FreeRows, RowsOf
    <2>1. r \notin Range(new)
      BY <1>4, NullAssumption DEF Unopened, Positive
    <2>2. rowOf[r] = NoCommodity
      BY <1>4, <2>1
    <2>3. r \notin inputs[w] \cup outputs[w]
      BY <1>5, <2>2, NullAssumption DEF Positive
    <2>4. volume[r] = 0
      BY <2>2 DEF Counted, Vacant, FreeRows, RowsOf
    <2> QED BY <1>6, <2>1, <2>3, <2>4
  <1>8. ASSUME NEW c \in Commodities
        PROVE  SumFunctionOnSet(Worth(c)', Rows) = ledger'[c]
    <2>1. ledger'[c] = ledger[c] + Entry(w, c)
      BY DEF ConvertCommit
    <2>2. ASSUME NEW s \in Rows,
                 \/ s \in Range(new) /\ rowOf'[s] # c
                 \/ s \notin Range(new) /\ rowOf[s] # c
                 \/ s \notin Range(new) /\ s \notin inputs[w] \cup outputs[w]
          PROVE  Worth(c)'[s] = Worth(c)[s]
      <3>1. CASE s \in Range(new) /\ rowOf'[s] # c
        BY <1>4, <3>1, NullAssumption DEF Worth
      <3>2. CASE s \notin Range(new) /\ rowOf[s] # c
        BY <1>4, <3>2 DEF Worth
      <3>3. CASE s \notin Range(new) /\ s \notin inputs[w] \cup outputs[w]
        BY <1>4, <1>6, <3>3 DEF Worth
      <3> QED BY <2>2, <3>1, <3>2, <3>3
    <2>3. PICK i \in Int, o \in Int : i = Rounded(take[w][c]) /\ o = Rounded(make[w][c])
      BY <1>1, RoundedInt DEF TypeOK
    <2>4. Booked /\ ledger[c] \in Int
      BY <1>1 DEF Counted, TypeOK
    <2>5. CASE c \in Positive(take[w])
      <3>1. PICK r \in inputs[w] : rowOf[r] = c
        BY <1>1, <1>2, <2>5 DEF InHand, Sufficient
      <3>2. c \notin Positive(make[w])
        BY <1>1, <2>5 DEF Measured
      <3>3. r \in Rows /\ r \notin Range(new) /\ volume[r] \in Int
        BY <1>1, <1>5, <3>1 DEF TypeOK
      <3>4. Worth(c)'[r] = volume[r] - i /\ Worth(c)[r] = volume[r]
        <4>1. Written(w, r) = volume[r] - i
          BY <1>2, <2>3, <3>1, <3>3, WrittenExactly
        <4>2. volume'[r] = volume[r] - i /\ rowOf'[r] = c
          BY <1>3, <1>4, <3>1, <3>3, <4>1
        <4> QED BY <3>1, <3>3, <4>2 DEF Worth
      <3>5. Entry(w, c) = 0 - i
        BY <2>3, <2>5, <3>2 DEF Entry, Positive
      <3>6. ASSUME NEW s \in Rows \ {r}
            PROVE  Worth(c)'[s] = Worth(c)[s]
        <4>1. s \in Range(new) => rowOf'[s] # c
          BY <1>4, <3>2 DEF Unopened
        <4>2. rowOf[s] = c => s \notin inputs[w] \cup outputs[w]
          BY <1>1, <1>5, <3>1, <3>2 DEF InHand, OneEach
        <4> QED BY <2>2, <4>1, <4>2
      <3>7. ledger'[c] = ledger[c] + Worth(c)'[r] - Worth(c)[r]
        BY <2>1, <2>4, <3>3, <3>4, <3>5
      <3> QED BY <1>1, <2>4, <3>3, <3>6, <3>7, OneRowMoves
    <2>6. CASE c \in Positive(make[w]) /\ c \notin Unopened(w)
      <3>1. PICK r \in outputs[w] : rowOf[r] = c
        BY <2>6 DEF Unopened
      <3>2. c \notin Positive(take[w])
        BY <1>1, <2>6 DEF Measured
      <3>3. r \in Rows /\ r \notin Range(new) /\ volume[r] \in Int
        BY <1>1, <1>5, <3>1 DEF TypeOK
      <3>4. Worth(c)'[r] = volume[r] + o /\ Worth(c)[r] = volume[r]
        <4>1. Written(w, r) = volume[r] + o
          BY <1>2, <2>3, <3>1, <3>3, WrittenExactly
        <4>2. volume'[r] = volume[r] + o /\ rowOf'[r] = c
          BY <1>3, <1>4, <3>1, <3>3, <4>1
        <4> QED BY <3>1, <3>3, <4>2 DEF Worth
      <3>5. Entry(w, c) = o
        BY <2>3, <2>6, <3>2 DEF Entry, Positive
      <3>6. ASSUME NEW s \in Rows \ {r}
            PROVE  Worth(c)'[s] = Worth(c)[s]
        <4>1. s \in Range(new) => rowOf'[s] # c
          BY <1>4, <2>6
        <4>2. rowOf[s] = c => s \notin inputs[w] \cup outputs[w]
          BY <1>1, <1>5, <3>1, <3>2 DEF InHand, OneEach
        <4> QED BY <2>2, <4>1, <4>2
      <3>7. ledger'[c] = ledger[c] + Worth(c)'[r] - Worth(c)[r]
        BY <2>1, <2>4, <3>3, <3>4, <3>5
      <3> QED BY <1>1, <2>4, <3>3, <3>6, <3>7, OneRowMoves
    <2>7. CASE c \in Unopened(w)
      <3>1. PICK r \in Rows : r = new[c] /\ r \in Range(new) /\ rowOf'[r] = c
        BY <1>4, <2>7 DEF Range
      <3>2. c \in Positive(make[w]) /\ c \notin Positive(take[w])
        BY <1>1, <2>7 DEF Measured, Unopened
      <3>3. rowOf[r] = NoCommodity
        BY <1>4, <3>1
      <3>4. Worth(c)'[r] = o /\ Worth(c)[r] = 0
        <4>1. volume'[r] = o
          BY <1>3, <2>3, <3>1
        <4> QED BY <3>1, <3>3, <4>1, NullAssumption DEF Worth
      <3>5. Entry(w, c) = o
        BY <2>3, <3>2 DEF Entry, Positive
      <3>6. ASSUME NEW s \in Rows \ {r}
            PROVE  Worth(c)'[s] = Worth(c)[s]
        <4>1. s \in Range(new) => rowOf'[s] # c
          BY <1>4, <3>1
        <4>2. rowOf[s] = c => s \notin inputs[w] \cup outputs[w]
          BY <1>5, <2>7, <3>2 DEF Unopened
        <4> QED BY <2>2, <4>1, <4>2
      <3>7. ledger'[c] = ledger[c] + Worth(c)'[r] - Worth(c)[r]
        BY <2>1, <2>3, <2>4, <3>4, <3>5
      <3> QED BY <1>1, <2>4, <3>1, <3>6, <3>7, OneRowMoves
    <2>8. CASE c \notin Positive(take[w]) /\ c \notin Positive(make[w])
      <3>1. Entry(w, c) = 0
        BY <2>8 DEF Entry, Positive
      <3>2. ASSUME NEW s \in Rows
            PROVE  Worth(c)'[s] = Worth(c)[s]
        <4>1. s \in Range(new) => rowOf'[s] # c
          BY <1>4, <2>8 DEF Unopened
        <4>2. rowOf[s] = c => s \notin inputs[w] \cup outputs[w]
          BY <1>5, <2>8
        <4> QED BY <2>2, <4>1, <4>2
      <3>3. ledger'[c] = ledger[c]
        BY <2>1, <2>4, <3>1
      <3> QED BY <2>4, <3>2, <3>3, NoRowMoves
    <2> QED BY <2>5, <2>6, <2>7, <2>8
  <1> QED BY <1>7, <1>8 DEF Booked

\* A trade moves one row by what its transaction says.
LEMMA TradeBooked ==
  ASSUME Sound, Sound', Counted, NEW c \in Commodities, NEW r \in TradableRows(c), NEW d \in Int,
         rowOf' = [rowOf EXCEPT ![r] = c], volume' = [volume EXCEPT ![r] = volume[r] + d],
         ledger' = [ledger EXCEPT ![c] = ledger[c] + d], UNCHANGED locals
  PROVE  Counted'
  <1>1. TypeOK /\ TypeOK' /\ r \in Rows /\ Booked
    BY DEF Sound, Counted, TradableRows
  <1>2. rowOf[r] = c \/ rowOf[r] = NoCommodity
    BY DEF TradableRows, RowsOf, FreeRows
  <1>3. Vacant'
    <2> SUFFICES ASSUME NEW s \in Rows, rowOf'[s] = NoCommodity PROVE volume'[s] = 0
      BY DEF Vacant, FreeRows, RowsOf
    <2>1. s # r /\ rowOf[s] = NoCommodity /\ volume'[s] = volume[s]
      BY <1>1, NullAssumption DEF TypeOK
    <2> QED BY <2>1 DEF Counted, Vacant, FreeRows, RowsOf
  <1>4. ASSUME NEW w \in Requests
        PROVE  Measured(w)'
    BY DEF Counted, Measured, locals, Positive
  <1>5. ASSUME NEW e \in Commodities
        PROVE  SumFunctionOnSet(Worth(e)', Rows) = ledger'[e]
    <2>1. \A s \in Rows \ {r} : Worth(e)'[s] = Worth(e)[s]
      BY <1>1 DEF Worth, TypeOK
    <2>2. CASE e = c
      <3>1. Worth(c)'[r] = volume[r] + d
        BY <1>1 DEF Worth, TypeOK
      <3>2. Worth(c)[r] = volume[r]
        BY <1>1, <1>2, NullAssumption DEF Worth, Counted, Vacant, FreeRows, RowsOf
      <3>3. ledger'[c] = ledger[c] + d /\ volume[r] \in Int /\ ledger[c] \in Int
        BY <1>1 DEF TypeOK
      <3>4. ledger'[c] = ledger[c] + Worth(c)'[r] - Worth(c)[r]
        BY <3>1, <3>2, <3>3
      <3> QED BY <1>1, <2>1, <2>2, <3>4, OneRowMoves
    <2>3. CASE e # c
      <3>1. Worth(e)'[r] = Worth(e)[r]
        BY <1>1, <1>2, <2>3, NullAssumption DEF Worth, TypeOK
      <3>2. ledger'[e] = ledger[e]
        BY <1>1, <2>3 DEF TypeOK
      <3> QED BY <1>1, <2>1, <3>1, <3>2, NoRowMoves
    <2> QED BY <2>2, <2>3
  <1> QED BY <1>3, <1>4, <1>5 DEF Counted, Booked

LEMMA BuyCounted ==
  ASSUME Sound, Counted, NEW c \in Traded, NEW v \in Volumes, NEW l \in Levels, Buy(c, v, l)
  PROVE  Counted'
  <1>1. PICK r \in TradableRows(c) :
          rowOf' = [rowOf EXCEPT ![r] = c] /\ volume' = [volume EXCEPT ![r] = volume[r] + v]
    BY DEF Buy
  <1>2. ledger' = [ledger EXCEPT ![c] = ledger[c] + v] /\ UNCHANGED locals /\ Sound'
    BY BuySound DEF Buy
  <1>3. c \in Commodities /\ v \in Int
    BY LevelAssumption, QuantityAssumption
  <1> QED BY <1>1, <1>2, <1>3, TradeBooked

LEMMA SellCounted ==
  ASSUME Sound, Counted, NEW c \in Traded, NEW v \in Volumes, Sell(c, v)
  PROVE  Counted'
  <1> DEFINE short(r) == IF v > volume[r] THEN v - volume[r] ELSE 0
  <1>1. PICK r \in TradableRows(c) :
          /\ rowOf' = [rowOf EXCEPT ![r] = c]
          /\ volume' = [volume EXCEPT ![r] = volume[r] + short(r) - v]
          /\ ledger' = [ledger EXCEPT ![c] = ledger[c] + short(r) - v]
          /\ UNCHANGED locals
    BY DEF Sell
  <1>2. c \in Commodities /\ v \in Int /\ Sound' /\ TypeOK /\ r \in Rows
    BY SellSound, LevelAssumption, QuantityAssumption DEF Sound, TradableRows
  <1>3. volume[r] \in Int /\ ledger[c] \in Int
    BY <1>2 DEF TypeOK
  <1>4. PICK s \in Int : s = short(r)
    BY <1>2, <1>3
  <1>5. PICK d \in Int : d = s - v
    BY <1>2
  <1>6. /\ volume' = [volume EXCEPT ![r] = volume[r] + d]
        /\ ledger' = [ledger EXCEPT ![c] = ledger[c] + d]
    <2>1. volume[r] + s - v = volume[r] + d /\ ledger[c] + s - v = ledger[c] + d
      BY <1>2, <1>3, <1>5
    <2> QED BY <1>1, <1>4, <2>1
  <1> QED BY <1>1, <1>2, <1>6, TradeBooked

\* A step that writes no table books nothing.
LEMMA QuietCounted ==
  ASSUME Counted, UNCHANGED <<rowOf, volume, ledger>>, \A w \in Requests : Measured(w)'
  PROVE  Counted'
  <1>1. Vacant'
    BY DEF Counted, Vacant, FreeRows, RowsOf
  <1>2. Booked'
    BY DEF Counted, Booked, Worth
  <1> QED BY <1>1, <1>2 DEF Counted

LEMMA MeasuredKept ==
  ASSUME Counted, NEW w \in Requests, take'[w] = take[w], make'[w] = make[w]
  PROVE  Measured(w)'
  BY DEF Counted, Measured, Positive

\* Whoever leaves takes and makes nothing.
LEMMA LeaveMeasured ==
  ASSUME Sound, Counted, NEW w \in Requests, Leave(w)
  PROVE  \A x \in Requests : Measured(x)'
  <1> SUFFICES ASSUME NEW x \in Requests PROVE Measured(x)'
    OBVIOUS
  <1>1. CASE x = w
    <2>1. take'[w] = Nothing /\ make'[w] = Nothing
      BY DEF Leave, Sound, TypeOK
    <2> QED BY <1>1, <2>1 DEF Measured, Positive, Nothing
  <1>2. CASE x # w
    BY <1>2, LeaveLocals, MeasuredKept DEF Untouched
  <1> QED BY <1>1, <1>2

LEMMA ConvertReadCounted ==
  ASSUME Sound, Counted, NoLoops, NEW w \in Requests, NEW recipe \in Recipes,
         NEW t \in Amounts(recipe.inputs), NEW m \in Amounts(recipe.outputs),
         ConvertRead(w, recipe, t, m)
  PROVE  Counted'
  <1>1. \A c \in Commodities : t[c] \in Quantities \cup {0} /\ m[c] \in Quantities \cup {0}
    BY DEF Amounts
  <1>2. Positive(t) \subseteq recipe.inputs /\ Positive(m) \subseteq recipe.outputs
    BY DEF Amounts, Positive
  <1>3. ASSUME NEW x \in Requests
        PROVE  Measured(x)'
    <2>1. CASE x = w
      <3>1. take'[w] = t /\ make'[w] = m
        BY DEF ConvertRead, Sound, TypeOK
      <3>2. Positive(take[w])' = Positive(t) /\ Positive(make[w])' = Positive(m)
        BY <3>1 DEF Positive
      <3> QED BY <1>1, <1>2, <2>1, <3>1, <3>2 DEF Measured, NoLoops
    <2>2. CASE x # w
      BY <2>2, MeasuredKept DEF ConvertRead, Sound, TypeOK
    <2> QED BY <2>1, <2>2
  <1> QED BY <1>3, QuietCounted DEF ConvertRead, tables

LEMMA NextCounted ==
  Sound /\ Counted /\ NoLoops /\ NoHalves /\ [Next]_vars => Counted'
  <1> SUFFICES ASSUME Sound, Counted, NoLoops, NoHalves, [Next]_vars PROVE Counted'
    OBVIOUS
  <1>1. ASSUME UNCHANGED <<tables, take, make>>
        PROVE  Counted'
    BY <1>1, MeasuredKept, QuietCounted DEF tables
  <1>2. CASE UNCHANGED vars
    BY <1>1, <1>2 DEF vars, locals
  <1>3. CASE Trade
    BY <1>3, BuyCounted, SellCounted DEF Trade
  <1>4. ASSUME NEW w \in Requests, Convert(w)
        PROVE  Counted'
    <2>1. CASE \E recipe \in Recipes :
                 \E t \in Amounts(recipe.inputs), m \in Amounts(recipe.outputs) :
                   ConvertRead(w, recipe, t, m)
      BY <2>1, ConvertReadCounted
    <2>2. CASE AskInputs(w) \/ AskOutputs(w) \/ \E r \in Rows : LockOne(w, r)
      BY <1>1, <2>2 DEF AskInputs, AskOutputs, LockOne
    <2>3. CASE ConvertCommit(w)
      BY <2>3, ConvertCommitBooked, LeaveMeasured DEF Counted, ConvertCommit
    <2>4. CASE Refuse(w) \/ DeadlockVictim(w) \/ WorkerDies(w)
      BY <2>4, LeaveMeasured, QuietCounted DEF Refuse, DeadlockVictim, WorkerDies, Rollback, tables
    <2> QED BY <1>4, <2>1, <2>2, <2>3, <2>4 DEF Convert
  <1> QED BY <1>2, <1>3, <1>4 DEF Next

LEMMA CountedAgrees == Sound /\ Counted => LedgerAgrees
  BY BalanceIsWorth DEF Sound, Counted, Booked, LedgerAgrees

-----------------------------------------------------------------------------
(* Conversion implements Stock. *)

\* What a request converts is what a recipe names.
FollowsRecipe(w) ==
  pc[w] # "idle" => \E recipe \in Recipes : /\ take[w] \in Amounts(recipe.inputs)
                                            /\ make[w] \in Amounts(recipe.outputs)

Ordered == \A w \in Requests : FollowsRecipe(w)

LEMMA InitOrdered == Init => Ordered
  BY DEF Init, Ordered, FollowsRecipe

LEMMA OrderedStep ==
  ASSUME Ordered, NEW w \in Requests,
         pc'[w] = "idle" \/ (pc[w] # "idle" /\ take'[w] = take[w] /\ make'[w] = make[w]),
         \A x \in Requests \ {w} : pc'[x] = pc[x] /\ take'[x] = take[x] /\ make'[x] = make[x]
  PROVE  Ordered'
  <1> SUFFICES ASSUME NEW x \in Requests PROVE FollowsRecipe(x)'
    BY DEF Ordered
  <1>1. FollowsRecipe(x)
    BY DEF Ordered
  <1> QED BY <1>1 DEF FollowsRecipe, Amounts

LEMMA NextOrdered == Sound /\ Ordered /\ [Next]_vars => Ordered'
  <1> SUFFICES ASSUME Sound, Ordered, [Next]_vars PROVE Ordered'
    OBVIOUS
  <1>1. LocalTypes
    BY DEF Sound, TypeOK, LocalTypes
  <1>2. ASSUME UNCHANGED <<pc, take, make>>
        PROVE  Ordered'
    BY <1>2 DEF Ordered, FollowsRecipe, Amounts
  <1>3. CASE UNCHANGED vars
    BY <1>2, <1>3 DEF vars, locals
  <1>4. CASE Trade
    BY <1>2, <1>4 DEF Trade, Buy, Sell, locals
  <1>5. ASSUME NEW w \in Requests, Convert(w)
        PROVE  Ordered'
    <2>1. ASSUME NEW recipe \in Recipes, NEW t \in Amounts(recipe.inputs),
                 NEW m \in Amounts(recipe.outputs), ConvertRead(w, recipe, t, m)
          PROVE  Ordered'
      <3>1. take'[w] = t /\ make'[w] = m
        BY <1>1, <2>1 DEF ConvertRead, LocalTypes
      <3>2. FollowsRecipe(w)'
        BY <3>1 DEF FollowsRecipe, Amounts
      <3>3. ASSUME NEW x \in Requests \ {w}
            PROVE  FollowsRecipe(x)'
        <4>1. pc'[x] = pc[x] /\ take'[x] = take[x] /\ make'[x] = make[x]
          BY <1>1, <2>1 DEF ConvertRead, LocalTypes
        <4>2. FollowsRecipe(x)
          BY DEF Ordered
        <4> QED BY <4>1, <4>2 DEF FollowsRecipe, Amounts
      <3> QED BY <3>2, <3>3 DEF Ordered
    <2>2. CASE AskInputs(w) \/ AskOutputs(w)
      BY <1>1, <2>2, OrderedStep DEF AskInputs, AskOutputs, LocalTypes
    <2>3. CASE \E r \in Rows : LockOne(w, r)
      BY <1>2, <2>3 DEF LockOne
    <2>4. CASE Refuse(w) \/ DeadlockVictim(w) \/ WorkerDies(w) \/ ConvertCommit(w)
      BY <1>1, <2>4, OrderedStep
         DEF Refuse, DeadlockVictim, WorkerDies, ConvertCommit, Rollback, Leave, LocalTypes
    <2> QED BY <1>5, <2>1, <2>2, <2>3, <2>4 DEF Convert
  <1> QED BY <1>3, <1>4, <1>5 DEF Next

Inside == Sound /\ Traced /\ Counted /\ Ordered

LEMMA InitInside == Init => Inside
  BY InitSound, InitTraced, InitCounted, InitOrdered DEF Inside

LEMMA NextInside ==
  Inside /\ "purchase" \notin Races /\ NoLoops /\ NoHalves /\ [Next]_vars => Inside'
  BY NextSound, NextTraced, NextCounted, NextOrdered DEF Inside

\* The stock that is shown is the ledger.
Shown == [c \in Commodities |-> Balance(c)]

LEMMA ShownIsLedger == Inside => Shown = ledger
  <1> SUFFICES ASSUME Inside PROVE Shown = ledger
    OBVIOUS
  <1>1. \A c \in Commodities : Balance(c) = ledger[c]
    BY CountedAgrees DEF Inside, LedgerAgrees
  <1>2. ledger \in [Commodities -> Int]
    BY DEF Inside, Sound, TypeOK
  <1> QED BY <1>1, <1>2 DEF Shown

LEMMA ShownAfter == Inside' => (Shown = ledger)'
  BY ShownIsLedger, PTL

\* The one row a trade finds holds the stock of the commodity.
LEMMA TradedRow ==
  ASSUME Inside, NEW c \in Commodities, NEW r \in TradableRows(c)
  PROVE  volume[r] = ledger[c]
  <1>1. Balance(c) = ledger[c]
    BY CountedAgrees DEF Inside, LedgerAgrees
  <1>2. r \in Rows /\ volume[r] \in Int
    BY DEF TradableRows, Inside, Sound, TypeOK
  <1>3. CASE RowsOf({c}) = {r}
    BY <1>1, <1>2, <1>3, SumOfOne DEF Balance
  <1>4. CASE RowsOf({c}) = {} /\ r \in FreeRows
    BY <1>1, <1>4, SumOfNothing DEF Balance, Inside, Counted, Vacant
  <1> QED BY <1>3, <1>4 DEF TradableRows

\* A row is worth at most the balance of its commodity.
LEMMA StockCovers ==
  ASSUME Inside, NEW c \in Commodities
  PROVE  /\ ledger[c] \in Int /\ ledger[c] >= 0
         /\ \A r \in RowsOf({c}) : ledger[c] >= volume[r]
  <1>1. Balance(c) = ledger[c] /\ TypeOK /\ BalancesNeverNegative
    BY CountedAgrees DEF Inside, LedgerAgrees, Sound
  <1>2. RowsOf({c}) \in SUBSET Rows
    BY DEF RowsOf
  <1>3. IsFiniteSet(RowsOf({c}))
    BY <1>2, RowsAssumption, FS_Subset
  <1>4. \A r \in RowsOf({c}) : volume[r] \in Int /\ volume[r] >= 0
    BY <1>1, <1>2 DEF TypeOK, BalancesNeverNegative
  <1>5. SumFunctionOnSet(volume, RowsOf({c})) >= 0
    BY <1>3, <1>4, SumIsNat
  <1>6. \A r \in RowsOf({c}) : SumFunctionOnSet(volume, RowsOf({c})) >= volume[r]
    BY <1>3, <1>4, SumCovers
  <1> QED BY <1>1, <1>5, <1>6 DEF Balance, TypeOK

LEMMA BuyMaps ==
  ASSUME Inside, Shown = ledger, Shown' = ledger',
         NEW c \in Traded, NEW v \in Volumes, NEW l \in Levels, Buy(c, v, l)
  PROVE  Ideal!Next
  <1>1. c \in Commodities
    BY LevelAssumption
  <1>2. Ideal!Buy(c, v, l)
    BY DEF Buy, Ideal!Buy, Shown
  <1> QED BY <1>1, <1>2 DEF Ideal!Next

LEMMA SellMaps ==
  ASSUME Inside, Shown = ledger, Shown' = ledger',
         NEW c \in Traded, NEW v \in Volumes, Sell(c, v)
  PROVE  Ideal!Next
  <1>1. c \in Commodities /\ v \in Int
    BY LevelAssumption, QuantityAssumption
  <1> DEFINE short(r) == IF v > volume[r] THEN v - volume[r] ELSE 0
  <1>2. PICK r \in TradableRows(c) :
          /\ ledger' = [ledger EXCEPT ![c] = ledger[c] + short(r) - v]
          /\ levels' = [levels EXCEPT ![c] = IF short(r) > 0 THEN @ \cup {Incomplete} ELSE @]
    BY DEF Sell
  <1>3. PICK n \in Int : n = ledger[c] /\ n = volume[r] /\ n = Shown[c]
    BY <1>1, TradedRow, StockCovers
  <1>4. TypeOK
    BY DEF Inside, Sound
  <1>5. CASE v <= n
    <2>1. short(r) = 0 /\ n + 0 - v = n - v
      BY <1>1, <1>3, <1>5
    <2>2. ledger' = [ledger EXCEPT ![c] = n - v]
      BY <1>2, <1>3, <2>1
    <2>3. levels' = levels
      BY <1>1, <1>2, <1>4, <2>1 DEF TypeOK
    <2>4. Ideal!Sell(c, v)
      BY <1>3, <1>5, <2>2, <2>3 DEF Ideal!Sell, Shown
    <2> QED BY <1>1, <2>4 DEF Ideal!Next
  <1>6. CASE v > n
    <2>1. short(r) > 0 /\ n + short(r) - v = 0
      BY <1>1, <1>3, <1>6
    <2>2. ledger' = [ledger EXCEPT ![c] = 0]
      BY <1>2, <1>3, <2>1
    <2>3. levels' = [levels EXCEPT ![c] = @ \cup {Incomplete}]
      BY <1>2, <2>1
    <2>4. Ideal!Sell(c, v)
      BY <1>3, <1>6, <2>2, <2>3 DEF Ideal!Sell, Shown, Incomplete, Ideal!Incomplete
    <2> QED BY <1>1, <2>4 DEF Ideal!Next
  <1> QED BY <1>1, <1>3, <1>5, <1>6

\* A commit: the inputs are in stock, the transactions say what moves, and the level
\* is the worst of what the inputs are known to be.
LEMMA CommitMaps ==
  ASSUME Inside, Shown = ledger, Shown' = ledger', NEW w \in Requests, ConvertCommit(w)
  PROVE  Ideal!Next
  <1>1. TypeOK /\ InHand(w) /\ Current(w) /\ Measured(w) /\ pc[w] = "lock_outputs"
    BY DEF Inside, Sound, Counted, ConvertCommit
  <1>2. PICK recipe \in Recipes :
          take[w] \in Amounts(recipe.inputs) /\ make[w] \in Amounts(recipe.outputs)
    BY <1>1 DEF Inside, Ordered, FollowsRecipe
  <1>3. take[w] \in Ideal!Chosen(recipe.inputs) /\ make[w] \in Ideal!Chosen(recipe.outputs)
    BY <1>2 DEF Amounts, Ideal!Chosen
  <1>4. ASSUME NEW c \in Commodities
        PROVE  Scale * ledger[c] >= take[w][c]
    <2>0. Scale \in Nat /\ take[w][c] \in Int /\ ledger[c] \in Nat
      <3>1. ledger[c] \in Int /\ ledger[c] >= 0
        BY StockCovers
      <3> QED BY <1>1, <3>1, QuantityAssumption DEF TypeOK
    <2>1. PICK s \in Nat, q \in Int, n \in Nat : s = Scale /\ q = take[w][c] /\ n = ledger[c]
      BY <2>0
    <2>2. CASE q > 0
      <3>1. c \in Positive(take[w])
        BY <2>1, <2>2 DEF Positive
      <3>2. PICK r \in inputs[w] : rowOf[r] = c /\ Scale * seen[w][r] >= take[w][c]
        BY <1>1, <3>1 DEF InHand, Sufficient
      <3>3. r \in Rows /\ seen[w][r] = volume[r]
        BY <1>1, <3>2 DEF Current, TypeOK
      <3>4. PICK v \in Nat : v = volume[r] /\ v <= n
        <4>1. r \in RowsOf({c})
          BY <3>2, <3>3 DEF RowsOf
        <4>2. volume[r] <= n
          BY <2>1, <4>1, StockCovers
        <4>3. volume[r] \in Nat
          BY <1>1, <3>3 DEF TypeOK, Inside, Sound, BalancesNeverNegative
        <4> QED BY <4>2, <4>3
      <3>5. s * v >= q
        BY <2>1, <3>2, <3>3, <3>4
      <3>6. PICK d \in Nat : n = v + d
        <4>1. n - v \in Nat /\ n = v + (n - v)
          BY <3>4
        <4> QED BY <4>1
      <3>7. s * n = s * v + s * d /\ s * d >= 0
        BY <3>6
      <3>8. PICK a \in Int, b \in Int : a = s * v /\ b = s * d
        OBVIOUS
      <3> QED BY <2>1, <3>5, <3>7, <3>8
    <2>3. CASE q <= 0
      <3>1. s * n \in Nat
        OBVIOUS
      <3> QED BY <2>1, <2>3, <3>1
    <2> QED BY <2>1, <2>2, <2>3
  <1>5. ledger' = [c \in Commodities |->
                    ledger[c] - Ideal!Moved(take[w], c) + Ideal!Moved(make[w], c)]
    <2>1. ASSUME NEW c \in Commodities
          PROVE  ledger[c] + Entry(w, c)
                   = ledger[c] - Ideal!Moved(take[w], c) + Ideal!Moved(make[w], c)
      <3>0. Rounded(take[w][c]) \in Int /\ Rounded(make[w][c]) \in Int
        BY <1>1, RoundedInt DEF TypeOK
      <3>1. PICK t \in Int, m \in Int :
              /\ t = IF take[w][c] > 0 THEN Rounded(take[w][c]) ELSE 0
              /\ m = IF make[w][c] > 0 THEN Rounded(make[w][c]) ELSE 0
        BY <3>0
      <3>2. Entry(w, c) = m - t
        BY <3>1 DEF Entry
      <3>3. Ideal!Moved(take[w], c) = t /\ Ideal!Moved(make[w], c) = m
        BY <3>1 DEF Ideal!Moved, Ideal!Hundredths, Rounded
      <3>4. ledger[c] \in Int
        BY <1>1 DEF TypeOK
      <3> QED BY <3>2, <3>3, <3>4
    <2> QED BY <2>1 DEF ConvertCommit
  <1>6. level[w] = LET ls == UNION {levels[c] : c \in {x \in Commodities : take[w][x] > 0}}
                   IN IF ls = {} THEN Ideal!Incomplete ELSE Ideal!Min(ls)
    BY <1>1 DEF Inside, Traced, StillTrue, ConversionTraceability, Positive, Incomplete,
                Ideal!Incomplete, Min, Ideal!Min
  <1>7. levels' = [c \in Commodities |->
                    IF make[w][c] > 0 THEN levels[c] \cup {level[w]} ELSE levels[c]]
    BY DEF ConvertCommit
  <1>8. Ideal!Convert(take[w], make[w])
    BY <1>4, <1>5, <1>6, <1>7 DEF Ideal!Convert, Shown
  <1> QED BY <1>2, <1>3, <1>8 DEF Ideal!Next

LEMMA NextMaps ==
  ASSUME Inside, Inside', [Next]_vars
  PROVE  [Ideal!Next]_(Ideal!vars)
  <1>1. Shown = ledger /\ Shown' = ledger'
    BY ShownIsLedger, ShownAfter
  <1>2. ASSUME UNCHANGED tables
        PROVE  UNCHANGED Ideal!vars
    BY <1>1, <1>2 DEF tables, Ideal!vars, Shown
  <1>3. CASE UNCHANGED vars
    BY <1>2, <1>3 DEF vars
  <1>4. CASE Trade
    BY <1>1, <1>4, BuyMaps, SellMaps DEF Trade
  <1>5. ASSUME NEW w \in Requests, Convert(w)
        PROVE  [Ideal!Next]_(Ideal!vars)
    <2>1. CASE ConvertCommit(w)
      BY <1>1, <2>1, CommitMaps
    <2>2. CASE ~ConvertCommit(w)
      BY <1>2, <1>5, <2>2 DEF Convert, ConvertRead, AskInputs, AskOutputs, LockOne, Refuse,
                              DeadlockVictim, WorkerDies, Rollback
    <2> QED BY <2>1, <2>2
  <1> QED BY <1>3, <1>4, <1>5 DEF Next

LEMMA InitMaps == Init => Ideal!Init
  <1> SUFFICES ASSUME Init PROVE Ideal!Init
    OBVIOUS
  <1>1. Shown = ledger
    BY InitInside, ShownIsLedger
  <1> QED BY <1>1 DEF Init, Ideal!Init, Shown, Nothing

-----------------------------------------------------------------------------
\* Every variable of a conversion and of the tables it works on keeps its type.
THEOREM ConversionTypes == Spec => []TypeOK
  <1>1. Sound => TypeOK
    BY DEF Sound
  <1> QED BY InitSound, NextSound, <1>1, PTL DEF Spec

\* However conversions and trades of one user overlap, and whatever quantities its
\* recipes name, no balance falls below zero: create_conversion compares under the
\* locks it keeps until it writes, and rounds a rest of at least zero.
THEOREM NeverOverdrawn == Spec => []BalancesNeverNegative
  <1>1. Sound => BalancesNeverNegative
    BY DEF Sound
  <1> QED BY InitSound, NextSound, <1>1, PTL DEF Spec

\* What a conversion writes on is the worst of what its inputs have become, as long
\* as nobody buys an input between its reading of the traceability and its locks on
\* the inputs (get_conversion_traceability runs before select_for_update).
THEOREM LevelIsRight ==
  ASSUME "purchase" \notin Races
  PROVE  Spec => []LevelIsWorstInput
  <1>1. Init => Sound /\ Traced
    BY InitSound, InitTraced
  <1>2. Sound /\ Traced /\ [Next]_vars => Sound' /\ Traced'
    BY NextSound, NextTraced
  <1> QED BY <1>1, <1>2, TracedIsRight, PTL DEF Spec

\* The balance of a commodity is what its transactions add up to, however conversions
\* and trades of a user overlap and however many rows they have opened for it, for
\* recipes that do not make what they take and quantities that rounding does not split
\* (the balance and the transactions are rounded on their own).
THEOREM BalancesFollowLedger ==
  ASSUME NoLoops, NoHalves
  PROVE  Spec => []LedgerAgrees
  <1>1. Init => Sound /\ Counted
    BY InitSound, InitCounted
  <1>2. Sound /\ Counted /\ [Next]_vars => Sound' /\ Counted'
    BY NextSound, NextCounted
  <1> QED BY <1>1, <1>2, CountedAgrees, PTL DEF Spec

\* A conversion takes effect at one moment, its commit, with the volumes that its
\* transactions record and the level its inputs have at that moment: Conversion
\* implements Stock, in which no request overlaps with another, under the same
\* assumptions on recipes, quantities and purchases.
THEOREM ConversionImplementsStock ==
  ASSUME "purchase" \notin Races, NoLoops, NoHalves
  PROVE  Spec => ImplementsStock
  <1>1. Init => Inside /\ Ideal!Init
    BY InitInside, InitMaps
  <1>2. Inside /\ [Next]_vars => Inside'
    BY NextInside
  <1>3. Inside /\ Inside' /\ [Next]_vars => [Ideal!Next]_(Ideal!vars)
    BY NextMaps
  <1> QED BY <1>1, <1>2, <1>3, PTL DEF Spec, ImplementsStock, Ideal!Spec

=============================================================================
