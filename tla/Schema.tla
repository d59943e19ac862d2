------------------------------- MODULE Schema -------------------------------
(***************************************************************************)
(* Tables behind the catalogue, the seasons and the transactions, their      *)
(* references to each other, and the history tables beside them:             *)
(* whimo/db/migrations/0001_create_models.py and whimo/db/models.            *)
(*                                                                         *)
(* History rows are written by signals of single saves and deletions, from    *)
(* the instance in memory.  Bulk updates send none; whoever changes a row says *)
(* what it recorded.                                                        *)
(***************************************************************************)
EXTENDS Naturals, FiniteSets

CONSTANTS
  Users, Groups, Commodities, Recipes,
  Keys,          \* primary keys of transactions: numbers, handed out in any order
  Seasons,       \* primary keys of seasons: numbers
  Plots,         \* coordinates of farms
  None           \* NULL

ASSUME SchemaAssumption ==
  /\ Keys \subseteq Nat \ {0} /\ Seasons \subseteq Nat
  /\ IsFiniteSet(Keys) /\ IsFiniteSet(Seasons)
  /\ None \notin Users \cup Groups \cup Commodities \cup Recipes \cup Plots \cup Seasons

VARIABLES
  commodity,     \* group of each commodity, None where there is no row
  group,         \* commodity_groups
  season,        \* rows of seasons, NoSeason where there is none
  participant,   \* season_commodities: pairs of a season and a commodity
  recipe,        \* conversion_recipes
  input, output, \* conversion_inputs and _outputs: pairs of a recipe and a commodity
  balance,       \* balances: pairs of a user and a commodity
  trx,           \* rows of transactions, NoTransaction where there is none
  history,       \* what the last history row of each object says
  file           \* what object storage holds for each transaction

tables == <<commodity, group, season, participant, recipe, input, output, balance, trx, history, file>>

-----------------------------------------------------------------------------
\* Time is counted in transactions: the n-th one written is created at n.
Moments == 1 .. Cardinality(Keys)

\* The dates of a season may be open: 0 stands for NULL.
SeasonRow == [start : Moments \cup {0}, end : Moments \cup {0}]
NoSeason == [start |-> 0, end |-> 0, absent |-> TRUE]

\* batch is the column group_id, 0 for NULL; "manual" stands for "gps" too.
TransactionRow ==
  [type : {"producer", "downstream", "conversion"}, status : {"pending", "accepted", "rejected"},
   commodity : Commodities, seller : Users \cup {None}, buyer : Users \cup {None},
   creator : Users, batch : Nat, location : {"none", "manual", "file", "qr"}, plot : Plots \cup {None},
   created : Moments, season : Seasons \cup {None}]
NoTransaction == [type |-> "none"]

Written == {k \in Keys : trx[k] # NoTransaction}
OpenSeasons == {s \in Seasons : season[s] # NoSeason}

GroupTable == SUBSET Groups
SeasonTable == [Seasons -> SeasonRow \cup {NoSeason}]
TransactionTable == [Keys -> TransactionRow \cup {NoTransaction}]
CommodityTable == [Commodities -> Groups \cup {None}]
ParticipantTable == SUBSET (Seasons \X Commodities)
RecipeTable == SUBSET Recipes
InputTable == SUBSET (Recipes \X Commodities)
OutputTable == SUBSET (Recipes \X Commodities)
BalanceTable == SUBSET (Users \X Commodities)
FileTable == [Keys -> {"none", "invalid", "valid"}]

\* What repeated steps of a relation between keys reach: no path is longer than
\* there are keys.
Reached(first, Steps) ==
  LET Grow(keys) == keys \cup {p[2] : p \in {q \in Steps : q[1] \in keys}}
      reached[n \in 0 .. Cardinality(Keys)] == IF n = 0 THEN {first} ELSE Grow(reached[n - 1]) IN
  reached[Cardinality(Keys)]

-----------------------------------------------------------------------------
\* Objects: a row of some table.
Objects ==
  ({"group"} \X Groups) \cup ({"commodity"} \X Commodities) \cup ({"season"} \X Seasons)
    \cup ({"participant"} \X (Seasons \X Commodities)) \cup ({"recipe"} \X Recipes)
    \cup ({"input", "output"} \X (Recipes \X Commodities)) \cup ({"transaction"} \X Keys)

\* What a history table keeps of a row: neither key nor time stamps.  A row that
\* says deleted, or no history at all, is what an absent row gives.
RecordOfGroup(g) == g \in group
RecordOfCommodity(c) == commodity[c]
RecordOfSeason(s) == season[s]
RecordOfParticipant(p) == p \in participant
RecordOfRecipe(r) == r \in recipe
RecordOfInput(p) == p \in input
RecordOfOutput(p) == p \in output
InHistory(row) == IF row = NoTransaction THEN NoTransaction ELSE [row EXCEPT !.created = 0]
RecordOfTransaction(k) == InHistory(trx[k])

Record(o) ==
  CASE o[1] = "group" -> RecordOfGroup(o[2])
    [] o[1] = "commodity" -> RecordOfCommodity(o[2])
    [] o[1] = "season" -> RecordOfSeason(o[2])
    [] o[1] = "participant" -> RecordOfParticipant(o[2])
    [] o[1] = "recipe" -> RecordOfRecipe(o[2])
    [] o[1] = "input" -> RecordOfInput(o[2])
    [] o[1] = "output" -> RecordOfOutput(o[2])
    [] o[1] = "transaction" -> RecordOfTransaction(o[2])

\* Rows that are there.
Exists(o) ==
  CASE o[1] = "commodity" -> commodity[o[2]] # None
    [] o[1] = "season" -> season[o[2]] # NoSeason
    [] o[1] = "transaction" -> trx[o[2]] # NoTransaction
    [] OTHER -> Record(o)

\* The signals of deleting objects, and of saving instances whole: they are the rows.
Recorded(objects) == history' = [o \in Objects |-> IF o \in objects THEN Record(o)' ELSE history[o]]

-----------------------------------------------------------------------------
\* on_delete of each foreign key.
\* PROTECT: objects of this kind keep o from being deleted.
Protectors(o) ==
  CASE o[1] = "group" -> {<<"commodity", c>> : c \in {d \in Commodities : commodity[d] = o[2]}}
    [] o[1] = "commodity" ->
         {<<"transaction", k>> : k \in {j \in Written : trx[j].commodity = o[2]}}
           \cup {<<"balance", b>> : b \in {a \in balance : a[2] = o[2]}}
    [] OTHER -> {}

\* Mutant: Transaction.season with CASCADE as well.
DependentsOfSeason(o) ==
  CASE o[1] = "season" -> {<<"participant", p>> : p \in {q \in participant : q[1] = o[2]}}
                            \cup {<<"transaction", k>> : k \in {j \in Written : trx[j].season = o[2]}}
    [] o[1] = "commodity" ->
         {<<"participant", p>> : p \in {q \in participant : q[2] = o[2]}}
           \cup {<<"input", p>> : p \in {q \in input : q[2] = o[2]}}
           \cup {<<"output", p>> : p \in {q \in output : q[2] = o[2]}}
    [] o[1] = "recipe" -> {<<"input", p>> : p \in {q \in input : q[1] = o[2]}}
                            \cup {<<"output", p>> : p \in {q \in output : q[1] = o[2]}}
    [] OTHER -> {}

\* CASCADE: objects that go with o.
Dependents(o) ==
  CASE o[1] = "season" -> {<<"participant", p>> : p \in {q \in participant : q[1] = o[2]}}
    [] o[1] = "commodity" ->
         {<<"participant", p>> : p \in {q \in participant : q[2] = o[2]}}
           \cup {<<"input", p>> : p \in {q \in input : q[2] = o[2]}}
           \cup {<<"output", p>> : p \in {q \in output : q[2] = o[2]}}
    [] o[1] = "recipe" -> {<<"input", p>> : p \in {q \in input : q[1] = o[2]}}
                            \cup {<<"output", p>> : p \in {q \in output : q[1] = o[2]}}
    [] OTHER -> {}

\* SET_NULL: transactions forget a season.
Forgotten(o) == IF o[1] = "season" THEN {k \in Written : trx[k].season = o[2]} ELSE {}

SchemaTypeOK ==
  /\ group \in GroupTable
  /\ commodity \in CommodityTable
  /\ season \in SeasonTable
  /\ participant \in ParticipantTable
  /\ recipe \in RecipeTable
  /\ input \in InputTable
  /\ output \in OutputTable
  /\ balance \in BalanceTable
  /\ trx \in TransactionTable
  /\ DOMAIN history = Objects
  /\ file \in FileTable
=============================================================================
