------------------------------- MODULE Records -------------------------------
(***************************************************************************)
(* The tables of the catalogue and of the transactions under everybody who   *)
(* writes and reads them: traders, the admin site, the season task, chain    *)
(* downloads, lists and figures.                                            *)
(***************************************************************************)
EXTENDS Catalogue, TradeRequests, SeasonDistribution, ChainTraversal, Listing, Analytics

CONSTANTS
  Requests,       \* the trades that may be asked for
  Supplied,       \* the transactions whose location may be updated
  Uploads,        \* the files sent for them: what they are called and whether they are one
  SeasonEdits,    \* what the admin site may save: a season, its row and its commodities
  RecipeEdits,    \* a recipe, its inputs and its outputs
  CommodityEdits, \* a commodity and its group
  FirstTables,    \* the tables at the beginning
  Walks, Lists, Screens, \* where downloads begin; lists that are read; users who look at figures
  FirstCache,     \* figures kept at the beginning
  MaxEvents       \* trades, edits, downloads, lists and figures in a behaviour

\* Any tables that PostgreSQL would accept, with transactions numbered as they were
\* created and conversions written as accepted (mappers.py:172); requests and edits
\* as the schemas and the forms of the admin site let them pass.
ASSUME RecordsAssumption ==
  LET t == FirstTables
      rows == {k \in Keys : t.trx[k] # NoTransaction}
      seasons == {s \in Seasons : t.season[s] # NoSeason} IN
  /\ Requests \subseteq Request /\ MaxEvents \in Nat
  /\ SeasonEdits \subseteq Seasons \X SeasonRow \X (SUBSET Commodities)
  /\ RecipeEdits \subseteq Recipes \X (SUBSET Commodities) \X (SUBSET Commodities)
  /\ CommodityEdits \subseteq Commodities \X Groups
  /\ Supplied \subseteq Keys /\ Uploads \subseteq {"file", "qr"} \X {"invalid", "valid"}
  /\ Walks \subseteq Keys /\ Lists \subseteq ListRequest /\ Screens \subseteq Users
  /\ FirstCache \in [Users -> Figures \cup {NoFigures}]
  /\ t.group \in GroupTable /\ t.commodity \in CommodityTable /\ t.season \in SeasonTable
  /\ t.participant \in ParticipantTable /\ t.recipe \in RecipeTable /\ t.input \in InputTable
  /\ t.output \in OutputTable /\ t.balance \in BalanceTable /\ t.trx \in TransactionTable
  /\ t.file \in FileTable
  /\ \A c \in Commodities : t.commodity[c] \in t.group \cup {None}
  /\ \A k \in rows : t.trx[k].season \in seasons \cup {None} /\ t.commodity[t.trx[k].commodity] # None
  /\ \A p \in t.participant : p[1] \in seasons
  /\ \A p \in t.input \cup t.output : p[1] \in t.recipe
  /\ \A p \in t.participant \cup t.input \cup t.output \cup t.balance : t.commodity[p[2]] # None
  /\ \A k \in rows :
       /\ t.trx[k].created <= Cardinality(rows)
       /\ t.trx[k].type = "conversion" => t.trx[k].status = "accepted"
       /\ \A j \in rows : t.trx[j].created = t.trx[k].created => j = k

VARIABLE events    \* trades, edits and reads so far

jobs == <<run, walk, listing, metrics, cache>>
vars == <<tables, removal, handlers, jobs, events>>

Init ==
  /\ commodity = FirstTables.commodity /\ group = FirstTables.group
  /\ season = FirstTables.season /\ participant = FirstTables.participant
  /\ recipe = FirstTables.recipe /\ input = FirstTables.input /\ output = FirstTables.output
  /\ balance = FirstTables.balance /\ trx = FirstTables.trx
  /\ file = FirstTables.file
  \* Conversions are written in bulk, without history.
  /\ history = [o \in Objects |-> IF o[1] = "transaction" /\ trx[o[2]].type = "conversion"
                                  THEN NoTransaction ELSE Record(o)]
  /\ work = [w \in Workers |-> NoWork] /\ stale = {} /\ undone = {}
  /\ removal = NoRemoval /\ run = NoRun /\ walk = NoWalk /\ listing = NoListing
  \* What is cached was computed some time ago, and figures do not fall.
  /\ metrics = NoMetrics /\ cache = FirstCache /\ \A u \in Users : Above(FiguresNow(u), cache[u])
  /\ events = 0

-----------------------------------------------------------------------------
Event == events < MaxEvents /\ events' = events + 1

Trader ==
  /\ UNCHANGED <<removal, jobs>>
  /\ \E w \in Workers :
       \/ /\ Event
          /\ \/ \E request \in Requests, k \in Keys : Trade(w, request, k)
             \/ \E k \in Keys : AcceptRead(w, k)
             \/ \E k \in Keys : RejectRead(w, k)
             \/ \E k \in Supplied : UpdateRead(w, k)
       \/ /\ UNCHANGED events
          /\ \/ \E content \in {"invalid", "valid"} : UploadNew(w, content)
             \/ \E auto \in {{}} \cup {{a} : a \in Keys} : Accept(w, auto)
             \/ Reject(w)
             \/ \E u \in Uploads : Upload(w, u[1], u[2])
             \/ SaveLocation(w)
             \/ Abandon(w)

Deletion == Delete /\ UNCHANGED <<handlers, jobs, events>>

Admin ==
  \/ /\ Event /\ UNCHANGED <<handlers, jobs>>
     /\ \/ /\ UNCHANGED removal
           /\ \/ \E e \in SeasonEdits : SaveSeason(e[1], e[2], e[3])
              \/ \E e \in RecipeEdits : SaveRecipe(e[1], e[2], e[3])
              \/ \E e \in CommodityEdits : SaveCommodity(e[1], e[2])
        \/ \E o \in Objects : Collect(o)
  \/ Deletion

SeasonTask == Distribute /\ UNCHANGED <<removal, handlers, walk, listing, metrics, cache, events>>

\* One read at a time.
Quiet == walk = NoWalk /\ listing = NoListing /\ metrics = NoMetrics

Reader ==
  /\ UNCHANGED <<removal, handlers, run>>
  /\ \/ /\ Quiet /\ Event
        /\ \/ \E k \in Walks : StartWalk(k) /\ UNCHANGED <<listing, metrics, cache>>
           \/ \E l \in Lists : OpenList(l) /\ UNCHANGED <<walk, metrics, cache>>
           \/ \E u \in Screens : AskFigures(u) /\ UNCHANGED <<walk, listing>>
     \/ Walk /\ UNCHANGED <<listing, metrics, cache, events>>
     \/ List /\ UNCHANGED <<walk, metrics, cache, events>>
     \/ Measure /\ UNCHANGED <<walk, listing, events>>
     \/ \E u \in Users : Outdated(u) /\ UNCHANGED <<walk, listing, events>>

Next == Trader \/ Admin \/ SeasonTask \/ Reader

\* Celery beat starts the task every hour, and a worker goes on with it; a deletion ends.
Spec == Init /\ [][Next]_vars /\ WF_vars(SeasonTask) /\ WF_vars(Deletion)

-----------------------------------------------------------------------------
TypeOK ==
  /\ SchemaTypeOK /\ HandlersTypeOK /\ DistributionTypeOK /\ WalkTypeOK /\ ListingTypeOK /\ AnalyticsTypeOK
  /\ removal \in [object : Objects \cup {None}, rows : SUBSET Objects]
  /\ events \in 0 .. MaxEvents

\* What a row refers to exists: no season is assigned after its deletion, and nothing
\* is deleted under a row that is inserted meanwhile (season_distribution.py:34, the
\* foreign keys of whimo/db/models).
ReferencesHold ==
  /\ \A k \in Written : trx[k].season \in OpenSeasons \cup {None} /\ commodity[trx[k].commodity] # None
  /\ \A c \in Commodities : commodity[c] \in group \cup {None}
  /\ \A p \in participant : p[1] \in OpenSeasons
  /\ \A p \in input \cup output : p[1] \in recipe
  /\ \A p \in participant \cup input \cup output \cup balance : commodity[p[2]] # None

\* The last history row of every object says what its table says, but for what bulk
\* statements write: conversions, which have none, and the seasons of transactions
\* (season_distribution.py:34, services.py:359).  After a save from a copy that another
\* save had overtaken (services.py:183, 416, 433) the history of a transaction may be
\* wrong about its status or its location, never both, and it never shows a transaction
\* as settled that is pending.
Terms(row) == <<row.type, row.commodity, row.seller, row.buyer, row.creator, row.batch, row.plot>>
Told(h, row, overtaken) ==
  /\ Terms(h) = Terms(row)
  /\ h.status = row.status \/ (overtaken /\ h.location = row.location)
  /\ h.location = row.location \/ overtaken
  /\ h.status # "pending" => row.status # "pending"
HistoryAgrees ==
  \A o \in Objects :
    LET k == o[2] IN
    IF o[1] # "transaction" THEN history[o] = Record(o)
    ELSE IF k \notin Written THEN history[o] = NoTransaction
    ELSE trx[k].type # "conversion" => Told(history[o], trx[k], k \in stale)

\* No edit of the catalogue ever removes a transaction or changes who traded what:
\* commodities in use are protected, seasons only forgotten (db/models/transactions.py:80).
Trades(k) == <<trx[k].commodity, trx[k].seller, trx[k].buyer, trx[k].batch, trx[k].created>>
TransactionsAreKept == [][\A k \in Written : trx'[k] # NoTransaction /\ Trades(k)' = Trades(k)]_vars

\* Once the edits end, every transaction with a matching season comes to be assigned
\* (season_distribution.py:22): batches by key miss nothing for good, whatever was
\* inserted or edited while they ran.
SeasonsAreFound == []<>(Unassigned = {})

\* A download names the rows of the chain: everything that was in it when the walk
\* began, and nothing that is not in it now, each as merged or missing and never
\* both, although every round of the walk saw other data (storages/transactions.py:172).
\* A purchase that was accepted and then given another end leaves the chain.
ChainIsBracketed ==
  LET Part(rows) == IF walk.at = "features" THEN FirstSellers(rows) ELSE rows
      named == walk.merged \cup walk.missing IN
  walk.at \in {"bundle", "features", "export"} =>
    /\ undone = {} => Part(walk.began) \subseteq named /\ named \subseteq Part(Chain(walk.first))
    /\ walk.merged \cap walk.missing = {}
    /\ walk.at = "bundle" => walk.merged \subseteq walk.custom

\* Whoever follows the pages of a list to the end misses, of the rows that were in it
\* all the time, at most one for each row that left it between two pages: a trade that
\* was settled, say, in a list of the pending ones.  Rows that come hide none, but
\* between the count and the slice of the last page (common/utils.py:32), and when the
\* order leaves rows tied, all this is off (storages/transactions.py:103).
SkipsAreDepartures ==
  listing.at = "end" /\ ~listing.tied /\ Cardinality(listing.last) <= listing.count =>
    Cardinality(listing.stayed \ listing.seen) <= listing.gone

\* Figures shown to a user are that user's: never above what is true now, and when
\* they were computed for this request not below what was true when it began
\* (analytics/services.py:182), unless an acceptance was undone.
MetricsAreOwn ==
  undone = {} =>
  /\ metrics.at \in {"answered", "computed"} => Above(FiguresNow(metrics.user), metrics.figures)
  /\ metrics.at = "computed" => Above(metrics.figures, metrics.began)
=============================================================================
