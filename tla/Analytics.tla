------------------------------ MODULE Analytics ------------------------------
(***************************************************************************)
(* The figures on a user's screen (get_user_analytics_data in                *)
(* whimo/analytics/services.py): four figures from queries of their own,     *)
(* then kept in the cache under the user's key.                              *)
(***************************************************************************)
EXTENDS Schema, FiniteSetsExt

VARIABLES metrics,   \* the request in progress
          cache      \* the figures kept under each key, NoFigures where there are none

NoFigures == [transactions |-> 0, suppliers |-> 0, plots |-> 0, files |-> 0, none |-> TRUE]
NoMetrics == [at |-> "idle", user |-> None, figures |-> NoFigures, left |-> {}, found |-> {}, began |-> NoFigures]

\* Mutant: the cache key leaves the user out.
SharedKey(user) == CHOOSE u \in Users : TRUE

\* USER_ANALYTICS_CACHE_KEY.
CacheKey(user) == user

Own(user) == {k \in Written : user \in {trx[k].buyer, trx[k].seller, trx[k].creator}}

SuppliersCount(user) ==
  Cardinality({trx[k].seller : k \in {j \in Written : trx[j].buyer = user}} \ {None})

\* _get_all_chain_transactions_for_user: the walk of ChainTraversal within one commodity,
\* without conversions.  ChainIsBracketed is what lets it be one step.
Supplies(k, j) == trx[k].status = "accepted" /\ trx[k].buyer = trx[j].seller /\ trx[k].buyer # None
OwnChain(first) ==
  Reached(first, {p \in Written \X Written :
                    trx[p[2]].commodity = trx[first].commodity /\ Supplies(p[2], p[1])})

PlotsOf(rows) == {trx[k].plot : k \in rows} \ {None}

FilesCount(user) == Cardinality({k \in Written : trx[k].creator = user /\ file[k] # "none"})

\* All the figures at once.
FiguresNow(user) ==
  [transactions |-> Cardinality(Own(user)), suppliers |-> SuppliersCount(user),
   plots |-> Cardinality(PlotsOf(UNION {OwnChain(k) : k \in Own(user)})), files |-> FilesCount(user)]

\* Figure by figure.
Above(f, g) == \A name \in DOMAIN f \cap DOMAIN g : f[name] >= g[name]

-----------------------------------------------------------------------------
\* A hit answers from the cache.
AskFigures(user) ==
  LET cached == cache[CacheKey(user)] IN
  /\ metrics.at = "idle"
  /\ metrics' = [NoMetrics EXCEPT !.at = IF cached # NoFigures THEN "answered" ELSE "count",
                                  !.user = user, !.figures = cached, !.began = FiguresNow(user)]
  /\ UNCHANGED <<tables, cache>>

CountTransactions ==
  /\ metrics.at = "count"
  /\ metrics' = [metrics EXCEPT !.at = "suppliers", !.figures =
                   [transactions |-> Cardinality(Own(metrics.user)), suppliers |-> 0, plots |-> 0, files |-> 0]]
  /\ UNCHANGED <<tables, cache>>

CountSuppliers ==
  /\ metrics.at = "suppliers"
  /\ metrics' = [metrics EXCEPT !.at = "list", !.figures.suppliers = SuppliersCount(metrics.user)]
  /\ UNCHANGED <<tables, cache>>

\* The user's transactions, and a walk for each of them.
ListOwn ==
  /\ metrics.at = "list"
  /\ metrics' = [metrics EXCEPT !.at = "plots", !.left = Own(metrics.user)]
  /\ UNCHANGED <<tables, cache>>

CountPlots ==
  /\ metrics.at = "plots"
  /\ metrics' = IF metrics.left = {}
                THEN [metrics EXCEPT !.at = "files", !.figures.plots = Cardinality(metrics.found), !.found = {}]
                ELSE [metrics EXCEPT !.left = @ \ {Max(@)}, !.found = @ \cup PlotsOf(OwnChain(Max(metrics.left)))]
  /\ UNCHANGED <<tables, cache>>

CountFiles ==
  /\ metrics.at = "files"
  /\ metrics' = [metrics EXCEPT !.at = "store", !.figures.files = FilesCount(metrics.user)]
  /\ UNCHANGED <<tables, cache>>

StoreFigures ==
  /\ metrics.at = "store"
  /\ metrics' = [metrics EXCEPT !.at = "computed"]
  /\ cache' = [cache EXCEPT ![CacheKey(metrics.user)] = metrics.figures]
  /\ UNCHANGED tables

ReadFigures ==
  /\ metrics.at \in {"answered", "computed"}
  /\ metrics' = NoMetrics
  /\ UNCHANGED <<tables, cache>>

\* The hour of the cache is over.
Outdated(user) ==
  /\ cache[user] # NoFigures
  /\ cache' = [cache EXCEPT ![user] = NoFigures]
  /\ UNCHANGED <<tables, metrics>>

Measure == CountTransactions \/ CountSuppliers \/ ListOwn \/ CountPlots \/ CountFiles \/ StoreFigures \/ ReadFigures

Figures == [transactions : Nat, suppliers : Nat, plots : Nat, files : Nat]
AnalyticsTypeOK ==
  /\ metrics.at \in {"idle", "count", "suppliers", "list", "plots", "files", "store", "computed", "answered"}
  /\ metrics.user \in Users \cup {None}
  /\ {metrics.figures, metrics.began} \cup {cache[u] : u \in Users} \subseteq Figures \cup {NoFigures}
  /\ metrics.left \subseteq Keys /\ metrics.found \subseteq Plots
=============================================================================
