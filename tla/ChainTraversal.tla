--------------------------- MODULE ChainTraversal ---------------------------
(***************************************************************************)
(* The walk from a transaction to the purchases its goods may come from, and *)
(* the downloads made of it: get_chain_transactions and its callers          *)
(* (whimo/db/storages/transactions.py, whimo/transactions/services.py).      *)
(*                                                                         *)
(* Every round is a query on its own.  What the walk returns is not rows but *)
(* the disjunction of the rounds' conditions, evaluated once at the end.     *)
(***************************************************************************)
EXTENDS Schema, FiniteSetsExt

VARIABLE walk    \* the download in progress

NoWalk == [at |-> "idle", first |-> 0, ids |-> {}, visited |-> {}, rounds |-> {}, began |-> {},
           merged |-> {}, custom |-> {}, missing |-> {}]

\* The condition a round adds: these keys, or the inputs of these conversions;
\* accepted only, after the first round; not visited in rounds before.
Condition(ids, batches, accepted, visited) ==
  [ids |-> ids, batches |-> batches, accepted |-> accepted, visited |-> visited]

IsInput(k) == trx[k].type = "conversion" /\ trx[k].buyer = None
IsOutput(k) == trx[k].type = "conversion" /\ trx[k].seller = None

Holds(c, k) ==
  \/ k \in c.ids \ c.visited /\ (c.accepted => trx[k].status = "accepted")
  \/ IsInput(k) /\ trx[k].batch \in c.batches /\ k \notin c.visited \cup c.ids

Rows(ids, accepted, visited) ==
  {k \in Written \cap (ids \ visited) : accepted => trx[k].status = "accepted"}

Purchases(sellers) == {k \in Written : trx[k].buyer \in sellers \ {None}}

Sources(rows) == Purchases({trx[k].seller : k \in rows})

Inputs(batches) == {k \in Written : IsInput(k) /\ trx[k].batch \in batches}

Batches(rows) == {trx[k].batch : k \in {j \in rows : IsOutput(j)}}

\* The chain as it is now, all at once: the least set of rows that holds the first
\* and, with a row, the accepted purchases of its seller and the inputs of its conversion.
Feeds(k, j) ==
  \/ k \in Sources({j}) /\ trx[k].status = "accepted"
  \/ k \in Inputs(Batches({j}))
Chain(first) == Reached(first, {p \in Written \X Written : Feeds(p[2], p[1])})

-----------------------------------------------------------------------------
StartWalk(first) ==
  /\ walk.at = "idle"
  /\ first \in Written
  /\ walk' = [NoWalk EXCEPT !.at = "walk", !.first = first, !.ids = {first}, !.began = Chain(first)]
  /\ UNCHANGED tables

\* Mutant: the next round looks only at purchases already accepted and leaves out
\* the inputs of conversions.
RoundWithoutInputs ==
  LET accepted == walk.rounds # {}
      rows == Rows(walk.ids, accepted, walk.visited) IN
  /\ walk.at = "walk" /\ walk.ids # {}
  /\ walk' = [walk EXCEPT !.rounds = @ \cup {Condition(walk.ids, {}, accepted, walk.visited)},
                          !.visited = @ \cup walk.ids,
                          !.ids = Sources(rows)]
  /\ UNCHANGED tables

\* One turn of the loop.  Its later queries concern conversions, whose rows are
\* written together and never change: they find what the first query implies.
Round ==
  LET accepted == walk.rounds # {}
      rows == Rows(walk.ids, accepted, walk.visited)
      visited == walk.visited \cup walk.ids IN
  /\ walk.at = "walk" /\ walk.ids # {}
  /\ walk' = [walk EXCEPT !.rounds = @ \cup {Condition(walk.ids, Batches(rows), accepted, walk.visited)},
                          !.visited = visited,
                          !.ids = Sources(rows) \cup (Inputs(Batches(rows)) \ visited)]
  /\ UNCHANGED tables

\* The query of all rounds.
Found == {k \in Written : \E c \in walk.rounds : Holds(c, k)}

\* get_first_chain_transactions.
FirstSellers(rows) == {k \in rows : trx[k].seller = None /\ trx[k].type # "conversion"}

\* _process_chain_location_bundle: every QR row counts as custom, whatever its file.
Bundle ==
  LET valid == {k \in Found : trx[k].location = "qr" /\ file[k] = "valid"} IN
  /\ walk.at = "walk" /\ walk.ids = {}
  /\ walk' = [walk EXCEPT !.at = "bundle", !.merged = valid, !.missing = Found \ valid,
                          !.custom = {k \in Found : trx[k].location = "qr"}]
  /\ UNCHANGED tables

\* _get_feature_collections: a file that cannot be read fails the whole download.
Features ==
  LET rows == FirstSellers(Found)
      valid == {k \in rows : trx[k].location = "qr" /\ file[k] = "valid"} IN
  /\ walk.at = "walk" /\ walk.ids = {}
  /\ walk' = IF \E k \in rows : trx[k].location = "qr" /\ file[k] = "none" THEN NoWalk
             ELSE [walk EXCEPT !.at = "features", !.merged = valid, !.missing = rows \ valid]
  /\ UNCHANGED tables

\* get_chain_csv_export, get_traceability_counts: all the rows.
Export ==
  /\ walk.at = "walk" /\ walk.ids = {}
  /\ walk' = [walk EXCEPT !.at = "export", !.merged = Found]
  /\ UNCHANGED tables

EndWalk ==
  /\ walk.at \in {"bundle", "features", "export"}
  /\ walk' = NoWalk
  /\ UNCHANGED tables

Walk == Round \/ Bundle \/ Features \/ Export \/ EndWalk

WalkTypeOK ==
  /\ walk.at \in {"idle", "walk", "bundle", "features", "export"}
  /\ walk.first \in Keys \cup {0}
  /\ \A part \in {walk.ids, walk.visited, walk.began, walk.merged, walk.custom, walk.missing} : part \subseteq Keys
  /\ walk.rounds \subseteq
       [ids : SUBSET Keys, batches : SUBSET Nat, accepted : BOOLEAN, visited : SUBSET Keys]
=============================================================================
