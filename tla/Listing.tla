------------------------------- MODULE Listing -------------------------------
(***************************************************************************)
(* Paged lists of transactions (filter_transactions in                       *)
(* whimo/db/storages/transactions.py, whimo/common/utils.py) as a client     *)
(* reads them to the end: each page is a count and then a slice, in two      *)
(* queries.                                                                 *)
(***************************************************************************)
EXTENDS Schema, FiniteSetsExt

CONSTANTS PageSize,
          Volume      \* of each transaction, once it is written

ASSUME ListingAssumption == PageSize \in Nat \ {0} /\ Volume \in [Keys -> Nat]

VARIABLE listing    \* the list a client is reading

\* What a client asks for: filters, None where there is none, and an order of one
\* column.  Purchases of somebody else are shown when they are accepted, by group.
ListRequest ==
  {l \in [user : Users, buyer : Users \cup {None}, action : {"buying", "selling", None},
          status : {"pending", "accepted", "rejected", None},
          commodity : Commodities \cup {None}, group : Groups \cup {None},
          order : {"created_at", "amount", "commodity_name"}, descending : BOOLEAN] :
     l.buyer # None => l.status = "accepted" /\ l.group # None}

\* last: the rows of the query before; stayed: those in all of them; gone: how many left
\* from one to the next; tied: the order left some of them to PostgreSQL.
NoListing == [at |-> "idle", list |-> None, page |-> 0, count |-> 0, seen |-> {}, last |-> {},
              stayed |-> {}, gone |-> 0, tied |-> FALSE]

\* filter_transactions, but for the filters on text and dates.
Listed(l) ==
  {k \in Written :
     /\ IF l.buyer # None THEN trx[k].buyer = l.buyer ELSE l.user \in {trx[k].buyer, trx[k].seller}
     /\ l.action = "buying" => trx[k].buyer = l.user
     /\ l.action = "selling" => trx[k].seller = l.user
     /\ l.status # None => trx[k].status = l.status
     /\ l.commodity # None => trx[k].commodity = l.commodity
     /\ l.group # None => commodity[trx[k].commodity] = l.group}

\* The orders have no second column.  Names are not modelled, and may be edited: rows
\* in the order of the names come in any order.
Rank(l, k) ==
  CASE l.order = "created_at" -> trx[k].created
    [] l.order = "amount" -> Volume[k]
    [] OTHER -> 0

Ahead(l, j, k) == IF l.descending THEN Rank(l, j) > Rank(l, k) ELSE Rank(l, j) < Rank(l, k)

Tied(l, rows) == \E j, k \in rows : j # k /\ Rank(l, j) = Rank(l, k)

\* The sets that n rows in that order may be.
Prefixes(l, rows, n) ==
  {P \in SUBSET rows : /\ Cardinality(P) = IF n < Cardinality(rows) THEN n ELSE Cardinality(rows)
                       /\ \A k \in P, j \in rows : Ahead(l, j, k) => j \in P}

\* Mutant: offsets start at one.
LateSlices(l, rows, offset, size) ==
  {p[2] \ p[1] : p \in {q \in Prefixes(l, rows, offset + 1) \X Prefixes(l, rows, offset + 1 + size) :
                         q[1] \subseteq q[2]}}

\* OFFSET and LIMIT.
Slices(l, rows, offset, size) ==
  {p[2] \ p[1] : p \in {q \in Prefixes(l, rows, offset) \X Prefixes(l, rows, offset + size) : q[1] \subseteq q[2]}}

\* math.ceil, and one page for an empty list.
TotalPages(count, size) == IF count > 0 THEN (count + size - 1) \div size ELSE 1

OpenList(l) ==
  /\ listing.at = "idle"
  /\ listing' = [NoListing EXCEPT !.at = "count", !.list = l, !.page = 1, !.last = Listed(l), !.stayed = Listed(l)]
  /\ UNCHANGED tables

CountRows ==
  /\ listing.at = "count"
  /\ listing' = [listing EXCEPT !.at = "slice", !.count = Cardinality(Listed(listing.list))]
  /\ UNCHANGED tables

\* The page is brought down to the last one; the client goes on while there is a next.
ReadPage ==
  LET rows == Listed(listing.list)
      total == TotalPages(listing.count, PageSize)
      page == IF listing.page > total THEN total ELSE listing.page IN
  /\ listing.at = "slice"
  /\ \E slice \in Slices(listing.list, rows, (page - 1) * PageSize, PageSize) :
       listing' = [listing EXCEPT !.at = IF page < total THEN "count" ELSE "end",
                                  !.page = IF page < total THEN page + 1 ELSE page,
                                  !.seen = @ \cup slice, !.last = rows, !.stayed = @ \cap rows,
                                  !.gone = @ + Cardinality(listing.last \ rows), !.tied = @ \/ Tied(listing.list, rows)]
  /\ UNCHANGED tables

CloseList ==
  /\ listing.at = "end"
  /\ listing' = NoListing
  /\ UNCHANGED tables

List == CountRows \/ ReadPage \/ CloseList

ListingTypeOK ==
  /\ listing.at \in {"idle", "count", "slice", "end"}
  /\ listing.at # "idle" => listing.list \in ListRequest
  /\ listing.page \in Nat /\ listing.count \in 0 .. Cardinality(Keys) /\ listing.gone \in Nat
  /\ listing.seen \subseteq Keys /\ listing.last \subseteq Keys /\ listing.stayed \subseteq listing.last
  /\ listing.tied \in BOOLEAN
=============================================================================
