------------------------------ MODULE MCRecords ------------------------------
(* Instance: abe buys x from a producer and sells it to bea, who offers it back *)
(* (a cycle) and has converted some into y, which she offers to cyd; she offers *)
(* z to nobody yet known.                                                       *)
EXTENDS Records

CONSTANTS abe, bea, cyd, x, y, z, food, press, farm

MCUsers == {abe, bea, cyd}
MCSupplied == {7}
MCUploads == {<<"file", "invalid">>, <<"qr", "valid">>}

Row(type, status, c, seller, buyer, creator, batch, location, plot, created, s) ==
  [type |-> type, status |-> status, commodity |-> c, seller |-> seller, buyer |-> buyer, creator |-> creator,
   batch |-> batch, location |-> location, plot |-> plot, created |-> created, season |-> s]

\* Keys 2 to 8 are taken, in another order than the creation; 1 and 9 are free.
MCTrx == [k \in Keys |->
  CASE k = 5 -> Row("producer", "accepted", x, None, abe, abe, 0, "qr", farm, 1, 1)
    [] k = 2 -> Row("downstream", "accepted", x, abe, bea, abe, 0, "none", None, 2, 1)
    [] k = 7 -> Row("downstream", "pending", x, bea, abe, bea, 0, "none", None, 3, None)
    [] k = 4 -> Row("conversion", "accepted", x, bea, None, bea, 1, "none", None, 4, 1)
    [] k = 3 -> Row("conversion", "accepted", y, None, bea, bea, 1, "none", None, 5, 1)
    [] k = 6 -> Row("downstream", "pending", y, bea, cyd, bea, 0, "none", None, 6, None)
    [] k = 8 -> Row("downstream", "pending", z, bea, None, bea, 0, "none", None, 7, None)
    [] OTHER -> NoTransaction]

MCFirstTables ==
  [commodity |-> [c \in Commodities |-> food], group |-> {food},
   season |-> [s \in Seasons |-> IF s = 1 THEN [start |-> 2, end |-> 3] ELSE NoSeason],
   participant |-> {<<1, x>>}, recipe |-> {press}, input |-> {<<press, x>>}, output |-> {<<press, y>>, <<press, z>>},
   balance |-> {<<abe, x>>, <<bea, x>>, <<bea, y>>}, trx |-> MCTrx,
   file |-> [k \in Keys |-> IF k = 5 THEN "valid" ELSE "none"]]

MCRequests ==
  {[type |-> "producer", commodity |-> x, seller |-> None, buyer |-> abe, creator |-> abe,
    location |-> "qr", plot |-> farm],
   [type |-> "downstream", commodity |-> z, seller |-> cyd, buyer |-> None, creator |-> cyd,
    location |-> "none", plot |-> None]}

MCSeasonEdits == {<<1, [start |-> 1, end |-> 5], {x, y}>>, <<2, [start |-> 0, end |-> 0], {x, z}>>}
MCRecipeEdits == {<<press, {x}, {z}>>}
MCCommodityEdits == {<<z, food>>}

MCWalks == {6}
\* Her pending trades, the newest first; what she sold or bought of x, the smallest
\* first; what she sees of the purchases of abe, by name.
List0 == [user |-> bea, buyer |-> None, action |-> None, status |-> None, commodity |-> None, group |-> None,
          order |-> "created_at", descending |-> TRUE]
MCLists == {[List0 EXCEPT !.status = "pending"],
            [List0 EXCEPT !.commodity = x, !.order = "amount", !.descending = FALSE],
            [List0 EXCEPT !.buyer = abe, !.status = "accepted", !.group = food, !.order = "commodity_name"]}
MCVolume == [k \in Keys |-> 10 - k]
MCScreens == {abe, bea}

\* abe has seen her figures within the hour.
MCFirstCache == [u \in Users |-> IF u = abe THEN [transactions |-> 3, suppliers |-> 0, plots |-> 1, files |-> 1]
                                           ELSE NoFigures]
=============================================================================
