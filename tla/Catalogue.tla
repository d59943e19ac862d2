------------------------------ MODULE Catalogue ------------------------------
(***************************************************************************)
(* Edits of seasons, recipes, commodities and groups in the admin site       *)
(* (whimo/contrib/admin).  A form is saved whole.                            *)
(*                                                                         *)
(* Deleting collects what goes along, then deletes in the same transaction.  *)
(* Others may insert references in between; PostgreSQL checks foreign keys   *)
(* at the commit.                                                           *)
(***************************************************************************)
EXTENDS Schema

VARIABLE removal    \* the deletion in progress: its object and what it collected

NoRemoval == [object |-> None, rows |-> {}]

-----------------------------------------------------------------------------
\* SeasonAdmin with SeasonCommodityInline.
SaveSeason(s, row, cs) ==
  /\ \A c \in cs : commodity[c] # None
  /\ season' = [season EXCEPT ![s] = row]
  /\ participant' = {p \in participant : p[1] # s} \cup ({s} \X cs)
  /\ Recorded({<<"season", s>>} \cup ({"participant"} \X ({s} \X Commodities)))
  /\ UNCHANGED <<commodity, group, recipe, input, output, balance, trx, file>>

\* ConversionRecipeAdmin with its two inlines.
SaveRecipe(r, ins, outs) ==
  /\ \A c \in ins \cup outs : commodity[c] # None
  /\ recipe' = recipe \cup {r}
  /\ input' = {p \in input : p[1] # r} \cup ({r} \X ins)
  /\ output' = {p \in output : p[1] # r} \cup ({r} \X outs)
  /\ Recorded({<<"recipe", r>>} \cup ({"input", "output"} \X ({r} \X Commodities)))
  /\ UNCHANGED <<commodity, group, season, participant, balance, trx, file>>

\* CommodityAdmin and CommodityInline of CommodityGroupAdmin.
SaveCommodity(c, g) ==
  /\ g \in group
  /\ commodity' = [commodity EXCEPT ![c] = g]
  /\ Recorded({<<"commodity", c>>})
  /\ UNCHANGED <<group, season, participant, recipe, input, output, balance, trx, file>>

-----------------------------------------------------------------------------
\* What the admin site deletes: the inlines are saved with their parents, and
\* transactions and balances are read-only.
Registered == {"group", "commodity", "season", "recipe"}

\* delete_model: a protected object is refused.
Collect(o) ==
  /\ removal = NoRemoval
  /\ o[1] \in Registered /\ Exists(o)
  /\ Protectors(o) = {}
  /\ removal' = [object |-> o, rows |-> {o} \cup Dependents(o)]
  /\ UNCHANGED tables

\* The DELETE statements, the UPDATE of transactions, and the commit.
Delete ==
  /\ removal # NoRemoval
  /\ LET o == removal.object
         rows == removal.rows
         Kept(kind, pairs) == {p \in pairs : <<kind, p>> \notin rows} IN
       IF (Protectors(o) \cup Dependents(o)) \subseteq rows
       THEN /\ group' = Kept("group", group)
            /\ commodity' = [c \in Commodities |-> IF <<"commodity", c>> \in rows THEN None ELSE commodity[c]]
            /\ season' = [s \in Seasons |-> IF <<"season", s>> \in rows THEN NoSeason ELSE season[s]]
            /\ participant' = Kept("participant", participant)
            /\ recipe' = Kept("recipe", recipe)
            /\ input' = Kept("input", input)
            /\ output' = Kept("output", output)
            /\ trx' = [k \in Keys |->
                 IF <<"transaction", k>> \in rows THEN NoTransaction
                 ELSE IF k \in Forgotten(o) THEN [trx[k] EXCEPT !.season = None] ELSE trx[k]]
            /\ Recorded(rows)
            /\ UNCHANGED <<balance, file>>
       ELSE UNCHANGED tables
  /\ removal' = NoRemoval
=============================================================================
