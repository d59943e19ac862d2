-------------------------------- MODULE Stock --------------------------------
(***************************************************************************)
(* What a user is promised about its stock, without workers, locks or rows:  *)
(* a purchase, a sale and a conversion each change it in one step, and a      *)
(* conversion moves exactly what its transactions say.                       *)
(***************************************************************************)
EXTENDS Integers, FiniteSetsExt

CONSTANTS Commodities, Recipes, Quantities, Scale, Levels, Volumes

VARIABLES
  stock,   \* volume of each commodity
  known    \* levels of its purchases

vars == <<stock, known>>

Incomplete == 1
Hundredths(x) == (2 * x + Scale) \div (2 * Scale)
Moved(amounts, c) == IF amounts[c] > 0 THEN Hundredths(amounts[c]) ELSE 0
Chosen(cs) == {q \in [Commodities -> Quantities \cup {0}] : \A c \in Commodities \ cs : q[c] = 0}

Init == stock = [c \in Commodities |-> 0] /\ known = [c \in Commodities |-> {}]

Buy(c, v, l) ==
  /\ stock' = [stock EXCEPT ![c] = @ + v]
  /\ known' = [known EXCEPT ![c] = @ \cup {l}]

\* What is sold and not in stock is bought first, untraced.
Sell(c, v) ==
  \/ /\ v <= stock[c]
     /\ stock' = [stock EXCEPT ![c] = @ - v] /\ UNCHANGED known
  \/ /\ v > stock[c]
     /\ stock' = [stock EXCEPT ![c] = 0]
     /\ known' = [known EXCEPT ![c] = @ \cup {Incomplete}]

\* Everything that goes in is in stock; what comes out inherits the worst level.
Convert(take, make) ==
  LET levels == UNION {known[c] : c \in {x \in Commodities : take[x] > 0}}
      level == IF levels = {} THEN Incomplete ELSE Min(levels)
  IN /\ \A c \in Commodities : Scale * stock[c] >= take[c]
     /\ stock' = [c \in Commodities |-> stock[c] - Moved(take, c) + Moved(make, c)]
     /\ known' = [c \in Commodities |->
          IF make[c] > 0 THEN known[c] \cup {level} ELSE known[c]]

Next ==
  \/ \E c \in Commodities, v \in Volumes : Sell(c, v) \/ \E l \in Levels : Buy(c, v, l)
  \/ \E recipe \in Recipes :
       \E t \in Chosen(recipe.inputs), m \in Chosen(recipe.outputs) : Convert(t, m)

Spec == Init /\ [][Next]_vars

=============================================================================
