----------------------------- MODULE MCMessaging -----------------------------
(* Module Messaging on a small instance: a farm purchase t1 of bea, the first   *)
(* transaction of every chain, and her sale t2 to abe; a third user trades not. *)
EXTENDS Messaging

CONSTANTS abe, bea, t1, t2

ChainFirst == [t \in Trades |-> {t1}]
ChainParties == [t \in Trades |-> IF t = t1 THEN {bea} ELSE {abe, bea}]
ChainBuyer == [t \in Trades |-> IF t = t1 THEN bea ELSE abe]
=============================================================================
