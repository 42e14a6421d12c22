-------------------------------- MODULE MCGoods --------------------------------
(* The parts desk and the counters of the shops, for TLC. What they keep is     *)
(* apart, so a run stands at one of them, chosen in the initial state. At the   *)
(* parts desk the balances are looked at without a minimum: an alert is open    *)
(* for a part that is out, and no other.                                        *)
EXTENDS MCInventory, MCShops

NoMinimum == [p \in Part |-> 0]

GoodsInit == Init /\ CounterInit

GoodsNext ==
  \/ counter = "parts" /\ Next /\ UNCHANGED <<counter, shopVars>>
  \/ CounterNext /\ UNCHANGED vars

GoodsSpec == GoodsInit /\ [][GoodsNext]_<<counter, shopVars, vars>>
=============================================================================
