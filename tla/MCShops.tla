-------------------------------- MODULE MCShops --------------------------------
(* Instances of Shops for TLC. The shops' rows are apart, so a run stands at   *)
(* one counter, chosen in the initial state, and so explores each in turn: the *)
(* tyre shop, the body shop, and the café twice, at its till for the cash and  *)
(* the invoices and in its kitchen for what orders draw from the pantry.       *)
(* Sellers, and rows no constant tells apart, are interchangeable.             *)
EXTENDS Shops, TLC

CONSTANT Counters  \* the counters a run looks at

VARIABLE counter

RowSymmetry ==
  Permutations(Seller) \cup Permutations(CafeOrder) \cup Permutations(Session)

SupplyOfTyres == [p \in Product |-> IF p \in Warranted THEN 2 ELSE 1]
OneDose  == [i \in Ingredient |-> 1]
TwoDoses == [i \in Ingredient |-> 2]

\* At the till an order draws what the recipe has or nothing, nothing is wasted
\* and the visit's customer stays; in the kitchen no session is opened.
PlainCups ==
  /\ UNCHANGED <<wasted, waiting>>
  /\ \A o \in CafeOrder : cup'[o].drawn \in {Nothing, Recipe}

CounterInit == ShopsInit /\ counter \in Counters

CounterNext ==
  /\ UNCHANGED counter
  /\ \/ counter = "tirezone" /\ TireStep
     \/ counter = "till" /\ CafeStep /\ PlainCups
     \/ counter = "kitchen" /\ CafeStep /\ UNCHANGED drawer
     \/ counter = "uxb" /\ UxbStep
     \/ \E c \in Seller : Withdraw(c)

CounterSpec == CounterInit /\ [][CounterNext]_<<counter, shopVars>>
=============================================================================
