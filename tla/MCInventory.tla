---------------------------- MODULE MCInventory -----------------------------
\* Values for TLC: a part whose stock is low below two pieces.
EXTENDS Inventory, TLC

MCMinStock == [p \in Part |-> 2]

\* The scan can come between a movement's look and its write on one pair.
MCOverlapped == {CHOOSE k \in Key : TRUE}

\* Requests are interchangeable.
ClerkSymmetry == Permutations(Clerk)
=============================================================================
