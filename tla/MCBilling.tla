------------------------------ MODULE MCBilling ------------------------------
\* Values for TLC: a quotation over three units of money and one over nothing.
EXTENDS Billing, TLC

CONSTANTS q1, q2

MCPrice == [q \in Quote |-> IF q = q1 THEN 3 ELSE 0]
=============================================================================
