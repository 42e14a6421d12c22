------------------------------- MODULE Account -------------------------------
(***************************************************************************)
(* What an invoice promises, whatever requests overlap: it is drawn up     *)
(* once, can be cancelled while nothing has been received, and takes money *)
(* only while it is due and never more than is still owed. Module Billing  *)
(* implements it, with owed computed from the payments themselves.         *)
(***************************************************************************)
EXTENDS Naturals

CONSTANTS Invoice,
          Amount    \* what an invoice can be over

VARIABLES state,    \* per invoice: none, draft, due or cancelled,
          amount,   \* what it is over
          owed      \* and what is still owed of it

vars == <<state, amount, owed>>

Init ==
  /\ state = [i \in Invoice |-> "none"]
  /\ amount = [i \in Invoice |-> 0]
  /\ owed = [i \in Invoice |-> 0]

Draw(i) ==
  /\ state[i] = "none"
  /\ state' = [state EXCEPT ![i] = "draft"]
  /\ \E n \in Amount : /\ amount' = [amount EXCEPT ![i] = n]
                       /\ owed' = [owed EXCEPT ![i] = n]

Issue(i) ==
  /\ state[i] = "draft"
  /\ state' = [state EXCEPT ![i] = "due"]
  /\ UNCHANGED <<amount, owed>>

Receive(i) ==
  /\ state[i] = "due"
  /\ \E left \in 0..owed[i] :
       /\ left # owed[i]
       /\ owed' = [owed EXCEPT ![i] = left]
  /\ UNCHANGED <<state, amount>>

Cancel(i) ==
  /\ state[i] \in {"draft", "due"}
  /\ owed[i] = amount[i]
  /\ state' = [state EXCEPT ![i] = "cancelled"]
  /\ UNCHANGED <<amount, owed>>

Next == \E i \in Invoice : Draw(i) \/ Issue(i) \/ Receive(i) \/ Cancel(i)

Spec == Init /\ [][Next]_vars
=============================================================================
