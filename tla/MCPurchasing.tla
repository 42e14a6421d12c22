---------------------------- MODULE MCPurchasing ----------------------------
(* Instances of Purchasing for TLC. A run looks at the scenes it names: the     *)
(* receipts of one order for two parts, in up to two lines; and a request for   *)
(* one part, from its quotation through two competing orders for it.            *)
EXTENDS Purchasing, TLC

CONSTANTS Scenes, p1

VARIABLE scene

SceneInit == Init /\ scene \in Scenes

OneOrder ==
  /\ UNCHANGED request
  /\ \A o \in Order : o > 1 => order'[o] = order[o]
  /\ \A c \in Clerk : task'[c].op # "new request"

OnePart ==
  /\ \A o \in Order : order'[o].status # "none" => order'[o].request # NoRequest
  /\ \A o \in Order, p \in Part \ {p1} : order'[o].ordered[p] = 0
  /\ \A g \in Receipt : LET lines == receipt'[g].lines
                         IN  Len(lines) <= 1 /\ PartsOf(lines) \subseteq {p1}

SceneNext ==
  /\ Next
  /\ UNCHANGED scene
  /\ scene = "receipts" => OneOrder
  /\ scene = "requests" => OnePart

SceneSpec == SceneInit /\ [][SceneNext]_<<scene, vars>>
ClerkSymmetry == Permutations(Clerk)
=============================================================================
