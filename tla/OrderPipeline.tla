--------------------------- MODULE OrderPipeline ---------------------------
(***************************************************************************)
(* What the work-order service promises, with every operation atomic: an   *)
(* order is PENDING, is billed once, is shipped once after it was billed,  *)
(* and the completed counter counts each shipment exactly once.  Creating  *)
(* an order stores it with the status the caller names, whatever was       *)
(* stored under its id before.                                             *)
(***************************************************************************)
EXTENDS Naturals

CONSTANTS
    Ids,       \* order ids
    Statuses,  \* the statuses an order may carry
    Absent,    \* the content of an id that holds no order
    Seed       \* the map the constructor builds

VARIABLES
    orders,    \* id -> status of the order stored under it, or Absent
    completed  \* shipments counted so far

vars == <<orders, completed>>

TypeOK == /\ orders \in [Ids -> Statuses \cup {Absent}]
          /\ completed \in Nat

Init == /\ orders = Seed
        /\ completed = 0

Create(id, s) == /\ orders' = [orders EXCEPT ![id] = s]
                 /\ UNCHANGED completed

Bill(id) == /\ orders[id] = "PENDING"
            /\ orders' = [orders EXCEPT ![id] = "BILLED"]
            /\ UNCHANGED completed

Ship(id) == /\ orders[id] = "BILLED"
            /\ orders' = [orders EXCEPT ![id] = "SHIPPED"]
            /\ completed' = completed + 1

Next == \E id \in Ids : \/ \E s \in Statuses : Create(id, s)
                        \/ Bill(id)
                        \/ Ship(id)

Spec == Init /\ [][Next]_vars
=============================================================================
