------------------------ MODULE MCWorkOrderService ------------------------
(* Small instances of WorkOrderService for TLC. *)
EXTENDS WorkOrderService

CONSTANTS w1, w2, r1, scheduler, free, absent, badId

None       == {}
OneWriter  == {w1}
TwoWriters == {w1, w2}
OneReader  == {r1}

(* The constructor's four orders in small: one PENDING, one BILLED and an  *)
(* id that holds nothing yet, which the generator may draw.                *)
SeedMixed == [id \in Ids |-> CASE id = 1 -> "BILLED"
                               [] id = 2 -> "PENDING"
                               [] OTHER  -> absent]
(* A drawn id may be one in use. *)
AnyId == Ids
===========================================================================
