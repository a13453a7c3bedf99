------------------------------ MODULE MCBoards ------------------------------
(* Boards: the billing page.  A shipping page beside it would act on it    *)
(* like the scheduler and the other users do.                              *)
EXTENDS Boards

CONSTANTS billing, o1

OneId   == {o1}
Pending == [id \in OneId |-> "PENDING"]
Billing == {billing}
Lists   == [p \in Billing |-> "PENDING"]
=============================================================================
