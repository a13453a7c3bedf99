---------------------------- MODULE MCAggregator ----------------------------
(* Small instances of Aggregator for TLC. *)
EXTENDS Aggregator

CONSTANT c1

OneClient  == {c1}
UserOrder  == <<"user", "order">>
Configured == <<"user", "order", "inventory">>   \* application.yml
=============================================================================
