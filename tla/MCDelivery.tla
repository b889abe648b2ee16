----------------------------- MODULE MCDelivery -----------------------------
(* Small instances of Delivery: a message with two tool calls.               *)
EXTENDS Delivery

None == {}
First == {0}
=============================================================================
