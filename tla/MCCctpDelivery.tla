---------------------------- MODULE MCCctpDelivery ----------------------------
(* Two transfers, in every mode and in one or two burn transactions.        *)
EXTENDS CctpDelivery

MCAmount == [t \in Transfers |-> 1]
=============================================================================
