------------------------------- MODULE Orders -------------------------------
(***************************************************************************)
(* The order life cycle of quantlab.domain.orders.  An order identifier is *)
(* a fresh uuid; since one rebalance plans at most one order per           *)
(* instrument, the pair (created, inst) stands for it.                     *)
(***************************************************************************)
EXTENDS Integers

OrderSide == {"buy", "sell"}

OrderState == {"created", "submitted", "partially_filled",
               "filled", "cancelled", "rejected"}

OrderStateTransitions ==
    [s \in OrderState |->
        CASE s = "created"          -> {"submitted", "cancelled", "rejected"}
          [] s = "submitted"        -> {"partially_filled", "filled", "cancelled", "rejected"}
          [] s = "partially_filled" -> {"filled", "cancelled"}
          [] OTHER                  -> {}]

(* Two orders with the same identifier. *)
SameOrder(o, p) == o.created = p.created /\ o.inst = p.inst

(* The place of an order in the pending list: every rebalance extends the  *)
(* list at its end, sells before buys, each by instrument; carrying an     *)
(* order over to the next open keeps its place.                            *)
Before(o, p) ==
    \/ o.created < p.created
    \/ o.created = p.created /\ o.side = "sell" /\ p.side = "buy"
    \/ o.created = p.created /\ o.side = p.side /\ o.inst < p.inst
=============================================================================
