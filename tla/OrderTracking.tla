--------------------------- MODULE OrderTracking ---------------------------
(***************************************************************************)
(* What the e-shop promises about its orders, without processes, messages  *)
(* or timeouts: an order is born placed and then goes, one step at a time, *)
(* to packaged, shipped and delivered.  EShop.tla implements this while    *)
(* the gen_server is started once (its property Tracked).                  *)
(***************************************************************************)
EXTENDS Integers, Sequences

CONSTANT MaxOrders  \* fairness is stated for orders 1 .. MaxOrders

VARIABLE status     \* the state of every order, in the order they were placed

(* The atoms that order_state_changing_actor sends, in the order it sends them. *)
Stages == <<"packaged", "shipped", "delivered">>

States == {"placed", "packaged", "shipped", "delivered"}

(* How far an order has come; Stages[Rank(s) + 1] is what follows s. *)
Rank(s) == CASE s = "placed" -> 0 [] s = "packaged" -> 1
             [] s = "shipped" -> 2 [] OTHER -> 3

Init == status = << >>

Place == status' = Append(status, "placed")

Advance(k) ==
    /\ k \in DOMAIN status
    /\ Rank(status[k]) < 3
    /\ status' = [status EXCEPT ![k] = Stages[Rank(@) + 1]]

Next == Place \/ \E k \in DOMAIN status : Advance(k)

Spec == Init /\ [][Next]_status

(* With fairness, every one of these orders is delivered in the end. *)
FairSpec == Spec /\ \A k \in 1 .. MaxOrders : WF_status(Advance(k))
=============================================================================
