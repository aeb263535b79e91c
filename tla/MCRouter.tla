------------------------------ MODULE MCRouter ------------------------------
(* A row of two routers: na - a - hm on ab - b - hb on nb.  The two hosts talk to each
   other, one of them in a protocol the routers do not know, too; routes are given at a, rules
   at b. *)
EXTENDS Router

CONSTANTS a, b, na, ab, nb, hm, hb, all, typo

RowOrder == a :> <<na, ab>> @@ b :> <<nb, ab>>
RowHome == hm :> ab @@ hb :> nb
Packet(from, to) == [from |-> from, to |-> to, protocol |-> "udp"]
RowPackets == {Packet(hb, hm), Packet(hm, hb), [Packet(hb, hm) EXCEPT !.protocol = "unknown"]}

FromM == [src |-> hm, dst |-> "any", protocol |-> "any"]
Udp == [src |-> "any", dst |-> "any", protocol |-> "udp"]
RowCommands ==
    {b} \X ({[do |-> "add_new_rule", rule |-> x] : x \in {FromM, Udp}}
            \cup {[do |-> "delete_rule", rule |-> Udp], [do |-> "reset_stats"]})
    \cup
    {a} \X ({[do |-> "new_static_route", network |-> all, gateway |-> x] : x \in {<<b, ab>>, hb, typo}}
            \cup {[do |-> "new_static_route", network |-> typo, gateway |-> <<b, ab>>]}
            \cup {[do |-> "delete_static_route"]})
=============================================================================
