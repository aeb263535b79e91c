------------------------- MODULE MCRoutingProtocol -------------------------
(* Three routers, each pair with a network, one more network at a: there are two
   ways to everywhere. *)
EXTENDS RoutingProtocol

CONSTANTS a, b, c, na, ab, bc, ca

Ring == {<<a, na>>, <<a, ab>>, <<b, ab>>, <<b, bc>>, <<c, bc>>, <<c, ca>>, <<a, ca>>}
=============================================================================
