----------------------------- MODULE MCSipProxy -----------------------------
(* Model values for SipProxy. *)
EXTENDS SipProxy

CONSTANTS anna, boris, home, office, cafe, c1
Homes == anna :> home @@ boris :> office
(* The phones are alike. *)
Symmetry == {anna :> boris @@ boris :> anna @@ home :> office @@ office :> home,
             anna :> anna @@ boris :> boris @@ home :> home @@ office :> office}
=============================================================================
