--------------------------- MODULE MCSipRegistrar ---------------------------
(* Model values for SipRegistrar; which address is which does not matter. *)
EXTENDS SipRegistrar

CONSTANTS anna, boris, cyril, home, office, cafe, hotel
Symmetry == Permutations(Addresses)

(* Which phone is where at first does not matter either. *)
LiveInit == Init /\ phone[anna].at = home
LiveSpec == LiveInit /\ [][Next]_vars /\ Fairness
=============================================================================
