------------------------------ MODULE MCEShop ------------------------------
(* Model values for EShop: users and clients are interchangeable. *)
EXTENDS EShop

CONSTANTS u1, u2, c1, c2, p1, p2
Symmetry == Permutations(Users) \cup Permutations(Clients) \cup Permutations(Passwords)
=============================================================================
