----------------------------- MODULE MCSipCalls -----------------------------
(* Model values for SipCalls. *)
EXTENDS SipCalls

CONSTANTS anna, boris, cyril, c1
=============================================================================
