----------------------------- MODULE MCTrading -----------------------------
(* Two coins, quantities of one in whole numbers (written 1.0), of the other in halves.
   Differences of the averages are below, between and above the parameters. *)
EXTENDS Trading

CONSTANTS btc, eth, None

TwoCoins == <<btc, eth>>
Filters == btc :> [c |-> 10, e |-> -1] @@ eth :> [c |-> 5, e |-> -1]
SomeQuotes == {[price |-> 1, SMA_diff |-> -2], [price |-> 2, SMA_diff |-> 0],
               [price |-> 2, SMA_diff |-> 2]}
Parameters == [high |-> <<-1, 1>>, low |-> <<-1, 1>>]
NotANumber == -1
=============================================================================
