------------------------------- MODULE Trading -------------------------------
(***************************************************************************)
(* The simulation of trading strategies (strategy/) and the search for     *)
(* their best parameters (optimizer/).  A strategy goes through the rows   *)
(* of the price table and buys and sells coin by coin; what it did is told *)
(* by the signal table.                                                    *)
(*                                                                         *)
(* The portfolio and the valuation are not in the repository: a portfolio  *)
(* spends at most what it is given on what rounding.py leaves of the       *)
(* quantity, and a valuation is any number, or none.  Money and quantities *)
(* are in tenths.                                                          *)
(***************************************************************************)
EXTENDS Integers, SequencesExt, FiniteSetsExt, Rounding

CONSTANTS
    coins,          \* in the order of the list
    coin_filters,   \* the qty_step_size of each
    Capital,
    Quotes,         \* [price, SMA_diff]: what a row has of a coin, if anything
    NoQuote,
    Rows,           \* how many
    optr,           \* [high, low]: the values to try, in order
    n_attempts,     \* of a random search
    Valuations, NaN

Coins == Range(coins)
ASSUME CoinsAssumption == coins \in Seq(Coins) /\ IsInjective(coins) /\ coins # << >>
ASSUME NumbersAssumption == /\ Capital \in Nat /\ Rows \in Nat /\ n_attempts \in Nat
                            /\ Valuations \subseteq Int /\ NaN \in Int
                            /\ \A q \in Quotes : q.price \in Nat \ {0} /\ q.SMA_diff \in Int
                            /\ optr.high \in Seq(Int) /\ optr.low \in Seq(Int)
ASSUME FiltersAssumption == \A c \in Coins : coin_filters[c] \in Steps

VARIABLES
    big_table,      \* rows of quotes
    combis_to_try,
    phase,          \* "start", "next", "rows", "coins", "over", "failed" or "raised"
    params,         \* of the strategy that is simulated
    row,            \* how many rows were read
    step_dict,      \* places of the row's coins that are still to be looked at
    portfolio,      \* cash, quantities held, the last price of each coin
    trade_list,
    signals,        \* the signal table
    purchase,       \* the last purchase: share of the cash, cost, what is left, quantity
    tried,          \* parameters and valuations so far
    result          \* the best of them

simulation == <<params, row, step_dict, portfolio, trade_list, signals, purchase>>
vars == <<big_table, combis_to_try, phase, simulation, tried, result>>

-----------------------------------------------------------------------------
(* The portfolio. *)

SimulatedPortfolio == [cash |-> Capital, held |-> << >>, price |-> [c \in Coins |-> 0]]
in_position(p, c) == c \in DOMAIN p.held
n_positions(p) == Cardinality(DOMAIN p.held)

calc_cash_for_trade(p) ==
    IF Len(coins) = n_positions(p) THEN 0 ELSE p.cash \div (Len(coins) - n_positions(p))

Quantity(p, c) == round_down(calc_cash_for_trade(p) \div p.price[c], coin_filters[c])
enter_position(p, c) ==
    [p EXCEPT !.cash = @ - Quantity(p, c) * p.price[c],
              !.held = [x \in DOMAIN @ \cup {c} |-> IF x = c THEN Quantity(p, c) ELSE @[x]]]
exit_position(p, c) ==
    [p EXCEPT !.cash = @ + p.held[c] * p.price[c], !.held = Restrict(@, DOMAIN @ \ {c})]

-----------------------------------------------------------------------------
(* The optimizer. *)

NoSimulation == /\ params = [high |-> 0, low |-> 0] /\ row = 0
                /\ step_dict = {} /\ portfolio = SimulatedPortfolio
                /\ trade_list = << >> /\ signals = << >> /\ purchase = << >>

Init ==
    /\ big_table \in [1 .. Rows -> [Coins -> Quotes \cup {NoQuote}]]
    /\ combis_to_try = << >>
    /\ phase = "start"
    /\ NoSimulation
    /\ tried = << >> /\ result = << >>

(* The product of the lists, in the order of itertools. *)
create_combinations ==
    LET n == Len(optr.low)
    IN [i \in 1 .. Len(optr.high) * n |->
            [high |-> optr.high[(i - 1) \div n + 1], low |-> optr.low[((i - 1) % n) + 1]]]

Samples(seq, n) ==
    {[i \in 1 .. n |-> seq[f[i]]] : f \in {g \in [1 .. n -> DOMAIN seq] : IsInjective(g)}}

optimization_function ==
    /\ phase = "start"
    /\ phase' = "next"
    /\ \/ combis_to_try' = create_combinations
       \/ /\ n_attempts \in 1 .. Len(create_combinations) - 1
          /\ combis_to_try' \in Samples(create_combinations, n_attempts)
    /\ UNCHANGED <<big_table, simulation, tried, result>>

(* A new strategy, and the start of simulate. *)
load_data ==
    /\ phase = "next" /\ combis_to_try # << >>
    /\ phase' = "rows"
    /\ params' = Head(combis_to_try) /\ combis_to_try' = Tail(combis_to_try)
    /\ row' = 0 /\ step_dict' = {} /\ portfolio' = SimulatedPortfolio
    /\ trade_list' = << >> /\ signals' = << >> /\ purchase' = << >>
    /\ UNCHANGED <<big_table, tried, result>>

(* Variation (a bug the properties must notice): the last of equals. *)
NotLess(new, old) == new # NaN /\ old # NaN /\ new >= old
Greater(new, old) == new # NaN /\ old # NaN /\ new > old

(* All positions are closed and the simulation is valued. *)
Valued ==
    /\ phase = "rows" /\ row = Rows
    /\ phase' = "next"
    /\ \E v \in Valuations \cup {NaN} :
        /\ tried' = Append(tried, [params |-> params, valuation |-> v])
        /\ result' = IF result = << >> \/ Greater(v, result[1].valuation)
                     THEN <<[params |-> params, valuation |-> v]>> ELSE result
    /\ portfolio' = SimulatedPortfolio
    /\ UNCHANGED <<big_table, combis_to_try, params, row, step_dict, trade_list, signals, purchase>>

Optimized ==
    /\ phase = "next" /\ combis_to_try = << >>
    /\ phase' = "over"
    /\ UNCHANGED <<big_table, combis_to_try, simulation, tried, result>>

-----------------------------------------------------------------------------
(* The strategy. *)

(* simulate: coins without a quote keep their old price. *)
ReadRow ==
    /\ phase = "rows" /\ row < Rows
    /\ phase' = "coins"
    /\ row' = row + 1
    /\ step_dict' = {i \in DOMAIN coins : big_table[row'][coins[i]] # NoQuote}
    /\ portfolio' = [portfolio EXCEPT !.price =
            [c \in Coins |-> IF big_table[row'][c] = NoQuote THEN @[c] ELSE big_table[row'][c].price]]
    /\ trade_list' = << >>
    /\ UNCHANGED <<big_table, combis_to_try, params, signals, purchase, tried, result>>

buy_condition(q) == q.SMA_diff > params.high
sell_condition(q) == q.SMA_diff < params.low

(* Variation (a bug the properties must notice): again and again. *)
BuysAgain(p, c, q) == buy_condition(q)
Buys(p, c, q) == ~in_position(p, c) /\ buy_condition(q)
Sells(p, c, q) == in_position(p, c) /\ sell_condition(q)

(* To buy the next coin without cash: round_qty_down is asked for a quantity of zero. *)
BuysNothing == /\ Buys(portfolio, coins[Min(step_dict)], big_table[row][coins[Min(step_dict)]])
               /\ portfolio.cash = 0
(* Nothing catches what it raises: the whole search ends. *)
AssertionError ==
    /\ phase = "coins" /\ step_dict # {}
    /\ BuysNothing
    /\ phase' = "raised"
    /\ UNCHANGED <<big_table, combis_to_try, simulation, tried, result>>

(* One coin of row_processing_step.  A position that is entered and left at once
   is listed as sold. *)
row_processing_step ==
    /\ phase = "coins" /\ step_dict # {}
    /\ ~BuysNothing
    /\ LET c == coins[Min(step_dict)]
           q == big_table[row][c]
           buys == Buys(portfolio, c, q)
           after == IF buys THEN enter_position(portfolio, c) ELSE portfolio
           sells == Sells(after, c, q)
       IN /\ portfolio' = IF sells THEN exit_position(after, c) ELSE after
          /\ purchase' = IF ~buys THEN purchase
                         ELSE <<[coin |-> c, share |-> calc_cash_for_trade(portfolio),
                                 before |-> portfolio.cash, left |-> after.cash,
                                 others |-> Coins \ DOMAIN after.held, qty |-> after.held[c]]>>
          /\ trade_list' = IF sells THEN Append(trade_list, [coin |-> c, signal |-> "sell"])
                           ELSE IF buys THEN Append(trade_list, [coin |-> c, signal |-> "buy"])
                           ELSE trade_list
    /\ step_dict' = step_dict \ {Min(step_dict)}
    /\ UNCHANGED <<big_table, combis_to_try, phase, params, row, signals, tried, result>>

Traded(c) == {i \in DOMAIN trade_list : trade_list[i].coin = c}
fill_signal_row ==
    /\ phase = "coins" /\ step_dict = {}
    /\ IF \E c \in Coins : Cardinality(Traded(c)) > 1
       THEN phase' = "failed" /\ UNCHANGED signals
       ELSE /\ phase' = "rows"
            /\ signals' = Append(signals, [c \in Coins |->
                    IF Traded(c) = {} THEN "none" ELSE trade_list[Min(Traded(c))].signal])
    /\ UNCHANGED <<big_table, combis_to_try, params, row, step_dict, portfolio, trade_list,
                   purchase, tried, result>>

Next == \/ optimization_function \/ load_data \/ Valued \/ Optimized
        \/ ReadRow \/ AssertionError \/ row_processing_step \/ fill_signal_row

Spec == Init /\ [][Next]_vars

-----------------------------------------------------------------------------
(* Properties. *)

(* A purchase gets some of the cash if there is any, leaves as much for each coin
   that is not held yet, and is of a quantity the exchange trades in, if its step is a
   power of ten.  (A step of 0.5 is taken for one of 0.1.) *)
PurchasesSound ==
    purchase # << >> => LET b == purchase[1] IN
        /\ b.before >= Len(coins) => b.share > 0
        /\ b.left >= Cardinality(b.others) * b.share
        /\ IsPowerOfTen(coin_filters[b.coin]) => IsMultiple(b.qty, coin_filters[b.coin])

(* The signal table can be replayed: a coin is held if its last signal is to buy it,
   and each of its signals is to buy it if there is none before or the last before is
   to sell it.  With high < low a row can say to sell a coin that was bought in it,
   although nothing says that it was.  No row has two signals for a coin, which would
   raise an AssertionError. *)
SignalsOf(c) == {i \in DOMAIN signals : signals[i][c] # "none"}
SignalsReplay ==
    /\ phase # "failed"
    /\ phase = "rows" => \A c \in Coins : LET S == SignalsOf(c) IN
        /\ in_position(portfolio, c) <=> S # {} /\ signals[Max(S)][c] = "buy"
        /\ params.high >= params.low => \A i \in S :
                LET before == {k \in S : k < i} IN
                signals[i][c] = "buy" <=> before = {} \/ signals[Max(before)][c] = "sell"

(* The winning parameters are the first with the best valuation, of all that were tried;
   but a first valuation that is no number wins whatever follows. *)
IsBest(i) ==
    /\ tried[i].valuation # NaN
    /\ \A k \in DOMAIN tried :
        tried[k].valuation # NaN => tried[k].valuation <= tried[i].valuation
WinnerIsBest ==
    (phase = "over" /\ tried # << >>) =>
        result = <<IF tried[1].valuation = NaN THEN tried[1]
                   ELSE tried[Min({i \in DOMAIN tried : IsBest(i)})]>>
=============================================================================
