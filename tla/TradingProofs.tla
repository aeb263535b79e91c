---------------------------- MODULE TradingProofs ----------------------------
(* Theorems about Trading for any coins, prices, parameters and valuations. *)
EXTENDS Trading, CommonLemmas

(* What has been tried so far has a first best, or begins with no number; that is
   the result. *)
FirstBest(i) == IsBest(i) /\ \A k \in DOMAIN tried : IsBest(k) => i <= k
ResultIs(i) == /\ result = <<tried[i]>>
               /\ IF tried[1].valuation = NaN THEN i = 1 ELSE FirstBest(i)
WinnerSoFar ==
    /\ \E S : tried \in Seq(S)
    /\ \A i \in DOMAIN tried : tried[i].valuation \in Int
    /\ tried = << >> => result = << >>
    /\ tried # << >> => \E i \in DOMAIN tried : ResultIs(i)

LEMMA ValuedKeeps ==
    ASSUME WinnerSoFar, Valued
    PROVE  WinnerSoFar'
<1>1. PICK v \in Valuations \cup {NaN} :
        /\ tried' = Append(tried, [params |-> params, valuation |-> v])
        /\ result' = IF result = << >> \/ Greater(v, result[1].valuation)
                     THEN <<[params |-> params, valuation |-> v]>> ELSE result
  BY DEF Valued
<1> DEFINE r == [params |-> params, valuation |-> v]
<1> PICK n \in Nat : n = Len(tried)
  BY LenProperties DEF WinnerSoFar
<1>2. v \in Int /\ NaN \in Int
  BY NumbersAssumption
<1>3. /\ DOMAIN tried = 1 .. n /\ DOMAIN tried' = 1 .. n + 1
      /\ \A i \in 1 .. n : tried'[i] = tried[i]
      /\ tried'[n + 1] = r
  <2>1. PICK S : tried \in Seq(S)
    BY DEF WinnerSoFar
  <2>2. tried \in Seq(S \cup {r}) /\ r \in S \cup {r}
    BY <2>1, SeqMonotonic
  <2> QED
    BY <1>1, <2>2, AppendProperties, LenProperties
<1>4. (\E S : tried \in Seq(S))'
  <2>1. PICK S : tried \in Seq(S)
    BY DEF WinnerSoFar
  <2>2. tried \in Seq(S \cup {r}) /\ r \in S \cup {r}
    BY <2>1, SeqMonotonic
  <2>3. tried' \in Seq(S \cup {r})
    BY <1>1, <2>2, AppendProperties
  <2> QED
    BY <2>3
<1>5. r.valuation = v /\ tried'[n + 1].valuation = v
  BY <1>3
<1>6. \A i \in 1 .. n : tried[i].valuation \in Int
  BY <1>3 DEF WinnerSoFar
<1>7. (\A i \in DOMAIN tried : tried[i].valuation \in Int)'
  <2>1. \A i \in 1 .. n + 1 : i \in 1 .. n \/ i = n + 1
    OBVIOUS
  <2> QED
    BY <1>2, <1>3, <1>5, <1>6, <2>1
<1>8. tried' # << >>
  <2>1. n + 1 \in DOMAIN tried'
    BY <1>3
  <2> QED
    BY <2>1
<1>9. \A k : IsBest(k)' <=> /\ tried'[k].valuation # NaN
                            /\ \A j \in 1 .. n + 1 : tried'[j].valuation # NaN =>
                                    tried'[j].valuation <= tried'[k].valuation
  BY <1>3 DEF IsBest
<1>10. \E i \in DOMAIN tried' : ResultIs(i)'
  <2>1. CASE tried = << >>
    <3>1. n = 0 /\ result' = <<r>>
      BY <1>1, <1>3, <2>1 DEF WinnerSoFar
    <3>2. 1 \in DOMAIN tried' /\ tried'[1] = r
      BY <1>3, <3>1
    <3>3. v # NaN => FirstBest(1)'
      <4>1. v # NaN => IsBest(1)'
        BY <1>2, <1>5, <1>9, <3>1
      <4> QED
        BY <1>3, <3>1, <4>1 DEF FirstBest
    <3>4. ResultIs(1)'
      BY <1>5, <3>1, <3>2, <3>3 DEF ResultIs
    <3> QED
      BY <3>2, <3>4
  <2>2. CASE tried # << >>
    <3>1. PICK i \in 1 .. n : ResultIs(i)
      BY <1>3, <2>2 DEF WinnerSoFar
    <3>2. result # << >> /\ result[1] = tried[i] /\ result = <<tried[i]>>
      BY <3>1 DEF ResultIs
    <3>3. 1 \in 1 .. n /\ tried'[1] = tried[1] /\ i \in DOMAIN tried' /\ tried'[i] = tried[i]
      BY <1>3
    <3>4. CASE tried[1].valuation = NaN
      <4>1. i = 1 /\ result' = result
        BY <1>1, <3>1, <3>2, <3>4 DEF ResultIs, Greater
      <4>2. ResultIs(1)'
        BY <3>2, <3>3, <3>4, <4>1 DEF ResultIs
      <4> QED
        BY <3>3, <4>1, <4>2
    <3>5. CASE tried[1].valuation # NaN
      <4>1. FirstBest(i)
        BY <3>1, <3>5 DEF ResultIs
      <4>2. /\ tried[i].valuation # NaN /\ tried[i].valuation \in Int
            /\ \A k \in 1 .. n : tried[k].valuation # NaN => tried[k].valuation <= tried[i].valuation
        BY <1>3, <1>6, <4>1 DEF FirstBest, IsBest
      <4>3. CASE Greater(v, tried[i].valuation)
        <5>1. v # NaN /\ v > tried[i].valuation /\ result' = <<r>>
          BY <1>1, <3>2, <4>3 DEF Greater
        <5>2. \A j \in 1 .. n + 1 : tried'[j].valuation # NaN => tried'[j].valuation <= v
          <6>1. ASSUME NEW j \in 1 .. n, tried[j].valuation # NaN
                PROVE  tried[j].valuation <= v
            BY <1>2, <1>6, <4>2, <5>1, <6>1
          <6> QED
            BY <1>2, <1>3, <1>5, <6>1
        <5>3. IsBest(n + 1)'
          <6> PICK k : k = n + 1
            OBVIOUS
          <6>1. IsBest(k)'
            BY <1>5, <1>9, <5>1, <5>2
          <6> QED
            BY <6>1 DEF IsBest
        <5>4. ASSUME NEW k \in 1 .. n, IsBest(k)'
              PROVE  FALSE
          <6>1. tried[k].valuation # NaN /\ v <= tried[k].valuation
            BY <1>3, <1>5, <1>9, <5>1, <5>4
          <6> QED
            BY <1>2, <1>6, <4>2, <5>1, <6>1
        <5> PICK m \in 1 .. n + 1 : m = n + 1
          OBVIOUS
        <5>5. FirstBest(m)'
          BY <1>3, <5>3, <5>4 DEF FirstBest, IsBest
        <5>6. ResultIs(m)'
          BY <1>3, <3>3, <3>5, <5>1, <5>5 DEF ResultIs
        <5> QED
          BY <1>3, <5>6
      <4>4. CASE ~Greater(v, tried[i].valuation)
        <5>1. result' = result
          BY <1>1, <3>2, <4>4
        <5>2. v # NaN => v <= tried[i].valuation
          BY <1>2, <4>2, <4>4 DEF Greater
        <5>3. IsBest(i)'
          BY <1>3, <1>5, <1>9, <4>2, <5>2
        <5>4. ASSUME NEW k \in 1 .. n + 1, IsBest(k)'
              PROVE  i <= k
          <6>1. CASE k \in 1 .. n
            <7>1. IsBest(k)
              BY <1>3, <1>9, <5>4, <6>1 DEF IsBest
            <7> QED
              BY <1>3, <4>1, <6>1, <7>1 DEF FirstBest
          <6> QED
            BY <6>1
        <5>5. ResultIs(i)'
          BY <1>3, <3>2, <3>3, <3>5, <5>1, <5>3, <5>4 DEF ResultIs, FirstBest
        <5> QED
          BY <3>3, <5>5
      <4> QED
        BY <4>3, <4>4
    <3> QED
      BY <3>4, <3>5
  <2> QED
    BY <2>1, <2>2
<1> QED
  BY <1>4, <1>7, <1>8, <1>10 DEF WinnerSoFar

(* However many combinations are tried, in whatever order and with whatever valuations,
   the parameters that are returned are the first of the best. *)
THEOREM FirstBestWins == Spec => []WinnerIsBest
<1>1. Init => WinnerSoFar
  <2> SUFFICES ASSUME Init PROVE WinnerSoFar
    OBVIOUS
  <2>1. tried = << >> /\ result = << >> /\ << >> \in Seq({})
    BY DEF Init
  <2> QED
    BY <2>1 DEF WinnerSoFar
<1>2. WinnerSoFar /\ [Next]_vars => WinnerSoFar'
  <2> SUFFICES ASSUME WinnerSoFar, [Next]_vars PROVE WinnerSoFar'
    OBVIOUS
  <2>1. ASSUME UNCHANGED <<tried, result>>
        PROVE  WinnerSoFar'
    BY <2>1 DEF WinnerSoFar, ResultIs, FirstBest, IsBest
  <2>2. CASE Valued
    BY <2>2, ValuedKeeps
  <2>3. CASE optimization_function \/ load_data \/ Optimized
    BY <2>1, <2>3 DEF optimization_function, load_data, Optimized
  <2>4. CASE ReadRow \/ AssertionError \/ row_processing_step \/ fill_signal_row
    BY <2>1, <2>4 DEF ReadRow, AssertionError, row_processing_step, fill_signal_row
  <2>5. CASE UNCHANGED vars
    BY <2>1, <2>5 DEF vars
  <2> QED
    BY <2>2, <2>3, <2>4, <2>5 DEF Next
<1>3. WinnerSoFar => WinnerIsBest
  <2> SUFFICES ASSUME WinnerSoFar, tried # << >>
               PROVE  result = <<IF tried[1].valuation = NaN THEN tried[1]
                                 ELSE tried[Min({i \in DOMAIN tried : IsBest(i)})]>>
    BY DEF WinnerIsBest
  <2>1. PICK i \in DOMAIN tried : ResultIs(i)
    BY DEF WinnerSoFar
  <2>2. CASE tried[1].valuation = NaN
    BY <2>1, <2>2 DEF ResultIs
  <2>3. CASE tried[1].valuation # NaN
    <3> DEFINE Bests == {k \in DOMAIN tried : IsBest(k)}
    <3>1. Bests \subseteq Nat /\ i \in Bests /\ \A k \in Bests : i <= k
      <4>1. DOMAIN tried \subseteq Nat
        BY LenProperties DEF WinnerSoFar
      <4>2. FirstBest(i)
        BY <2>1, <2>3 DEF ResultIs
      <4> QED
        BY <4>1, <4>2 DEF FirstBest
    <3>2. Min(Bests) \in Bests /\ Min(Bests) <= i
      BY <3>1, MinIsLeast
    <3>3. Min(Bests) = i
      <4> PICK b \in Bests : b = Min(Bests)
        BY <3>2
      <4>1. b \in Nat /\ i \in Nat /\ b <= i /\ i <= b
        BY <3>1, <3>2
      <4> HIDE DEF Bests
      <4> QED
        BY <4>1
    <3> QED
      BY <2>1, <2>3, <3>3 DEF ResultIs
  <2> QED
    BY <2>2, <2>3
<1> QED
  BY <1>1, <1>2, <1>3, PTL DEF Spec

-----------------------------------------------------------------------------
(* Rounding. *)

(* The provers multiply, but know no powers. *)
Power(k) == 10 ^ k

LEMMA Powers == /\ Power(0) = 1 /\ Power(1) = 10 /\ Power(2) = 100 /\ Power(3) = 1000
                /\ Power(4) = 10000 /\ Power(5) = 100000 /\ Power(6) = 1000000
BY DEF Power

LEMMA PowersPositive == ASSUME NEW k \in 0 .. 6 PROVE Power(k) \in Nat \ {0}
<1>1. k = 0 \/ k = 1 \/ k = 2 \/ k = 3 \/ k = 4 \/ k = 5 \/ k = 6
  OBVIOUS
<1> QED
  BY <1>1, Powers

(* What is written ends in z zeros, up to three, and is rounded to the place before. *)
LEMMA Normalized ==
    ASSUME NEW d \in Steps
    PROVE  \E z \in 0 .. 3 : /\ d.c % Power(z) = 0
                             /\ \A i \in 0 .. 3 : d.c % Power(i) = 0 => i <= z
                             /\ Place(d) = Power(d.e + z + Digits)
<1> DEFINE Zeros == {i \in 0 .. 3 : d.c % Power(i) = 0}
<1>1. d.c \in Nat \ {0}
  BY DEF Steps
<1>2. 0 \in Zeros /\ Zeros \subseteq 0 .. 3 /\ Zeros # {}
  BY <1>1, Powers
<1>3. Max(Zeros) \in Zeros /\ \A i \in Zeros : i <= Max(Zeros)
  <2> HIDE DEF Zeros
  <2> QED
    BY <1>2, MaxIsGreatest
<1>4. normalize(d).e = d.e + Max(Zeros)
  BY DEF normalize, Power
<1>5. Place(d) = Power(d.e + Max(Zeros) + Digits)
  BY <1>4 DEF Place, Power
<1> QED
  BY <1>2, <1>3, <1>5

(* A step is rounded to a power of ten, to the step itself if it is one. *)
LEMMA PlaceOfStep ==
    ASSUME NEW d \in Steps
    PROVE  /\ Place(d) \in Nat \ {0}
           /\ IsPowerOfTen(d) => Place(d) = Tenths(d)
<1> PICK c \in Nat \ {0} : c = d.c
  BY DEF Steps
<1> PICK n \in 0 .. 3 : n = d.e + Digits
  BY DEF Steps, Digits
<1>1. PICK z \in 0 .. 3 : /\ c % Power(z) = 0
                          /\ \A i \in 0 .. 3 : c % Power(i) = 0 => i <= z
                          /\ Place(d) = Power(d.e + z + Digits)
  BY Normalized
<1>2. d.e + z + Digits = n + z
  BY DEF Digits, Steps
<1>3. Place(d) = Power(n + z) /\ Tenths(d) = c * Power(n)
  BY <1>1, <1>2 DEF Tenths, Power
<1>4. Place(d) \in Nat \ {0}
  <2> PICK m \in 0 .. 6 : m = n + z
    OBVIOUS
  <2>1. Place(d) = Power(m)
    BY <1>3
  <2> QED
    BY <2>1, PowersPositive
<1>5. /\ c % 10 = 0 => 1 <= z
      /\ c % 100 = 0 => 2 <= z
      /\ c % 1000 = 0 => 3 <= z
      /\ z = 0 \/ (z = 1 /\ c % 10 = 0) \/ (z = 2 /\ c % 100 = 0) \/ (z = 3 /\ c % 1000 = 0)
  <2>1. z = 0 \/ z = 1 \/ z = 2 \/ z = 3
    OBVIOUS
  <2> QED
    BY <1>1, <2>1, Powers
<1>6. ASSUME NEW k \in 0 .. 3, c * Power(n) = Power(k)
      PROVE  n + z = k
  <2>1. n = 0 \/ n = 1 \/ n = 2 \/ n = 3
    OBVIOUS
  <2>2. k = 0 \/ k = 1 \/ k = 2 \/ k = 3
    OBVIOUS
  <2>3. \/ n = k /\ c = 1
        \/ n + 1 = k /\ c = 10
        \/ n + 2 = k /\ c = 100
        \/ n + 3 = k /\ c = 1000
    BY <1>6, <2>1, <2>2, Powers
  <2> QED
    BY <1>5, <2>3
<1>7. IsPowerOfTen(d) => \E k \in 0 .. 3 : c * Power(n) = Power(k)
  BY <1>3 DEF IsPowerOfTen, Power
<1>8. IsPowerOfTen(d) => Place(d) = Tenths(d)
  BY <1>3, <1>6, <1>7
<1> QED
  BY <1>4, <1>8

(* Rounding leaves a multiple, and no more than there was. *)
LEMMA RoundedDown ==
    ASSUME NEW x \in Nat, NEW d \in Steps
    PROVE  /\ round_down(x, d) \in Nat /\ round_down(x, d) <= x
           /\ IsPowerOfTen(d) => IsMultiple(round_down(x, d), d)
<1> PICK p \in Nat \ {0} : p = Place(d)
  BY PlaceOfStep
<1>1. round_down(x, d) = (x \div p) * p
  BY DEF round_down
<1>2. (x \div p) * p <= x /\ (x \div p) * p \in Nat
  OBVIOUS
<1>3. ((x \div p) * p) % p = 0
  OBVIOUS
<1> QED
  BY <1>1, <1>2, <1>3, PlaceOfStep DEF IsMultiple
-----------------------------------------------------------------------------
(* Types. *)

Params == [high : Int, low : Int]
Portfolios == [cash : Nat, held : UNION {[S -> Nat] : S \in SUBSET Coins}, price : [Coins -> Nat]]
Trades == [coin : Coins, signal : {"buy", "sell"}]
SignalRows == [Coins -> {"none", "buy", "sell"}]

TypeOK ==
    /\ big_table \in [1 .. Rows -> [Coins -> Quotes \cup {NoQuote}]]
    /\ combis_to_try \in Seq(Params)
    /\ phase \in {"start", "next", "rows", "coins", "over", "failed", "raised"}
    /\ params \in Params
    /\ row \in 0 .. Rows
    /\ step_dict \subseteq DOMAIN coins
    /\ step_dict # {} => phase \in {"coins", "raised"}
    /\ \A i \in step_dict : /\ big_table[row][coins[i]] \in Quotes
                            /\ portfolio.price[coins[i]] > 0
    /\ portfolio \in Portfolios
    /\ trade_list \in Seq(Trades)
    /\ signals \in Seq(SignalRows)

-----------------------------------------------------------------------------
(* The signal table tells what happened. *)

(* The last signal for c in the first n rows is to buy it. *)
Bought(n, c) == \E i \in 1 .. n : /\ signals[i][c] = "buy"
                                  /\ \A k \in i + 1 .. n : signals[k][c] = "none"

(* Unless a row can say to sell a coin that it bought, purchases and sales take turns. *)
TakeTurns == params.high >= params.low =>
    \A c \in Coins : \A i \in DOMAIN signals :
        /\ signals[i][c] = "buy" => ~Bought(i - 1, c)
        /\ signals[i][c] = "sell" => Bought(i - 1, c)

(* A trade of this row changed what the table says; no coin has two, and none that is
   still to be looked at has one. *)
TradesOnce ==
    /\ \A i \in DOMAIN trade_list : \A j \in step_dict : trade_list[i].coin # coins[j]
    /\ \A i, j \in DOMAIN trade_list : trade_list[i].coin = trade_list[j].coin => i = j
TradeTold(t) ==
    IF t.signal = "buy" THEN in_position(portfolio, t.coin) /\ ~Bought(Len(signals), t.coin)
    ELSE /\ ~in_position(portfolio, t.coin)
         /\ params.high >= params.low => Bought(Len(signals), t.coin)
Untraded(c) == \A i \in DOMAIN trade_list : trade_list[i].coin # c

ReplayInv ==
    /\ phase # "failed"
    /\ phase \in {"rows", "coins"} => TakeTurns
    /\ phase = "rows" => \A c \in Coins : in_position(portfolio, c) <=> Bought(Len(signals), c)
    /\ phase = "coins" =>
        /\ TradesOnce
        /\ \A i \in DOMAIN trade_list : TradeTold(trade_list[i])
        /\ \A c \in Coins :
            Untraded(c) => (in_position(portfolio, c) <=> Bought(Len(signals), c))

-----------------------------------------------------------------------------
(* Facts of arithmetic. *)
LEMMA Division ==
    ASSUME NEW x \in Nat, NEW k \in Nat \ {0}
    PROVE  /\ x \div k \in Nat /\ x % k \in 0 .. k - 1
           /\ k * (x \div k) <= x /\ (x \div k) * k <= x
           /\ x >= k => x \div k > 0
<1>1. x \div k \in Nat /\ x % k \in 0 .. k - 1
  OBVIOUS
<1>2. k * (x \div k) <= x /\ (x \div k) * k <= x
  OBVIOUS
<1>3. x >= k => x \div k > 0
  OBVIOUS
<1> QED
  BY <1>1, <1>2, <1>3

LEMMA Product ==
    ASSUME NEW x \in Nat, NEW y \in Nat
    PROVE  x * y \in Nat /\ (x # 0 => y <= x * y)
OBVIOUS

LEMMA ProductMonotone ==
    ASSUME NEW x \in Nat, NEW y \in Nat, NEW z \in Nat, x <= y
    PROVE  x * z <= y * z
OBVIOUS

LEMMA ProductIndex ==
    ASSUME NEW h \in Nat, NEW n \in Nat, NEW j \in Nat, j < h * n
    PROVE  n # 0 /\ j \div n < h
<1>1. n # 0
  OBVIOUS
<1>2. ASSUME j \div n >= h
      PROVE  FALSE
  <2> PICK d \in Nat : d = j \div n
    BY <1>1, Division
  <2>1. d * n <= j
    BY <1>1, Division
  <2>2. h * n <= d * n
    BY <1>2, ProductMonotone
  <2>3. h * n \in Nat /\ d * n \in Nat
    BY Product
  <2> QED
    BY <2>1, <2>2, <2>3
<1>3. j \div n \in Nat
  BY <1>1, Division
<1> QED
  BY <1>1, <1>2, <1>3

LEMMA CoinFacts ==
    /\ DOMAIN coins \subseteq Nat /\ \A i \in DOMAIN coins : coins[i] \in Coins
    /\ \A i, j \in DOMAIN coins : coins[i] = coins[j] => i = j
    /\ Len(coins) \in Nat \ {0}
    /\ IsFiniteSet(Coins) /\ Cardinality(Coins) = Len(coins)
<1>1. coins \in Seq(Coins) /\ coins # << >> /\ \A i, j \in DOMAIN coins : coins[i] = coins[j] => i = j
  BY CoinsAssumption DEF IsInjective
<1>2. /\ Len(coins) \in Nat /\ DOMAIN coins = 1 .. Len(coins)
      /\ coins \in [1 .. Len(coins) -> Coins]
  BY <1>1, LenProperties
<1>3. Len(coins) # 0
  BY <1>1, EmptySeq
<1> PICK n \in Nat : n = Len(coins)
  BY <1>2
<1>4. IsFiniteSet(1 .. n) /\ Cardinality(1 .. n) = n
  <2>0. 1 \in Int /\ n \in Int
    OBVIOUS
  <2>1. /\ IsFiniteSet(1 .. n)
        /\ Cardinality(1 .. n) = IF 1 > n THEN 0 ELSE n - 1 + 1
    BY <2>0, FS_Interval, Zenon
  <2> QED
    BY <2>1
<1>5. \A c \in Coins : \E i \in 1 .. n : coins[i] = c
  BY <1>2 DEF Coins, Range
<1>6. coins \in Bijection(1 .. n, Coins)
  BY <1>1, <1>2, <1>5 DEF Bijection, Injection, Surjection, IsInjective
<1>7. IsFiniteSet(Coins) /\ Cardinality(Coins) = n
  <2>1. ExistsBijection(1 .. n, Coins)
    BY <1>6 DEF ExistsBijection
  <2> QED
    BY <1>4, <2>1, FS_Bijection
<1> QED
  BY <1>1, <1>2, <1>3, <1>7

LEMMA HeldType ==
    ASSUME NEW p \in Portfolios
    PROVE  /\ DOMAIN p.held \subseteq Coins /\ p.held \in [DOMAIN p.held -> Nat]
           /\ p.cash \in Nat /\ p.price \in [Coins -> Nat]
           /\ IsFiniteSet(DOMAIN p.held) /\ n_positions(p) \in Nat /\ n_positions(p) <= Len(coins)
<1>1. DOMAIN p.held \subseteq Coins /\ p.held \in [DOMAIN p.held -> Nat]
      /\ p.cash \in Nat /\ p.price \in [Coins -> Nat]
  BY DEF Portfolios
<1>2. /\ IsFiniteSet(DOMAIN p.held) /\ Cardinality(DOMAIN p.held) <= Cardinality(Coins)
      /\ Cardinality(DOMAIN p.held) \in Nat
  BY <1>1, CoinFacts, FS_Subset, FS_CardinalityType
<1> QED
  BY <1>1, <1>2, CoinFacts DEF n_positions

(* There is a share for each coin that is not held. *)
LEMMA ShareOfCash ==
    ASSUME NEW p \in Portfolios, NEW c \in Coins, ~in_position(p, c)
    PROVE  LET rest == Len(coins) - n_positions(p) IN
           /\ rest \in Nat \ {0} /\ calc_cash_for_trade(p) \in Nat
           /\ rest * calc_cash_for_trade(p) <= p.cash
           /\ p.cash >= Len(coins) => calc_cash_for_trade(p) > 0
<1> PICK l \in Nat : l = Len(coins)
  BY CoinFacts
<1> PICK n \in Nat : n = n_positions(p)
  BY HeldType
<1>1. n < l
  <2>1. DOMAIN p.held \subseteq Coins /\ c \notin DOMAIN p.held
    BY HeldType DEF in_position
  <2>2. n # l
    BY <2>1, CoinFacts, FS_Subset DEF n_positions
  <2> QED
    BY <2>2, HeldType
<1> PICK k \in Nat \ {0} : k = l - n
  BY <1>1
<1> PICK x \in Nat : x = p.cash
  BY HeldType
<1>2. calc_cash_for_trade(p) = x \div k
  BY <1>1 DEF calc_cash_for_trade
<1> PICK s \in Nat : s = x \div k
  BY Division
<1>3. k * s <= x /\ (x >= k => s > 0)
  BY Division
<1>4. k <= l
  OBVIOUS
<1>5. Len(coins) - n_positions(p) = k /\ calc_cash_for_trade(p) = s
  BY <1>2
<1>6. p.cash >= Len(coins) => s > 0
  <2>1. x >= l => x >= k
    BY <1>4
  <2> QED
    BY <1>3, <2>1
<1> QED
  BY <1>3, <1>5, <1>6

(* A purchase costs no more than the share. *)
LEMMA PurchaseFits ==
    ASSUME NEW p \in Portfolios, NEW c \in Coins, ~in_position(p, c), p.price[c] > 0
    PROVE  /\ Quantity(p, c) \in Nat
           /\ Quantity(p, c) * p.price[c] \in Nat
           /\ Quantity(p, c) * p.price[c] <= calc_cash_for_trade(p)
           /\ IsPowerOfTen(coin_filters[c]) => IsMultiple(Quantity(p, c), coin_filters[c])
<1> PICK x \in Nat : x = calc_cash_for_trade(p)
  BY ShareOfCash
<1> PICK k \in Nat \ {0} : k = p.price[c]
  BY HeldType
<1>1. x \div k \in Nat /\ (x \div k) * k <= x
  BY Division
<1> PICK y \in Nat : y = x \div k
  BY <1>1
<1>2. /\ Quantity(p, c) = round_down(y, coin_filters[c])
      /\ coin_filters[c] \in Steps
  BY FiltersAssumption DEF Quantity
<1> PICK q \in Nat : q = Quantity(p, c) /\ q <= y
  BY <1>2, RoundedDown
<1>3. q * k \in Nat /\ q * k <= y * k /\ y * k \in Nat
  BY Product, ProductMonotone
<1> QED
  BY <1>1, <1>2, <1>3, RoundedDown

LEMMA EnterType ==
    ASSUME NEW p \in Portfolios, NEW c \in Coins, ~in_position(p, c), p.price[c] > 0
    PROVE  LET a == enter_position(p, c) IN
           /\ a \in Portfolios
           /\ \A x : in_position(a, x) <=> in_position(p, x) \/ x = c
           /\ a.price = p.price /\ a.held[c] = Quantity(p, c)
           /\ a.cash = p.cash - Quantity(p, c) * p.price[c]
<1> PICK q \in Nat : q = Quantity(p, c)
  BY PurchaseFits
<1> DEFINE held == [x \in DOMAIN p.held \cup {c} |-> IF x = c THEN q ELSE p.held[x]]
           a == [p EXCEPT !.cash = p.cash - q * p.price[c], !.held = held]
<1>1. enter_position(p, c) = a
  BY DEF enter_position, Portfolios
<1>2. held \in [DOMAIN p.held \cup {c} -> Nat] /\ DOMAIN p.held \cup {c} \in SUBSET Coins
  BY HeldType
<1>3. DOMAIN held = DOMAIN p.held \cup {c} /\ held[c] = q
  OBVIOUS
<1>4. p.cash - q * p.price[c] \in Nat
  <2> PICK k \in Nat : k = p.price[c]
    BY HeldType
  <2> PICK x \in Nat : x = p.cash
    BY HeldType
  <2>1. q * k \in Nat /\ q * k <= calc_cash_for_trade(p)
    BY PurchaseFits
  <2>2. calc_cash_for_trade(p) <= x
    <3> PICK r \in Nat \ {0} : r = Len(coins) - n_positions(p)
      BY ShareOfCash
    <3> PICK s \in Nat : s = calc_cash_for_trade(p)
      BY ShareOfCash
    <3>1. r * s <= x
      BY ShareOfCash
    <3>2. s <= r * s /\ r * s \in Nat
      BY Product
    <3> QED
      BY <3>1, <3>2
  <2>3. calc_cash_for_trade(p) \in Nat
    BY ShareOfCash
  <2> PICK z \in Nat : z = q * k
    BY <2>1
  <2> QED
    BY <2>1, <2>2, <2>3
<1> HIDE DEF held
<1>5. a.held = held /\ a.cash = p.cash - q * p.price[c] /\ a.price = p.price
  BY DEF Portfolios
<1>6. a \in Portfolios
  BY <1>2, <1>4 DEF Portfolios
<1> HIDE DEF a
<1> QED
  BY <1>1, <1>3, <1>5, <1>6 DEF in_position

LEMMA ExitType ==
    ASSUME NEW p \in Portfolios, NEW c \in Coins, in_position(p, c)
    PROVE  LET a == exit_position(p, c) IN
           /\ a \in Portfolios
           /\ \A x : in_position(a, x) <=> in_position(p, x) /\ x # c
           /\ a.price = p.price
<1> PICK q \in Nat : q = p.held[c]
  BY HeldType DEF in_position
<1> PICK k \in Nat : k = p.price[c]
  BY HeldType
<1> DEFINE held == Restrict(p.held, DOMAIN p.held \ {c})
           a == [p EXCEPT !.cash = p.cash + q * k, !.held = held]
<1>1. exit_position(p, c) = a
  BY DEF exit_position, Portfolios
<1>2. held \in [DOMAIN p.held \ {c} -> Nat] /\ DOMAIN p.held \ {c} \in SUBSET Coins
  BY HeldType DEF Restrict
<1>3. DOMAIN held = DOMAIN p.held \ {c}
  BY DEF Restrict
<1>4. q * k \in Nat /\ p.cash + q * k \in Nat
  <2>1. q * k \in Nat
    BY Product
  <2> PICK z \in Nat : z = q * k
    BY <2>1
  <2> QED
    BY HeldType
<1> HIDE DEF held
<1>5. a.held = held /\ a.price = p.price
  BY DEF Portfolios
<1>6. a \in Portfolios
  BY <1>2, <1>4 DEF Portfolios
<1> HIDE DEF a
<1> QED
  BY <1>1, <1>3, <1>5, <1>6 DEF in_position

LEMMA NewPortfolio == SimulatedPortfolio \in Portfolios
<1>1. << >> \in [{} -> Nat] /\ {} \in SUBSET Coins
  OBVIOUS
<1>2. [c \in Coins |-> 0] \in [Coins -> Nat]
  OBVIOUS
<1> QED
  BY <1>1, <1>2, NumbersAssumption DEF SimulatedPortfolio, Portfolios

(* Combinations pair a value of each list. *)
LEMMA CombinationsType ==
    /\ create_combinations \in Seq(Params)
    /\ \A n \in Nat : \A s \in Samples(create_combinations, n) : s \in Seq(Params)
<1> PICK h \in Nat : h = Len(optr.high)
  BY LenProperties, NumbersAssumption
<1> PICK n \in Nat : n = Len(optr.low)
  BY LenProperties, NumbersAssumption
<1>1. /\ \A i \in 1 .. h : optr.high[i] \in Int
      /\ \A i \in 1 .. n : optr.low[i] \in Int
  BY LenProperties, NumbersAssumption
<1> DEFINE combination(i) == [high |-> optr.high[(i - 1) \div n + 1],
                              low |-> optr.low[((i - 1) % n) + 1]]
<1>2. PICK m \in Nat : m = h * n
  BY Product
<1>3. ASSUME NEW i \in 1 .. m
      PROVE  combination(i) \in Params
  <2> PICK j \in Nat : j = i - 1
    OBVIOUS
  <2>0. j < m
    OBVIOUS
  <2>1. j < h * n
    BY <1>2, <2>0
  <2>2. n \in Nat \ {0} /\ j \div n < h
    BY <2>1, ProductIndex
  <2>3. j \div n \in Nat /\ j % n \in 0 .. n - 1
    BY <2>2, Division
  <2>4. PICK u \in Nat : u = j \div n
    BY <2>3
  <2>5. PICK v \in 0 .. n - 1 : v = j % n
    BY <2>3
  <2>6. u < h
    BY <2>2, <2>4
  <2>7. u + 1 \in 1 .. h /\ v + 1 \in 1 .. n
    BY <2>6
  <2>8. combination(i) = [high |-> optr.high[u + 1], low |-> optr.low[v + 1]]
    BY <2>4, <2>5
  <2> QED
    BY <1>1, <2>7, <2>8 DEF Params
<1>4. create_combinations = [i \in 1 .. m |-> combination(i)]
  BY <1>2 DEF create_combinations
<1>5. create_combinations \in Seq(Params)
  <2>1. [i \in 1 .. m |-> combination(i)] \in Seq(Params)
    <3> HIDE DEF combination
    <3> QED
      BY <1>3, IsASeq
  <2> QED
    BY <1>4, <2>1
<1>6. ASSUME NEW k \in Nat, NEW s \in Samples(create_combinations, k)
      PROVE  s \in Seq(Params)
  <2>1. PICK f \in [1 .. k -> DOMAIN create_combinations] :
            s = [i \in 1 .. k |-> create_combinations[f[i]]]
    BY DEF Samples
  <2> DEFINE e(i) == create_combinations[f[i]]
  <2>2. \A i \in 1 .. k : e(i) \in Params
    BY <1>5, ElementType
  <2>3. s = [i \in 1 .. k |-> e(i)]
    BY <2>1
  <2> HIDE DEF e
  <2> QED
    BY <2>2, <2>3, IsASeq
<1> QED
  BY <1>5, <1>6

LEMMA TypeInit == Init => TypeOK
<1>1. << >> \in Seq(Params) /\ << >> \in Seq(Trades) /\ << >> \in Seq(SignalRows)
  OBVIOUS
<1>2. 0 \in 0 .. Rows /\ [high |-> 0, low |-> 0] \in Params
  BY NumbersAssumption DEF Params
<1> QED
  BY <1>1, <1>2, NewPortfolio DEF Init, NoSimulation, TypeOK

(* A coin of the row is looked at. *)
LEMMA NextCoin ==
    ASSUME TypeOK, step_dict # {}
    PROVE  LET c == coins[Min(step_dict)] IN
           /\ Min(step_dict) \in step_dict /\ Min(step_dict) \in DOMAIN coins
           /\ c \in Coins /\ portfolio.price[c] > 0
           /\ big_table[row][c] \in Quotes
           /\ \A j \in step_dict \ {Min(step_dict)} : coins[j] # c
<1>1. step_dict \subseteq Nat /\ step_dict \subseteq DOMAIN coins
  BY CoinFacts DEF TypeOK
<1>2. Min(step_dict) \in step_dict
  BY <1>1, MinIsLeast
<1> QED
  BY <1>1, <1>2, CoinFacts DEF TypeOK

(* What looking at a coin comes to. *)
LEMMA RowStep ==
    ASSUME TypeOK, row_processing_step
    PROVE  LET c == coins[Min(step_dict)] IN
           /\ portfolio' \in Portfolios /\ portfolio'.price = portfolio.price
           /\ \A x \in Coins \ {c} : in_position(portfolio', x) <=> in_position(portfolio, x)
           /\ \/ /\ trade_list' = trade_list
                 /\ in_position(portfolio', c) <=> in_position(portfolio, c)
              \/ /\ trade_list' = Append(trade_list, [coin |-> c, signal |-> "buy"])
                 /\ ~in_position(portfolio, c) /\ in_position(portfolio', c)
              \/ /\ trade_list' = Append(trade_list, [coin |-> c, signal |-> "sell"])
                 /\ ~in_position(portfolio', c)
                 /\ in_position(portfolio, c) \/ params.high < params.low
<1> PICK c \in Coins : c = coins[Min(step_dict)]
  BY NextCoin DEF row_processing_step
<1> PICK q : q = big_table[row][c]
  OBVIOUS
<1> DEFINE buys == Buys(portfolio, c, q)
           after == IF buys THEN enter_position(portfolio, c) ELSE portfolio
           sells == Sells(after, c, q)
<1>1. portfolio \in Portfolios /\ portfolio.price[c] > 0 /\ q \in Quotes
  BY NextCoin DEF TypeOK, row_processing_step
<1>2. /\ portfolio' = IF sells THEN exit_position(after, c) ELSE after
      /\ trade_list' = IF sells THEN Append(trade_list, [coin |-> c, signal |-> "sell"])
                       ELSE IF buys THEN Append(trade_list, [coin |-> c, signal |-> "buy"])
                       ELSE trade_list
  BY DEF row_processing_step
<1>3. /\ after \in Portfolios /\ after.price = portfolio.price
      /\ \A x : in_position(after, x) <=> in_position(portfolio, x) \/ (buys /\ x = c)
  <2>1. CASE buys
    <3>1. ~in_position(portfolio, c)
      BY <2>1 DEF Buys
    <3> QED
      BY <1>1, <2>1, <3>1, EnterType
  <2>2. CASE ~buys
    BY <1>1, <2>2
  <2> QED
    BY <2>1, <2>2
<1>4. buys => ~in_position(portfolio, c) /\ q.SMA_diff > params.high
  BY DEF Buys, buy_condition
<1>5. sells => in_position(after, c) /\ q.SMA_diff < params.low
  BY DEF Sells, sell_condition
<1>6. sells /\ buys => params.high < params.low
  BY <1>1, <1>4, <1>5, NumbersAssumption DEF TypeOK, Params
<1> HIDE DEF buys, after, sells
<1>7. CASE sells
  <2>1. /\ exit_position(after, c) \in Portfolios
        /\ \A x : in_position(exit_position(after, c), x) <=> in_position(after, x) /\ x # c
        /\ exit_position(after, c).price = after.price
    BY <1>3, <1>5, <1>7, ExitType
  <2>2. portfolio' = exit_position(after, c)
    BY <1>2, <1>7
  <2>3. trade_list' = Append(trade_list, [coin |-> c, signal |-> "sell"])
    BY <1>2, <1>7
  <2>4. in_position(portfolio, c) \/ params.high < params.low
    BY <1>3, <1>5, <1>6, <1>7
  <2> QED
    BY <1>3, <2>1, <2>2, <2>3, <2>4
<1>8. CASE ~sells /\ buys
  BY <1>2, <1>3, <1>4, <1>8
<1>9. CASE ~sells /\ ~buys
  BY <1>2, <1>3, <1>9
<1> QED
  BY <1>7, <1>8, <1>9

LEMMA TypeRowStep == TypeOK /\ row_processing_step => TypeOK'
<1> SUFFICES ASSUME TypeOK, row_processing_step PROVE TypeOK'
  OBVIOUS
<1> PICK c \in Coins : c = coins[Min(step_dict)]
  BY NextCoin DEF row_processing_step
<1>1. portfolio' \in Portfolios /\ portfolio'.price = portfolio.price
  BY RowStep
<1>2. /\ [coin |-> c, signal |-> "buy"] \in Trades
      /\ [coin |-> c, signal |-> "sell"] \in Trades
  BY DEF Trades
<1>3. trade_list' \in Seq(Trades)
  <2>1. trade_list \in Seq(Trades)
    BY DEF TypeOK
  <2>2. \A t \in Trades : Append(trade_list, t) \in Seq(Trades)
    BY <2>1, AppendProperties
  <2>3. \/ trade_list' = trade_list
        \/ trade_list' = Append(trade_list, [coin |-> c, signal |-> "buy"])
        \/ trade_list' = Append(trade_list, [coin |-> c, signal |-> "sell"])
    BY RowStep
  <2> QED
    BY <1>2, <2>1, <2>2, <2>3
<1>4. /\ step_dict' \subseteq step_dict
      /\ UNCHANGED <<big_table, combis_to_try, phase, params, row, signals>>
      /\ phase = "coins"
  BY DEF row_processing_step
<1> QED
  BY <1>1, <1>3, <1>4 DEF TypeOK

LEMMA TypeReadRow == TypeOK /\ ReadRow => TypeOK'
<1> SUFFICES ASSUME TypeOK, ReadRow PROVE TypeOK'
  OBVIOUS
<1>1. row' \in 1 .. Rows /\ row' \in 0 .. Rows
  BY NumbersAssumption DEF ReadRow, TypeOK
<1> PICK n \in 1 .. Rows : n = row'
  BY <1>1
<1> PICK prices : prices = [c \in Coins |-> IF big_table[n][c] = NoQuote THEN portfolio.price[c]
                                            ELSE big_table[n][c].price]
  OBVIOUS
<1>2. portfolio' = [portfolio EXCEPT !.price = prices]
  BY DEF ReadRow, TypeOK, Portfolios
<1>3. \A c \in Coins : big_table[n][c] \in Quotes \cup {NoQuote}
  BY DEF TypeOK
<1>4. prices \in [Coins -> Nat]
  BY <1>3, NumbersAssumption DEF TypeOK, Portfolios
<1>5. portfolio' \in Portfolios /\ portfolio'.price = prices
  BY <1>2, <1>4 DEF TypeOK, Portfolios
<1>6. step_dict' = {i \in DOMAIN coins : big_table[n][coins[i]] # NoQuote}
  BY DEF ReadRow
<1>7. \A i \in step_dict' : big_table[n][coins[i]] \in Quotes /\ prices[coins[i]] > 0
  BY <1>3, <1>6, CoinFacts, NumbersAssumption
<1>8. << >> \in Seq(Trades)
  OBVIOUS
<1> QED
  BY <1>1, <1>5, <1>6, <1>7, <1>8 DEF ReadRow, TypeOK

(* No row has two trades of a coin, so the row of the signal table tells them all. *)
LEMMA OneTrade ==
    ASSUME TypeOK, TradesOnce, NEW c \in Coins, NEW i \in DOMAIN trade_list,
           trade_list[i].coin = c
    PROVE  Traded(c) = {i} /\ Cardinality(Traded(c)) = 1 /\ Min(Traded(c)) = i
<1>1. Traded(c) = {i}
  BY DEF Traded, TradesOnce
<1>2. i \in Nat
  BY LenProperties DEF TypeOK
<1>3. Min({i}) \in {i}
  BY <1>2, MinIsLeast
<1> QED
  BY <1>1, <1>3, FS_Singleton

LEMMA NoTrade ==
    ASSUME NEW c, Untraded(c)
    PROVE  Traded(c) = {} /\ Cardinality(Traded(c)) = 0
BY FS_EmptySet DEF Traded, Untraded

SignalRow == [c \in Coins |->
                 IF Traded(c) = {} THEN "none" ELSE trade_list[Min(Traded(c))].signal]

LEMMA FillsSignals ==
    ASSUME TypeOK, TradesOnce, fill_signal_row
    PROVE  /\ phase' = "rows" /\ signals' = Append(signals, SignalRow)
           /\ SignalRow \in SignalRows
           /\ \A c \in Coins : Untraded(c) => SignalRow[c] = "none"
           /\ \A i \in DOMAIN trade_list : SignalRow[trade_list[i].coin] = trade_list[i].signal
<1>1. ASSUME NEW i \in DOMAIN trade_list
      PROVE  trade_list[i] \in Trades
  BY <1>1, ElementType DEF TypeOK
<1>2. \A i \in DOMAIN trade_list : trade_list[i].coin \in Coins /\ trade_list[i].signal \in {"buy", "sell"}
  BY <1>1 DEF Trades
<1>3. \A c \in Coins : Untraded(c) \/ \E i \in DOMAIN trade_list : trade_list[i].coin = c
  BY DEF Untraded
<1>4. \A c \in Coins : ~(Cardinality(Traded(c)) > 1)
  BY <1>3, OneTrade, NoTrade
<1>5. \A c \in Coins : Untraded(c) => SignalRow[c] = "none"
  BY NoTrade DEF SignalRow
<1>6. ASSUME NEW i \in DOMAIN trade_list
      PROVE  SignalRow[trade_list[i].coin] = trade_list[i].signal
  BY <1>2, OneTrade DEF SignalRow
<1>7. \A c \in Coins : SignalRow[c] \in {"none", "buy", "sell"}
  BY <1>2, <1>3, <1>5, <1>6
<1>8. SignalRow \in SignalRows
  BY <1>7 DEF SignalRow, SignalRows
<1>9. phase' = "rows" /\ signals' = Append(signals, SignalRow)
  BY <1>4 DEF fill_signal_row, SignalRow
<1> QED
  BY <1>5, <1>6, <1>8, <1>9

LEMMA TypeNext == ASSUME TypeOK, ReplayInv, [Next]_vars PROVE TypeOK'
<1>1. CASE optimization_function
  BY <1>1, CombinationsType, NumbersAssumption DEF optimization_function, TypeOK, simulation
<1>2. CASE load_data
  <2>1. Head(combis_to_try) \in Params /\ Tail(combis_to_try) \in Seq(Params)
    BY <1>2, HeadTailProperties DEF load_data, TypeOK
  <2>2. << >> \in Seq(Trades) /\ << >> \in Seq(SignalRows) /\ 0 \in 0 .. Rows
    BY NumbersAssumption
  <2> QED
    BY <1>2, <2>1, <2>2, NewPortfolio DEF load_data, TypeOK
<1>3. CASE Valued
  BY <1>3, NewPortfolio DEF Valued, TypeOK
<1>4. CASE Optimized
  BY <1>4 DEF Optimized, simulation, TypeOK
<1>5. CASE ReadRow
  BY <1>5, TypeReadRow
<1>6. CASE row_processing_step
  BY <1>6, TypeRowStep
<1>7. CASE fill_signal_row
  <2>1. TradesOnce
    BY <1>7 DEF fill_signal_row, ReplayInv
  <2>2. /\ phase' = "rows" /\ signals' = Append(signals, SignalRow)
        /\ SignalRow \in SignalRows /\ signals \in Seq(SignalRows)
    BY <1>7, <2>1, FillsSignals DEF TypeOK
  <2>3. signals' \in Seq(SignalRows)
    BY <2>2, AppendProperties
  <2> QED
    BY <1>7, <2>2, <2>3 DEF fill_signal_row, TypeOK
<1>8. CASE UNCHANGED vars
  BY <1>8 DEF vars, simulation, TypeOK
<1>9. CASE AssertionError
  BY <1>9 DEF AssertionError, simulation, TypeOK
<1> QED
  BY <1>1, <1>2, <1>3, <1>4, <1>5, <1>6, <1>7, <1>8, <1>9 DEF Next

(* A row is added to the signal table. *)
LEMMA BoughtAppend ==
    ASSUME TypeOK, NEW f \in SignalRows, signals' = Append(signals, f), NEW c \in Coins
    PROVE  /\ \A n \in 0 .. Len(signals) : Bought(n, c)' <=> Bought(n, c)
           /\ \A n : n = Len(signals') => (Bought(n, c)' <=>
                        f[c] = "buy" \/ (f[c] = "none" /\ Bought(Len(signals), c)))
<1> PICK l \in Nat : l = Len(signals)
  BY LenProperties DEF TypeOK
<1>1. /\ Len(signals') = l + 1 /\ signals'[l + 1] = f
      /\ \A i \in 1 .. l : signals'[i] = signals[i]
  BY AppendProperties DEF TypeOK
<1>2. \A n \in 0 .. l : Bought(n, c)' <=> Bought(n, c)
  BY <1>1 DEF Bought
<1>3. f[c] \in {"none", "buy", "sell"}
  BY DEF SignalRows
<1>4. Bought(l + 1, c)' <=> \E i \in 1 .. l + 1 : /\ signals'[i][c] = "buy"
                                                 /\ \A k \in i + 1 .. l + 1 : signals'[k][c] = "none"
  BY DEF Bought
<1>5. Bought(l + 1, c)' <=> f[c] = "buy" \/ (f[c] = "none" /\ Bought(l, c))
  <2>1. ASSUME Bought(l + 1, c)', f[c] # "buy"
        PROVE  f[c] = "none" /\ Bought(l, c)
    <3>1. PICK i \in 1 .. l + 1 : /\ signals'[i][c] = "buy"
                                  /\ \A k \in i + 1 .. l + 1 : signals'[k][c] = "none"
      BY <1>4, <2>1
    <3>2. i # l + 1 /\ i \in 1 .. l /\ l + 1 \in i + 1 .. l + 1
      BY <1>1, <2>1, <3>1
    <3>3. f[c] = "none"
      BY <1>1, <3>1, <3>2
    <3>4. signals[i][c] = "buy" /\ \A k \in i + 1 .. l : signals[k][c] = "none"
      BY <1>1, <3>1, <3>2
    <3> QED
      BY <3>2, <3>3, <3>4 DEF Bought
  <2>2. ASSUME f[c] = "buy"
        PROVE  Bought(l + 1, c)'
    BY <1>1, <1>4, <2>2
  <2>3. ASSUME f[c] = "none", Bought(l, c)
        PROVE  Bought(l + 1, c)'
    <3>1. PICK i \in 1 .. l : /\ signals[i][c] = "buy"
                              /\ \A k \in i + 1 .. l : signals[k][c] = "none"
      BY <2>3 DEF Bought
    <3>2. signals'[i][c] = "buy" /\ i \in 1 .. l + 1
      BY <1>1, <3>1
    <3>3. \A k \in i + 1 .. l + 1 : signals'[k][c] = "none"
      <4> SUFFICES ASSUME NEW k \in i + 1 .. l + 1 PROVE signals'[k][c] = "none"
        OBVIOUS
      <4>1. CASE k = l + 1
        BY <1>1, <2>3, <4>1
      <4>2. CASE k # l + 1
        BY <1>1, <3>1, <4>2
      <4> QED
        BY <4>1, <4>2
    <3> QED
      BY <1>4, <3>2, <3>3
  <2> QED
    BY <2>1, <2>2, <2>3
<1>6. ASSUME NEW n, n = Len(signals')
      PROVE  Bought(n, c)' <=> f[c] = "buy" \/ (f[c] = "none" /\ Bought(l, c))
  <2>1. n = l + 1
    BY <1>1, <1>6
  <2> QED
    BY <1>5, <2>1 DEF Bought
<1> QED
  BY <1>2, <1>6

(* Nothing that the table or the portfolio tells changes. *)
LEMMA ReplayKept ==
    ASSUME ReplayInv, UNCHANGED <<portfolio, signals, params, trade_list, step_dict, phase>>
    PROVE  ReplayInv'
BY DEF ReplayInv, TakeTurns, Bought, TradesOnce, TradeTold, Untraded, in_position

LEMMA ReplayRead == ASSUME TypeOK, ReplayInv, ReadRow PROVE ReplayInv'
<1>1. /\ phase = "rows" /\ phase' = "coins" /\ trade_list' = << >>
      /\ UNCHANGED <<params, signals>> /\ portfolio'.held = portfolio.held
  BY DEF ReadRow, TypeOK, Portfolios
<1>2. DOMAIN trade_list' = {}
  BY <1>1
<1>3. TakeTurns' /\ TradesOnce'
  BY <1>1, <1>2 DEF ReplayInv, TakeTurns, Bought, TradesOnce
<1>4. \A c \in Coins : in_position(portfolio, c)' <=> Bought(Len(signals), c)'
  BY <1>1 DEF ReplayInv, Bought, in_position
<1> QED
  BY <1>1, <1>2, <1>3, <1>4 DEF ReplayInv

LEMMA ReplayRowStep == ASSUME TypeOK, ReplayInv, row_processing_step PROVE ReplayInv'
<1> PICK c \in Coins : c = coins[Min(step_dict)]
  BY NextCoin DEF row_processing_step
<1>1. /\ phase = "coins" /\ phase' = "coins" /\ UNCHANGED <<params, signals>>
      /\ step_dict' = step_dict \ {Min(step_dict)}
  BY DEF row_processing_step
<1>2. /\ \A j \in step_dict' : coins[j] # c /\ j \in step_dict
      /\ Min(step_dict) \in step_dict
  BY <1>1, NextCoin DEF row_processing_step
<1>3. \A i \in DOMAIN trade_list : /\ trade_list[i] \in Trades
                                   /\ trade_list[i].coin # c /\ trade_list[i].coin \in Coins
  <2>1. \A i \in DOMAIN trade_list : trade_list[i] \in Trades
    BY ElementType DEF TypeOK
  <2> QED
    BY <1>1, <1>2, <2>1 DEF ReplayInv, TradesOnce, Trades
<1>4. \A x \in Coins \ {c} : in_position(portfolio', x) <=> in_position(portfolio, x)
  BY RowStep
<1>5. \A x : Bought(Len(signals), x)' <=> Bought(Len(signals), x)
  BY <1>1 DEF Bought
<1>6. TakeTurns'
  BY <1>1 DEF ReplayInv, TakeTurns, Bought
<1>7. in_position(portfolio, c) <=> Bought(Len(signals), c)
  BY <1>1, <1>3 DEF ReplayInv, Untraded
<1>8. \A i \in DOMAIN trade_list : \A t : t = trade_list[i] => TradeTold(t)'
  <2> SUFFICES ASSUME NEW i \in DOMAIN trade_list, NEW t, t = trade_list[i]
               PROVE  TradeTold(t)'
    OBVIOUS
  <2>1. TradeTold(t)
    BY <1>1 DEF ReplayInv
  <2>2. t.coin \in Coins \ {c}
    BY <1>3
  <2> QED
    BY <1>1, <1>4, <1>5, <2>1, <2>2 DEF TradeTold, in_position
<1>9. CASE /\ trade_list' = trade_list
           /\ in_position(portfolio', c) <=> in_position(portfolio, c)
  <2>1. TradesOnce'
    BY <1>1, <1>2, <1>9 DEF ReplayInv, TradesOnce
  <2>2. \A i \in DOMAIN trade_list' : TradeTold(trade_list[i])'
    BY <1>8, <1>9 DEF TradeTold, in_position
  <2>3. \A x \in Coins : Untraded(x)' =>
            (in_position(portfolio', x) <=> Bought(Len(signals), x)')
    <3>1. \A x \in Coins : Untraded(x)' => Untraded(x)
      BY <1>9 DEF Untraded
    <3> QED
      BY <1>1, <1>4, <1>5, <1>9, <3>1 DEF ReplayInv
  <2> QED
    BY <1>1, <1>6, <2>1, <2>2, <2>3 DEF ReplayInv, in_position
<1>10. ASSUME NEW s \in {"buy", "sell"},
              trade_list' = Append(trade_list, [coin |-> c, signal |-> s]),
              IF s = "buy" THEN ~in_position(portfolio, c) /\ in_position(portfolio', c)
              ELSE /\ ~in_position(portfolio', c)
                   /\ in_position(portfolio, c) \/ params.high < params.low
       PROVE  ReplayInv'
  <2> PICK t : t = [coin |-> c, signal |-> s]
    OBVIOUS
  <2> PICK l \in Nat : l = Len(trade_list)
    BY LenProperties DEF TypeOK
  <2>1. t \in Trades /\ t.coin = c /\ t.signal = s
    BY DEF Trades
  <2>2. /\ DOMAIN trade_list = 1 .. l /\ DOMAIN trade_list' = 1 .. l + 1
        /\ \A i \in 1 .. l : trade_list'[i] = trade_list[i]
        /\ trade_list'[l + 1] = t
    BY <1>10, <2>1, AppendProperties, LenProperties DEF TypeOK
  <2>3. \A i \in DOMAIN trade_list' : i \in DOMAIN trade_list \/ i = l + 1
    BY <2>2
  <2>4. TradesOnce'
    <3>1. \A i \in DOMAIN trade_list' : \A j \in step_dict' : trade_list'[i].coin # coins[j]
      BY <1>1, <1>2, <2>1, <2>2, <2>3 DEF ReplayInv, TradesOnce
    <3>2. \A i, j \in DOMAIN trade_list' : trade_list'[i].coin = trade_list'[j].coin => i = j
      BY <1>1, <1>3, <2>1, <2>2, <2>3 DEF ReplayInv, TradesOnce
    <3> QED
      BY <3>1, <3>2 DEF TradesOnce
  <2>5. params.high >= params.low => ~(params.high < params.low)
    BY DEF TypeOK, Params
  <2>6. TradeTold(t)'
    <3>1. CASE s = "buy"
      BY <1>5, <1>7, <1>10, <2>1, <3>1 DEF TradeTold, in_position
    <3>2. CASE s = "sell"
      BY <1>1, <1>5, <1>7, <1>10, <2>1, <2>5, <3>2 DEF TradeTold, in_position
    <3> QED
      BY <3>1, <3>2
  <2>7. \A i \in DOMAIN trade_list' : \A u : u = trade_list'[i] => TradeTold(u)'
    BY <1>8, <2>2, <2>3, <2>6
  <2>8. \A x \in Coins : Untraded(x)' =>
            (in_position(portfolio', x) <=> Bought(Len(signals), x)')
    <3> SUFFICES ASSUME NEW x \in Coins, Untraded(x)'
                 PROVE  in_position(portfolio', x) <=> Bought(Len(signals), x)'
      OBVIOUS
    <3>1. x # c
      <4>1. l + 1 \in DOMAIN trade_list'
        BY <2>2
      <4> QED
        BY <2>1, <2>2, <4>1 DEF Untraded
    <3>2. Untraded(x)
      <4>1. \A i \in DOMAIN trade_list : i \in DOMAIN trade_list' /\ trade_list'[i] = trade_list[i]
        BY <2>2
      <4> QED
        BY <4>1 DEF Untraded
    <3> QED
      BY <1>1, <1>4, <1>5, <3>1, <3>2 DEF ReplayInv
  <2> QED
    BY <1>1, <1>6, <2>4, <2>7, <2>8 DEF ReplayInv, in_position, TradeTold
<1> QED
  BY <1>9, <1>10, RowStep

LEMMA ReplayFill == ASSUME TypeOK, ReplayInv, fill_signal_row PROVE ReplayInv'
<1>0. /\ phase = "coins" /\ UNCHANGED <<params, portfolio>>
      /\ TradesOnce
  BY DEF fill_signal_row, ReplayInv
<1> PICK f \in SignalRows : f = SignalRow
  BY <1>0, FillsSignals
<1>1. /\ phase' = "rows" /\ signals' = Append(signals, f)
      /\ \A c \in Coins : Untraded(c) => f[c] = "none"
      /\ \A i \in DOMAIN trade_list : f[trade_list[i].coin] = trade_list[i].signal
  BY <1>0, FillsSignals
<1> PICK l \in Nat : l = Len(signals)
  BY LenProperties DEF TypeOK
<1>2. /\ DOMAIN signals = 1 .. l /\ DOMAIN signals' = 1 .. l + 1 /\ Len(signals') = l + 1
      /\ signals'[l + 1] = f
      /\ \A i \in 1 .. l : signals'[i] = signals[i]
  BY <1>1, AppendProperties, LenProperties DEF TypeOK
<1>3. ASSUME NEW c \in Coins
      PROVE  /\ f[c] = "none" => (in_position(portfolio, c) <=> Bought(l, c))
             /\ f[c] = "buy" => in_position(portfolio, c) /\ ~Bought(l, c)
             /\ f[c] = "sell" => /\ ~in_position(portfolio, c)
                                 /\ params.high >= params.low => Bought(l, c)
             /\ f[c] \in {"none", "buy", "sell"}
  <2>0. f[c] \in {"none", "buy", "sell"}
    BY DEF SignalRows
  <2>1. CASE Untraded(c)
    BY <1>0, <1>1, <2>1 DEF ReplayInv
  <2>2. CASE ~Untraded(c)
    <3>1. PICK i \in DOMAIN trade_list : trade_list[i].coin = c
      BY <2>2 DEF Untraded
    <3>2. TradeTold(trade_list[i]) /\ f[c] = trade_list[i].signal
      BY <1>0, <1>1, <3>1 DEF ReplayInv
    <3>3. trade_list[i].signal \in {"buy", "sell"}
      <4>1. trade_list[i] \in Trades
        BY ElementType DEF TypeOK
      <4> QED
        BY <4>1 DEF Trades
    <3> QED
      BY <3>1, <3>2, <3>3 DEF TradeTold
  <2> QED
    BY <2>0, <2>1, <2>2
<1>4. \A c \in Coins : /\ \A n \in 0 .. l : Bought(n, c)' <=> Bought(n, c)
                       /\ \A n : n = Len(signals') => (Bought(n, c)' <=>
                                    f[c] = "buy" \/ (f[c] = "none" /\ Bought(l, c)))
  BY <1>1, BoughtAppend
<1>5. TakeTurns'
  <2> SUFFICES ASSUME params.high >= params.low, NEW c \in Coins, NEW i \in 1 .. l + 1
               PROVE  /\ signals'[i][c] = "buy" => ~Bought(i - 1, c)'
                      /\ signals'[i][c] = "sell" => Bought(i - 1, c)'
    BY <1>0, <1>2 DEF TakeTurns
  <2>1. i - 1 \in 0 .. l
    OBVIOUS
  <2>2. Bought(i - 1, c)' <=> Bought(i - 1, c)
    BY <1>4, <2>1
  <2>3. CASE i \in 1 .. l
    <3>1. TakeTurns
      BY <1>0 DEF ReplayInv
    <3>2. /\ signals[i][c] = "buy" => ~Bought(i - 1, c)
          /\ signals[i][c] = "sell" => Bought(i - 1, c)
      BY <1>2, <2>3, <3>1 DEF TakeTurns
    <3> QED
      BY <1>2, <2>2, <2>3, <3>2
  <2>4. CASE i = l + 1
    <3>1. i - 1 = l /\ signals'[i] = f
      BY <1>2, <2>4
    <3> QED
      BY <1>3, <2>2, <3>1
  <2> QED
    BY <2>3, <2>4
<1>6. ASSUME NEW c \in Coins
      PROVE  in_position(portfolio, c) <=> Bought(Len(signals), c)'
  <2>1. Bought(Len(signals), c)' <=> f[c] = "buy" \/ (f[c] = "none" /\ Bought(l, c))
    <3> PICK n : n = Len(signals')
      OBVIOUS
    <3>1. Bought(n, c)' <=> f[c] = "buy" \/ (f[c] = "none" /\ Bought(l, c))
      BY <1>4
    <3> QED
      BY <3>1 DEF Bought
  <2> QED
    BY <1>3, <2>1
<1> QED
  BY <1>0, <1>1, <1>5, <1>6 DEF ReplayInv, in_position

LEMMA ReplayNext == ASSUME TypeOK, ReplayInv, [Next]_vars PROVE ReplayInv'
<1>1. CASE optimization_function \/ Optimized
  BY <1>1 DEF optimization_function, Optimized, ReplayInv
<1>2. CASE load_data
  <2>1. phase' = "rows" /\ portfolio' = SimulatedPortfolio /\ signals' = << >>
    BY <1>2 DEF load_data
  <2>2. /\ DOMAIN signals' = {} /\ Len(signals') = 0
        /\ \A c \in Coins : ~in_position(portfolio', c)
    BY <2>1 DEF SimulatedPortfolio, in_position
  <2>3. \A c \in Coins : ~Bought(Len(signals), c)'
    BY <2>2 DEF Bought
  <2>4. TakeTurns'
    BY <2>2 DEF TakeTurns
  <2> QED
    BY <2>1, <2>2, <2>3, <2>4 DEF ReplayInv, in_position
<1>3. CASE Valued
  BY <1>3 DEF Valued, ReplayInv
<1>4. CASE ReadRow
  BY <1>4, ReplayRead
<1>5. CASE row_processing_step
  BY <1>5, ReplayRowStep
<1>6. CASE fill_signal_row
  BY <1>6, ReplayFill
<1>7. CASE UNCHANGED vars
  BY <1>7, ReplayKept DEF vars, simulation
<1>8. CASE AssertionError
  BY <1>8 DEF AssertionError, ReplayInv
<1> QED
  BY <1>1, <1>2, <1>3, <1>4, <1>5, <1>6, <1>7, <1>8 DEF Next

(* The last of c's signals decides whether it was bought. *)
LEMMA LastSignal ==
    ASSUME TypeOK, NEW c \in Coins, NEW n \in 0 .. Len(signals), NEW S,
           S = {k \in SignalsOf(c) : k <= n}
    PROVE  /\ Bought(n, c) <=> S # {} /\ signals[Max(S)][c] = "buy"
           /\ S # {} => signals[Max(S)][c] \in {"buy", "sell"}
<1> PICK l \in Nat : l = Len(signals)
  BY LenProperties DEF TypeOK
<1>1. DOMAIN signals = 1 .. l
  BY LenProperties DEF TypeOK
<1>2. n \in Nat /\ S = {k \in 1 .. n : signals[k][c] # "none"}
  BY <1>1 DEF SignalsOf
<1>3. \A k \in 1 .. n : signals[k][c] \in {"none", "buy", "sell"}
  BY <1>1, ElementType DEF TypeOK, SignalRows
<1>4. CASE S = {}
  BY <1>2, <1>4 DEF Bought
<1>5. CASE S # {}
  <2>1. Max(S) \in S /\ \A k \in S : k <= Max(S)
    BY <1>2, <1>5, MaxIsGreatest
  <2> PICK m \in 1 .. n : m = Max(S)
    BY <1>2, <2>1
  <2>0. m \in S /\ \A k \in S : k <= m
    BY <2>1
  <2>2. signals[m][c] \in {"buy", "sell"} /\ \A k \in 1 .. n : k > m => signals[k][c] = "none"
    <3>1. signals[m][c] # "none"
      BY <1>2, <2>0
    <3>2. \A k \in 1 .. n : k > m => k \notin S
      BY <2>0
    <3> QED
      BY <1>2, <1>3, <3>1, <3>2
  <2>3. \A k \in m + 1 .. n : signals[k][c] = "none"
    BY <2>2
  <2>4. ASSUME Bought(n, c)
        PROVE  signals[m][c] = "buy"
    <3>1. PICK i \in 1 .. n : /\ signals[i][c] = "buy"
                              /\ \A k \in i + 1 .. n : signals[k][c] = "none"
      BY <2>4 DEF Bought
    <3>2. ~(m \in i + 1 .. n)
      BY <2>2, <3>1
    <3>3. ~(i > m)
      BY <2>2, <3>1
    <3>4. i = m
      BY <3>2, <3>3
    <3> QED
      BY <3>1, <3>4
  <2>5. signals[m][c] = "buy" => Bought(n, c)
    BY <2>3 DEF Bought
  <2> QED
    BY <1>5, <2>2, <2>4, <2>5
<1> QED
  BY <1>4, <1>5

(* Every variable stays of its type (strategy/, optimizer/): in particular the cash and
   what is held are never negative. *)
THEOREM TypeCorrect == Spec => []TypeOK
<1>1. Init => ReplayInv
  BY DEF Init, ReplayInv
<1>2. TypeOK /\ ReplayInv /\ [Next]_vars => TypeOK' /\ ReplayInv'
  BY TypeNext, ReplayNext
<1> QED
  BY <1>1, <1>2, TypeInit, PTL DEF Spec

(* Whatever the table, the coins and the parameters, no row says two things of a coin, and
   the signals tell which coins are held; unless a row can sell what it bought, they
   buy and sell each coin in turns. *)
THEOREM TableReplays == Spec => []SignalsReplay
<1>1. TypeOK /\ ReplayInv => SignalsReplay
  <2> SUFFICES ASSUME TypeOK, ReplayInv PROVE SignalsReplay
    OBVIOUS
  <2> PICK l \in Nat : l = Len(signals)
    BY LenProperties DEF TypeOK
  <2>1. DOMAIN signals = 1 .. l
    BY LenProperties DEF TypeOK
  <2>2. ASSUME phase = "rows", NEW c \in Coins
        PROVE  in_position(portfolio, c) <=>
                    SignalsOf(c) # {} /\ signals[Max(SignalsOf(c))][c] = "buy"
    <3>1. SignalsOf(c) = {k \in SignalsOf(c) : k <= l}
      BY <2>1 DEF SignalsOf
    <3> QED
      BY <2>2, <3>1, LastSignal DEF ReplayInv
  <2>3. ASSUME phase = "rows", params.high >= params.low, NEW c \in Coins,
               NEW i \in SignalsOf(c), NEW before, before = {k \in SignalsOf(c) : k < i}
        PROVE  signals[i][c] = "buy" <=> before = {} \/ signals[Max(before)][c] = "sell"
    <3>1. i \in 1 .. l /\ i - 1 \in 0 .. l
      BY <2>1 DEF SignalsOf
    <3>2. signals[i][c] \in {"buy", "sell"}
      <4>1. signals[i] \in SignalRows
        BY <2>1, <3>1, ElementType DEF TypeOK
      <4> QED
        BY <4>1 DEF SignalsOf, SignalRows
    <3>3. before = {k \in SignalsOf(c) : k <= i - 1}
      BY <2>1, <2>3, <3>1 DEF SignalsOf
    <3>4. /\ Bought(i - 1, c) <=> before # {} /\ signals[Max(before)][c] = "buy"
          /\ before # {} => signals[Max(before)][c] \in {"buy", "sell"}
      BY <3>1, <3>3, LastSignal
    <3>5. /\ signals[i][c] = "buy" => ~Bought(i - 1, c)
          /\ signals[i][c] = "sell" => Bought(i - 1, c)
      <4>1. TakeTurns
        BY <2>3 DEF ReplayInv
      <4>2. i \in DOMAIN signals
        BY <2>1, <3>1
      <4> QED
        BY <2>3, <4>1, <4>2 DEF TakeTurns
    <3> QED
      BY <3>2, <3>4, <3>5
  <2> QED
    BY <2>2, <2>3 DEF SignalsReplay, ReplayInv
<1>2. Init => ReplayInv
  BY DEF Init, ReplayInv
<1>3. TypeOK /\ ReplayInv /\ [Next]_vars => TypeOK' /\ ReplayInv'
  BY TypeNext, ReplayNext
<1> QED
  BY <1>1, <1>2, <1>3, TypeInit, PTL DEF Spec

-----------------------------------------------------------------------------
(* Purchases. *)

LEMMA RestShares ==
    ASSUME NEW n \in Nat, NEW m \in Nat, n = m + 1, NEW share \in Nat,
           NEW cash \in Nat, n * share <= cash, NEW cost \in Nat, cost <= share
    PROVE  cash - cost >= m * share
<1>1. n * share = m * share + share
  OBVIOUS
<1>2. m * share \in Nat
  OBVIOUS
<1> DEFINE a == n * share
           b == m * share
<1>3. a <= cash /\ a = b + share /\ b \in Nat
  BY <1>1, <1>2
<1> HIDE DEF a, b
<1>4. cash - cost >= b
  BY <1>3
<1> QED
  BY <1>4 DEF b

(* Of the coins that are not held, one less is without a position after a purchase. *)
LEMMA CoinsLeft ==
    ASSUME NEW p \in Portfolios, NEW c \in Coins, ~in_position(p, c), NEW S,
           \A x : x \in S <=> in_position(p, x) \/ x = c
    PROVE  LET m == Cardinality(Coins \ S) IN
           m \in Nat /\ Len(coins) - n_positions(p) = m + 1
<1> DEFINE D == DOMAIN p.held
           left == Coins \ S
<1>1. IsFiniteSet(Coins) /\ Cardinality(Coins) = Len(coins) /\ Len(coins) \in Nat
  BY CoinFacts
<1>2. D \subseteq Coins /\ IsFiniteSet(D)
  BY HeldType
<1>3. /\ Cardinality(left) \in Nat
      /\ Cardinality(left) = Cardinality(Coins) - Cardinality(Coins \cap S)
  <2>1. /\ IsFiniteSet(left)
        /\ Cardinality(left) = Cardinality(Coins) - Cardinality(Coins \cap S)
    BY <1>1, FS_Difference
  <2> QED
    BY <2>1, FS_CardinalityType
<1>4. Coins \cap S = D \cup {c} /\ c \notin D
  BY <1>2 DEF in_position
<1>5. Cardinality(D \cup {c}) = Cardinality(D) + 1 /\ Cardinality(D) \in Nat
  BY <1>2, <1>4, FS_AddElement, FS_CardinalityType
<1>6. n_positions(p) = Cardinality(D)
  BY DEF n_positions
<1>7. Cardinality(Coins \cap S) = Cardinality(D) + 1
  BY <1>4, <1>5
<1> HIDE DEF D, left
<1>8. Cardinality(left) \in Nat /\ Len(coins) - n_positions(p) = Cardinality(left) + 1
  BY <1>1, <1>3, <1>5, <1>6, <1>7
<1> QED
  BY <1>8 DEF left

(* A purchase of row_processing_step. *)
LEMMA PurchaseIs ==
    ASSUME NEW p \in Portfolios, NEW c \in Coins, ~in_position(p, c), p.price[c] > 0
    PROVE  LET a == enter_position(p, c)
               share == calc_cash_for_trade(p)
           IN /\ p.cash >= Len(coins) => share > 0
              /\ a.cash >= Cardinality(Coins \ DOMAIN a.held) * share
              /\ IsPowerOfTen(coin_filters[c]) => IsMultiple(a.held[c], coin_filters[c])
<1> DEFINE a == enter_position(p, c)
           share == calc_cash_for_trade(p)
           cost == Quantity(p, c) * p.price[c]
           rest == Len(coins) - n_positions(p)
           m == Cardinality(Coins \ DOMAIN a.held)
<1>1. /\ rest \in Nat /\ share \in Nat /\ rest * share <= p.cash
      /\ p.cash >= Len(coins) => share > 0
  BY ShareOfCash
<1>2. /\ cost \in Nat /\ cost <= share
      /\ IsPowerOfTen(coin_filters[c]) => IsMultiple(Quantity(p, c), coin_filters[c])
  BY PurchaseFits
<1>3. /\ \A x : in_position(a, x) <=> in_position(p, x) \/ x = c
      /\ a.held[c] = Quantity(p, c) /\ a.cash = p.cash - cost
  BY EnterType
<1>4. \A x : x \in DOMAIN a.held <=> in_position(p, x) \/ x = c
  BY <1>3 DEF in_position
<1>5. m \in Nat /\ rest = m + 1
  BY <1>4, CoinsLeft
<1>6. p.cash \in Nat
  BY HeldType
<1> HIDE DEF share, cost, rest, m
<1>7. p.cash - cost >= m * share
  BY <1>1, <1>2, <1>5, <1>6, RestShares
<1> QED
  BY <1>1, <1>2, <1>3, <1>7 DEF share, cost, m

(* Each purchase (row_processing_step, calc_cash_for_trade, round_qty_down) gets a share
   of the cash if there is enough for all coins, leaves as much for every coin that is
   not held, and is of a quantity that the exchange trades in. *)
THEOREM PurchasesFit == Spec => []PurchasesSound
<1>1. Init => PurchasesSound
  BY DEF Init, NoSimulation, PurchasesSound
<1>2. ASSUME TypeOK, PurchasesSound, [Next]_vars
      PROVE  PurchasesSound'
  <2>1. CASE row_processing_step
    <3> DEFINE c == coins[Min(step_dict)]
               a == enter_position(portfolio, c)
               share == calc_cash_for_trade(portfolio)
    <3>0. step_dict # {}
      BY <2>1 DEF row_processing_step
    <3>1. c \in Coins /\ portfolio.price[c] > 0 /\ portfolio \in Portfolios
      <4>1. portfolio \in Portfolios
        BY <1>2 DEF TypeOK
      <4> QED
        BY <1>2, <3>0, <4>1, NextCoin
    <3>2. \/ purchase' = purchase
          \/ /\ ~in_position(portfolio, c)
             /\ purchase' = <<[coin |-> c, share |-> share, before |-> portfolio.cash,
                               left |-> a.cash, others |-> Coins \ DOMAIN a.held,
                               qty |-> a.held[c]]>>
      BY <2>1 DEF row_processing_step, Buys
    <3>3. ~in_position(portfolio, c) =>
              /\ portfolio.cash >= Len(coins) => share > 0
              /\ a.cash >= Cardinality(Coins \ DOMAIN a.held) * share
              /\ IsPowerOfTen(coin_filters[c]) => IsMultiple(a.held[c], coin_filters[c])
      BY <3>1, PurchaseIs
    <3> DEFINE others == Coins \ DOMAIN a.held
    <3>4. CASE purchase' = purchase
      BY <1>2, <3>4 DEF PurchasesSound
    <3>5. CASE /\ ~in_position(portfolio, c)
               /\ purchase' = <<[coin |-> c, share |-> share, before |-> portfolio.cash,
                                 left |-> a.cash, others |-> others, qty |-> a.held[c]]>>
      <4> DEFINE cash == portfolio.cash
                 left == a.cash
                 qty == a.held[c]
      <4>1. PICK b : b = [coin |-> c, share |-> share, before |-> cash,
                          left |-> left, others |-> others, qty |-> qty]
        OBVIOUS
      <4>2. purchase' = <<b>>
        BY <3>5, <4>1
      <4>3. /\ cash >= Len(coins) => share > 0
            /\ left >= Cardinality(others) * share
            /\ IsPowerOfTen(coin_filters[c]) => IsMultiple(qty, coin_filters[c])
        BY <3>3, <3>5
      <4> HIDE DEF c, a, share, others, cash, left, qty
      <4>4. /\ b.coin = c /\ b.share = share /\ b.before = cash
            /\ b.left = left /\ b.others = others /\ b.qty = qty
        BY <4>1
      <4>5. /\ b.before >= Len(coins) => b.share > 0
            /\ b.left >= Cardinality(b.others) * b.share
            /\ IsPowerOfTen(coin_filters[b.coin]) => IsMultiple(b.qty, coin_filters[b.coin])
        BY <4>3, <4>4
      <4> QED
        BY <4>2, <4>5 DEF PurchasesSound
    <3> HIDE DEF c, a, share
    <3> QED
      BY <3>2, <3>4, <3>5
  <2>2. CASE load_data
    BY <2>2 DEF load_data, PurchasesSound
  <2>3. CASE UNCHANGED purchase
    BY <1>2, <2>3 DEF PurchasesSound
  <2> QED
    BY <1>2, <2>1, <2>2, <2>3 DEF Next, vars, simulation, optimization_function, Valued,
        Optimized, ReadRow, AssertionError, fill_signal_row
<1>3. TypeOK /\ ReplayInv /\ PurchasesSound /\ [Next]_vars
      => TypeOK' /\ ReplayInv' /\ PurchasesSound'
  BY <1>2, TypeNext, ReplayNext
<1>4. Init => ReplayInv
  BY DEF Init, ReplayInv
<1> QED
  BY <1>1, <1>3, <1>4, TypeInit, PTL DEF Spec
=============================================================================
