CONSTANTS
    btc = btc  eth = eth  None = None
    coins <- TwoCoins
    coin_filters <- Filters
    Capital = 20
    Quotes <- SomeQuotes
    NoQuote = None
    Rows = 3
    optr <- Parameters
    n_attempts = 1
    Valuations = {1, 2}
    NaN <- NotANumber
SPECIFICATION Spec
INVARIANTS PurchasesSound SignalsReplay WinnerIsBest
CHECK_DEADLOCK FALSE
