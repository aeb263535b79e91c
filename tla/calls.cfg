CONSTANTS
    None = None
    anna = anna  boris = boris  cyril = cyril
    c1 = c1
    Phones = {anna, boris, cyril}
    Located = {anna, boris}
    Calls = {c1}
    Listing = {boris}
    Refusals = {"603", "486"}
    MaxDups = 1
CHECK_DEADLOCK FALSE
SPECIFICATION FairSpec
INVARIANTS ExitsOnlyForUnlocated AnsweredMeansAnswered FiledTogether
INVARIANT RecordMatchesOutcome
PROPERTY CallerHears
