\* Two requests for one place.
SPECIFICATION FairSpec
CONSTANTS
    r1 = r1
    r2 = r2
    Reqs <- TwoReqs
    Codes <- SomeCodes
    MaxConns = 1
INVARIANTS TypeOK CountsExact VerdictMatches AnswerHonest
PROPERTIES EveryRequestAnswered
CHECK_DEADLOCK FALSE
