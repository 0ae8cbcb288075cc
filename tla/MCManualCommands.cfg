SPECIFICATION Spec
CONSTANTS
    Ids = {c1, c2, c3}
    NoId = NoId
    TTL = 2
    MaxEntries = 2
    MaxNow = 5
INVARIANTS TypeOK SentIsBarred
PROPERTIES CarriedOutOnce FileIsAnswered
