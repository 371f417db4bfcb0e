\* Two callers over a TTL and more while the document is edited once.
CONSTANTS
    Caller = {c1, c2}
    NoOne = NoOne
    TTL = 2
    MaxTime = 3
    MaxVersion = 1
SPECIFICATION StoreSpec
INVARIANTS TypeOK FreshOrFailed NoGoingBack
PROPERTIES LoadsAreATTLApart EveryLookupReturns
