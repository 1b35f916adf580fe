SPECIFICATION FairSpec
CONSTANTS
    Cancellers = {k1, k2}
    Claimers = {c1, c2, c3}
INVARIANT ClaimExclusive
PROPERTIES ImplementsAtomic EveryCallReturns
