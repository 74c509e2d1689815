CONSTANT MaxCon = 2
SPECIFICATION FairSpec
INVARIANTS LinkInv OneOwner LoginFirst
PROPERTIES ImplementsLifecycle StrandedUntilReset AttemptEnds StartsOnceOnline
