SPECIFICATION Spec
CONSTANT Size = 3
INVARIANTS TypeOK HeldIsInitialized
PROPERTIES HandedOutOnce FailsOnlyWhenAllBusy NewReturns
