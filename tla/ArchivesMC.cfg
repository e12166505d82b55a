SPECIFICATION Spec
CONSTANT Sessions <- SessionsMC
INVARIANTS NoUseAfterClose SecondCloseHitsNothing DirectoriesReadable NothingLeftOpen CompleteLoads
CHECK_DEADLOCK FALSE
