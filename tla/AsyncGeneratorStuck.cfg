SPECIFICATION AsyncGeneratorSpec
CONSTANT MaxRequests = 4
INVARIANT EveryRequestAnswered
CHECK_DEADLOCK FALSE
