SPECIFICATION TerminalSpec
INVARIANT RestoredAtEnd
CHECK_DEADLOCK FALSE
