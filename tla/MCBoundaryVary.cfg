SPECIFICATION Spec
CONSTANT Input <- TerminalCases
CHECK_DEADLOCK FALSE
INVARIANTS
    VaryTokensKept
