SPECIFICATION TerminalSpec
CONSTANTS
    Session = {s1, s2}
    None = None
    Buffer = 1
    Command = {"list", "related", "models", "compact", "prompt", "submit", "close", "delete"}
    MaxCommands = 2
    MaxTurns = 2
    MaxFailures = 1
INVARIANTS ScreenIsTrue FormsAreOwn
PROPERTIES PagesEnd
CHECK_DEADLOCK FALSE
