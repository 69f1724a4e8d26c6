SPECIFICATION EngineSpec
CONSTANTS
    Provider = {codex, deepseek}
    Codex = codex
    Session = {s1}
    Server = {m1}
    Policy = {p1}
    Client = {c1, c2}
    MaxCalls = 4
    MaxTokens = 3
    MaxFaults = 1
    Ops <- RequestsOrConnections
    McpServer = {m1, m2}
    Tool = {t1, t2}
    Uri = {u1}
    Caller = {k1, k2}
    Nobody = Nobody
    None = None
    Torn = Torn
INVARIANTS ConfigDurable ServersHeld
PROPERTIES CredentialsKept CallsReturn
CHECK_DEADLOCK FALSE
