SPECIFICATION Spec
CONSTANTS
    Profile = {p1, p2}
    Port = {1, 2}
    PipeCapacity = 1
    LogCapacity = 1
    MaxStarts = 2
    Budgets <- MCBudgets
    Lines = {"line", "long"}
    Foreign <- Free
INVARIANTS RunsAreTrue
PROPERTIES ServersAreEnded StopEnds
CHECK_DEADLOCK FALSE
