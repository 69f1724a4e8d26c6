---- MODULE MCLauncher ----
EXTENDS Launcher
Free == {{}}
Budget(starts, lines, resizes) == [starts |-> starts, lines |-> lines, resizes |-> resizes]
MCBudgets == {Budget(2, 1, 0), Budget(2, 0, 1), Budget(1, 1, 1)}
====
