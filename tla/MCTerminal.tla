---- MODULE MCTerminal ----
EXTENDS Terminal
====
