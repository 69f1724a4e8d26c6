---- MODULE MCStream ----
EXTENDS Stream, TLC
====
