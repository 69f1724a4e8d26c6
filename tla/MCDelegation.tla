---------------------------- MODULE MCDelegation ----------------------------
(* Small instances of Delegation for TLC. *)
EXTENDS Delegation

\* Replies that delegate twice.
InPairs == {<<"background", "background">>, <<"background", "foreground">>,
            <<"foreground", "foreground">>}

\* A reply that delegates once more than a full inbox and a relay that waits
\* for it hold: it is closed or runs to its end, but nothing is canceled and
\* no sidecar fails.
InThrees == {<<"foreground", "foreground", "foreground">>}

InPairsOrThrees == InPairs \cup InThrees

VARIABLE replies
ChosenVars == <<replies, vars>>

Chosen ==
    /\ UNCHANGED replies
    /\ turn.pc = "generate" /\ turn'.pc = "dispatch" => turn'.calls \in replies
    /\ replies = InThrees =>
          seen'.cancels = 0 /\ \A r \in Request : "cancel" \notin ToSet(sidecar'[r].todo)

ChosenInit == Init /\ replies \in {InPairs, InThrees}
ChosenNext == Next /\ Chosen

ChosenSpec == ChosenInit /\ [][ChosenNext]_ChosenVars /\ WF_ChosenVars(System /\ Chosen)
=============================================================================
