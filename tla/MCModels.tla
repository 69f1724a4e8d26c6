------------------------------ MODULE MCModels ------------------------------
(* The calls of a session's model, or, in a part of its own, the checklist   *)
(* its tools keep.                                                           *)
EXTENDS Models, Checklist

MCTexts == {<<"x">>}
MCCalls == [claude |-> 3, codex |-> 2, deepseek |-> 2, openai |-> 2]
MCReplies == {<<"p", "q">>, <<"p", "c">>, <<"p", "|", "q">>}
Said(r) == <<User(<<"x">>), Assistant(r), User(<<"x">>)>>
MCBranches == {Said(<<"p", "c">>), Said(<<"p", "q">>)}

\* Two items in progress at once, and two of one title, are asked for.
MCEdits == {[action |-> "add", title |-> "a", status |-> "in_progress"],
            [action |-> "add", title |-> "b", status |-> "in_progress"]}
MCPrinted == {{[title |-> "b", status |-> "completed"]}}

VARIABLE part

PartsInit ==
    /\ Init /\ ChecklistInit /\ part \in {"calls", "checklist"}
    /\ part = "checklist" => provider = CHOOSE p \in Providers : TRUE

PartsNext ==
    /\ part' = part
    /\ \/ part = "calls" /\ Next /\ UNCHANGED checklistVars
       \/ part = "checklist" /\ ChecklistNext /\ UNCHANGED vars

PartsSpec ==
    /\ PartsInit /\ [][PartsNext]_<<vars, checklistVars, part>>
    /\ \A c \in Callers : WF_vars(Adaptor(c))
=============================================================================
