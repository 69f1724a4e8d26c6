------------------------------ MODULE Checklist ------------------------------
(* The task checklist of one session.  memory/task_checklist.go keeps it in  *)
(* memory, the agent changes it by tool calls, and what a successful call    *)
(* returns, the whole list, is the only record of it: session/tasklist.go    *)
(* rebuilds it from the timeline when the session is loaded or a branch is   *)
(* selected, and the chat screen does so once more.                          *)
(*                                                                           *)
(* An event of the timeline is known by its active context: the records from *)
(* the last compaction, or from the first message, to the event itself.      *)
EXTENDS Naturals, Sequences, FiniteSets

CONSTANTS Title,      \* titles of items
          MaxItems,   \* items of a checklist (100)
          Edits,      \* bound: what the agent asks of the tool
          Printed,    \* bound: lists another tool may print as its output
          MaxReplies, \* bound: replies of the model
          MaxReplyCalls,  \* bound: tool calls of one reply
          MaxEvents   \* bound: events of the timeline

Progress == {"pending", "in_progress", "completed"}
\* Order and descriptions of items are left out.
TaskItem == [title : Title, status : Progress]
TaskList == SUBSET TaskItem

\* Calls whose arguments pass the checks on which of them an action takes.
Edit == [action : {"add", "set_status"}, title : Title, status : Progress]
        \cup [action : {"update"}, title : Title, newTitle : Title]
        \cup [action : {"delete"}, title : Title]
        \cup [action : {"list", "clear"}]

ASSUME ChecklistAssumption ==
    /\ Edits \subseteq Edit /\ Printed \subseteq TaskList
    /\ {MaxItems, MaxReplies} \subseteq Nat

(* ValidateTaskChecklistState, and apply: a call changes the list as a      *)
(* whole or not at all.                                                     *)
Valid(l) ==
    /\ Cardinality(l) <= MaxItems
    /\ \A i, j \in l : i.title = j.title => i = j
    /\ \A i, j \in l : i.status = "in_progress" /\ j.status = "in_progress" => i = j

Has(l, t) == \E i \in l : i.title = t

Suits(l, e) ==
    /\ e.action = "add" => ~Has(l, e.title)
    /\ e.action \in {"update", "set_status", "delete"} => Has(l, e.title)
    /\ e.action = "update" => e.newTitle = e.title \/ ~Has(l, e.newTitle)

Edited(l, e) ==
    CASE e.action = "add" -> l \cup {[title |-> e.title, status |-> e.status]}
      [] e.action = "update" ->
            {IF i.title = e.title THEN [i EXCEPT !.title = e.newTitle] ELSE i : i \in l}
      [] e.action = "set_status" ->
            {IF i.title = e.title THEN [i EXCEPT !.status = e.status] ELSE i : i \in l}
      [] e.action = "delete" -> {i \in l : i.title # e.title}
      [] e.action = "clear" -> {}
      [] e.action = "list" -> l

Accepted(l, e) == Suits(l, e) /\ Valid(Edited(l, e))

(* Records of the timeline.  Of the output of a tool it matters whether it  *)
(* decodes to a list, and to which.                                         *)
Note == [kind |-> "message"]
ReplyWith(cs) == [kind |-> "reply", calls |-> cs]
ResultOf(c, ok, decodes, l) ==
    [kind |-> "result", id |-> c.id, ok |-> ok, decodes |-> decodes, list |-> l]
Checkpoint(l) == [kind |-> "compaction", list |-> l]

\* Mutant of MadeFor: a call of any tool.
MadeForAny(p, i) ==
    \E j \in 1 .. i - 1 :
        p[j].kind = "reply" /\ \E k \in DOMAIN p[j].calls : p[j].calls[k].id = p[i].id

\* A call of the checklist tool before record i has the result i.
MadeFor(p, i) ==
    \E j \in 1 .. i - 1 :
        p[j].kind = "reply"
        /\ \E k \in DOMAIN p[j].calls : p[j].calls[k] = [id |-> p[i].id, tool |-> "task_checklist"]

Carries(p, i) ==
    \/ p[i].kind = "compaction"
    \/ /\ p[i].kind = "result" /\ p[i].ok
       /\ p[i].decodes /\ Valid(p[i].list) /\ MadeFor(p, i)

LastHeld(p, at) ==
    IF at = {} THEN {} ELSE p[CHOOSE i \in at : \A j \in at : j <= i].list

\* getLatestTaskChecklist: from the last record backwards.
Rebuilt(p) == LastHeld(p, {i \in DOMAIN p : Carries(p, i)})

\* taskChecklistFromRecords: forwards, with the names of all the calls.
Shows(p, i) ==
    \/ p[i].kind = "compaction"
    \/ /\ p[i].kind = "result" /\ p[i].decodes
       /\ \E j \in DOMAIN p :
             p[j].kind = "reply"
             /\ \E k \in DOMAIN p[j].calls :
                   p[j].calls[k] = [id |-> p[i].id, tool |-> "task_checklist"]
Shown(p) == LastHeld(p, {i \in DOMAIN p : Shows(p, i)})

VARIABLES list,      \* s.taskChecklist
          timeline,  \* the events of the timeline
          head,      \* its head
          chosen,    \* s.pendingBranchParent, or <<>>, the nil id
          agent,     \* the agent loop: [at, calls, batch, next, from]
          idle,      \* whether the session's status is idle
          late,      \* edits of calls that timed out and are still to be made
          folding,   \* the compaction under way: [by, list, stale]
          selecting, \* the event SelectBranch is called for, or <<>>
          overtaken, \* ghost: the list changed beside the call that recorded it
          made       \* replies so far
checklistVars == <<list, timeline, head, chosen, agent, idle, late, folding, selecting,
                   overtaken, made>>

Parked == [at |-> "parked", calls |-> <<>>, batch |-> <<>>, next |-> 1, from |-> <<>>]
AgentRuns == agent.at # "ended"
NoFold == [by |-> "nobody", list |-> {}, stale |-> FALSE]
Continued == IF chosen # <<>> THEN chosen ELSE head

ChecklistInit ==
    /\ list = {} /\ timeline = {<<>>} /\ head = <<>> /\ chosen = <<>>
    /\ agent = Parked /\ idle = TRUE /\ late = {}
    /\ folding = NoFold /\ selecting = <<>>
    /\ overtaken = FALSE /\ made = 0

Aside == <<idle, late, folding, selecting, overtaken, made>>

(* The agent loop.  commitMessages reads the branch to continue, and then   *)
(* appends one message after the other.                                     *)
Commits(batch) ==
    agent' = [Parked EXCEPT !.at = "committing", !.batch = batch, !.from = chosen]

TakeMessage ==
    /\ agent.at = "parked" /\ Commits(<<Note>>)
    /\ UNCHANGED <<list, timeline, head, chosen, Aside>>

CallsOf(tools) == [k \in DOMAIN tools |-> [id |-> <<made, k>>, tool |-> tools[k]]]

ReplyCalls ==
    /\ agent.at = "between" /\ made < MaxReplies /\ made' = made + 1
    /\ \E n \in 1 .. MaxReplyCalls : \E tools \in [1 .. n -> {"task_checklist", "bash"}] :
          agent' = [Parked EXCEPT !.at = "calling", !.calls = CallsOf(tools),
                                  !.batch = <<ReplyWith(CallsOf(tools))>>]
    /\ UNCHANGED <<list, timeline, head, chosen, idle, late, folding, selecting, overtaken>>

\* An answer without calls, or a message taken in the middle of a turn.
Answers ==
    /\ agent.at = "between" /\ Commits(<<Note>>)
    /\ UNCHANGED <<list, timeline, head, chosen, Aside>>

Park ==
    /\ agent.at = "between" /\ agent' = Parked
    /\ UNCHANGED <<list, timeline, head, chosen, Aside>>

Calling(tool) == agent.at = "calling" /\ agent.calls # <<>> /\ Head(agent.calls).tool = tool
Returns(ok, decodes, l) ==
    agent' = [agent EXCEPT !.calls = Tail(@),
                           !.batch = Append(@, ResultOf(Head(agent.calls), ok, decodes, l))]
Stale(f) == [f EXCEPT !.stale = TRUE]

EditList(e) ==
    /\ Calling("task_checklist") /\ Accepted(list, e)
    /\ list' = Edited(list, e) /\ Returns(TRUE, TRUE, list')
    /\ folding' = Stale(folding) /\ overtaken' = FALSE
    /\ UNCHANGED <<timeline, head, chosen, idle, late, selecting, made>>

\* The edit does not suit the list, is malformed, or the call is denied.
CallFails ==
    /\ agent.at = "calling" /\ agent.calls # <<>> /\ Returns(FALSE, FALSE, {})
    /\ UNCHANGED <<list, timeline, head, chosen, Aside>>

\* RunBounded gives up; its goroutine goes on.
CallTimesOut(e) ==
    /\ Calling("task_checklist") /\ Returns(FALSE, FALSE, {})
    /\ late' = late \cup {e}
    /\ UNCHANGED <<list, timeline, head, chosen, idle, folding, selecting, overtaken, made>>

EditLate(e) ==
    /\ e \in late /\ late' = late \ {e}
    /\ IF Accepted(list, e)
       THEN list' = Edited(list, e) /\ folding' = Stale(folding) /\ overtaken' = TRUE
       ELSE UNCHANGED <<list, folding, overtaken>>
    /\ UNCHANGED <<timeline, head, chosen, agent, idle, selecting, made>>

RunOther ==
    /\ Calling("bash")
    /\ Returns(TRUE, FALSE, {}) \/ \E l \in Printed : Returns(TRUE, TRUE, l)
    /\ UNCHANGED <<list, timeline, head, chosen, Aside>>

AllCalled ==
    /\ agent.at = "calling" /\ agent.calls = <<>> /\ Commits(agent.batch)
    /\ UNCHANGED <<list, timeline, head, chosen, Aside>>

Extend(p) == head' = p /\ timeline' = timeline \cup {p}

CommitNext ==
    /\ agent.at = "committing" /\ agent.next <= Len(agent.batch)
    /\ Extend(Append(IF agent.next = 1 /\ agent.from # <<>> THEN agent.from ELSE head,
                     agent.batch[agent.next]))
    /\ agent' = [agent EXCEPT !.next = @ + 1]
    /\ UNCHANGED <<list, chosen, Aside>>

Committed ==
    /\ agent.at = "committing" /\ agent.next > Len(agent.batch)
    /\ chosen' = IF chosen = agent.from THEN <<>> ELSE chosen
    /\ agent' = [Parked EXCEPT !.at = "between"]
    /\ UNCHANGED <<list, timeline, head, Aside>>

\* The status follows the loop, at some later time.
HubFollows ==
    /\ AgentRuns /\ idle' = (agent.at = "parked" /\ folding.by = "nobody")
    /\ UNCHANGED <<list, timeline, head, chosen, agent, late, folding, selecting, overtaken, made>>

(* compactChat, one at a time (a bound): by the loop, or by a client while   *)
(* the status is idle, though the loop may have taken a message by then.     *)
BeginFold(by) ==
    /\ folding.by = "nobody" /\ chosen = <<>>
    /\ \/ by = "loop" /\ agent.at = "between" /\ agent' = [agent EXCEPT !.at = "folding"]
       \/ by = "client" /\ AgentRuns /\ idle /\ UNCHANGED agent
    /\ folding' = [by |-> by, list |-> list, stale |-> FALSE]
    /\ UNCHANGED <<list, timeline, head, chosen, idle, late, selecting, overtaken, made>>

Resume == agent' = IF folding.by = "loop" THEN [agent EXCEPT !.at = "between"] ELSE agent

CommitFold ==
    /\ folding.by # "nobody"
    /\ Extend(<<Checkpoint(folding.list)>>)
    /\ overtaken' = (folding.stale \/ (overtaken /\ agent.at \in {"calling", "committing"}))
    /\ folding' = NoFold /\ Resume
    /\ UNCHANGED <<list, chosen, idle, late, selecting, made>>

FoldFails ==
    /\ folding.by # "nobody" /\ folding' = NoFold /\ Resume
    /\ UNCHANGED <<list, timeline, head, chosen, idle, late, selecting, overtaken, made>>

(* SelectBranch reads the list of the branch and replaces the loop's history  *)
(* before it restores the list, unless a message has arrived meanwhile.       *)
BeginSelect(p) ==
    /\ AgentRuns /\ idle /\ selecting = <<>> /\ p \in timeline \ {<<>>}
    /\ selecting' = p
    /\ UNCHANGED <<list, timeline, head, chosen, agent, idle, late, folding, overtaken, made>>

EndSelect ==
    /\ selecting # <<>> /\ selecting' = <<>>
    /\ list' = Rebuilt(selecting) /\ chosen' = selecting
    /\ folding' = Stale(folding) /\ overtaken' = (agent.at \in {"calling", "committing"})
    /\ UNCHANGED <<timeline, head, agent, idle, late, made>>

SelectFails ==
    /\ selecting # <<>> /\ selecting' = <<>>
    /\ UNCHANGED <<list, timeline, head, chosen, agent, idle, late, folding, overtaken, made>>

\* Closed, killed, or a message that cannot be stored.
End ==
    /\ AgentRuns /\ agent' = [Parked EXCEPT !.at = "ended"]
    /\ late' = {} /\ folding' = NoFold /\ selecting' = <<>>
    /\ UNCHANGED <<list, timeline, head, chosen, idle, overtaken, made>>

LoadAgain ==
    /\ agent.at = "ended" /\ agent' = Parked /\ idle' = TRUE
    /\ list' = Rebuilt(head) /\ chosen' = <<>> /\ overtaken' = FALSE
    /\ UNCHANGED <<timeline, head, late, folding, selecting, made>>

ChecklistNext ==
    /\ \/ TakeMessage \/ ReplyCalls \/ Answers \/ Park \/ AllCalled
       \/ CommitNext \/ Committed \/ HubFollows
       \/ \E e \in Edits : EditList(e) \/ CallTimesOut(e) \/ EditLate(e)
       \/ CallFails
       \/ RunOther
       \/ \E by \in {"loop", "client"} : BeginFold(by)
       \/ CommitFold \/ FoldFails
       \/ \E p \in timeline : BeginSelect(p)
       \/ EndSelect \/ SelectFails \/ End \/ LoadAgain
    /\ Cardinality(timeline') <= MaxEvents

ChecklistSpec == ChecklistInit /\ [][ChecklistNext]_checklistVars

\* Whenever the loop is between turns the list is the one that loading the
\* session, or continuing the selected branch, would give back, though results
\* are committed after the edits they report, compactions run beside and
\* branches are selected.  Left out are lists that changed beside the call that
\* recorded them: a call that timed out, a compaction that overlapped an edit.
Restorable ==
    agent.at \in {"parked", "between", "folding"} /\ ~overtaken => list = Rebuilt(Continued)

\* No point of the timeline restores an invalid list, and none shows a list on
\* the screen that is not the one restored (getLatestTaskChecklist backwards,
\* taskChecklistFromRecords forwards).
RebuiltAlike == \A p \in timeline : Valid(Rebuilt(p)) /\ Shown(p) = Rebuilt(p)

\* The task checklist is valid, and what the timeline holds of it is it.
ChecklistHeld == Valid(list) /\ Restorable /\ RebuiltAlike
=============================================================================
