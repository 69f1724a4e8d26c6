------------------------------ MODULE Session ------------------------------
(***************************************************************************)
(* One interactive session of the agent harness (pkg/agent/session and     *)
(* pkg/agent/agent): the agent's loop, the hub goroutine that turns its    *)
(* events into the session's status, and the clients' calls, which run on  *)
(* goroutines of their own and share the session through s.mu, the event   *)
(* bus, the mailbox and the cancellation channel.                          *)
(*                                                                         *)
(* A step is what a goroutine does between two points where another one    *)
(* can see or change what it uses: a critical section of s.mu, a channel   *)
(* operation, an append to the timeline.  The timeline is the sequence of  *)
(* committed events, an event being its position in it; what the files of  *)
(* the timeline do under failures is module Timeline.                      *)
(***************************************************************************)
EXTENDS Integers, Sequences, FiniteSets

CONSTANTS
    Mixes,        \* what may occur together in one behaviour, see Mix
    Resumed,      \* does the session start from a timeline of one exchange?
    MaxMessages,  \* bound: user messages
    MaxToolReplies, \* bound: replies that make tool calls
    MaxCalls,     \* bound: tool calls in one reply
    MaxCancels, MaxCompactions, MaxBranches,  \* bounds: calls of a client
    BusCap,       \* capacity of eventBus, 256 in the code
    MailboxCap,   \* capacity of the mailbox, 10 in the code
    Retention     \* retentionEvents, 4 in the code

\* A call of a human-approved tool; of a tool that runs cancelable (bash, MCP);
\* of both; of neither (the file tools under an allowing policy).
Call == {"human", "cancelable", "both", "plain"}

\* ops: the clients' calls "cancel", "compact", "branch" and "close", and
\* "autocompact" and "storagefault" of the session itself; calls: the kinds of
\* tool call the model may make; messages, toolReplies: the bounds above, or less.
Mix == [ops : SUBSET {"cancel", "compact", "branch", "close", "autocompact", "storagefault"},
        calls : SUBSET Call, messages : 0..MaxMessages, toolReplies : 0..MaxToolReplies]

ASSUME SessionAssumption ==
    /\ Mixes \subseteq Mix
    /\ Resumed \in BOOLEAN
    /\ MaxMessages \in Nat /\ MaxToolReplies \in Nat /\ MaxCalls \in Nat
    /\ MaxCancels \in Nat /\ MaxCompactions \in Nat /\ MaxBranches \in Nat
    /\ BusCap \in Nat \ {0} /\ MailboxCap \in Nat \ {0} /\ Retention \in Nat \ {0}

VARIABLES
    status,    \* s.status
    ctx,       \* is s.ctx "live" or "done"
    bus,       \* s.eventBus
    hub,       \* handlerForSessionEvents: "running" or "stopped"
    mailbox,   \* the queued user messages
    drain,     \* drainValve
    token,     \* userCancellation holds a token
    approval,  \* pendingApproval: the number of the request, 0 for nil
    decision,  \* the decision channel of the request performHITL waits on
    watch,     \* the goroutine that cancels the generation or tool running now
    stale,     \* do such goroutines still select whose generation or tool is over?
    agent,     \* StartLoop's position and locals
    fold,      \* the automatic and the manual compactChat in progress
    timeline,  \* the committed events
    head,      \* the timeline's HEAD, 0 for the root
    branch,    \* pendingBranchParent, 0 for none
    active,    \* activeTimeline
    working,   \* the agent's workingHistory
    client,    \* the position and locals of each client call in progress
    seen       \* the mix, and ghosts: what the properties relate the present to

inbox == <<mailbox, drain>>
approvals == <<approval, decision>>
watches == <<watch, stale>>
history == <<timeline, head, branch, active, working>>
vars == <<status, ctx, bus, hub, inbox, token, approvals, watches, agent, fold, history,
          client, seen>>

\* What a step of the agent that only moves its position leaves alone.
rest == <<status, ctx, hub, inbox, token, approvals, watches, fold, history, client, seen>>

Statuses == {"idle", "busy", "compacting", "waiting_approval", "tombstone"}

\* The kinds of event that move the status; the others only pass through.
Kinds == {"idle", "busy", "manual_compaction", "auto_compaction", "compaction_executed",
          "approval_requested", "approval_resolved", "fatal"}

Event == [parent : Nat, kind : {"user", "reply", "tool", "compaction"}, message : Nat]

AgentPcs == {"consume", "drain", "idle", "listen", "park", "busy", "commit", "append", "apply",
             "extend", "poll", "generate", "generating", "call", "request", "publish", "wait",
             "withdrawn", "await", "tool", "fatal", "usage", "trigger", "compacting", "install",
             "done"}
FoldPcs == {"off", "trigger", "snapshot", "summarize", "apply", "return", "failed", "finish",
            "report"}
ClientPcs == {"off", "checked", "publish", "send", "switch", "select", "cancelctx", "wait",
              "closed"}

TypeOK ==
    /\ status \in Statuses
    /\ ctx \in {"live", "done"} /\ hub \in {"running", "stopped"}
    /\ bus \in Seq(Kinds) /\ Len(bus) <= BusCap
    /\ mailbox \in Seq(1..MaxMessages) /\ Len(mailbox) <= MailboxCap
    /\ drain \in BOOLEAN /\ token \in BOOLEAN
    /\ approval \in Nat /\ decision \in {"none", "approve", "deny", "cancel"}
    /\ watch \in {"none", "waiting", "fired"} /\ stale \in BOOLEAN
    /\ agent.pc \in AgentPcs
    /\ \A c \in DOMAIN fold : fold[c].pc \in FoldPcs /\ fold[c].history \in Seq(DOMAIN timeline)
    /\ timeline \in Seq(Event) /\ head \in 0..Len(timeline) /\ branch \in 0..Len(timeline)
    /\ active \in Seq(DOMAIN timeline) /\ working \in Seq(DOMAIN timeline)
    /\ \A c \in DOMAIN client : client[c].pc \in ClientPcs

-----------------------------------------------------------------------------
(* Helpers *)

Has(op) == op \in seen.mix.ops

\* A send on eventBus, which blocks while the bus is full.
Send(kind) == Len(bus) < BusCap /\ bus' = Append(bus, kind)

\* Mutated: the publisher waits for the hub even when it is gone.
PublishUntilSent(kind) == Send(kind)

\* publish: once the session is canceled the event may be dropped instead.
Publish(kind) == Send(kind) \/ (ctx = "done" /\ UNCHANGED bus)

\* TimelineHistory of loadActiveAncestry: from the latest compaction to e.
Context(e) ==
    LET path[x \in 0..Len(timeline)] ==
            CASE x = 0 -> <<>>
              [] x # 0 /\ timeline[x].kind = "compaction" -> <<x>>
              [] OTHER -> Append(path[timeline[x].parent], x)
    IN  path[e]

\* PlanCompaction: where the history that stays raw begins, past a summary.
First(h) == IF h # <<>> /\ timeline[h[1]].kind = "compaction" THEN 2 ELSE 1

Spoken(h, i) == {j \in i..Len(h) : timeline[h[j]].kind # "tool"}

RetainedFrom(h, automatic) ==
    LET splits == {i \in First(h)..Len(h) : Cardinality(Spoken(h, i)) = Retention
                                              /\ timeline[h[i]].kind # "tool"}
    IN  IF ~automatic THEN Len(h) + 1
        ELSE IF splits = {} THEN First(h)
        ELSE CHOOSE i \in splits : TRUE

NothingToFold(h, automatic) == First(h) > Len(h) \/ RetainedFrom(h, automatic) = First(h)

Store(parent, kind, message) ==
    /\ timeline' = Append(timeline, [parent |-> parent, kind |-> kind, message |-> message])
    /\ head' = Len(timeline) + 1

Goto(pc) == agent' = [agent EXCEPT !.pc = pc]

-----------------------------------------------------------------------------
(* The agent: StartLoop *)

At(pc) == agent.pc = pc

\* publishEvent: the send, or the end of the loop once the session is canceled.
Report(kind, next) ==
    \/ Send(kind) /\ Goto(next)
    \/ ctx = "done" /\ UNCHANGED bus /\ Goto("done")

\* ConsumeAllFromInbox waits for the valve a manual compaction closes ...
Consume ==
    /\ At("consume") /\ (drain \/ ctx = "done")
    /\ Goto("drain")
    /\ UNCHANGED <<bus, rest>>

\* ... and then empties the mailbox without looking at it again.
Drain ==
    /\ At("drain")
    /\ mailbox' = <<>>
    /\ agent' = [agent EXCEPT !.unread = mailbox,
                              !.pc = IF agent.had \/ mailbox # <<>> THEN "busy" ELSE "idle"]
    /\ UNCHANGED <<status, ctx, bus, hub, drain, token, approvals, watches, fold, history,
                   client, seen>>

ReportIdle ==
    /\ At("idle") /\ Report("idle", "listen")
    /\ UNCHANGED rest

\* ListenForMessageInInbox waits for the valve, then hands out the channel.
Listen ==
    /\ At("listen") /\ (drain \/ ctx = "done")
    /\ Goto("park")
    /\ UNCHANGED <<bus, rest>>

Wake ==
    /\ At("park") /\ mailbox # <<>>
    /\ mailbox' = Tail(mailbox)
    /\ agent' = [agent EXCEPT !.unread = <<Head(mailbox)>>, !.pc = "busy"]
    /\ UNCHANGED <<status, ctx, bus, hub, drain, token, approvals, watches, fold, history,
                   client, seen>>

StopParked ==
    /\ At("park") /\ ctx = "done"
    /\ Goto("done")
    /\ UNCHANGED <<bus, rest>>

ReportBusy ==
    /\ At("busy")
    /\ \/ /\ Send("busy")
          /\ agent' = IF agent.unread = <<>> THEN [agent EXCEPT !.pc = "generate"]
                      ELSE [agent EXCEPT !.pc = "commit", !.then = "poll",
                               !.batch = [i \in DOMAIN agent.unread |->
                                             [kind |-> "user", message |-> agent.unread[i]]]]
       \/ ctx = "done" /\ UNCHANGED bus /\ Goto("done")
    /\ UNCHANGED rest

\* commitMessages reads pendingBranchParent under the lock, appends to the
\* timeline without it, and updates the session under the lock again.
BeginCommit ==
    /\ At("commit")
    /\ agent' = [agent EXCEPT !.pc = "append", !.parent = branch]
    /\ UNCHANGED <<bus, rest>>

AppendMessage ==
    /\ At("append")
    /\ Store(IF agent.ids = <<>> /\ agent.parent # 0 THEN agent.parent ELSE head,
             Head(agent.batch).kind, Head(agent.batch).message)
    /\ agent' = [agent EXCEPT !.ids = Append(@, head'), !.batch = Tail(@),
                              !.pc = IF Len(agent.batch) = 1 THEN "apply" ELSE "append"]
    /\ UNCHANGED <<status, ctx, bus, hub, inbox, token, approvals, watches, fold, branch,
                   active, working, client, seen>>

AppendFails ==
    /\ At("append") /\ Has("storagefault")
    /\ Goto("fatal")
    /\ UNCHANGED <<bus, rest>>

ReportFatal ==
    /\ At("fatal") /\ Publish("fatal")
    /\ Goto("done")
    /\ UNCHANGED rest

ApplyCommit ==
    /\ At("apply")
    /\ active' = active \o agent.ids
    /\ branch' = IF branch = agent.parent THEN 0 ELSE branch
    /\ Goto("extend")
    /\ UNCHANGED <<status, ctx, bus, hub, inbox, token, approvals, watches, fold, timeline,
                   head, working, client, seen>>

\* Mutated: the history is forgotten when the turn was canceled.
ExtendHistoryUnlessCanceled ==
    /\ At("extend")
    /\ working' = IF agent.canceled THEN working ELSE working \o agent.ids
    /\ agent' = [agent EXCEPT !.pc = agent.then, !.ids = <<>>]
    /\ UNCHANGED <<status, ctx, bus, hub, inbox, token, approvals, watches, fold, timeline,
                   head, branch, active, client, seen>>

ExtendHistory ==
    /\ At("extend")
    /\ working' = working \o agent.ids
    /\ agent' = [agent EXCEPT !.pc = agent.then, !.ids = <<>>]
    /\ UNCHANGED <<status, ctx, bus, hub, inbox, token, approvals, watches, fold, timeline,
                   head, branch, active, client, seen>>

\* The cancellation check that follows the commit of user messages.
PollCancellation ==
    /\ At("poll")
    /\ IF token
       THEN agent' = [agent EXCEPT !.pc = "consume", !.had = FALSE]
       ELSE Goto("generate")
    /\ token' = FALSE
    /\ UNCHANGED <<status, ctx, bus, hub, inbox, approvals, watches, fold, history, client, seen>>

Generate ==
    /\ At("generate")
    /\ agent' = [agent EXCEPT !.pc = "generating", !.unread = <<>>]
    /\ watch' = "waiting"
    /\ UNCHANGED <<status, ctx, bus, hub, inbox, token, approvals, stale, fold, history,
                   client, seen>>

\* The goroutine waiting for a cancellation is told that there is nothing left
\* to cancel; it may not have noticed yet when the next token arrives.  Once
\* one such goroutine is left over, there may be others.
EndWatch ==
    /\ watch' = "none"
    /\ stale' = (stale \/ watch = "waiting")

\* It takes the token; whoever cancels a context first gives its cause, so in a
\* session that is over the token is lost.
WatchFires ==
    /\ watch = "waiting" /\ token
    /\ watch' = IF ctx = "live" THEN "fired" ELSE "none"
    /\ token' = FALSE
    /\ UNCHANGED <<status, ctx, bus, hub, inbox, approvals, stale, agent, fold, history,
                   client, seen>>

StaleWatchSelects ==
    /\ stale /\ stale' \in BOOLEAN
    /\ token' \in {token, FALSE}
    /\ UNCHANGED <<status, ctx, bus, hub, inbox, approvals, watch, agent, fold, history,
                   client, seen>>

\* The generation returns a reply, even one canceled too late to be stopped.
Reply ==
    /\ At("generating")
    /\ \E n \in 0..MaxCalls : \E calls \in [1..n -> seen.mix.calls] :
          /\ n > 0 => seen.toolReplies < seen.mix.toolReplies
          /\ agent' = [agent EXCEPT !.calls = calls, !.had = (n > 0), !.canceled = FALSE,
                                    !.batch = <<[kind |-> "reply", message |-> 0]>>,
                                    !.then = "usage",
                                    !.pc = IF n > 0 THEN "call" ELSE "commit"]
          /\ seen' = [seen EXCEPT !.toolReplies = IF n > 0 THEN @ + 1 ELSE @]
    /\ EndWatch
    /\ UNCHANGED <<status, ctx, bus, hub, inbox, token, approvals, fold, history, client>>

\* It returns an error: it was canceled, the session was, or the provider failed.
ReplyFails ==
    /\ At("generating")
    /\ agent' = [agent EXCEPT !.had = FALSE,
                     !.pc = IF ctx = "done" /\ watch # "fired" THEN "done" ELSE "consume"]
    /\ EndWatch
    /\ UNCHANGED <<status, ctx, bus, hub, inbox, token, approvals, fold, history, client,
                   seen>>

-----------------------------------------------------------------------------
(* The agent: the tool calls of one reply, GenToolCallDispatchHandler *)

NextCall == Head(agent.calls)

\* The first call has its result, which says whether the turn is canceled.
Answered(canceled) ==
    agent' = [agent EXCEPT !.calls = Tail(@), !.canceled = canceled, !.pc = "call",
                           !.batch = Append(@, [kind |-> "tool", message |-> 0])]

AllAnswered ==
    /\ At("call") /\ agent.calls = <<>>
    /\ agent' = [agent EXCEPT !.pc = "commit", !.had = ~agent.canceled,
                              !.then = IF agent.canceled THEN "consume" ELSE "usage"]
    /\ UNCHANGED <<bus, rest>>

SkipCall ==
    /\ At("call") /\ agent.calls # <<>> /\ agent.canceled
    /\ Answered(TRUE)
    /\ UNCHANGED <<bus, rest>>

\* The tool starts, under runTurnCancelable if its kind is.
StartTool ==
    /\ Goto("tool")
    /\ watch' = IF NextCall = "plain" \/ NextCall = "human" THEN "none" ELSE "waiting"

StartCall ==
    /\ At("call") /\ agent.calls # <<>> /\ ~agent.canceled
    /\ IF NextCall \in {"human", "both"} THEN Goto("request") /\ UNCHANGED watch ELSE StartTool
    /\ UNCHANGED <<status, ctx, bus, hub, inbox, token, approvals, stale, fold, history,
                   client, seen>>

\* performHITL up to its unlock.
RequestApproval ==
    /\ At("request")
    /\ IF token THEN Answered(TRUE) /\ UNCHANGED approval
       ELSE IF approval # 0 THEN Answered(FALSE) /\ UNCHANGED approval
       ELSE /\ agent' = [agent EXCEPT !.request = @ + 1, !.pc = "publish"]
            /\ approval' = agent.request + 1
    /\ UNCHANGED <<status, ctx, bus, hub, inbox, token, decision, watches, fold, history,
                   client, seen>>

PublishRequest ==
    /\ At("publish") /\ Publish("approval_requested")
    /\ Goto("wait")
    /\ UNCHANGED rest

\* Mutated: only a cancellation keeps the tool from running.
TakeDecisionUnread ==
    /\ At("wait") \/ At("await")
    /\ decision # "none"
    /\ IF decision # "cancel" THEN StartTool ELSE Answered(TRUE) /\ UNCHANGED watch
    /\ decision' = "none"
    /\ UNCHANGED <<status, ctx, bus, hub, inbox, token, approval, stale, fold, history,
                   client, seen>>

TakeDecision ==
    /\ At("wait") \/ At("await")
    /\ decision # "none"
    /\ IF decision = "approve" THEN StartTool
       ELSE Answered(decision = "cancel") /\ UNCHANGED watch
    /\ decision' = "none"
    /\ UNCHANGED <<status, ctx, bus, hub, inbox, token, approval, stale, fold, history,
                   client, seen>>

\* The session ends while the request waits: it is withdrawn, unless a client
\* has taken it, whose decision is then awaited.
Withdraw ==
    /\ At("wait") /\ ctx = "done"
    /\ IF approval = agent.request
       THEN approval' = 0 /\ Goto("withdrawn")
       ELSE Goto("await") /\ UNCHANGED approval
    /\ UNCHANGED <<status, ctx, bus, hub, inbox, token, decision, watches, fold, history,
                   client, seen>>

PublishWithdrawal ==
    /\ At("withdrawn") /\ Publish("approval_resolved")
    /\ Answered(FALSE)
    /\ UNCHANGED rest

FinishTool ==
    /\ At("tool")
    /\ Answered(watch = "fired")
    /\ EndWatch
    /\ UNCHANGED <<status, ctx, bus, hub, inbox, token, approvals, fold, history, client, seen>>

-----------------------------------------------------------------------------
(* Compaction: compactChat, called by the loop and by ManualCompactChat *)

\* After a reply is committed the loop compacts if its context is nearly full.
ContinueTurn ==
    /\ At("usage")
    /\ \/ Goto("consume")
       \/ Has("autocompact") /\ seen.compactions < MaxCompactions /\ Goto("trigger")
    /\ UNCHANGED <<bus, rest>>

TriggerAuto ==
    /\ At("trigger")
    /\ \/ /\ Send("auto_compaction") /\ Goto("compacting")
          /\ fold' = [fold EXCEPT !.auto.pc = "snapshot"]
          /\ seen' = [seen EXCEPT !.compactions = @ + 1]
       \/ ctx = "done" /\ Goto("done") /\ UNCHANGED <<bus, fold, seen>>
    /\ UNCHANGED <<status, ctx, hub, inbox, token, approvals, watches, history, client>>

FoldTo(c, pc, h) == fold' = [fold EXCEPT ![c] = [pc |-> pc, history |-> h]]

\* The plan is made on a copy of activeTimeline taken under the lock.
Snapshot(c) ==
    /\ fold[c].pc = "snapshot"
    /\ IF branch # 0 THEN FoldTo(c, "failed", <<>>)
       ELSE IF NothingToFold(active, c = "auto") THEN FoldTo(c, "return", active)
       ELSE FoldTo(c, "summarize", SubSeq(active, RetainedFrom(active, c = "auto"), Len(active)))
    /\ UNCHANGED <<status, ctx, bus, hub, inbox, token, approvals, watches, agent, history,
                   client, seen>>

\* The request is canceled, a record cannot be read, the model cannot be
\* reached, the session is canceled, or the append fails.
SummaryFails(c) ==
    /\ fold[c].pc \in {"snapshot", "summarize"}
    /\ FoldTo(c, "failed", <<>>)
    /\ UNCHANGED <<status, ctx, bus, hub, inbox, token, approvals, watches, agent, history,
                   client, seen>>

\* The summary is there and commitCompaction appends it to the timeline.
StoreSummary(c) ==
    /\ fold[c].pc = "summarize"
    /\ Store(head, "compaction", 0)
    /\ FoldTo(c, "apply", <<head'>> \o fold[c].history)
    /\ UNCHANGED <<status, ctx, bus, hub, inbox, token, approvals, watches, agent, branch,
                   active, working, client, seen>>

ApplySummary(c) ==
    /\ fold[c].pc = "apply"
    /\ active' = fold[c].history
    /\ FoldTo(c, "return", fold[c].history)
    /\ UNCHANGED <<status, ctx, bus, hub, inbox, token, approvals, watches, agent, timeline,
                   head, branch, working, client, seen>>

Folded(c) == fold[c].pc \in {"return", "failed"}

\* autoCompact publishes the result before the loop installs the history.
ReportAuto ==
    /\ At("compacting") /\ Folded("auto") /\ Publish("compaction_executed")
    /\ Goto("install")
    /\ UNCHANGED rest

InstallAuto ==
    /\ At("install")
    /\ IF fold.auto.pc = "return"
       THEN working' = fold.auto.history /\ Goto("consume")
       ELSE agent' = [agent EXCEPT !.had = FALSE, !.pc = "consume"] /\ UNCHANGED working
    /\ FoldTo("auto", "off", <<>>)
    /\ UNCHANGED <<status, ctx, bus, hub, inbox, token, approvals, watches, timeline, head,
                   branch, active, client, seen>>

\* ManualCompactChat, of one client at a time.
ManualCompact ==
    /\ Has("compact") /\ seen.compactions < MaxCompactions
    /\ fold.manual.pc = "off"
    /\ status = "idle" /\ mailbox = <<>>
    /\ drain' = FALSE
    /\ FoldTo("manual", "trigger", <<>>)
    /\ seen' = [seen EXCEPT !.compactions = @ + 1]
    /\ UNCHANGED <<status, ctx, bus, hub, mailbox, token, approvals, watches, agent, history,
                   client>>

TriggerManual ==
    /\ fold.manual.pc = "trigger" /\ Publish("manual_compaction")
    /\ FoldTo("manual", "snapshot", <<>>)
    /\ UNCHANGED <<status, ctx, hub, inbox, token, approvals, watches, agent, history,
                   client, seen>>

\* ReplaceHistory refuses once the session is canceled.
InstallManual ==
    /\ Folded("manual")
    /\ working' = IF fold.manual.pc = "return" /\ ctx = "live" THEN fold.manual.history
                  ELSE working
    /\ FoldTo("manual", "finish", <<>>)
    /\ UNCHANGED <<status, ctx, bus, hub, inbox, token, approvals, watches, agent, timeline,
                   head, branch, active, client, seen>>

\* Mutated: the valve stays closed.
AllowDrainingForgotten ==
    /\ fold.manual.pc = "finish"
    /\ FoldTo("manual", "report", <<>>)
    /\ UNCHANGED <<status, ctx, bus, hub, inbox, token, approvals, watches, agent, history,
                   client, seen>>

AllowDraining ==
    /\ fold.manual.pc = "finish"
    /\ drain' = TRUE
    /\ FoldTo("manual", "report", <<>>)
    /\ UNCHANGED <<status, ctx, bus, hub, mailbox, token, approvals, watches, agent, history,
                   client, seen>>

ReportManual ==
    /\ fold.manual.pc = "report" /\ Publish("compaction_executed")
    /\ FoldTo("manual", "off", <<>>)
    /\ UNCHANGED <<status, ctx, hub, inbox, token, approvals, watches, agent, history,
                   client, seen>>

-----------------------------------------------------------------------------
(* The hub: handlerForSessionEvents, the one writer of the status of a live *)
(* session.  The status of an interactive session is concluded only by      *)
(* max_iteration_exhausted, which it would take 2^32 iterations to reach,   *)
(* so moveStatusLocked always moves it.                                     *)

\* What the status becomes when the hub handles an event.
Moved(kind) ==
    CASE kind \in {"idle", "busy"} -> IF status \in {"idle", "busy"} THEN kind ELSE status
      [] kind \in {"manual_compaction", "auto_compaction"} -> "compacting"
      [] kind = "compaction_executed" -> "idle"
      [] kind = "approval_requested" -> "waiting_approval"
      [] kind = "approval_resolved" -> "busy"
      [] kind = "fatal" -> "tombstone"

HandleEvent ==
    /\ hub = "running" /\ bus # <<>>
    /\ bus' = Tail(bus)
    /\ status' = Moved(Head(bus))
    /\ ctx' = IF Head(bus) = "fatal" THEN "done" ELSE ctx
    /\ UNCHANGED <<hub, inbox, token, approvals, watches, agent, fold, history, client, seen>>

StopHub ==
    /\ hub = "running" /\ ctx = "done"
    /\ hub' = "stopped"
    /\ UNCHANGED <<status, ctx, bus, inbox, token, approvals, watches, agent, fold, history,
                   client, seen>>

-----------------------------------------------------------------------------
(* The clients.  One call of each kind at a time; another client's call of *)
(* the same kind would be one more interleaving of the same steps.         *)

Calling(c, pc) == client[c].pc = pc
ClientGoto(c, pc) == client' = [client EXCEPT ![c].pc = pc]

\* EnqueueUserMessage checks the status, releases s.mu, saves the metadata ...
EnqueueUserMessage ==
    /\ Calling("enqueue", "off") /\ seen.sent < seen.mix.messages
    /\ status \notin {"compacting", "tombstone"} /\ ctx = "live"
    /\ ClientGoto("enqueue", "send")
    /\ UNCHANGED <<status, ctx, bus, hub, inbox, token, approvals, watches, agent, fold,
                   history, seen>>

\* ... and sends, which blocks while the mailbox is full, even of a session
\* that is gone by now.
SendMessage ==
    /\ Calling("enqueue", "send") /\ Len(mailbox) < MailboxCap
    /\ mailbox' = Append(mailbox, seen.sent + 1)
    /\ seen' = [seen EXCEPT !.sent = @ + 1]
    /\ ClientGoto("enqueue", "off")
    /\ UNCHANGED <<status, ctx, bus, hub, drain, token, approvals, watches, agent, fold,
                   history>>

\* Its request is canceled or times out first.
SendGivesUp ==
    /\ Calling("enqueue", "send") /\ Len(mailbox) = MailboxCap
    /\ ClientGoto("enqueue", "off")
    /\ UNCHANGED <<status, ctx, bus, hub, inbox, token, approvals, watches, agent, fold,
                   history, seen>>

\* Mutated: the waiting tool call is taken but never told.
CancelTurnUntold ==
    /\ Has("cancel") /\ seen.cancels < MaxCancels
    /\ Calling("cancel", "off")
    /\ ctx = "live" /\ status \in {"busy", "waiting_approval"}
    /\ token' = TRUE /\ approval' = 0
    /\ seen' = [seen EXCEPT !.cancels = @ + 1]
    /\ UNCHANGED <<status, ctx, bus, hub, inbox, decision, watches, agent, fold, history, client>>

\* CancelTurn leaves a token and takes the waiting approval, if there is one.
CancelTurn ==
    /\ Has("cancel") /\ seen.cancels < MaxCancels
    /\ Calling("cancel", "off")
    /\ ctx = "live" /\ status \in {"busy", "waiting_approval"}
    /\ token' = TRUE /\ approval' = 0
    /\ client' = IF approval = 0 THEN client
                 ELSE [client EXCEPT !.cancel = [pc |-> "publish", verdict |-> "cancel"]]
    /\ seen' = [seen EXCEPT !.cancels = @ + 1]
    /\ UNCHANGED <<status, ctx, bus, hub, inbox, decision, watches, agent, fold, history>>

\* A client knows the request from the event or from the view it joined with.
ResolveApproval(verdict) ==
    /\ Calling("resolve", "off")
    /\ status # "tombstone" /\ approval # 0
    /\ approval' = 0
    /\ client' = [client EXCEPT !.resolve = [pc |-> "publish", verdict |-> verdict]]
    /\ seen' = [seen EXCEPT !.approved = IF verdict = "approve" THEN @ \cup {approval} ELSE @]
    /\ UNCHANGED <<status, ctx, bus, hub, inbox, token, decision, watches, agent, fold, history>>

\* Both calls report the resolution before they release the tool call.
PublishResolution(c) ==
    /\ Calling(c, "publish") /\ Publish("approval_resolved")
    /\ ClientGoto(c, "send")
    /\ UNCHANGED <<status, ctx, hub, inbox, token, approvals, watches, agent, fold, history,
                   seen>>

SendDecision(c) ==
    /\ Calling(c, "send")
    /\ decision' = client[c].verdict
    /\ client' = [client EXCEPT ![c] = [pc |-> "off", verdict |-> "none"]]
    /\ UNCHANGED <<status, ctx, bus, hub, inbox, token, approval, watches, agent, fold,
                   history, seen>>

\* SelectBranch checks, reads the branch without the lock ...
SelectBranch(e) ==
    /\ Has("branch") /\ seen.branches < MaxBranches
    /\ Calling("branch", "off")
    /\ status = "idle" /\ mailbox = <<>>
    /\ client' = [client EXCEPT !.branch = [pc |-> "switch", event |-> e]]
    /\ seen' = [seen EXCEPT !.branches = @ + 1]
    /\ UNCHANGED <<status, ctx, bus, hub, inbox, token, approvals, watches, agent, fold, history>>

EndSelect == client' = [client EXCEPT !.branch = [pc |-> "off", event |-> 0]]

\* ... replaces the agent's history ...
SwitchHistory ==
    /\ Calling("branch", "switch")
    /\ IF ctx = "done" THEN EndSelect /\ UNCHANGED working
       ELSE working' = Context(client.branch.event) /\ ClientGoto("branch", "select")
    /\ UNCHANGED <<status, ctx, bus, hub, inbox, token, approvals, watches, agent, fold,
                   timeline, head, branch, active, seen>>

\* ... and then the session's, unless a message was queued meanwhile.
FinishSelect ==
    /\ Calling("branch", "select")
    /\ IF mailbox # <<>> THEN UNCHANGED <<branch, active>>
       ELSE branch' = client.branch.event /\ active' = Context(client.branch.event)
    /\ EndSelect
    /\ UNCHANGED <<status, ctx, bus, hub, inbox, token, approvals, watches, agent, fold,
                   timeline, head, working, seen>>

\* CloseWithReason.
Close ==
    /\ Has("close") /\ Calling("close", "off")
    /\ status' = "tombstone"
    /\ ClientGoto("close", "cancelctx")
    /\ UNCHANGED <<ctx, bus, hub, inbox, token, approvals, watches, agent, fold, history, seen>>

CancelSession ==
    /\ Calling("close", "cancelctx")
    /\ ctx' = "done"
    /\ ClientGoto("close", "wait")
    /\ UNCHANGED <<status, bus, hub, inbox, token, approvals, watches, agent, fold, history,
                   seen>>

\* s.wg.Wait: the loop and the hub have returned.
FinishClose ==
    /\ Calling("close", "wait") /\ At("done") /\ hub = "stopped"
    /\ ClientGoto("close", "closed")
    /\ UNCHANGED <<status, ctx, bus, hub, inbox, token, approvals, watches, agent, fold,
                   history, seen>>

-----------------------------------------------------------------------------

\* A new session, or one resumed from a timeline of one exchange.
Init ==
    /\ status = "idle" /\ ctx = "live" /\ bus = <<>> /\ hub = "running"
    /\ mailbox = <<>> /\ drain = TRUE /\ token = FALSE
    /\ approval = 0 /\ decision = "none" /\ watch = "none" /\ stale = FALSE
    /\ agent = [pc |-> "consume", unread |-> <<>>, had |-> FALSE, calls |-> <<>>,
                canceled |-> FALSE, batch |-> <<>>, ids |-> <<>>, parent |-> 0,
                then |-> "consume", request |-> 0]
    /\ fold = [c \in {"auto", "manual"} |-> [pc |-> "off", history |-> <<>>]]
    /\ timeline = IF Resumed THEN <<[parent |-> 0, kind |-> "user", message |-> 0],
                                    [parent |-> 1, kind |-> "reply", message |-> 0]>>
                  ELSE <<>>
    /\ head = Len(timeline) /\ branch = 0
    /\ active = [i \in 1..Len(timeline) |-> i] /\ working = active
    /\ client = [enqueue |-> [pc |-> "off"], close |-> [pc |-> "off"],
                 cancel |-> [pc |-> "off", verdict |-> "none"],
                 resolve |-> [pc |-> "off", verdict |-> "none"],
                 branch |-> [pc |-> "off", event |-> 0]]
    /\ seen \in [mix : Mixes, sent : {0}, cancels : {0}, toolReplies : {0}, compactions : {0},
                 branches : {0}, approved : {{}}]

Turn == \/ Consume \/ Drain \/ ReportIdle \/ Listen \/ Wake \/ StopParked \/ ReportBusy
        \/ BeginCommit \/ AppendMessage \/ AppendFails \/ ReportFatal \/ ApplyCommit
        \/ ExtendHistory \/ PollCancellation \/ Generate \/ Reply \/ ReplyFails \/ ContinueTurn

ToolCalls == \/ AllAnswered \/ SkipCall \/ StartCall \/ RequestApproval \/ PublishRequest
             \/ TakeDecision \/ Withdraw \/ PublishWithdrawal \/ FinishTool

Compact(c) == Snapshot(c) \/ SummaryFails(c) \/ StoreSummary(c) \/ ApplySummary(c)

Agent == Turn \/ ToolCalls \/ TriggerAuto \/ Compact("auto") \/ ReportAuto \/ InstallAuto

Watchers == WatchFires \/ StaleWatchSelects

Hub == HandleEvent \/ StopHub

Compactor == \/ TriggerManual \/ Compact("manual") \/ InstallManual \/ AllowDraining
             \/ ReportManual

\* The steps of a call a client has made, and the calls.
Enqueuer == SendMessage \/ SendGivesUp
Resolver(c) == PublishResolution(c) \/ SendDecision(c)
Brancher == SwitchHistory \/ FinishSelect
Closer == CancelSession \/ FinishClose

Clients ==
    \/ EnqueueUserMessage \/ CancelTurn \/ ManualCompact \/ Close
    \/ \E verdict \in {"approve", "deny"} : ResolveApproval(verdict)
    \/ \E e \in DOMAIN timeline : SelectBranch(e)

Next == Agent \/ Watchers \/ Hub \/ Compactor \/ Enqueuer \/ Brancher \/ Closer \/ Clients
        \/ \E c \in {"cancel", "resolve"} : Resolver(c)

Spec == Init /\ [][Next]_vars

\* Every goroutine that can run does.  Generations and tools end, which their
\* contexts and time limits are for; whether a client ever calls is its choice.
Fairness ==
    /\ WF_vars(Agent) /\ WF_vars(Hub) /\ WF_vars(Compactor) /\ WF_vars(Enqueuer)
    /\ WF_vars(Brancher) /\ WF_vars(Closer)
    /\ \A c \in {"cancel", "resolve"} : WF_vars(Resolver(c))

FairSpec == Spec /\ Fairness

-----------------------------------------------------------------------------
(* Properties *)

\* A tool call that waits for a decision can always be given one: its request
\* is there to be answered or taken by a client on its way to answer it.
\* (performHITL against CancelTurn, ResolveApproval and the end of the session)
Answerable ==
    At("wait") \/ At("await") =>
        \/ decision # "none"
        \/ At("wait") /\ approval = agent.request
        \/ \E c \in {"cancel", "resolve"} : client[c].pc \in {"publish", "send"}

\* A tool that asks for approval runs only if its own request was approved,
\* however cancellations and decisions race.
ApprovedOnly ==
    At("tool") /\ NextCall \in {"human", "both"} => agent.request \in seen.approved

\* Until a branch is selected or a history compacted, the model is asked to
\* continue exactly the committed chain that ends at the timeline's HEAD, in
\* the session's memory and in the agent's.
ContinuesHead ==
    At("generate") /\ seen.branches = 0 /\ seen.compactions = 0
    => working = active /\ active = Context(head)

NoCall == \A c \in DOMAIN client : client[c].pc \in {"off", "closed"}

Sent(m) == m <= seen.sent
Committed(m) == \E e \in DOMAIN timeline : timeline[e].kind = "user" /\ timeline[e].message = m

\* A message the session accepted is committed to the timeline, unless the
\* session ends or an approval keeps the turn waiting.
SentIsCommitted ==
    \A m \in 1..MaxMessages : Sent(m) ~> Committed(m) \/ ctx = "done" \/ At("wait")

\* Close returns, whatever the loop, a tool call or a client was waiting for.
CloseReturns == Calling("close", "wait") ~> Calling("close", "closed")
=============================================================================
