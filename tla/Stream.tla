---------------------------- MODULE Stream ----------------------------
(* How a session is watched and how it asks: the event bus and its hub   *)
(* (session.go, handlerForSessionEvents), the clients attached to it     *)
(* (runtime.go, the join-stream handler of the server and the terminal's *)
(* observer), and the questions of MCP servers (elicitation.go).         *)
(* One section of the code under s.mu is one step.  Statuses are         *)
(* Session.tla's: here only the tombstone is kept.                       *)
EXTENDS Naturals, Sequences, FiniteSets

CONSTANTS Client,               \* join-stream requests, each may be made again
          Question,             \* elicitations MCP servers may ask
          None,
          MAX_SESSION_CLIENTS,  \* clients attached at a time
          SUBSCRIBER_BUFFER,    \* events queued for a client
          BusCapacity,          \* events queued for the hub
          MaxMessages,          \* bound: messages the loop publishes
          MaxActivity,          \* bound: messages and questions together
          MaxJoins,             \* bound: joins of all clients
          MaxFailures           \* bound: commits that fail

ASSUME StreamAssumption ==
    /\ {MAX_SESSION_CLIENTS, SUBSCRIBER_BUFFER, BusCapacity} \subseteq Nat \ {0}
    /\ {MaxMessages, MaxActivity, MaxJoins, MaxFailures} \subseteq Nat
    /\ None \notin Question

VARIABLES loop,      \* the agent's loop: [pc, published, committed, failures]
          eventBus,  \* events on their way to the hub
          hub,       \* handlerForSessionEvents: "running", "fatal" or "ended"
          inFlight,  \* messages of inFlight: what a replay of it appends
          pending,   \* pendingElicitation
          ask,       \* per question, the MCPElicit call
          queue,     \* per client, sub.events
          open,      \* clients whose queue is not closed
          subs,      \* s.subscribers
          client,    \* per client, its handler and what it shows
          joins,
          cause,     \* why the session's context has ended, None before
          closer     \* CloseWithReason: "open", "tombstone", "waiting", "closed"

streamVars == <<loop, eventBus, hub, inFlight, pending, ask, queue, open, subs, client, joins, cause, closer>>
hubVars == <<hub, inFlight>>
clientVars == <<queue, open, subs, client, joins>>

Notice(kind, of) == [kind |-> kind, of |-> of]
Gap == Notice("gap", None)
Fatal == Notice("fatal", None)

(* Messages in s.activeTimeline: commits are in order.                   *)
History == 1..loop.committed
(* The status says the session is over; its context has ended.           *)
Tombstone == closer # "open" \/ hub = "fatal"
ctxDone == cause # None

(* The client's transcript: history is the joined view's, shown the      *)
(* messages it appended from events, form the question on its screen.    *)
Out == [handler |-> "out", history |-> {}, shown |-> <<>>, form |-> None]
Returning == [Out EXCEPT !.handler = "returning"]

Activity == loop.published + Cardinality({q \in Question : ask[q].pc # "new"})

StreamInit ==
    /\ loop = [pc |-> "running", published |-> 0, committed |-> 0, failures |-> 0]
    /\ eventBus = <<>> /\ hub = "running" /\ inFlight = <<>>
    /\ pending = None
    /\ ask = [q \in Question |-> [pc |-> "new", given |-> None, result |-> None]]
    /\ queue = [c \in Client |-> <<>>] /\ open = {} /\ subs = {}
    /\ client = [c \in Client |-> Out] /\ joins = 0
    /\ cause = None /\ closer = "open"

-----------------------------------------------------------------------
(* Publishing and the agent's loop.                                      *)

(* publish, publishEvent: wait for room in the bus, unless the session   *)
(* is over.  A bus nobody reads any more is left empty.                  *)
Publish(event) ==
    hub # "ended" /\ Len(eventBus) < BusCapacity /\ eventBus' = Append(eventBus, event)
GiveUp == ctxDone /\ UNCHANGED eventBus

(* The loop takes up a message and publishes its echo or its text.       *)
PublishMessage ==
    /\ loop.pc = "running"
    /\ loop.published < MaxMessages /\ Activity < MaxActivity
    /\ \/ /\ Publish(Notice("message", loop.published + 1))
          /\ loop' = [loop EXCEPT !.published = @ + 1]
       \/ GiveUp /\ loop' = [loop EXCEPT !.pc = "ended"]
    /\ UNCHANGED <<hubVars, pending, ask, clientVars, cause, closer>>

(* commitMessages exposes the published messages and empties the         *)
(* in-flight log in one section.                                         *)
Commit ==
    /\ loop.pc = "running" /\ loop.committed < loop.published
    /\ loop' = [loop EXCEPT !.committed = loop.published]
    /\ inFlight' = <<>>
    /\ UNCHANGED <<eventBus, hub, pending, ask, clientVars, cause, closer>>

(* A message that cannot be persisted ends the session.                  *)
CommitFails ==
    /\ loop.pc = "running" /\ loop.committed < loop.published
    /\ loop.failures < MaxFailures
    /\ loop' = [loop EXCEPT !.pc = "failed", !.failures = @ + 1]
    /\ UNCHANGED <<eventBus, hubVars, pending, ask, clientVars, cause, closer>>

PublishFatal ==
    /\ loop.pc = "failed"
    /\ Publish(Fatal) \/ GiveUp
    /\ loop' = [loop EXCEPT !.pc = "ended"]
    /\ UNCHANGED <<hubVars, pending, ask, clientVars, cause, closer>>

LoopEnds ==
    /\ ctxDone /\ loop.pc = "running"
    /\ loop' = [loop EXCEPT !.pc = "ended"]
    /\ UNCHANGED <<eventBus, hubVars, pending, ask, clientVars, cause, closer>>

-----------------------------------------------------------------------
(* The hub.                                                              *)

(* offer: a queue without room refuses.                                  *)
Offer(c, event) == Len(queue[c]) < SUBSCRIBER_BUFFER

(* Mutant: a slow client misses the event instead of being evicted.     *)
NotifyDropping(event) ==
    /\ queue' = [c \in Client |-> IF c \in subs /\ Offer(c, event)
                                     THEN Append(queue[c], event) ELSE queue[c]]
    /\ UNCHANGED <<subs, open>>

(* notifySubscribers: each attached client is offered the event; one     *)
(* that is too slow is evicted: its backlog is replaced by the gap.      *)
NotifySubscribers(event) ==
    LET kept == {c \in subs : Offer(c, event)}
    IN /\ queue' = [c \in Client |-> IF c \in kept THEN Append(queue[c], event)
                                     ELSE IF c \in subs THEN <<Gap>> ELSE queue[c]]
       /\ subs' = kept
       /\ open' = open \ (subs \ kept)

(* handlerForSessionEvents: the event is logged and fanned out in one    *)
(* section.  Of the log only the messages leave a trace when a client    *)
(* replays it: the view itself says which question is outstanding.       *)
Handle ==
    /\ hub = "running" /\ eventBus # <<>>
    /\ LET event == Head(eventBus)
       IN /\ eventBus' = Tail(eventBus)
          /\ inFlight' = IF event.kind = "message" THEN Append(inFlight, event.of) ELSE inFlight
          /\ NotifySubscribers(event)
          /\ hub' = IF event = Fatal THEN "fatal" ELSE hub
    /\ UNCHANGED <<loop, pending, ask, client, joins, cause, closer>>

(* The end of a fatal event: only after the clients were told is the     *)
(* context canceled.                                                     *)
CancelFatal ==
    /\ hub = "fatal"
    /\ hub' = "running"
    /\ cause' = IF ctxDone THEN cause ELSE "fatal"
    /\ UNCHANGED <<loop, eventBus, inFlight, pending, ask, clientVars, closer>>

HubEnds ==
    /\ hub = "running" /\ ctxDone
    /\ hub' = "ended" /\ eventBus' = <<>>
    /\ UNCHANGED <<loop, inFlight, pending, ask, clientVars, cause, closer>>

-----------------------------------------------------------------------
(* Clients.                                                              *)

(* JoinSessionEvents: the queue is registered and the view taken in one  *)
(* section; the client then replays the in-flight log of its view and    *)
(* shows the question the view says is outstanding.  Handlers are alike: *)
(* any one of those that are out stands for the next.                    *)
Join(c) ==
    /\ client[c].handler = "out" /\ c = CHOOSE d \in Client : client[d].handler = "out"
    /\ joins < MaxJoins
    /\ ~ctxDone /\ ~Tombstone /\ Cardinality(subs) < MAX_SESSION_CLIENTS
    /\ subs' = subs \union {c} /\ open' = open \union {c}
    /\ queue' = [queue EXCEPT ![c] = <<>>]
    /\ client' = [client EXCEPT ![c] = [handler |-> "joined", history |-> History,
                      shown |-> inFlight, form |-> pending]]
    /\ joins' = joins + 1
    /\ UNCHANGED <<loop, eventBus, hubVars, pending, ask, cause, closer>>

(* applySessionEvent: what an event does to the client's screen.         *)
Applied(screen, event) ==
    [screen EXCEPT
        !.shown = IF event.kind = "message" THEN Append(@, event.of) ELSE @,
        !.form  = CASE event.kind = "asked" -> event.of
                    [] event.kind = "answered" /\ event.of = @ -> None
                    [] OTHER -> @]

(* handleJoinSession: the next event, and after a gap the handler        *)
(* returns; so it does when the queue is closed and empty.               *)
Receive(c) ==
    /\ client[c].handler \in {"joined", "left"} /\ queue[c] # <<>>
    /\ LET event  == Head(queue[c])
           screen == IF client[c].handler = "joined" THEN Applied(client[c], event) ELSE client[c]
       IN client' = [client EXCEPT ![c] =
                        IF event = Gap THEN Returning ELSE screen]
    /\ queue' = [queue EXCEPT ![c] = Tail(@)]
    /\ UNCHANGED <<loop, eventBus, hubVars, pending, ask, open, subs, joins, cause, closer>>

StreamEnds(c) ==
    /\ client[c].handler \in {"joined", "left"} /\ queue[c] = <<>> /\ c \notin open
    /\ client' = [client EXCEPT ![c] = Returning]
    /\ UNCHANGED <<loop, eventBus, hubVars, pending, ask, queue, open, subs, joins, cause, closer>>

(* The client goes away; its handler may notice it at any time.          *)
Disconnect(c) ==
    /\ client[c].handler = "joined"
    /\ client' = [client EXCEPT ![c] = [Out EXCEPT !.handler = "left"]]
    /\ UNCHANGED <<loop, eventBus, hubVars, pending, ask, queue, open, subs, joins, cause, closer>>

NoticeDisconnect(c) ==
    /\ client[c].handler = "left"
    /\ client' = [client EXCEPT ![c] = Returning]
    /\ UNCHANGED <<loop, eventBus, hubVars, pending, ask, queue, open, subs, joins, cause, closer>>

(* The deferred unsubscribe.                                             *)
Unsubscribe(c) ==
    /\ client[c].handler = "returning"
    /\ subs' = subs \ {c} /\ open' = open \ {c}
    /\ queue' = [queue EXCEPT ![c] = <<>>]
    /\ client' = [client EXCEPT ![c] = Out]
    /\ UNCHANGED <<loop, eventBus, hubVars, pending, ask, joins, cause, closer>>

-----------------------------------------------------------------------
(* Questions.                                                            *)

(* MCPElicit registers its question, or fails if one is pending.         *)
Ask(q) ==
    /\ ask[q].pc = "new" /\ ~ctxDone /\ Activity < MaxActivity
    /\ IF pending = None
         THEN pending' = q /\ ask' = [ask EXCEPT ![q].pc = "publishing"]
         ELSE ask' = [ask EXCEPT ![q].pc = "refused"] /\ UNCHANGED pending
    /\ UNCHANGED <<loop, eventBus, hubVars, clientVars, cause, closer>>

PublishAsked(q) ==
    /\ ask[q].pc = "publishing"
    /\ Publish(Notice("asked", q)) \/ GiveUp
    /\ ask' = [ask EXCEPT ![q].pc = "waiting"]
    /\ UNCHANGED <<loop, hubVars, pending, clientVars, cause, closer>>

(* Mutant: a canceled request does not look whether its question was taken.*)
WithdrawAnyway(q) ==
    /\ ask[q].pc = "waiting"
    /\ pending' = IF pending = q THEN None ELSE pending
    /\ ask' = [ask EXCEPT ![q].pc = "concluded", ![q].result = "cancel"]
    /\ UNCHANGED <<loop, eventBus, hubVars, clientVars, cause, closer>>

(* ctx.Done: the server withdrew its request or its connection is        *)
(* closed.  The question is withdrawn, unless somebody has taken it:     *)
(* then the conclusion is on its way and is waited for.                  *)
Withdraw(q) ==
    /\ ask[q].pc = "waiting"
    /\ IF pending = q
         THEN /\ pending' = None
              /\ ask' = [ask EXCEPT ![q].pc = "concluded", ![q].result = "cancel"]
         ELSE ask' = [ask EXCEPT ![q].pc = "committed"] /\ UNCHANGED pending
    /\ UNCHANGED <<loop, eventBus, hubVars, clientVars, cause, closer>>

(* The conclusion is received; who took the question sends it after the  *)
(* lock is released.                                                     *)
TakeConclusion(q) ==
    /\ ask[q].pc \in {"waiting", "committed"} /\ ask[q].given # None
    /\ ask' = [ask EXCEPT ![q].pc = "concluded", ![q].result = ask[q].given]
    /\ UNCHANGED <<loop, eventBus, hubVars, pending, clientVars, cause, closer>>

PublishAnswered(q) ==
    /\ ask[q].pc = "concluded"
    /\ Publish(Notice("answered", q)) \/ GiveUp
    /\ ask' = [ask EXCEPT ![q] = [pc |-> "returned", given |-> None, result |-> None]]
    /\ UNCHANGED <<loop, hubVars, pending, clientVars, cause, closer>>

(* submitElicit and ResolveElicitation: the client retracts its form;    *)
(* the answer, whatever it is, counts if the question is outstanding.    *)
Answer(c, q) ==
    /\ client[c].handler = "joined" /\ client[c].form = q
    /\ client' = [client EXCEPT ![c].form = None]
    /\ IF pending = q
         THEN pending' = None /\ ask' = [ask EXCEPT ![q].given = "accept"]
         ELSE UNCHANGED <<pending, ask>>
    /\ UNCHANGED <<loop, eventBus, hubVars, queue, open, subs, joins, cause, closer>>

(* CancelTurn takes the question too.                                    *)
CancelTurn(q) ==
    /\ ~ctxDone /\ ~Tombstone /\ pending = q
    /\ pending' = None
    /\ ask' = [ask EXCEPT ![q].given = "cancel"]
    /\ UNCHANGED <<loop, eventBus, hubVars, clientVars, cause, closer>>

-----------------------------------------------------------------------
(* Mutant: the queues of released clients stay open.                    *)
ReleaseWithoutClosing == subs' = {} /\ UNCHANGED open

(* The end of the session.                                               *)

ReleaseSubscribers == subs' = {} /\ open' = open \ subs

(* The goroutine of NewInfaiAgentSession that waits for the context.     *)
ReleaseAtEnd ==
    /\ ctxDone /\ subs # {}
    /\ ReleaseSubscribers
    /\ UNCHANGED <<loop, eventBus, hubVars, pending, ask, queue, client, joins, cause, closer>>

CloseSession ==
    /\ closer = "open"
    /\ closer' = "tombstone"
    /\ UNCHANGED <<loop, eventBus, hubVars, pending, ask, clientVars, cause>>

CloseCancels ==
    /\ closer = "tombstone"
    /\ cause' = IF ctxDone THEN cause ELSE "closed"
    /\ closer' = "waiting"
    /\ UNCHANGED <<loop, eventBus, hubVars, pending, ask, clientVars>>

(* wg.Wait, then the clients that are left.                              *)
CloseReleases ==
    /\ closer = "waiting" /\ loop.pc = "ended" /\ hub = "ended"
    /\ ReleaseSubscribers /\ closer' = "closed"
    /\ UNCHANGED <<loop, eventBus, hubVars, pending, ask, queue, client, joins, cause>>

Done ==
    /\ closer = "closed" /\ UNCHANGED streamVars

-----------------------------------------------------------------------
Loop == PublishMessage \/ Commit \/ CommitFails \/ PublishFatal \/ LoopEnds
Hub == Handle \/ CancelFatal \/ HubEnds
Stream(c) == Receive(c) \/ StreamEnds(c) \/ NoticeDisconnect(c) \/ Unsubscribe(c)
Elicit(q) == PublishAsked(q) \/ TakeConclusion(q) \/ PublishAnswered(q)
Closing == ReleaseAtEnd \/ CloseCancels \/ CloseReleases

StreamNext ==
    \/ Loop \/ Hub \/ Closing \/ CloseSession \/ Done
    \/ \E c \in Client : Join(c) \/ Stream(c) \/ Disconnect(c)
    \/ \E q \in Question :
          \/ Ask(q) \/ Elicit(q) \/ Withdraw(q) \/ CancelTurn(q)
          \/ \E c \in Client : Answer(c, q)

(* Everything the process does on its own goes on: goroutines are        *)
(* scheduled, a connection is read or ends, and closing the MCP manager  *)
(* ends the requests of its servers.  Every such step is taken finitely  *)
(* often, so one weak fairness is enough.                                *)
System ==
    \/ Loop \/ Hub \/ Closing
    \/ \E c \in Client : Stream(c)
    \/ \E q \in Question : Elicit(q) \/ (ctxDone /\ Withdraw(q))

StreamSpec == StreamInit /\ [][StreamNext]_streamVars /\ WF_streamVars(System)

-----------------------------------------------------------------------
(* Types and limits: never more clients than allowed, and no queue or    *)
(* bus above its capacity (evict's send cannot block).                   *)
StreamTypeOK ==
    /\ loop \in [pc: {"running", "failed", "ended"}, published: 0..MaxMessages,
                 committed: 0..MaxMessages, failures: 0..MaxFailures]
    /\ hub \in {"running", "fatal", "ended"}
    /\ pending \in Question \union {None}
    /\ cause \in {None, "fatal", "closed"}
    /\ closer \in {"open", "tombstone", "waiting", "closed"}
    /\ subs \subseteq Client /\ open \subseteq Client /\ subs \subseteq open
    /\ Cardinality(subs) <= MAX_SESSION_CLIENTS
    /\ Len(eventBus) <= BusCapacity
    /\ \A c \in Client : Len(queue[c]) <= SUBSCRIBER_BUFFER

(* A client that joined with a history, was shown some messages and has  *)
(* some coming, misses none of the n published, and sees them in order.  *)
Announced(events) == {events[i].of : i \in {j \in DOMAIN events : events[j].kind = "message"}}
Complete(n, history, shown, coming) ==
    /\ history \union {shown[i] : i \in DOMAIN shown} \union Announced(coming) = 1..n
    /\ \A i, j \in DOMAIN shown : i < j => shown[i] < shown[j]
    /\ \A i \in DOMAIN shown : \A m \in Announced(coming) : shown[i] < m
    /\ \A i, j \in DOMAIN coming :
          i < j /\ coming[i].kind = "message" /\ coming[j].kind = "message"
              => coming[i].of < coming[j].of

(* One half of what runtime.go promises of a join, "never neither": an   *)
(* attached client finds a message in its view or receives its event.    *)
(* Its view, what it was shown, what is queued for it and what is still  *)
(* on the bus are all messages so far, and the events come in order.  A  *)
(* message may be in the view and come as an event too.                  *)
MissesNothing ==
    \A c \in subs : client[c].handler = "joined" /\ ~ctxDone =>
        Complete(loop.published, client[c].history, client[c].shown, queue[c] \o eventBus)

(* The other half, "never both": no message of its view comes to a       *)
(* client as an event.  One that is committed while its event is still   *)
(* on the bus does, to a client that joins before the hub handles it.    *)
NeverBoth ==
    \A c \in subs : client[c].handler = "joined" =>
        \A m \in client[c].history :
            /\ \A i \in DOMAIN client[c].shown : client[c].shown[i] # m
            /\ m \notin Announced(queue[c])

(* An answer a client was told is accepted is the one the server gets,   *)
(* and no other, however it races with the end of the request; without   *)
(* one the server is told its question was canceled.                     *)
AnswerReaches ==
    \A q \in Question : ask[q].pc = "concluded" =>
        ask[q].result = IF ask[q].given # None THEN ask[q].given ELSE "cancel"

(* Every stream ends after the session does, whoever ended it and        *)
(* however slow or gone the client is; and a question that was taken, or *)
(* whose session ended, returns to its server.                           *)
StreamsEnd ==
    /\ ctxDone ~> \A c \in Client : client[c].handler = "out"
    /\ \A q \in Question :
          (ask[q].given # None \/ (ctxDone /\ ask[q].pc # "new"))
              ~> ask[q].pc \in {"refused", "returned"}

=======================================================================
