----------------------------- MODULE Delegation -----------------------------
(***************************************************************************)
(* Delegation to sidecars (pkg/agent/delegate, comms, engine and session):  *)
(* an interactive session whose model calls the two delegation tools, the  *)
(* engine that creates the sidecar sessions and relays what they report,   *)
(* and a client that cancels the turn or closes the session.  They talk    *)
(* over bounded inboxes; e.mu and s.mu are modelled where they are held    *)
(* while the holder waits for something else.                              *)
(*                                                                         *)
(* Requests are numbered in the order the caller makes them and a sidecar  *)
(* has the number of its request, so an answer that reaches another call   *)
(* than its own is seen by its number.                                     *)
(***************************************************************************)
EXTENDS Integers, Sequences, FiniteSets, SequencesExt

CONSTANTS
    Replies,     \* the delegations one reply of the model may ask for
    MaxRequests, \* bound: requests in a run
    MayFail,     \* bound: the sidecars that may fail for good
    MaxUser,     \* bound: user messages
    MaxCancels,  \* bound: CancelTurn calls
    EngineCap,   \* capacity of engineInbox, 64 in the code
    InboxCap,    \* capacity of each kind of an agent's inbox, 8 in the code
    MailboxCap   \* capacity of the session's mailbox, 10 in the code

Kind == {"foreground", "background"}
Request == 1..MaxRequests

ASSUME DelegationAssumption ==
    /\ Replies \subseteq Seq(Kind) /\ <<>> \notin Replies
    /\ MaxRequests \in Nat /\ MayFail \subseteq Request /\ MaxUser \in Nat /\ MaxCancels \in Nat
    /\ EngineCap \in Nat \ {0} /\ InboxCap \in Nat \ {0} /\ MailboxCap \in Nat \ {0}

VARIABLES
    turn,     \* the caller's loop and its tool dispatcher, see TypeOK
    ctx,      \* is the caller's s.ctx live?
    smu,      \* who holds the caller's s.mu across a wait: "free" or "answer"
    token,    \* userCancellation of the caller holds a token
    mailbox,  \* the caller's mailbox: 0 is a user message, n the answer of sidecar n
    tracked,  \* pendingBackgroundSidecarLoop
    collected,\* accumulated of the WaitForSidecars in progress
    linger,   \* inboxes an unsubscribed handler goroutine may still take from
    answering,\* the background answer whose handler holds s.mu, 0 for none
    inbox,    \* the caller's inboxes of confirmations, results, background results
    engine,   \* engineInbox
    router,   \* listenForAgentComms: the inbox and the answer it waits to deliver
    spawner,  \* spawnSidecar of each request
    resident, \* the caller is in activeSessionAgents and registered with comms
    children, \* e.children of the caller: the kind each sidecar was delegated as
    sidecar,  \* the sidecar sessions
    mu,       \* who holds e.mu across a wait: "free" or "client"
    client,   \* CancelTurn or CloseSession in progress
    seen      \* ghosts and counters of bounds

caller == <<turn, ctx, smu, token, mailbox, tracked, collected, linger, answering>>
registry == <<resident, children, mu>>
vars == <<caller, inbox, engine, router, spawner, registry, sidecar, client, seen>>

Concluded == {"completed", "tombstone"} \* an exhausted sidecar counts as completed
Message == [kind : Kind \cup {"result", "status"}, from : Request]
Confirmation == [to : Request, ok : BOOLEAN]

TypeOK ==
    /\ turn.pc \in {"boundary", "park", "commit", "generate", "dispatch", "send", "await",
                    "track", "wait", "commitreply", "ended"}
    /\ turn.calls \in Seq(Kind)               \* the reply's calls still to dispatch
    /\ turn.request \in 0..MaxRequests        \* the request of RequestSidecar
    /\ turn.foreground \in Seq(Request \X Request) \* calls to wait for, and by which sidecar
    /\ turn.waiting \subseteq Request
    /\ turn.canceled \in BOOLEAN /\ turn.tools \in BOOLEAN \* turnCanceled, lastHadToolCalls
    /\ turn.unread \in Seq(0..MaxRequests)
    /\ ctx \in {"live", "done"} /\ smu \in {"free", "answer"} /\ token \in BOOLEAN
    /\ mailbox \in Seq(0..MaxRequests) /\ Len(mailbox) <= MailboxCap
    /\ tracked \subseteq Request
    /\ collected \in Seq(Request)
    /\ linger \subseteq {"confirm", "result"} /\ answering \in 0..MaxRequests
    /\ inbox.confirm \in Seq(Confirmation)
    /\ inbox.result \in Seq(Request) /\ inbox.background \in Seq(Request)
    /\ \A k \in DOMAIN inbox : Len(inbox[k]) <= InboxCap
    /\ engine \in Seq(Message) /\ Len(engine) <= EngineCap
    /\ router.pc \in {"listen", "result", "background"} /\ router.from \in 0..MaxRequests
    /\ \A r \in Request : /\ spawner[r].pc \in {"none", "create", "confirm", "refuse", "done"}
                          /\ spawner[r].kind \in Kind \cup {"none"}
    /\ resident \in BOOLEAN /\ children \in [Request -> Kind \cup {"none"}]
    /\ mu \in {"free", "client"}
    /\ \A r \in Request :
          /\ sidecar[r].status \in Concluded \cup {"none", "busy"}
          /\ sidecar[r].todo \in Seq({"status", "result", "cancel"})
          /\ sidecar[r].loop \in BOOLEAN /\ sidecar[r].live \in BOOLEAN
          /\ sidecar[r].resident \in BOOLEAN
    /\ client.op \in {"none", "cancel", "close"} /\ client.rest \subseteq Request

Init ==
    /\ turn = [pc |-> "park", calls |-> <<>>, request |-> 0, foreground |-> <<>>,
               waiting |-> {}, canceled |-> FALSE, tools |-> FALSE, unread |-> <<>>]
    /\ ctx = "live" /\ smu = "free" /\ token = FALSE
    /\ mailbox = <<>> /\ tracked = {} /\ collected = <<>>
    /\ linger = {} /\ answering = 0
    /\ inbox = [confirm |-> <<>>, result |-> <<>>, background |-> <<>>]
    /\ engine = <<>> /\ router = [pc |-> "listen", from |-> 0]
    /\ spawner = [r \in Request |-> [pc |-> "none", kind |-> "none"]]
    /\ resident = TRUE /\ children = [r \in Request |-> "none"] /\ mu = "free"
    /\ sidecar = [r \in Request |-> [status |-> "none", todo |-> <<>>, loop |-> FALSE,
                                     live |-> FALSE, resident |-> FALSE]]
    /\ client = [op |-> "none", pc |-> "pick", rest |-> {}, at |-> 0]
    /\ seen = [asked |-> 0, user |-> 0, cancels |-> 0, gaveUp |-> {}, late |-> {}, stolen |-> FALSE, told |-> {},
               background |-> {},
               answers |-> [r \in Request |-> 0]]

-----------------------------------------------------------------------------
(* The inboxes (comms.go) *)

\* sendComm to the engine: it blocks while the inbox is full.
ToEngine(kind, from) ==
    Len(engine) < EngineCap /\ engine' = Append(engine, [kind |-> kind, from |-> from])

\* sendComm to the caller's inbox of one kind.
ToCaller(k, x) == Len(inbox[k]) < InboxCap /\ inbox' = [inbox EXCEPT ![k] = Append(@, x)]

TakeFrom(k) == inbox[k] # <<>> /\ inbox' = [inbox EXCEPT ![k] = Tail(@)]

-----------------------------------------------------------------------------
(* The caller's loop (StartLoop, with what delegation depends on) *)

Goto(pc) == turn' = [turn EXCEPT !.pc = pc]

\* The reply and the tools' results are committed, which needs s.mu; then
\* ConsumeAllFromInbox, and the decision to go on, to park or to end.
Boundary ==
    /\ turn.pc = "boundary" \/ (turn.pc = "commitreply" /\ smu = "free")
    /\ LET tools == turn.tools /\ ~turn.canceled IN
         turn' = [turn EXCEPT !.unread = IF ctx = "done" THEN <<>> ELSE mailbox, !.tools = tools, !.canceled = FALSE,
                      !.pc = IF ctx = "done" THEN "ended"
                             ELSE IF mailbox # <<>> THEN "commit"
                             ELSE IF tools THEN "generate" ELSE "park"]
    /\ mailbox' = IF ctx = "done" THEN mailbox ELSE <<>>
    /\ UNCHANGED <<ctx, smu, token, tracked, collected, linger, answering, inbox, engine,
                   router, spawner, registry, sidecar, client, seen>>

\* ListenForMessageInInbox.
Wake ==
    /\ turn.pc = "park" /\ ctx = "live" /\ mailbox # <<>>
    /\ turn' = [turn EXCEPT !.unread = <<Head(mailbox)>>, !.pc = "commit"]
    /\ mailbox' = Tail(mailbox)
    /\ UNCHANGED <<ctx, smu, token, tracked, collected, linger, answering, inbox, engine,
                   router, spawner, registry, sidecar, client, seen>>

StopParked ==
    /\ turn.pc \in {"park", "generate"} /\ ctx = "done" /\ Goto("ended")
    /\ UNCHANGED <<ctx, smu, token, mailbox, tracked, collected, linger, answering, inbox,
                   engine, router, spawner, registry, sidecar, client, seen>>

\* commitMessages of what was read, which needs s.mu, and the poll of the
\* cancellation after it.
CommitUnread ==
    /\ turn.pc = "commit" /\ smu = "free"
    /\ seen' = [seen EXCEPT !.told = @ \cup (ToSet(turn.unread) \ {0})]
    /\ token' = FALSE
    /\ turn' = [turn EXCEPT !.unread = <<>>, !.tools = @ /\ ~token,
                            !.pc = IF token THEN "boundary" ELSE "generate"]
    /\ UNCHANGED <<ctx, smu, mailbox, tracked, collected, linger, answering, inbox, engine,
                   router, spawner, registry, sidecar, client>>

\* A generation that answers, delegates, fails or is canceled.
Generate ==
    /\ turn.pc = "generate" /\ ctx = "live"
    /\ \/ \E reply \in Replies :
             /\ seen.asked + Len(reply) <= MaxRequests
             /\ turn' = [turn EXCEPT !.calls = reply, !.tools = TRUE, !.canceled = FALSE,
                                     !.foreground = <<>>, !.pc = "dispatch"]
             /\ UNCHANGED token
       \/ /\ turn' = [turn EXCEPT !.tools = FALSE, !.pc = "commitreply"]
          /\ UNCHANGED token
       \/ /\ token /\ token' = FALSE
          /\ turn' = [turn EXCEPT !.tools = FALSE, !.pc = "boundary"]
    /\ UNCHANGED <<ctx, smu, mailbox, tracked, collected, linger, answering, inbox, engine,
                   router, spawner, registry, sidecar, client, seen>>

-----------------------------------------------------------------------------
(* RequestSidecar and the dispatcher of tool calls *)

Asking == turn.request

\* The next call of the reply subscribes to confirmations; after a
\* cancellation the calls that are left are skipped.
NextCall ==
    /\ turn.pc = "dispatch" /\ turn.calls # <<>>
    /\ IF turn.canceled
       THEN turn' = [turn EXCEPT !.calls = <<>>] /\ UNCHANGED seen
       ELSE /\ seen' = [seen EXCEPT !.asked = @ + 1]
            /\ turn' = [turn EXCEPT !.request = seen.asked + 1, !.pc = "send"]
    /\ UNCHANGED <<ctx, smu, token, mailbox, tracked, collected, linger, answering, inbox, engine,
                   router, spawner, registry, sidecar, client>>

SendRequest ==
    /\ turn.pc = "send" /\ ToEngine(Head(turn.calls), Asking) /\ Goto("await")
    /\ UNCHANGED <<ctx, smu, token, mailbox, tracked, collected, linger, answering, inbox,
                   router, spawner, registry, sidecar, client, seen>>

\* The end of a subscription.  The goroutine of its handler may still be at
\* work, and its select may take a message before it sees the end.
Unsubscribed(k) == linger' = linger \cup {k}

CallOver(pc) == [turn EXCEPT !.calls = Tail(@), !.pc = pc, !.request = 0]

\* awaitDecision returns a confirmation, whichever request it is of.  (The
\* handler passes it on through a channel of one; a second one that it takes
\* is lost as it is in LingerTakes.)
TakeConfirmation ==
    /\ turn.pc = "await" /\ TakeFrom("confirm") /\ Unsubscribed("confirm")
    /\ LET c == Head(inbox.confirm) IN
         turn' = IF ~c.ok THEN CallOver("dispatch")
                 ELSE IF Head(turn.calls) = "background"
                 THEN [turn EXCEPT !.pc = "track", !.request = c.to]
                 ELSE [CallOver("dispatch") EXCEPT !.foreground = Append(@, <<Asking, c.to>>)]
    /\ UNCHANGED <<ctx, smu, token, mailbox, tracked, collected, answering, engine,
                   router, spawner, registry, sidecar, client, seen>>

\* awaitDecision, or a blocked Send, gives up because the turn is canceled or
\* the session ends.
GiveUpRequest ==
    /\ \/ turn.pc = "await" /\ token /\ token' = FALSE
          /\ turn' = [CallOver("dispatch") EXCEPT !.canceled = TRUE]
       \/ turn.pc \in {"send", "await"} /\ ctx = "done" /\ turn' = CallOver("dispatch")
          /\ UNCHANGED token
    /\ Unsubscribed("confirm")
    /\ seen' = [seen EXCEPT !.gaveUp = @ \cup {Asking}]
    /\ UNCHANGED <<ctx, smu, mailbox, tracked, collected, answering, inbox, engine,
                   router, spawner, registry, sidecar, client>>

\* TrackBackgroundSidecar.
Track ==
    /\ turn.pc = "track" /\ smu = "free"
    /\ tracked' = tracked \cup {turn.request}
    /\ seen' = [seen EXCEPT !.background = @ \cup {turn.request}]
    /\ turn' = CallOver("dispatch")
    /\ UNCHANGED <<ctx, smu, token, mailbox, collected, linger, answering, inbox, engine,
                   router, spawner, registry, sidecar, client>>

\* A handler that was unsubscribed takes one more message, which is lost, or ends.
LingerTakes(k) ==
    /\ k \in linger /\ TakeFrom(k) /\ seen' = [seen EXCEPT !.stolen = TRUE]
    /\ UNCHANGED <<caller, engine, router, spawner, registry, sidecar, client>>

-----------------------------------------------------------------------------
(* WaitForSidecars *)

StartWait ==
    /\ turn.pc = "dispatch" /\ turn.calls = <<>>
    /\ turn' = [turn EXCEPT !.waiting = {f[2] : f \in ToSet(turn.foreground)},
                    !.pc = IF turn.foreground = <<>> THEN "commitreply" ELSE "wait"]
    /\ collected' = <<>>
    /\ UNCHANGED <<ctx, smu, token, mailbox, tracked, linger, answering, inbox, engine,
                   router, spawner, registry, sidecar, client, seen>>

\* The handler: accumulated holds as many answers as there are sidecars, and
\* what does not fit is dropped.
HandleResult ==
    /\ turn.pc = "wait" /\ TakeFrom("result")
    /\ collected' = IF Len(collected) < Len(turn.foreground)
                    THEN Append(collected, Head(inbox.result)) ELSE collected
    /\ UNCHANGED <<turn, ctx, smu, token, mailbox, tracked, linger, answering, engine,
                   router, spawner, registry, sidecar, client, seen>>

\* Mutated: answers are given to the calls in the order of the calls.
CollectInOrder ==
    /\ turn.pc = "wait" /\ collected # <<>>
    /\ LET from == Head(collected)
           left == SelectSeq(turn.foreground, LAMBDA f : f[2] \in turn.waiting) IN
         IF left = <<>> THEN UNCHANGED <<turn, seen>>
         ELSE /\ turn' = [turn EXCEPT !.waiting = @ \ {Head(left)[2]}]
              /\ seen' = [seen EXCEPT !.answers[Head(left)[1]] = from]
    /\ collected' = Tail(collected)
    /\ UNCHANGED <<ctx, smu, token, mailbox, tracked, linger, answering, inbox, engine,
                   router, spawner, registry, sidecar, client>>

\* An answer that is not waited for is left aside (tools.go:215-219).
CollectAnswer ==
    /\ turn.pc = "wait" /\ collected # <<>>
    /\ LET from == Head(collected) IN
         /\ turn' = [turn EXCEPT !.waiting = @ \ {from}]
         /\ seen' = IF from \notin turn.waiting THEN seen
                    ELSE [seen EXCEPT !.answers =
                            [r \in Request |-> IF <<r, from>> \in ToSet(turn.foreground)
                                               THEN from ELSE @[r]]]
    /\ collected' = Tail(collected)
    /\ UNCHANGED <<ctx, smu, token, mailbox, tracked, linger, answering, inbox, engine,
                   router, spawner, registry, sidecar, client>>

\* Every sidecar has answered, the turn is canceled, or the session ends.
FinishWait ==
    /\ turn.pc = "wait"
    /\ \/ turn.waiting = {} /\ UNCHANGED token
       \/ turn.waiting # {} /\ token /\ token' = FALSE
       \/ turn.waiting # {} /\ ctx = "done" /\ UNCHANGED token
    /\ turn' = [turn EXCEPT !.pc = "commitreply", !.canceled = @ \/ (token /\ ~token'),
                           !.foreground = <<>>, !.waiting = {}]
    /\ Unsubscribed("result") /\ collected' = <<>>
    /\ UNCHANGED <<ctx, smu, mailbox, tracked, answering, inbox, engine,
                   router, spawner, registry, sidecar, client, seen>>

-----------------------------------------------------------------------------
(* Background answers (subscribeForAgentMessages) *)

\* The handler looks the answer up under s.mu and keeps it while it waits for
\* room in the mailbox; an answer nobody tracks is dropped.
HandleBackground ==
    /\ answering = 0 /\ smu = "free" /\ TakeFrom("background")
    /\ LET r == Head(inbox.background) IN
         IF r \in tracked THEN answering' = r /\ smu' = "answer"
         ELSE UNCHANGED <<answering, smu>>
    /\ UNCHANGED <<turn, ctx, token, mailbox, tracked, collected, linger, engine, router,
                   spawner, registry, sidecar, client, seen>>

DeliverBackground ==
    /\ answering # 0 /\ Len(mailbox) < MailboxCap
    /\ mailbox' = Append(mailbox, answering) /\ tracked' = tracked \ {answering}
    /\ answering' = 0 /\ smu' = "free"
    /\ UNCHANGED <<turn, ctx, token, collected, linger, inbox, engine, router,
                   spawner, registry, sidecar, client, seen>>

\* SendMessage gives up when the session ends.
DropBackground ==
    /\ answering # 0 /\ ctx = "done" /\ answering' = 0 /\ smu' = "free"
    /\ UNCHANGED <<turn, ctx, token, mailbox, tracked, collected, linger, inbox, engine,
                   router, spawner, registry, sidecar, client, seen>>

-----------------------------------------------------------------------------
(* The engine (engine.go) *)

\* listenForAgentComms: a request is handed to a goroutine of its own; the rest
\* is relayed under e.mu before the next message is read (relaySidecarResult,
\* relaySidecarStatus).  The caller's handler of reports only passes them on,
\* so they need no room here.
Listen ==
    /\ router.pc = "listen" /\ engine # <<>> /\ engine' = Tail(engine)
    /\ LET m == Head(engine)
           kind == children[m.from] IN
         IF m.kind \in Kind
         THEN /\ spawner' = [spawner EXCEPT ![m.from] = [pc |-> "create", kind |-> m.kind]]
              /\ UNCHANGED router
         ELSE /\ mu = "free" /\ UNCHANGED spawner
              /\ router' = IF ~resident \/ kind = "none" \/ m.kind = "status" THEN router
                           ELSE [pc |-> IF kind = "background" THEN kind ELSE "result",
                                 from |-> m.from]
    /\ UNCHANGED <<caller, inbox, registry, sidecar, client, seen>>

\* SendToSessionAgent waits for room, or for the end of the caller's inbox.
Relay ==
    /\ router.pc \in {"result", "background"}
    /\ \/ resident /\ ToCaller(router.pc, router.from)
       \/ ~resident /\ UNCHANGED inbox
    /\ router' = [pc |-> "listen", from |-> 0]
    /\ UNCHANGED <<caller, engine, spawner, registry, sidecar, client, seen>>

\* Mutated: the caller's session is not asked for.
CreateSidecarUnasked(r) ==
    /\ spawner[r].pc = "create" /\ mu = "free"
    /\ spawner' = [spawner EXCEPT ![r].pc = "confirm"]
    /\ children' = [children EXCEPT ![r] = spawner[r].kind]
    /\ sidecar' = [sidecar EXCEPT ![r] = [status |-> "busy", todo |-> <<>>, loop |-> TRUE,
                                          live |-> TRUE, resident |-> TRUE]]
    /\ seen' = IF spawner[r].kind = "foreground" /\ seen.cancels > 0
               THEN [seen EXCEPT !.late = @ \cup {r}] ELSE seen
    /\ UNCHANGED <<caller, inbox, engine, router, resident, mu, client>>

\* createSidecarSession under e.mu; it may fail for reasons of its own.
CreateSidecar(r) ==
    /\ spawner[r].pc = "create" /\ mu = "free"
    /\ \/ /\ resident
          /\ spawner' = [spawner EXCEPT ![r].pc = "confirm"]
          /\ children' = [children EXCEPT ![r] = spawner[r].kind]
          /\ sidecar' = [sidecar EXCEPT ![r] = [status |-> "busy", todo |-> <<>>, loop |-> TRUE,
                                                live |-> TRUE, resident |-> TRUE]]
          /\ seen' = IF spawner[r].kind = "foreground" /\ seen.cancels > 0
                     THEN [seen EXCEPT !.late = @ \cup {r}] ELSE seen
       \/ spawner' = [spawner EXCEPT ![r].pc = "refuse"] /\ UNCHANGED <<children, sidecar, seen>>
    /\ UNCHANGED <<caller, inbox, engine, router, resident, mu, client>>

\* Mutated: a refusal is not sent.
ConfirmCreated(r) ==
    /\ spawner[r].pc \in {"confirm", "refuse"}
    /\ \/ resident /\ spawner[r].pc = "confirm" /\ ToCaller("confirm", [to |-> r, ok |-> TRUE])
       \/ (~resident \/ spawner[r].pc = "refuse") /\ UNCHANGED inbox
    /\ spawner' = [spawner EXCEPT ![r] = [pc |-> "done", kind |-> "none"]]
    /\ UNCHANGED <<caller, engine, router, registry, sidecar, client, seen>>

\* The decision is sent to the caller, if it still has an inbox.
Confirm(r) ==
    /\ spawner[r].pc \in {"confirm", "refuse"}
    /\ \/ resident /\ ToCaller("confirm", [to |-> r, ok |-> spawner[r].pc = "confirm"])
       \/ ~resident /\ UNCHANGED inbox
    /\ spawner' = [spawner EXCEPT ![r] = [pc |-> "done", kind |-> "none"]]
    /\ UNCHANGED <<caller, engine, router, registry, sidecar, client, seen>>

-----------------------------------------------------------------------------
(* A sidecar session: its loop, and the hub that reports for it *)

\* The status a session concluded on is final (moveStatusLocked).
Moved(old, new) == IF old \in Concluded THEN old ELSE new

\* The hub handles the last event of the loop: it has concluded, or it has
\* failed for good; what it must send follows.
SidecarEnds(r) ==
    /\ sidecar[r].live /\ sidecar[r].loop
    /\ \/ sidecar' = [sidecar EXCEPT ![r].todo = <<"status", "result">>, ![r].loop = FALSE,
                                     ![r].status = Moved(@, "completed")]
       \/ /\ r \in MayFail
          /\ sidecar' = [sidecar EXCEPT ![r].todo = <<"result", "status", "cancel">>,
                                        ![r].loop = FALSE, ![r].status = "tombstone"]
    /\ UNCHANGED <<caller, inbox, engine, router, spawner, registry, client, seen>>

\* reportStatusToParent and sendSidecarLoopResult, which give up when the
\* session has ended, and the end of a session that failed.
SidecarSends(r) ==
    /\ sidecar[r].todo # <<>>
    /\ LET what == Head(sidecar[r].todo) IN
         \/ what # "cancel" /\ ToEngine(what, r)
         \/ (what = "cancel" \/ ~sidecar[r].live) /\ UNCHANGED engine
    /\ sidecar' = [sidecar EXCEPT ![r].todo = Tail(@),
                       ![r].live = @ /\ Head(sidecar[r].todo) # "cancel"]
    /\ UNCHANGED <<caller, inbox, router, spawner, registry, client, seen>>

-----------------------------------------------------------------------------
(* The client's calls *)

\* EnqueueUserMessage.
SendUser ==
    /\ ctx = "live" /\ smu = "free" /\ seen.user < MaxUser /\ Len(mailbox) < MailboxCap
    /\ mailbox' = Append(mailbox, 0) /\ seen' = [seen EXCEPT !.user = @ + 1]
    /\ UNCHANGED <<turn, ctx, smu, token, tracked, collected, linger, answering, inbox,
                   engine, router, spawner, registry, sidecar, client>>

Busy == turn.pc \notin {"park", "ended"}

\* CancelTurn and CloseSession of the engine take e.mu and then the sidecars one
\* by one: those of the canceled turn, or all.
Begin(op) ==
    /\ client.op = "none" /\ mu = "free" /\ resident
    /\ op = "cancel" => Busy /\ seen.cancels < MaxCancels
    /\ mu' = "client"
    /\ client' = [op |-> op, pc |-> "pick", at |-> 0,
                  rest |-> {r \in Request : children[r] \in
                                IF op = "cancel" THEN {"foreground"} ELSE Kind}]
    /\ seen' = IF op = "cancel" THEN [seen EXCEPT !.cancels = @ + 1] ELSE seen
    /\ UNCHANGED <<caller, inbox, engine, router, spawner, resident, children, sidecar>>

Stopped(r) == [sidecar[r] EXCEPT !.status = "tombstone", !.live = FALSE, !.loop = FALSE]

\* cancelSidecarTree and closeSessionTree: the next sidecar, which becomes a
\* tombstone unless it is gone, or has concluded and only the turn is canceled.
PickSidecar(r) ==
    /\ client.op # "none" /\ client.pc = "pick" /\ r \in client.rest
    /\ LET over == sidecar[r].status \in Concluded IN
         IF ~sidecar[r].resident \/ (over /\ client.op = "cancel")
         THEN client' = [client EXCEPT !.rest = @ \ {r}] /\ UNCHANGED sidecar
         ELSE /\ client' = [client EXCEPT !.at = r, !.pc = IF over THEN "join" ELSE "report"]
              /\ sidecar' = [sidecar EXCEPT ![r] = IF over THEN Stopped(r)
                                                   ELSE [@ EXCEPT !.status = "tombstone"]]
    /\ UNCHANGED <<caller, inbox, engine, router, spawner, registry, seen>>

\* CloseWithReason of a sidecar: it reports its end, and then it ends.
ReportTombstone ==
    /\ client.pc = "report"
    /\ ToEngine("status", client.at) \/ (~sidecar[client.at].live /\ UNCHANGED engine)
    /\ client' = [client EXCEPT !.pc = "join"]
    /\ sidecar' = [sidecar EXCEPT ![client.at] = Stopped(client.at)]
    /\ UNCHANGED <<caller, inbox, router, spawner, registry, seen>>

\* wg.Wait, and the sidecar leaves the engine.
JoinSidecar ==
    /\ client.pc = "join" /\ sidecar[client.at].todo = <<>>
    /\ client' = [client EXCEPT !.pc = "pick", !.rest = @ \ {client.at}, !.at = 0]
    /\ sidecar' = [sidecar EXCEPT ![client.at].resident = FALSE]
    /\ UNCHANGED <<caller, inbox, engine, router, spawner, registry, seen>>

SidecarsClosed(op) == client.op = op /\ client.pc = "pick" /\ client.rest = {}

\* CancelTurn of the session: the token, then e.mu is free.
CancelCaller ==
    /\ SidecarsClosed("cancel") /\ smu = "free"
    /\ token' = (token \/ Busy) /\ mu' = "free"
    /\ client' = [client EXCEPT !.op = "none"]
    /\ UNCHANGED <<turn, ctx, smu, mailbox, tracked, collected, linger, answering, inbox,
                   engine, router, spawner, resident, children, sidecar, seen>>

\* Close of the caller cancels its context ...
EndCaller ==
    /\ SidecarsClosed("close") /\ smu = "free"
    /\ ctx' = "done" /\ children' = [r \in Request |-> "none"]
    /\ client' = [client EXCEPT !.pc = "joincaller"]
    /\ UNCHANGED <<turn, smu, token, mailbox, tracked, collected, linger, answering, inbox,
                   engine, router, spawner, resident, mu, sidecar, seen>>

\* ... waits for its loop, answers for the sidecars that did not
\* (settleBackgroundSidecars), and the caller leaves the engine.
SettleCaller ==
    /\ client.pc = "joincaller" /\ turn.pc = "ended" /\ smu = "free"
    /\ seen' = [seen EXCEPT !.told = @ \cup tracked] /\ tracked' = {}
    /\ resident' = FALSE /\ mu' = "free"
    /\ client' = [client EXCEPT !.op = "none", !.pc = "pick"]
    /\ UNCHANGED <<turn, ctx, smu, token, mailbox, collected, linger, answering, inbox,
                   engine, router, spawner, children, sidecar>>

-----------------------------------------------------------------------------

CallerLoop ==
    \/ Boundary \/ Wake \/ StopParked \/ CommitUnread \/ Generate
    \/ NextCall \/ SendRequest \/ TakeConfirmation \/ GiveUpRequest
    \/ Track \/ StartWait \/ HandleResult \/ CollectAnswer \/ FinishWait
AnswerLoop == HandleBackground \/ DeliverBackground \/ DropBackground
EngineLoop == Listen \/ Relay
Client ==
    \/ \E r \in Request : PickSidecar(r)
    \/ ReportTombstone \/ JoinSidecar \/ CancelCaller \/ EndCaller \/ SettleCaller

System ==
    \/ CallerLoop \/ AnswerLoop \/ EngineLoop \/ Client
    \/ \E r \in Request : CreateSidecar(r) \/ Confirm(r) \/ SidecarEnds(r) \/ SidecarSends(r)

Next ==
    \/ System \/ SendUser
    \/ \E k \in {"confirm", "result"} : LingerTakes(k)
    \/ \E op \in {"cancel", "close"} : Begin(op)

Spec == Init /\ [][Next]_vars

\* Every goroutine runs when it can; the clients need not call.  The bounds end
\* every run, so that fairness of all together is fairness of each.
FairSpec == Spec /\ WF_vars(System)

-----------------------------------------------------------------------------
(* Properties *)

Closed == ~resident

\* A foreground call is answered by the sidecar that was created for it, unless
\* an earlier request gave up and left its confirmation behind.
AnswerIsOwn ==
    \A r \in Request : seen.answers[r] \in {0, r} \/ \E q \in seen.gaveUp : q < r

\* No sidecar lives, or can be reached, after its caller has left the engine.
NoneOutlives == Closed => \A r \in Request : ~sidecar[r].resident /\ ~sidecar[r].live

\* A foreground sidecar works only while a call waits for it or is about to:
\* the calls of a turn leave none behind, canceled or not, but those created
\* after CancelTurn had listed the sidecars it stops.
NoStray ==
    \A r \in Request :
        /\ children[r] = "foreground" /\ sidecar[r].live /\ sidecar[r].loop
        /\ client.op = "none" /\ turn.pc \in {"boundary", "park", "generate"}
        => r \in seen.late

\* When the caller is closed every background sidecar it started is answered
\* for in its timeline, except by an answer the loop had not taken.
Accounted == Closed => seen.background \subseteq seen.told \cup ToSet(mailbox)

\* An answer reaches the call that asked for it, or the caller's timeline.
AnswersReach == AnswerIsOwn /\ Accounted

\* A sidecar does not outlive what it works for, a call or the caller.
SidecarsEnd == NoneOutlives /\ NoStray

\* Someone waits for room: the engine, which relays; the handler of background
\* answers, which holds s.mu; or the closer of a sidecar, which holds e.mu.
Blocked ==
    \/ router.pc # "listen" /\ resident /\ Len(inbox[router.pc]) = InboxCap
    \/ answering # 0 /\ ctx = "live" /\ Len(mailbox) = MailboxCap
    \/ client.pc = "report" /\ sidecar[client.at].live /\ Len(engine) = EngineCap

\* CancelTurn and CloseSession return, and release e.mu; a request and a wait
\* for answers come to an end, unless a handler that had been unsubscribed took
\* their message, or (a wait) a turn was canceled.  In all three the exception
\* is a queue that stays full for good: its reader waits for the lock that its
\* writer holds, or nobody reads it.
CallsEnd ==
    /\ client.op # "none" ~> client.op = "none" \/ []Blocked
    /\ turn.pc = "await" ~> turn.pc # "await" \/ seen.stolen \/ []Blocked
    /\ turn.pc = "wait" ~> turn.pc # "wait" \/ seen.stolen \/ seen.cancels > 0 \/ []Blocked

=============================================================================
