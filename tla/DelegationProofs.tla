-------------------------- MODULE DelegationProofs --------------------------
(***************************************************************************)
(* Proofs about delegation, for any replies, capacities and numbers of     *)
(* requests, user messages and cancellations: an answer reaches the call   *)
(* that asked for it or the caller's timeline, and no sidecar outlives     *)
(* what it works for.                                                      *)
(***************************************************************************)
EXTENDS Delegation, TLAPS

USE DelegationAssumption

Turn == [pc : {"boundary", "park", "commit", "generate", "dispatch", "send", "await",
               "track", "wait", "commitreply", "ended"},
         calls : Seq(Kind), request : 0 .. MaxRequests, foreground : Seq(Request \X Request),
         waiting : SUBSET Request, canceled : BOOLEAN, tools : BOOLEAN,
         unread : Seq(0 .. MaxRequests)]
Inbox == [confirm : Seq(Confirmation), result : Seq(Request), background : Seq(Request)]
Router == [pc : {"listen", "result", "background"}, from : 0 .. MaxRequests]
Spawn == [pc : {"none", "create", "confirm", "refuse", "done"}, kind : Kind \cup {"none"}]
Side == [status : Concluded \cup {"none", "busy"}, todo : Seq({"status", "result", "cancel"}),
         loop : BOOLEAN, live : BOOLEAN, resident : BOOLEAN]
Calling == [op : {"none", "cancel", "close"}, pc : {"pick", "report", "join", "joincaller"},
            at : 0 .. MaxRequests, rest : SUBSET Request]
Seen == [asked : 0 .. MaxRequests, user : Nat, cancels : Nat, gaveUp : SUBSET Request,
         late : SUBSET Request, stolen : BOOLEAN, told : SUBSET Request,
         background : SUBSET Request, answers : [Request -> 0 .. MaxRequests]]

Types ==
    /\ turn \in Turn /\ ctx \in {"live", "done"} /\ smu \in {"free", "answer"} /\ token \in BOOLEAN
    /\ mailbox \in Seq(0 .. MaxRequests) /\ tracked \in SUBSET Request /\ collected \in Seq(Request)
    /\ answering \in 0 .. MaxRequests /\ inbox \in Inbox /\ engine \in Seq(Message) /\ router \in Router
    /\ router.pc # "listen" => router.from \in Request
    /\ spawner \in [Request -> Spawn] /\ \A r \in Request : spawner[r].pc = "create" => spawner[r].kind \in Kind
    /\ resident \in BOOLEAN
    /\ children \in [Request -> Kind \cup {"none"}] /\ mu \in {"free", "client"}
    /\ sidecar \in [Request -> Side] /\ client \in Calling /\ seen \in Seen
    /\ turn.pc \in {"send", "await"} => turn.request = seen.asked
    /\ turn.pc \in {"send", "await", "track"} => turn.calls # <<>> /\ turn.request \in Request
    /\ client.pc \in {"report", "join"} => client.at \in Request
    /\ turn.pc = "dispatch" => seen.asked + Len(turn.calls) <= MaxRequests
    /\ turn.pc \in {"send", "await", "track"} => seen.asked + Len(turn.calls) <= MaxRequests + 1

\* Answers of background sidecars.
Answers ==
    /\ turn.unread # <<>> => turn.pc = "commit"
    /\ answering # 0 => smu = "answer" /\ answering \in tracked
    /\ ~resident => tracked = {} /\ turn.pc = "ended"
    /\ seen.background \subseteq tracked \cup seen.told \cup ToSet(mailbox) \cup ToSet(turn.unread)

\* Who is in the engine.
Closing ==
    /\ mu = "client" <=> client.op # "none"
    /\ client.op # "none" => resident
    /\ client.op = "none" => client.pc = "pick"
    /\ client.pc \in {"report", "join"} => client.at \in client.rest
    /\ client.pc = "join" => ~sidecar[client.at].live
    /\ client.pc = "joincaller" => client.op = "close" /\ client.rest = {}
    /\ ctx = "done" <=> client.pc = "joincaller" \/ ~resident
    /\ \A r \in Request :
          /\ sidecar[r].loop => sidecar[r].live
          /\ sidecar[r].live => sidecar[r].resident
          /\ sidecar[r].resident => children[r] \in Kind /\ resident
          /\ client.op = "close" /\ sidecar[r].resident => r \in client.rest

\* What a request is on its way as.
Requested(q) == \E i \in DOMAIN engine : engine[i].kind \in Kind /\ engine[i].from = q
Confirmed(q) == \E i \in DOMAIN inbox.confirm : inbox.confirm[i].to = q
Underway(q) == Requested(q) \/ spawner[q].pc \in {"create", "confirm", "refuse"} \/ Confirmed(q)
GaveUpBy(q) == \E g \in seen.gaveUp : g <= q

Single ==
    /\ \A i, j \in DOMAIN engine : engine[i].kind \in Kind /\ engine[j].kind \in Kind
                                   /\ engine[i].from = engine[j].from => i = j
    /\ \A i, j \in DOMAIN inbox.confirm : inbox.confirm[i].to = inbox.confirm[j].to => i = j
    /\ \A q \in Request :
          /\ q > seen.asked => spawner[q].pc = "none" /\ ~Requested(q)
          /\ turn.pc = "send" /\ q = turn.request => spawner[q].pc = "none" /\ ~Requested(q)
          /\ Requested(q) => spawner[q].pc = "none"
          /\ spawner[q].pc # "done" => ~Confirmed(q)
          /\ spawner[q].pc \in {"none", "create", "refuse"} => sidecar[q].status = "none" /\ children[q] = "none"
    /\ \A i \in DOMAIN inbox.confirm : ~inbox.confirm[i].ok => sidecar[inbox.confirm[i].to].status = "none"

Ordered ==
    /\ \A q \in Request : Underway(q) => GaveUpBy(q) \/ (turn.pc = "await" /\ turn.request = q)
    /\ \A g \in seen.gaveUp : g <= seen.asked
    /\ \A f \in ToSet(turn.foreground) :
         /\ f[1] <= seen.asked /\ (turn.pc \in {"send", "await"} => f[1] < seen.asked)
         /\ f[2] = f[1] \/ \E g \in seen.gaveUp : g < f[1]
    /\ AnswerIsOwn

\* A sidecar that reported its result works no more.
Over(q) == sidecar[q].status # "none" /\ ~sidecar[q].loop

Results ==
    /\ \A q \in Request :
          /\ sidecar[q].todo # <<>> => Over(q)
          /\ sidecar[q].loop \/ sidecar[q].resident => sidecar[q].status # "none"
          /\ sidecar[q].loop /\ sidecar[q].status \in Concluded =>
                client.op # "none" /\ client.pc = "report" /\ client.at = q
    /\ \A i \in DOMAIN engine : engine[i].kind = "result" => Over(engine[i].from)
    /\ router.pc # "listen" => Over(router.from)
    /\ \A i \in DOMAIN inbox.result : Over(inbox.result[i])
    /\ \A i \in DOMAIN collected : Over(collected[i])
    /\ client.pc \in {"report", "join"} => sidecar[client.at].status # "none"

Attended(q) ==
    \/ turn.pc = "await" /\ turn.request = q
    \/ /\ <<q, q>> \in ToSet(turn.foreground)
       /\ turn.pc \in {"dispatch", "send", "await", "track", "wait"}
       /\ turn.pc = "wait" => q \in turn.waiting

Working(q) == children[q] = "foreground" /\ sidecar[q].loop

Kinds == turn.pc = "await" =>
    LET q == turn.request
        kind == Head(turn.calls)
    IN  /\ \A i \in DOMAIN engine : engine[i].kind \in Kind /\ engine[i].from = q => engine[i].kind = kind
        /\ spawner[q].pc = "create" => spawner[q].kind = kind
        /\ children[q] \in {"none", kind}

Strays ==
    /\ seen.cancels = 0 => ~token /\ ~turn.canceled /\ client.op # "cancel"
    /\ seen.gaveUp # {} => seen.cancels > 0 \/ ctx = "done"
    /\ \A q \in Request : Working(q) =>
          IF seen.cancels > 0 THEN q \in seen.late \/ (client.op = "cancel" /\ q \in client.rest)
          ELSE Attended(q)

IInv == Types /\ Answers /\ Closing /\ Single /\ Ordered /\ Results /\ Kinds /\ Strays
-----------------------------------------------------------------------------
(* The channels *)

\* What Append makes of a channel.
LEMMA Appended ==
    ASSUME NEW S, NEW s \in Seq(S), NEW x \in S
    PROVE  /\ Append(s, x) \in Seq(S)
           /\ DOMAIN Append(s, x) = 1 .. Len(s) + 1 /\ DOMAIN s = 1 .. Len(s) /\ Len(s) \in Nat
           /\ \A i \in 1 .. Len(s) : Append(s, x)[i] = s[i]
           /\ Append(s, x)[Len(s) + 1] = x
  OBVIOUS

\* What Tail leaves of a channel.
LEMMA Taken ==
    ASSUME NEW S, NEW s \in Seq(S), s # <<>>
    PROVE  /\ Tail(s) \in Seq(S) /\ Head(s) \in S
           /\ 1 \in DOMAIN s /\ Head(s) = s[1] /\ Len(s) \in Nat /\ DOMAIN s = 1 .. Len(s)
           /\ DOMAIN Tail(s) = 1 .. Len(s) - 1
           /\ \A i \in DOMAIN Tail(s) : i + 1 \in DOMAIN s /\ Tail(s)[i] = s[i + 1]
  OBVIOUS

\* What is in a mailbox after a message is put or taken.
LEMMA Members ==
    ASSUME NEW S, NEW s \in Seq(S)
    PROVE  /\ ToSet(s) \subseteq S
           /\ \A x \in S : ToSet(Append(s, x)) = ToSet(s) \cup {x}
           /\ s # <<>> => ToSet(s) = {Head(s)} \cup ToSet(Tail(s))
           /\ ToSet(<<>>) = {}
<1>1. ToSet(s) \subseteq S /\ ToSet(<<>>) = {}
  BY DEF ToSet
<1>2. ASSUME NEW x \in S PROVE ToSet(Append(s, x)) = ToSet(s) \cup {x}
  <2> DEFINE t == Append(s, x)
  <2>1. /\ DOMAIN t = 1 .. Len(s) + 1 /\ DOMAIN s = 1 .. Len(s) /\ Len(s) \in Nat
        /\ \A i \in 1 .. Len(s) : t[i] = s[i]
        /\ t[Len(s) + 1] = x
    BY Appended
  <2> HIDE DEF t
  <2>2. ASSUME NEW i \in DOMAIN t PROVE t[i] \in {s[j] : j \in DOMAIN s} \cup {x}
    BY <2>1
  <2>3. {s[j] : j \in DOMAIN s} \cup {x} \subseteq {t[i] : i \in DOMAIN t}
    BY <2>1
  <2>4. ToSet(t) = {t[i] : i \in DOMAIN t} /\ ToSet(s) = {s[j] : j \in DOMAIN s}
    BY DEF ToSet
  <2>5. ToSet(t) = ToSet(s) \cup {x}
    BY <2>2, <2>3, <2>4
  <2> QED BY <2>5 DEF t
<1>3. ASSUME s # <<>> PROVE ToSet(s) = {Head(s)} \cup ToSet(Tail(s))
  <2>1. \A i \in DOMAIN s : i = 1 \/ (i - 1 \in DOMAIN Tail(s) /\ s[i] = Tail(s)[i - 1])
    BY <1>3, Taken
  <2> DEFINE t == Tail(s)
  <2>2. /\ 1 \in DOMAIN s /\ Head(s) = s[1]
        /\ \A i \in DOMAIN t : i + 1 \in DOMAIN s /\ t[i] = s[i + 1]
    BY <1>3, Taken
  <2>3. \A i \in DOMAIN s : i = 1 \/ (i - 1 \in DOMAIN t /\ s[i] = t[i - 1])
    BY <2>1
  <2> HIDE DEF t
  <2>4. \A x \in ToSet(s) : x = Head(s) \/ x \in ToSet(t)
    BY <2>2, <2>3 DEF ToSet
  <2>5. \A x \in ToSet(t) : x \in ToSet(s)
    BY <2>2 DEF ToSet
  <2>6. Head(s) \in ToSet(s)
    BY <2>2 DEF ToSet
  <2> QED BY <2>4, <2>5, <2>6 DEF t
<1> QED BY <1>1, <1>2, <1>3
-----------------------------------------------------------------------------
(* The loop of the caller *)

\* The invariant holds before anything happens.
LEMMA Initially == Init => IInv
<1> SUFFICES ASSUME Init PROVE IInv
  OBVIOUS
<1>1. Types
  <2>1. turn \in Turn /\ inbox \in Inbox /\ router \in Router
    BY DEF Init, Turn, Inbox, Router
  <2>2. spawner \in [Request -> Spawn] /\ sidecar \in [Request -> Side]
    BY DEF Init, Spawn, Side
  <2>3. client \in Calling /\ seen \in Seen
    BY DEF Init, Calling, Seen
  <2>4. /\ ctx \in {"live", "done"} /\ smu \in {"free", "answer"} /\ token \in BOOLEAN
        /\ tracked \in SUBSET Request /\ resident \in BOOLEAN /\ mu \in {"free", "client"}
    BY DEF Init
  <2>6. children \in [Request -> Kind \cup {"none"}]
    BY DEF Init
  <2>7. mailbox \in Seq(0 .. MaxRequests) /\ collected \in Seq(Request) /\ engine \in Seq(Message)
        /\ answering \in 0 .. MaxRequests
    BY DelegationAssumption DEF Init, DelegationAssumption
  <2>5. /\ router.pc = "listen" /\ turn.pc = "park" /\ client.pc = "pick"
        /\ \A r \in Request : spawner[r].pc = "none"
    BY DEF Init
  <2> QED BY <2>1, <2>2, <2>3, <2>4, <2>5, <2>6, <2>7 DEF Types
<1>2. Answers
  BY DEF Init, Answers, ToSet
<1>3. Closing
  BY DEF Init, Closing
<1>4. Single
  BY DEF Init, Single, Requested, Confirmed
<1>5. Ordered
  BY DEF Init, Ordered, Underway, Requested, Confirmed, ToSet, AnswerIsOwn
<1>6. Results
  BY DEF Init, Results
<1>7. Kinds /\ Strays
  BY DEF Init, Kinds, Strays, Working
<1> QED BY <1>1, <1>2, <1>3, <1>4, <1>5, <1>6, <1>7 DEF IInv


\* A step of the caller that leaves requests and sidecars alone.
LEMMA LoopStep ==
    ASSUME IInv, turn' \in Turn, turn'.pc \notin {"send", "await"}, turn.pc # "await",
           UNCHANGED <<ctx, inbox, engine, router, spawner, registry, sidecar, client>>,
           seen'.asked = seen.asked, seen'.gaveUp = seen.gaveUp, seen'.cancels = seen.cancels,
           seen'.late = seen.late, AnswerIsOwn',
           turn'.foreground \in {turn.foreground, <<>>}, \A i \in DOMAIN collected' : Over(collected'[i]),
           seen.cancels = 0 => ~token' /\ ~turn'.canceled,
           \A q \in Request : sidecar[q].loop /\ seen.cancels = 0 /\ Attended(q) => Attended(q)'
    PROVE  Closing' /\ Single' /\ Ordered' /\ Results' /\ Kinds' /\ Strays'
<1>1. Closing'
  BY DEF IInv, Closing, registry
<1>2. \A q \in Request : Requested(q)' = Requested(q) /\ Confirmed(q)' = Confirmed(q) /\ Underway(q)' = Underway(q)
  BY DEF Requested, Confirmed, Underway, registry
<1>3. Single'
  BY <1>2 DEF IInv, Single, registry
<1>4. Ordered'
  <2>1. \A q \in Request : Underway(q)' => GaveUpBy(q)'
    BY <1>2 DEF IInv, Ordered, GaveUpBy
  <2>2. ToSet(turn'.foreground) \subseteq ToSet(turn.foreground)
    BY DEF ToSet
  <2> QED BY <2>1, <2>2 DEF IInv, Ordered
<1>5. Results'
  BY DEF IInv, Results, Over
<1>6. Kinds'
  BY DEF Kinds
<1>a. seen.cancels \in Nat
  BY DEF IInv, Types, Seen
<1>b. \A q \in Request : Working(q)' = Working(q)
  BY DEF Working, registry
<1>7. Strays'
  BY <1>a, <1>b DEF IInv, Strays, Working
<1> QED BY <1>1, <1>3, <1>4, <1>5, <1>6, <1>7

\* A step of the caller that leaves the answers alone too.
LEMMA CallerStep ==
    ASSUME IInv, turn' \in Turn, turn'.pc \notin {"send", "await"}, turn.pc # "await",
           UNCHANGED <<ctx, inbox, engine, router, spawner, registry, sidecar, client>>,
           seen'.asked = seen.asked, seen'.gaveUp = seen.gaveUp, seen'.cancels = seen.cancels,
           seen'.late = seen.late, seen'.answers = seen.answers,
           turn'.foreground \in {turn.foreground, <<>>}, collected' \in {collected, <<>>},
           seen.cancels = 0 => ~token' /\ ~turn'.canceled,
           \A q \in Request : sidecar[q].loop /\ seen.cancels = 0 /\ Attended(q) => Attended(q)'
    PROVE  Closing' /\ Single' /\ Ordered' /\ Results' /\ Kinds' /\ Strays'
<1>1. AnswerIsOwn'
  BY DEF IInv, Ordered, AnswerIsOwn
<1>2. \A i \in DOMAIN collected' : Over(collected'[i])
  BY DEF IInv, Results
<1> QED BY <1>1, <1>2, LoopStep

\* Nothing is read and not committed but between a boundary and a commit.
LEMMA UnreadIn ==
    ASSUME Types, Answers
    PROVE  /\ turn.pc # "commit" => turn.unread = <<>> /\ ToSet(turn.unread) = {}
           /\ turn \in Turn /\ mailbox \in Seq(0 .. MaxRequests) /\ turn.unread \in Seq(0 .. MaxRequests)
           /\ ToSet(<<>>) = {}
  BY DEF Types, Answers, Turn, ToSet

\* The loop takes what its mailbox holds: nothing is lost between the two.
LEMMA BoundaryStep ==
    ASSUME IInv, Boundary
    PROVE  IInv'
<1>0. Types /\ Answers /\ Closing /\ Strays
  BY DEF IInv
<1> DEFINE box == IF ctx = "done" THEN <<>> ELSE mailbox
           go == IF ctx = "done" THEN "ended"
                 ELSE IF mailbox # <<>> THEN "commit"
                 ELSE IF turn.tools /\ ~turn.canceled THEN "generate" ELSE "park"
<1>a. turn' = [turn EXCEPT !.unread = box, !.tools = turn.tools /\ ~turn.canceled, !.canceled = FALSE, !.pc = go]
      /\ turn.pc \in {"boundary", "commitreply"}
      /\ mailbox' = (IF ctx = "done" THEN mailbox ELSE <<>>)
  BY DEF Boundary
<1>b. /\ box \in Seq(0 .. MaxRequests) /\ go \in {"ended", "commit", "generate", "park"}
      /\ ctx = "done" => go = "ended"
      /\ box # <<>> => go = "commit"
      /\ ToSet(mailbox') \cup ToSet(box) = ToSet(mailbox)
      /\ mailbox' \in Seq(0 .. MaxRequests)
  BY <1>0, <1>a, UnreadIn
<1> HIDE DEF box, go
<1>1. /\ turn' \in Turn /\ turn'.pc = go /\ ~turn'.canceled
      /\ turn'.calls = turn.calls /\ turn'.foreground = turn.foreground
      /\ turn'.unread = box
  BY <1>0, <1>a, <1>b, UnreadIn DEF Turn
<1>2. UNCHANGED <<ctx, smu, token, tracked, collected, answering, inbox, engine,
                  router, spawner, registry, sidecar, client, seen>>
  BY DEF Boundary
<1>3. Types'
  BY <1>0, <1>1, <1>b, <1>2, SMTT(30) DEF Types, registry
<1>4. Answers'
  BY <1>0, <1>1, <1>2, <1>a, <1>b, UnreadIn DEF Answers, Closing, registry
<1>5. \A q \in Request : ~Attended(q)
  BY <1>a DEF Attended
<1> QED BY <1>0, <1>1, <1>2, <1>3, <1>4, <1>5, <1>a, <1>b, CallerStep DEF IInv, Strays

LEMMA WakeStep ==
    ASSUME IInv, Wake
    PROVE  IInv'
<1>0. Types /\ Answers /\ Closing /\ Strays
  BY DEF IInv
<1>a. /\ turn' = [turn EXCEPT !.unread = <<Head(mailbox)>>, !.pc = "commit"]
      /\ mailbox # <<>> /\ mailbox' = Tail(mailbox) /\ turn.pc = "park"
  BY DEF Wake
<1>b. /\ Head(mailbox) \in 0 .. MaxRequests /\ mailbox' \in Seq(0 .. MaxRequests)
      /\ ToSet(mailbox) = {Head(mailbox)} \cup ToSet(mailbox')
  BY <1>0, <1>a, UnreadIn, Taken, Members
<1> DEFINE one == <<Head(mailbox)>>
<1>d. one \in Seq(0 .. MaxRequests)
  BY <1>b
<1> HIDE DEF one
<1>1. /\ turn' \in Turn /\ turn'.pc = "commit" /\ turn'.canceled = turn.canceled
      /\ turn'.calls = turn.calls /\ turn'.foreground = turn.foreground
      /\ turn'.unread = one
  BY <1>0, <1>a, <1>d, UnreadIn DEF Turn, one
<1>c. ToSet(turn'.unread) = {Head(mailbox)}
  BY <1>1 DEF ToSet, one
<1>2. UNCHANGED <<ctx, smu, token, tracked, collected, answering, inbox, engine,
                  router, spawner, registry, sidecar, client, seen>>
  BY DEF Wake
<1>3. Types'
  BY <1>0, <1>1, <1>b, <1>2, SMTT(30) DEF Types, registry
<1>4. Answers'
  BY <1>0, <1>1, <1>2, <1>a, <1>b, <1>c, UnreadIn DEF Answers, Closing, registry
<1>5. \A q \in Request : ~Attended(q)
  BY <1>a DEF Attended
<1> QED BY <1>0, <1>1, <1>2, <1>3, <1>4, <1>5, <1>a, <1>b, CallerStep DEF IInv, Strays

LEMMA StopParkedStep ==
    ASSUME IInv, StopParked
    PROVE  IInv'
<1>0. Types /\ Answers /\ Closing /\ Strays
  BY DEF IInv
<1>a. turn' = [turn EXCEPT !.pc = "ended"] /\ turn.pc \in {"park", "generate"}
  BY DEF StopParked, Goto
<1>1. /\ turn' \in Turn /\ turn'.pc = "ended" /\ turn'.canceled = turn.canceled
      /\ turn'.calls = turn.calls /\ turn'.foreground = turn.foreground
      /\ turn'.unread = turn.unread
  BY <1>0, <1>a, UnreadIn DEF Turn
<1>2. UNCHANGED <<ctx, smu, token, tracked, collected, answering, inbox, engine,
                  router, spawner, registry, sidecar, client, seen, mailbox>>
  BY DEF StopParked
<1>3. Types'
  BY <1>0, <1>1, <1>2, SMTT(30) DEF Types, registry
<1>4. Answers'
  BY <1>0, <1>1, <1>2, <1>a, UnreadIn DEF Answers, Closing, registry
<1>5. \A q \in Request : ~Attended(q)
  BY <1>a DEF Attended
<1> QED BY <1>0, <1>1, <1>2, <1>3, <1>4, <1>5, <1>a, CallerStep DEF IInv, Strays

\* What was read is in the timeline, and a token that is read was sent by CancelTurn.
LEMMA CommitUnreadStep ==
    ASSUME IInv, CommitUnread
    PROVE  IInv'
<1>0. Types /\ Answers /\ Closing /\ Strays
  BY DEF IInv
<1> DEFINE go == IF token THEN "boundary" ELSE "generate"
           new == ToSet(turn.unread) \ {0}
           more == turn.tools /\ ~token
<1>a. /\ turn' = [turn EXCEPT !.unread = <<>>, !.tools = more, !.pc = go]
      /\ seen' = [seen EXCEPT !.told = @ \cup new]
      /\ ~token' /\ token' \in BOOLEAN /\ turn.pc = "commit" /\ smu = "free"
  BY DEF CommitUnread
<1>b. ToSet(turn.unread) \subseteq 0 .. MaxRequests /\ new \subseteq Request
  BY <1>0, UnreadIn, Members DEF Request
<1>c. go \in {"boundary", "generate"} /\ more \in BOOLEAN
  BY <1>0, UnreadIn DEF Types, Turn
<1> HIDE DEF go, new, more
<1>1. /\ turn' \in Turn /\ turn'.pc = go /\ turn'.canceled = turn.canceled
      /\ turn'.calls = turn.calls /\ turn'.foreground = turn.foreground
      /\ turn'.unread = <<>>
  <2>1. <<>> \in Seq(0 .. MaxRequests)
    OBVIOUS
  <2> QED BY <1>0, <1>a, <1>c, <2>1, UnreadIn DEF Turn
<1>d. /\ seen' \in Seen /\ seen'.told = seen.told \cup new /\ seen'.background = seen.background
      /\ seen'.asked = seen.asked /\ seen'.gaveUp = seen.gaveUp /\ seen'.cancels = seen.cancels
      /\ seen'.late = seen.late /\ seen'.answers = seen.answers
  BY <1>0, <1>a, <1>b DEF Types, Seen
<1>e. seen.background \subseteq Request /\ 0 \notin Request
  BY <1>0 DEF Types, Seen, Request
<1>2. UNCHANGED <<ctx, smu, tracked, collected, answering, inbox, engine,
                  router, spawner, registry, sidecar, client, mailbox>>
  BY DEF CommitUnread
<1>3. Types'
  BY <1>0, <1>1, <1>a, <1>c, <1>d, <1>2, SMTT(30) DEF Types, registry
<1>4. Answers'
  BY <1>0, <1>1, <1>2, <1>a, <1>d, <1>e, UnreadIn DEF Answers, Closing, registry, new
<1>5. \A q \in Request : ~Attended(q)
  BY <1>a DEF Attended
<1> QED BY <1>0, <1>1, <1>2, <1>3, <1>4, <1>5, <1>a, <1>c, <1>d, CallerStep DEF IInv, Strays

LEMMA GenerateStep ==
    ASSUME IInv, Generate
    PROVE  IInv'
<1>0. Types /\ Answers /\ Closing /\ Strays
  BY DEF IInv
<1>a. turn.pc = "generate" /\ (token' = token \/ ~token') /\ token' \in BOOLEAN
  BY <1>0 DEF Generate, Types
<1>1. /\ turn' \in Turn /\ turn'.pc \in {"dispatch", "commitreply", "boundary"}
      /\ (turn'.canceled = turn.canceled \/ ~turn'.canceled)
      /\ turn'.foreground \in {turn.foreground, <<>>} /\ turn'.unread = turn.unread
      /\ turn'.pc = "dispatch" => seen.asked + Len(turn'.calls) <= MaxRequests
  <2>1. CASE \E reply \in Replies :
               /\ seen.asked + Len(reply) <= MaxRequests
               /\ turn' = [turn EXCEPT !.calls = reply, !.tools = TRUE, !.canceled = FALSE,
                                       !.foreground = <<>>, !.pc = "dispatch"]
    <3>1. PICK reply \in Replies :
               /\ seen.asked + Len(reply) <= MaxRequests
               /\ turn' = [turn EXCEPT !.calls = reply, !.tools = TRUE, !.canceled = FALSE,
                                       !.foreground = <<>>, !.pc = "dispatch"]
      BY <2>1
    <3>2. reply \in Seq(Kind) /\ <<>> \in Seq(Request \X Request)
      BY DelegationAssumption DEF DelegationAssumption
    <3>3. turn' \in Turn
      BY <1>0, <3>1, <3>2, UnreadIn DEF Turn
    <3> QED BY <1>0, <3>1, <3>3, UnreadIn DEF Turn
  <2>2. CASE turn' = [turn EXCEPT !.tools = FALSE, !.pc = "commitreply"]
    BY <1>0, <2>2, UnreadIn DEF Turn
  <2>3. CASE turn' = [turn EXCEPT !.tools = FALSE, !.pc = "boundary"]
    BY <1>0, <2>3, UnreadIn DEF Turn
  <2> QED BY <2>1, <2>2, <2>3 DEF Generate
<1>2. UNCHANGED <<ctx, smu, tracked, collected, answering, inbox, engine,
                  router, spawner, registry, sidecar, client, seen, mailbox>>
  BY DEF Generate
<1>3. Types'
  BY <1>0, <1>1, <1>a, <1>2, SMTT(30) DEF Types, registry
<1>4. Answers'
  BY <1>0, <1>1, <1>2, <1>a, UnreadIn DEF Answers, Closing, registry
<1>5. \A q \in Request : ~Attended(q)
  BY <1>a DEF Attended
<1> QED BY <1>0, <1>1, <1>2, <1>3, <1>4, <1>5, <1>a, CallerStep DEF IInv, Strays

\* A caller whose context has ended has no sidecar left.
LEMMA Ended ==
    ASSUME Closing, ctx = "done"
    PROVE  \A q \in Request : ~sidecar[q].live /\ ~sidecar[q].loop /\ ~sidecar[q].resident
  BY DEF Closing

LEMMA Numbers ==
    /\ MaxRequests \in Nat /\ 0 \in 0 .. MaxRequests /\ Request \subseteq 0 .. MaxRequests
    /\ \A n \in Request : n \in Nat /\ n >= 1 /\ n <= MaxRequests
    /\ \A n \in 0 .. MaxRequests : n \in Nat /\ (n # 0 => n \in Request)
  BY DEF DelegationAssumption, Request

\* What CallOver makes of the turn.
LEMMA CallIsOver ==
    ASSUME Types, turn.pc \in {"send", "await", "track"}
    PROVE  LET t == CallOver("dispatch") IN
           /\ t \in Turn /\ t.pc = "dispatch" /\ t.canceled = turn.canceled
           /\ t.calls = Tail(turn.calls) /\ t.foreground = turn.foreground
           /\ t.unread = turn.unread /\ t.request = 0 /\ t.waiting = turn.waiting
           /\ seen.asked + Len(t.calls) <= MaxRequests
<1>b. /\ turn \in Turn /\ turn.request \in Request /\ turn.calls # <<>> /\ turn.calls \in Seq(Kind)
      /\ seen.asked + Len(turn.calls) <= MaxRequests + 1 /\ seen.asked \in 0 .. MaxRequests
  BY DEF Types, Turn, Seen
<1>c. /\ Tail(turn.calls) \in Seq(Kind) /\ Len(Tail(turn.calls)) = Len(turn.calls) - 1
      /\ Len(turn.calls) \in Nat
  BY <1>b
<1>d. CallOver("dispatch") = [turn EXCEPT !.calls = Tail(turn.calls), !.pc = "dispatch", !.request = 0]
  BY DEF CallOver
<1>1. LET t == CallOver("dispatch") IN
           /\ t \in Turn /\ t.pc = "dispatch" /\ t.canceled = turn.canceled
           /\ t.calls = Tail(turn.calls) /\ t.foreground = turn.foreground
           /\ t.unread = turn.unread /\ t.request = 0 /\ t.waiting = turn.waiting
  BY <1>b, <1>c, <1>d, Numbers DEF Turn
<1>e. seen.asked + (Len(turn.calls) - 1) <= MaxRequests
  BY <1>b, <1>c, Numbers
<1> QED BY <1>1, <1>c, <1>e

\* A background sidecar that is tracked is accounted for by being tracked.
LEMMA TrackStep ==
    ASSUME IInv, Track
    PROVE  IInv'
<1>0. Types /\ Answers /\ Closing /\ Strays
  BY DEF IInv
<1>a. /\ turn' = CallOver("dispatch")
      /\ seen' = [seen EXCEPT !.background = @ \cup {turn.request}]
      /\ tracked' = tracked \cup {turn.request}
      /\ turn.pc = "track" /\ smu = "free"
  BY DEF Track
<1>1. /\ turn' \in Turn /\ turn'.pc = "dispatch" /\ turn'.canceled = turn.canceled
      /\ turn'.calls = Tail(turn.calls) /\ turn'.foreground = turn.foreground
      /\ turn'.unread = turn.unread /\ seen.asked + Len(turn'.calls) <= MaxRequests
  BY <1>0, <1>a, CallIsOver
<1>b. seen \in Seen /\ turn.request \in Request
  BY <1>0, <1>a DEF Types
<1>d. /\ seen' \in Seen /\ seen'.told = seen.told /\ seen'.background = seen.background \cup {turn.request}
      /\ seen'.asked = seen.asked /\ seen'.gaveUp = seen.gaveUp /\ seen'.cancels = seen.cancels
      /\ seen'.late = seen.late /\ seen'.answers = seen.answers
  BY <1>a, <1>b DEF Seen
<1>2. UNCHANGED <<ctx, smu, token, collected, answering, inbox, engine,
                  router, spawner, registry, sidecar, client, mailbox>>
  BY DEF Track
<1>3. Types'
  BY <1>0, <1>1, <1>a, <1>b, <1>d, <1>2, SMTT(30) DEF Types, registry
<1>4. Answers'
  BY <1>0, <1>1, <1>2, <1>a, <1>d, UnreadIn DEF Answers, Closing, registry
<1>5. ASSUME NEW q \in Request, Attended(q) PROVE Attended(q)'
  BY <1>5, <1>1, <1>a DEF Attended
<1> QED BY <1>0, <1>1, <1>2, <1>3, <1>4, <1>5, <1>a, <1>d, CallerStep DEF IInv, Strays

\* The calls to wait for are all waited for.
LEMMA StartWaitStep ==
    ASSUME IInv, StartWait
    PROVE  IInv'
<1>0. Types /\ Answers /\ Closing /\ Strays
  BY DEF IInv
<1> DEFINE by == {f[2] : f \in ToSet(turn.foreground)}
           go == IF turn.foreground = <<>> THEN "commitreply" ELSE "wait"
<1>a. /\ turn' = [turn EXCEPT !.waiting = by, !.pc = go]
      /\ collected' = <<>> /\ turn.pc = "dispatch"
  BY DEF StartWait
<1>b. /\ turn \in Turn /\ by \subseteq Request /\ go \in {"commitreply", "wait"}
      /\ collected' \in Seq(Request)
  <2>1. turn \in Turn /\ turn.foreground \in Seq(Request \X Request)
    BY <1>0 DEF Types, Turn
  <2>2. ToSet(turn.foreground) \subseteq Request \X Request
    BY <2>1, Members
  <2>3. \A f \in Request \X Request : f[2] \in Request
    OBVIOUS
  <2>4. <<>> \in Seq(Request)
    OBVIOUS
  <2> QED BY <2>1, <2>2, <2>3, <2>4, <1>a
<1>c. \A q \in Request : <<q, q>> \in ToSet(turn.foreground) => q \in by /\ go = "wait"
  BY DEF ToSet
<1> HIDE DEF by, go
<1>1. /\ turn' \in Turn /\ turn'.pc = go /\ turn'.canceled = turn.canceled
      /\ turn'.calls = turn.calls /\ turn'.foreground = turn.foreground
      /\ turn'.unread = turn.unread /\ turn'.waiting = by
  BY <1>a, <1>b DEF Turn
<1>2. UNCHANGED <<ctx, smu, token, tracked, answering, inbox, engine,
                  router, spawner, registry, sidecar, client, seen, mailbox>>
  BY DEF StartWait
<1>3. Types'
  BY <1>0, <1>1, <1>a, <1>b, <1>2, SMTT(30) DEF Types, registry
<1>4. Answers'
  BY <1>0, <1>1, <1>2, <1>a, <1>b, UnreadIn DEF Answers, Closing, registry
<1>5. ASSUME NEW q \in Request, Attended(q) PROVE Attended(q)'
  BY <1>5, <1>1, <1>a, <1>c DEF Attended
<1> QED BY <1>0, <1>1, <1>2, <1>3, <1>4, <1>5, <1>a, <1>b, CallerStep DEF IInv, Strays

\* A wait that ends before its answers was canceled, or has no sidecar left.
LEMMA FinishWaitStep ==
    ASSUME IInv, FinishWait
    PROVE  IInv'
<1>0. Types /\ Answers /\ Closing /\ Strays
  BY DEF IInv
<1> DEFINE stop == turn.canceled \/ (token /\ ~token')
<1>a. /\ turn' = [turn EXCEPT !.pc = "commitreply", !.canceled = stop, !.foreground = <<>>, !.waiting = {}]
      /\ collected' = <<>> /\ turn.pc = "wait"
      /\ \/ turn.waiting = {} /\ token' = token
         \/ token /\ ~token'
         \/ ctx = "done" /\ token' = token
      /\ token' \in BOOLEAN
  BY <1>0 DEF FinishWait, Types
<1>b. /\ turn \in Turn /\ stop \in BOOLEAN /\ <<>> \in Seq(Request) /\ <<>> \in Seq(Request \X Request)
      /\ seen.cancels = 0 => ~stop
  BY <1>0 DEF Types, Turn, Strays
<1> HIDE DEF stop
<1>1. /\ turn' \in Turn /\ turn'.pc = "commitreply" /\ turn'.canceled = stop
      /\ turn'.calls = turn.calls /\ turn'.foreground = <<>>
      /\ turn'.unread = turn.unread
  BY <1>a, <1>b DEF Turn
<1>2. UNCHANGED <<ctx, smu, tracked, answering, inbox, engine,
                  router, spawner, registry, sidecar, client, seen, mailbox>>
  BY DEF FinishWait
<1>3. Types'
  BY <1>0, <1>1, <1>a, <1>b, <1>2, SMTT(30) DEF Types, registry
<1>4. Answers'
  BY <1>0, <1>1, <1>2, <1>a, <1>b, UnreadIn DEF Answers, Closing, registry
<1>5. ASSUME NEW q \in Request, sidecar[q].loop, seen.cancels = 0, Attended(q) PROVE FALSE
  BY <1>5, <1>0, <1>a, Ended DEF Attended, Strays
<1> QED BY <1>0, <1>1, <1>2, <1>3, <1>4, <1>5, <1>a, <1>b, CallerStep DEF IInv, Strays

\* A sidecar that has answered works no more, so the wait may leave it.
LEMMA CollectAnswerStep ==
    ASSUME IInv, CollectAnswer
    PROVE  IInv'
<1>0. Types /\ Answers /\ Closing /\ Strays /\ Results /\ Ordered
  BY DEF IInv
<1> DEFINE from == Head(collected)
           left == turn.waiting \ {from}
           given == [r \in Request |-> IF <<r, from>> \in ToSet(turn.foreground)
                                       THEN from ELSE seen.answers[r]]
<1>a. /\ turn' = [turn EXCEPT !.waiting = left]
      /\ collected' = Tail(collected) /\ turn.pc = "wait" /\ collected # <<>>
      /\ seen' \in {seen, [seen EXCEPT !.answers = given]}
  BY DEF CollectAnswer
<1>b. /\ turn \in Turn /\ left \subseteq Request /\ from \in Request /\ collected' \in Seq(Request)
      /\ \A i \in DOMAIN collected' : i + 1 \in DOMAIN collected /\ collected'[i] = collected[i + 1]
      /\ 1 \in DOMAIN collected /\ from = collected[1]
      /\ seen.answers \in [Request -> 0 .. MaxRequests] /\ seen \in Seen
  <2>1. turn \in Turn /\ collected \in Seq(Request) /\ seen \in Seen
    BY <1>0 DEF Types
  <2>2. /\ from \in Request /\ collected' \in Seq(Request)
        /\ \A i \in DOMAIN collected' : i + 1 \in DOMAIN collected /\ collected'[i] = collected[i + 1]
        /\ 1 \in DOMAIN collected /\ from = collected[1]
    BY <2>1, <1>a, Taken
  <2>3. turn.waiting \subseteq Request
    BY <2>1 DEF Turn
  <2>4. seen.answers \in [Request -> 0 .. MaxRequests]
    BY <2>1 DEF Seen
  <2> QED BY <2>1, <2>2, <2>3, <2>4
<1>c. given \in [Request -> 0 .. MaxRequests]
  BY <1>b DEF Request
<1>d. \A i \in DOMAIN collected' : Over(collected'[i])
  BY <1>b, <1>0 DEF Results
<1>e. Over(from)
  BY <1>b, <1>0 DEF Results
<1>f. \A r \in Request : given[r] \in {0, r} \/ \E g \in seen.gaveUp : g < r
  BY <1>0, <1>b DEF Ordered, AnswerIsOwn
<1> HIDE DEF given
<1>g. /\ seen' \in Seen /\ seen'.told = seen.told /\ seen'.background = seen.background
      /\ seen'.asked = seen.asked /\ seen'.gaveUp = seen.gaveUp /\ seen'.cancels = seen.cancels
      /\ seen'.late = seen.late /\ seen'.answers \in {seen.answers, given}
  <2>1. CASE seen' = seen
    BY <1>b, <2>1
  <2>2. CASE seen' = [seen EXCEPT !.answers = given]
    BY <1>b, <1>c, <2>2 DEF Seen
  <2> QED BY <1>a, <2>1, <2>2
<1>h. AnswerIsOwn'
  BY <1>f, <1>g, <1>0 DEF AnswerIsOwn, Ordered
<1> HIDE DEF left, from
<1>1. /\ turn' \in Turn /\ turn'.pc = "wait" /\ turn'.canceled = turn.canceled
      /\ turn'.calls = turn.calls /\ turn'.foreground = turn.foreground
      /\ turn'.unread = turn.unread /\ turn'.waiting = left
  BY <1>a, <1>b DEF Turn
<1>2. UNCHANGED <<ctx, smu, token, tracked, answering, inbox, engine,
                  router, spawner, registry, sidecar, client, mailbox>>
  BY DEF CollectAnswer
<1>3. Types'
  BY <1>0, <1>1, <1>a, <1>b, <1>g, <1>2, SMTT(30) DEF Types, registry
<1>4. Answers'
  BY <1>0, <1>1, <1>2, <1>a, <1>b, <1>g, UnreadIn DEF Answers, Closing, registry
<1>5. ASSUME NEW q \in Request, sidecar[q].loop, Attended(q) PROVE Attended(q)'
  BY <1>5, <1>1, <1>a, <1>e DEF Attended, Over, left
<1> QED BY <1>0, <1>1, <1>2, <1>3, <1>4, <1>5, <1>a, <1>d, <1>g, <1>h, LoopStep DEF IInv, Strays
-----------------------------------------------------------------------------
(* RequestSidecar *)

\* What a step leaves as it is.
LEMMA Frames ==
    ASSUME IInv
    PROVE  /\ UNCHANGED <<client, mu, resident, ctx, sidecar, children>> => Closing'
           /\ UNCHANGED <<client, engine, router, inbox, collected, sidecar>> => Results'
           /\ UNCHANGED <<engine, spawner, inbox>> =>
                \A q \in Request : Requested(q)' = Requested(q) /\ Confirmed(q)' = Confirmed(q)
                                   /\ Underway(q)' = Underway(q)
           /\ UNCHANGED <<sidecar, children>> => \A q \in Request : Working(q)' = Working(q)
<1>1. UNCHANGED <<client, mu, resident, ctx, sidecar, children>> => Closing'
  BY DEF IInv, Closing
<1>2. UNCHANGED <<client, engine, router, inbox, collected, sidecar>> => Results'
  BY DEF IInv, Results, Over
<1>3. UNCHANGED <<engine, spawner, inbox>> =>
        \A q \in Request : Requested(q)' = Requested(q) /\ Confirmed(q)' = Confirmed(q)
                           /\ Underway(q)' = Underway(q)
  BY DEF Requested, Confirmed, Underway
<1>4. UNCHANGED <<sidecar, children>> => \A q \in Request : Working(q)' = Working(q)
  BY DEF Working
<1> QED BY <1>1, <1>2, <1>3, <1>4

\* The next request has a number nothing has heard of yet.
LEMMA NextCallStep ==
    ASSUME IInv, NextCall
    PROVE  IInv'
<1>0. Types /\ Answers /\ Closing /\ Strays /\ Single /\ Ordered
  BY DEF IInv
<1>2. UNCHANGED <<ctx, smu, token, mailbox, tracked, collected, linger, answering, inbox, engine,
                  router, spawner, registry, sidecar, client>>
  BY DEF NextCall
<1>a. turn.pc = "dispatch" /\ turn.calls # <<>>
  BY DEF NextCall
<1>b. /\ turn \in Turn /\ turn.calls \in Seq(Kind) /\ seen \in Seen /\ seen.asked \in 0 .. MaxRequests
      /\ seen.asked + Len(turn.calls) <= MaxRequests
  BY <1>0, <1>a DEF Types, Turn, Seen
<1>3. CASE turn.canceled
  <2>a. turn' = [turn EXCEPT !.calls = <<>>] /\ seen' = seen
    BY <1>3 DEF NextCall
  <2>b. <<>> \in Seq(Kind) /\ Len(<<>>) = 0
    OBVIOUS
  <2>1. /\ turn' \in Turn /\ turn'.pc = "dispatch" /\ turn'.canceled = turn.canceled
        /\ turn'.calls = <<>> /\ turn'.foreground = turn.foreground
        /\ turn'.unread = turn.unread
    BY <1>a, <1>b, <2>a, <2>b DEF Turn
  <2>c. seen.asked + Len(turn'.calls) <= MaxRequests
    BY <2>1, <2>b, <1>b, Numbers
  <2>3. Types'
    BY <1>0, <2>1, <2>a, <2>c, <1>2, SMTT(30) DEF Types, registry
  <2>4. Answers'
    BY <1>0, <2>1, <1>2, <1>a, <2>a, UnreadIn DEF Answers, Closing, registry
  <2>5. ASSUME NEW q \in Request, Attended(q) PROVE Attended(q)'
    BY <2>5, <2>1, <1>a DEF Attended
  <2> QED BY <1>0, <2>1, <1>2, <2>3, <2>4, <2>5, <1>a, <2>a, CallerStep DEF IInv, Strays
<1>4. CASE ~turn.canceled
  <2> DEFINE next == seen.asked + 1
  <2>a. /\ turn' = [turn EXCEPT !.request = next, !.pc = "send"]
        /\ seen' = [seen EXCEPT !.asked = next]
    BY <1>4 DEF NextCall
  <2>b. /\ Len(turn.calls) \in Nat /\ Len(turn.calls) >= 1
        /\ next \in Request /\ next + Len(turn.calls) <= MaxRequests + 1 /\ seen.asked < next
        /\ next \in 0 .. MaxRequests /\ seen.asked \in Nat
    <3>1. Len(turn.calls) \in Nat /\ Len(turn.calls) >= 1
      BY <1>a, <1>b
    <3> QED BY <1>b, <3>1, Numbers DEF Request
  <2>f. \A q \in Request : q > next => q > seen.asked
    BY <2>b, Numbers
  <2>e. next > seen.asked
    BY <2>b
  <2>j. \A n \in Nat : n <= seen.asked => n < next /\ n <= next
    BY <2>b
  <2> HIDE DEF next
  <2>1. /\ turn' \in Turn /\ turn'.pc = "send" /\ turn'.canceled = turn.canceled
        /\ turn'.calls = turn.calls /\ turn'.foreground = turn.foreground
        /\ turn'.unread = turn.unread /\ turn'.request = next
    BY <1>b, <2>a, <2>b DEF Turn
  <2>d. /\ seen' \in Seen /\ seen'.told = seen.told /\ seen'.background = seen.background
        /\ seen'.asked = next /\ seen'.gaveUp = seen.gaveUp /\ seen'.cancels = seen.cancels
        /\ seen'.late = seen.late /\ seen'.answers = seen.answers
    BY <1>b, <2>a, <2>b DEF Seen
  <2>3. Types'
    BY <1>0, <2>1, <2>a, <2>b, <2>d, <1>2, <1>a, SMTT(30) DEF Types, registry
  <2>4. Answers'
    BY <1>0, <2>1, <1>2, <1>a, <2>d, UnreadIn DEF Answers, Closing, registry
  <2>5. Closing' /\ Results'
    BY Frames, <1>2 DEF registry
  <2>6. \A q \in Request : Requested(q)' = Requested(q) /\ Confirmed(q)' = Confirmed(q) /\ Underway(q)' = Underway(q)
    BY Frames, <1>2
  <2>7. Single'
    BY <1>0, <2>1, <1>2, <2>d, <2>6, <2>f, <2>e DEF Single, registry
  <2>8. Ordered'
    <3>1. \A q \in Request : Underway(q)' => GaveUpBy(q)'
      BY <2>6, <1>0, <1>a, <2>d DEF Ordered, GaveUpBy
    <3>2. AnswerIsOwn'
      BY <1>0, <2>d DEF Ordered, AnswerIsOwn
    <3>3. \A g \in seen.gaveUp : g \in Nat
      BY <1>b, Numbers DEF Seen
    <3>4. \A f \in ToSet(turn.foreground) : f[1] \in Nat
      <4>1. ToSet(turn.foreground) \subseteq Request \X Request
        BY <1>b, Members DEF Turn
      <4>2. \A f \in Request \X Request : f[1] \in Request
        OBVIOUS
      <4> QED BY <4>1, <4>2, Numbers
    <3> QED BY <1>0, <3>1, <3>2, <3>3, <3>4, <2>1, <2>d, <2>j DEF Ordered
  <2>9. Kinds'
    BY <2>1 DEF Kinds
  <2>10. Strays'
    <3>1. \A q \in Request : Attended(q) => Attended(q)'
      BY <2>1, <1>a DEF Attended
    <3>2. \A q \in Request : Working(q)' = Working(q)
      BY Frames, <1>2 DEF registry
    <3> QED BY <1>0, <1>2, <2>1, <2>d, <3>1, <3>2 DEF Strays
  <2> QED BY <2>3, <2>4, <2>5, <2>7, <2>8, <2>9, <2>10 DEF IInv
<1> QED BY <1>3, <1>4

\* Append, for a channel that is named.
LEMMA Grown ==
    ASSUME NEW S, NEW s \in Seq(S), NEW x \in S, NEW t, t = Append(s, x)
    PROVE  /\ t \in Seq(S)
           /\ \A i \in DOMAIN t : (i \in DOMAIN s /\ t[i] = s[i]) \/ (i = Len(s) + 1 /\ t[i] = x)
           /\ \A i \in DOMAIN s : i \in DOMAIN t /\ t[i] = s[i]
           /\ Len(s) + 1 \in DOMAIN t /\ t[Len(s) + 1] = x
  BY Appended

\* A request is sent once, and awaited.
LEMMA SendRequestStep ==
    ASSUME IInv, SendRequest
    PROVE  IInv'
<1>0. Types /\ Answers /\ Closing /\ Strays /\ Single /\ Ordered /\ Results
  BY DEF IInv
<1>2. UNCHANGED <<ctx, smu, token, mailbox, tracked, collected, linger, answering, inbox,
                  router, spawner, registry, sidecar, client, seen>>
  BY DEF SendRequest
<1> DEFINE m == [kind |-> Head(turn.calls), from |-> turn.request]
<1>a. /\ turn.pc = "send" /\ engine' = Append(engine, m)
      /\ turn' = [turn EXCEPT !.pc = "await"]
  BY DEF SendRequest, ToEngine, Goto, Asking
<1>b. /\ turn \in Turn /\ turn.calls \in Seq(Kind) /\ turn.calls # <<>> /\ seen.asked \in 0 .. MaxRequests
      /\ turn.request \in Request /\ turn.request = seen.asked /\ engine \in Seq(Message)
  BY <1>0, <1>a DEF Types, Turn, Seen
<1>c. Head(turn.calls) \in Kind
  BY <1>b
<1>d. m \in Message /\ m.kind = Head(turn.calls) /\ m.from = turn.request /\ m.kind # "result"
  BY <1>b, <1>c DEF Message, Kind
<1> HIDE DEF m
<1>e. /\ engine' \in Seq(Message)
      /\ \A i \in DOMAIN engine' : (i \in DOMAIN engine /\ engine'[i] = engine[i])
                                  \/ (i = Len(engine) + 1 /\ engine'[i] = m)
      /\ \A i \in DOMAIN engine : i \in DOMAIN engine' /\ engine'[i] = engine[i]
  BY <1>a, <1>b, <1>d, Grown, SMTT(30)
<1>1. /\ turn' \in Turn /\ turn'.pc = "await" /\ turn'.canceled = turn.canceled
      /\ turn'.calls = turn.calls /\ turn'.foreground = turn.foreground
      /\ turn'.unread = turn.unread /\ turn'.request = turn.request
  BY <1>a, <1>b DEF Turn
<1>3. Types'
  BY <1>0, <1>1, <1>a, <1>b, <1>e, <1>2, SMTT(30) DEF Types, registry
<1>4. Answers'
  BY <1>0, <1>1, <1>2, <1>a, UnreadIn DEF Answers, Closing, registry
<1>5. Closing'
  BY Frames, <1>2 DEF registry
<1>6. \A q \in Request : (Requested(q)' => Requested(q) \/ q = turn.request) /\ Confirmed(q)' = Confirmed(q)
  BY <1>d, <1>e, <1>2 DEF Requested, Confirmed
<1>7. Single'
  <2>1. ~Requested(turn.request) /\ spawner[turn.request].pc = "none" /\ ~Confirmed(turn.request)
    BY <1>0, <1>a, <1>b DEF Single
  <2>2. ~(turn.request > seen.asked)
    BY <1>b, Numbers
  <2>3. \A i, j \in DOMAIN engine' : engine'[i].kind \in Kind /\ engine'[j].kind \in Kind
                                   /\ engine'[i].from = engine'[j].from => i = j
    BY <1>0, <1>d, <1>e, <2>1 DEF Single, Requested
  <2>4. \A q \in Request :
          /\ q > seen'.asked => spawner'[q].pc = "none" /\ ~Requested(q)'
          /\ turn'.pc = "send" /\ q = turn'.request => spawner'[q].pc = "none" /\ ~Requested(q)'
          /\ Requested(q)' => spawner'[q].pc = "none"
          /\ spawner'[q].pc # "done" => ~Confirmed(q)'
    BY <1>0, <1>1, <1>2, <1>6, <2>1, <2>2 DEF Single
  <2> QED BY <1>0, <1>2, <2>3, <2>4 DEF Single, registry
<1>8. Ordered'
  <2>1. \A q \in Request : Underway(q)' => GaveUpBy(q)' \/ q = turn.request
    BY <1>6, <1>0, <1>a, <1>2 DEF Ordered, GaveUpBy, Underway
  <2>2. AnswerIsOwn'
    BY <1>0, <1>2 DEF Ordered, AnswerIsOwn
  <2> QED BY <1>0, <1>1, <1>2, <1>a, <2>1, <2>2 DEF Ordered
<1>9. Results'
  BY <1>0, <1>2, <1>d, <1>e DEF Results, Over
<1>10. Kinds'
  <2>1. ~Requested(turn.request) /\ spawner[turn.request].pc = "none" /\ children[turn.request] = "none"
    BY <1>0, <1>a, <1>b DEF Single
  <2>2. \A i \in DOMAIN engine' : engine'[i].kind \in Kind /\ engine'[i].from = turn.request
                                => engine'[i].kind = Head(turn.calls)
    BY <1>d, <1>e, <2>1 DEF Requested
  <2> QED BY <2>1, <2>2, <1>1, <1>2 DEF Kinds, registry
<1>11. Strays'
  <2>1. \A q \in Request : Attended(q) => Attended(q)'
    BY <1>1, <1>a DEF Attended
  <2>2. \A q \in Request : Working(q)' = Working(q)
    BY Frames, <1>2 DEF registry
  <2> QED BY <1>0, <1>2, <1>1, <2>1, <2>2 DEF Strays
<1> QED BY <1>3, <1>4, <1>5, <1>7, <1>8, <1>9, <1>10, <1>11 DEF IInv

\* The request whose confirmation comes next is the one awaited, or one that
\* was given up no later than it.
LEMMA NextConfirmation ==
    ASSUME IInv, inbox.confirm # <<>>
    PROVE  LET c == Head(inbox.confirm) IN
           /\ c \in Confirmation /\ c.to \in Request /\ c.ok \in BOOLEAN
           /\ Confirmed(c.to) /\ spawner[c.to].pc = "done" /\ ~Requested(c.to)
           /\ c.to <= seen.asked
           /\ GaveUpBy(c.to) \/ (turn.pc = "await" /\ turn.request = c.to)
           /\ ~c.ok => sidecar[c.to].status = "none" /\ ~sidecar[c.to].loop
<1> DEFINE c == Head(inbox.confirm)
<1>1. inbox.confirm \in Seq(Confirmation)
  BY DEF IInv, Types, Inbox
<1>2. c \in Confirmation /\ 1 \in DOMAIN inbox.confirm /\ c = inbox.confirm[1]
  BY <1>1, Taken
<1>3. c.to \in Request /\ c.ok \in BOOLEAN
  BY <1>2 DEF Confirmation
<1> HIDE DEF c
<1>4. Confirmed(c.to)
  BY <1>2 DEF Confirmed
<1>5. spawner[c.to].pc = "done"
  BY <1>3, <1>4 DEF IInv, Single
<1>6. ~Requested(c.to)
  BY <1>3, <1>5 DEF IInv, Single
<1>7. c.to <= seen.asked
  <2>1. ~(c.to > seen.asked)
    BY <1>3, <1>5 DEF IInv, Single
  <2>2. seen.asked \in 0 .. MaxRequests
    BY DEF IInv, Types, Seen
  <2>3. c.to \in Nat /\ seen.asked \in Nat
    BY <2>2, <1>3, Numbers
  <2> QED BY <2>1, <2>3
<1>8. GaveUpBy(c.to) \/ (turn.pc = "await" /\ turn.request = c.to)
  BY <1>3, <1>4 DEF IInv, Ordered, Underway
<1>9. ~c.ok => sidecar[c.to].status = "none"
  BY <1>2 DEF IInv, Single
<1>10. sidecar[c.to].status = "none" => ~sidecar[c.to].loop
  BY <1>3 DEF IInv, Results
<1> QED BY <1>2, <1>3, <1>4, <1>5, <1>6, <1>7, <1>8, <1>9, <1>10 DEF c

\* What is left of the confirmations.
LEMMA FewerConfirmations ==
    ASSUME IInv, inbox.confirm # <<>>, inbox' = [inbox EXCEPT !.confirm = Tail(inbox.confirm)]
    PROVE  /\ inbox' \in Inbox /\ inbox'.result = inbox.result /\ inbox'.background = inbox.background
           /\ \A q \in Request : Confirmed(q)' => Confirmed(q) /\ q # Head(inbox.confirm).to
           /\ \A i, j \in DOMAIN inbox'.confirm : inbox'.confirm[i].to = inbox'.confirm[j].to => i = j
           /\ \A i \in DOMAIN inbox'.confirm : i + 1 \in DOMAIN inbox.confirm
                                              /\ inbox'.confirm[i] = inbox.confirm[i + 1]
<1>1. inbox \in Inbox /\ inbox.confirm \in Seq(Confirmation)
  BY DEF IInv, Types, Inbox
<1> DEFINE s == inbox.confirm
           t == Tail(s)
<1>2. /\ t \in Seq(Confirmation) /\ 1 \in DOMAIN s /\ Head(s) = s[1] /\ DOMAIN t \subseteq Nat \ {0}
      /\ \A i \in DOMAIN t : i + 1 \in DOMAIN s /\ t[i] = s[i + 1]
  BY <1>1, Taken, SMTT(30)
<1> HIDE DEF t
<1>3. inbox' \in Inbox /\ inbox'.result = inbox.result /\ inbox'.background = inbox.background /\ inbox'.confirm = t
  BY <1>1, <1>2 DEF Inbox, t
<1>4. \A i, j \in DOMAIN s : s[i].to = s[j].to => i = j
  BY DEF IInv, Single
<1>5. \A i, j \in DOMAIN t : t[i].to = t[j].to => i = j
  <2> SUFFICES ASSUME NEW i \in DOMAIN t, NEW j \in DOMAIN t, t[i].to = t[j].to PROVE i = j
    OBVIOUS
  <2>1. i + 1 = j + 1
    BY <1>2, <1>4, SMTT(30)
  <2> QED BY <2>1, <1>2, SMTT(30)
<1>6. \A i \in DOMAIN t : t[i].to # Head(s).to
  <2> SUFFICES ASSUME NEW i \in DOMAIN t, t[i].to = Head(s).to PROVE FALSE
    OBVIOUS
  <2>1. i + 1 = 1
    BY <1>2, <1>4
  <2> QED BY <2>1, <1>2
<1>8. ASSUME NEW q \in Request, Confirmed(q)' PROVE Confirmed(q) /\ q # Head(s).to
  <2>1. PICK i \in DOMAIN t : t[i].to = q
    BY <1>3, <1>8 DEF Confirmed
  <2> QED BY <1>2, <1>6, <2>1 DEF Confirmed
<1>9. \A i \in DOMAIN inbox'.confirm : i + 1 \in DOMAIN inbox.confirm
                                     /\ inbox'.confirm[i] = inbox.confirm[i + 1]
  BY <1>2, <1>3
<1>10. \A i, j \in DOMAIN inbox'.confirm : inbox'.confirm[i].to = inbox'.confirm[j].to => i = j
  BY <1>3, <1>5, ZenonT(60)
<1> QED BY <1>3, <1>8, <1>9, <1>10

\* A confirmation that is taken is of the request awaited, or of one given up
\* before it; in the first case the sidecar is listed among the calls to wait for.
LEMMA TakeConfirmationStep ==
    ASSUME IInv, TakeConfirmation
    PROVE  IInv'
<1>0. Types /\ Answers /\ Closing /\ Strays /\ Single /\ Ordered /\ Results /\ Kinds
  BY DEF IInv
<1>2. UNCHANGED <<ctx, smu, token, mailbox, tracked, collected, answering, engine,
                  router, spawner, registry, sidecar, client, seen>>
  BY DEF TakeConfirmation
<1> DEFINE c == Head(inbox.confirm)
           q0 == turn.request
<1>a. /\ turn.pc = "await" /\ inbox.confirm # <<>>
      /\ inbox' = [inbox EXCEPT !.confirm = Tail(inbox.confirm)]
      /\ \/ ~c.ok /\ turn' = CallOver("dispatch")
         \/ c.ok /\ Head(turn.calls) = "background" /\ turn' = [turn EXCEPT !.pc = "track", !.request = c.to]
         \/ /\ c.ok /\ Head(turn.calls) # "background"
            /\ turn' = [CallOver("dispatch") EXCEPT !.foreground = Append(CallOver("dispatch").foreground, <<q0, c.to>>)]
  BY DEF TakeConfirmation, TakeFrom, Asking
<1>b. /\ c.to \in Request /\ c.ok \in BOOLEAN
      /\ Confirmed(c.to) /\ spawner[c.to].pc = "done" /\ ~Requested(c.to)
      /\ c.to <= seen.asked
      /\ GaveUpBy(c.to) \/ q0 = c.to
      /\ ~c.ok => ~sidecar[c.to].loop
  BY <1>a, NextConfirmation
<1>c. /\ inbox' \in Inbox /\ inbox'.result = inbox.result /\ inbox'.background = inbox.background
      /\ \A q \in Request : Confirmed(q)' => Confirmed(q) /\ q # c.to
      /\ \A i, j \in DOMAIN inbox'.confirm : inbox'.confirm[i].to = inbox'.confirm[j].to => i = j
      /\ \A i \in DOMAIN inbox'.confirm : i + 1 \in DOMAIN inbox.confirm
                                         /\ inbox'.confirm[i] = inbox.confirm[i + 1]
  BY <1>a, FewerConfirmations
<1> HIDE DEF c
<1>d. /\ turn \in Turn /\ turn.calls \in Seq(Kind) /\ turn.calls # <<>> /\ seen.asked \in 0 .. MaxRequests
      /\ q0 \in Request /\ q0 = seen.asked /\ turn.foreground \in Seq(Request \X Request)
      /\ seen.asked + Len(turn.calls) <= MaxRequests + 1
  BY <1>0, <1>a DEF Types, Turn, Seen
<1> HIDE DEF q0
<1>e. Head(turn.calls) \in Kind
  BY <1>d
<1>f. <<q0, c.to>> \in Request \X Request
  BY <1>b, <1>d
<1>1. /\ turn' \in Turn /\ turn'.pc \in {"dispatch", "track"} /\ turn'.canceled = turn.canceled
      /\ turn'.unread = turn.unread
      /\ turn'.pc = "dispatch" => seen.asked + Len(turn'.calls) <= MaxRequests
      /\ turn'.pc = "track" => turn'.calls = turn.calls /\ turn'.request = c.to
      /\ turn'.foreground \in {turn.foreground, Append(turn.foreground, <<q0, c.to>>)}
      /\ c.ok /\ Head(turn.calls) = "foreground" => turn'.foreground = Append(turn.foreground, <<q0, c.to>>)
  <2> DEFINE t == CallOver("dispatch")
  <2>0. /\ t \in Turn /\ t.pc = "dispatch" /\ t.canceled = turn.canceled
        /\ t.calls = Tail(turn.calls) /\ t.foreground = turn.foreground
        /\ t.unread = turn.unread /\ t.request = 0
        /\ seen.asked + Len(t.calls) <= MaxRequests
    BY <1>0, <1>a, CallIsOver
  <2> HIDE DEF t
  <2>1. CASE ~c.ok /\ turn' = t
    BY <2>0, <2>1
  <2>2. CASE c.ok /\ Head(turn.calls) = "background" /\ turn' = [turn EXCEPT !.pc = "track", !.request = c.to]
    BY <2>2, <1>b, <1>d, Numbers DEF Turn
  <2>3. CASE c.ok /\ turn' = [t EXCEPT !.foreground = Append(t.foreground, <<q0, c.to>>)]
    <3>1. Append(turn.foreground, <<q0, c.to>>) \in Seq(Request \X Request)
      BY <1>d, <1>f
    <3> QED BY <2>0, <2>3, <3>1 DEF Turn
  <2> QED BY <1>a, <2>1, <2>2, <2>3 DEF t
<1>g. /\ ToSet(turn'.foreground) \subseteq ToSet(turn.foreground) \cup {<<q0, c.to>>}
      /\ ToSet(turn.foreground) \subseteq ToSet(turn'.foreground)
      /\ c.ok /\ Head(turn.calls) = "foreground" => <<q0, c.to>> \in ToSet(turn'.foreground)
  <2>1. ToSet(Append(turn.foreground, <<q0, c.to>>)) = ToSet(turn.foreground) \cup {<<q0, c.to>>}
    BY <1>d, <1>f, Members
  <2> QED BY <1>1, <2>1
<1>h. \A g \in seen.gaveUp : g \in Nat /\ g <= q0
  <2>1. \A g \in seen.gaveUp : g \in Request
    BY <1>0 DEF Types, Seen
  <2> QED BY <2>1, Numbers, <1>0, <1>d DEF Ordered
<1>i. q0 \in Nat /\ c.to \in Nat /\ c.to <= q0
  BY <1>b, <1>d, Numbers
<1>3. Types'
  <2>1. /\ turn' \in Turn /\ inbox' \in Inbox /\ seen' \in Seen
        /\ turn'.pc \in {"send", "await"} => turn'.request = seen'.asked
    BY <1>0, <1>1, <1>2, <1>a, <1>c, SMTT(60) DEF Types
  <2>2. /\ turn'.pc \in {"send", "await", "track"} => turn'.calls # <<>> /\ turn'.request \in Request
        /\ turn'.pc = "dispatch" => seen'.asked + Len(turn'.calls) <= MaxRequests
        /\ turn'.pc \in {"send", "await", "track"} => seen'.asked + Len(turn'.calls) <= MaxRequests + 1
    BY <1>1, <1>2, <1>a, <1>b, <1>d, SMTT(60)
  <2>3. /\ ctx' \in {"live", "done"} /\ smu' \in {"free", "answer"} /\ token' \in BOOLEAN
        /\ mailbox' \in Seq(0 .. MaxRequests) /\ tracked' \in SUBSET Request /\ collected' \in Seq(Request)
        /\ answering' \in 0 .. MaxRequests /\ engine' \in Seq(Message) /\ router' \in Router
        /\ router'.pc # "listen" => router'.from \in Request
        /\ spawner' \in [Request -> Spawn]
        /\ \A r \in Request : spawner'[r].pc = "create" => spawner'[r].kind \in Kind
    BY <1>0, <1>2, SMTT(60) DEF Types, registry
  <2>4. /\ resident' \in BOOLEAN
        /\ children' \in [Request -> Kind \cup {"none"}] /\ mu' \in {"free", "client"}
        /\ sidecar' \in [Request -> Side] /\ client' \in Calling
        /\ client'.pc \in {"report", "join"} => client'.at \in Request
    BY <1>0, <1>2, SMTT(60) DEF Types, registry
  <2> QED BY <2>1, <2>2, <2>3, <2>4, SMTT(60) DEF Types
<1>4. Answers'
  BY <1>0, <1>1, <1>2, <1>a, UnreadIn DEF Answers, Closing, registry
<1>5. Closing'
  BY Frames, <1>2 DEF registry
<1>6. \A q \in Request : Requested(q)' = Requested(q)
  BY <1>2 DEF Requested
<1>7. Single'
  <2>1. \A i \in DOMAIN inbox'.confirm : ~inbox'.confirm[i].ok => sidecar[inbox'.confirm[i].to].status = "none"
    BY <1>0, <1>c DEF Single
  <2>2. turn'.pc # "send"
    BY <1>1
  <2> QED BY <1>0, <1>2, <1>6, <1>c, <2>1, <2>2 DEF Single, registry
<1>8. Ordered'
  <2>1. ASSUME NEW q \in Request, Underway(q)' PROVE GaveUpBy(q)'
    <3>1. Underway(q)
      BY <2>1, <1>2, <1>6, <1>c DEF Underway
    <3>2. CASE GaveUpBy(q)
      BY <3>2, <1>2 DEF GaveUpBy
    <3>3. CASE q = q0
      <4>1. q0 # c.to
        BY <3>3, <2>1, <1>6, <1>b, <1>c, <1>2 DEF Underway
      <4>2. PICK g \in seen.gaveUp : g <= c.to
        BY <4>1, <1>b DEF GaveUpBy
      <4>3. g <= q0
        BY <1>h
      <4> QED BY <4>3, <3>3, <1>2 DEF GaveUpBy
    <3> QED BY <3>1, <3>2, <3>3, <1>0, <1>a DEF Ordered, q0
  <2>2. AnswerIsOwn'
    BY <1>0, <1>2 DEF Ordered, AnswerIsOwn
  <2>3. c.to = q0 \/ \E g \in seen.gaveUp : g < q0
    <3> SUFFICES ASSUME c.to # q0 PROVE \E g \in seen.gaveUp : g < q0
      OBVIOUS
    <3>1. PICK g \in seen.gaveUp : g <= c.to
      BY <1>b DEF GaveUpBy
    <3>2. g < q0
      BY <3>1, <1>i, <1>h
    <3> QED BY <3>2
  <2>4. q0 <= seen.asked
    BY <1>d, <1>i
  <2>5. ASSUME NEW f \in ToSet(turn'.foreground)
        PROVE  f[1] <= seen.asked /\ (f[2] = f[1] \/ \E g \in seen.gaveUp : g < f[1])
    <3>1. CASE f \in ToSet(turn.foreground)
      BY <3>1, <1>0 DEF Ordered
    <3>2. CASE f = <<q0, c.to>>
      <4>1. f[1] = q0 /\ f[2] = c.to
        BY <3>2
      <4> QED BY <4>1, <2>3, <2>4
    <3> QED BY <3>1, <3>2, <1>g
  <2> QED BY <1>0, <1>1, <1>2, <2>1, <2>2, <2>5 DEF Ordered
<1>9. Results'
  BY <1>0, <1>2, <1>c DEF Results, Over
<1>10. Kinds'
  BY <1>1 DEF Kinds
<1>11. Strays'
  <2>1. \A q \in Request : Working(q)' = Working(q)
    BY Frames, <1>2 DEF registry
  <2>2. ASSUME NEW q \in Request, Working(q), Attended(q), seen.cancels = 0 PROVE Attended(q)'
    <3>0. <<q, q>> \in ToSet(turn.foreground) \/ q = q0
      BY <2>2 DEF Attended, q0
    <3>1. CASE <<q, q>> \in ToSet(turn.foreground)
      BY <3>1, <1>1, <1>g DEF Attended
    <3>2. CASE q = q0 /\ <<q, q>> \notin ToSet(turn.foreground)
      <4>1. c.to = q0
        <5>1. seen.gaveUp # {} => FALSE
          BY <2>2, <1>0, Ended DEF Strays, Working
        <5> QED BY <5>1, <1>b DEF GaveUpBy
      <4>2. c.ok /\ Head(turn.calls) = "foreground"
        <5>1. children[q] = "foreground" /\ sidecar[q].loop
          BY <2>2 DEF Working
        <5>2. children[q] \in {"none", Head(turn.calls)}
          BY <3>2, <1>0, <1>a DEF Kinds, q0
        <5> QED BY <5>1, <5>2, <4>1, <3>2, <1>b
      <4>3. <<q, q>> \in ToSet(turn'.foreground)
        BY <4>1, <4>2, <3>2, <1>g
      <4> QED BY <4>3, <1>1 DEF Attended
    <3> QED BY <3>0, <3>1, <3>2
  <2>3. seen.cancels \in Nat
    BY <1>0 DEF Types, Seen
  <2> QED BY <1>0, <1>2, <1>1, <2>1, <2>2, <2>3 DEF Strays
<1> QED BY <1>3, <1>4, <1>5, <1>7, <1>8, <1>9, <1>10, <1>11 DEF IInv

\* A request is given up by a cancellation or by the end of the session.
LEMMA GiveUpRequestStep ==
    ASSUME IInv, GiveUpRequest
    PROVE  IInv'
<1>0. Types /\ Answers /\ Closing /\ Strays /\ Single /\ Ordered
  BY DEF IInv
<1>2. UNCHANGED <<ctx, smu, mailbox, tracked, collected, answering, inbox, engine,
                  router, spawner, registry, sidecar, client>>
  BY DEF GiveUpRequest
<1> DEFINE q0 == turn.request
           t == CallOver("dispatch")
<1>a. /\ turn.pc \in {"send", "await"} /\ seen' = [seen EXCEPT !.gaveUp = @ \cup {q0}]
      /\ \/ token /\ token' = FALSE /\ turn' = [t EXCEPT !.canceled = TRUE]
         \/ ctx = "done" /\ turn' = t /\ token' = token
  BY DEF GiveUpRequest, Asking
<1>d. seen \in Seen /\ q0 \in Request /\ q0 = seen.asked /\ seen.cancels \in Nat
  BY <1>0, <1>a DEF Types, Seen
<1>b. /\ t \in Turn /\ t.pc = "dispatch" /\ t.canceled = turn.canceled
      /\ t.foreground = turn.foreground
      /\ t.unread = turn.unread /\ t.request = 0
      /\ seen.asked + Len(t.calls) <= MaxRequests
  BY <1>0, <1>a, CallIsOver
<1> HIDE DEF t
<1>c. seen.cancels > 0 \/ (ctx = "done" /\ turn' = t /\ token' = token)
  BY <1>0, <1>a, <1>d DEF Strays
<1>1. /\ turn' \in Turn /\ turn'.pc = "dispatch" /\ turn'.foreground = turn.foreground
      /\ turn'.unread = turn.unread
      /\ seen.asked + Len(turn'.calls) <= MaxRequests
      /\ seen.cancels = 0 => turn'.canceled = turn.canceled
  <2>1. CASE turn' = [t EXCEPT !.canceled = TRUE]
    <3>1. /\ turn' \in Turn /\ turn'.pc = "dispatch" /\ turn'.foreground = t.foreground
          /\ turn'.unread = t.unread /\ turn'.calls = t.calls
      BY <2>1, <1>b DEF Turn
    <3> QED BY <3>1, <1>b, <1>c
  <2>2. CASE turn' = t
    BY <1>b, <2>2
  <2> QED BY <1>a, <2>1, <2>2
<1>e. /\ seen' \in Seen /\ seen'.told = seen.told /\ seen'.background = seen.background
      /\ seen'.asked = seen.asked /\ seen'.gaveUp = seen.gaveUp \cup {q0} /\ seen'.cancels = seen.cancels
      /\ seen'.late = seen.late /\ seen'.answers = seen.answers
  BY <1>a, <1>d DEF Seen
<1> HIDE DEF q0
<1>g. token' \in BOOLEAN
  BY <1>0, <1>a DEF Types
<1>3. Types'
  BY <1>0, <1>1, <1>e, <1>g, <1>2, SMTT(30) DEF Types, registry
<1>4. Answers'
  BY <1>0, <1>1, <1>2, <1>a, <1>e, UnreadIn DEF Answers, Closing, registry
<1>5. Closing' /\ Results'
  BY Frames, <1>2 DEF registry
<1>6. \A q \in Request : Requested(q)' = Requested(q) /\ Confirmed(q)' = Confirmed(q) /\ Underway(q)' = Underway(q)
  BY Frames, <1>2
<1>7. Single'
  BY <1>0, <1>1, <1>2, <1>e, <1>6 DEF Single, registry
<1>8. Ordered'
  <2>0. q0 <= q0 /\ q0 <= seen.asked
    BY <1>d, Numbers
  <2>1. ASSUME NEW q \in Request, Underway(q)' PROVE GaveUpBy(q)'
    <3>1. GaveUpBy(q) \/ q = q0
      BY <2>1, <1>6, <1>0 DEF Ordered, q0
    <3> QED BY <3>1, <2>0, <1>e DEF GaveUpBy
  <2>2. AnswerIsOwn'
    BY <1>0, <1>e DEF Ordered, AnswerIsOwn
  <2>3. \A g \in seen'.gaveUp : g <= seen'.asked
    BY <2>0, <1>0, <1>e DEF Ordered
  <2> QED BY <2>1, <2>2, <2>3, <1>0, <1>1, <1>e DEF Ordered
<1>9. Kinds'
  BY <1>1 DEF Kinds
<1>10. Strays'
  <2>1. \A q \in Request : Working(q)' = Working(q)
    BY Frames, <1>2 DEF registry
  <2>2. seen.cancels = 0 => \A q \in Request : ~Working(q)
    BY <1>c, <1>0, Ended, <1>d DEF Working
  <2> QED BY <1>0, <1>1, <1>2, <1>c, <1>d, <1>e, <2>1, <2>2 DEF Strays
<1> QED BY <1>3, <1>4, <1>5, <1>7, <1>8, <1>9, <1>10 DEF IInv

-----------------------------------------------------------------------------
(* Answers on their way *)

\* What a step leaves as it is when it leaves the turn alone.
LEMMA Still ==
    ASSUME IInv, turn' = turn
    PROVE  /\ UNCHANGED <<engine, spawner, children>> => Kinds'
           /\ UNCHANGED <<token, client, ctx, children, sidecar>>
                /\ seen'.cancels = seen.cancels /\ seen'.gaveUp = seen.gaveUp /\ seen'.late = seen.late
              => Strays'
           /\ (\A q \in Request : Underway(q)' => Underway(q))
                /\ seen'.asked = seen.asked /\ seen'.gaveUp = seen.gaveUp /\ seen'.answers = seen.answers
              => Ordered'
           /\ UNCHANGED <<engine, spawner, sidecar, children>> /\ inbox'.confirm = inbox.confirm
                /\ seen'.asked = seen.asked
              => Single' /\ \A q \in Request : Underway(q)' = Underway(q)
           /\ UNCHANGED <<answering, smu, tracked, resident, mailbox>>
                /\ seen'.told = seen.told /\ seen'.background = seen.background
              => Answers'
<1>1. UNCHANGED <<engine, spawner, children>> => Kinds'
  BY DEF IInv, Kinds
<1>2. ASSUME UNCHANGED <<token, client, ctx, children, sidecar>>,
             seen'.cancels = seen.cancels, seen'.gaveUp = seen.gaveUp, seen'.late = seen.late
      PROVE  Strays'
  BY <1>2 DEF IInv, Strays, Working, Attended
<1>3. ASSUME \A q \in Request : Underway(q)' => Underway(q),
             seen'.asked = seen.asked, seen'.gaveUp = seen.gaveUp, seen'.answers = seen.answers
      PROVE  Ordered'
  <2>1. AnswerIsOwn'
    BY <1>3 DEF IInv, Ordered, AnswerIsOwn
  <2>2. \A q \in Request : GaveUpBy(q)' = GaveUpBy(q)
    BY <1>3 DEF GaveUpBy
  <2> QED BY <1>3, <2>1, <2>2 DEF IInv, Ordered
<1>4. ASSUME UNCHANGED <<engine, spawner, sidecar, children>>, inbox'.confirm = inbox.confirm,
             seen'.asked = seen.asked
      PROVE  Single' /\ \A q \in Request : Underway(q)' = Underway(q)
  <2>1. \A q \in Request : Requested(q)' = Requested(q) /\ Confirmed(q)' = Confirmed(q)
    BY <1>4 DEF Requested, Confirmed
  <2> QED BY <1>4, <2>1 DEF IInv, Single, Underway
<1>5. ASSUME UNCHANGED <<answering, smu, tracked, resident, mailbox>>,
             seen'.told = seen.told, seen'.background = seen.background
      PROVE  Answers'
  BY <1>5 DEF IInv, Answers
<1> QED BY <1>1, <1>2, <1>3, <1>4, <1>5

\* The results a wait has collected are of sidecars that are over.
LEMMA HandleResultStep ==
    ASSUME IInv, HandleResult
    PROVE  IInv'
<1>0. Types /\ Results
  BY DEF IInv
<1>2. UNCHANGED <<turn, ctx, smu, token, mailbox, tracked, linger, answering, engine,
                  router, spawner, registry, sidecar, client, seen>>
  BY DEF HandleResult
<1>a. /\ inbox.result # <<>> /\ inbox' = [inbox EXCEPT !.result = Tail(inbox.result)]
      /\ collected' \in {collected, Append(collected, Head(inbox.result))}
  BY DEF HandleResult, TakeFrom
<1> DEFINE s == inbox.result
           x == Head(s)
           t == Tail(s)
<1>b. inbox \in Inbox /\ s \in Seq(Request) /\ collected \in Seq(Request)
  BY <1>0 DEF Types, Inbox
<1>c. /\ t \in Seq(Request) /\ x \in Request /\ 1 \in DOMAIN s /\ x = s[1]
      /\ \A i \in DOMAIN t : i + 1 \in DOMAIN s /\ t[i] = s[i + 1]
  BY <1>a, <1>b, Taken
<1>d. Over(x) /\ \A i \in DOMAIN t : Over(t[i])
  BY <1>0, <1>c DEF Results
<1> HIDE DEF x, t
<1>e. inbox' \in Inbox /\ inbox'.confirm = inbox.confirm /\ inbox'.result = t
  BY <1>a, <1>b, <1>c DEF Inbox, t
<1>f. collected' \in Seq(Request) /\ \A i \in DOMAIN collected' : Over(collected'[i])
  <2>1. CASE collected' = collected
    BY <2>1, <1>b, <1>0 DEF Results
  <2>2. CASE collected' = Append(collected, x)
    <3>1. /\ collected' \in Seq(Request)
          /\ \A i \in DOMAIN collected' : (i \in DOMAIN collected /\ collected'[i] = collected[i]) \/ collected'[i] = x
      BY <2>2, <1>b, <1>c, Grown
    <3> QED BY <3>1, <1>d, <1>0 DEF Results
  <2> QED BY <1>a, <2>1, <2>2 DEF x
<1>3. Types'
  BY <1>0, <1>e, <1>f, <1>2, SMTT(30) DEF Types, registry
<1>4. Results'
  BY <1>0, <1>d, <1>e, <1>f, <1>2 DEF Results, Over
<1>5. Closing'
  BY Frames, <1>2 DEF registry
<1>6. Single' /\ \A q \in Request : Underway(q)' = Underway(q)
  BY Still, <1>2, <1>e DEF registry
<1>7. Ordered' /\ Kinds' /\ Strays' /\ Answers'
  BY Still, <1>2, <1>6 DEF registry
<1> QED BY <1>3, <1>4, <1>5, <1>6, <1>7 DEF IInv

\* A message an unsubscribed handler takes is lost, and nothing else changes.
LEMMA LingerTakesStep ==
    ASSUME IInv, NEW k \in {"confirm", "result"}, LingerTakes(k)
    PROVE  IInv'
<1>0. Types /\ Results /\ Single
  BY DEF IInv
<1>2. UNCHANGED <<turn, ctx, smu, token, mailbox, tracked, collected, linger, answering, engine,
                  router, spawner, registry, sidecar, client>>
  BY DEF LingerTakes, caller
<1>a. seen' = [seen EXCEPT !.stolen = TRUE] /\ seen \in Seen /\ inbox \in Inbox
  BY <1>0 DEF LingerTakes, Types
<1>b. /\ seen' \in Seen /\ seen'.told = seen.told /\ seen'.background = seen.background
      /\ seen'.asked = seen.asked /\ seen'.gaveUp = seen.gaveUp /\ seen'.cancels = seen.cancels
      /\ seen'.late = seen.late /\ seen'.answers = seen.answers
  BY <1>a DEF Seen
<1>5. Closing'
  BY Frames, <1>2 DEF registry
<1>6. Kinds' /\ Strays' /\ Answers'
  BY Still, <1>2, <1>b DEF registry
<1>7. CASE k = "confirm"
  <2>1. inbox.confirm # <<>> /\ inbox' = [inbox EXCEPT !.confirm = Tail(inbox.confirm)]
    BY <1>7 DEF LingerTakes, TakeFrom
  <2>2. /\ inbox' \in Inbox /\ inbox'.result = inbox.result /\ inbox'.background = inbox.background
        /\ \A q \in Request : Confirmed(q)' => Confirmed(q)
        /\ \A i, j \in DOMAIN inbox'.confirm : inbox'.confirm[i].to = inbox'.confirm[j].to => i = j
        /\ \A i \in DOMAIN inbox'.confirm : i + 1 \in DOMAIN inbox.confirm
                                           /\ inbox'.confirm[i] = inbox.confirm[i + 1]
    BY <2>1, FewerConfirmations
  <2>3. Types'
    BY <1>0, <1>b, <2>2, <1>2, SMTT(30) DEF Types, registry
  <2>4. Results'
    BY <1>0, <1>2, <2>2 DEF Results, Over
  <2>5. \A q \in Request : Requested(q)' = Requested(q) /\ (Underway(q)' => Underway(q))
    BY <1>2, <2>2 DEF Requested, Underway
  <2>6. Ordered'
    BY Still, <1>2, <1>b, <2>5
  <2>7. Single'
    <3>1. \A i \in DOMAIN inbox'.confirm : ~inbox'.confirm[i].ok => sidecar[inbox'.confirm[i].to].status = "none"
      BY <1>0, <2>2 DEF Single
    <3> QED BY <1>0, <1>2, <1>b, <2>2, <2>5, <3>1 DEF Single, registry
  <2> QED BY <1>5, <1>6, <2>3, <2>4, <2>6, <2>7 DEF IInv
<1>8. CASE k = "result"
  <2>1. inbox.result # <<>> /\ inbox' = [inbox EXCEPT !.result = Tail(inbox.result)]
    BY <1>8 DEF LingerTakes, TakeFrom
  <2> DEFINE t == Tail(inbox.result)
  <2>2. /\ t \in Seq(Request)
        /\ \A i \in DOMAIN t : i + 1 \in DOMAIN inbox.result /\ t[i] = inbox.result[i + 1]
    BY <2>1, <1>a, Taken DEF Inbox
  <2>3. \A i \in DOMAIN t : Over(t[i])
    BY <1>0, <2>2 DEF Results
  <2> HIDE DEF t
  <2>4. inbox' \in Inbox /\ inbox'.confirm = inbox.confirm /\ inbox'.result = t
    BY <1>a, <2>1, <2>2 DEF Inbox, t
  <2>5. Types'
    BY <1>0, <1>b, <2>4, <1>2, SMTT(30) DEF Types, registry
  <2>6. Results'
    BY <1>0, <1>2, <2>3, <2>4 DEF Results, Over
  <2>7. Single' /\ \A q \in Request : Underway(q)' = Underway(q)
    BY Still, <1>2, <1>b, <2>4 DEF registry
  <2>8. Ordered'
    BY Still, <1>2, <1>b, <2>7
  <2> QED BY <1>5, <1>6, <2>5, <2>6, <2>7, <2>8 DEF IInv
<1> QED BY <1>7, <1>8

\* A background answer is held under s.mu while it waits.
LEMMA HandleBackgroundStep ==
    ASSUME IInv, HandleBackground
    PROVE  IInv'
<1>0. Types /\ Results /\ Answers
  BY DEF IInv
<1>2. UNCHANGED <<turn, ctx, token, mailbox, tracked, collected, linger, engine, router,
                  spawner, registry, sidecar, client, seen>>
  BY DEF HandleBackground
<1> DEFINE s == inbox.background
<1>a. /\ s # <<>> /\ inbox' = [inbox EXCEPT !.background = Tail(s)] /\ answering = 0 /\ smu = "free"
      /\ \/ answering' = Head(s) /\ Head(s) \in tracked /\ smu' = "answer"
         \/ answering' = 0 /\ smu' = "free"
  BY DEF HandleBackground, TakeFrom
<1>b. inbox \in Inbox /\ s \in Seq(Request)
  BY <1>0 DEF Types, Inbox
<1>c. Tail(s) \in Seq(Request) /\ Head(s) \in Request
  BY <1>a, <1>b, Taken
<1>d. inbox' \in Inbox /\ inbox'.confirm = inbox.confirm /\ inbox'.result = inbox.result
  BY <1>a, <1>b, <1>c DEF Inbox
<1>e. answering' \in 0 .. MaxRequests /\ smu' \in {"free", "answer"}
  BY <1>a, <1>c, Numbers
<1>3. Types'
  BY <1>0, <1>d, <1>e, <1>2, SMTT(30) DEF Types, registry
<1>4. Results'
  BY <1>0, <1>d, <1>2 DEF Results, Over
<1>5. Closing'
  BY Frames, <1>2 DEF registry
<1>6. Single' /\ \A q \in Request : Underway(q)' = Underway(q)
  BY Still, <1>2, <1>d DEF registry
<1>7. Ordered' /\ Kinds' /\ Strays'
  BY Still, <1>2, <1>6 DEF registry
<1>8. Answers'
  BY <1>0, <1>2, <1>a DEF Answers, registry
<1> QED BY <1>3, <1>4, <1>5, <1>6, <1>7, <1>8 DEF IInv

\* A step that moves only a background answer.
LEMMA AnswerStep ==
    ASSUME IInv, Answers', mailbox' \in Seq(0 .. MaxRequests), tracked' \subseteq Request,
           answering' \in 0 .. MaxRequests, smu' \in {"free", "answer"},
           UNCHANGED <<turn, ctx, token, collected, inbox, engine, router,
                       spawner, registry, sidecar, client>>,
           seen' \in Seen, seen'.asked = seen.asked, seen'.gaveUp = seen.gaveUp,
           seen'.cancels = seen.cancels, seen'.late = seen.late, seen'.answers = seen.answers
    PROVE  IInv'
<1>0. Types
  BY DEF IInv
<1>3. Types'
  BY <1>0, SMTT(30) DEF Types, registry
<1>5. Closing' /\ Results'
  BY Frames DEF registry
<1>6. Single' /\ \A q \in Request : Underway(q)' = Underway(q)
  BY Still DEF registry
<1>7. Ordered' /\ Kinds' /\ Strays'
  BY Still, <1>6 DEF registry
<1> QED BY <1>3, <1>5, <1>6, <1>7 DEF IInv

LEMMA DeliverBackgroundStep ==
    ASSUME IInv, DeliverBackground
    PROVE  IInv'
<1>0. Types /\ Answers
  BY DEF IInv
<1>2. UNCHANGED <<turn, ctx, token, collected, linger, inbox, engine, router,
                  spawner, registry, sidecar, client, seen>>
  BY DEF DeliverBackground
<1>a. /\ answering # 0 /\ mailbox' = Append(mailbox, answering) /\ tracked' = tracked \ {answering}
      /\ answering' = 0 /\ smu' = "free"
  BY DEF DeliverBackground
<1>b. /\ mailbox \in Seq(0 .. MaxRequests) /\ answering \in 0 .. MaxRequests /\ tracked \subseteq Request
      /\ seen \in Seen
  BY <1>0 DEF Types
<1>c. mailbox' \in Seq(0 .. MaxRequests) /\ ToSet(mailbox') = ToSet(mailbox) \cup {answering}
  BY <1>a, <1>b, Members, Grown
<1>d. Answers'
  BY <1>0, <1>a, <1>c, <1>2 DEF Answers, registry
<1> QED BY <1>2, <1>a, <1>b, <1>c, <1>d, Numbers, AnswerStep

LEMMA DropBackgroundStep ==
    ASSUME IInv, DropBackground
    PROVE  IInv'
<1>0. Types /\ Answers
  BY DEF IInv
<1>2. UNCHANGED <<turn, ctx, token, mailbox, tracked, collected, linger, inbox, engine, router,
                  spawner, registry, sidecar, client, seen>>
  BY DEF DropBackground
<1>a. answering' = 0 /\ smu' = "free"
  BY DEF DropBackground
<1>b. mailbox \in Seq(0 .. MaxRequests) /\ tracked \subseteq Request /\ seen \in Seen
  BY <1>0 DEF Types
<1>d. Answers'
  BY <1>0, <1>a, <1>2 DEF Answers, registry
<1> QED BY <1>2, <1>a, <1>b, <1>d, Numbers, AnswerStep

LEMMA SendUserStep ==
    ASSUME IInv, SendUser
    PROVE  IInv'
<1>0. Types /\ Answers
  BY DEF IInv
<1>2. UNCHANGED <<turn, ctx, smu, token, tracked, collected, linger, answering, inbox,
                  engine, router, spawner, registry, sidecar, client>>
  BY DEF SendUser
<1>a. mailbox' = Append(mailbox, 0) /\ seen' = [seen EXCEPT !.user = @ + 1]
  BY DEF SendUser
<1>b. /\ mailbox \in Seq(0 .. MaxRequests) /\ answering \in 0 .. MaxRequests /\ tracked \subseteq Request
      /\ seen \in Seen /\ smu \in {"free", "answer"} /\ seen.user \in Nat
  BY <1>0 DEF Types, Seen
<1>c. mailbox' \in Seq(0 .. MaxRequests) /\ ToSet(mailbox') = ToSet(mailbox) \cup {0}
  <2>0. 0 \in 0 .. MaxRequests
    BY Numbers
  <2>1. mailbox' \in Seq(0 .. MaxRequests)
    BY <1>a, <1>b, <2>0
  <2>2. ToSet(mailbox') = ToSet(mailbox) \cup {0}
    BY <1>a, <1>b, <2>0, Members, SMTT(30)
  <2> QED BY <2>1, <2>2
<1>e. seen.user + 1 \in Nat
  BY <1>b
<1>f. /\ seen' \in Seen /\ seen'.told = seen.told /\ seen'.background = seen.background
      /\ seen'.asked = seen.asked /\ seen'.gaveUp = seen.gaveUp /\ seen'.cancels = seen.cancels
      /\ seen'.late = seen.late /\ seen'.answers = seen.answers
  BY <1>a, <1>b, <1>e DEF Seen
<1>d. Answers'
  BY <1>0, <1>c, <1>f, <1>2 DEF Answers, registry
<1> QED BY <1>2, <1>b, <1>c, <1>d, <1>f, AnswerStep

-----------------------------------------------------------------------------
(* The engine *)

\* The engine relays results of sidecars that are over.
LEMMA RelayStep ==
    ASSUME IInv, Relay
    PROVE  IInv'
<1>0. Types /\ Results
  BY DEF IInv
<1>2. UNCHANGED <<turn, ctx, smu, token, mailbox, tracked, collected, linger, answering,
                  engine, spawner, registry, sidecar, client, seen>>
  BY DEF Relay, caller
<1> DEFINE k == router.pc
           s == inbox[k]
           x == router.from
<1>a. /\ router.pc \in {"result", "background"} /\ router' = [pc |-> "listen", from |-> 0]
      /\ inbox' \in {inbox, [inbox EXCEPT ![k] = Append(s, x)]}
  BY DEF Relay, ToCaller
<1>b. inbox \in Inbox /\ x \in Request /\ s \in Seq(Request) /\ inbox.result \in Seq(Request) /\ Over(x)
  BY <1>0, <1>a DEF Types, Inbox, Results
<1>c. /\ Append(s, x) \in Seq(Request)
      /\ \A i \in DOMAIN Append(s, x) : (i \in DOMAIN s /\ Append(s, x)[i] = s[i]) \/ Append(s, x)[i] = x
  BY <1>b, Grown
<1>d. router' \in Router /\ router'.pc = "listen"
  BY <1>a, Numbers DEF Router
<1>e. /\ inbox' \in Inbox /\ inbox'.confirm = inbox.confirm
      /\ inbox'.result = inbox.result \/ (k = "result" /\ inbox'.result = Append(s, x))
  <2>1. CASE inbox' = inbox
    BY <2>1, <1>b
  <2>2. CASE k = "result" /\ inbox' = [inbox EXCEPT !.result = Append(s, x)]
    BY <2>2, <1>b, <1>c DEF Inbox
  <2>3. CASE k = "background" /\ inbox' = [inbox EXCEPT !.background = Append(s, x)]
    BY <2>3, <1>b, <1>c DEF Inbox
  <2> QED BY <1>a, <2>1, <2>2, <2>3
<1>3. Types'
  BY <1>0, <1>d, <1>e, <1>2, SMTT(30) DEF Types, registry
<1>4. Results'
  <2>1. \A q \in Request : Over(q)' = Over(q)
    BY <1>2 DEF Over
  <2>2. \A i \in DOMAIN inbox'.result : Over(inbox'.result[i])
    <3>1. CASE inbox'.result = inbox.result
      BY <3>1, <1>0 DEF Results
    <3>2. CASE k = "result" /\ inbox'.result = Append(s, x)
      BY <3>2, <1>0, <1>b, <1>c DEF Results
    <3> QED BY <1>e, <3>1, <3>2
  <2> QED BY <1>0, <1>2, <1>d, <2>2 DEF Results, Over
<1>5. Closing'
  BY Frames, <1>2 DEF registry
<1>6. Single' /\ \A q \in Request : Underway(q)' = Underway(q)
  BY Still, <1>2, <1>e DEF registry
<1>7. Ordered' /\ Kinds' /\ Strays' /\ Answers'
  BY Still, <1>2, <1>6 DEF registry
<1> QED BY <1>3, <1>4, <1>5, <1>6, <1>7 DEF IInv

\* What is left of the engine's messages.
LEMMA FewerMessages ==
    ASSUME IInv, engine # <<>>, engine' = Tail(engine)
    PROVE  /\ engine' \in Seq(Message) /\ Head(engine) \in Message
           /\ Head(engine).kind = "result" => Over(Head(engine).from)
           /\ Head(engine).kind \in Kind => Requested(Head(engine).from)
           /\ \A q \in Request : Requested(q)' =>
                Requested(q) /\ ~(Head(engine).kind \in Kind /\ q = Head(engine).from)
           /\ \A i, j \in DOMAIN engine' : engine'[i].kind \in Kind /\ engine'[j].kind \in Kind
                                          /\ engine'[i].from = engine'[j].from => i = j
           /\ \A i \in DOMAIN engine' : i + 1 \in DOMAIN engine /\ engine'[i] = engine[i + 1]
<1>1. engine \in Seq(Message)
  BY DEF IInv, Types
<1> DEFINE s == engine
           t == Tail(s)
           m == Head(s)
<1>2. /\ t \in Seq(Message) /\ m \in Message /\ 1 \in DOMAIN s /\ m = s[1] /\ DOMAIN t \subseteq Nat \ {0}
      /\ \A i \in DOMAIN t : i + 1 \in DOMAIN s /\ t[i] = s[i + 1]
  BY <1>1, Taken
<1> HIDE DEF t, m
<1>3. engine' = t
  BY DEF t
<1>4. \A i, j \in DOMAIN s : s[i].kind \in Kind /\ s[j].kind \in Kind /\ s[i].from = s[j].from => i = j
  BY DEF IInv, Single
<1>5. \A i, j \in DOMAIN t : t[i].kind \in Kind /\ t[j].kind \in Kind /\ t[i].from = t[j].from => i = j
  <2> SUFFICES ASSUME NEW i \in DOMAIN t, NEW j \in DOMAIN t,
                      t[i].kind \in Kind, t[j].kind \in Kind, t[i].from = t[j].from PROVE i = j
    OBVIOUS
  <2>1. i + 1 = j + 1
    BY <1>2, <1>4
  <2> QED BY <2>1, <1>2
<1>6. \A i \in DOMAIN t : ~(m.kind \in Kind /\ t[i].kind \in Kind /\ t[i].from = m.from)
  <2> SUFFICES ASSUME NEW i \in DOMAIN t, m.kind \in Kind, t[i].kind \in Kind, t[i].from = m.from PROVE FALSE
    OBVIOUS
  <2>1. i + 1 = 1
    BY <1>2, <1>4
  <2> QED BY <2>1, <1>2
<1>7. ASSUME NEW q \in Request, Requested(q)' PROVE Requested(q) /\ ~(m.kind \in Kind /\ q = m.from)
  <2>1. PICK i \in DOMAIN t : t[i].kind \in Kind /\ t[i].from = q
    BY <1>3, <1>7 DEF Requested
  <2> QED BY <1>2, <1>6, <2>1 DEF Requested
<1>8. m.kind = "result" => Over(m.from)
  BY <1>2 DEF IInv, Results
<1>9. m.kind \in Kind => Requested(m.from)
  BY <1>2 DEF Requested
<1>10. \A i \in DOMAIN engine' : i + 1 \in DOMAIN engine /\ engine'[i] = engine[i + 1]
  BY <1>2, <1>3
<1>11. \A i, j \in DOMAIN engine' : engine'[i].kind \in Kind /\ engine'[j].kind \in Kind
                                   /\ engine'[i].from = engine'[j].from => i = j
  BY <1>3, <1>5
<1> QED BY <1>2, <1>3, <1>7, <1>8, <1>9, <1>10, <1>11 DEF m

\* The router hands a request to its goroutine once.
LEMMA ListenStep ==
    ASSUME IInv, Listen
    PROVE  IInv'
<1>0. Types /\ Results /\ Single /\ Ordered /\ Kinds
  BY DEF IInv
<1>2. UNCHANGED <<turn, ctx, smu, token, mailbox, tracked, collected, linger, answering,
                  inbox, registry, sidecar, client, seen>>
  BY DEF Listen, caller
<1> DEFINE m == Head(engine)
           p == m.from
           made == [pc |-> "create", kind |-> m.kind]
<1>a. /\ router.pc = "listen" /\ engine # <<>> /\ engine' = Tail(engine)
      /\ \/ m.kind \in Kind /\ router' = router /\ spawner' = [spawner EXCEPT ![p] = made]
         \/ m.kind \notin Kind /\ spawner' = spawner /\ router' = router
         \/ /\ m.kind \notin Kind /\ m.kind # "status" /\ spawner' = spawner
            /\ \E k \in {"background", "result"} : router' = [pc |-> k, from |-> p]
  <2>1. CASE m.kind \in Kind
    BY <2>1 DEF Listen
  <2>2. CASE m.kind \notin Kind
    <3>1. /\ spawner' = spawner
          /\ router' = IF ~resident \/ children[p] = "none" \/ m.kind = "status" THEN router
                       ELSE [pc |-> IF children[p] = "background" THEN "background" ELSE "result", from |-> p]
      BY <2>2 DEF Listen
    <3> QED BY <3>1, <2>2 DEF Listen
  <2> QED BY <2>1, <2>2
<1>b. /\ engine' \in Seq(Message) /\ m \in Message
      /\ m.kind = "result" => Over(p)
      /\ m.kind \in Kind => Requested(p)
      /\ \A q \in Request : Requested(q)' => Requested(q) /\ ~(m.kind \in Kind /\ q = p)
      /\ \A i, j \in DOMAIN engine' : engine'[i].kind \in Kind /\ engine'[j].kind \in Kind
                                     /\ engine'[i].from = engine'[j].from => i = j
      /\ \A i \in DOMAIN engine' : i + 1 \in DOMAIN engine /\ engine'[i] = engine[i + 1]
  BY <1>a, FewerMessages
<1>m. 1 \in DOMAIN engine /\ m = engine[1]
  BY <1>0, <1>a, Taken DEF Types
<1> HIDE DEF m
<1>c. p \in Request /\ m.kind \in Kind \cup {"result", "status"}
  BY <1>b DEF Message
<1>d. /\ spawner \in [Request -> Spawn] /\ router \in Router
      /\ \A r \in Request : spawner[r].pc = "create" => spawner[r].kind \in Kind
  BY <1>0 DEF Types
<1> HIDE DEF p
<1>e. m.kind \in Kind => made \in Spawn /\ made.pc = "create" /\ made.kind = m.kind
  BY DEF Spawn
<1> HIDE DEF made
<1>f. /\ spawner' \in [Request -> Spawn]
      /\ \A r \in Request : spawner'[r] = spawner[r] \/ (r = p /\ m.kind \in Kind /\ spawner'[r] = made)
      /\ m.kind \in Kind => spawner'[p] = made
  BY <1>a, <1>c, <1>d, <1>e
<1>g. /\ router' \in Router
      /\ router'.pc # "listen" => router'.from = p /\ m.kind = "result"
  <2>1. CASE router' = router
    BY <1>a, <1>d, <2>1
  <2>2. ASSUME NEW k \in {"background", "result"}, router' = [pc |-> k, from |-> p],
               m.kind \notin Kind, m.kind # "status"
        PROVE  router' \in Router /\ router'.from = p /\ m.kind = "result"
    BY <2>2, <1>c, Numbers DEF Router
  <2> QED BY <1>a, <2>1, <2>2
<1>h. \A r \in Request : spawner'[r].pc = "create" => spawner'[r].kind \in Kind
  BY <1>d, <1>e, <1>f
<1>i. /\ engine' \in Seq(Message) /\ spawner' \in [Request -> Spawn] /\ router' \in Router
      /\ router'.pc # "listen" => router'.from \in Request
  BY <1>b, <1>c, <1>f, <1>g
<1>3. Types'
  BY <1>0, <1>i, <1>h, <1>2, SMTT(30) DEF Types, registry
<1>4. Results'
  <2>1. \A q \in Request : Over(q)' = Over(q)
    BY <1>2 DEF Over
  <2>2. router'.pc # "listen" => Over(router'.from)
    BY <1>b, <1>c, <1>g DEF Over
  <2>3. \A i \in DOMAIN engine' : engine'[i].kind = "result" => Over(engine'[i].from)
    BY <1>b, <1>0 DEF Results
  <2> QED BY <1>0, <1>2, <2>2, <2>3 DEF Results, Over
<1>5. Closing'
  BY Frames, <1>2 DEF registry
<1>6. \A q \in Request : Confirmed(q)' = Confirmed(q)
  BY <1>2 DEF Confirmed
<1>7. m.kind \in Kind => spawner[p].pc = "none" /\ ~Confirmed(p) /\ ~(p > seen.asked)
                        /\ ~(turn.pc = "send" /\ p = turn.request)
                        /\ sidecar[p].status = "none" /\ children[p] = "none"
  <2>1. m.kind \in Kind => spawner[p].pc = "none"
    BY <1>b, <1>c, <1>0 DEF Single
  <2> QED BY <2>1, <1>b, <1>c, <1>0 DEF Single
<1>8. Single'
  <2>1. ASSUME NEW q \in Request
        PROVE  /\ q > seen'.asked => spawner'[q].pc = "none" /\ ~Requested(q)'
               /\ turn'.pc = "send" /\ q = turn'.request => spawner'[q].pc = "none" /\ ~Requested(q)'
               /\ Requested(q)' => spawner'[q].pc = "none"
               /\ spawner'[q].pc # "done" => ~Confirmed(q)'
               /\ spawner'[q].pc \in {"none", "create", "refuse"} => sidecar'[q].status = "none" /\ children'[q] = "none"
    <3>1. CASE spawner'[q] = spawner[q]
      BY <3>1, <1>b, <1>2, <1>6, <1>0 DEF Single, registry
    <3>2. CASE q = p /\ m.kind \in Kind /\ spawner'[q] = made
      BY <3>2, <1>b, <1>e, <1>2, <1>6, <1>7, <1>0 DEF registry
    <3> QED BY <3>1, <3>2, <1>f
  <2> QED BY <2>1, <1>0, <1>2, <1>b DEF Single, registry
<1>9. Ordered'
  <2>1. \A q \in Request : Underway(q)' => Underway(q)
    BY <1>b, <1>e, <1>f, <1>6 DEF Underway
  <2> QED BY Still, <1>2, <2>1
<1>10. Kinds'
  <2>1. CASE turn.pc = "await"
    <3>1. turn.request \in Request
      BY <1>0, <2>1 DEF Types
    <3>2. \A i \in DOMAIN engine' : engine'[i].kind \in Kind /\ engine'[i].from = turn.request
                                  => engine'[i].kind = Head(turn.calls)
      BY <1>b, <1>0, <2>1 DEF Kinds
    <3>3. m.kind \in Kind /\ p = turn.request => m.kind = Head(turn.calls)
      BY <1>m, <1>0, <2>1 DEF Kinds, p
    <3>4. spawner'[turn.request].pc = "create" => spawner'[turn.request].kind = Head(turn.calls)
      BY <1>f, <1>e, <3>1, <3>3, <1>0, <2>1 DEF Kinds
    <3> QED BY <3>2, <3>4, <1>0, <1>2, <2>1 DEF Kinds, registry
  <2>2. CASE turn.pc # "await"
    BY <2>2, <1>2 DEF Kinds
  <2> QED BY <2>1, <2>2
<1>11. Strays' /\ Answers'
  BY Still, <1>2 DEF registry
<1> QED BY <1>3, <1>4, <1>5, <1>8, <1>9, <1>10, <1>11 DEF IInv

\* A foreground sidecar is created while its call awaits it, or after a
\* cancellation had begun; a caller that has ended is not in the engine.
LEMMA CreateSidecarStep ==
    ASSUME IInv, NEW r \in Request, CreateSidecar(r)
    PROVE  IInv'
<1>0. Types /\ Results /\ Single /\ Ordered /\ Kinds /\ Strays /\ Closing
  BY DEF IInv
<1>2. UNCHANGED <<turn, ctx, smu, token, mailbox, tracked, collected, answering,
                  inbox, engine, router, resident, mu, client>>
  BY DEF CreateSidecar, caller
<1>a. spawner[r].pc = "create" /\ mu = "free"
  BY DEF CreateSidecar
<1>b. /\ spawner \in [Request -> Spawn] /\ spawner[r].kind \in Kind /\ spawner[r] \in Spawn
      /\ children \in [Request -> Kind \cup {"none"}] /\ sidecar \in [Request -> Side] /\ seen \in Seen
      /\ seen.cancels \in Nat
      /\ \A q \in Request : spawner[q].pc = "create" => spawner[q].kind \in Kind
  BY <1>0, <1>a DEF Types, Seen
<1>c. client.op = "none" /\ client.pc = "pick"
  BY <1>0, <1>a DEF Closing
<1>d. \A q \in Request : Requested(q)' = Requested(q) /\ Confirmed(q)' = Confirmed(q)
  BY <1>2 DEF Requested, Confirmed
<1>e. ~Confirmed(r) /\ ~Requested(r) /\ sidecar[r].status = "none" /\ ~(r > seen.asked)
      /\ ~(turn.pc = "send" /\ r = turn.request) /\ Underway(r)
  BY <1>0, <1>a DEF Single, Underway
<1>3. CASE /\ resident /\ spawner' = [spawner EXCEPT ![r].pc = "confirm"]
           /\ children' = [children EXCEPT ![r] = spawner[r].kind]
           /\ sidecar' = [sidecar EXCEPT ![r] = [status |-> "busy", todo |-> <<>>, loop |-> TRUE,
                                                 live |-> TRUE, resident |-> TRUE]]
           /\ seen' = IF spawner[r].kind = "foreground" /\ seen.cancels > 0
                      THEN [seen EXCEPT !.late = @ \cup {r}] ELSE seen
  <2> DEFINE new == [status |-> "busy", todo |-> <<>>, loop |-> TRUE, live |-> TRUE, resident |-> TRUE]
             kind == spawner[r].kind
  <2>1. new \in Side /\ new.status = "busy" /\ new.todo = <<>> /\ new.loop /\ new.live /\ new.resident
    BY DEF Side
  <2> HIDE DEF new
  <2>2. /\ sidecar' \in [Request -> Side] /\ sidecar'[r] = new
        /\ \A q \in Request : q # r => sidecar'[q] = sidecar[q]
    BY <1>3, <1>b, <2>1 DEF new
  <2>3. /\ spawner' \in [Request -> Spawn] /\ spawner'[r].pc = "confirm"
        /\ \A q \in Request : q # r => spawner'[q] = spawner[q]
    BY <1>3, <1>b DEF Spawn
  <2>4. /\ children' \in [Request -> Kind \cup {"none"}] /\ children'[r] = kind /\ kind \in Kind
        /\ \A q \in Request : q # r => children'[q] = children[q]
    BY <1>3, <1>b
  <2>5. /\ seen' \in Seen /\ seen'.told = seen.told /\ seen'.background = seen.background
        /\ seen'.asked = seen.asked /\ seen'.gaveUp = seen.gaveUp /\ seen'.cancels = seen.cancels
        /\ seen'.answers = seen.answers /\ seen.late \subseteq seen'.late
        /\ kind = "foreground" /\ seen.cancels > 0 => r \in seen'.late
    <3>1. CASE seen' = seen /\ ~(kind = "foreground" /\ seen.cancels > 0)
      BY <3>1, <1>b
    <3>2. CASE seen' = [seen EXCEPT !.late = @ \cup {r}]
      BY <3>2, <1>b DEF Seen
    <3> QED BY <1>3, <3>1, <3>2
  <2>6. \A q \in Request : Underway(q)' = Underway(q)
    BY <1>a, <1>d, <2>3 DEF Underway
  <2>7. \A q \in Request : Over(q) => Over(q)' /\ q # r
    BY <1>e, <2>2 DEF Over
  <2>8. Types'
    <3>1. \A q \in Request : spawner'[q].pc = "create" => spawner'[q].kind \in Kind
      BY <1>b, <2>3
    <3> QED BY <1>0, <1>2, <2>2, <2>3, <2>4, <2>5, <3>1, SMTT(30) DEF Types
  <2>9. Answers' /\ Ordered'
    BY Still, <1>2, <2>5, <2>6
  <2>10. Closing'
    BY <1>0, <1>2, <1>3, <1>c, <2>1, <2>2, <2>4 DEF Closing
  <2>11. Single'
    <3>1. \A i \in DOMAIN inbox.confirm : inbox.confirm[i].to # r
      BY <1>e DEF Confirmed
    <3>0. inbox.confirm \in Seq(Confirmation)
      BY <1>0 DEF Types, Inbox
    <3>5. \A i \in DOMAIN inbox.confirm : inbox.confirm[i] \in Confirmation
      BY <3>0
    <3>6. \A x \in Confirmation : x.to \in Request
      BY DEF Confirmation
    <3>4. \A i \in DOMAIN inbox.confirm : inbox.confirm[i].to \in Request
      BY <3>5, <3>6
    <3>2. \A i \in DOMAIN inbox'.confirm : ~inbox'.confirm[i].ok => sidecar'[inbox'.confirm[i].to].status = "none"
      BY <3>1, <3>4, <1>0, <1>2, <2>2 DEF Single
    <3>3. ASSUME NEW q \in Request
          PROVE  /\ q > seen'.asked => spawner'[q].pc = "none" /\ ~Requested(q)'
                 /\ turn'.pc = "send" /\ q = turn'.request => spawner'[q].pc = "none" /\ ~Requested(q)'
                 /\ Requested(q)' => spawner'[q].pc = "none"
                 /\ spawner'[q].pc # "done" => ~Confirmed(q)'
                 /\ spawner'[q].pc \in {"none", "create", "refuse"} => sidecar'[q].status = "none" /\ children'[q] = "none"
      <4>1. CASE q = r
        BY <4>1, <1>d, <1>e, <2>3, <2>5, <1>2
      <4>2. CASE q # r
        BY <4>2, <1>0, <1>2, <1>d, <2>2, <2>3, <2>4, <2>5 DEF Single
      <4> QED BY <4>1, <4>2
    <3> QED BY <1>0, <1>2, <3>2, <3>3 DEF Single
  <2>12. Results'
    <3>1. ASSUME NEW q \in Request
          PROVE  /\ sidecar'[q].todo # <<>> => Over(q)'
                 /\ sidecar'[q].loop \/ sidecar'[q].resident => sidecar'[q].status # "none"
                 /\ sidecar'[q].loop /\ sidecar'[q].status \in Concluded =>
                       client'.op # "none" /\ client'.pc = "report" /\ client'.at = q
      <4>1. CASE q = r
        BY <4>1, <2>1, <2>2 DEF Concluded
      <4>2. CASE q # r
        BY <4>2, <1>0, <1>2, <2>2 DEF Results, Over
      <4> QED BY <4>1, <4>2
    <3>0. engine \in Seq(Message)
      BY <1>0 DEF Types
    <3>7. \A i \in DOMAIN engine : engine[i] \in Message
      BY <3>0
    <3>8. \A x \in Message : x.from \in Request
      BY DEF Message
    <3>2. \A i \in DOMAIN engine : engine[i].kind = "result" => Over(engine[i].from) /\ engine[i].from \in Request
      BY <3>7, <3>8, <1>0 DEF Results
    <3>3. router.pc # "listen" => Over(router.from) /\ router.from \in Request
      BY <1>0 DEF Results, Types
    <3>4. \A i \in DOMAIN inbox.result : Over(inbox.result[i]) /\ inbox.result[i] \in Request
      BY <1>0 DEF Results, Types, Inbox
    <3>5. \A i \in DOMAIN collected : Over(collected[i]) /\ collected[i] \in Request
      BY <1>0 DEF Results, Types
    <3>6. \A q \in Request : Over(q) => sidecar'[q].status # "none" /\ ~sidecar'[q].loop
      BY <2>7 DEF Over
    <3> QED BY <1>2, <1>c, <3>1, <3>2, <3>3, <3>4, <3>5, <3>6 DEF Results, Over
  <2>13. Kinds'
    <3>1. turn.pc = "await" => children'[turn.request] \in {"none", Head(turn.calls)}
      BY <1>0, <1>a, <2>4 DEF Kinds, Types
    <3>2. turn.pc = "await" /\ spawner'[turn.request].pc = "create" => spawner'[turn.request].kind = Head(turn.calls)
      BY <1>0, <1>a, <2>3 DEF Kinds, Types
    <3> QED BY <3>1, <3>2, <1>0, <1>2 DEF Kinds
  <2>14. Strays'
    <3>1. ASSUME NEW q \in Request, Working(q)'
          PROVE  IF seen'.cancels > 0 THEN q \in seen'.late \/ (client'.op = "cancel" /\ q \in client'.rest)
                 ELSE Attended(q)'
      <4>1. CASE q = r
        <5>1. kind = "foreground"
          BY <4>1, <3>1, <2>4 DEF Working
        <5>2. CASE seen.cancels > 0
          BY <5>1, <5>2, <4>1, <2>5
        <5>3. CASE ~(seen.cancels > 0)
          <6>1. seen.gaveUp = {}
            BY <5>3, <1>0, <1>c, <1>3 DEF Strays, Closing
          <6>2. turn.pc = "await" /\ turn.request = r
            BY <6>1, <1>0, <1>e DEF Ordered, GaveUpBy
          <6> QED BY <6>2, <5>3, <4>1, <1>2, <2>5 DEF Attended
        <5> QED BY <5>2, <5>3
      <4>2. CASE q # r
        <5>1. Working(q)
          BY <4>2, <3>1, <2>2, <2>4 DEF Working
        <5>2. Attended(q)' = Attended(q)
          BY <1>2 DEF Attended
        <5> QED BY <5>1, <5>2, <1>0, <1>2, <2>5 DEF Strays
      <4> QED BY <4>1, <4>2
    <3> QED BY <3>1, <1>0, <1>2, <2>5 DEF Strays
  <2> QED BY <2>8, <2>9, <2>10, <2>11, <2>12, <2>13, <2>14 DEF IInv
<1>4. CASE spawner' = [spawner EXCEPT ![r].pc = "refuse"] /\ UNCHANGED <<children, sidecar, seen>>
  <2>1. /\ spawner' \in [Request -> Spawn] /\ spawner'[r].pc = "refuse"
        /\ \A q \in Request : q # r => spawner'[q] = spawner[q]
    BY <1>4, <1>b DEF Spawn
  <2>2. \A q \in Request : spawner'[q].pc = "create" => spawner'[q].kind \in Kind
    BY <1>b, <2>1
  <2>3. Types'
    BY <1>0, <1>2, <1>4, <2>1, <2>2, SMTT(30) DEF Types
  <2>4. \A q \in Request : Underway(q)' = Underway(q)
    BY <1>a, <1>d, <2>1 DEF Underway
  <2>5. Answers' /\ Ordered' /\ Strays'
    BY Still, <1>2, <1>4, <2>4
  <2>6. Closing' /\ Results'
    BY Frames, <1>2, <1>4
  <2>7. Kinds'
    <3>1. turn.pc = "await" /\ spawner'[turn.request].pc = "create" => spawner'[turn.request].kind = Head(turn.calls)
      BY <1>0, <2>1 DEF Kinds, Types
    <3> QED BY <3>1, <1>0, <1>2, <1>4 DEF Kinds
  <2>8. Single'
    <3>3. ASSUME NEW q \in Request
          PROVE  /\ q > seen'.asked => spawner'[q].pc = "none" /\ ~Requested(q)'
                 /\ turn'.pc = "send" /\ q = turn'.request => spawner'[q].pc = "none" /\ ~Requested(q)'
                 /\ Requested(q)' => spawner'[q].pc = "none"
                 /\ spawner'[q].pc # "done" => ~Confirmed(q)'
                 /\ spawner'[q].pc \in {"none", "create", "refuse"} => sidecar'[q].status = "none" /\ children'[q] = "none"
      <4>1. CASE q = r
        BY <4>1, <1>0, <1>a, <1>d, <1>e, <2>1, <1>4, <1>2 DEF Single
      <4>2. CASE q # r
        BY <4>2, <1>0, <1>2, <1>d, <2>1, <1>4 DEF Single
      <4> QED BY <4>1, <4>2
    <3> QED BY <1>0, <1>2, <1>4, <3>3 DEF Single
  <2> QED BY <2>3, <2>5, <2>6, <2>7, <2>8 DEF IInv
<1> QED BY <1>3, <1>4 DEF CreateSidecar

\* A request is confirmed once, and refused only when nothing was created.
LEMMA ConfirmStep ==
    ASSUME IInv, NEW r \in Request, Confirm(r)
    PROVE  IInv'
<1>0. Types /\ Results /\ Single /\ Ordered /\ Kinds /\ Strays /\ Closing
  BY DEF IInv
<1>2. UNCHANGED <<turn, ctx, smu, token, mailbox, tracked, collected, answering,
                  engine, router, registry, sidecar, client, seen>>
  BY DEF Confirm, caller
<1> DEFINE m == [to |-> r, ok |-> spawner[r].pc = "confirm"]
           s == inbox.confirm
<1>a. /\ spawner[r].pc \in {"confirm", "refuse"}
      /\ spawner' = [spawner EXCEPT ![r] = [pc |-> "done", kind |-> "none"]]
      /\ inbox' \in {inbox, [inbox EXCEPT !.confirm = Append(s, m)]}
  BY DEF Confirm, ToCaller
<1>b. /\ spawner \in [Request -> Spawn] /\ inbox \in Inbox /\ s \in Seq(Confirmation)
      /\ \A q \in Request : spawner[q].pc = "create" => spawner[q].kind \in Kind
  BY <1>0 DEF Types, Inbox
<1>c. m \in Confirmation /\ m.to = r /\ (~m.ok => spawner[r].pc = "refuse")
  BY <1>a DEF Confirmation
<1> HIDE DEF m
<1>d. /\ Append(s, m) \in Seq(Confirmation)
      /\ \A i \in DOMAIN Append(s, m) : (i \in DOMAIN s /\ Append(s, m)[i] = s[i])
                                     \/ (i = Len(s) + 1 /\ Append(s, m)[i] = m)
  BY <1>b, <1>c, Grown
<1>e. /\ inbox' \in Inbox /\ inbox'.result = inbox.result
      /\ \A i \in DOMAIN inbox'.confirm : (i \in DOMAIN s /\ inbox'.confirm[i] = s[i])
                                        \/ (i = Len(s) + 1 /\ inbox'.confirm[i] = m)
  <2>1. CASE inbox' = inbox
    BY <2>1, <1>b
  <2>2. CASE inbox' = [inbox EXCEPT !.confirm = Append(s, m)]
    <3>1. inbox' \in Inbox /\ inbox'.result = inbox.result /\ inbox'.confirm = Append(s, m)
      BY <2>2, <1>b, <1>d DEF Inbox
    <3> QED BY <3>1, <1>d
  <2> QED BY <1>a, <2>1, <2>2
<1>f. /\ spawner' \in [Request -> Spawn] /\ spawner'[r].pc = "done"
      /\ \A q \in Request : q # r => spawner'[q] = spawner[q]
  BY <1>a, <1>b DEF Spawn
<1>g. ~Confirmed(r) /\ ~Requested(r) /\ ~(r > seen.asked) /\ ~(turn.pc = "send" /\ r = turn.request)
      /\ (spawner[r].pc = "refuse" => sidecar[r].status = "none") /\ Underway(r)
  BY <1>0, <1>a DEF Single, Underway
<1>h. \A q \in Request : Requested(q)' = Requested(q) /\ (Confirmed(q)' => Confirmed(q) \/ q = r)
  BY <1>2, <1>c, <1>e DEF Requested, Confirmed
<1>3. Types'
  <2>1. \A q \in Request : spawner'[q].pc = "create" => spawner'[q].kind \in Kind
    BY <1>b, <1>f
  <2> QED BY <1>0, <1>2, <1>e, <1>f, <2>1, SMTT(30) DEF Types, registry
<1>4. Answers' /\ Strays'
  BY Still, <1>2 DEF registry
<1>5. Closing'
  BY Frames, <1>2 DEF registry
<1>6. Results'
  BY <1>0, <1>2, <1>e DEF Results, Over
<1>7. Ordered'
  <2>1. \A q \in Request : Underway(q)' => Underway(q)
    BY <1>f, <1>g, <1>h DEF Underway
  <2> QED BY Still, <1>2, <2>1
<1>8. Kinds'
  <2>1. turn.pc = "await" /\ spawner'[turn.request].pc = "create" => spawner'[turn.request].kind = Head(turn.calls)
    BY <1>0, <1>f DEF Kinds, Types
  <2> QED BY <2>1, <1>0, <1>2 DEF Kinds, registry
<1>9. Single'
  <2>1. \A i, j \in DOMAIN inbox'.confirm : inbox'.confirm[i].to = inbox'.confirm[j].to => i = j
    BY <1>0, <1>c, <1>e, <1>g DEF Single, Confirmed
  <2>2. \A i \in DOMAIN inbox'.confirm : ~inbox'.confirm[i].ok => sidecar[inbox'.confirm[i].to].status = "none"
    BY <1>0, <1>c, <1>e, <1>g DEF Single
  <2>3. ASSUME NEW q \in Request
        PROVE  /\ q > seen'.asked => spawner'[q].pc = "none" /\ ~Requested(q)'
               /\ turn'.pc = "send" /\ q = turn'.request => spawner'[q].pc = "none" /\ ~Requested(q)'
               /\ Requested(q)' => spawner'[q].pc = "none"
               /\ spawner'[q].pc # "done" => ~Confirmed(q)'
               /\ spawner'[q].pc \in {"none", "create", "refuse"} => sidecar'[q].status = "none" /\ children'[q] = "none"
    <3>1. CASE q = r
      BY <3>1, <1>2, <1>f, <1>g, <1>h
    <3>2. CASE q # r
      BY <3>2, <1>0, <1>2, <1>f, <1>h DEF Single, registry
    <3> QED BY <3>1, <3>2
  <2> QED BY <1>0, <1>2, <2>1, <2>2, <2>3 DEF Single, registry
<1> QED BY <1>3, <1>4, <1>5, <1>6, <1>7, <1>8, <1>9 DEF IInv

-----------------------------------------------------------------------------
(* The sidecars, and the client that stops them *)

\* What the channels name are requests.
LEMMA Elements ==
    ASSUME Types
    PROVE  /\ \A i \in DOMAIN engine : engine[i].from \in Request
           /\ \A i \in DOMAIN inbox.confirm : inbox.confirm[i].to \in Request
           /\ \A i \in DOMAIN inbox.result : inbox.result[i] \in Request
           /\ \A i \in DOMAIN collected : collected[i] \in Request
<1>1. /\ engine \in Seq(Message) /\ inbox.confirm \in Seq(Confirmation)
      /\ inbox.result \in Seq(Request) /\ collected \in Seq(Request)
  BY DEF Types, Inbox
<1>2. /\ \A i \in DOMAIN engine : engine[i] \in Message
      /\ \A i \in DOMAIN inbox.confirm : inbox.confirm[i] \in Confirmation
  BY <1>1
<1>3. (\A x \in Message : x.from \in Request) /\ (\A x \in Confirmation : x.to \in Request)
  BY DEF Message, Confirmation
<1> QED BY <1>1, <1>2, <1>3

\* A step of a sidecar, or of the client that stops it: it reports at most,
\* and what is over stays over.
LEMMA SidecarStep ==
    ASSUME IInv, UNCHANGED <<turn, ctx, smu, token, mailbox, tracked, collected, answering,
                             inbox, router, spawner, registry, seen>>,
           NEW m \in Message, m.kind \in {"status", "result"}, m.kind = "result" => Over(m.from),
           engine' \in {engine, Append(engine, m)},
           sidecar' \in [Request -> Side], client' \in Calling,
           client'.pc \in {"report", "join"} => client'.at \in Request /\ sidecar[client'.at].status # "none",
           \A q \in Request :
              /\ sidecar'[q].status = "none" <=> sidecar[q].status = "none"
              /\ sidecar'[q].loop => sidecar[q].loop
              /\ sidecar'[q].resident => sidecar[q].resident
              /\ sidecar'[q].todo # <<>> => sidecar'[q].status # "none" /\ ~sidecar'[q].loop
              /\ sidecar'[q].loop /\ sidecar'[q].status \in Concluded =>
                    client'.op # "none" /\ client'.pc = "report" /\ client'.at = q
    PROVE  Types' /\ Answers' /\ Single' /\ Ordered' /\ Results' /\ Kinds'
<1>0. Types /\ Results /\ Single /\ Ordered /\ Kinds
  BY DEF IInv
<1>1. /\ engine' \in Seq(Message)
      /\ \A i \in DOMAIN engine' : (i \in DOMAIN engine /\ engine'[i] = engine[i]) \/ engine'[i] = m
      /\ \A i \in DOMAIN engine : i \in DOMAIN engine' /\ engine'[i] = engine[i]
  <2>1. engine \in Seq(Message)
    BY <1>0 DEF Types
  <2>2. CASE engine' = engine
    BY <2>1, <2>2
  <2>3. CASE engine' = Append(engine, m)
    BY <2>1, <2>3, Grown
  <2> QED BY <2>2, <2>3
<1>2. m.kind \notin Kind
  BY DEF Kind
<1>3. Types'
  BY <1>0, <1>1, SMTT(30) DEF Types, registry
<1>4. \A q \in Request : Requested(q)' = Requested(q) /\ Confirmed(q)' = Confirmed(q) /\ Underway(q)' = Underway(q)
  <2>1. \A q \in Request : Requested(q)' = Requested(q) /\ Confirmed(q)' = Confirmed(q)
    BY <1>1, <1>2 DEF Requested, Confirmed
  <2> QED BY <2>1 DEF Underway
<1>5. Answers' /\ Ordered'
  BY Still, <1>4 DEF registry
<1>6. Kinds'
  BY <1>0, <1>1, <1>2 DEF Kinds, registry
<1>7. Single'
  <2>1. \A i, j \in DOMAIN engine' : engine'[i].kind \in Kind /\ engine'[j].kind \in Kind
                                 /\ engine'[i].from = engine'[j].from => i = j
    BY <1>0, <1>1, <1>2 DEF Single
  <2>2. \A i \in DOMAIN inbox.confirm : ~inbox.confirm[i].ok => sidecar'[inbox.confirm[i].to].status = "none"
    BY <1>0, Elements DEF Single
  <2>3. \A q \in Request : spawner[q].pc \in {"none", "create", "refuse"} => sidecar'[q].status = "none"
    BY <1>0 DEF Single
  <2> QED BY <1>0, <1>4, <2>1, <2>2, <2>3 DEF Single, registry
<1>8. Results'
  <2>1. \A q \in Request : Over(q) => sidecar'[q].status # "none" /\ ~sidecar'[q].loop
    BY DEF Over
  <2>2. \A q \in Request : sidecar'[q].loop \/ sidecar'[q].resident => sidecar'[q].status # "none"
    BY <1>0 DEF Results
  <2>3. \A i \in DOMAIN engine' : engine'[i].kind = "result" => Over(engine'[i].from) /\ engine'[i].from \in Request
    <3>1. m.from \in Request
      BY DEF Message
    <3> QED BY <1>0, <1>1, Elements, <3>1 DEF Results
  <2>4. router.pc # "listen" => Over(router.from) /\ router.from \in Request
    BY <1>0 DEF Results, Types
  <2>5. /\ \A i \in DOMAIN inbox.result : Over(inbox.result[i]) /\ inbox.result[i] \in Request
        /\ \A i \in DOMAIN collected : Over(collected[i]) /\ collected[i] \in Request
    BY <1>0, Elements DEF Results
  <2> QED BY <2>1, <2>2, <2>3, <2>4, <2>5 DEF Results, Over
<1> QED BY <1>3, <1>5, <1>6, <1>7, <1>8

LEMMA SidecarEndsStep ==
    ASSUME IInv, NEW r \in Request, SidecarEnds(r)
    PROVE  IInv'
<1>0. Types /\ Results /\ Strays /\ Closing
  BY DEF IInv
<1>2. UNCHANGED <<turn, ctx, smu, token, mailbox, tracked, collected, answering,
                  inbox, engine, router, spawner, registry, client, seen>>
  BY DEF SidecarEnds, caller
<1> DEFINE old == sidecar[r]
           new == sidecar'[r]
<1>a. /\ old.live /\ old.loop
      /\ \E st \in {"completed", "tombstone"}, todo \in {<<"status", "result">>, <<"result", "status", "cancel">>} :
            sidecar' = [sidecar EXCEPT ![r].todo = todo, ![r].loop = FALSE, ![r].status = st]
  <2>1. Moved(old.status, "completed") \in {"completed", "tombstone"}
    BY DEF Moved, Concluded
  <2> QED BY <2>1 DEF SidecarEnds
<1>b. /\ sidecar \in [Request -> Side] /\ old \in Side /\ client \in Calling
      /\ client.pc \in {"report", "join"} => client.at \in Request /\ sidecar[client.at].status # "none"
  BY <1>0 DEF Types, Results
<1>c. old.status # "none"
  BY <1>0, <1>a DEF Results
<1>d. /\ sidecar' \in [Request -> Side] /\ ~new.loop /\ new.status # "none"
      /\ new.live = old.live /\ new.resident = old.resident
      /\ \A q \in Request : q # r => sidecar'[q] = sidecar[q]
  <2>1. PICK st \in {"completed", "tombstone"}, todo \in {<<"status", "result">>, <<"result", "status", "cancel">>} :
            sidecar' = [sidecar EXCEPT ![r].todo = todo, ![r].loop = FALSE, ![r].status = st]
    BY <1>a
  <2> DEFINE Report == {"status", "result", "cancel"}
  <2>4. /\ "status" \in Report /\ "result" \in Report /\ "cancel" \in Report
    OBVIOUS
  <2> HIDE DEF Report
  <2>5. <<"status", "result">> \in Seq(Report) /\ <<"result", "status", "cancel">> \in Seq(Report)
    BY <2>4
  <2>2. todo \in Seq({"status", "result", "cancel"})
    BY <2>5 DEF Report
  <2>3. st \in Concluded
    BY DEF Concluded
  <2> QED BY <1>b, <2>1, <2>2, <2>3 DEF Side
<1> HIDE DEF new, old
<1>e. \A q \in Request : /\ sidecar'[q].status = "none" <=> sidecar[q].status = "none"
                         /\ sidecar'[q].loop => sidecar[q].loop
                         /\ sidecar'[q].live = sidecar[q].live
                         /\ sidecar'[q].resident = sidecar[q].resident
  BY <1>c, <1>d DEF new, old
<1>f. \A q \in Request :
         /\ sidecar'[q].todo # <<>> => sidecar'[q].status # "none" /\ ~sidecar'[q].loop
         /\ sidecar'[q].loop /\ sidecar'[q].status \in Concluded =>
               client.op # "none" /\ client.pc = "report" /\ client.at = q
  BY <1>0, <1>c, <1>d DEF new, Results, Over
<1>g. [kind |-> "status", from |-> r] \in Message /\ [kind |-> "status", from |-> r].kind = "status"
  BY DEF Message
<1>3. Types' /\ Answers' /\ Single' /\ Ordered' /\ Results' /\ Kinds'
  BY <1>2, <1>b, <1>d, <1>e, <1>f, <1>g, SidecarStep
<1>4. Closing'
  <2>1. \A q \in Request : sidecar'[q].loop => sidecar'[q].live
    BY <1>0, <1>e DEF Closing
  <2>2. client.pc = "join" => ~sidecar'[client.at].live
    BY <1>0, <1>b, <1>e DEF Closing
  <2> QED BY <1>0, <1>2, <1>e, <2>1, <2>2 DEF Closing, registry
<1>5. Strays'
  <2>1. \A q \in Request : Working(q)' => Working(q)
    BY <1>2, <1>e DEF Working, registry
  <2>2. \A q \in Request : Attended(q)' = Attended(q)
    BY <1>2 DEF Attended
  <2> QED BY <1>0, <1>2, <2>1, <2>2 DEF Strays
<1> QED BY <1>3, <1>4, <1>5 DEF IInv

LEMMA SidecarSendsStep ==
    ASSUME IInv, NEW r \in Request, SidecarSends(r)
    PROVE  IInv'
<1>0. Types /\ Results /\ Strays /\ Closing
  BY DEF IInv
<1>2. UNCHANGED <<turn, ctx, smu, token, mailbox, tracked, collected, answering,
                  inbox, router, spawner, registry, client, seen>>
  BY DEF SidecarSends, caller
<1> DEFINE old == sidecar[r]
           what == Head(old.todo)
           m == [kind |-> what, from |-> r]
           none == [kind |-> "status", from |-> r]
           left == old.live /\ what # "cancel"
           rest == Tail(old.todo)
           new == sidecar'[r]
<1>a. /\ old.todo # <<>>
      /\ (what # "cancel" /\ engine' = Append(engine, m)) \/ engine' = engine
      /\ sidecar' = [sidecar EXCEPT ![r].todo = rest, ![r].live = left]
  BY DEF SidecarSends, ToEngine
<1>b. /\ sidecar \in [Request -> Side] /\ old \in Side /\ client \in Calling
      /\ client.pc \in {"report", "join"} => client.at \in Request /\ sidecar[client.at].status # "none"
      /\ old.todo \in Seq({"status", "result", "cancel"}) /\ old.live \in BOOLEAN
  BY <1>0 DEF Types, Results, Side
<1>c. old.status # "none" /\ ~old.loop /\ Over(r)
  BY <1>0, <1>a DEF Results, Over
<1>h. /\ what \in {"status", "result", "cancel"} /\ rest \in Seq({"status", "result", "cancel"})
      /\ left \in BOOLEAN /\ (left => old.live)
  BY <1>a, <1>b, Taken
<1>g. /\ none \in Message /\ none.kind = "status"
      /\ m.kind = what /\ m.from = r /\ (what # "cancel" => m \in Message)
  BY <1>h DEF Message
<1> HIDE DEF left, rest, what, m, none
<1>d. /\ sidecar' \in [Request -> Side] /\ ~new.loop /\ new.status = old.status
      /\ (new.live => old.live) /\ new.resident = old.resident
      /\ \A q \in Request : q # r => sidecar'[q] = sidecar[q]
  BY <1>a, <1>b, <1>c, <1>h DEF Side
<1> HIDE DEF new, old
<1>e. \A q \in Request : /\ sidecar'[q].status = "none" <=> sidecar[q].status = "none"
                         /\ sidecar'[q].loop => sidecar[q].loop
                         /\ sidecar'[q].live => sidecar[q].live
                         /\ sidecar'[q].resident = sidecar[q].resident
  BY <1>c, <1>d DEF new, old
<1>f. \A q \in Request :
         /\ sidecar'[q].todo # <<>> => sidecar'[q].status # "none" /\ ~sidecar'[q].loop
         /\ sidecar'[q].loop /\ sidecar'[q].status \in Concluded =>
               client.op # "none" /\ client.pc = "report" /\ client.at = q
  BY <1>0, <1>c, <1>d DEF new, Results, Over
<1>3. Types' /\ Answers' /\ Single' /\ Ordered' /\ Results' /\ Kinds'
  <2>1. CASE engine' = engine
    BY <2>1, <1>2, <1>b, <1>d, <1>e, <1>f, <1>g, SidecarStep
  <2>2. CASE what # "cancel" /\ engine' = Append(engine, m)
    <3>1. m.kind \in {"status", "result"} /\ m \in Message
      BY <2>2, <1>g, <1>h
    <3>2. Over(m.from)
      BY <1>g, <1>c
    <3> QED BY <2>2, <3>1, <3>2, <1>2, <1>b, <1>d, <1>e, <1>f, SidecarStep
  <2> QED BY <1>a, <2>1, <2>2
<1>4. Closing'
  <2>1. \A q \in Request : sidecar'[q].loop => sidecar'[q].live
    BY <1>0, <1>d DEF Closing, new
  <2>2. client.pc = "join" => ~sidecar'[client.at].live
    BY <1>0, <1>b, <1>e DEF Closing
  <2> QED BY <1>0, <1>2, <1>e, <2>1, <2>2 DEF Closing, registry
<1>5. Strays'
  <2>1. \A q \in Request : Working(q)' => Working(q)
    BY <1>2, <1>e DEF Working, registry
  <2>2. \A q \in Request : Attended(q)' = Attended(q)
    BY <1>2 DEF Attended
  <2> QED BY <1>0, <1>2, <2>1, <2>2 DEF Strays
<1> QED BY <1>3, <1>4, <1>5 DEF IInv

\* Only a sidecar that is gone or has concluded is passed over.
LEMMA PickSidecarStep ==
    ASSUME IInv, NEW r \in Request, PickSidecar(r)
    PROVE  IInv'
<1>0. Types /\ Results /\ Strays /\ Closing
  BY DEF IInv
<1>2. UNCHANGED <<turn, ctx, smu, token, mailbox, tracked, collected, answering,
                  inbox, engine, router, spawner, registry, seen>>
  BY DEF PickSidecar, caller
<1> DEFINE old == sidecar[r]
           over == old.status \in Concluded
           new == sidecar'[r]
           none == [kind |-> "status", from |-> r]
<1>a. client.op # "none" /\ client.pc = "pick" /\ r \in client.rest
  BY DEF PickSidecar
<1>b. /\ sidecar \in [Request -> Side] /\ old \in Side /\ client \in Calling
      /\ client.rest \subseteq Request
  BY <1>0 DEF Types, Calling
<1>c. \A q \in Request : ~(sidecar[q].loop /\ sidecar[q].status \in Concluded)
  BY <1>0, <1>a DEF Results
<1>g. none \in Message /\ none.kind = "status"
  BY DEF Message
<1> HIDE DEF none
<1>3. CASE /\ ~old.resident \/ (over /\ client.op = "cancel")
           /\ client' = [client EXCEPT !.rest = @ \ {r}] /\ sidecar' = sidecar
  <2>1. /\ client' \in Calling /\ client'.op = client.op /\ client'.pc = client.pc /\ client'.at = client.at
        /\ client'.rest = client.rest \ {r}
    BY <1>3, <1>b DEF Calling
  <2>2. \A q \in Request : sidecar[q].todo # <<>> => sidecar[q].status # "none" /\ ~sidecar[q].loop
    BY <1>0 DEF Results, Over
  <2>3. Types' /\ Answers' /\ Single' /\ Ordered' /\ Results' /\ Kinds'
    BY <1>2, <1>3, <1>a, <1>b, <1>c, <1>g, <2>1, <2>2, SidecarStep
  <2>4. Closing'
    BY <1>0, <1>2, <1>3, <1>a, <2>1 DEF Closing, registry
  <2>5. Strays'
    <3>1. \A q \in Request : Working(q)' = Working(q) /\ Attended(q)' = Attended(q)
      BY <1>2, <1>3 DEF Working, Attended, registry
    <3>2. ~Working(r)
      BY <1>0, <1>3, <1>c DEF Working, Closing
    <3> QED BY <3>1, <3>2, <1>0, <1>2, <2>1 DEF Strays
  <2> QED BY <2>3, <2>4, <2>5 DEF IInv
<1>4. CASE /\ old.resident /\ ~(over /\ client.op = "cancel")
           /\ client' = [client EXCEPT !.at = r, !.pc = IF over THEN "join" ELSE "report"]
           /\ sidecar' = [sidecar EXCEPT ![r] = IF over THEN Stopped(r) ELSE [@ EXCEPT !.status = "tombstone"]]
  <2>1. /\ client' \in Calling /\ client'.op = client.op /\ client'.at = r
        /\ client'.rest = client.rest /\ client'.pc = (IF over THEN "join" ELSE "report")
    BY <1>4, <1>b, Numbers DEF Calling
  <2>2. old.status # "none"
    BY <1>0, <1>4 DEF Results
  <2>3. /\ sidecar' \in [Request -> Side] /\ new.status = "tombstone"
        /\ new.todo = old.todo /\ new.resident = old.resident
        /\ (new.loop => old.loop) /\ (new.live => old.live)
        /\ (new.loop => new.live \/ ~old.live)
        /\ over => ~new.live /\ ~new.loop
        /\ ~over => new.loop = old.loop /\ new.live = old.live
        /\ \A q \in Request : q # r => sidecar'[q] = sidecar[q]
    <3>1. CASE over
      <4>1. sidecar' = [sidecar EXCEPT ![r] = [old EXCEPT !.status = "tombstone", !.live = FALSE, !.loop = FALSE]]
        BY <3>1, <1>4 DEF Stopped
      <4> QED BY <4>1, <3>1, <1>b DEF Side, Concluded
    <3>2. CASE ~over
      <4>1. sidecar' = [sidecar EXCEPT ![r] = [old EXCEPT !.status = "tombstone"]]
        BY <3>2, <1>4
      <4> QED BY <4>1, <3>2, <1>b DEF Side, Concluded
    <3> QED BY <3>1, <3>2
  <2>4. \A q \in Request : sidecar[q].todo # <<>> => sidecar[q].status # "none" /\ ~sidecar[q].loop
    BY <1>0 DEF Results, Over
  <2> HIDE DEF new, old, over
  <2>5. \A q \in Request : /\ sidecar'[q].status = "none" <=> sidecar[q].status = "none"
                           /\ sidecar'[q].loop => sidecar[q].loop
                           /\ sidecar'[q].live => sidecar[q].live
                           /\ sidecar'[q].resident = sidecar[q].resident
                           /\ sidecar'[q].todo # <<>> => sidecar'[q].status # "none" /\ ~sidecar'[q].loop
    BY <2>2, <2>3, <2>4 DEF new, old
  <2>6. \A q \in Request : sidecar'[q].loop /\ sidecar'[q].status \in Concluded =>
                 client'.op # "none" /\ client'.pc = "report" /\ client'.at = q
    BY <2>1, <2>3, <1>a, <1>c DEF new
  <2>7. client'.at \in Request /\ sidecar[client'.at].status # "none"
    BY <2>1, <2>2 DEF old
  <2>8. Types' /\ Answers' /\ Single' /\ Ordered' /\ Results' /\ Kinds'
    BY <1>2, <1>g, <2>1, <2>3, <2>5, <2>6, <2>7, SidecarStep
  <2>9. Closing'
    <3>1. \A q \in Request : sidecar'[q].loop => sidecar'[q].live
      BY <1>0, <2>3 DEF Closing, new, old
    <3>2. client'.pc = "join" => ~sidecar'[client'.at].live
      BY <2>1, <2>3 DEF new
    <3>3. \A q \in Request : sidecar'[q].live => sidecar'[q].resident
      BY <1>0, <2>5 DEF Closing
    <3> QED BY <1>0, <1>2, <1>a, <2>1, <2>5, <3>1, <3>2, <3>3 DEF Closing, registry
  <2>10. Strays'
    <3>1. \A q \in Request : (Working(q)' => Working(q)) /\ Attended(q)' = Attended(q)
      BY <1>2, <2>5 DEF Working, Attended, registry
    <3> QED BY <3>1, <1>0, <1>2, <2>1 DEF Strays
  <2> QED BY <2>8, <2>9, <2>10 DEF IInv
<1> QED BY <1>3, <1>4 DEF PickSidecar

LEMMA ReportTombstoneStep ==
    ASSUME IInv, ReportTombstone
    PROVE  IInv'
<1>0. Types /\ Results /\ Strays /\ Closing
  BY DEF IInv
<1>2. UNCHANGED <<turn, ctx, smu, token, mailbox, tracked, collected, answering,
                  inbox, router, spawner, registry, seen>>
  BY DEF ReportTombstone, caller
<1> DEFINE r == client.at
           old == sidecar[r]
           new == sidecar'[r]
           m == [kind |-> "status", from |-> r]
<1>a. /\ client.pc = "report" /\ engine' \in {engine, Append(engine, m)}
      /\ client' = [client EXCEPT !.pc = "join"]
      /\ sidecar' = [sidecar EXCEPT ![r] = [old EXCEPT !.status = "tombstone", !.live = FALSE, !.loop = FALSE]]
  BY DEF ReportTombstone, ToEngine, Stopped
<1>b. /\ sidecar \in [Request -> Side] /\ r \in Request /\ old \in Side /\ client \in Calling
      /\ old.status # "none"
  BY <1>0, <1>a DEF Types, Results
<1>g. m \in Message /\ m.kind = "status"
  BY <1>b DEF Message
<1>c. /\ client' \in Calling /\ client'.op = client.op /\ client'.at = r
      /\ client'.rest = client.rest /\ client'.pc = "join"
  BY <1>a, <1>b DEF Calling
<1> HIDE DEF m, r
<1>d. /\ sidecar' \in [Request -> Side] /\ new.status = "tombstone"
      /\ new.todo = old.todo /\ new.resident = old.resident /\ ~new.loop /\ ~new.live
      /\ \A q \in Request : q # r => sidecar'[q] = sidecar[q]
  BY <1>a, <1>b DEF Side, Concluded
<1>e. \A q \in Request : /\ sidecar[q].todo # <<>> => sidecar[q].status # "none" /\ ~sidecar[q].loop
                         /\ q # r => ~(sidecar[q].loop /\ sidecar[q].status \in Concluded)
  BY <1>0 DEF Results, Over, r
<1> HIDE DEF new, old
<1>f. \A q \in Request : /\ sidecar'[q].status = "none" <=> sidecar[q].status = "none"
                         /\ sidecar'[q].loop => sidecar[q].loop
                         /\ sidecar'[q].live => sidecar[q].live
                         /\ sidecar'[q].resident = sidecar[q].resident
                         /\ sidecar'[q].todo # <<>> => sidecar'[q].status # "none" /\ ~sidecar'[q].loop
                         /\ ~(sidecar'[q].loop /\ sidecar'[q].status \in Concluded)
  BY <1>b, <1>d, <1>e DEF new, old
<1>h. client'.at \in Request /\ sidecar[client'.at].status # "none"
  BY <1>b, <1>c DEF old
<1>3. Types' /\ Answers' /\ Single' /\ Ordered' /\ Results' /\ Kinds'
  BY <1>2, <1>a, <1>c, <1>d, <1>f, <1>g, <1>h, SidecarStep
<1>4. Closing'
  <2>1. \A q \in Request : sidecar'[q].loop => sidecar'[q].live
    BY <1>0, <1>d DEF Closing, new
  <2>2. ~sidecar'[client'.at].live
    BY <1>c, <1>d DEF new
  <2>3. \A q \in Request : sidecar'[q].live => sidecar'[q].resident
    BY <1>0, <1>f DEF Closing
  <2>4. client'.at \in client'.rest /\ client.op # "none"
    BY <1>0, <1>a, <1>c DEF Closing, r
  <2> QED BY <1>0, <1>2, <1>a, <1>c, <1>f, <2>1, <2>2, <2>3, <2>4 DEF Closing, registry
<1>5. Strays'
  <2>1. \A q \in Request : (Working(q)' => Working(q)) /\ Attended(q)' = Attended(q)
    BY <1>2, <1>f DEF Working, Attended, registry
  <2> QED BY <2>1, <1>0, <1>2, <1>c DEF Strays
<1> QED BY <1>3, <1>4, <1>5 DEF IInv

LEMMA JoinSidecarStep ==
    ASSUME IInv, JoinSidecar
    PROVE  IInv'
<1>0. Types /\ Results /\ Strays /\ Closing
  BY DEF IInv
<1>2. UNCHANGED <<turn, ctx, smu, token, mailbox, tracked, collected, answering,
                  inbox, engine, router, spawner, registry, seen>>
  BY DEF JoinSidecar, caller
<1> DEFINE r == client.at
           old == sidecar[r]
           new == sidecar'[r]
           m == [kind |-> "status", from |-> r]
<1>a. /\ client.pc = "join"
      /\ client' = [client EXCEPT !.pc = "pick", !.rest = @ \ {r}, !.at = 0]
      /\ sidecar' = [sidecar EXCEPT ![r].resident = FALSE]
  BY DEF JoinSidecar
<1>b. /\ sidecar \in [Request -> Side] /\ r \in Request /\ old \in Side /\ client \in Calling
  BY <1>0, <1>a DEF Types
<1>g. m \in Message /\ m.kind = "status"
  BY <1>b DEF Message
<1>c. /\ client' \in Calling /\ client'.op = client.op
      /\ client'.rest = client.rest \ {r} /\ client'.pc = "pick"
  BY <1>a, <1>b, Numbers DEF Calling
<1>i. ~old.live /\ ~old.loop /\ client.op # "none"
  BY <1>0, <1>a, <1>b DEF Closing
<1> HIDE DEF m, r
<1>d. /\ sidecar' \in [Request -> Side] /\ new.status = old.status
      /\ new.todo = old.todo /\ ~new.resident /\ new.loop = old.loop /\ new.live = old.live
      /\ \A q \in Request : q # r => sidecar'[q] = sidecar[q]
  BY <1>a, <1>b DEF Side
<1>e. \A q \in Request : /\ sidecar[q].todo # <<>> => sidecar[q].status # "none" /\ ~sidecar[q].loop
                         /\ ~(sidecar[q].loop /\ sidecar[q].status \in Concluded)
  BY <1>0, <1>a DEF Results, Over
<1> HIDE DEF new, old
<1>f. \A q \in Request : /\ sidecar'[q].status = sidecar[q].status
                         /\ sidecar'[q].loop = sidecar[q].loop
                         /\ sidecar'[q].live = sidecar[q].live
                         /\ sidecar'[q].todo = sidecar[q].todo
                         /\ sidecar'[q].resident => sidecar[q].resident /\ q # r
  BY <1>b, <1>d DEF new, old
<1>3. Types' /\ Answers' /\ Single' /\ Ordered' /\ Results' /\ Kinds'
  BY <1>2, <1>c, <1>d, <1>e, <1>f, <1>g, SidecarStep
<1>4. Closing'
  <2>1. \A q \in Request : sidecar'[q].live => sidecar'[q].resident
    BY <1>0, <1>d, <1>i DEF Closing, new, old
  <2> QED BY <1>0, <1>2, <1>a, <1>c, <1>f, <1>i, <2>1 DEF Closing, registry
<1>5. Strays'
  <2>1. \A q \in Request : (Working(q)' => Working(q) /\ q # r) /\ Attended(q)' = Attended(q)
    BY <1>2, <1>f, <1>i DEF Working, Attended, registry, old
  <2> QED BY <2>1, <1>0, <1>2, <1>c DEF Strays
<1> QED BY <1>3, <1>4, <1>5 DEF IInv

\* CancelTurn and CloseSession list every sidecar they must stop.
LEMMA BeginStep ==
    ASSUME IInv, NEW op \in {"cancel", "close"}, Begin(op)
    PROVE  IInv'
<1>0. Types /\ Results /\ Strays /\ Closing
  BY DEF IInv
<1>2. UNCHANGED <<turn, ctx, smu, token, mailbox, tracked, collected, answering,
                  inbox, engine, router, spawner, resident, children, sidecar>>
  BY DEF Begin, caller
<1> DEFINE all == {r \in Request : children[r] \in IF op = "cancel" THEN {"foreground"} ELSE Kind}
<1>a. /\ client.op = "none" /\ mu = "free" /\ resident /\ mu' = "client"
      /\ client' = [op |-> op, pc |-> "pick", at |-> 0, rest |-> all]
      /\ seen' = IF op = "cancel" THEN [seen EXCEPT !.cancels = @ + 1] ELSE seen
  BY DEF Begin
<1>b. all \subseteq Request /\ seen \in Seen /\ seen.cancels \in Nat /\ seen.cancels + 1 > 0 /\ seen.cancels + 1 \in Nat
  BY <1>0 DEF Types, Seen
<1>c. \A q \in Request : (op = "cancel" /\ children[q] = "foreground" => q \in all)
                         /\ (op = "close" /\ children[q] \in Kind => q \in all)
  OBVIOUS
<1> HIDE DEF all
<1>d. client' \in Calling /\ client'.op = op /\ client'.pc = "pick" /\ client'.rest = all
  BY <1>a, <1>b, Numbers DEF Calling
<1>e. /\ seen' \in Seen /\ seen'.told = seen.told /\ seen'.background = seen.background
      /\ seen'.asked = seen.asked /\ seen'.gaveUp = seen.gaveUp /\ seen'.late = seen.late
      /\ seen'.answers = seen.answers /\ seen'.cancels \in Nat
      /\ op = "cancel" => seen'.cancels > 0
      /\ op = "close" => seen'.cancels = seen.cancels
      /\ seen.cancels > 0 => seen'.cancels > 0
  BY <1>a, <1>b DEF Seen
<1>f. client.pc = "pick"
  BY <1>0, <1>a DEF Closing
<1>3. Types'
  BY <1>0, <1>2, <1>a, <1>d, <1>e, SMTT(30) DEF Types
<1>4. Answers' /\ Kinds'
  BY Still, <1>2, <1>e
<1>5. Single' /\ \A q \in Request : Underway(q)' = Underway(q)
  BY Still, <1>2, <1>e
<1>6. Ordered'
  BY Still, <1>2, <1>e, <1>5
<1>7. Closing'
  BY <1>0, <1>2, <1>a, <1>c, <1>d, <1>f DEF Closing
<1>8. Results'
  BY <1>0, <1>2, <1>a, <1>d DEF Results, Over
<1>9. Strays'
  <2>1. \A q \in Request : Working(q)' = Working(q) /\ Attended(q)' = Attended(q)
    BY <1>2 DEF Working, Attended
  <2>2. \A q \in Request : Working(q) /\ op = "cancel" => q \in all
    BY <1>c DEF Working
  <2> QED BY <1>0, <1>2, <1>a, <1>b, <1>d, <1>e, <2>1, <2>2 DEF Strays
<1> QED BY <1>3, <1>4, <1>5, <1>6, <1>7, <1>8, <1>9 DEF IInv

LEMMA CancelCallerStep ==
    ASSUME IInv, CancelCaller
    PROVE  IInv'
<1>0. Types /\ Results /\ Strays /\ Closing
  BY DEF IInv
<1>2. UNCHANGED <<turn, ctx, smu, mailbox, tracked, collected, answering, inbox,
                  engine, router, spawner, resident, children, sidecar, seen>>
  BY DEF CancelCaller
<1>a. /\ client.op = "cancel" /\ client.pc = "pick" /\ client.rest = {} /\ mu' = "free"
      /\ client' = [client EXCEPT !.op = "none"] /\ token' \in BOOLEAN
  BY <1>0 DEF CancelCaller, SidecarsClosed, Types
<1>b. client \in Calling /\ seen.cancels \in Nat /\ seen.cancels > 0
  BY <1>0, <1>a, SMTT(30) DEF Types, Seen, Strays
<1>d. client' \in Calling /\ client'.op = "none" /\ client'.pc = "pick" /\ client'.rest = {}
  BY <1>a, <1>b DEF Calling
<1>3. Types'
  BY <1>0, <1>2, <1>a, <1>d, SMTT(30) DEF Types
<1>4. Answers' /\ Kinds'
  BY Still, <1>2
<1>5. Single' /\ \A q \in Request : Underway(q)' = Underway(q)
  BY Still, <1>2
<1>6. Ordered'
  BY Still, <1>2, <1>5
<1>7. Closing'
  BY <1>0, <1>2, <1>a, <1>d DEF Closing
<1>8. Results'
  BY <1>0, <1>2, <1>a, <1>d DEF Results, Over
<1>9. Strays'
  <2>1. \A q \in Request : Working(q)' = Working(q)
    BY <1>2 DEF Working
  <2> QED BY <1>0, <1>2, <1>a, <1>b, <1>d, <2>1 DEF Strays
<1> QED BY <1>3, <1>4, <1>5, <1>6, <1>7, <1>8, <1>9 DEF IInv

\* When the caller is closed none of its sidecars is left.
LEMMA EndCallerStep ==
    ASSUME IInv, EndCaller
    PROVE  IInv'
<1>0. Types /\ Results /\ Strays /\ Closing /\ Single /\ Kinds
  BY DEF IInv
<1>2. UNCHANGED <<turn, smu, token, mailbox, tracked, collected, answering, inbox,
                  engine, router, spawner, resident, mu, sidecar, seen>>
  BY DEF EndCaller
<1>a. /\ client.op = "close" /\ client.pc = "pick" /\ client.rest = {} /\ ctx' = "done"
      /\ client' = [client EXCEPT !.pc = "joincaller"] /\ children' = [r \in Request |-> "none"]
  BY DEF EndCaller, SidecarsClosed
<1>d. client' \in Calling /\ client'.op = "close" /\ client'.pc = "joincaller" /\ client'.rest = {}
  BY <1>0, <1>a DEF Calling, Types
<1>e. \A q \in Request : ~sidecar[q].resident /\ ~sidecar[q].live /\ ~sidecar[q].loop /\ children'[q] = "none"
  BY <1>0, <1>a DEF Closing
<1>3. Types'
  <2>1. children' \in [Request -> Kind \cup {"none"}]
    BY <1>a
  <2> QED BY <1>0, <1>2, <1>a, <1>d, <2>1, SMTT(30) DEF Types
<1>4. Answers'
  BY Still, <1>2
<1>5. \A q \in Request : Requested(q)' = Requested(q) /\ Confirmed(q)' = Confirmed(q) /\ Underway(q)' = Underway(q)
  BY Frames, <1>2
<1>6. Ordered'
  BY Still, <1>2, <1>5
<1>10. Single'
  BY <1>0, <1>2, <1>5, <1>e DEF Single
<1>11. Kinds'
  BY <1>0, <1>2, <1>e DEF Kinds, Types
<1>7. Closing'
  BY <1>0, <1>2, <1>a, <1>d, <1>e DEF Closing
<1>8. Results'
  BY <1>0, <1>2, <1>a, <1>d DEF Results, Over
<1>9. Strays'
  <2>1. \A q \in Request : ~Working(q)'
    BY <1>e DEF Working
  <2> QED BY <1>0, <1>2, <1>a, <1>d, <2>1 DEF Strays
<1> QED BY <1>3, <1>4, <1>10, <1>11, <1>6, <1>7, <1>8, <1>9 DEF IInv

\* Closing answers for the sidecars that did not.
LEMMA SettleCallerStep ==
    ASSUME IInv, SettleCaller
    PROVE  IInv'
<1>0. Types /\ Results /\ Strays /\ Closing /\ Answers
  BY DEF IInv
<1>2. UNCHANGED <<turn, ctx, smu, token, mailbox, collected, answering, inbox,
                  engine, router, spawner, children, sidecar>>
  BY DEF SettleCaller
<1>a. /\ client.pc = "joincaller" /\ turn.pc = "ended" /\ smu = "free"
      /\ seen' = [seen EXCEPT !.told = @ \cup tracked] /\ tracked' = {}
      /\ resident' = FALSE /\ mu' = "free" /\ client' = [client EXCEPT !.op = "none", !.pc = "pick"]
  BY DEF SettleCaller
<1>b. seen \in Seen /\ tracked \subseteq Request /\ client \in Calling
  BY <1>0 DEF Types
<1>d. client' \in Calling /\ client'.op = "none" /\ client'.pc = "pick"
  BY <1>a, <1>b DEF Calling
<1>e. /\ seen' \in Seen /\ seen'.told = seen.told \cup tracked /\ seen'.background = seen.background
      /\ seen'.asked = seen.asked /\ seen'.gaveUp = seen.gaveUp /\ seen'.late = seen.late
      /\ seen'.answers = seen.answers /\ seen'.cancels = seen.cancels
  BY <1>a, <1>b DEF Seen
<1>f. ctx = "done" /\ \A q \in Request : ~sidecar[q].resident /\ ~sidecar[q].live /\ ~sidecar[q].loop
  BY <1>0, <1>a DEF Closing
<1>g. resident' \in BOOLEAN /\ tracked' \in SUBSET Request /\ mu' \in {"free", "client"}
  BY <1>a
<1>h. turn.pc \notin {"dispatch", "send", "await", "track"}
  BY <1>a
<1>3. Types'
  BY <1>0, <1>2, <1>d, <1>e, <1>g, <1>h, SMTT(30) DEF Types
<1>4. Kinds'
  BY Still, <1>2
<1>5. Single' /\ \A q \in Request : Underway(q)' = Underway(q)
  BY Still, <1>2, <1>e
<1>6. Ordered'
  BY Still, <1>2, <1>e, <1>5
<1>7. Closing'
  BY <1>0, <1>2, <1>a, <1>d, <1>f DEF Closing
<1>8. Results'
  BY <1>0, <1>2, <1>a, <1>d, <1>f DEF Results, Over
<1>9. Strays'
  <2>1. \A q \in Request : ~Working(q)'
    BY <1>2, <1>f DEF Working
  <2> QED BY <1>0, <1>2, <1>d, <1>e, <2>1 DEF Strays
<1>10. Answers'
  BY <1>0, <1>2, <1>a, <1>e DEF Answers
<1> QED BY <1>3, <1>4, <1>5, <1>6, <1>7, <1>8, <1>9, <1>10 DEF IInv

-----------------------------------------------------------------------------
(* The theorems *)

\* Every step preserves the invariant.
LEMMA Inductive ==
    ASSUME IInv, [Next]_vars
    PROVE  IInv'
<1>1. CASE CallerLoop
  BY <1>1, BoundaryStep, WakeStep, StopParkedStep, CommitUnreadStep, GenerateStep, NextCallStep,
     SendRequestStep, TakeConfirmationStep, GiveUpRequestStep, TrackStep, StartWaitStep,
     HandleResultStep, CollectAnswerStep, FinishWaitStep DEF CallerLoop
<1>2. CASE AnswerLoop \/ EngineLoop \/ SendUser
  BY <1>2, HandleBackgroundStep, DeliverBackgroundStep, DropBackgroundStep, ListenStep, RelayStep,
     SendUserStep DEF AnswerLoop, EngineLoop
<1>3. CASE Client
  BY <1>3, PickSidecarStep, ReportTombstoneStep, JoinSidecarStep, CancelCallerStep, EndCallerStep,
     SettleCallerStep DEF Client
<1>4. CASE \E r \in Request : CreateSidecar(r) \/ Confirm(r) \/ SidecarEnds(r) \/ SidecarSends(r)
  BY <1>4, CreateSidecarStep, ConfirmStep, SidecarEndsStep, SidecarSendsStep
<1>5. CASE \E k \in {"confirm", "result"} : LingerTakes(k)
  BY <1>5, LingerTakesStep
<1>6. CASE \E op \in {"cancel", "close"} : Begin(op)
  BY <1>6, BeginStep
<1>7. CASE UNCHANGED vars
  <2>1. UNCHANGED <<turn, ctx, smu, token, mailbox, tracked, collected, answering, inbox, engine,
                    router, spawner, resident, children, mu, sidecar, client, seen>>
    BY <1>7 DEF vars, caller, registry
  <2>2. Types'
    BY <2>1 DEF IInv, Types
  <2>3. Closing' /\ Results'
    BY Frames, <2>1
  <2>4. Single' /\ \A q \in Request : Underway(q)' = Underway(q)
    BY Still, <2>1
  <2>5. Ordered' /\ Kinds' /\ Strays' /\ Answers'
    BY Still, <2>1, <2>4
  <2> QED BY <2>2, <2>3, <2>4, <2>5 DEF IInv
<1> QED BY <1>1, <1>2, <1>3, <1>4, <1>5, <1>6, <1>7 DEF Next, System

\* The inductive invariant: the channels hold each request once, in order, and a
\* sidecar works only for a call that attends to it.
THEOREM Invariant == Spec => []IInv
<1>1. Init => IInv
  BY Initially
<1>2. IInv /\ [Next]_vars => IInv'
  BY Inductive
<1> QED BY <1>1, <1>2, PTL DEF Spec

\* An answer reaches the call that asked for it, or the caller's timeline: a
\* foreground call is answered by the sidecar created for it unless an earlier
\* request was given up, and a closed caller has answered for every background
\* sidecar it started (tools.go, subscribeForAgentMessages, settleBackgroundSidecars).
THEOREM AnswersAreDelivered == Spec => []AnswersReach
<1>1. IInv => AnswersReach
  <2> SUFFICES ASSUME IInv PROVE AnswersReach
    OBVIOUS
  <2>1. AnswerIsOwn
    BY DEF IInv, Ordered
  <2>2. Closed => turn.unread = <<>> /\ tracked = {}
    BY DEF IInv, Answers, Closed
  <2>3. Accounted
    BY <2>2 DEF IInv, Answers, Accounted, Closed, ToSet
  <2> QED BY <2>1, <2>3 DEF AnswersReach
<1> QED BY <1>1, Invariant, PTL

\* A sidecar does not outlive what it works for: none lives after its caller
\* has left the engine, and a turn leaves no foreground sidecar working behind
\* but those created after CancelTurn had listed the ones it stops
\* (closeSessionTree, cancelSidecarTree, createSidecarSession).
THEOREM SidecarsDoNotOutlive == Spec => []SidecarsEnd
<1>1. IInv => SidecarsEnd
  <2> SUFFICES ASSUME IInv PROVE SidecarsEnd
    OBVIOUS
  <2>1. NoneOutlives
    BY DEF IInv, Closing, NoneOutlives, Closed
  <2>2. NoStray
    <3> SUFFICES ASSUME NEW r \in Request, children[r] = "foreground", sidecar[r].loop,
                        client.op = "none", turn.pc \in {"boundary", "park", "generate"}
                 PROVE  r \in seen.late
      BY DEF NoStray
    <3>1. Working(r) /\ ~Attended(r)
      BY DEF Working, Attended
    <3> QED BY <3>1 DEF IInv, Strays
  <2> QED BY <2>1, <2>2 DEF SidecarsEnd
<1> QED BY <1>1, Invariant, PTL
=============================================================================
