---------------------------- MODULE ModelsProofs ----------------------------
(***************************************************************************)
(* Proofs about the model calls of a session, for any texts, replies,      *)
(* branches and number of calls.                                           *)
(*                                                                         *)
(* Whenever the Claude Code CLI works on a call, its conversation holds    *)
(* the history of that call.  The invariant relates what the adaptor       *)
(* remembers of the CLI's conversation (conv) to what the CLI has stored   *)
(* (cli).  They agree except while a process runs or has failed, and then  *)
(* conversation.mu is held by its call; nobody lets go of it without       *)
(* agreement or a mark (dirty).                                            *)
(*                                                                         *)
(* What is committed of a reply is all that was said, and what was shown.  *)
(* The second part follows a call from its first request to its result; it *)
(* needs what Picked, which is recursive, does to a sequence that grows.   *)
(*                                                                         *)
(* What the timeline holds of the task checklist is the task checklist.    *)
(* The invariant follows the list from the call that makes it, through the *)
(* batch of results, to the branch it is recorded on; it needs that the    *)
(* results on a branch are those of the replies before them.               *)
(***************************************************************************)
EXTENDS Models, Checklist, SequenceTheorems, FiniteSetTheorems, TLAPS

USE ModelsAssumption

Stored == [system : Callers, messages : Seq(Message)]
Conv == [id : Ids, prefix : Seq(Message) \cup {None}, system : Callers \cup {None},
         reply : Message \cup {None}, dirty : BOOLEAN]

\* The states of a call that holds conversation.mu.
Working == {"ready", "running", "failed", "answered"}

CallOK(k) ==
    /\ DOMAIN k = DOMAIN NoCall
    /\ k.state \in Working \cup {"none", "asked", "returned"}
    /\ k.messages \in Seq(Message) /\ k.session \in Ids /\ k.full \in BOOLEAN
    /\ k.state = "answered" => Assistant(k.says) \in Message
    /\ k.result \in Message \cup {None}

Types ==
    /\ history \in Seq(Message)
    /\ conv \in Conv /\ (conv.prefix # None => conv.reply # None)
    /\ cli \in [Ids -> Stored \cup {None}]
    /\ DOMAIN calls = Callers /\ \A c \in Callers : CallOK(calls[c])
    /\ lock \in Callers \cup {None}

Locked == \A c \in Callers : calls[c].state \in Working <=> lock = c

\* Nobody has touched the conversation since the adaptor last knew it.
Settled == \A c \in Callers : lock = c =>
    calls[c].state = "answered" \/ (calls[c].state = "ready" /\ ~calls[c].full)

Remembered ==
    Settled /\ ~conv.dirty /\ conv.prefix # None /\ cli[conv.id] # None =>
        cli[conv.id] = [system |-> conv.system, messages |-> Append(conv.prefix, conv.reply)]

Resumes(k, c) == k.session = conv.id /\ Resumable(k.messages, System(c))

Told ==
    /\ \A c \in Callers : calls[c].state = "running" =>
          cli[calls[c].session] = [system |-> System(c), messages |-> calls[c].messages]
    /\ \A c \in Callers : calls[c].state = "ready" /\ ~calls[c].full => Resumes(calls[c], c)

IInv == provider = "claude" => Types /\ Locked /\ Remembered /\ Told
-----------------------------------------------------------------------------
(* What the steps have in common *)

LEMMA SentIs ==
    ASSUME Types
    PROVE  /\ conv.prefix = None => Sent = 0
           /\ conv.prefix # None => conv.prefix \in Seq(Message) /\ Sent = Len(conv.prefix)
           /\ Sent \in Nat
  BY DEF Types, Conv, Sent

LEMMA NewIdOK ==
    ASSUME NEW a \in Ids, NEW b \in Ids
    PROVE  NewId({a}) \in Ids /\ NewId({a, b}) \in Ids
           /\ NewId({a}) # a /\ NewId({a, b}) \notin {a, b}
<1>1. \E i \in 0 .. 3 : i \notin {0} \cup {a, b}
  <2>1. a = 1 \/ b = 1 \/ 1 \notin {0, a, b}
    OBVIOUS
  <2>2. a = 2 \/ b = 2 \/ 2 \notin {0, a, b}
    OBVIOUS
  <2>3. a = 3 \/ b = 3 \/ 3 \notin {0, a, b}
    OBVIOUS
  <2>4. {0} \cup {a, b} = {0, a, b}
    OBVIOUS
  <2> QED BY <2>1, <2>2, <2>3, <2>4
<1> QED BY <1>1 DEF NewId, Ids, Own

\* A conversation the adaptor may resume holds the head of the history; what
\* is sent to it is the rest.
LEMMA ResumedHolds ==
    ASSUME Types, NEW c \in Callers, NEW h \in Seq(Message), Resumable(h, System(c))
    PROVE  /\ conv.prefix # None /\ ~conv.dirty /\ conv.system = c
           /\ Append(conv.prefix, conv.reply) \o SubSeq(h, Sent + 2, Len(h)) = h
<1>1. conv.prefix = SubSeq(h, 1, Sent) /\ ~conv.dirty /\ conv.system = c /\ Sent <= Len(h)
  BY DEF Resumable, System
<1>2. SubSeq(h, 1, Sent) \in Seq(Message)
  BY <1>1, SentIs
<1>3. conv.prefix # None
  BY <1>1, <1>2
<1>4. conv.reply # None /\ Sent < Len(h) /\ h[Sent + 1] = conv.reply
  BY <1>3 DEF Types, Resumable
<1> DEFINE n == Sent
           rest == SubSeq(h, n + 2, Len(h))
           start == Append(SubSeq(h, 1, n), h[n + 1])
<1>5. n \in Nat /\ n < Len(h) /\ Len(h) \in Nat
  BY <1>4, SentIs
<1> HIDE DEF n
<1>6. start \in Seq(Message) /\ Len(start) = n + 1
      /\ \A i \in 1 .. n + 1 : start[i] = h[i]
  BY <1>5, SMTT(30)
<1>7. rest \in Seq(Message) /\ Len(rest) = Len(h) - (n + 1)
      /\ \A i \in 1 .. Len(h) - (n + 1) : rest[i] = h[i + n + 1]
  BY <1>5, SMTT(30)
<1> HIDE DEF start, rest
<1>8. start \o rest = h
  <2> DEFINE x == start \o rest
  <2>1. x \in Seq(Message) /\ Len(x) = Len(h)
    BY <1>5, <1>6, <1>7
  <2>2. \A i \in 1 .. n + 1 : x[i] = h[i]
    BY <1>5, <1>6, <1>7
  <2>3. ASSUME NEW i \in 1 .. Len(h), i \notin 1 .. n + 1 PROVE x[i] = h[i]
    <3>1. PICK j \in 1 .. Len(h) - (n + 1) : i = j + n + 1
      <4>1. i - (n + 1) \in 1 .. Len(h) - (n + 1) /\ i = i - (n + 1) + n + 1
        BY <1>5, <2>3, SMTT(30)
      <4> QED BY <4>1
    <3>2. x[i] = rest[j]
      <4>1. /\ i \in 1 .. Len(start) + Len(rest) /\ ~(i <= Len(start)) /\ i - Len(start) = j
        BY <1>5, <1>6, <1>7, <2>3, <3>1, SMTT(30)
      <4>2. x[i] = IF i <= Len(start) THEN start[i] ELSE rest[i - Len(start)]
        BY <1>6, <1>7, <4>1, ConcatProperties, SMTT(30)
      <4> QED BY <4>1, <4>2
    <3>3. rest[j] = h[j + n + 1]
      BY <1>7
    <3> QED BY <3>1, <3>2, <3>3
  <2> HIDE DEF x
  <2>4. \A i \in 1 .. Len(h) : x[i] = h[i]
    BY <2>2, <2>3
  <2>5. x = h
    BY <2>1, <2>4, SeqEqual
  <2> QED BY <2>5 DEF x
<1> QED BY <1>1, <1>3, <1>4, <1>8 DEF n, start, rest

LEMMA InitInv == Init => IInv
<1> SUFFICES ASSUME Init PROVE IInv
  OBVIOUS
<1>1. CallOK(NoCall)
  BY DEF CallOK, NoCall, Working, Ids, Own
<1>2. Types
  BY <1>1 DEF Init, Types, Conv, NoConv, Ids, Own, Callers
<1> QED BY <1>2 DEF Init, IInv, Locked, Remembered, Told, NoCall, NoConv, Working
-----------------------------------------------------------------------------
(* The steps *)

\* A step of call c to k that leaves the conversation and its lock alone, from
\* and to states in which the call does not work on the conversation.
LEMMA Beside ==
    ASSUME IInv, provider = "claude", UNCHANGED <<provider, conv, cli, lock>>,
           history' \in Seq(Message),
           NEW c \in Callers, NEW k, CallOK(k), Call(c, k),
           k.state \notin Working, calls[c].state \notin Working
    PROVE  IInv'
<1> USE DEF IInv
<1>1. DOMAIN calls' = Callers /\ calls'[c] = k
      /\ \A d \in Callers : d # c => calls'[d] = calls[d]
  BY DEF Call, Types
<1>2. Types'
  BY <1>1, ZenonT(30) DEF Types, CallOK
<1>3. Locked'
  BY <1>1 DEF Locked
<1>4. Told'
  <2>1. ASSUME NEW d \in Callers, calls'[d].state = "running"
        PROVE  cli'[calls'[d].session] = [system |-> System(d), messages |-> calls'[d].messages]
    <3>1. d # c /\ calls'[d] = calls[d]
      BY <1>1, <2>1 DEF Working
    <3> QED BY <2>1, <3>1 DEF Told
  <2>2. ASSUME NEW d \in Callers, calls'[d].state = "ready", ~calls'[d].full
        PROVE  Resumes(calls[d], d)'
    <3>1. d # c /\ calls'[d] = calls[d]
      BY <1>1, <2>2 DEF Working
    <3>2. Resumes(calls[d], d)
      BY <2>2, <3>1 DEF Told
    <3> QED BY <3>1, <3>2 DEF Resumes, Resumable, Sent
  <2> QED BY <2>1, <2>2 DEF Told
<1>5. Remembered'
  <2>1. lock # c
    BY DEF Locked
  <2> QED BY <1>1, <2>1 DEF Remembered, Settled
<1> QED BY <1>2, <1>3, <1>4, <1>5

LEMMA BareOK ==
    ASSUME NEW k, NEW m \in Message \cup {None}
    PROVE  /\ CallOK([NoCall EXCEPT !.state = "returned", !.result = m, !.shown = k.shown,
                                    !.says = k.says, !.got = k.got, !.again = k.again,
                                    !.agrees = k.agrees])
           /\ CallOK(NoCall)
<1> DEFINE r == [NoCall EXCEPT !.state = "returned", !.result = m, !.shown = k.shown,
                               !.says = k.says, !.got = k.got, !.again = k.again,
                               !.agrees = k.agrees]
<1>1. /\ DOMAIN r = DOMAIN NoCall /\ r.state = "returned" /\ r.messages = <<>>
      /\ r.session = Own /\ r.full = TRUE /\ r.result = m
  BY DEF NoCall
<1> HIDE DEF r
<1>2. <<>> \in Seq(Message) /\ Own \in Ids
  BY DEF Ids, Own
<1>3. CallOK(r)
  BY <1>1, <1>2 DEF CallOK
<1>4. CallOK(NoCall)
  BY <1>2 DEF CallOK, NoCall
<1> QED BY <1>3, <1>4 DEF r

\* Only the call that holds the lock works on the conversation.
LEMMA OneWorks ==
    ASSUME IInv, provider = "claude", NEW c \in Callers, calls[c].state \in Working
    PROVE  lock = c /\ \A d \in Callers : d # c => calls[d].state \notin Working
  BY DEF IInv, Locked

\* A call that fails marks the conversation and lets go of it.
LEMMA Released ==
    ASSUME IInv, provider = "claude", UNCHANGED <<provider, history, cli>>,
           NEW c \in Callers, calls[c].state \in Working, lock' = None, RecordFailure,
           Return(c, calls[c], None)
    PROVE  IInv'
<1> USE DEF IInv
<1> DEFINE k == [NoCall EXCEPT !.state = "returned", !.result = None, !.shown = calls[c].shown,
                               !.says = calls[c].says, !.got = calls[c].got,
                               !.again = calls[c].again, !.agrees = calls[c].agrees]
<1>1. CallOK(k) /\ k.state = "returned"
  BY BareOK DEF NoCall
<1>2. calls' = [calls EXCEPT ![c] = k]
  BY DEF Return, Call
<1> HIDE DEF k
<1>3. DOMAIN calls' = Callers /\ calls'[c] = k
      /\ \A d \in Callers : d # c => calls'[d] = calls[d]
  BY <1>2 DEF Types
<1>4. conv' \in Conv /\ conv'.prefix = conv.prefix /\ conv'.reply = conv.reply /\ conv'.dirty
  BY DEF RecordFailure, Types, Conv
<1>5. Types'
  BY <1>1, <1>3, <1>4, ZenonT(60) DEF Types, CallOK
<1>6. \A d \in Callers : calls'[d].state \notin Working
  BY <1>1, <1>3, OneWorks DEF Working
<1>7. Locked'
  BY <1>6 DEF Locked
<1>8. Told'
  BY <1>6 DEF Told, Working
<1> QED BY <1>4, <1>5, <1>7, <1>8 DEF Remembered

LEMMA AskInv ==
    ASSUME IInv, provider = "claude", NEW c \in Callers, NEW h \in Seq(Message), Ask(c, h),
           history' \in Seq(Message)
    PROVE  IInv'
<1> DEFINE k == [NoCall EXCEPT !.state = "asked", !.messages = h]
<1>1. CallOK(k) /\ k.state = "asked"
  BY DEF CallOK, NoCall, Working, Ids, Own
<1>2. Call(c, k) /\ UNCHANGED <<provider, conv, cli, lock>> /\ calls[c].state = "none"
  BY DEF Ask
<1> HIDE DEF k
<1> QED BY <1>1, <1>2, Beside DEF Working

LEMMA TakeInv ==
    ASSUME IInv, provider = "claude", NEW c \in Callers, NEW commit \in BOOLEAN, Take(c, commit)
    PROVE  IInv'
<1>1. history' \in Seq(Message)
  <2>1. Summary \in Message
    BY DEF Message
  <2>2. calls[c].result \in Message \cup {None} /\ history \in Seq(Message)
    BY DEF IInv, Types, CallOK
  <2> QED BY <2>1, <2>2 DEF Take
<1>2. CallOK(NoCall) /\ NoCall.state = "none"
  BY DEF CallOK, NoCall, Working, Ids, Own
<1> QED BY <1>1, <1>2, Beside DEF Take, Working

LEMMA CancelInv ==
    ASSUME IInv, provider = "claude", NEW c \in Callers, Cancel(c)
    PROVE  IInv'
<1> USE DEF IInv
<1> DEFINE k == [calls[c] EXCEPT !.canceled = TRUE]
<1>1. /\ CallOK(k) /\ k.state = calls[c].state /\ k.messages = calls[c].messages
      /\ k.session = calls[c].session /\ k.full = calls[c].full
  BY DEF Types, CallOK, NoCall
<1>2. calls' = [calls EXCEPT ![c] = k] /\ UNCHANGED <<provider, history, conv, cli, lock>>
  BY DEF Cancel, Call
<1> HIDE DEF k
<1>3. DOMAIN calls' = Callers /\ calls'[c] = k
      /\ \A d \in Callers : d # c => calls'[d] = calls[d]
  BY <1>2 DEF Types
<1>4. \A d \in Callers : /\ CallOK(calls'[d]) /\ calls'[d].state = calls[d].state
                        /\ calls'[d].messages = calls[d].messages
                        /\ calls'[d].session = calls[d].session /\ calls'[d].full = calls[d].full
  BY <1>1, <1>3 DEF Types
<1>5. Types' /\ Locked'
  BY <1>2, <1>3, <1>4 DEF Types, Locked
<1>6. Told'
  <2>1. ASSUME NEW d \in Callers, calls'[d].state = "running"
        PROVE  cli'[calls'[d].session] = [system |-> System(d), messages |-> calls'[d].messages]
    BY <1>2, <1>4, <2>1 DEF Told
  <2>2. ASSUME NEW d \in Callers, calls'[d].state = "ready", ~calls'[d].full
        PROVE  Resumes(calls[d], d)'
    <3>1. Resumes(calls[d], d)
      BY <1>4, <2>2 DEF Told
    <3> QED BY <1>2, <1>4, <3>1 DEF Resumes, Resumable, Sent, System
  <2> QED BY <2>1, <2>2 DEF Told, System
<1>7. Settled' => Settled
  BY <1>2, <1>4 DEF Settled
<1>8. Remembered'
  BY <1>2, <1>7 DEF Remembered
<1> QED BY <1>5, <1>6, <1>8

\* Between calls the history, the adaptor and the CLI may each start afresh.
LEMMA IdleInv ==
    ASSUME IInv, provider = "claude",
           Restart \/ (\E h \in Branches : SelectBranch(h)) \/ (\E i \in Ids : Forget(i))
    PROVE  IInv'
<1> USE DEF IInv
<1>1. Idle /\ calls' = calls /\ lock' = lock /\ provider' = provider
  BY DEF Restart, SelectBranch, Forget
<1>2. \A c \in Callers : calls[c].state \notin Working
  BY <1>1 DEF Idle, Working
<1>3. Locked' /\ Told'
  BY <1>1, <1>2 DEF Locked, Told, Working
<1>4. CASE Restart
  <2>1. conv' = NoConv /\ history' = history /\ cli' = cli
    BY <1>4 DEF Restart
  <2>2. conv' \in Conv /\ conv'.prefix = None
    BY <2>1 DEF NoConv, Conv, Ids, Own
  <2> QED BY <1>1, <1>3, <2>1, <2>2 DEF Types, Remembered
<1>5. CASE \E h \in Branches : SelectBranch(h)
  <2>1. PICK h \in Branches : history' = h /\ UNCHANGED <<conv, cli>>
    BY <1>5 DEF SelectBranch
  <2>2. h \in Seq(ToSet(h)) /\ ToSet(h) \subseteq Message
    BY DEF Message
  <2>3. h \in Seq(Message)
    BY <2>2, SeqMonotonic
  <2> QED BY <1>1, <1>3, <2>1, <2>3 DEF Types, Remembered, Settled
<1>6. CASE \E i \in Ids : Forget(i)
  <2>1. PICK i \in Ids : cli' = [cli EXCEPT ![i] = None] /\ UNCHANGED <<history, conv>>
    BY <1>6 DEF Forget
  <2>2. cli' \in [Ids -> Stored \cup {None}]
        /\ \A j \in Ids : cli'[j] # None => cli'[j] = cli[j] /\ cli[j] # None
    BY <2>1 DEF Types
  <2>3. conv.id \in Ids
    BY DEF Types, Conv
  <2> QED BY <1>1, <1>3, <2>1, <2>2, <2>3 DEF Types, Remembered, Settled
<1> QED BY <1>4, <1>5, <1>6

\* A step of call c to k that holds the lock: only what it knows is at stake.
LEMMA Holds ==
    ASSUME IInv, provider = "claude", UNCHANGED <<provider, history>>,
           NEW c \in Callers, NEW k, CallOK(k), Call(c, k), k.state \in Working,
           lock \in {None, c}, lock' = c,
           conv' \in Conv, conv'.prefix # None => conv'.reply # None,
           cli' \in [Ids -> Stored \cup {None}],
           k.state = "running" =>
               cli'[k.session] = [system |-> System(c), messages |-> k.messages],
           k.state = "ready" /\ ~k.full =>
               k.session = conv.id /\ conv' = conv /\ Resumable(k.messages, System(c)),
           k.state = "answered" \/ (k.state = "ready" /\ ~k.full) => Remembered'
    PROVE  IInv'
<1> USE DEF IInv
<1>1. DOMAIN calls' = Callers /\ calls'[c] = k
      /\ \A d \in Callers : d # c => calls'[d] = calls[d] /\ calls'[d].state \notin Working
  BY DEF Call, Types, Locked
<1>2. Types'
  BY <1>1, ZenonT(60) DEF Types, CallOK
<1>3. Locked'
  BY <1>1 DEF Locked
<1>4. Told'
  <2>1. ASSUME NEW d \in Callers, calls'[d].state = "running"
        PROVE  cli'[calls'[d].session] = [system |-> System(d), messages |-> calls'[d].messages]
    BY <1>1, <2>1 DEF Working
  <2>2. ASSUME NEW d \in Callers, calls'[d].state = "ready", ~calls'[d].full
        PROVE  Resumes(calls[d], d)'
    <3>1. d = c /\ calls'[d] = k
      BY <1>1, <2>2 DEF Working
    <3>2. k.session = conv.id /\ conv' = conv /\ Resumable(k.messages, System(c))
      BY <2>2, <3>1
    <3> QED BY <3>1, <3>2 DEF Resumes, Resumable, Sent, System
  <2> QED BY <2>1, <2>2 DEF Told, System
<1>5. Remembered'
  <2>1. Settled' => k.state = "answered" \/ (k.state = "ready" /\ ~k.full)
    BY <1>1 DEF Settled
  <2> QED BY <2>1 DEF Remembered
<1> QED BY <1>2, <1>3, <1>4, <1>5

LEMMA PlanInv ==
    ASSUME IInv, provider = "claude", NEW c \in Callers, Plan(c)
    PROVE  IInv'
<1> DEFINE resume == Resumable(calls[c].messages, System(c))
           session == IF resume \/ Sent = 0 THEN conv.id ELSE NewId({conv.id})
           k == [calls[c] EXCEPT !.state = "ready", !.attempt = 1, !.full = ~resume,
                                 !.session = session]
<1>0. Types /\ CallOK(calls[c]) /\ conv.id \in Ids
  BY DEF IInv, Types, Conv
<1>1. session \in Ids
  BY <1>0, NewIdOK
<1>2. resume \in BOOLEAN
  BY DEF Resumable
<1>3. /\ Call(c, k) /\ lock = None /\ lock' = c
      /\ UNCHANGED <<provider, history, conv, cli>> /\ calls[c].state = "asked"
  BY DEF Plan
<1> HIDE DEF resume, session
<1>4. /\ CallOK(k) /\ k.state = "ready" /\ k.full = ~resume /\ k.session = session
      /\ k.messages = calls[c].messages
  BY <1>0, <1>1, <1>2 DEF CallOK, NoCall, Working
<1> HIDE DEF k
<1>5. resume => session = conv.id
  BY DEF session
<1>6. ~k.full => Resumable(k.messages, System(c))
  BY <1>4 DEF resume
<1>7. ~k.full => Remembered'
  <2>1. Settled
    BY <1>3, <1>0, ModelsAssumption DEF Settled
  <2> QED BY <1>3, <2>1 DEF IInv, Remembered
<1> QED BY <1>0, <1>3, <1>4, <1>5, <1>6, <1>7, Holds DEF Types, Working

LEMMA RunInv ==
    ASSUME IInv, provider = "claude", NEW c \in Callers, Run(c)
    PROVE  IInv'
<1> DEFINE s == calls[c].session
           h == calls[c].messages
<1>0. /\ Types /\ CallOK(calls[c]) /\ s \in Ids /\ h \in Seq(Message) /\ conv.id \in Ids
      /\ conv \in Conv /\ cli \in [Ids -> Stored \cup {None}]
  BY DEF IInv, Types, CallOK, Conv
<1>1. calls[c].state = "ready" /\ lock = c /\ UNCHANGED <<provider, history, conv, lock>>
  BY DEF Run, IInv, Locked, Working
<1>2. CASE Call(c, [calls[c] EXCEPT !.state = "failed"]) /\ UNCHANGED cli
  <2> DEFINE k == [calls[c] EXCEPT !.state = "failed"]
  <2>1. CallOK(k) /\ k.state = "failed"
    BY <1>0 DEF CallOK, NoCall, Working
  <2> HIDE DEF k
  <2> QED BY <1>0, <1>1, <1>2, <2>1, Holds DEF Types, Working, k
<1>3. CASE ~(Call(c, [calls[c] EXCEPT !.state = "failed"]) /\ UNCHANGED cli)
  <2> DEFINE k == [calls[c] EXCEPT !.state = "running", !.says = <<>>]
             stored == IF calls[c].full THEN [system |-> System(c), messages |-> Delta(calls[c])]
                       ELSE [cli[s] EXCEPT !.messages = @ \o Delta(calls[c])]
  <2>1. /\ Call(c, k) /\ cli' = Kept([cli EXCEPT ![s] = stored], {s, conv.id})
        /\ IF calls[c].full THEN cli[s] = None ELSE cli[s] # None
    BY <1>3 DEF Run
  <2>2. stored = [system |-> System(c), messages |-> h]
    <3>1. CASE calls[c].full
      BY <3>1 DEF Delta
    <3>2. CASE ~calls[c].full
      <4>1. s = conv.id /\ Resumable(h, System(c))
        BY <1>1, <3>2 DEF IInv, Told, Resumes
      <4>2. /\ conv.prefix # None /\ ~conv.dirty /\ conv.system = c
            /\ Append(conv.prefix, conv.reply) \o SubSeq(h, Sent + 2, Len(h)) = h
        BY <1>0, <4>1, ResumedHolds
      <4>3. Settled /\ cli[conv.id] # None
        BY <1>1, <2>1, <3>2, <4>1 DEF Settled
      <4>4. cli[s] = [system |-> c, messages |-> Append(conv.prefix, conv.reply)]
        BY <4>1, <4>2, <4>3 DEF IInv, Remembered
      <4> DEFINE m == Append(conv.prefix, conv.reply)
                 rest == SubSeq(h, Sent + 2, Len(h))
                 old == cli[s]
      <4>5. stored = [old EXCEPT !.messages = old.messages \o rest]
        BY <3>2 DEF Delta
      <4>6. old = [system |-> c, messages |-> m] /\ m \o rest = h
        BY <4>2, <4>4
      <4> HIDE DEF stored, s, h, m, rest, old
      <4>7. stored = [system |-> c, messages |-> m \o rest]
        BY <4>5, <4>6
      <4> QED BY <4>6, <4>7 DEF System
    <3> QED BY <3>1, <3>2
  <2>3. stored \in Stored
    BY <1>0, <2>2 DEF Stored, System
  <2> HIDE DEF stored
  <2>4. cli' \in [Ids -> Stored \cup {None}] /\ cli'[s] = stored
    BY <1>0, <2>1, <2>3 DEF Kept
  <2>5. CallOK(k) /\ k.state = "running" /\ k.session = s /\ k.messages = h
    BY <1>0 DEF CallOK, NoCall, Working
  <2> HIDE DEF k
  <2> QED BY <1>0, <1>1, <2>1, <2>2, <2>4, <2>5, Holds DEF Types, Working
<1> QED BY <1>2, <1>3

LEMMA SpeakInv ==
    ASSUME IInv, provider = "claude", NEW c \in Callers, NEW x, Speak(c, x)
    PROVE  IInv'
<1> DEFINE k == [calls[c] EXCEPT !.says = Append(calls[c].says, x), !.shown = Append(@, x)]
<1>0. Types /\ CallOK(calls[c])
  BY DEF IInv, Types
<1>1. /\ calls[c].state = "running" /\ Call(c, k) /\ lock = c
      /\ UNCHANGED <<provider, history, conv, cli, lock>>
  BY DEF Speak, IInv, Locked, Working
<1>2. /\ CallOK(k) /\ k.state = "running" /\ k.session = calls[c].session
      /\ k.messages = calls[c].messages
  BY <1>0, <1>1 DEF CallOK, NoCall, Working
<1> HIDE DEF k
<1>3. cli'[k.session] = [system |-> System(c), messages |-> k.messages]
  BY <1>1, <1>2 DEF IInv, Told
<1> QED BY <1>0, <1>1, <1>2, <1>3, Holds DEF Types, Working

(* A Claude session with its messages replaced.                              *)
LEMMA Longer ==
    ASSUME NEW old, NEW c, NEW h, NEW m, old = [system |-> c, messages |-> h]
    PROVE  [old EXCEPT !.messages = m] = [system |-> c, messages |-> m]
OBVIOUS

LEMMA FinishInv ==
    ASSUME IInv, provider = "claude", NEW c \in Callers, NEW r \in Replies, Finish(c, r)
    PROVE  IInv'
<1> DEFINE said == Words(r) \o Calls(r)
           s == calls[c].session
           h == calls[c].messages
           k == [calls[c] EXCEPT !.state = "answered", !.says = said, !.got = Len(calls[c].says),
                                 !.agrees = IsPrefix(calls[c].says, said)]
<1>0. /\ Types /\ CallOK(calls[c]) /\ s \in Ids /\ h \in Seq(Message)
      /\ cli \in [Ids -> Stored \cup {None}]
  BY DEF IInv, Types, CallOK
<1>1. /\ calls[c].state = "running" /\ lock = c /\ Call(c, k)
      /\ cli' = [cli EXCEPT ![s].messages = Append(@, Assistant(said))]
      /\ RecordSuccess(c, Assistant(said)) /\ UNCHANGED <<provider, history, lock>>
  BY DEF Finish, Parsed, IInv, Locked, Working
<1>2. Assistant(said) \in Message
  BY DEF Message
<1>3. CallOK(k) /\ k.state = "answered"
  BY <1>0, <1>2 DEF CallOK, NoCall, Working
<1> HIDE DEF k
<1>4. conv' = [id |-> s, prefix |-> h, system |-> c, reply |-> Assistant(said), dirty |-> FALSE]
  BY <1>1 DEF RecordSuccess, System
<1>5. cli[s] = [system |-> c, messages |-> h]
  BY <1>1 DEF IInv, Told, System
<1> HIDE DEF s, h, said
<1>6. cli' \in [Ids -> Stored \cup {None}]
      /\ cli'[s] = [system |-> c, messages |-> Append(h, Assistant(said))]
  <2> DEFINE m == Append(h, Assistant(said))
             new == [system |-> c, messages |-> m]
  <2>1. m \in Seq(Message)
    BY <1>0, <1>2
  <2>2. cli' = [cli EXCEPT ![s] = [cli[s] EXCEPT !.messages = Append(cli[s].messages, Assistant(said))]]
    BY <1>1
  <2>3. [cli[s] EXCEPT !.messages = Append(cli[s].messages, Assistant(said))] = new
    <3>1. [cli[s] EXCEPT !.messages = m] = [system |-> c, messages |-> m]
      <4> DEFINE old == cli[s]
      <4>1. old = [system |-> c, messages |-> h]
        BY <1>5
      <4> HIDE DEF old, m
      <4>2. [old EXCEPT !.messages = m] = [system |-> c, messages |-> m]
        BY <4>1, Longer
      <4> QED BY <4>2 DEF old
    <3>2. cli[s].messages = h
      BY <1>5
    <3> QED BY <3>1, <3>2
  <2>4. new \in Stored
    BY <2>1 DEF Stored
  <2> HIDE DEF new
  <2>5. cli' \in [Ids -> Stored \cup {None}] /\ cli'[s] = new
    BY <1>0, <2>2, <2>3, <2>4
  <2> QED BY <2>5 DEF new
<1>7. conv' \in Conv /\ conv'.reply # None
  BY <1>0, <1>2, <1>4, ModelsAssumption DEF Conv
<1>8. Remembered'
  BY <1>4, <1>6 DEF Remembered
<1> QED BY <1>0, <1>1, <1>3, <1>6, <1>7, <1>8, Holds DEF Working

LEMMA NativeToolInv ==
    ASSUME IInv, provider = "claude", NEW c \in Callers, NEW r \in Replies, NativeTool(c, r)
    PROVE  IInv'
<1> DEFINE k == [calls[c] EXCEPT !.state = "answered", !.says = Words(r) \o Calls(r)]
<1>0. Types /\ CallOK(calls[c])
  BY DEF IInv, Types
<1>1. /\ lock = c /\ Call(c, k) /\ RecordFailure /\ UNCHANGED <<provider, history, cli, lock>>
  BY DEF NativeTool, Parsed, IInv, Locked, Working
<1>2. Assistant(Words(r) \o Calls(r)) \in Message
  BY DEF Message
<1>3. CallOK(k) /\ k.state = "answered"
  BY <1>0, <1>2 DEF CallOK, NoCall, Working
<1> HIDE DEF k
<1>4. conv' \in Conv /\ conv'.prefix = conv.prefix /\ conv'.reply = conv.reply /\ conv'.dirty
  BY <1>0, <1>1 DEF RecordFailure, Types, Conv
<1>5. Remembered'
  BY <1>4 DEF Remembered
<1> QED BY <1>0, <1>1, <1>3, <1>4, <1>5, Holds DEF Types, Working

LEMMA AnsweredInv ==
    ASSUME IInv, provider = "claude", NEW c \in Callers, Answered(c)
    PROVE  IInv'
<1> USE DEF IInv
<1>1. /\ calls[c].state = "answered" /\ lock' = None /\ UNCHANGED <<provider, history, cli>>
  BY DEF Answered
<1>2. CASE RecordFailure /\ Return(c, calls[c], None)
  BY <1>1, <1>2, Released DEF Working
<1>3. CASE ~(RecordFailure /\ Return(c, calls[c], None))
  <2> DEFINE shown == IF Streams(c) THEN calls[c].shown \o Rest(calls[c]) ELSE calls[c].shown
             j == [calls[c] EXCEPT !.shown = IF Streams(c) THEN @ \o Rest(calls[c]) ELSE @,
                                   !.got = Len(Words(calls[c].says))]
             k == [NoCall EXCEPT !.state = "returned", !.result = Assistant(calls[c].says),
                                 !.shown = j.shown, !.says = j.says, !.got = j.got,
                                 !.again = j.again, !.agrees = j.agrees]
  <2>1. conv' = conv /\ calls' = [calls EXCEPT ![c] = k]
    BY <1>3 DEF Answered, Return, Call
  <2>2. Assistant(calls[c].says) \in Message
    BY <1>1 DEF Types, CallOK
  <2> HIDE DEF j
  <2>3. CallOK(k) /\ k.state = "returned"
    BY <2>2, BareOK DEF NoCall
  <2> HIDE DEF k
  <2>4. DOMAIN calls' = Callers /\ calls'[c] = k
        /\ \A d \in Callers : d # c => calls'[d] = calls[d]
    BY <2>1 DEF Types
  <2>5. Types'
    BY <1>1, <2>1, <2>3, <2>4 DEF Types, CallOK
  <2>6. \A d \in Callers : calls'[d].state \notin Working
    BY <1>1, <2>3, <2>4, OneWorks DEF Working
  <2>7. Locked' /\ Told'
    BY <1>1, <2>6, ModelsAssumption DEF Locked, Told, Working
  <2>8. Remembered'
    <3>1. Settled
      BY <1>1, OneWorks DEF Settled, Working
    <3> QED BY <1>1, <2>1, <3>1 DEF Remembered
  <2> QED BY <2>5, <2>7, <2>8
<1> QED BY <1>2, <1>3

LEMMA RunFailsInv ==
    ASSUME IInv, provider = "claude", NEW c \in Callers, NEW passing \in BOOLEAN,
           RunFails(c, passing)
    PROVE  IInv'
<1> DEFINE k == [calls[c] EXCEPT !.state = "failed"]
<1>0. Types /\ CallOK(calls[c])
  BY DEF IInv, Types
<1>1. calls[c].state = "running" /\ lock = c /\ UNCHANGED <<provider, history, cli>>
  BY DEF RunFails, IInv, Locked, Working
<1>2. CASE passing
  <2>1. Call(c, k) /\ UNCHANGED <<conv, lock>>
    BY <1>2 DEF RunFails
  <2>2. CallOK(k) /\ k.state = "failed"
    BY <1>0 DEF CallOK, NoCall, Working
  <2> HIDE DEF k
  <2> QED BY <1>0, <1>1, <2>1, <2>2, Holds DEF Types, Working
<1>3. CASE ~passing
  BY <1>1, <1>3, Released DEF RunFails, Working
<1> QED BY <1>2, <1>3

\* A call that is tried again has the fields of a call.
Retried(k, id, attempt, again) ==
    [k EXCEPT !.state = "ready", !.attempt = attempt, !.full = TRUE, !.session = id, !.again = again]

LEMMA RetriedOK ==
    ASSUME NEW k, CallOK(k), NEW id \in Ids, NEW attempt, NEW again
    PROVE  LET n == Retried(k, id, attempt, again)
           IN  CallOK(n) /\ n.state = "ready" /\ n.full
  BY SMTT(30) DEF CallOK, NoCall, Working, Retried

LEMMA RetryRunInv ==
    ASSUME IInv, provider = "claude", NEW c \in Callers, RetryRun(c)
    PROVE  IInv'
<1>0. Types /\ CallOK(calls[c]) /\ conv.id \in Ids /\ calls[c].session \in Ids
  BY DEF IInv, Types, CallOK, Conv
<1>1. calls[c].state = "failed" /\ lock = c /\ UNCHANGED <<provider, history, cli>>
  BY DEF RetryRun, IInv, Locked, Working
<1>2. CASE RecordFailure /\ lock' = None /\ Return(c, calls[c], None)
  BY <1>1, <1>2, Released DEF Working
<1>3. CASE ~(RecordFailure /\ lock' = None /\ Return(c, calls[c], None))
  <2> DEFINE id == NewId({conv.id, calls[c].session})
             k == Retried(calls[c], id, calls[c].attempt + 1, calls[c].shown # <<>>)
  <2>1. Call(c, k) /\ UNCHANGED <<conv, lock>>
    BY <1>3 DEF RetryRun, Retried
  <2>2. id \in Ids
    BY <1>0, NewIdOK
  <2> HIDE DEF id
  <2>3. CallOK(k) /\ k.state = "ready" /\ k.full
    BY <1>0, <2>2, RetriedOK
  <2> HIDE DEF k
  <2>4. lock' = c /\ conv' = conv /\ cli' = cli
    BY <1>1, <2>1
  <2>5. conv' \in Conv /\ (conv'.prefix # None => conv'.reply # None) /\ cli' \in [Ids -> Stored \cup {None}]
    BY <1>0, <2>4 DEF Types
  <2>6. k.state \in Working
    BY <2>3 DEF Working
  <2> QED BY <1>1, <2>1, <2>3, <2>4, <2>5, <2>6, Holds
<1> QED BY <1>2, <1>3

LEMMA StepInv == IInv /\ [Next]_vars => IInv'
<1> SUFFICES ASSUME IInv, [Next]_vars PROVE IInv'
  OBVIOUS
<1>1. provider' = provider
  BY ZenonT(60) DEF Next, Turn, Continue, Compact, Ask, Restart, SelectBranch, Forget, Cancel, Take, Adaptor,
         Plan, Run, Answered, RetryRun, Killed, Wait, StreamCanceled, Model, Send, Event,
         StreamBreaks, Speak, Finish, NativeTool, RunFails, StreamEnds, vars
<1>2. CASE provider # "claude"
  BY <1>1, <1>2 DEF IInv
<1>3. CASE provider = "claude"
  <2> USE <1>3
  <2>1. history \in Seq(Message)
    BY DEF IInv, Types
  <2>2. ASSUME NEW t \in UserTexts, Turn(t) PROVE IInv'
    <3>1. User(t) \in Message
      BY DEF Message
    <3>2. Append(history, User(t)) \in Seq(Message) /\ history' = Append(history, User(t))
      BY <2>1, <2>2, <3>1 DEF Turn
    <3>3. Ask("loop", history') /\ "loop" \in Callers
      BY <2>2 DEF Turn, Callers
    <3> QED BY <3>2, <3>3, AskInv
  <2>3. CASE Continue
    <3>1. Ask("loop", history) /\ history' = history /\ "loop" \in Callers
      BY <2>3 DEF Continue, Callers
    <3> QED BY <2>1, <3>1, AskInv
  <2>4. CASE Compact
    <3>1. Ask("compaction", history) /\ history' = history /\ "compaction" \in Callers
      BY <2>4 DEF Compact, Callers
    <3> QED BY <2>1, <3>1, AskInv
  <2>5. ASSUME NEW c \in Callers, Adaptor(c) PROVE IInv'
    <3>1. CASE Killed(c)
      BY <3>1, Released DEF Killed, Working
    <3>2. ~Wait(c) /\ ~StreamCanceled(c)
      BY DEF Wait, StreamCanceled, Http
    <3> QED BY <2>5, <3>1, <3>2, PlanInv, RunInv, AnsweredInv, RetryRunInv DEF Adaptor
  <2>6. ASSUME NEW c \in Callers, Model(c) PROVE IInv'
    <3>1. ~Send(c) /\ ~Event(c) /\ ~StreamBreaks(c) /\ \A end \in Ends : ~StreamEnds(c, end)
      BY DEF Send, Event, StreamBreaks, StreamEnds, Http
    <3> QED BY <2>6, <3>1, SpeakInv, FinishInv, NativeToolInv, RunFailsInv DEF Model
  <2>7. CASE UNCHANGED vars
    BY <2>7 DEF vars, IInv, Types, CallOK, Locked, Remembered, Settled, Told, Resumes, Resumable,
                Sent
  <2> QED BY <2>2, <2>3, <2>4, <2>5, <2>6, <2>7, IdleInv, CancelInv, TakeInv DEF Next
<1> QED BY <1>2, <1>3
-----------------------------------------------------------------------------
\* Whenever the CLI works on a call, its own conversation holds the call's
\* messages, each once and in order, under the call's system prompt, whatever
\* was retried, canceled, forgotten, compacted or left for another branch
\* before (planTurn and recordSuccess, claude_cli_session.go).
THEOREM ConversationHoldsHistory == Spec => []HoldsHistory
<1>1. Init => IInv
  BY InitInv
<1>2. IInv /\ [Next]_vars => IInv'
  BY StepInv
<1>3. IInv => HoldsHistory
  BY DEF IInv, Told, HoldsHistory
<1> QED BY <1>1, <1>2, <1>3, PTL DEF Spec

-----------------------------------------------------------------------------
(***************************************************************************)
(* What is picked out of a reply.                                          *)
(***************************************************************************)

HIDE ModelsAssumption

\* Induction: a set of numbers that is closed under the successor is the set
\* of all, for a least number outside would follow one inside.
LEMMA Induction ==
  ASSUME NEW T, T \subseteq Nat, 0 \in T, \A n \in T : n + 1 \in T
  PROVE  T = Nat
<1> SUFFICES ASSUME Nat \ T # {} PROVE FALSE
  OBVIOUS
<1> DEFINE Rest0 == Nat \ T
           R == StrictSubsetOrdering(Nat)
           S == FiniteSubsetsOf(Nat)
           U == {1 .. n : n \in Rest0}
<1>1. IsWellFoundedOn(R, S)
  BY FS_StrictSubsetOrderingWellFounded
<1>2. U \subseteq S
  <2>1. \A n \in Nat : 1 .. n \in SUBSET Nat /\ IsFiniteSet(1 .. n)
    BY FS_Interval, SMTT(30)
  <2> QED BY <2>1 DEF FiniteSubsetsOf
<1>3. U # {}
  OBVIOUS
<1>4. PICK x \in U : \A y \in U : ~(<<y, x>> \in R)
  <2> HIDE DEF R, S, U
  <2> QED BY <1>1, <1>2, <1>3, WFMin
<1>5. PICK n \in Rest0 : x = 1 .. n
  BY <1>4
<1>6. n \in Nat /\ n # 0 /\ n - 1 \in Nat
  BY <1>5
<1>7. n - 1 \in Rest0
  BY <1>5, <1>6
<1>8. /\ 1 .. n - 1 \subseteq 1 .. n /\ n \in 1 .. n /\ n \notin 1 .. n - 1
      /\ <<1 .. n - 1, 1 .. n>> \in (SUBSET Nat) \X (SUBSET Nat)
  BY <1>6, SMTT(30)
<1>9. <<1 .. n - 1, 1 .. n>> \in R
  BY <1>8 DEF StrictSubsetOrdering
<1> QED BY <1>4, <1>5, <1>7, <1>9

\* f picks the pieces of r of some kinds, up to the n-th piece.
Picks(f, r, n, kinds) ==
  f = [i \in 0 .. n |-> IF i = 0 THEN <<>>
                        ELSE IF r[i] \in kinds THEN Append(f[i - 1], r[i]) ELSE f[i - 1]]

\* Such a function there is, for each number of pieces.
LEMMA Pickable == ASSUME NEW r, NEW kinds PROVE \A n \in Nat : \E f : Picks(f, r, n, kinds)
<1> DEFINE T == {n \in Nat : \E f : Picks(f, r, n, kinds)}
<1>1. 0 \in T
  <2> DEFINE f == [i \in 0 .. 0 |-> <<>>]
  <2>1. Picks(f, r, 0, kinds)
    BY DEF Picks
  <2> QED BY <2>1
<1>2. ASSUME NEW n \in T PROVE n + 1 \in T
  <2>1. PICK f : Picks(f, r, n, kinds)
    OBVIOUS
  <2> DEFINE next == IF r[n + 1] \in kinds THEN Append(f[n], r[n + 1]) ELSE f[n]
             g == [i \in 0 .. n + 1 |-> IF i = n + 1 THEN next ELSE f[i]]
             body(i) == IF i = 0 THEN <<>>
                        ELSE IF r[i] \in kinds THEN Append(g[i - 1], r[i]) ELSE g[i - 1]
  <2>2. ASSUME NEW i \in 0 .. n + 1 PROVE g[i] = body(i)
    <3>1. CASE i = n + 1
      <4>1. g[i] = next /\ i # 0 /\ g[i - 1] = f[n]
        BY <3>1
      <4> QED BY <3>1, <4>1
    <3>2. CASE i # n + 1
      <4>1. i \in 0 .. n /\ g[i] = f[i] /\ (i # 0 => g[i - 1] = f[i - 1])
        BY <3>2
      <4>2. f[i] = IF i = 0 THEN <<>>
                   ELSE IF r[i] \in kinds THEN Append(f[i - 1], r[i]) ELSE f[i - 1]
        BY <2>1, <4>1 DEF Picks
      <4> QED BY <4>1, <4>2
    <3> QED BY <3>1, <3>2
  <2>3. g = [i \in 0 .. n + 1 |-> body(i)]
    <3>1. g = [i \in 0 .. n + 1 |-> g[i]]
      OBVIOUS
    <3> HIDE DEF g
    <3> QED BY <2>2, <3>1
  <2>4. Picks(g, r, n + 1, kinds)
    <3> HIDE DEF g
    <3> QED BY <2>3 DEF Picks
  <2> QED BY <2>4
<1>3. T = Nat
  <2> HIDE DEF T
  <2>1. T \subseteq Nat
    BY DEF T
  <2> QED BY <1>1, <1>2, <2>1, Induction
<1> QED BY <1>3

\* What picks is defined by what it picks at each piece.
LEMMA PicksAt ==
  ASSUME NEW f, NEW r, NEW n \in Nat, NEW kinds, Picks(f, r, n, kinds)
  PROVE  /\ f[0] = <<>>
         /\ \A i \in 1 .. n : f[i] = IF r[i] \in kinds THEN Append(f[i - 1], r[i]) ELSE f[i - 1]
<1>1. \A i \in 0 .. n : f[i] = IF i = 0 THEN <<>>
                        ELSE IF r[i] \in kinds THEN Append(f[i - 1], r[i]) ELSE f[i - 1]
  BY DEF Picks
<1> QED BY <1>1

\* It is what Picked computes.
LEMMA PickedIs ==
  ASSUME NEW r, Len(r) \in Nat, NEW kinds
  PROVE  \E f : Picks(f, r, Len(r), kinds) /\ Picked(r, kinds) = f[Len(r)]
<1> DEFINE f == CHOOSE f : Picks(f, r, Len(r), kinds)
<1>1. Picks(f, r, Len(r), kinds)
  BY Pickable
<1>2. Picked(r, kinds) = f[Len(r)]
  BY DEF Picked, Picks
<1> QED BY <1>1, <1>2

\* A function that does what Picked says is what it computes.
LEMMA PickedBy ==
  ASSUME NEW r, Len(r) \in Nat, NEW kinds, NEW f, f[0] = <<>>,
         \A i \in 1 .. Len(r) : f[i] = IF r[i] \in kinds THEN Append(f[i - 1], r[i]) ELSE f[i - 1]
  PROVE  Picked(r, kinds) = f[Len(r)]
<1>1. PICK g : Picks(g, r, Len(r), kinds) /\ Picked(r, kinds) = g[Len(r)]
  BY PickedIs
<1> DEFINE T == {i \in Nat : i <= Len(r) => f[i] = g[i]}
<1>2. 0 \in T
  BY <1>1, PicksAt
<1>3. ASSUME NEW i \in T PROVE i + 1 \in T
  <2> SUFFICES ASSUME i + 1 <= Len(r) PROVE f[i + 1] = g[i + 1]
    OBVIOUS
  <2>1. i + 1 \in 1 .. Len(r) /\ (i + 1) - 1 = i /\ f[i] = g[i]
    OBVIOUS
  <2> QED BY <1>1, <2>1, PicksAt
<1>4. T = Nat
  <2> HIDE DEF T
  <2>1. T \subseteq Nat
    BY DEF T
  <2> QED BY <1>2, <1>3, <2>1, Induction
<1> QED BY <1>1, <1>4

\* What is picked are pieces of the kinds.
LEMMA PicksType ==
  ASSUME NEW S, NEW r \in Seq(S), NEW kinds, NEW f, Picks(f, r, Len(r), kinds)
  PROVE  \A i \in 0 .. Len(r) : f[i] \in Seq(S \cap kinds)
<1> DEFINE T == {i \in Nat : i <= Len(r) => f[i] \in Seq(S \cap kinds)}
<1>1. 0 \in T
  <2>1. Len(r) \in Nat
    OBVIOUS
  <2>2. f[0] = <<>>
    BY <2>1, PicksAt
  <2>3. f[0] \in Seq(S \cap kinds)
    BY <2>2
  <2> QED BY <2>3
<1>2. ASSUME NEW i \in T PROVE i + 1 \in T
  <2> SUFFICES ASSUME i + 1 <= Len(r) PROVE f[i + 1] \in Seq(S \cap kinds)
    OBVIOUS
  <2>1. i + 1 \in 1 .. Len(r) /\ (i + 1) - 1 = i /\ r[i + 1] \in S /\ f[i] \in Seq(S \cap kinds)
    OBVIOUS
  <2>2. f[i + 1] = IF r[i + 1] \in kinds THEN Append(f[i], r[i + 1]) ELSE f[i]
    BY <2>1, PicksAt
  <2> QED BY <2>1, <2>2
<1>3. T = Nat
  <2> HIDE DEF T
  <2>1. T \subseteq Nat
    BY DEF T
  <2> QED BY <1>1, <1>2, <2>1, Induction
<1> QED BY <1>3

LEMMA PickedType ==
  ASSUME NEW S, NEW r \in Seq(S), NEW kinds
  PROVE  Picked(r, kinds) \in Seq(S \cap kinds)
<1>1. Len(r) \in Nat /\ Len(r) \in 0 .. Len(r)
  OBVIOUS
<1>2. PICK f : Picks(f, r, Len(r), kinds) /\ Picked(r, kinds) = f[Len(r)]
  BY <1>1, PickedIs
<1> QED BY <1>1, <1>2, PicksType

\* Nothing is picked of a sequence without pieces of the kinds, ...
LEMMA PickedNone ==
  ASSUME NEW S, NEW r \in Seq(S), NEW kinds, S \cap kinds = {}
  PROVE  Picked(r, kinds) = <<>>
<1> DEFINE f == [i \in 0 .. Len(r) |-> <<>>]
<1>1. Len(r) \in Nat /\ \A i \in 1 .. Len(r) : r[i] \notin kinds
  OBVIOUS
<1>2. f[0] = <<>> /\ f[Len(r)] = <<>> /\ \A i \in 1 .. Len(r) : f[i] = f[i - 1]
  BY <1>1
<1> HIDE DEF f
<1> QED BY <1>1, <1>2, PickedBy

\* ... all of one that has no others, ...
LEMMA PickedAll ==
  ASSUME NEW kinds, NEW r \in Seq(kinds)
  PROVE  Picked(r, kinds) = r
<1> DEFINE f == [i \in 0 .. Len(r) |-> SubSeq(r, 1, i)]
<1>1. Len(r) \in Nat /\ \A i \in 1 .. Len(r) : r[i] \in kinds
  OBVIOUS
<1>2. f[0] = <<>> /\ f[Len(r)] = r
  OBVIOUS
<1>3. ASSUME NEW i \in 1 .. Len(r) PROVE f[i] = Append(f[i - 1], r[i])
  <2>1. /\ f[i] \in Seq(kinds) /\ Len(f[i]) = i /\ \A j \in 1 .. i : f[i][j] = r[j]
        /\ f[i - 1] \in Seq(kinds) /\ Len(f[i - 1]) = i - 1
        /\ \A j \in 1 .. i - 1 : f[i - 1][j] = r[j]
    OBVIOUS
  <2> HIDE DEF f
  <2> DEFINE next == Append(f[i - 1], r[i])
  <2>2. next \in Seq(kinds) /\ Len(next) = i /\ \A j \in 1 .. i : next[j] = r[j]
    BY <1>1, <2>1
  <2> DEFINE here == f[i]
  <2>3. here \in Seq(kinds) /\ Len(here) = Len(next) /\ \A j \in 1 .. Len(here) : here[j] = next[j]
    BY <2>1, <2>2
  <2> HIDE DEF next, here
  <2>4. here = next
    BY <2>2, <2>3, SeqEqual
  <2> QED BY <2>4 DEF next, here
<1> HIDE DEF f
<1> QED BY <1>1, <1>2, <1>3, PickedBy

\* Concatenation and Append associate.
LEMMA Appended ==
  ASSUME NEW S, NEW s \in Seq(S), NEW t \in Seq(S), NEW x \in S
  PROVE  s \o Append(t, x) = Append(s \o t, x)
<1>1. <<x>> \in Seq(S) /\ s \o t \in Seq(S)
  OBVIOUS
<1>2. (s \o t) \o <<x>> = s \o (t \o <<x>>)
  BY <1>1, ConcatAssociative
<1>3. Append(t, x) = t \o <<x>> /\ Append(s \o t, x) = (s \o t) \o <<x>>
  BY <1>1, AppendIsConcat
<1> QED BY <1>2, <1>3

\* ... and of two sequences what is picked of the one and of the other.
LEMMA PickedConcat ==
  ASSUME NEW S, NEW a \in Seq(S), NEW b \in Seq(S), NEW kinds
  PROVE  Picked(a \o b, kinds) = Picked(a, kinds) \o Picked(b, kinds)
<1> DEFINE m == Len(a)
           n == Len(b)
           r == a \o b
           K == S \cap kinds
<1>1. /\ m \in Nat /\ n \in Nat /\ r \in Seq(S) /\ Len(r) = m + n
      /\ \A i \in 1 .. m : r[i] = a[i]
      /\ \A i \in 1 .. m + n : i > m => r[i] = b[i - m]
  OBVIOUS
<1>2. PICK f : Picks(f, a, m, kinds) /\ Picked(a, kinds) = f[m]
  BY <1>1, PickedIs
<1>3. PICK g : Picks(g, b, n, kinds) /\ Picked(b, kinds) = g[n]
  BY <1>1, PickedIs
<1>4. /\ \A i \in 0 .. m : f[i] \in Seq(K)
      /\ \A i \in 0 .. n : g[i] \in Seq(K)
  BY <1>2, <1>3, PicksType
<1> DEFINE h == [i \in 0 .. m + n |-> IF i <= m THEN f[i] ELSE f[m] \o g[i - m]]
<1>5. \A i \in 1 .. n : g[i] = IF b[i] \in kinds THEN Append(g[i - 1], b[i]) ELSE g[i - 1]
  BY <1>1, <1>3, PicksAt
<1>6. \A i \in 1 .. m : f[i] = IF a[i] \in kinds THEN Append(f[i - 1], a[i]) ELSE f[i - 1]
  BY <1>1, <1>2, PicksAt
<1>7. f[0] = <<>> /\ g[0] = <<>>
  BY <1>1, <1>2, <1>3, PicksAt
<1> HIDE DEF m, n, r, K
<1>8. h[0] = <<>> /\ h[m + n] = f[m] \o g[n]
  <2>1. h[0] = <<>>
    BY <1>1, <1>7
  <2>2. CASE n = 0
    <3>1. h[m + n] = f[m] /\ f[m] \in Seq(K) /\ g[n] = <<>>
      BY <1>1, <1>4, <1>7, <2>2
    <3>2. f[m] \o <<>> = f[m]
      BY <3>1, ConcatEmptySeq
    <3> QED BY <2>1, <3>1, <3>2
  <2>3. CASE n # 0
    <3>1. ~(m + n <= m) /\ (m + n) - m = n /\ m + n \in 0 .. m + n
      BY <1>1, <2>3
    <3> QED BY <2>1, <3>1
  <2> QED BY <2>2, <2>3
<1>9. ASSUME NEW i \in 1 .. m + n
      PROVE  h[i] = IF r[i] \in kinds THEN Append(h[i - 1], r[i]) ELSE h[i - 1]
  <2>1. CASE i <= m
    <3>1. h[i] = f[i] /\ h[i - 1] = f[i - 1] /\ r[i] = a[i] /\ i \in 1 .. m
      BY <1>1, <2>1
    <3> QED BY <1>6, <3>1
  <2>2. CASE i > m
    <3> DEFINE j == i - m
    <3>1. j \in 1 .. n /\ r[i] = b[j] /\ j - 1 \in 0 .. n /\ f[m] \in Seq(K) /\ g[j - 1] \in Seq(K)
      BY <1>1, <1>4, <2>2
    <3>2. h[i] = f[m] \o g[j]
      BY <1>1, <2>2, SMTT(60)
    <3>3. h[i - 1] = f[m] \o g[j - 1]
      <4>1. CASE j = 1
        <5>1. i - 1 = m /\ j - 1 = 0
          BY <1>1, <2>2, <4>1
        <5>2. h[i - 1] = f[m]
          BY <1>1, <5>1
        <5>3. g[j - 1] = <<>>
          BY <1>7, <5>1
        <5>4. f[m] \o <<>> = f[m]
          BY <3>1, ConcatEmptySeq
        <5> QED BY <5>2, <5>3, <5>4
      <4>2. CASE j # 1
        <5>1. i - 1 \in 0 .. m + n /\ ~(i - 1 <= m) /\ (i - 1) - m = j - 1
          BY <1>1, <2>2, <4>2
        <5> QED BY <5>1
      <4> QED BY <4>1, <4>2
    <3> HIDE DEF h, j
    <3>4. CASE b[j] \in kinds
      <4>1. b[j] \in K
        BY <1>1, <3>1, <3>4 DEF K, n
      <4>2. g[j] = Append(g[j - 1], b[j])
        BY <1>5, <3>1, <3>4
      <4>3. f[m] \o Append(g[j - 1], b[j]) = Append(f[m] \o g[j - 1], b[j])
        <5> DEFINE x == f[m]
                   y == g[j - 1]
                   z == b[j]
        <5>1. x \in Seq(K) /\ y \in Seq(K) /\ z \in K
          BY <3>1, <4>1
        <5> HIDE DEF x, y, z
        <5>2. x \o Append(y, z) = Append(x \o y, z)
          BY <5>1, Appended, SMTT(30)
        <5> QED BY <5>2 DEF x, y, z
      <4> QED BY <3>1, <3>2, <3>3, <3>4, <4>2, <4>3
    <3>5. CASE b[j] \notin kinds
      BY <1>5, <3>1, <3>2, <3>3, <3>5
    <3> QED BY <3>4, <3>5
  <2> QED BY <1>1, <2>1, <2>2
<1> HIDE DEF h
<1>10. Picked(r, kinds) = h[m + n]
  <2>1. Len(r) = m + n /\ Len(r) \in Nat
    BY <1>1
  <2>2. h[0] = <<>>
    BY <1>8
  <2>3. \A i \in 1 .. Len(r) : h[i] = IF r[i] \in kinds THEN Append(h[i - 1], r[i]) ELSE h[i - 1]
    BY <1>9, <2>1
  <2>4. Picked(r, kinds) = h[Len(r)]
    BY <2>1, <2>2, <2>3, PickedBy
  <2> QED BY <2>1, <2>4
<1> QED BY <1>2, <1>3, <1>8, <1>10 DEF r

\* A set of numbers that has a bound has a greatest one.
LEMMA Greatest ==
  \A n \in Nat : \A B \in SUBSET (1 .. n) : B # {} => \E i \in B : \A j \in B : j <= i
<1> DEFINE T == {n \in Nat : \A B \in SUBSET (1 .. n) :
                                B # {} => \E i \in B : \A j \in B : j <= i}
<1>1. 0 \in T
  <2>1. \A B \in SUBSET (1 .. 0) : B = {}
    OBVIOUS
  <2> QED BY <2>1
<1>2. ASSUME NEW n \in T PROVE n + 1 \in T
  <2> SUFFICES ASSUME NEW B \in SUBSET (1 .. n + 1), B # {}
               PROVE  \E i \in B : \A j \in B : j <= i
    OBVIOUS
  <2>1. CASE n + 1 \in B
    BY <2>1
  <2>2. CASE n + 1 \notin B
    <3>1. B \in SUBSET (1 .. n)
      BY <2>2
    <3> QED BY <3>1
  <2> QED BY <2>1, <2>2
<1>3. T = Nat
  <2> HIDE DEF T
  <2>1. T \subseteq Nat
    BY DEF T
  <2> QED BY <1>1, <1>2, <2>1, Induction
<1> QED BY <1>3

\* The second of two sequences ends their concatenation.
LEMMA Suffix ==
  ASSUME NEW S, NEW a \in Seq(S), NEW b \in Seq(S)
  PROVE  IsSuffix(b, a \o b)
<1> DEFINE t == a \o b
           rb == Reverse(b)
           rt == Reverse(t)
<1>1. /\ t \in Seq(S) /\ Len(t) = Len(a) + Len(b) /\ Len(a) \in Nat /\ Len(b) \in Nat
      /\ \A i \in 1 .. Len(b) : t[Len(a) + i] = b[i]
  OBVIOUS
<1> HIDE DEF t
<1>2. /\ rb \in Seq(S) /\ Len(rb) = Len(b) /\ \A i \in 1 .. Len(b) : rb[i] = b[Len(b) - i + 1]
      /\ rt \in Seq(S) /\ Len(rt) = Len(t) /\ \A i \in 1 .. Len(t) : rt[i] = t[Len(t) - i + 1]
  BY <1>1 DEF Reverse
<1>3. \A i \in 1 .. Len(b) : rb[i] = rt[i]
  <2> TAKE i \in 1 .. Len(b)
  <2>1. /\ Len(b) - i + 1 \in 1 .. Len(b) /\ Len(t) - i + 1 = Len(a) + (Len(b) - i + 1)
        /\ i \in 1 .. Len(t)
    BY <1>1
  <2>2. rb[i] = b[Len(b) - i + 1] /\ rt[i] = t[Len(t) - i + 1]
    BY <1>2, <2>1
  <2>3. t[Len(a) + (Len(b) - i + 1)] = b[Len(b) - i + 1]
    BY <1>1, <2>1
  <2> QED BY <2>1, <2>2, <2>3
<1> HIDE DEF rb, rt
<1>4. SubSeq(rb, 1, Len(rb)) = SubSeq(rt, 1, Len(rb))
  <2> DEFINE x == SubSeq(rb, 1, Len(rb))
             y == SubSeq(rt, 1, Len(rb))
  <2>1. /\ x \in Seq(S) /\ y \in Seq(S) /\ Len(x) = Len(y)
        /\ \A i \in 1 .. Len(x) : x[i] = y[i]
    BY <1>1, <1>2, <1>3
  <2> HIDE DEF x, y
  <2>2. x = y
    BY <2>1, SeqEqual
  <2> QED BY <2>2 DEF x, y
<1> QED BY <1>1, <1>2, <1>4 DEF IsSuffix, IsPrefix, rb, rt, t

\* A sequence is its two parts.
LEMMA Split ==
  ASSUME NEW S, NEW s \in Seq(S), NEW n \in Nat, n <= Len(s)
  PROVE  SubSeq(s, 1, n) \o SubSeq(s, n + 1, Len(s)) = s
<1> DEFINE a == SubSeq(s, 1, n)
           b == SubSeq(s, n + 1, Len(s))
           x == a \o b
<1>1. /\ a \in Seq(S) /\ Len(a) = n /\ (\A i \in 1 .. n : a[i] = s[i])
      /\ b \in Seq(S) /\ Len(b) = Len(s) - n
      /\ (\A i \in 1 .. Len(s) - n : b[i] = s[n + i]) /\ Len(s) \in Nat
  OBVIOUS
<1> HIDE DEF a, b
<1>2. x \in Seq(S) /\ Len(x) = Len(s)
  BY <1>1
<1>3. ASSUME NEW i \in 1 .. Len(s) PROVE x[i] = s[i]
  <2>1. x[i] = IF i <= n THEN a[i] ELSE b[i - n]
    BY <1>1, ConcatProperties
  <2>2. i <= n => a[i] = s[i]
    BY <1>1
  <2>3. ~(i <= n) => b[i - n] = s[i]
    <3> SUFFICES ASSUME ~(i <= n) PROVE b[i - n] = s[i]
      OBVIOUS
    <3>1. i - n \in 1 .. Len(s) - n /\ n + (i - n) = i
      BY <1>1
    <3> QED BY <1>1, <3>1
  <2> QED BY <2>1, <2>2, <2>3
<1> HIDE DEF x
<1>4. \A i \in 1 .. Len(x) : x[i] = s[i]
  BY <1>2, <1>3
<1>5. x = s
  BY <1>2, <1>4, SeqEqual
<1> QED BY <1>5 DEF x, a, b

\* Text is text, calls are calls.
LEMMA Parts ==
  ASSUME NEW r \in Seq(Piece)
  PROVE  /\ Words(r) \in Seq({"p", "q"}) /\ Calls(r) \in Seq({"c"})
         /\ Words(r) \in Seq(Piece) /\ Calls(r) \in Seq(Piece)
<1>1. Piece \cap {"p", "q"} = {"p", "q"} /\ Piece \cap {"c"} = {"c"}
  BY DEF Piece
<1>2. Words(r) \in Seq({"p", "q"}) /\ Calls(r) \in Seq({"c"})
  BY <1>1, PickedType DEF Words, Calls
<1>3. {"p", "q"} \subseteq Piece /\ {"c"} \subseteq Piece
  BY DEF Piece
<1> QED BY <1>2, <1>3, SeqMonotonic

\* A text followed by calls keeps both.
LEMMA Tidy ==
  ASSUME NEW w \in Seq({"p", "q"}), NEW d \in Seq({"c"})
  PROVE  /\ w \o d \in Seq(Piece) /\ Words(w \o d) = w /\ Calls(w \o d) = d
         /\ "|" \notin ToSet(w \o d)
<1>1. w \in Seq(Piece) /\ d \in Seq(Piece)
  <2>1. {"p", "q"} \subseteq Piece /\ {"c"} \subseteq Piece
    BY DEF Piece
  <2> QED BY <2>1, SeqMonotonic
<1>2. Picked(w, {"p", "q"}) = w /\ Picked(d, {"c"}) = d
  BY PickedAll
<1>3. Picked(w, {"c"}) = <<>> /\ Picked(d, {"p", "q"}) = <<>>
  <2>1. {"p", "q"} \cap {"c"} = {} /\ {"c"} \cap {"p", "q"} = {}
    OBVIOUS
  <2> QED BY <2>1, PickedNone
<1>4. w \o <<>> = w /\ <<>> \o d = d
  BY <1>1, ConcatEmptySeq
<1>5. Words(w \o d) = w /\ Calls(w \o d) = d
  <2>1. \A kinds : Picked(w \o d, kinds) = Picked(w, kinds) \o Picked(d, kinds)
    BY <1>1, PickedConcat
  <2>2. w \o Picked(d, {"p", "q"}) = w /\ Picked(w, {"c"}) \o d = d
    BY <1>3, <1>4
  <2> QED BY <1>2, <2>1, <2>2 DEF Words, Calls
<1>6. w \o d \in Seq({"p", "q", "c"})
  <2>1. w \in Seq({"p", "q", "c"}) /\ d \in Seq({"p", "q", "c"})
    <3>1. {"p", "q"} \subseteq {"p", "q", "c"} /\ {"c"} \subseteq {"p", "q", "c"}
      OBVIOUS
    <3> QED BY <3>1, SeqMonotonic
  <2> QED BY <2>1
<1>7. "|" \notin ToSet(w \o d)
  <2> DEFINE s == w \o d
  <2>1. s \in Seq({"p", "q", "c"})
    BY <1>6
  <2> HIDE DEF s
  <2>2. \A i \in DOMAIN s : s[i] \in {"p", "q", "c"}
    BY <2>1
  <2>3. "|" \notin ToSet(s)
    BY <2>2 DEF ToSet
  <2> QED BY <2>3 DEF s
<1> QED BY <1>1, <1>5, <1>7

\* Without a border the last item is all there is.
LEMMA OneItem ==
  ASSUME NEW s \in Seq(Piece), "|" \notin ToSet(s)
  PROVE  LastItem(s) = Words(s)
<1>1. {i \in DOMAIN s : s[i] = "|"} = {}
  BY DEF ToSet
<1>2. SubSeq(s, 1, Len(s)) = s
  OBVIOUS
<1> QED BY <1>1, <1>2 DEF LastItem

\* With one it is the end of the text.
LEMMA LastIsSuffix ==
  ASSUME NEW s \in Seq(Piece)
  PROVE  LastItem(s) \in Seq({"p", "q"}) /\ IsSuffix(LastItem(s), Words(s))
<1> DEFINE borders == {i \in DOMAIN s : s[i] = "|"}
           start == IF borders = {} THEN 1
                    ELSE 1 + CHOOSE i \in borders : \A j \in borders : j <= i
           before == SubSeq(s, 1, start - 1)
           last == SubSeq(s, start, Len(s))
<1>1. start \in 1 .. Len(s) + 1 /\ Len(s) \in Nat
  <2>1. Len(s) \in Nat /\ borders \in SUBSET (1 .. Len(s))
    OBVIOUS
  <2>2. CASE borders = {}
    BY <2>1, <2>2
  <2>3. CASE borders # {}
    <3>1. \E i \in borders : \A j \in borders : j <= i
      <4> HIDE DEF borders
      <4> QED BY <2>1, <2>3, Greatest
    <3> HIDE DEF borders
    <3>2. (CHOOSE i \in borders : \A j \in borders : j <= i) \in 1 .. Len(s)
      BY <2>1, <3>1
    <3> QED BY <2>1, <2>3, <3>2
  <2> QED BY <2>2, <2>3
<1>2. LastItem(s) = Words(last)
  BY DEF LastItem
<1> HIDE DEF start
<1>3. before \in Seq(Piece) /\ last \in Seq(Piece)
  BY <1>1
<1>4. before \o last = s
  <2>1. start - 1 \in Nat /\ start - 1 <= Len(s) /\ (start - 1) + 1 = start
    BY <1>1
  <2>2. SubSeq(s, 1, start - 1) \o SubSeq(s, (start - 1) + 1, Len(s)) = s
    BY <2>1, Split
  <2> QED BY <2>1, <2>2
<1> HIDE DEF before, last
<1>5. Words(s) = Words(before) \o Words(last)
  <2>1. Picked(before \o last, {"p", "q"}) = Picked(before, {"p", "q"}) \o Picked(last, {"p", "q"})
    BY <1>3, PickedConcat, SMTT(30)
  <2> QED BY <1>4, <2>1 DEF Words
<1>6. Words(before) \in Seq({"p", "q"}) /\ Words(last) \in Seq({"p", "q"})
  BY <1>3, Parts
<1> QED BY <1>2, <1>5, <1>6, Suffix

\* The words that are committed of a reply.
LEMMA WholeWords ==
  ASSUME NEW s \in Seq(Piece)
  PROVE  /\ Words(Whole(s).text) = LastItem(s)
         /\ "|" \notin ToSet(s) => Whole(s) = Assistant(Words(s) \o Calls(s))
<1>1. Whole(s).text = LastItem(s) \o Calls(s)
  BY DEF Whole, Assistant
<1> QED BY <1>1, LastIsSuffix, Parts, Tidy, OneItem DEF Whole

\* The text grows by the next piece, if it is text.
LEMMA WordsGrow ==
  ASSUME NEW s \in Seq(Piece), NEW n \in Nat, n < Len(s)
  PROVE  Words(SubSeq(s, 1, n + 1)) = IF s[n + 1] \in {"p", "q"}
                                      THEN Append(Words(SubSeq(s, 1, n)), s[n + 1])
                                      ELSE Words(SubSeq(s, 1, n))
<1> DEFINE a == SubSeq(s, 1, n)
           x == s[n + 1]
           b == SubSeq(s, 1, n + 1)
<1>1. /\ a \in Seq(Piece) /\ Len(a) = n /\ \A i \in 1 .. n : a[i] = s[i]
  OBVIOUS
<1>2. /\ b \in Seq(Piece) /\ Len(b) = n + 1 /\ x \in Piece
      /\ \A i \in 1 .. n : b[i] = s[i]
      /\ b[n + 1] = x
  OBVIOUS
<1> HIDE DEF a, b, x
<1>3. <<x>> \in Seq(Piece) /\ b = a \o <<x>>
  <2> DEFINE d == Append(a, x)
  <2>1. /\ d \in Seq(Piece) /\ Len(d) = n + 1 /\ d[n + 1] = x
        /\ \A i \in 1 .. n : d[i] = a[i]
    BY <1>1, <1>2
  <2>2. d = a \o <<x>>
    BY <1>1, <1>2, AppendIsConcat
  <2> HIDE DEF d
  <2>3. \A i \in 1 .. Len(b) : b[i] = d[i]
    BY <1>1, <1>2, <2>1
  <2>4. b = d
    BY <1>2, <2>1, <2>3, SeqEqual
  <2> QED BY <1>2, <2>2, <2>4
<1>4. Words(b) = Words(a) \o Words(<<x>>)
  <2> DEFINE y == <<x>>
  <2>1. a \in Seq(Piece) /\ y \in Seq(Piece) /\ b = a \o y
    BY <1>1, <1>3
  <2> HIDE DEF y
  <2>2. Picked(a \o y, {"p", "q"}) = Picked(a, {"p", "q"}) \o Picked(y, {"p", "q"})
    BY <2>1, PickedConcat, SMTT(30)
  <2> QED BY <2>1, <2>2 DEF Words, y
<1>5. Words(a) \in Seq({"p", "q"})
  BY <1>1, Parts
<1>6. CASE x \in {"p", "q"}
  <2>1. Words(<<x>>) = <<x>>
    <3>1. <<x>> \in Seq({"p", "q"})
      BY <1>6
    <3> QED BY <3>1, PickedAll DEF Words
  <2>2. Append(Words(a), x) = Words(a) \o <<x>>
    BY <1>5, <1>6, AppendIsConcat
  <2> QED BY <1>4, <1>6, <2>1, <2>2 DEF a, b, x
<1>7. CASE x \notin {"p", "q"}
  <2>1. Words(<<x>>) = <<>>
    <3>1. <<x>> \in Seq({x}) /\ {x} \cap {"p", "q"} = {}
      BY <1>7
    <3> QED BY <3>1, PickedNone DEF Words
  <2>2. Words(a) \o <<>> = Words(a)
    BY <1>5, ConcatEmptySeq
  <2> QED BY <1>4, <1>7, <2>1, <2>2 DEF a, b, x
<1> QED BY <1>6, <1>7

-----------------------------------------------------------------------------
(***************************************************************************)
(* What is committed of a reply.  A call is followed from its first        *)
(* request to its result: what the model has said so far, how much of it   *)
(* the adaptor has read (got) and what the client has been shown.          *)
(***************************************************************************)

Record(k) ==
    DOMAIN k = DOMAIN NoCall /\ k.says \in Seq(Piece) /\ k.shown \in Seq(Piece) /\ k.got \in Nat

\* The result is what was said, and what was shown of it.
ShownAs(says, shown, text) ==
    IF "|" \in ToSet(says) THEN IsSuffix(Words(text), shown) ELSE shown = Words(text)

TrueTo(says, shown, result, c, follows) ==
    /\ provider # "openai" => result = Whole(says)
    /\ c = "loop" /\ follows => ShownAs(says, shown, result.text)

\* The text shown is the text that was said, as far as it was read.
Streamed(k, c) ==
    /\ ~k.again /\ k.agrees /\ k.state # "answered"
    /\ k.state \in {"asked", "ready", "waiting"} => k.shown = <<>> /\ k.got = 0
    /\ k.state = "streaming" =>
          /\ k.got <= Len(k.says) /\ ("|" \in ToSet(k.says) => provider = "codex")
          /\ c = "loop" => k.shown = Words(SubSeq(k.says, 1, k.got))

\* The same of a process, which may have to say it again.
Spoken(k, c) ==
    /\ k.state \in {"asked", "ready", "running", "failed"} => k.agrees /\ k.got = 0
    /\ k.state \in {"asked", "ready"} /\ ~k.again => k.shown = <<>>
    /\ k.state = "running" =>
          k.says \in Seq({"p", "q"}) /\ (c = "loop" /\ ~k.again => k.shown = k.says)
    /\ k.state = "answered" =>
          /\ Words(k.says) \o Calls(k.says) = k.says
          /\ c = "loop" /\ ~k.again /\ k.agrees =>
                k.got <= Len(Words(k.says)) /\ k.shown = SubSeq(Words(k.says), 1, k.got)

Faithful(k, c) ==
    /\ Record(k)
    /\ k.state = "returned" /\ k.result # None =>
          TrueTo(k.says, k.shown, k.result, c, ~k.again /\ k.agrees)
    /\ IF provider = "claude" THEN Spoken(k, c) ELSE Streamed(k, c)

ReplyInv == DOMAIN calls = Callers /\ \A c \in Callers : Faithful(calls[c], c)

\* A step of one call.
LEMMA OneCall ==
    ASSUME ReplyInv, NEW c \in Callers, NEW k, Call(c, k), provider' = provider, Faithful(k, c)
    PROVE  ReplyInv'
<1>1. DOMAIN calls' = Callers /\ calls'[c] = k /\ \A d \in Callers : d # c => calls'[d] = calls[d]
  BY DEF ReplyInv, Call
<1>2. \A d \in Callers : Faithful(calls'[d], d)
  BY <1>1 DEF ReplyInv
<1> QED BY <1>1, <1>2 DEF ReplyInv, Faithful, TrueTo, Streamed, Spoken

\* A call that has not begun.
LEMMA NoCallFaithful ==
    ASSUME NEW c, NEW state \in {"none", "asked", "returned"}, NEW messages
    PROVE  /\ Faithful([NoCall EXCEPT !.state = state, !.messages = messages], c)
           /\ Faithful([NoCall EXCEPT !.state = state], c) /\ Faithful(NoCall, c)
<1>1. <<>> \in Seq(Piece)
  OBVIOUS
<1> QED BY <1>1 DEF Faithful, Record, NoCall, TrueTo, Streamed, Spoken

\* A call returns.
LEMMA ReturnKeeps ==
    ASSUME ReplyInv, NEW c \in Callers, provider' = provider, NEW k, Record(k), NEW m,
           Return(c, k, m),
           provider # "claude" => ~k.again /\ k.agrees,
           m # None => TrueTo(k.says, k.shown, m, c, ~k.again /\ k.agrees)
    PROVE  ReplyInv'
<1> DEFINE r == [NoCall EXCEPT !.state = "returned", !.result = m, !.shown = k.shown,
                               !.says = k.says, !.got = k.got, !.again = k.again,
                               !.agrees = k.agrees]
<1>1. /\ DOMAIN r = DOMAIN NoCall /\ r.state = "returned" /\ r.result = m /\ r.shown = k.shown
      /\ r.says = k.says /\ r.got = k.got /\ r.again = k.again /\ r.agrees = k.agrees
  BY DEF NoCall
<1>2. Call(c, r)
  BY DEF Return
<1> HIDE DEF r
<1>3. Faithful(r, c)
  BY <1>1 DEF Faithful, Record, Streamed, Spoken
<1> QED BY <1>2, <1>3, OneCall

\* Who asks, and who cancels.
LEMMA Asking ==
    ASSUME ReplyInv, NEW c \in Callers, NEW h, Ask(c, h)
    PROVE  ReplyInv'
<1>1. Call(c, [NoCall EXCEPT !.state = "asked", !.messages = h]) /\ provider' = provider
  BY DEF Ask
<1> QED BY <1>1, NoCallFaithful, OneCall

LEMMA Canceling == ASSUME ReplyInv, NEW c \in Callers, Cancel(c) PROVE ReplyInv'
<1> DEFINE k == [calls[c] EXCEPT !.canceled = TRUE]
<1>1. Faithful(calls[c], c)
  BY DEF ReplyInv
<1>2. /\ DOMAIN k = DOMAIN NoCall /\ k.state = calls[c].state /\ k.result = calls[c].result
      /\ k.shown = calls[c].shown /\ k.says = calls[c].says /\ k.got = calls[c].got
      /\ k.again = calls[c].again /\ k.agrees = calls[c].agrees
  BY <1>1 DEF Faithful, Record, NoCall
<1>3. Call(c, k) /\ provider' = provider
  BY DEF Cancel
<1> HIDE DEF k
<1>4. Faithful(k, c)
  BY <1>1, <1>2 DEF Faithful, Record, Streamed, Spoken
<1> QED BY <1>3, <1>4, OneCall

\* The HTTP adaptors.
LEMMA Sending == ASSUME ReplyInv, NEW c \in Callers, Send(c) PROVE ReplyInv'
<1>1. /\ Faithful(calls[c], c) /\ provider # "claude" /\ provider' = provider
      /\ calls[c].state \in {"asked", "ready"}
  BY DEF ReplyInv, Send, Http
<1>2. Record(calls[c]) /\ Streamed(calls[c], c) /\ calls[c].shown = <<>> /\ calls[c].got = 0
  BY <1>1 DEF Faithful, Streamed
<1>3. ASSUME NEW r \in Replies, "|" \in ToSet(r) => provider = "codex",
             Call(c, [calls[c] EXCEPT !.state = "streaming", !.says = r, !.got = 0])
      PROVE  ReplyInv'
  <2> DEFINE k == [calls[c] EXCEPT !.state = "streaming", !.says = r, !.got = 0]
  <2>1. r \in Seq(Piece)
    BY ModelsAssumption
  <2>2. /\ DOMAIN k = DOMAIN NoCall /\ k.state = "streaming" /\ k.says = r /\ k.got = 0
        /\ k.shown = <<>> /\ k.again = calls[c].again /\ k.agrees = calls[c].agrees
    BY <1>2 DEF Record, NoCall
  <2>3. Words(SubSeq(r, 1, 0)) = <<>> /\ 0 <= Len(r) /\ <<>> \in Seq(Piece)
    <3>1. SubSeq(r, 1, 0) = <<>> /\ <<>> \in Seq({"c"}) /\ {"c"} \cap {"p", "q"} = {}
      BY <2>1
    <3>2. Words(<<>>) = <<>>
      BY <3>1, PickedNone DEF Words
    <3>3. 0 <= Len(r) /\ <<>> \in Seq(Piece)
      BY <2>1
    <3> QED BY <3>1, <3>2, <3>3
  <2> HIDE DEF k
  <2>4. Faithful(k, c)
    BY <1>1, <1>2, <1>3, <2>1, <2>2, <2>3 DEF Faithful, Record, Streamed
  <2> QED BY <1>1, <1>3, <2>4, OneCall DEF k
<1>4. CASE Call(c, [NoCall EXCEPT !.state = "returned"])
  BY <1>1, <1>4, NoCallFaithful, OneCall
<1>5. CASE Call(c, [calls[c] EXCEPT !.state = "waiting", !.attempt = @ + 1])
  <2> DEFINE k == [calls[c] EXCEPT !.state = "waiting", !.attempt = @ + 1]
  <2>1. /\ DOMAIN k = DOMAIN NoCall /\ k.state = "waiting" /\ k.says = calls[c].says /\ k.got = 0
        /\ k.shown = <<>> /\ k.again = calls[c].again /\ k.agrees = calls[c].agrees
    BY <1>2 DEF Record, NoCall
  <2>2. Call(c, k)
    BY <1>5
  <2> HIDE DEF k
  <2>3. Faithful(k, c)
    BY <1>1, <1>2, <2>1 DEF Faithful, Record, Streamed
  <2> QED BY <1>1, <2>2, <2>3, OneCall
<1>6. CASE Return(c, calls[c], None)
  BY <1>1, <1>2, <1>6, ReturnKeeps DEF Streamed
<1> QED BY <1>3, <1>4, <1>5, <1>6 DEF Send, Begins, FailsForNow, FailsForGood

\* The delay between two attempts.
LEMMA Waiting == ASSUME ReplyInv, NEW c \in Callers, Wait(c) PROVE ReplyInv'
<1>1. /\ Faithful(calls[c], c) /\ provider # "claude" /\ provider' = provider
      /\ calls[c].state = "waiting"
  BY DEF ReplyInv, Wait, Http
<1>2. Record(calls[c]) /\ Streamed(calls[c], c) /\ calls[c].shown = <<>> /\ calls[c].got = 0
  BY <1>1 DEF Faithful, Streamed
<1>3. CASE Return(c, calls[c], None)
  BY <1>1, <1>2, <1>3, ReturnKeeps DEF Streamed
<1>4. CASE Call(c, [calls[c] EXCEPT !.state = "ready"])
  <2> DEFINE k == [calls[c] EXCEPT !.state = "ready"]
  <2>1. /\ DOMAIN k = DOMAIN NoCall /\ k.state = "ready" /\ k.says = calls[c].says /\ k.got = 0
        /\ k.shown = <<>> /\ k.again = calls[c].again /\ k.agrees = calls[c].agrees
    BY <1>2 DEF Record, NoCall
  <2>2. Call(c, k)
    BY <1>4
  <2> HIDE DEF k
  <2>3. Faithful(k, c)
    BY <1>1, <1>2, <2>1 DEF Faithful, Record, Streamed
  <2> QED BY <1>1, <2>2, <2>3, OneCall
<1> QED BY <1>3, <1>4 DEF Wait

\* One more piece of the stream is read, and shown if it is text.
LEMMA Reading == ASSUME ReplyInv, NEW c \in Callers, Event(c) PROVE ReplyInv'
<1> DEFINE n == calls[c].got
           says == calls[c].says
           x == says[n + 1]
           shown == IF Streams(c) /\ x \in {"p", "q"} THEN Append(calls[c].shown, x)
                    ELSE calls[c].shown
           k == [calls[c] EXCEPT !.got = n + 1, !.shown = shown]
<1>1. /\ Faithful(calls[c], c) /\ provider # "claude" /\ provider' = provider
      /\ calls[c].state = "streaming" /\ n < Len(says) /\ Call(c, k)
  BY DEF ReplyInv, Event, Http
<1>2. Record(calls[c]) /\ Streamed(calls[c], c)
  BY <1>1 DEF Faithful
<1>3. /\ DOMAIN k = DOMAIN NoCall /\ k.state = "streaming" /\ k.says = says /\ k.got = n + 1
      /\ k.shown = shown /\ k.again = calls[c].again /\ k.agrees = calls[c].agrees
  BY <1>1, <1>2 DEF Record, NoCall
<1>4. n \in Nat /\ says \in Seq(Piece) /\ calls[c].shown \in Seq(Piece) /\ x \in Piece
  BY <1>1, <1>2 DEF Record
<1>5. shown \in Seq(Piece)
  BY <1>4
<1>6. Words(SubSeq(says, 1, n + 1)) = IF x \in {"p", "q"} THEN Append(Words(SubSeq(says, 1, n)), x)
                                      ELSE Words(SubSeq(says, 1, n))
  BY <1>1, <1>4, WordsGrow
<1>7. c = "loop" => shown = Words(SubSeq(says, 1, n + 1))
  BY <1>1, <1>2, <1>6 DEF Streamed, Streams
<1> HIDE DEF k, shown, x
<1>8. Faithful(k, c)
  BY <1>1, <1>2, <1>3, <1>4, <1>5, <1>7 DEF Faithful, Record, Streamed
<1> QED BY <1>1, <1>8, OneCall

\* The stream ends: a reply that is accepted was read to its end, unless the
\* provider does not say where that is.
LEMMA Ending ==
    ASSUME ReplyInv, NEW c \in Callers, NEW end \in Ends, StreamEnds(c, end)
    PROVE  ReplyInv'
<1> DEFINE k == calls[c]
           arrived == SubSeq(k.says, 1, k.got)
<1>1. /\ Faithful(k, c) /\ provider # "claude" /\ provider' = provider /\ k.state = "streaming"
      /\ end = "finished" => k.got = Len(k.says)
      /\ Return(c, k, IF Accepts(end) THEN Assembled(k) ELSE None)
  BY DEF ReplyInv, StreamEnds, Http
<1>2. Record(k) /\ Streamed(k, c) /\ k.says \in Seq(Piece) /\ k.got \in Nat /\ k.got <= Len(k.says)
  BY <1>1 DEF Faithful, Record, Streamed
<1> HIDE DEF k
<1>3. CASE ~Accepts(end)
  BY <1>1, <1>2, <1>3, ReturnKeeps DEF Streamed
<1>4. CASE Accepts(end)
  <2>1. arrived \in Seq(Piece) /\ (provider # "openai" => arrived = k.says)
    BY <1>1, <1>2, <1>4 DEF Accepts
  <2> HIDE DEF arrived
  <2>2. c = "loop" => k.shown = Words(arrived)
    BY <1>1, <1>2 DEF Streamed, arrived
  <2>3. CASE provider = "codex"
    <3>1. Assembled(k) = Whole(arrived) /\ arrived = k.says
      BY <2>1, <2>3 DEF Assembled, arrived
    <3>2. /\ "|" \in ToSet(k.says) => IsSuffix(Words(Whole(k.says).text), Words(k.says))
          /\ "|" \notin ToSet(k.says) => Words(Whole(k.says).text) = Words(k.says)
      BY <1>2, WholeWords, LastIsSuffix, OneItem
    <3>3. TrueTo(k.says, k.shown, Assembled(k), c, ~k.again /\ k.agrees)
      BY <2>2, <3>1, <3>2 DEF TrueTo, ShownAs
    <3> QED BY <1>1, <1>2, <1>4, <3>3, ReturnKeeps DEF Streamed
  <2>4. CASE provider # "codex"
    <3>1. Assembled(k) = Assistant(Words(arrived) \o Calls(arrived)) /\ "|" \notin ToSet(k.says)
      BY <1>1, <1>2, <2>4 DEF Assembled, arrived, Streamed
    <3>2. Assembled(k).text = Words(arrived) \o Calls(arrived)
      BY <3>1 DEF Assistant
    <3>3. Words(Assembled(k).text) = Words(arrived)
      BY <2>1, <3>2, Parts, Tidy
    <3>4. provider # "openai" => Assembled(k) = Whole(k.says)
      BY <1>2, <2>1, <3>1, WholeWords
    <3>5. TrueTo(k.says, k.shown, Assembled(k), c, ~k.again /\ k.agrees)
      BY <2>2, <3>1, <3>3, <3>4 DEF TrueTo, ShownAs
    <3> QED BY <1>1, <1>2, <1>4, <3>5, ReturnKeeps DEF Streamed
  <2> QED BY <2>3, <2>4
<1> QED BY <1>3, <1>4

\* A stream that breaks or is canceled has no result.
LEMMA Breaking ==
    ASSUME ReplyInv, NEW c \in Callers, StreamBreaks(c) \/ StreamCanceled(c)
    PROVE  ReplyInv'
<1>1. Faithful(calls[c], c) /\ provider # "claude" /\ provider' = provider
      /\ Return(c, calls[c], None)
  BY DEF ReplyInv, StreamBreaks, StreamCanceled, Http
<1> QED BY <1>1, ReturnKeeps DEF Faithful, Streamed

\* The Claude Code CLI.
LEMMA Moving ==
    ASSUME ReplyInv, NEW c \in Callers, provider = "claude", provider' = provider,
           NEW k, Call(c, k), DOMAIN k = DOMAIN NoCall, k.says = calls[c].says,
           k.shown = calls[c].shown, k.got = calls[c].got, k.agrees = calls[c].agrees,
           \/ calls[c].state = "asked" /\ k.state = "ready" /\ k.again = calls[c].again
           \/ calls[c].state \in {"ready", "running"} /\ k.state = "failed"
           \/ calls[c].state = "failed" /\ k.state = "ready" /\ k.again = (k.shown # <<>>)
    PROVE  ReplyInv'
<1>1. Faithful(calls[c], c)
  BY DEF ReplyInv
<1>2. Faithful(k, c)
  BY <1>1 DEF Faithful, Record, Spoken
<1> QED BY <1>2, OneCall

\* A call is planned, a process fails to start or starts and says its text.
LEMMA Planning == ASSUME ReplyInv, NEW c \in Callers, Plan(c) PROVE ReplyInv'
<1> DEFINE resume == Resumable(calls[c].messages, System(c))
           session == IF resume \/ Sent = 0 THEN conv.id ELSE NewId({conv.id})
           k == [calls[c] EXCEPT !.state = "ready", !.attempt = 1, !.full = ~resume,
                                 !.session = session]
<1>1. provider = "claude" /\ provider' = provider /\ calls[c].state = "asked" /\ Call(c, k)
  BY DEF Plan
<1>2. DOMAIN calls[c] = DOMAIN NoCall
  BY DEF ReplyInv, Faithful, Record
<1> HIDE DEF resume, session
<1>3. /\ DOMAIN k = DOMAIN NoCall /\ k.says = calls[c].says /\ k.shown = calls[c].shown
      /\ k.got = calls[c].got /\ k.agrees = calls[c].agrees /\ k.state = "ready"
      /\ k.again = calls[c].again
  BY <1>2 DEF NoCall
<1> HIDE DEF k
<1> QED BY <1>1, <1>3, Moving

LEMMA Failing ==
    ASSUME ReplyInv, NEW c \in Callers, provider = "claude", provider' = provider,
           calls[c].state \in {"ready", "running"},
           Call(c, [calls[c] EXCEPT !.state = "failed"])
    PROVE  ReplyInv'
<1> DEFINE k == [calls[c] EXCEPT !.state = "failed"]
<1>1. DOMAIN calls[c] = DOMAIN NoCall
  BY DEF ReplyInv, Faithful, Record
<1>2. /\ DOMAIN k = DOMAIN NoCall /\ k.says = calls[c].says /\ k.shown = calls[c].shown
      /\ k.got = calls[c].got /\ k.agrees = calls[c].agrees /\ k.state = "failed"
  BY <1>1 DEF NoCall
<1>3. Call(c, k)
  OBVIOUS
<1> HIDE DEF k
<1> QED BY <1>2, <1>3, Moving

LEMMA Running == ASSUME ReplyInv, NEW c \in Callers, Run(c) PROVE ReplyInv'
<1>1. /\ Faithful(calls[c], c) /\ provider = "claude" /\ provider' = provider
      /\ calls[c].state = "ready"
  BY DEF ReplyInv, Run
<1>2. CASE Call(c, [calls[c] EXCEPT !.state = "failed"])
  BY <1>1, <1>2, Failing
<1>3. CASE Call(c, [calls[c] EXCEPT !.state = "running", !.says = <<>>])
  <2> DEFINE k == [calls[c] EXCEPT !.state = "running", !.says = <<>>]
  <2>1. /\ DOMAIN k = DOMAIN NoCall /\ k.says = <<>> /\ k.shown = calls[c].shown
        /\ k.got = calls[c].got /\ k.agrees = calls[c].agrees /\ k.state = "running"
        /\ k.again = calls[c].again
    BY <1>1 DEF Faithful, Record, NoCall
  <2>2. Call(c, k)
    BY <1>3
  <2>3. <<>> \in Seq(Piece) /\ <<>> \in Seq({"p", "q"})
    OBVIOUS
  <2> HIDE DEF k
  <2>4. Faithful(k, c)
    BY <1>1, <2>1, <2>3 DEF Faithful, Record, Spoken
  <2> QED BY <1>1, <2>2, <2>4, OneCall
<1> QED BY <1>2, <1>3 DEF Run

LEMMA Speaking ==
    ASSUME ReplyInv, NEW c \in Callers, NEW x \in {"p", "q"}, Speak(c, x)
    PROVE  ReplyInv'
<1> DEFINE says == Append(calls[c].says, x)
           shown == Append(calls[c].shown, x)
           k == [calls[c] EXCEPT !.says = says, !.shown = shown]
<1>1. /\ Faithful(calls[c], c) /\ provider = "claude" /\ provider' = provider
      /\ calls[c].state = "running"
  BY DEF ReplyInv, Speak
<1>2. Call(c, k)
  BY DEF Speak
<1>3. /\ calls[c].shown \in Seq(Piece) /\ calls[c].says \in Seq({"p", "q"}) /\ x \in Piece
      /\ calls[c].says \in Seq(Piece)
  BY <1>1 DEF Faithful, Record, Spoken, Piece
<1>4. shown \in Seq(Piece) /\ says \in Seq({"p", "q"}) /\ says \in Seq(Piece)
      /\ (calls[c].shown = calls[c].says => shown = says)
  BY <1>3
<1> HIDE DEF says, shown
<1>5. /\ DOMAIN k = DOMAIN NoCall /\ k.says = says /\ k.shown = shown
      /\ k.got = calls[c].got /\ k.agrees = calls[c].agrees /\ k.state = "running"
      /\ k.again = calls[c].again
  BY <1>1 DEF Faithful, Record, NoCall
<1> HIDE DEF k
<1>6. Faithful(k, c)
  BY <1>1, <1>4, <1>5 DEF Faithful, Record, Spoken
<1> QED BY <1>1, <1>2, <1>6, OneCall

\* What was said of an answer is the beginning of its text.
LEMMA SaidIsText ==
    ASSUME NEW s \in Seq({"p", "q"}), NEW w \in Seq({"p", "q"}), NEW d \in Seq({"c"}),
           IsPrefix(s, w \o d)
    PROVE  Len(s) <= Len(w) /\ s = SubSeq(w, 1, Len(s))
<1> DEFINE t == w \o d
           n == Len(s)
<1>1. /\ n \in Nat /\ Len(w) \in Nat /\ Len(d) \in Nat /\ Len(t) = Len(w) + Len(d)
      /\ \A i \in 1 .. Len(w) : t[i] = w[i]
      /\ \A i \in 1 .. Len(d) : t[Len(w) + i] = d[i] /\ d[i] = "c"
  OBVIOUS
<1>2. n <= Len(t) /\ SubSeq(s, 1, n) = SubSeq(t, 1, n)
  BY DEF IsPrefix
<1>3. t \in Seq({"p", "q", "c"})
  <2>1. w \in Seq({"p", "q", "c"}) /\ d \in Seq({"p", "q", "c"})
    <3>1. {"p", "q"} \subseteq {"p", "q", "c"} /\ {"c"} \subseteq {"p", "q", "c"}
      OBVIOUS
    <3> QED BY <3>1, SeqMonotonic
  <2> QED BY <2>1
<1> HIDE DEF t
<1>4. \A i \in 1 .. n : s[i] = t[i]
  <2> TAKE i \in 1 .. n
  <2>1. SubSeq(s, 1, n)[i] = s[i] /\ SubSeq(t, 1, n)[i] = t[i]
    BY <1>1, <1>2, <1>3
  <2> QED BY <1>2, <2>1
<1>5. n <= Len(w)
  <2> SUFFICES ASSUME n > Len(w) PROVE FALSE
    BY <1>1
  <2>1. Len(w) + 1 \in 1 .. n /\ 1 \in 1 .. Len(d)
    BY <1>1, <1>2
  <2>2. t[Len(w) + 1] = "c"
    BY <1>1, <2>1
  <2>3. s[Len(w) + 1] \in {"p", "q"}
    BY <2>1
  <2> QED BY <1>4, <2>1, <2>2, <2>3
<1>6. s = SubSeq(w, 1, n)
  <2> DEFINE v == SubSeq(w, 1, n)
  <2>1. /\ v \in Seq({"p", "q"}) /\ Len(v) = n /\ \A i \in 1 .. n : v[i] = w[i]
    BY <1>1, <1>5
  <2>2. \A i \in 1 .. n : s[i] = v[i]
    BY <1>1, <1>4, <1>5, <2>1
  <2> HIDE DEF v
  <2>3. s = v
    BY <2>1, <2>2, SeqEqual
  <2> QED BY <2>3 DEF v
<1> QED BY <1>5, <1>6

\* The process ends with its answer, ...
LEMMA Finishing ==
    ASSUME ReplyInv, NEW c \in Callers, NEW r \in Replies, Finish(c, r)
    PROVE  ReplyInv'
<1> DEFINE old == calls[c].says
           said == Words(r) \o Calls(r)
           k == [calls[c] EXCEPT !.state = "answered", !.says = said, !.got = Len(old),
                                 !.agrees = IsPrefix(old, said)]
<1>1. /\ Faithful(calls[c], c) /\ provider = "claude" /\ provider' = provider
      /\ calls[c].state = "running"
  BY DEF ReplyInv, Finish, Parsed
<1>2. Call(c, k)
  BY DEF Finish, Parsed
<1>3. r \in Seq(Piece)
  BY ModelsAssumption
<1>4. Words(r) \in Seq({"p", "q"}) /\ Calls(r) \in Seq({"c"})
  BY <1>3, Parts
<1>5. said \in Seq(Piece) /\ Words(said) = Words(r) /\ Words(said) \o Calls(said) = said
  BY <1>4, Tidy
<1>6. /\ old \in Seq({"p", "q"}) /\ Len(old) \in Nat /\ calls[c].shown \in Seq(Piece)
      /\ c = "loop" /\ ~calls[c].again => calls[c].shown = old
  BY <1>1 DEF Faithful, Record, Spoken
<1>7. IsPrefix(old, said) => Len(old) <= Len(Words(said)) /\ old = SubSeq(Words(said), 1, Len(old))
  <2> HIDE DEF old
  <2>1. ASSUME IsPrefix(old, Words(r) \o Calls(r))
        PROVE  Len(old) <= Len(Words(r)) /\ old = SubSeq(Words(r), 1, Len(old))
    BY <1>4, <1>6, <2>1, SaidIsText
  <2> QED BY <1>5, <2>1
<1> HIDE DEF said, old
<1>8. /\ DOMAIN k = DOMAIN NoCall /\ k.says = said /\ k.shown = calls[c].shown
      /\ k.got = Len(old) /\ k.agrees = IsPrefix(old, said) /\ k.state = "answered"
      /\ k.again = calls[c].again
  BY <1>1 DEF Faithful, Record, NoCall
<1> HIDE DEF k
<1>9. Faithful(k, c)
  BY <1>1, <1>5, <1>6, <1>7, <1>8 DEF Faithful, Record, Spoken
<1> QED BY <1>1, <1>2, <1>9, OneCall

\* ... or is stopped at a call of a tool.
LEMMA Stopping ==
    ASSUME ReplyInv, NEW c \in Callers, NEW r \in Replies, NativeTool(c, r)
    PROVE  ReplyInv'
<1> DEFINE said == Words(r) \o Calls(r)
           k == [calls[c] EXCEPT !.state = "answered", !.says = said]
<1>1. /\ Faithful(calls[c], c) /\ provider = "claude" /\ provider' = provider
      /\ calls[c].state = "running" /\ calls[c].says = <<>>
  BY DEF ReplyInv, NativeTool, Parsed
<1>2. Call(c, k)
  BY DEF NativeTool, Parsed
<1>3. r \in Seq(Piece)
  BY ModelsAssumption
<1>4. Words(r) \in Seq({"p", "q"}) /\ Calls(r) \in Seq({"c"})
  BY <1>3, Parts
<1>5. said \in Seq(Piece) /\ Words(said) = Words(r) /\ Words(said) \o Calls(said) = said
  BY <1>4, Tidy
<1>6. 0 <= Len(Words(said)) /\ SubSeq(Words(said), 1, 0) = <<>>
  BY <1>4, <1>5
<1> HIDE DEF said
<1>7. /\ DOMAIN k = DOMAIN NoCall /\ k.says = said /\ k.shown = calls[c].shown
      /\ k.got = 0 /\ k.state = "answered" /\ k.again = calls[c].again
  BY <1>1 DEF Faithful, Record, NoCall, Spoken
<1>8. calls[c].shown \in Seq(Piece) /\ (c = "loop" /\ ~calls[c].again => calls[c].shown = <<>>)
  BY <1>1 DEF Faithful, Record, Spoken
<1> HIDE DEF k
<1>9. Faithful(k, c)
  BY <1>1, <1>5, <1>6, <1>7, <1>8 DEF Faithful, Record, Spoken
<1> QED BY <1>1, <1>2, <1>9, OneCall

\* What the stream has not shown is published.
LEMMA Answering == ASSUME ReplyInv, NEW c \in Callers, Answered(c) PROVE ReplyInv'
<1> DEFINE k == calls[c]
           w == Words(k.says)
<1>1. Faithful(k, c) /\ provider = "claude" /\ provider' = provider /\ k.state = "answered"
  <2>1. k.state = "answered" /\ provider' = provider /\ Faithful(k, c)
    BY DEF ReplyInv, Answered
  <2> QED BY <2>1 DEF Faithful, Streamed
<1>2. Record(k) /\ w \o Calls(k.says) = k.says
  BY <1>1 DEF Faithful, Spoken
<1>3. /\ w \in Seq({"p", "q"}) /\ w \in Seq(Piece)
      /\ Calls(k.says) \in Seq({"c"}) /\ k.says \in Seq(Piece)
  BY <1>2, Parts DEF Record
<1>4. CASE Return(c, k, None)
  BY <1>1, <1>2, <1>4, ReturnKeeps
<1>5. CASE ~Return(c, k, None)
  <2> DEFINE shown == IF Streams(c) THEN k.shown \o Rest(k) ELSE k.shown
             j == [k EXCEPT !.shown = shown, !.got = Len(w)]
  <2>1. Return(c, j, Assistant(k.says))
    BY <1>5 DEF Answered
  <2>2. /\ DOMAIN j = DOMAIN NoCall /\ j.says = k.says /\ j.shown = shown /\ j.got = Len(w)
        /\ j.again = k.again /\ j.agrees = k.agrees
    BY <1>2 DEF Record, NoCall
  <2>3. k.got \in Nat /\ k.shown \in Seq(Piece) /\ Len(w) \in Nat
    BY <1>2, <1>3 DEF Record
  <2>4. Rest(k) \in Seq(Piece)
    <3>1. SubSeq(w, k.got + 1, Len(w)) \in Seq(Piece) /\ <<>> \in Seq(Piece)
      BY <1>3, <2>3, SMTT(30)
    <3> QED BY <3>1 DEF Rest
  <2>5. shown \in Seq(Piece)
    BY <2>3, <2>4
  <2>6. c = "loop" /\ ~k.again /\ k.agrees => shown = w
    <3> SUFFICES ASSUME c = "loop", ~k.again, k.agrees PROVE shown = w
      OBVIOUS
    <3>1. k.got <= Len(w) /\ k.shown = SubSeq(w, 1, k.got)
      BY <1>1 DEF Faithful, Spoken
    <3>2. shown = SubSeq(w, 1, k.got) \o SubSeq(w, k.got + 1, Len(w))
      BY <3>1 DEF Streams, Rest
    <3>3. SubSeq(w, 1, k.got) \o SubSeq(w, k.got + 1, Len(w)) = w
      <4> HIDE DEF w
      <4> QED BY <1>3, <2>3, <3>1, Split
    <3> QED BY <3>2, <3>3
  <2>7. "|" \notin ToSet(k.says)
    <3>1. "|" \notin ToSet(w \o Calls(k.says))
      BY <1>3, Tidy
    <3> QED BY <1>2, <3>1
  <2>8. Whole(k.says) = Assistant(k.says)
    BY <1>2, <1>3, <2>7, WholeWords
  <2> HIDE DEF j, shown
  <2>9. TrueTo(j.says, j.shown, Assistant(k.says), c, ~j.again /\ j.agrees)
    <3>1. Assistant(k.says).text = k.says
      BY DEF Assistant
    <3> QED BY <2>2, <2>6, <2>7, <2>8, <3>1 DEF TrueTo, ShownAs
  <2>10. Record(j)
    BY <1>3, <2>2, <2>3, <2>5 DEF Record
  <2> QED BY <1>1, <2>1, <2>9, <2>10, ReturnKeeps
<1> QED BY <1>4, <1>5

\* A retry says so if something was shown, ...
LEMMA Retrying == ASSUME ReplyInv, NEW c \in Callers, RetryRun(c) PROVE ReplyInv'
<1>1. /\ Faithful(calls[c], c) /\ provider = "claude" /\ provider' = provider
      /\ calls[c].state = "failed"
  BY DEF ReplyInv, RetryRun
<1>2. CASE Return(c, calls[c], None)
  BY <1>1, <1>2, ReturnKeeps DEF Faithful
<1>3. CASE ~Return(c, calls[c], None)
  <2> DEFINE session == NewId({conv.id, calls[c].session})
             again == calls[c].shown # <<>>
             k == [calls[c] EXCEPT !.state = "ready", !.attempt = @ + 1, !.full = TRUE,
                                   !.session = session, !.again = again]
  <2>1. Call(c, k)
    BY <1>3 DEF RetryRun
  <2>2. DOMAIN calls[c] = DOMAIN NoCall
    BY <1>1 DEF Faithful, Record
  <2> HIDE DEF session, again
  <2>3. /\ DOMAIN k = DOMAIN NoCall /\ k.says = calls[c].says /\ k.shown = calls[c].shown
        /\ k.got = calls[c].got /\ k.agrees = calls[c].agrees /\ k.state = "ready"
        /\ k.again = again
    BY <2>2 DEF NoCall
  <2> HIDE DEF k
  <2> QED BY <1>1, <2>1, <2>3, Moving DEF again
<1> QED BY <1>2, <1>3

\* ... and a process that fails or is killed leaves no result.
LEMMA RunFailing ==
    ASSUME ReplyInv, NEW c \in Callers, NEW passing \in BOOLEAN, RunFails(c, passing) \/ Killed(c)
    PROVE  ReplyInv'
<1>1. /\ Faithful(calls[c], c) /\ provider = "claude" /\ provider' = provider
      /\ calls[c].state \in {"ready", "running"}
  BY DEF ReplyInv, RunFails, Killed
<1>2. Return(c, calls[c], None) \/ Call(c, [calls[c] EXCEPT !.state = "failed"])
  BY DEF RunFails, Killed
<1>3. CASE Return(c, calls[c], None)
  BY <1>1, <1>3, ReturnKeeps DEF Faithful
<1> QED BY <1>1, <1>2, <1>3, Failing

\* Every step keeps it.
LEMMA ReplySteps == ReplyInv /\ [Next]_vars => ReplyInv'
<1> SUFFICES ASSUME ReplyInv, [Next]_vars PROVE ReplyInv'
  OBVIOUS
<1>1. ASSUME calls' = calls, provider' = provider PROVE ReplyInv'
  BY <1>1 DEF ReplyInv, Faithful, TrueTo, Streamed, Spoken
<1>2. CASE (\E t \in UserTexts : Turn(t)) \/ Continue \/ Compact
  BY <1>2, Asking DEF Turn, Continue, Compact, Callers
<1>3. CASE Restart \/ (\E h \in Branches : SelectBranch(h)) \/ (\E i \in Ids : Forget(i))
  BY <1>1, <1>3 DEF Restart, SelectBranch, Forget
<1>4. ASSUME NEW c \in Callers, Adaptor(c) PROVE ReplyInv'
  BY <1>4, Planning, Running, Answering, Retrying, RunFailing, Waiting, Breaking DEF Adaptor
<1>5. ASSUME NEW c \in Callers, Model(c) PROVE ReplyInv'
  BY <1>5, Sending, Reading, Breaking, Speaking, Finishing, Stopping, RunFailing, Ending DEF Model
<1>6. ASSUME NEW c \in Callers, NEW commit \in BOOLEAN, Take(c, commit) PROVE ReplyInv'
  BY <1>6, NoCallFaithful, OneCall DEF Take
<1>7. CASE UNCHANGED vars
  BY <1>1, <1>7 DEF vars
<1> QED BY <1>2, <1>3, <1>4, <1>5, <1>6, <1>7, Canceling DEF Next

\* However its stream ends, a reply is committed whole or not at all, but for a
\* compatible endpoint's, whose early end passes for a whole one; and the text a
\* client was shown of a turn is the text committed, neither cut nor repeated,
\* but for a Claude turn that began again after it had spoken (readStream of the
\* adaptors, emitClaudeStreamedContent).
THEOREM RepliesAreKept == Spec => []ReplyKept
<1>1. Init => ReplyInv
  BY NoCallFaithful DEF Init, ReplyInv
<1>2. ReplyInv /\ [Next]_vars => ReplyInv'
  BY ReplySteps
<1>3. ReplyInv => ReplyKept
  <2> SUFFICES ASSUME ReplyInv PROVE ReplyKept
    OBVIOUS
  <2>1. ReplyWhole
    BY DEF ReplyInv, Faithful, TrueTo, ReplyWhole
  <2>2. ShownIsCommitted
    BY DEF ReplyInv, Faithful, TrueTo, ShownAs, ShownIsCommitted, Callers
  <2> QED BY <2>1, <2>2 DEF ReplyKept
<1> QED BY <1>1, <1>2, <1>3, PTL DEF Spec

-----------------------------------------------------------------------------
\* What the records of the timeline are.
CallId == Nat \X Nat
ToolUse == [id : CallId, tool : {"task_checklist", "bash"}]
Entry == {Note} \cup [kind : {"reply"}, calls : Seq(ToolUse)]
         \cup [kind : {"result"}, id : CallId, ok : BOOLEAN, decodes : BOOLEAN, list : TaskList]
         \cup [kind : {"compaction"}, list : TaskList]
LoopStates == {"parked", "between", "calling", "committing", "folding", "ended"}

Holding(p) == {i \in DOMAIN p : Carries(p, i)}
HasLast(p) == Holding(p) = {} \/ \E i \in Holding(p) : \A j \in Holding(p) : j <= i

\* A reply is recorded before its results, which are of its calls.
Paired(p) ==
    \A i, j \in DOMAIN p :
        p[i].kind = "result" /\ p[j].kind = "reply" =>
            \A k \in DOMAIN p[j].calls :
                p[j].calls[k].id = p[i].id =>
                    /\ j < i
                    /\ p[i].decodes /\ p[j].calls[k].tool = "task_checklist" =>
                          p[i].ok /\ Valid(p[i].list)

\* The calls of the first n replies, at most, are in p.
UpTo(p, n) ==
    \A i \in DOMAIN p :
        /\ p[i].kind = "result" => p[i].id[1] < n
        /\ p[i].kind = "reply" => \A k \in DOMAIN p[i].calls : p[i].calls[k].id[1] < n

PathOK(p) == p \in Seq(Entry) /\ HasLast(p) /\ Paired(p) /\ UpTo(p, made) /\ Valid(Rebuilt(p))

\* The batch of the loop: a reply and the results of its first calls.
OfTurn(b) ==
    /\ b[1] \in [kind : {"reply"}, calls : Seq(ToolUse)]
    /\ \A k \in DOMAIN b[1].calls : b[1].calls[k].id = <<made - 1, k>>
    /\ Len(b) <= Len(b[1].calls) + 1
    /\ \A m \in 2 .. Len(b) :
          /\ b[m].kind = "result" /\ b[m].id = <<made - 1, m - 1>>
          /\ b[m].decodes /\ b[1].calls[m - 1].tool = "task_checklist" => b[m].ok /\ Valid(b[m].list)

Sole(b) ==
    \A p \in timeline : \A i \in DOMAIN p :
        p[i].kind = "reply" =>
            \A k \in DOMAIN p[i].calls : p[i].calls[k].id[1] = made - 1 => p[i] = b[1]

BatchOK ==
    /\ agent.batch \in Seq(Entry) /\ agent.next \in Nat \ {0}
    /\ agent.at \in {"parked", "between", "folding", "ended"} => agent.batch = <<>> /\ agent.next = 1
    /\ agent.at = "calling" =>
          /\ agent.next = 1 /\ OfTurn(agent.batch) /\ agent.batch # <<>>
          /\ agent.calls \in Seq(ToolUse)
          /\ Len(agent.calls) + Len(agent.batch) = Len(agent.batch[1].calls) + 1
          /\ \A k \in DOMAIN agent.calls :
                agent.calls[k] = agent.batch[1].calls[Len(agent.batch) + k - 1]
    /\ agent.at = "committing" =>
          /\ agent.batch # <<>> /\ agent.next <= Len(agent.batch) + 1
          /\ agent.batch = <<Note>> \/ OfTurn(agent.batch)
    /\ agent.at \in {"calling", "committing"} /\ agent.batch # <<Note>> =>
          /\ made > 0
          /\ agent.next = 1 => \A p \in timeline : UpTo(p, made - 1)
          /\ agent.next > 1 => Sole(agent.batch)

ChecklistTyped ==
    /\ made \in Nat /\ idle \in BOOLEAN /\ overtaken \in BOOLEAN
    /\ agent = [at |-> agent.at, calls |-> agent.calls, batch |-> agent.batch,
                next |-> agent.next, from |-> agent.from]
    /\ agent.at \in LoopStates
    /\ folding \in [by : {"nobody", "loop", "client"}, list : TaskList, stale : BOOLEAN]
    /\ list \in TaskList /\ late \subseteq Edits
    /\ <<>> \in timeline /\ {head, chosen, selecting, agent.from} \subseteq timeline

Validity == Valid(list) /\ Valid(folding.list) /\ \A p \in timeline : PathOK(p)

Overlaps ==
    /\ folding.by # "nobody" /\ ~folding.stale => chosen = <<>> /\ folding.list = list
    /\ folding.by = "loop" <=> agent.at = "folding"
    /\ agent.at = "ended" => folding.by = "nobody"
    /\ agent.at = "committing" =>
          /\ agent.from # <<>> => chosen # <<>>
          /\ ~overtaken => chosen = agent.from

\* The result m of the batch holds a list.
Pends(m) ==
    /\ m > 1 /\ agent.batch[m].ok /\ agent.batch[m].decodes
    /\ agent.batch[1].calls[m - 1].tool = "task_checklist"

ReplyIn(p) == \E j \in DOMAIN p : p[j] = agent.batch[1]

Base ==
    IF agent.at # "committing" THEN Continued
    ELSE IF agent.next = 1 /\ agent.from # <<>> THEN agent.from ELSE head

\* The list is that of the last result to be committed, or is recorded.
Follows ==
    \/ \E m \in agent.next .. Len(agent.batch) :
          /\ Pends(m) /\ agent.batch[m].list = list
          /\ \A n \in m + 1 .. Len(agent.batch) : ~Pends(n)
          /\ agent.next > 1 => ReplyIn(head)
    \/ /\ list = Rebuilt(Base)
       /\ \/ \A m \in agent.next .. Len(agent.batch) : ~Pends(m)
          \/ agent.next > 1 /\ ~ReplyIn(head)

ChecklistInv ==
    /\ ChecklistTyped /\ BatchOK /\ Validity /\ Overlaps
    /\ agent.at # "ended" /\ ~overtaken => Follows

-----------------------------------------------------------------------------
LEMMA LastOfNone == Rebuilt(<<>>) = {} /\ HasLast(<<>>) /\ Valid({})
<1>1. Holding(<<>>) = {} BY DEF Holding
<1>2. Cardinality({}) = 0 BY FS_EmptySet
<1> QED BY <1>1, <1>2, ChecklistAssumption DEF Rebuilt, LastHeld, HasLast, Holding, Valid

LEMMA HeldBefore ==
    ASSUME NEW p \in Seq(Entry), NEW r \in Entry, NEW q, q = Append(p, r)
    PROVE  /\ q \in Seq(Entry) /\ Len(q) = Len(p) + 1 /\ q[Len(q)] = r
           /\ DOMAIN q = DOMAIN p \cup {Len(q)} /\ DOMAIN p = 1 .. Len(p)
           /\ \A i \in DOMAIN p : q[i] = p[i] /\ (Carries(q, i) <=> Carries(p, i))
           /\ \A i \in Holding(p) : i \in Holding(q)
           /\ Holding(q) \subseteq Holding(p) \cup {Len(q)}
<1>1. /\ q \in Seq(Entry) /\ Len(q) = Len(p) + 1 /\ q[Len(q)] = r /\ Len(p) \in Nat
      /\ DOMAIN q = 1 .. Len(q) /\ DOMAIN p = 1 .. Len(p)
      /\ \A i \in 1 .. Len(p) : q[i] = p[i]
  BY AppendProperties
<1>2. DOMAIN q = DOMAIN p \cup {Len(q)} BY <1>1
<1>3. \A i \in DOMAIN p : Carries(q, i) <=> Carries(p, i)
  <2> SUFFICES ASSUME NEW i \in DOMAIN p PROVE Carries(q, i) <=> Carries(p, i) OBVIOUS
  <2>1. q[i] = p[i] /\ \A j \in 1 .. i - 1 : q[j] = p[j] BY <1>1
  <2>2. MadeFor(q, i) <=> MadeFor(p, i) BY <2>1 DEF MadeFor
  <2> QED BY <2>1, <2>2 DEF Carries
<1> QED BY <1>1, <1>2, <1>3 DEF Holding

LEMMA HeldAsBefore ==
    ASSUME NEW p \in Seq(Entry), NEW r \in Entry, NEW q, q = Append(p, r), HasLast(p),
           ~Carries(q, Len(q))
    PROVE  HasLast(q) /\ Rebuilt(q) = Rebuilt(p)
<1>0. /\ DOMAIN q = DOMAIN p \cup {Len(q)} /\ \A i \in DOMAIN p : q[i] = p[i]
      /\ \A i \in Holding(p) : i \in Holding(q)
      /\ Holding(q) \subseteq Holding(p) \cup {Len(q)}
  BY HeldBefore
<1>1. Holding(q) = Holding(p) BY <1>0 DEF Holding
<1>2. HasLast(q) BY <1>1 DEF HasLast
<1> DEFINE last == CHOOSE i \in Holding(p) : \A j \in Holding(p) : j <= i
<1>3. CASE Holding(p) = {} BY <1>1, <1>2, <1>3 DEF Rebuilt, LastHeld, Holding
<1>4. CASE Holding(p) # {}
  <2>1. last \in Holding(p) BY <1>4 DEF HasLast
  <2>2. q[last] = p[last] BY <1>0, <2>1 DEF Holding
  <2> HIDE DEF last
  <2>3. Rebuilt(p) = p[last].list /\ Rebuilt(q) = q[last].list
    BY <1>1, <1>4 DEF last, Rebuilt, LastHeld, Holding
  <2> QED BY <1>2, <2>2, <2>3
<1> QED BY <1>3, <1>4

LEMMA LastHeldIs ==
    ASSUME NEW q \in Seq(Entry), NEW n \in DOMAIN q, Carries(q, n), \A i \in Holding(q) : i <= n
    PROVE  HasLast(q) /\ Rebuilt(q) = q[n].list
<1>1. n \in Holding(q) BY DEF Holding
<1>2. \A i \in Holding(q) : i \in Nat BY DEF Holding
<1>3. HasLast(q) BY <1>1 DEF HasLast
<1>4. (CHOOSE i \in Holding(q) : \A j \in Holding(q) : j <= i) = n
  <2>1. PICK m \in Holding(q) : \A j \in Holding(q) : j <= m BY <1>1
  <2>2. \A i \in Holding(q) : (\A j \in Holding(q) : j <= i) => i = n BY <1>1, <1>2
  <2> QED BY <1>1, <2>2
<1>5. Holding(q) # {} BY <1>1
<1> QED BY <1>3, <1>4, <1>5 DEF Rebuilt, LastHeld, Holding

LEMMA HeldAnew ==
    ASSUME NEW p \in Seq(Entry), NEW r \in Entry, NEW q, q = Append(p, r), Carries(q, Len(q))
    PROVE  HasLast(q) /\ Rebuilt(q) = r.list
<1>1. /\ q \in Seq(Entry) /\ Len(q) \in DOMAIN q /\ q[Len(q)] = r
      /\ \A i \in Holding(q) : i <= Len(q)
  BY HeldBefore DEF Holding
<1> QED BY <1>1, LastHeldIs

LEMMA CheckpointHeld ==
    ASSUME NEW l \in TaskList, Valid(l), NEW n \in Nat
    PROVE  LET p == <<Checkpoint(l)>>
           IN  /\ p \in Seq(Entry) /\ HasLast(p) /\ Paired(p) /\ UpTo(p, n)
               /\ Rebuilt(p) = l
<1> DEFINE p == <<Checkpoint(l)>>
<1>1. p \in Seq(Entry) /\ DOMAIN p = {1} /\ p[1] = Checkpoint(l) BY DEF Entry, Checkpoint
<1>2. p[1].kind = "compaction" /\ p[1].list = l BY <1>1 DEF Checkpoint
<1>3. Carries(p, 1) /\ \A i \in Holding(p) : i <= 1 BY <1>1, <1>2 DEF Carries, Holding
<1>4. HasLast(p) /\ Rebuilt(p) = l BY <1>1, <1>2, <1>3, LastHeldIs
<1>5. Paired(p) /\ UpTo(p, n) BY <1>1, <1>2 DEF Paired, UpTo
<1> QED BY <1>1, <1>4, <1>5

\* The rules hold of a call's result as long as its kind and its call do.
LEMMA ExtendedPath ==
    ASSUME NEW p, PathOK(p), NEW r \in Entry, NEW q, q = Append(p, r), made \in Nat,
           r.kind \in {"message", "reply", "result"},
           r.kind = "result" => r.id[1] < made,
           r.kind = "reply" => \A k \in DOMAIN r.calls : r.calls[k].id[1] < made,
           r.kind = "result" =>
               \A j \in DOMAIN p : p[j].kind = "reply" =>
                   \A k \in DOMAIN p[j].calls :
                       p[j].calls[k].id = r.id /\ r.decodes /\ p[j].calls[k].tool = "task_checklist"
                       => r.ok /\ Valid(r.list),
           r.kind = "reply" =>
               \A i \in DOMAIN p : p[i].kind = "result" =>
                   \A k \in DOMAIN r.calls : r.calls[k].id # p[i].id
    PROVE  PathOK(q)
<1>1. p \in Seq(Entry) /\ HasLast(p) /\ Paired(p) /\ UpTo(p, made) /\ Valid(Rebuilt(p))
  BY DEF PathOK
<1>2. /\ q \in Seq(Entry) /\ Len(q) = Len(p) + 1 /\ q[Len(q)] = r /\ Len(p) \in Nat
      /\ DOMAIN q = DOMAIN p \cup {Len(q)} /\ DOMAIN p = 1 .. Len(p)
      /\ \A i \in DOMAIN p : q[i] = p[i]
  BY <1>1, HeldBefore
<1>3. HasLast(q) /\ Valid(Rebuilt(q))
  <2>1. CASE Carries(q, Len(q))
    <3>1. Valid(r.list) BY <1>2, <2>1 DEF Carries
    <3> QED BY <1>1, <2>1, <3>1, HeldAnew
  <2>2. CASE ~Carries(q, Len(q)) BY <1>1, <2>2, HeldAsBefore
  <2> QED BY <2>1, <2>2
<1>4. UpTo(q, made) BY <1>1, <1>2 DEF UpTo
<1>5. Paired(q)
  <2> SUFFICES ASSUME NEW i \in DOMAIN q, NEW j \in DOMAIN q,
                      q[i].kind = "result", q[j].kind = "reply",
                      NEW k \in DOMAIN q[j].calls, q[j].calls[k].id = q[i].id
               PROVE  /\ j < i
                      /\ (q[i].decodes /\ q[j].calls[k].tool = "task_checklist"
                          => q[i].ok /\ Valid(q[i].list))
    BY DEF Paired
  <2>1. CASE i \in DOMAIN p /\ j \in DOMAIN p BY <1>1, <1>2, <2>1 DEF Paired
  <2>2. CASE i = Len(q) /\ j \in DOMAIN p BY <1>2, <2>2
  <2>3. CASE i \in DOMAIN p /\ j = Len(q) BY <1>2, <2>3
  <2>4. CASE i = Len(q) /\ j = Len(q) BY <1>2, <2>4
  <2> QED BY <1>2, <2>1, <2>2, <2>3, <2>4
<1> QED BY <1>2, <1>3, <1>4, <1>5 DEF PathOK

-----------------------------------------------------------------------------
LEMMA ChecklistInitInv == ChecklistInit => ChecklistInv
<1> SUFFICES ASSUME ChecklistInit PROVE ChecklistInv OBVIOUS
<1> USE DEF ChecklistInit, Parked, NoFold
<1>1. ChecklistTyped BY DEF ChecklistTyped, LoopStates, TaskList
<1>2. BatchOK BY DEF BatchOK
<1>3. Validity
  <2>1. PathOK(<<>>)
    <3>1. <<>> \in Seq(Entry) /\ DOMAIN <<>> = {} OBVIOUS
    <3> QED BY <3>1, LastOfNone DEF PathOK, Paired, UpTo
  <2> QED BY <2>1, LastOfNone DEF Validity
<1>4. Overlaps BY DEF Overlaps
<1>5. Follows BY LastOfNone DEF Follows, Base, Continued, Pends
<1> QED BY <1>1, <1>2, <1>3, <1>4, <1>5 DEF ChecklistInv

\* A path is right whatever replies come after it.
LEMMA StillOK ==
    ASSUME made \in Nat, made' \in Nat, made <= made', NEW p, PathOK(p)
    PROVE  PathOK(p)'
<1>1. UpTo(p, made) BY DEF PathOK
<1>2. UpTo(p, made') \/ made = made'
  <2>1. p \in Seq(Entry) BY DEF PathOK
  <2>2. \A i \in DOMAIN p : p[i] \in Entry BY <2>1
  <2>3. \A i \in DOMAIN p : p[i].kind = "result" => p[i].id[1] \in Nat
    BY <2>2 DEF Entry, Note, CallId
  <2>4. \A i \in DOMAIN p : p[i].kind = "reply" =>
           \A k \in DOMAIN p[i].calls : p[i].calls[k].id[1] \in Nat
    <3>1. \A i \in DOMAIN p : p[i].kind = "reply" => p[i].calls \in Seq(ToolUse)
      BY <2>2 DEF Entry, Note
    <3>2. \A u \in ToolUse : u.id[1] \in Nat BY DEF ToolUse, CallId
    <3>3. \A c \in Seq(ToolUse) : \A k \in DOMAIN c : c[k] \in ToolUse OBVIOUS
    <3> QED BY <3>1, <3>2, <3>3
  <2> QED BY <1>1, <2>3, <2>4 DEF UpTo
<1> QED BY <1>1, <1>2 DEF PathOK

LEMMA TakeMessageStep == ChecklistInv /\ TakeMessage => ChecklistInv'
<1> SUFFICES ASSUME ChecklistInv, TakeMessage PROVE ChecklistInv' OBVIOUS
<1> USE DEF TakeMessage, Commits, Parked, Aside
<1>0. ChecklistTyped /\ BatchOK /\ Validity /\ Overlaps /\ (~overtaken => Follows) BY DEF ChecklistInv
<1>1. ChecklistTyped' BY <1>0 DEF ChecklistTyped, LoopStates
<1>2. BatchOK' BY <1>0 DEF BatchOK, Entry
<1>3. Validity' BY <1>0 DEF Validity, PathOK
<1>4. Overlaps' BY <1>0, <1>1 DEF Overlaps, ChecklistTyped
<1>5. ~overtaken => Follows'
  <2> SUFFICES ASSUME ~overtaken PROVE Follows' OBVIOUS
  <2>1. list = Rebuilt(Continued) BY <1>0 DEF Follows, Base, BatchOK
  <2>2. Base' = Continued BY DEF Base, Continued
  <2>3. \A m \in agent'.next .. Len(agent'.batch) : ~Pends(m)' BY DEF Pends
  <2> QED BY <2>1, <2>2, <2>3 DEF Follows
<1> QED BY <1>1, <1>2, <1>3, <1>4, <1>5 DEF ChecklistInv

LEMMA AnswersStep == ChecklistInv /\ Answers => ChecklistInv'
<1> SUFFICES ASSUME ChecklistInv, Answers PROVE ChecklistInv' OBVIOUS
<1> USE DEF Answers, Commits, Parked, Aside
<1>0. ChecklistTyped /\ BatchOK /\ Validity /\ Overlaps /\ (~overtaken => Follows) BY DEF ChecklistInv
<1>1. ChecklistTyped' BY <1>0 DEF ChecklistTyped, LoopStates
<1>2. BatchOK' BY <1>0 DEF BatchOK, Entry
<1>3. Validity' BY <1>0 DEF Validity, PathOK
<1>4. Overlaps' BY <1>0, <1>1 DEF Overlaps, ChecklistTyped
<1>5. ~overtaken => Follows'
  <2> SUFFICES ASSUME ~overtaken PROVE Follows' OBVIOUS
  <2>1. list = Rebuilt(Continued) BY <1>0 DEF Follows, Base, BatchOK
  <2>2. Base' = Continued BY DEF Base, Continued
  <2>3. \A m \in agent'.next .. Len(agent'.batch) : ~Pends(m)' BY DEF Pends
  <2> QED BY <2>1, <2>2, <2>3 DEF Follows
<1> QED BY <1>1, <1>2, <1>3, <1>4, <1>5 DEF ChecklistInv

LEMMA ParkStep == ChecklistInv /\ Park => ChecklistInv'
<1> SUFFICES ASSUME ChecklistInv, Park PROVE ChecklistInv' OBVIOUS
<1> USE DEF Park, Parked, Aside
<1>0. ChecklistTyped /\ BatchOK /\ Validity /\ Overlaps /\ (~overtaken => Follows) BY DEF ChecklistInv
<1>1. ChecklistTyped' BY <1>0 DEF ChecklistTyped, LoopStates
<1>2. BatchOK' BY <1>0 DEF BatchOK
<1>3. Validity' BY <1>0 DEF Validity, PathOK
<1>4. Overlaps' BY <1>0, <1>1 DEF Overlaps, ChecklistTyped
<1>5. ~overtaken => Follows'
  <2> SUFFICES ASSUME ~overtaken PROVE Follows' OBVIOUS
  <2>1. list = Rebuilt(Continued) BY <1>0 DEF Follows, Base, BatchOK
  <2>2. Base' = Continued BY DEF Base, Continued
  <2> QED BY <2>1, <2>2 DEF Follows
<1> QED BY <1>1, <1>2, <1>3, <1>4, <1>5 DEF ChecklistInv

LEMMA ReplyCallsStep == ChecklistInv /\ ReplyCalls => ChecklistInv'
<1> SUFFICES ASSUME ChecklistInv, ReplyCalls PROVE ChecklistInv' OBVIOUS
<1>0. ChecklistTyped /\ BatchOK /\ Validity /\ Overlaps /\ (~overtaken => Follows)
      /\ agent.at = "between" /\ made' = made + 1
  BY DEF ChecklistInv, ReplyCalls
<1>g. PICK n \in 1 .. MaxReplyCalls : \E tools \in [1 .. n -> {"task_checklist", "bash"}] :
          agent' = [Parked EXCEPT !.at = "calling", !.calls = CallsOf(tools),
                                  !.batch = <<ReplyWith(CallsOf(tools))>>]
  BY DEF ReplyCalls
<1>a. PICK tools \in [1 .. n -> {"task_checklist", "bash"}] :
          agent' = [Parked EXCEPT !.at = "calling", !.calls = CallsOf(tools),
                                  !.batch = <<ReplyWith(CallsOf(tools))>>]
  BY <1>g
<1> DEFINE cs == CallsOf(tools)
<1>b. n \in Nat /\ made \in Nat BY <1>0 DEF ChecklistTyped
<1>c. cs \in Seq(ToolUse) /\ DOMAIN cs = 1 .. n /\ Len(cs) = n
      /\ \A k \in 1 .. n : cs[k].id = <<made, k>>
  <2>1. DOMAIN tools = 1 .. n OBVIOUS
  <2>2. cs = [k \in 1 .. n |-> [id |-> <<made, k>>, tool |-> tools[k]]] BY <2>1 DEF CallsOf
  <2>3. \A k \in 1 .. n : [id |-> <<made, k>>, tool |-> tools[k]] \in ToolUse
    BY <1>b DEF ToolUse, CallId
  <2>4. cs \in [1 .. n -> ToolUse] BY <2>2, <2>3
  <2> QED BY <1>b, <2>2, <2>4
<1> HIDE DEF cs
<1>d. agent' = [at |-> "calling", calls |-> cs, batch |-> <<ReplyWith(cs)>>, next |-> 1, from |-> <<>>]
  BY <1>a DEF Parked, cs
<1>e. agent.batch = <<>> /\ agent.next = 1 BY <1>0 DEF BatchOK
<1>f. UNCHANGED <<list, timeline, head, chosen, idle, late, folding, selecting, overtaken>> BY DEF ReplyCalls
<1>1. ChecklistTyped' BY <1>0, <1>d, <1>f DEF ChecklistTyped, LoopStates
<1>2. BatchOK'
  <2>1. OfTurn(agent.batch)' BY <1>0, <1>b, <1>c, <1>d DEF OfTurn, ReplyWith
  <2>2. agent'.batch \in Seq(Entry) BY <1>c, <1>d DEF ReplyWith, Entry
  <2>3. agent'.batch # <<Note>> BY <1>d DEF ReplyWith, Note
  <2>4. \A p \in timeline' : UpTo(p, made' - 1) BY <1>0, <1>b, <1>f DEF Validity, PathOK
  <2>5. Len(agent'.batch) = 1 /\ agent'.batch[1].calls = cs BY <1>d DEF ReplyWith
  <2> QED BY <1>0, <1>b, <1>c, <1>d, <2>1, <2>2, <2>3, <2>4, <2>5 DEF BatchOK
<1>3. Validity'
  <2>1. \A p \in timeline : PathOK(p)' BY <1>0, <1>b, StillOK DEF Validity
  <2> QED BY <1>0, <1>f, <2>1 DEF Validity
<1>4. Overlaps' BY <1>0, <1>1, <1>d, <1>f DEF Overlaps, ChecklistTyped
<1>5. ~overtaken => Follows'
  <2> SUFFICES ASSUME ~overtaken PROVE Follows' OBVIOUS
  <2>1. list = Rebuilt(Continued) BY <1>0, <1>e DEF Follows, Base
  <2>2. Base' = Continued BY <1>d, <1>f DEF Base, Continued
  <2>3. \A m \in agent'.next .. Len(agent'.batch) : ~Pends(m)' BY <1>d DEF Pends
  <2> QED BY <1>f, <2>1, <2>2, <2>3 DEF Follows
<1> QED BY <1>1, <1>2, <1>3, <1>4, <1>5, <1>f DEF ChecklistInv

\* A call returns: one more result at the end of the batch.
LEMMA CallReturns ==
    ASSUME ChecklistInv, agent.at = "calling", agent.calls # <<>>,
           NEW ok \in BOOLEAN, NEW decodes \in BOOLEAN, NEW l \in TaskList,
           Returns(ok, decodes, l), UNCHANGED <<timeline, head, chosen, made>>,
           Head(agent.calls).tool = "task_checklist" /\ decodes => ok /\ Valid(l)
    PROVE  /\ BatchOK' /\ agent'.at = "calling" /\ agent'.next = 1 /\ agent'.from = agent.from
           /\ agent' = [at |-> agent'.at, calls |-> agent'.calls, batch |-> agent'.batch,
                         next |-> agent'.next, from |-> agent'.from]
           /\ Len(agent'.batch) = Len(agent.batch) + 1 /\ Len(agent.batch) \in Nat \ {0}
           /\ \A m \in 1 .. Len(agent.batch) : agent'.batch[m] = agent.batch[m] /\ (Pends(m)' <=> Pends(m))
           /\ agent'.batch[Len(agent'.batch)] = ResultOf(Head(agent.calls), ok, decodes, l)
           /\ \A m : m = Len(agent.batch) + 1 =>
                 (Pends(m)' <=> ok /\ decodes /\ Head(agent.calls).tool = "task_checklist")
<1>0. /\ ChecklistTyped /\ BatchOK /\ made \in Nat /\ OfTurn(agent.batch) /\ agent.next = 1
      /\ agent.batch \in Seq(Entry) /\ agent.batch # <<>> /\ agent.calls \in Seq(ToolUse)
  BY DEF ChecklistInv, ChecklistTyped, BatchOK
<1> DEFINE c == Head(agent.calls)
           r == ResultOf(c, ok, decodes, l)
           b == agent.batch
           e == Append(b, r)
           rest == Tail(agent.calls)
<1>1. agent' = [at |-> "calling", calls |-> rest, batch |-> e,
                next |-> 1, from |-> agent.from]
  BY <1>0 DEF Returns, ChecklistTyped
<1>2. /\ c \in ToolUse /\ c = agent.calls[1] /\ Len(agent.calls) \in Nat \ {0}
      /\ rest \in Seq(ToolUse) /\ Len(rest) = Len(agent.calls) - 1
      /\ \A k \in 1 .. Len(agent.calls) - 1 : rest[k] = agent.calls[k + 1]
      /\ DOMAIN rest = 1 .. Len(agent.calls) - 1
      /\ DOMAIN agent.calls = 1 .. Len(agent.calls)
  BY <1>0, HeadTailProperties
<1>3. r \in Entry BY <1>2 DEF ResultOf, Entry, ToolUse
<1>4. /\ Len(b) \in Nat \ {0} /\ Len(e) = Len(b) + 1 /\ e \in Seq(Entry)
      /\ \A m \in 1 .. Len(b) : e[m] = b[m]
      /\ e[Len(b) + 1] = r
  BY <1>0, <1>3, AppendProperties, EmptySeq
<1>5. b[1].calls \in Seq(ToolUse) /\ DOMAIN b[1].calls = 1 .. Len(b[1].calls) /\ Len(b[1].calls) \in Nat
  BY <1>0 DEF OfTurn
<1>6. /\ Len(agent.calls) + Len(b) = Len(b[1].calls) + 1
      /\ \A k \in DOMAIN agent.calls : agent.calls[k] = b[1].calls[Len(b) + k - 1]
  BY <1>0 DEF BatchOK
<1>7. c = b[1].calls[Len(b)] /\ Len(b) \in DOMAIN b[1].calls
  <2>1. 1 \in DOMAIN agent.calls /\ Len(b) + 1 - 1 = Len(b)
    <3>1. 1 \in DOMAIN agent.calls BY <1>2
    <3>2. \A x \in Nat : x + 1 - 1 = x OBVIOUS
    <3> QED BY <1>4, <3>1, <3>2
  <2>2. agent.calls[1] = b[1].calls[Len(b) + 1 - 1] BY <1>6, <2>1
  <2>3. Len(b) <= Len(b[1].calls)
    <3> DEFINE y == Len(agent.calls)  z == Len(b[1].calls)  v == Len(b)
    <3>1. y \in Nat \ {0} /\ z \in Nat /\ v \in Nat /\ y + v = z + 1 BY <1>2, <1>4, <1>5, <1>6
    <3> HIDE DEF y, z, v
    <3>2. v <= z BY <3>1
    <3> QED BY <3>2 DEF v, z
  <2> QED BY <1>2, <1>4, <1>5, <2>1, <2>2, <2>3
<1>8. c.id = <<made - 1, Len(b)>> BY <1>0, <1>7 DEF OfTurn
<1>9. r.kind = "result" /\ r.id = c.id /\ r.ok = ok /\ r.decodes = decodes /\ r.list = l
  BY DEF ResultOf
<1>z. OfTurn(b)
  BY <1>0
<1> HIDE DEF r, c, b, e, rest
<1>10. OfTurn(e)
  <2>1. e[1] = b[1] BY <1>4
  <2>2. Len(e) <= Len(b[1].calls) + 1 BY <1>2, <1>4, <1>5, <1>6
  <2>3. ASSUME NEW m \in 2 .. Len(b) + 1
        PROVE  LET d == e[m]
               IN  /\ d.kind = "result" /\ d.id = <<made - 1, m - 1>>
                   /\ (d.decodes /\ b[1].calls[m - 1].tool = "task_checklist" => d.ok /\ Valid(d.list))
    <3>1. CASE m \in 2 .. Len(b)
      <4>1. e[m] = b[m]
        BY <1>4, <3>1
      <4>2. /\ b[m].kind = "result" /\ b[m].id = <<made - 1, m - 1>>
            /\ b[m].decodes /\ b[1].calls[m - 1].tool = "task_checklist" => b[m].ok /\ Valid(b[m].list)
        BY <1>z, <3>1, Zenon DEF OfTurn
      <4> QED BY <4>1, <4>2
    <3>2. CASE m = Len(b) + 1
      <4>1. e[m] = r /\ m - 1 = Len(b) BY <1>4, <3>2
      <4> QED BY <1>7, <1>8, <1>9, <4>1 DEF c
    <3> QED BY <1>4, <3>1, <3>2
  <2> QED BY <1>z, <1>4, <2>1, <2>2, <2>3, SMTT(30) DEF OfTurn
<1>11. BatchOK'
  <2>a. Len(rest) = Len(agent.calls) - 1 /\ Len(agent.calls) \in Nat \ {0} BY <1>2
  <2>b. Len(b) \in Nat \ {0} /\ Len(e) = Len(b) + 1 BY <1>4
  <2>c. Len(b[1].calls) \in Nat BY <1>5
  <2>d. Len(agent.calls) + Len(b) = Len(b[1].calls) + 1 BY <1>6
  <2>1. Len(rest) + Len(e) = Len(b[1].calls) + 1
    <3> DEFINE y == Len(agent.calls)  z == Len(b[1].calls)  v == Len(b)
    <3>1. y \in Nat \ {0} /\ z \in Nat /\ v \in Nat /\ y + v = z + 1 BY <2>a, <2>b, <2>c, <2>d
    <3>2. Len(rest) = y - 1 /\ Len(e) = v + 1 BY <2>a, <2>b
    <3> HIDE DEF y, z, v
    <3>3. (y - 1) + (v + 1) = z + 1 BY <3>1
    <3> QED BY <3>2, <3>3 DEF z
  <2>2. ASSUME NEW k \in DOMAIN rest PROVE rest[k] = b[1].calls[Len(e) + k - 1]
    <3>1. k \in 1 .. Len(agent.calls) - 1 /\ rest[k] = agent.calls[k + 1] BY <1>2
    <3>2. k + 1 \in DOMAIN agent.calls BY <1>2, <2>a, <3>1
    <3>3. agent.calls[k + 1] = b[1].calls[Len(b) + (k + 1) - 1] BY <1>6, <3>2
    <3>4. Len(b) + (k + 1) - 1 = Len(e) + k - 1 BY <2>b, <3>1
    <3> QED BY <3>1, <3>3, <3>4
  <2>3. e[1] = b[1] /\ e # <<>> BY <1>4
  <2>4. b # <<Note>> /\ made > 0 /\ \A p \in timeline : UpTo(p, made - 1)
    <3>1. b[1].kind = "reply" BY <1>0 DEF OfTurn, b
    <3>2. b # <<Note>> BY <3>1 DEF Note
    <3> QED BY <1>0, <3>2 DEF BatchOK, b
  <2>5. OfTurn(agent.batch)' BY <1>1, <1>10 DEF OfTurn
  <2>6. \A p \in timeline' : UpTo(p, made' - 1) BY <2>4 DEF UpTo
  <2>7. e # <<Note>>
    <3>1. e[1].kind = "reply" BY <1>10 DEF OfTurn
    <3> QED BY <3>1 DEF Note
  <2>8. /\ agent'.at = "calling" /\ agent'.next = 1 /\ agent'.batch = e /\ agent'.calls = rest
        /\ made' = made
    BY <1>1
  <2>9. /\ Len(agent'.calls) + Len(agent'.batch) = Len(agent'.batch[1].calls) + 1
        /\ \A k \in DOMAIN agent'.calls :
              agent'.calls[k] = agent'.batch[1].calls[Len(agent'.batch) + k - 1]
    BY <2>1, <2>2, <2>3, <2>8
  <2>10. agent'.batch \in Seq(Entry) /\ agent'.calls \in Seq(ToolUse) /\ agent'.batch # <<>>
    BY <1>2, <1>4, <2>3, <2>8
  <2>11. made' > 0 /\ agent'.batch # <<Note>> BY <2>4, <2>7, <2>8
  <2> QED BY <2>5, <2>6, <2>8, <2>9, <2>10, <2>11 DEF BatchOK
<1>12. \A m \in 1 .. Len(b) : Pends(m)' <=> Pends(m) BY <1>1, <1>4, SMTT(30) DEF Pends, b
<1>13. ASSUME NEW m, m = Len(b) + 1
       PROVE  Pends(m)' <=> ok /\ decodes /\ c.tool = "task_checklist"
  <2>1. m > 1 /\ m - 1 = Len(b) BY <1>4, <1>13
  <2>2. agent'.batch[m] = r /\ agent'.batch[1] = b[1] BY <1>1, <1>4, <1>13
  <2> QED BY <1>7, <1>9, <2>1, <2>2 DEF Pends
<1> QED BY <1>1, <1>4, <1>11, <1>12, <1>13 DEF r, c, b, e

LEMMA EditedTyped == \A l \in TaskList, e \in Edit : Edited(l, e) \in TaskList
<1> SUFFICES ASSUME NEW l \in TaskList, NEW e \in Edit PROVE Edited(l, e) \in TaskList OBVIOUS
<1>0. l \subseteq TaskItem BY DEF TaskList
<1>1. CASE e.action = "add"
  <2>1. [title |-> e.title, status |-> e.status] \in TaskItem BY <1>1 DEF Edit, TaskItem
  <2> QED BY <1>0, <1>1, <2>1 DEF Edited, TaskList
<1>2. CASE e.action = "update"
  <2>1. e.newTitle \in Title BY <1>2 DEF Edit
  <2>2. \A i \in l : [i EXCEPT !.title = e.newTitle] \in TaskItem BY <1>0, <2>1 DEF TaskItem
  <2> QED BY <1>0, <1>2, <2>2 DEF Edited, TaskList
<1>3. CASE e.action = "set_status"
  <2>1. e.status \in Progress BY <1>3 DEF Edit
  <2>2. \A i \in l : [i EXCEPT !.status = e.status] \in TaskItem BY <1>0, <2>1 DEF TaskItem
  <2> QED BY <1>0, <1>3, <2>2 DEF Edited, TaskList
<1>4. CASE e.action = "delete" BY <1>0, <1>4 DEF Edited, TaskList
<1>5. CASE e.action = "clear" BY <1>5 DEF Edited, TaskList
<1>6. CASE e.action = "list" BY <1>6 DEF Edited, TaskList
<1>7. e.action \in {"add", "update", "set_status", "delete", "clear", "list"} BY DEF Edit
<1> QED BY <1>1, <1>2, <1>3, <1>4, <1>5, <1>6, <1>7

\* A call that leaves no list in its result leaves what the list follows.
LEMMA NothingPends ==
    ASSUME ChecklistInv, agent.at = "calling", Follows, UNCHANGED <<list, head, chosen>>,
           agent'.at = "calling", agent'.next = 1, Len(agent.batch) \in Nat \ {0},
           Len(agent'.batch) = Len(agent.batch) + 1,
           \A m \in 1 .. Len(agent.batch) : agent'.batch[m] = agent.batch[m] /\ (Pends(m)' <=> Pends(m)),
           \A m : m = Len(agent.batch) + 1 => ~Pends(m)'
    PROVE  Follows'
<1>1. agent.next = 1 BY DEF ChecklistInv, BatchOK
<1>2. Base' = Base BY DEF Base, Continued
<1>3. \A m \in 1 .. Len(agent'.batch) : m \in 1 .. Len(agent.batch) \/ ~Pends(m)' OBVIOUS
<1>4. CASE \E m \in agent.next .. Len(agent.batch) :
             /\ Pends(m) /\ agent.batch[m].list = list
             /\ \A n \in m + 1 .. Len(agent.batch) : ~Pends(n)
  <2>1. PICK m \in 1 .. Len(agent.batch) :
             /\ Pends(m) /\ agent.batch[m].list = list
             /\ \A n \in m + 1 .. Len(agent.batch) : ~Pends(n)
    BY <1>1, <1>4
  <2>2. m \in agent'.next .. Len(agent'.batch) /\ Pends(m)' /\ agent'.batch[m].list = list' BY <2>1
  <2>3. \A n \in m + 1 .. Len(agent'.batch) : ~Pends(n)' BY <1>3, <2>1
  <2> QED BY <2>2, <2>3 DEF Follows
<1>5. CASE list = Rebuilt(Base) /\ \A m \in 1 .. Len(agent.batch) : ~Pends(m)
  <2>1. \A m \in agent'.next .. Len(agent'.batch) : ~Pends(m)' BY <1>3, <1>5
  <2>2. list' = Rebuilt(Base)' BY <1>2, <1>5
  <2> QED BY <2>1, <2>2 DEF Follows
<1> QED BY <1>1, <1>4, <1>5 DEF Follows

LEMMA EditListStep == ASSUME ChecklistInv, NEW e \in Edits, EditList(e) PROVE ChecklistInv'
<1>0. /\ ChecklistTyped /\ BatchOK /\ Validity /\ Overlaps
      /\ agent.at = "calling" /\ agent.calls # <<>> /\ Head(agent.calls).tool = "task_checklist"
      /\ UNCHANGED <<timeline, head, chosen, idle, late, selecting, made>>
      /\ list' = Edited(list, e) /\ folding' = Stale(folding) /\ overtaken' = FALSE
      /\ Returns(TRUE, TRUE, list')
  BY DEF ChecklistInv, EditList, Calling
<1>1. list' \in TaskList /\ Valid(list')
  <2>1. list \in TaskList /\ e \in Edit BY <1>0, ChecklistAssumption DEF ChecklistTyped
  <2>2. Valid(Edited(list, e)) BY DEF EditList, Accepted
  <2> QED BY <1>0, <2>1, <2>2, EditedTyped
<1>2. PICK l \in TaskList : l = list' BY <1>1
<1>3. /\ BatchOK' /\ agent'.at = "calling" /\ agent'.next = 1 /\ agent'.from = agent.from
      /\ agent' = [at |-> agent'.at, calls |-> agent'.calls, batch |-> agent'.batch,
                   next |-> agent'.next, from |-> agent'.from]
      /\ Len(agent'.batch) = Len(agent.batch) + 1 /\ Len(agent.batch) \in Nat \ {0}
      /\ agent'.batch[Len(agent'.batch)] = ResultOf(Head(agent.calls), TRUE, TRUE, l)
      /\ \A m : m = Len(agent.batch) + 1 => Pends(m)'
  <2>1. Returns(TRUE, TRUE, l) /\ Valid(l) BY <1>0, <1>1, <1>2
  <2> QED BY <1>0, <1>2, <2>1, CallReturns
<1>4. ChecklistTyped' BY <1>0, <1>1, <1>3 DEF ChecklistTyped, Stale, LoopStates
<1>5. Validity'
  <2>1. \A p \in timeline : PathOK(p)' BY <1>0 DEF Validity, PathOK
  <2>2. folding'.list = folding.list BY <1>0 DEF Stale, ChecklistTyped
  <2> QED BY <1>0, <1>1, <2>1, <2>2 DEF Validity
<1>6. Overlaps'
  <2>1. folding'.by = folding.by /\ folding'.stale = TRUE BY <1>0 DEF Stale, ChecklistTyped
  <2> QED BY <1>0, <1>3, <2>1 DEF Overlaps
<1>7. Follows'
  <2> DEFINE m == Len(agent'.batch)
  <2>1. PICK n \in Nat : n = Len(agent'.batch) BY <1>3
  <2>2. Pends(n)' BY <1>3, <2>1
  <2>3. agent'.batch[n].list = list' BY <1>2, <1>3, <2>1 DEF ResultOf
  <2>4. n \in agent'.next .. Len(agent'.batch) /\ n + 1 > Len(agent'.batch) BY <1>3, <2>1
  <2>5. \A k \in n + 1 .. Len(agent'.batch) : ~Pends(k)' BY <2>1
  <2> QED BY <1>3, <2>2, <2>3, <2>4, <2>5 DEF Follows
<1> QED BY <1>3, <1>4, <1>5, <1>6, <1>7 DEF ChecklistInv

\* The steps in which a call returns and the list stays.
LEMMA ReturnStep ==
    ASSUME ChecklistInv, agent.at = "calling", agent.calls # <<>>,
           NEW ok \in BOOLEAN, NEW decodes \in BOOLEAN, NEW l \in TaskList,
           Returns(ok, decodes, l),
           UNCHANGED <<list, timeline, head, chosen, idle, folding, selecting, overtaken, made>>,
           late' \subseteq Edits, Head(agent.calls).tool = "task_checklist" => ~decodes
    PROVE  ChecklistInv'
<1>0. ChecklistTyped /\ BatchOK /\ Validity /\ Overlaps /\ (~overtaken => Follows)
  BY DEF ChecklistInv
<1>1. /\ BatchOK' /\ agent'.at = "calling" /\ agent'.next = 1 /\ agent'.from = agent.from
      /\ agent' = [at |-> agent'.at, calls |-> agent'.calls, batch |-> agent'.batch,
                   next |-> agent'.next, from |-> agent'.from]
      /\ Len(agent'.batch) = Len(agent.batch) + 1 /\ Len(agent.batch) \in Nat \ {0}
      /\ \A m \in 1 .. Len(agent.batch) : agent'.batch[m] = agent.batch[m] /\ (Pends(m)' <=> Pends(m))
      /\ \A m : m = Len(agent.batch) + 1 => ~Pends(m)'
  BY CallReturns
<1>2. ChecklistTyped' BY <1>0, <1>1 DEF ChecklistTyped, LoopStates
<1>3. Validity'
  <2>1. \A p \in timeline : PathOK(p)' BY <1>0 DEF Validity, PathOK
  <2> QED BY <1>0, <2>1 DEF Validity
<1>4. Overlaps' BY <1>0, <1>1 DEF Overlaps
<1>5. ~overtaken => Follows' BY <1>0, <1>1, NothingPends
<1> QED BY <1>1, <1>2, <1>3, <1>4, <1>5 DEF ChecklistInv

LEMMA CallFailsStep == ChecklistInv /\ CallFails => ChecklistInv'
<1>1. {} \in TaskList BY DEF TaskList
<1>2. ChecklistInv => late \subseteq Edits BY DEF ChecklistInv, ChecklistTyped
<1> QED BY <1>1, <1>2, ReturnStep DEF CallFails, Aside

LEMMA CallTimesOutStep == ASSUME ChecklistInv, NEW e \in Edits, CallTimesOut(e) PROVE ChecklistInv'
<1>1. {} \in TaskList BY DEF TaskList
<1>2. late \subseteq Edits BY DEF ChecklistInv, ChecklistTyped
<1> QED BY <1>1, <1>2, ReturnStep DEF CallTimesOut, Calling

LEMMA RunOtherStep == ChecklistInv /\ RunOther => ChecklistInv'
<1> SUFFICES ASSUME ChecklistInv, RunOther PROVE ChecklistInv' OBVIOUS
<1>1. {} \in TaskList /\ Printed \subseteq TaskList BY ChecklistAssumption DEF TaskList
<1>2. late \subseteq Edits BY DEF ChecklistInv, ChecklistTyped
<1>3. PICK decodes \in BOOLEAN, l \in TaskList : Returns(TRUE, decodes, l)
  BY <1>1 DEF RunOther
<1>4. agent.at = "calling" /\ agent.calls # <<>> /\ Head(agent.calls).tool = "bash"
      /\ UNCHANGED <<list, timeline, head, chosen, idle, late, folding, selecting, overtaken, made>>
  BY DEF RunOther, Calling, Aside
<1> QED BY <1>2, <1>3, <1>4, ReturnStep

LEMMA RebuiltTyped == \A p \in Seq(Entry) : HasLast(p) => Rebuilt(p) \in TaskList
<1> SUFFICES ASSUME NEW p \in Seq(Entry), HasLast(p) PROVE Rebuilt(p) \in TaskList OBVIOUS
<1>1. CASE Holding(p) = {} BY <1>1 DEF Rebuilt, LastHeld, Holding, TaskList
<1>2. CASE Holding(p) # {}
  <2>1. PICK n \in Holding(p) : \A i \in Holding(p) : i <= n BY <1>2 DEF HasLast
  <2>2. n \in DOMAIN p /\ Carries(p, n) /\ p[n] \in Entry BY <2>1 DEF Holding
  <2>3. p[n].list \in TaskList BY <2>2 DEF Carries, Entry, Note
  <2> QED BY <2>1, <2>2, <2>3, LastHeldIs
<1> QED BY <1>1, <1>2

LEMMA EditLateStep == ASSUME ChecklistInv, NEW e \in Edits, EditLate(e) PROVE ChecklistInv'
<1>0. /\ ChecklistTyped /\ BatchOK /\ Validity /\ Overlaps
      /\ agent.at # "ended" /\ ~overtaken => Follows
      /\ UNCHANGED <<timeline, head, chosen, agent, idle, selecting, made>> /\ late' \subseteq Edits
  BY DEF ChecklistInv, EditLate, ChecklistTyped
<1>1. BatchOK'
  <2>1. OfTurn(agent.batch)' <=> OfTurn(agent.batch) BY <1>0 DEF OfTurn
  <2>2. Sole(agent.batch)' <=> Sole(agent.batch) BY <1>0 DEF Sole
  <2> QED BY <1>0, <2>1, <2>2 DEF BatchOK
<1>2. \A p \in timeline' : PathOK(p)' BY <1>0 DEF Validity, PathOK
<1>3. CASE Accepted(list, e)
  <2>1. list' = Edited(list, e) /\ folding' = Stale(folding) /\ overtaken' = TRUE BY <1>3 DEF EditLate
  <2>2. list \in TaskList /\ e \in Edit BY <1>0, ChecklistAssumption DEF ChecklistTyped
  <2>3. Valid(Edited(list, e)) BY <1>3 DEF Accepted
  <2>4. list' \in TaskList /\ Valid(list') BY <2>1, <2>2, <2>3, EditedTyped
  <2>5. folding'.by = folding.by /\ folding'.stale = TRUE /\ folding'.list = folding.list
        /\ folding' \in [by : {"nobody", "loop", "client"}, list : TaskList, stale : BOOLEAN]
    BY <1>0, <2>1 DEF Stale, ChecklistTyped
  <2>6. ChecklistTyped' BY <1>0, <2>1, <2>4, <2>5 DEF ChecklistTyped
  <2>7. Validity' BY <1>0, <1>2, <2>4, <2>5 DEF Validity
  <2>8. Overlaps' BY <1>0, <2>1, <2>5 DEF Overlaps
  <2> QED BY <1>1, <2>1, <2>6, <2>7, <2>8 DEF ChecklistInv
<1>4. CASE ~Accepted(list, e)
  <2>1. UNCHANGED <<list, folding, overtaken>> BY <1>4 DEF EditLate
  <2>2. ChecklistTyped' BY <1>0, <2>1 DEF ChecklistTyped
  <2>3. Validity' BY <1>0, <1>2, <2>1 DEF Validity
  <2>4. Overlaps' BY <1>0, <2>1, SMTT(30) DEF Overlaps
  <2>5. Follows => Follows' BY <1>0, <2>1 DEF Follows, Pends, ReplyIn, Base, Continued
  <2> QED BY <1>0, <1>1, <2>1, <2>2, <2>3, <2>4, <2>5 DEF ChecklistInv
<1> QED BY <1>3, <1>4

\* The steps that change neither the list nor the loop nor the timeline.
LEMMA BesideStep ==
    ASSUME ChecklistInv, UNCHANGED <<list, timeline, head, chosen, agent, late, overtaken, made>>,
           idle' \in BOOLEAN, selecting' \in timeline,
           folding' \in [by : {"nobody", "loop", "client"}, list : TaskList, stale : BOOLEAN],
           Valid(folding'.list), folding'.by # "nobody" /\ ~folding'.stale => chosen = <<>> /\ folding'.list = list,
           folding'.by = "loop" <=> agent.at = "folding",
           agent.at = "ended" => folding'.by = "nobody"
    PROVE  ChecklistInv'
<1>0. /\ ChecklistTyped /\ BatchOK /\ Validity /\ Overlaps
      /\ agent.at # "ended" /\ ~overtaken => Follows
  BY DEF ChecklistInv
<1>1. BatchOK'
  <2>1. OfTurn(agent.batch)' <=> OfTurn(agent.batch) BY DEF OfTurn
  <2>2. Sole(agent.batch)' <=> Sole(agent.batch) BY DEF Sole
  <2> QED BY <1>0, <2>1, <2>2 DEF BatchOK
<1>2. \A p \in timeline' : PathOK(p)' BY <1>0 DEF Validity, PathOK
<1>3. ChecklistTyped' BY <1>0 DEF ChecklistTyped
<1>4. Validity' BY <1>0, <1>2 DEF Validity
<1>5. Overlaps' BY <1>0, SMTT(60) DEF Overlaps
<1>6. Follows => Follows' BY DEF Follows, Pends, ReplyIn, Base, Continued
<1> QED BY <1>0, <1>1, <1>3, <1>4, <1>5, <1>6 DEF ChecklistInv

LEMMA HubFollowsStep == ChecklistInv /\ HubFollows => ChecklistInv'
<1> SUFFICES ASSUME ChecklistInv, HubFollows PROVE ChecklistInv' OBVIOUS
<1>1. ChecklistTyped /\ Validity /\ Overlaps BY DEF ChecklistInv
<1>2. UNCHANGED <<list, timeline, head, chosen, agent, late, folding, selecting, overtaken, made>>
      /\ idle' \in BOOLEAN
  BY DEF HubFollows
<1> QED BY <1>1, <1>2, BesideStep DEF ChecklistTyped, Validity, Overlaps

LEMMA BeginSelectStep == ASSUME ChecklistInv, NEW p \in timeline, BeginSelect(p) PROVE ChecklistInv'
<1>1. ChecklistTyped /\ Validity /\ Overlaps BY DEF ChecklistInv
<1>2. UNCHANGED <<list, timeline, head, chosen, agent, idle, late, folding, overtaken, made>>
      /\ selecting' = p
  BY DEF BeginSelect
<1> QED BY <1>1, <1>2, BesideStep DEF ChecklistTyped, Validity, Overlaps

LEMMA SelectFailsStep == ChecklistInv /\ SelectFails => ChecklistInv'
<1> SUFFICES ASSUME ChecklistInv, SelectFails PROVE ChecklistInv' OBVIOUS
<1>1. ChecklistTyped /\ Validity /\ Overlaps BY DEF ChecklistInv
<1>2. UNCHANGED <<list, timeline, head, chosen, agent, idle, late, folding, overtaken, made>>
      /\ selecting' = <<>>
  BY DEF SelectFails
<1> QED BY <1>1, <1>2, BesideStep DEF ChecklistTyped, Validity, Overlaps

LEMMA AllCalledStep == ChecklistInv /\ AllCalled => ChecklistInv'
<1> SUFFICES ASSUME ChecklistInv, AllCalled PROVE ChecklistInv' OBVIOUS
<1>0. /\ ChecklistTyped /\ BatchOK /\ Validity /\ Overlaps /\ (~overtaken => Follows)
      /\ agent.at = "calling" /\ UNCHANGED <<list, timeline, head, chosen, Aside>>
  BY DEF ChecklistInv, AllCalled
<1>1. agent' = [at |-> "committing", calls |-> <<>>, batch |-> agent.batch, next |-> 1, from |-> chosen]
  BY DEF AllCalled, Commits, Parked
<1>2. ChecklistTyped' BY <1>0, <1>1 DEF ChecklistTyped, LoopStates, Aside
<1>3. BatchOK'
  <2>1. OfTurn(agent.batch) /\ agent.batch # <<>> /\ agent.batch \in Seq(Entry) BY <1>0 DEF BatchOK
  <2>2. agent.batch # <<Note>>
    <3>1. agent.batch[1].kind = "reply" BY <2>1 DEF OfTurn
    <3> QED BY <3>1 DEF Note
  <2>3. OfTurn(agent.batch)' BY <1>0, <1>1, <2>1 DEF OfTurn, Aside
  <2>4. made' > 0 /\ \A p \in timeline' : UpTo(p, made' - 1) BY <1>0, <2>2 DEF BatchOK, Aside
  <2>5. 1 <= Len(agent.batch) + 1 BY <2>1, EmptySeq
  <2> QED BY <1>1, <2>1, <2>3, <2>4, <2>5 DEF BatchOK
<1>4. Validity' BY <1>0 DEF Validity, PathOK, Aside
<1>5. Overlaps' BY <1>0, <1>1, <1>2 DEF Overlaps, ChecklistTyped, Aside
<1>6. Follows => Follows'
  <2>1. agent.next = 1 BY <1>0 DEF BatchOK
  <2>2. Base' = Base BY <1>0, <1>1 DEF Base, Continued
  <2>3. \A m : Pends(m)' <=> Pends(m) BY <1>1 DEF Pends
  <2>4. agent'.next = agent.next /\ agent'.batch = agent.batch /\ list' = list BY <1>0, <1>1, <2>1
  <2> QED BY <2>1, <2>2, <2>3, <2>4 DEF Follows
<1> QED BY <1>0, <1>2, <1>3, <1>4, <1>5, <1>6 DEF ChecklistInv, Aside

LEMMA CommittedStep == ChecklistInv /\ Committed => ChecklistInv'
<1> SUFFICES ASSUME ChecklistInv, Committed PROVE ChecklistInv' OBVIOUS
<1>0. /\ ChecklistTyped /\ BatchOK /\ Validity /\ Overlaps /\ (~overtaken => Follows)
      /\ agent.at = "committing" /\ agent.next > Len(agent.batch)
      /\ UNCHANGED <<list, timeline, head, Aside>>
      /\ chosen' = (IF chosen = agent.from THEN <<>> ELSE chosen)
  BY DEF ChecklistInv, Committed
<1>1. agent' = [at |-> "between", calls |-> <<>>, batch |-> <<>>, next |-> 1, from |-> <<>>]
  BY DEF Committed, Parked
<1>2. ChecklistTyped' BY <1>0, <1>1 DEF ChecklistTyped, LoopStates, Aside
<1>3. BatchOK' BY <1>1 DEF BatchOK
<1>4. Validity' BY <1>0 DEF Validity, PathOK, Aside
<1>5. Overlaps' BY <1>0, <1>1, <1>2 DEF Overlaps, ChecklistTyped, Aside
<1>6. ~overtaken => Follows'
  <2> SUFFICES ASSUME ~overtaken PROVE Follows' OBVIOUS
  <2>1. Len(agent.batch) \in Nat \ {0} BY <1>0, EmptySeq DEF BatchOK
  <2>2. agent.next > 1 /\ agent.next \in Nat BY <1>0, <2>1 DEF BatchOK
  <2>3. list = Rebuilt(head) BY <1>0, <2>1, <2>2 DEF Follows, Base
  <2>4. chosen' = <<>> BY <1>0 DEF Overlaps
  <2>5. Base' = head BY <1>0, <1>1, <2>4 DEF Base, Continued
  <2>6. \A m \in agent'.next .. Len(agent'.batch) : ~Pends(m)' BY <1>1 DEF Pends
  <2> QED BY <1>0, <2>3, <2>5, <2>6 DEF Follows
<1> QED BY <1>0, <1>2, <1>3, <1>4, <1>5, <1>6 DEF ChecklistInv, Aside

\* Between turns no result is to be committed.
LEMMA IdleFollows ==
    ASSUME ChecklistTyped', BatchOK', agent'.at \in {"parked", "between", "folding"},
           list' = Rebuilt(IF chosen' # <<>> THEN chosen' ELSE head')
    PROVE  Follows'
<1>1. agent'.batch = <<>> /\ agent'.next = 1 BY DEF BatchOK
<1>2. \A m \in agent'.next .. Len(agent'.batch) : ~Pends(m)' BY <1>1
<1>3. list' = Rebuilt(Base)' BY DEF Base, Continued, Rebuilt
<1> QED BY <1>2, <1>3 DEF Follows

LEMMA BeginFoldStep ==
    ASSUME ChecklistInv, NEW by \in {"loop", "client"}, BeginFold(by) PROVE ChecklistInv'
<1>0. /\ ChecklistTyped /\ BatchOK /\ Validity /\ Overlaps
      /\ agent.at # "ended" /\ ~overtaken => Follows
      /\ UNCHANGED <<list, timeline, head, chosen, idle, late, selecting, overtaken, made>>
      /\ folding' = [by |-> by, list |-> list, stale |-> FALSE]
      /\ folding.by = "nobody" /\ chosen = <<>>
  BY DEF ChecklistInv, BeginFold
<1>1. CASE by = "client"
  <2>1. agent' = agent /\ agent.at # "ended" BY <1>1 DEF BeginFold, AgentRuns
  <2> QED BY <1>0, <1>1, <2>1, BesideStep DEF ChecklistTyped, Validity, Overlaps
<1>2. CASE by = "loop"
  <2>0. agent.at = "between" BY <1>2 DEF BeginFold
  <2>1. agent' = [at |-> "folding", calls |-> agent.calls, batch |-> agent.batch,
                  next |-> agent.next, from |-> agent.from]
    BY <1>0, <1>2 DEF BeginFold, ChecklistTyped
  <2>2. ChecklistTyped' BY <1>0, <1>2, <2>1 DEF ChecklistTyped, LoopStates
  <2>3. BatchOK' BY <1>0, <2>0, <2>1 DEF BatchOK
  <2>4. Validity' BY <1>0 DEF Validity, PathOK
  <2>5. Overlaps' BY <1>0, <1>2, <2>1 DEF Overlaps
  <2>6. ~overtaken => Follows'
    <3> SUFFICES ASSUME ~overtaken PROVE Follows' OBVIOUS
    <3>1. agent.batch = <<>> /\ agent.next = 1 BY <1>0, <2>0 DEF BatchOK
    <3>2. list = Rebuilt(Continued) BY <1>0, <2>0, <3>1 DEF Follows, Base
    <3> QED BY <1>0, <2>1, <2>2, <2>3, <3>2, IdleFollows DEF Continued
  <2> QED BY <1>0, <2>2, <2>3, <2>4, <2>5, <2>6 DEF ChecklistInv
<1> QED BY <1>1, <1>2

LEMMA FoldFailsStep == ChecklistInv /\ FoldFails => ChecklistInv'
<1> SUFFICES ASSUME ChecklistInv, FoldFails PROVE ChecklistInv' OBVIOUS
<1>0. /\ ChecklistTyped /\ BatchOK /\ Validity /\ Overlaps
      /\ agent.at # "ended" /\ ~overtaken => Follows
      /\ UNCHANGED <<list, timeline, head, chosen, idle, late, selecting, overtaken, made>>
      /\ folding' = NoFold /\ Resume
  BY DEF ChecklistInv, FoldFails
<1>1. folding' \in [by : {"nobody", "loop", "client"}, list : TaskList, stale : BOOLEAN]
      /\ Valid(folding'.list) /\ folding'.by = "nobody"
  BY <1>0, LastOfNone DEF NoFold, TaskList
<1>2. CASE folding.by # "loop"
  <2>1. agent' = agent /\ agent.at # "folding" BY <1>0, <1>2 DEF Resume, Overlaps
  <2> QED BY <1>0, <1>1, <2>1, BesideStep DEF ChecklistTyped, Validity, Overlaps
<1>3. CASE folding.by = "loop"
  <2>0. agent.at = "folding" BY <1>0, <1>3 DEF Overlaps
  <2>1. agent' = [at |-> "between", calls |-> agent.calls, batch |-> agent.batch,
                  next |-> agent.next, from |-> agent.from]
    BY <1>0, <1>3 DEF Resume, ChecklistTyped
  <2>2. ChecklistTyped' BY <1>0, <1>1, <2>1 DEF ChecklistTyped, LoopStates
  <2>3. BatchOK' BY <1>0, <2>0, <2>1 DEF BatchOK
  <2>4. Validity' BY <1>0, <1>1 DEF Validity, PathOK
  <2>5. Overlaps' BY <1>0, <1>1, <2>1 DEF Overlaps
  <2>6. ~overtaken => Follows'
    <3> SUFFICES ASSUME ~overtaken PROVE Follows' OBVIOUS
    <3>1. agent.batch = <<>> /\ agent.next = 1 BY <1>0, <2>0 DEF BatchOK
    <3>2. list = Rebuilt(Continued) BY <1>0, <2>0, <3>1 DEF Follows, Base
    <3> QED BY <1>0, <2>1, <2>2, <2>3, <3>2, IdleFollows DEF Continued
  <2> QED BY <1>0, <2>2, <2>3, <2>4, <2>5, <2>6 DEF ChecklistInv
<1> QED BY <1>2, <1>3

LEMMA EndSelectStep == ChecklistInv /\ EndSelect => ChecklistInv'
<1> SUFFICES ASSUME ChecklistInv, EndSelect PROVE ChecklistInv' OBVIOUS
<1>0. /\ ChecklistTyped /\ BatchOK /\ Validity /\ Overlaps
      /\ UNCHANGED <<timeline, head, agent, idle, late, made>>
      /\ list' = Rebuilt(selecting) /\ chosen' = selecting /\ selecting' = <<>>
      /\ folding' = Stale(folding) /\ selecting # <<>>
      /\ overtaken' = (agent.at \in {"calling", "committing"})
  BY DEF ChecklistInv, EndSelect
<1>1. PathOK(selecting) BY <1>0 DEF ChecklistTyped, Validity
<1>2. list' \in TaskList /\ Valid(list') BY <1>0, <1>1, RebuiltTyped DEF PathOK
<1>3. folding'.by = folding.by /\ folding'.stale = TRUE /\ folding'.list = folding.list
      /\ folding' \in [by : {"nobody", "loop", "client"}, list : TaskList, stale : BOOLEAN]
  BY <1>0 DEF Stale, ChecklistTyped
<1>4. ChecklistTyped' BY <1>0, <1>2, <1>3 DEF ChecklistTyped
<1>5. BatchOK'
  <2>1. OfTurn(agent.batch)' <=> OfTurn(agent.batch) BY <1>0 DEF OfTurn
  <2>2. Sole(agent.batch)' <=> Sole(agent.batch) BY <1>0 DEF Sole
  <2> QED BY <1>0, <2>1, <2>2 DEF BatchOK
<1>6. Validity'
  <2>1. \A p \in timeline : PathOK(p)' BY <1>0 DEF Validity, PathOK
  <2> QED BY <1>0, <1>2, <1>3, <2>1 DEF Validity
<1>7. Overlaps' BY <1>0, <1>3 DEF Overlaps
<1>8. agent'.at # "ended" /\ ~overtaken' => Follows'
  BY <1>0, <1>4, <1>5, IdleFollows DEF ChecklistTyped, LoopStates
<1> QED BY <1>4, <1>5, <1>6, <1>7, <1>8 DEF ChecklistInv

LEMMA EndStep == ChecklistInv /\ End => ChecklistInv'
<1> SUFFICES ASSUME ChecklistInv, End PROVE ChecklistInv' OBVIOUS
<1>0. /\ ChecklistTyped /\ Validity
      /\ UNCHANGED <<list, timeline, head, chosen, idle, overtaken, made>>
      /\ late' = {} /\ folding' = NoFold /\ selecting' = <<>>
  BY DEF ChecklistInv, End
<1>1. agent' = [at |-> "ended", calls |-> <<>>, batch |-> <<>>, next |-> 1, from |-> <<>>]
  BY DEF End, Parked
<1>2. ChecklistTyped' BY <1>0, <1>1 DEF ChecklistTyped, LoopStates, NoFold, TaskList
<1>3. BatchOK' BY <1>1 DEF BatchOK
<1>4. Validity' BY <1>0, LastOfNone DEF Validity, PathOK, NoFold
<1>5. Overlaps' BY <1>0, <1>1 DEF Overlaps, NoFold
<1> QED BY <1>1, <1>2, <1>3, <1>4, <1>5 DEF ChecklistInv

LEMMA LoadAgainStep == ChecklistInv /\ LoadAgain => ChecklistInv'
<1> SUFFICES ASSUME ChecklistInv, LoadAgain PROVE ChecklistInv' OBVIOUS
<1>0. /\ ChecklistTyped /\ Validity /\ Overlaps /\ agent.at = "ended"
      /\ UNCHANGED <<timeline, head, late, folding, selecting, made>>
      /\ idle' = TRUE /\ list' = Rebuilt(head) /\ chosen' = <<>> /\ overtaken' = FALSE
  BY DEF ChecklistInv, LoadAgain
<1>1. agent' = [at |-> "parked", calls |-> <<>>, batch |-> <<>>, next |-> 1, from |-> <<>>]
  BY DEF LoadAgain, Parked
<1>2. PathOK(head) BY <1>0 DEF ChecklistTyped, Validity
<1>3. list' \in TaskList /\ Valid(list') BY <1>0, <1>2, RebuiltTyped DEF PathOK
<1>4. ChecklistTyped' BY <1>0, <1>1, <1>3 DEF ChecklistTyped, LoopStates
<1>5. BatchOK' BY <1>1 DEF BatchOK
<1>6. Validity' BY <1>0, <1>3 DEF Validity, PathOK
<1>7. Overlaps' BY <1>0, <1>1 DEF Overlaps
<1>8. Follows' BY <1>0, <1>1, <1>4, <1>5, IdleFollows
<1> QED BY <1>4, <1>5, <1>6, <1>7, <1>8 DEF ChecklistInv

LEMMA CommitFoldStep == ChecklistInv /\ CommitFold => ChecklistInv'
<1> SUFFICES ASSUME ChecklistInv, CommitFold PROVE ChecklistInv' OBVIOUS
<1> DEFINE q == <<Checkpoint(folding.list)>>
<1>0. /\ ChecklistTyped /\ BatchOK /\ Validity /\ Overlaps /\ made \in Nat
      /\ agent.at # "ended" /\ ~overtaken => Follows
      /\ UNCHANGED <<list, chosen, idle, late, selecting, made>>
      /\ folding' = NoFold /\ Resume /\ folding.by # "nobody"
      /\ head' = q /\ timeline' = timeline \cup {q}
      /\ overtaken' = (folding.stale \/ (overtaken /\ agent.at \in {"calling", "committing"}))
  BY DEF ChecklistInv, CommitFold, Extend, ChecklistTyped
<1>1. folding.list \in TaskList /\ Valid(folding.list) BY <1>0 DEF ChecklistTyped, Validity
<1>2. /\ q \in Seq(Entry) /\ HasLast(q) /\ Paired(q) /\ \A n \in Nat : UpTo(q, n)
      /\ Rebuilt(q) = folding.list /\ q # <<>>
  BY <1>1, CheckpointHeld
<1>3. PathOK(q) BY <1>0, <1>1, <1>2 DEF PathOK
<1>4. DOMAIN q = {1} /\ q[1].kind = "compaction" /\ q[1] # Note BY DEF Checkpoint, Note
<1> HIDE DEF q
<1>5. /\ agent'.batch = agent.batch /\ agent'.next = agent.next /\ agent'.calls = agent.calls
      /\ agent'.from = agent.from
      /\ agent' = [at |-> agent'.at, calls |-> agent'.calls, batch |-> agent'.batch,
                   next |-> agent'.next, from |-> agent'.from]
      /\ agent'.at = (IF agent.at = "folding" THEN "between" ELSE agent.at)
  BY <1>0 DEF Resume, ChecklistTyped, Overlaps
<1>6. folding' \in [by : {"nobody", "loop", "client"}, list : TaskList, stale : BOOLEAN]
      /\ Valid(folding'.list) /\ folding'.by = "nobody"
  BY <1>0, LastOfNone DEF NoFold, TaskList
<1>7. ChecklistTyped' BY <1>0, <1>5, <1>6 DEF ChecklistTyped, LoopStates
<1>8. BatchOK'
  <2>1. OfTurn(agent.batch)' <=> OfTurn(agent.batch) BY <1>0, <1>5 DEF OfTurn
  <2>2. Sole(agent.batch) => Sole(agent.batch)' BY <1>0, <1>4, <1>5 DEF Sole
  <2>3. made > 0 => UpTo(q, made - 1) BY <1>0, <1>2
  <2>4. agent.at \in {"calling", "committing"} /\ agent.batch # <<Note>> =>
          /\ made' > 0
          /\ agent.next = 1 => \A p \in timeline' : UpTo(p, made' - 1)
          /\ agent.next > 1 => Sole(agent.batch)'
    BY <1>0, <2>2, <2>3 DEF BatchOK
  <2>5. CASE agent.at = "folding" BY <1>0, <1>5, <2>5 DEF BatchOK
  <2>6. CASE agent.at = "calling" BY <1>0, <1>5, <2>1, <2>4, <2>6 DEF BatchOK
  <2>7. CASE agent.at = "committing" BY <1>0, <1>5, <2>1, <2>4, <2>7 DEF BatchOK
  <2>8. CASE agent.at \notin {"folding", "calling", "committing"} BY <1>0, <1>5, <2>8 DEF BatchOK
  <2> QED BY <2>5, <2>6, <2>7, <2>8
<1>9. Validity'
  <2>1. \A p \in timeline' : PathOK(p)' BY <1>0, <1>3 DEF Validity, PathOK
  <2> QED BY <1>0, <1>6, <2>1 DEF Validity
<1>10. Overlaps' BY <1>0, <1>5, <1>6 DEF Overlaps
<1>11. agent'.at # "ended" /\ ~overtaken' => Follows'
  <2> SUFFICES ASSUME agent'.at # "ended", ~overtaken' PROVE Follows' OBVIOUS
  <2>1. ~folding.stale /\ chosen = <<>> /\ list = Rebuilt(q) BY <1>0, <1>2 DEF Overlaps
  <2>2. CASE agent.at \in {"parked", "between", "folding"}
    BY <1>0, <1>5, <1>7, <1>8, <2>1, <2>2, IdleFollows
  <2>3. CASE agent.at \in {"calling", "committing"}
    <3>1. ~overtaken /\ Follows BY <1>0, <2>3
    <3>2. agent'.at = agent.at /\ (agent.at = "committing" => agent.from = <<>>)
      BY <1>0, <1>5, <2>1, <2>3, <3>1 DEF Overlaps
    <3>3. Base' = q BY <1>0, <1>5, <2>1, <2>3, <3>2 DEF Base, Continued
    <3>4. \A m : Pends(m)' <=> Pends(m) BY <1>5 DEF Pends
    <3>5. CASE agent.next = 1
      <4>1. CASE \A m \in agent.next .. Len(agent.batch) : ~Pends(m)
        BY <1>0, <1>5, <2>1, <3>3, <3>4, <4>1 DEF Follows
      <4>2. CASE \E m \in agent.next .. Len(agent.batch) :
                   /\ Pends(m) /\ agent.batch[m].list = list
                   /\ \A n \in m + 1 .. Len(agent.batch) : ~Pends(n)
        BY <1>0, <1>5, <3>4, <3>5, <4>2 DEF Follows
      <4> QED BY <3>1, <3>5, <4>1, <4>2 DEF Follows
    <3>6. CASE agent.next > 1
      <4>0. agent.at = "calling" => agent.next = 1 BY <1>0 DEF BatchOK
      <4>1. agent.at = "committing" BY <2>3, <3>6, <4>0, SMTT(30)
      <4>2. agent.batch[1] # q[1]
        <5>1. agent.batch = <<Note>> \/ OfTurn(agent.batch) BY <1>0, <4>1 DEF BatchOK
        <5> QED BY <1>4, <5>1 DEF OfTurn
      <4>3. ~ReplyIn(head)' BY <1>0, <1>4, <1>5, <4>2 DEF ReplyIn
      <4> QED BY <1>0, <1>5, <2>1, <3>3, <3>6, <4>3 DEF Follows
    <3> QED BY <1>0, <3>5, <3>6 DEF BatchOK
  <2> QED BY <1>0, <1>5, <2>2, <2>3 DEF ChecklistTyped, LoopStates
<1> QED BY <1>7, <1>8, <1>9, <1>10, <1>11 DEF ChecklistInv

LEMMA CommitNextStep == ChecklistInv /\ CommitNext => ChecklistInv'
<1> SUFFICES ASSUME ChecklistInv, CommitNext PROVE ChecklistInv' OBVIOUS
<1> DEFINE b == agent.batch
           n == agent.next
           p == Base
           r == b[n]
           q == Append(p, r)
<1>0. /\ ChecklistTyped /\ BatchOK /\ Validity /\ Overlaps /\ (~overtaken => Follows)
      /\ agent.at = "committing" /\ made \in Nat
      /\ UNCHANGED <<list, chosen, idle, late, folding, selecting, overtaken, made>>
      /\ b \in Seq(Entry) /\ n \in Nat \ {0} /\ n <= Len(b)
  BY DEF ChecklistInv, CommitNext, Aside, BatchOK, ChecklistTyped
<1>1. head' = q /\ timeline' = timeline \cup {q} BY <1>0 DEF CommitNext, Extend, Base
<1>2. agent' = [at |-> "committing", calls |-> agent.calls, batch |-> agent.batch,
                next |-> agent.next + 1, from |-> agent.from]
  BY <1>0 DEF CommitNext, ChecklistTyped
<1>3. Len(b) \in Nat /\ n \in DOMAIN b /\ r \in Entry BY <1>0
<1>4. p \in timeline /\ PathOK(p) /\ p \in Seq(Entry) /\ HasLast(p)
  <2>1. p \in timeline BY <1>0 DEF Base, ChecklistTyped
  <2> QED BY <1>0, <2>1 DEF Validity, PathOK
<1>5. n > 1 => p = head BY <1>0 DEF Base
<1>6. b = <<Note>> => n = 1 BY <1>0
<1>7. CASE b = <<Note>>
  <2>1. r = Note /\ n = 1 /\ Len(b) = 1 BY <1>6, <1>7
  <2>2. r.kind = "message" BY <2>1 DEF Note
  <2> HIDE DEF p, r, q, b, n
  <2>3. PathOK(q)
    BY <1>0, <1>3, <1>4, <2>2, ExtendedPath DEF q
  <2>5. ChecklistTyped' BY <1>0, <1>1, <1>2 DEF ChecklistTyped, LoopStates
  <2>6. BatchOK'
    BY <1>0, <1>2, <1>7, <2>1 DEF BatchOK, b, n
  <2>7. Validity'
    <3>1. \A x \in timeline' : PathOK(x)' BY <1>0, <1>1, <2>3 DEF Validity, PathOK
    <3> QED BY <1>0, <3>1 DEF Validity
  <2>8. Overlaps' BY <1>0, <1>2 DEF Overlaps
  <2>9. ~overtaken => Follows'
    <3> SUFFICES ASSUME ~overtaken PROVE Follows' OBVIOUS
    <3>1. ~Pends(1) BY DEF Pends
    <3>2. list = Rebuilt(p) BY <1>0, <2>1, <3>1 DEF Follows, p, b, n
    <3>3. ~Carries(q, Len(q))
      <4>1. q[Len(q)] = r BY <1>3, <1>4, HeldBefore DEF q
      <4> QED BY <2>2, <4>1 DEF Carries
    <3>4. Rebuilt(q) = Rebuilt(p) BY <1>3, <1>4, <3>3, HeldAsBefore DEF q
    <3>5. Base' = q BY <1>1, <1>2, <2>1 DEF Base, n
    <3>6. \A m \in agent'.next .. Len(agent'.batch) : ~Pends(m)'
      <4>1. agent'.next = 2 /\ Len(agent'.batch) = 1 BY <1>2, <2>1 DEF b, n
      <4> QED BY <4>1
    <3> QED BY <1>0, <3>2, <3>4, <3>5, <3>6 DEF Follows
  <2> QED BY <1>0, <2>5, <2>6, <2>7, <2>8, <2>9 DEF ChecklistInv
<1>8. CASE b # <<Note>>
  <2>1. /\ OfTurn(b) /\ made > 0
        /\ n = 1 => \A x \in timeline : UpTo(x, made - 1)
        /\ n > 1 => Sole(b)
    BY <1>0, <1>8 DEF BatchOK
  <2>2. /\ b[1].kind = "reply" /\ b[1].calls \in Seq(ToolUse)
        /\ \A k \in DOMAIN b[1].calls : b[1].calls[k].id = <<made - 1, k>>
        /\ Len(b) <= Len(b[1].calls) + 1
        /\ \A m \in 2 .. Len(b) :
              /\ b[m].kind = "result" /\ b[m].id = <<made - 1, m - 1>>
              /\ b[m].decodes /\ b[1].calls[m - 1].tool = "task_checklist" => b[m].ok /\ Valid(b[m].list)
    BY <2>1 DEF OfTurn
  <2>3. n > 1 => /\ r.kind = "result" /\ r.id = <<made - 1, n - 1>>
                 /\ r.decodes /\ b[1].calls[n - 1].tool = "task_checklist" => r.ok /\ Valid(r.list)
                 /\ n - 1 \in DOMAIN b[1].calls
    <3>1. n > 1 => n \in 2 .. Len(b) BY <1>0, <1>3
    <3>2. n > 1 => n - 1 \in 1 .. Len(b[1].calls)
      <4> DEFINE z == Len(b[1].calls)  v == Len(b)
      <4>1. z \in Nat /\ v \in Nat /\ v <= z + 1 /\ n <= v /\ n \in Nat BY <1>0, <1>3, <2>2
      <4> HIDE DEF z, v, n
      <4>2. n > 1 => n - 1 \in 1 .. z BY <4>1
      <4> QED BY <4>2 DEF z
    <3>3. DOMAIN b[1].calls = 1 .. Len(b[1].calls) BY <2>2
    <3> QED BY <2>2, <3>1, <3>2, <3>3
  <2>4. ASSUME n > 1, NEW j \in DOMAIN p, p[j].kind = "reply", NEW k \in DOMAIN p[j].calls,
               p[j].calls[k].id = r.id
        PROVE  p[j] = b[1] /\ k = n - 1
    <3>1. p[j].calls[k].id[1] = made - 1 BY <2>3, <2>4
    <3>2. p[j] = b[1] BY <1>4, <2>1, <2>4, <3>1 DEF Sole
    <3>3. b[1].calls[k].id = <<made - 1, k>> BY <2>2, <2>4, <3>2
    <3> QED BY <2>3, <2>4, <3>2, <3>3
  <2> HIDE DEF p, r, q, b, n
  <2>5. PathOK(q)
    <3>1. r.kind \in {"reply", "result"} /\ (r.kind = "result" => n > 1) /\ (r.kind = "reply" => n = 1)
      BY <1>0, <2>2, <2>3 DEF r
    <3>2. r.kind = "result" => r.id[1] < made
      <4>1. made - 1 < made BY <1>0
      <4> QED BY <2>3, <3>1, <4>1
    <3>3. r.kind = "reply" => \A k \in DOMAIN r.calls : r.calls[k].id[1] < made
      <4>1. made - 1 < made BY <1>0
      <4>2. r.kind = "reply" => r = b[1] BY <3>1 DEF r
      <4> QED BY <2>2, <4>1, <4>2
    <3>4. r.kind = "result" =>
               \A j \in DOMAIN p : p[j].kind = "reply" =>
                   \A k \in DOMAIN p[j].calls :
                       p[j].calls[k].id = r.id /\ r.decodes /\ p[j].calls[k].tool = "task_checklist"
                       => r.ok /\ Valid(r.list)
      BY <2>3, <2>4, <3>1
    <3>5. r.kind = "reply" =>
               \A i \in DOMAIN p : p[i].kind = "result" =>
                   \A k \in DOMAIN r.calls : r.calls[k].id # p[i].id
      <4> SUFFICES ASSUME r.kind = "reply", NEW i \in DOMAIN p, p[i].kind = "result",
                          NEW k \in DOMAIN r.calls, r.calls[k].id = p[i].id
                   PROVE  FALSE
        OBVIOUS
      <4>1. n = 1 /\ r = b[1] BY <3>1 DEF r
      <4>2. p[i].id[1] < made - 1 BY <1>4, <2>1, <4>1 DEF UpTo
      <4>3. r.calls[k].id = <<made - 1, k>> BY <2>2, <4>1
      <4>4. made - 1 < made - 1 BY <4>2, <4>3
      <4> QED BY <1>0, <4>4
    <3> QED BY <1>0, <1>3, <1>4, <3>1, <3>2, <3>3, <3>4, <3>5, ExtendedPath DEF q
  <2>6. /\ q \in Seq(Entry) /\ Len(q) = Len(p) + 1 /\ q[Len(q)] = r
        /\ DOMAIN q = DOMAIN p \cup {Len(q)} /\ DOMAIN p = 1 .. Len(p) /\ Len(p) \in Nat
        /\ \A i \in DOMAIN p : q[i] = p[i]
    BY <1>3, <1>4, HeldBefore DEF q
  <2>7. ChecklistTyped' BY <1>0, <1>1, <1>2 DEF ChecklistTyped, LoopStates
  <2>8. BatchOK'
    <3>1. OfTurn(agent.batch)' BY <1>0, <1>2, <2>1 DEF OfTurn, b
    <3>2. Sole(agent.batch)'
      <4> SUFFICES ASSUME NEW x \in timeline', NEW i \in DOMAIN x, x[i].kind = "reply",
                          NEW k \in DOMAIN x[i].calls, x[i].calls[k].id[1] = made - 1
                   PROVE  x[i] = b[1]
        BY <1>0, <1>2 DEF Sole, b
      <4>1. ASSUME NEW y \in timeline, NEW j \in DOMAIN y, y[j] = x[i] PROVE x[i] = b[1]
        <5>1. CASE n > 1 BY <2>1, <4>1, <5>1 DEF Sole
        <5>2. CASE n = 1
          <6>1. made - 1 < made - 1 BY <2>1, <4>1, <5>2 DEF UpTo
          <6> QED BY <1>0, <6>1
        <5> QED BY <1>0, <5>1, <5>2
      <4>2. CASE x \in timeline BY <4>1, <4>2
      <4>3. CASE x = q /\ i \in DOMAIN p BY <1>4, <2>6, <4>1, <4>3
      <4>4. CASE x = q /\ i = Len(q)
        <5>1. x[i] = r BY <2>6, <4>4
        <5>2. n = 1 BY <1>0, <2>3, <5>1
        <5> QED BY <5>1, <5>2 DEF r
      <4> QED BY <1>1, <2>6, <4>2, <4>3, <4>4
    <3>3. agent'.next \in Nat \ {0} /\ agent'.next > 1 /\ agent'.next <= Len(agent'.batch) + 1
      BY <1>0, <1>2, <1>3 DEF b, n
    <3>4. agent'.batch # <<>> /\ agent'.batch \in Seq(Entry) BY <1>0, <1>2 DEF BatchOK
    <3>5. agent'.at = "committing" /\ made' > 0 BY <1>0, <1>2, <2>1
    <3> QED BY <3>1, <3>2, <3>3, <3>4, <3>5 DEF BatchOK
  <2>9. Validity'
    <3>1. \A x \in timeline' : PathOK(x)' BY <1>0, <1>1, <2>5 DEF Validity, PathOK
    <3> QED BY <1>0, <3>1 DEF Validity
  <2>10. Overlaps' BY <1>0, <1>2 DEF Overlaps
  <2>11. ~overtaken => Follows'
    <3> SUFFICES ASSUME ~overtaken PROVE Follows' OBVIOUS
    <3>1. Base' = q /\ agent'.next = n + 1 /\ agent'.batch = b /\ agent'.next > 1 /\ head' = q
      BY <1>0, <1>1, <1>2 DEF Base, b, n
    <3>2. \A m : Pends(m)' <=> Pends(m) BY <1>2 DEF Pends
    <3>3. Carries(q, Len(q)) => n > 1 /\ Pends(n) /\ ReplyIn(p)
      <4> SUFFICES ASSUME Carries(q, Len(q)) PROVE n > 1 /\ Pends(n) /\ ReplyIn(p) OBVIOUS
      <4>1. r.kind = "result"
        BY <1>0, <2>2, <2>3, <2>6 DEF Carries, r
      <4>2. n > 1 BY <1>0, <2>2, <4>1 DEF r
      <4>3. r.ok /\ r.decodes /\ MadeFor(q, Len(q)) BY <2>6, <4>1 DEF Carries
      <4>4. PICK j \in 1 .. Len(q) - 1 :
               q[j].kind = "reply"
               /\ \E k \in DOMAIN q[j].calls : q[j].calls[k] = [id |-> r.id, tool |-> "task_checklist"]
        BY <2>6, <4>3 DEF MadeFor
      <4>5. j \in DOMAIN p /\ q[j] = p[j] BY <2>6
      <4>6. PICK k \in DOMAIN p[j].calls : p[j].calls[k] = [id |-> r.id, tool |-> "task_checklist"]
        BY <4>4, <4>5
      <4>7. p[j] = b[1] /\ k = n - 1 BY <2>4, <4>2, <4>4, <4>5, <4>6
      <4> QED BY <4>2, <4>3, <4>5, <4>6, <4>7 DEF Pends, ReplyIn, b, r, n
    <3>4. CASE \E m \in agent.next .. Len(agent.batch) :
                 /\ Pends(m) /\ agent.batch[m].list = list
                 /\ \A k \in m + 1 .. Len(agent.batch) : ~Pends(k)
                 /\ agent.next > 1 => ReplyIn(head)
      <4>1. PICK m \in n .. Len(b) :
                 /\ Pends(m) /\ b[m].list = list
                 /\ \A k \in m + 1 .. Len(b) : ~Pends(k)
                 /\ n > 1 => ReplyIn(head)
        BY <3>4 DEF b, n
      <4>2. CASE m = n
        <5>1. n > 1 /\ r.ok /\ r.decodes /\ b[1].calls[n - 1].tool = "task_checklist" /\ r.list = list
          BY <4>1, <4>2 DEF Pends, b, r, n
        <5>2. PICK j \in DOMAIN p : p[j] = b[1] BY <1>5, <4>1, <5>1 DEF ReplyIn, b
        <5>3. b[1].calls[n - 1] = [id |-> r.id, tool |-> "task_checklist"]
          <6>1. b[1].calls[n - 1] \in ToolUse BY <2>2, <2>3, <5>1
          <6>2. b[1].calls[n - 1].id = r.id BY <2>2, <2>3, <5>1
          <6> QED BY <5>1, <6>1, <6>2 DEF ToolUse
        <5>4. MadeFor(q, Len(q))
          <6>1. j \in 1 .. Len(q) - 1 /\ q[j] = b[1] BY <2>6, <5>2
          <6> QED BY <2>2, <2>3, <2>6, <5>1, <5>3, <6>1 DEF MadeFor
        <5>5. Carries(q, Len(q)) BY <2>3, <2>6, <5>1, <5>4 DEF Carries
        <5>6. Rebuilt(q) = list BY <1>3, <1>4, <5>1, <5>5, HeldAnew DEF q
        <5>7. \A k \in agent'.next .. Len(agent'.batch) : ~Pends(k)' BY <3>1, <3>2, <4>1, <4>2
        <5> QED BY <1>0, <3>1, <5>6, <5>7 DEF Follows
      <4>3. CASE m > n
        <5>1. ReplyIn(q)
          <6>1. CASE n = 1 BY <2>6, <6>1 DEF ReplyIn, r, b
          <6>2. CASE n > 1 BY <1>5, <2>6, <4>1, <6>2 DEF ReplyIn
          <6> QED BY <1>0, <6>1, <6>2
        <5>2. ReplyIn(head)' BY <3>1, <5>1 DEF ReplyIn, b
        <5>3. m \in agent'.next .. Len(agent'.batch) BY <1>0, <1>3, <3>1, <4>3
        <5>4. Pends(m)' /\ agent'.batch[m].list = list'
              /\ \A k \in m + 1 .. Len(agent'.batch) : ~Pends(k)'
          BY <1>0, <3>1, <3>2, <4>1
        <5> QED BY <5>2, <5>3, <5>4 DEF Follows
      <4> QED BY <1>0, <1>3, <4>2, <4>3
    <3>5. CASE /\ list = Rebuilt(p)
               /\ \A m \in n .. Len(b) : ~Pends(m)
      <4>1. ~Carries(q, Len(q))
        <5>1. n \in n .. Len(b) BY <1>0, <1>3
        <5> QED BY <3>3, <3>5, <5>1
      <4>2. Rebuilt(q) = list BY <1>3, <1>4, <3>5, <4>1, HeldAsBefore DEF q
      <4>3. \A m \in agent'.next .. Len(agent'.batch) : ~Pends(m)'
        <5>1. \A m \in n + 1 .. Len(b) : m \in n .. Len(b) BY <1>0, <1>3
        <5> QED BY <3>1, <3>2, <3>5, <5>1
      <4> QED BY <1>0, <3>1, <4>2, <4>3 DEF Follows
    <3>6. CASE list = Rebuilt(p) /\ n > 1 /\ ~ReplyIn(head)
      <4>1. ~Carries(q, Len(q)) BY <1>5, <3>3, <3>6
      <4>2. Rebuilt(q) = list BY <1>3, <1>4, <3>6, <4>1, HeldAsBefore DEF q
      <4>3. r # b[1] BY <2>2, <2>3, <3>6
      <4>4. ~ReplyIn(q) BY <1>5, <2>6, <3>6, <4>3 DEF ReplyIn, b
      <4>5. ~ReplyIn(head)' BY <3>1, <4>4 DEF ReplyIn, b
      <4> QED BY <1>0, <3>1, <4>2, <4>5 DEF Follows
    <3>7. Follows BY <1>0
    <3> QED BY <3>4, <3>5, <3>6, <3>7 DEF Follows, p, b, n
  <2> QED BY <1>0, <2>7, <2>8, <2>9, <2>10, <2>11 DEF ChecklistInv
<1> QED BY <1>7, <1>8

-----------------------------------------------------------------------------
LEMMA ChecklistStepInv == ChecklistInv /\ [ChecklistNext]_checklistVars => ChecklistInv'
<1> SUFFICES ASSUME ChecklistInv, [ChecklistNext]_checklistVars PROVE ChecklistInv' OBVIOUS
<1>1. CASE UNCHANGED checklistVars
  <2>1. UNCHANGED <<list, timeline, head, chosen, agent, idle, late, folding, selecting, overtaken, made>>
    BY <1>1 DEF checklistVars
  <2>2. ChecklistTyped /\ Validity /\ Overlaps BY DEF ChecklistInv
  <2> QED BY <2>1, <2>2, BesideStep DEF ChecklistTyped, Validity, Overlaps
<1>2. CASE ChecklistNext
  <2>1. CASE \E e \in Edits : EditList(e) \/ CallTimesOut(e) \/ EditLate(e)
    BY <2>1, EditListStep, CallTimesOutStep, EditLateStep
  <2>2. CASE \E by \in {"loop", "client"} : BeginFold(by) BY <2>2, BeginFoldStep
  <2>3. CASE \E p \in timeline : BeginSelect(p) BY <2>3, BeginSelectStep
  <2>4. CASE TakeMessage \/ ReplyCalls \/ Answers \/ Park \/ AllCalled \/ CommitNext \/ Committed
    BY <2>4, TakeMessageStep, ReplyCallsStep, AnswersStep, ParkStep, AllCalledStep,
       CommitNextStep, CommittedStep
  <2>5. CASE HubFollows \/ CallFails \/ RunOther \/ CommitFold \/ FoldFails
    BY <2>5, HubFollowsStep, CallFailsStep, RunOtherStep, CommitFoldStep, FoldFailsStep
  <2>6. CASE EndSelect \/ SelectFails \/ End \/ LoadAgain
    BY <2>6, EndSelectStep, SelectFailsStep, EndStep, LoadAgainStep
  <2> QED BY <1>2, <2>1, <2>2, <2>3, <2>4, <2>5, <2>6 DEF ChecklistNext
<1> QED BY <1>1, <1>2

\* The screen, which goes by the names of the calls alone, shows what the
\* session restores.
LEMMA ShownAlike == ASSUME NEW p, PathOK(p) PROVE Shown(p) = Rebuilt(p)
<1>1. p \in Seq(Entry) /\ Paired(p) BY DEF PathOK
<1>2. \A i \in DOMAIN p : Shows(p, i) <=> Carries(p, i)
  <2> SUFFICES ASSUME NEW i \in DOMAIN p PROVE Shows(p, i) <=> Carries(p, i) OBVIOUS
  <2>0. DOMAIN p = 1 .. Len(p) /\ Len(p) \in Nat BY <1>1
  <2>1. ASSUME Carries(p, i) PROVE Shows(p, i)
    <3>1. CASE p[i].kind = "compaction" BY <3>1 DEF Shows
    <3>2. CASE p[i].kind = "result" /\ p[i].decodes /\ MadeFor(p, i)
      <4>1. \A j \in 1 .. i - 1 : j \in DOMAIN p BY <2>0
      <4> QED BY <3>2, <4>1 DEF Shows, MadeFor
    <3> QED BY <2>1, <3>1, <3>2 DEF Carries
  <2>2. ASSUME Shows(p, i) PROVE Carries(p, i)
    <3>1. CASE p[i].kind = "compaction" BY <3>1 DEF Carries
    <3>2. CASE /\ p[i].kind = "result" /\ p[i].decodes
               /\ \E j \in DOMAIN p :
                     p[j].kind = "reply"
                     /\ \E k \in DOMAIN p[j].calls :
                           p[j].calls[k] = [id |-> p[i].id, tool |-> "task_checklist"]
      <4>1. PICK j \in DOMAIN p :
                   p[j].kind = "reply"
                   /\ \E k \in DOMAIN p[j].calls :
                         p[j].calls[k] = [id |-> p[i].id, tool |-> "task_checklist"]
        BY <3>2
      <4>2. j < i /\ p[i].ok /\ Valid(p[i].list) BY <1>1, <3>2, <4>1 DEF Paired
      <4>3. j \in 1 .. i - 1 BY <2>0, <4>2
      <4> QED BY <3>2, <4>1, <4>2, <4>3 DEF Carries, MadeFor
    <3> QED BY <2>2, <3>1, <3>2 DEF Shows
  <2> QED BY <2>1, <2>2
<1>3. {i \in DOMAIN p : Shows(p, i)} = {i \in DOMAIN p : Carries(p, i)} BY <1>2
<1> QED BY <1>3 DEF Shown, Rebuilt

LEMMA ChecklistInvHeld == ChecklistInv => ChecklistHeld
<1> SUFFICES ASSUME ChecklistInv PROVE ChecklistHeld OBVIOUS
<1>0. ChecklistTyped /\ BatchOK /\ Validity /\ (agent.at # "ended" /\ ~overtaken => Follows)
  BY DEF ChecklistInv
<1>1. Restorable
  <2> SUFFICES ASSUME agent.at \in {"parked", "between", "folding"}, ~overtaken
               PROVE  list = Rebuilt(Continued)
    BY DEF Restorable
  <2>1. agent.batch = <<>> /\ agent.next = 1 /\ Follows BY <1>0 DEF BatchOK
  <2> QED BY <2>1 DEF Follows, Base
<1>2. RebuiltAlike BY <1>0, ShownAlike DEF Validity, PathOK, RebuiltAlike
<1> QED BY <1>0, <1>1, <1>2 DEF Validity, ChecklistHeld

\* The list the agent works with is the one a restart or a selected branch
\* would give it back, and it is valid (memory/task_checklist.go,
\* session/tasklist.go and the chat screen's taskChecklistFromRecords).
THEOREM ChecklistIsHeld == ChecklistSpec => []ChecklistHeld
<1>1. ChecklistInit => ChecklistInv BY ChecklistInitInv
<1>2. ChecklistInv /\ [ChecklistNext]_checklistVars => ChecklistInv' BY ChecklistStepInv
<1>3. ChecklistInv => ChecklistHeld BY ChecklistInvHeld
<1> QED BY <1>1, <1>2, <1>3, PTL DEF ChecklistSpec
=============================================================================
