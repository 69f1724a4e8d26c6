------------------------------- MODULE Models -------------------------------
(* The model calls of one session. Its loop asks the model to go on from the *)
(* working history, a compaction asks it to summarise, and the adaptor of    *)
(* the provider turns each call into requests: the Claude Code CLI runs once *)
(* a call and keeps a conversation of its own, which a later call resumes    *)
(* with only the new messages; the HTTP adaptors send the whole history,     *)
(* retry until the answer begins and assemble it from the stream.            *)
(*                                                                           *)
(* A message is its role and its text, a sequence of the pieces in which a   *)
(* model may send it: "p" and "q" are text, "c" a fragment of a tool call's  *)
(* arguments and "|" the border of two output items, which only Codex has.   *)
EXTENDS Naturals, Sequences, SequencesExt, FiniteSets

CONSTANTS Providers,    \* the providers a run explores
          UserTexts,    \* what a user, or a tool, may say
          Replies,      \* what a model may answer
          Branches,     \* histories the session's timeline holds beside the current one
          MaxCalls,     \* bound: model calls and other changes of a run, by provider
          MaxMessages,  \* bound: the length of the working history
          MaxAttempts,  \* requests an HTTP adaptor may send for a call (10, Codex 5)
          None

Piece == {"p", "q", "c", "|"}

\* The pieces of r of some kinds, in their order.
Picked(r, kinds) ==
  LET picked[i \in 0 .. Len(r)] ==
        IF i = 0 THEN <<>>
        ELSE IF r[i] \in kinds THEN Append(picked[i - 1], r[i]) ELSE picked[i - 1]
  IN picked[Len(r)]

Words(r) == Picked(r, {"p", "q"})
Calls(r) == Picked(r, {"c"})

User(t) == [role |-> "user", text |-> t]
Assistant(t) == [role |-> "assistant", text |-> t]
Summary == User(<<"summary">>)

Callers == {"loop", "compaction"}

\* What a history may hold.
Message == {User(t) : t \in UserTexts} \cup {Summary}
           \cup {Assistant(Words(r) \o Calls(r)) : r \in Replies}
           \cup UNION {ToSet(h) : h \in Branches}

ASSUME ModelsAssumption ==
  /\ Providers \subseteq {"claude", "codex", "deepseek", "openai"}
  /\ \A p \in Providers : MaxCalls[p] \in Nat
  /\ Replies \subseteq Seq(Piece)
  /\ MaxMessages \in Nat /\ MaxAttempts \in Nat \ {0}
  /\ \A h \in Branches : h \in Seq(ToSet(h))
  /\ None \notin Callers /\ None \notin Message /\ None \notin Seq(Message)
  /\ None \notin [system : Callers, messages : Seq(Message)]

VARIABLES provider,  \* the adaptor's
          history,   \* the working history, without the system prompt
          conv,      \* claudeResumeState: what the adaptor knows of the CLI's conversation
          cli,       \* the conversations the CLI has stored: id -> what it holds
          calls,     \* the model call of the loop and of a compaction
          lock,      \* who holds conversation.mu
          left       \* bound: calls and other changes still to be made

vars == <<provider, history, conv, cli, calls, lock, left>>

Own == 0                 \* the conversation named after the session
Ids == 0 .. 3            \* a new id is one nobody refers to any more
ClaudeAttempts == 2      \* claudeMaxAttempts

System(c) == c           \* each caller has a system prompt of its own

LastItem(r) ==
  LET borders == {i \in DOMAIN r : r[i] = "|"}
      start == IF borders = {} THEN 1 ELSE 1 + CHOOSE i \in borders : \A j \in borders : j <= i
  IN Words(SubSeq(r, start, Len(r)))

\* What the adaptor commits of a reply the model finished.
Whole(r) == Assistant(LastItem(r) \o Calls(r))

NoConv == [id |-> Own, prefix |-> None, system |-> None, reply |-> None, dirty |-> FALSE]
NoCall == [state |-> "none", canceled |-> FALSE, messages |-> <<>>, attempt |-> 0, session |-> Own,
           full |-> TRUE, says |-> <<>>, got |-> 0, shown |-> <<>>, result |-> None, again |-> FALSE, agrees |-> TRUE]

Init ==
  /\ provider \in Providers
  /\ history = <<>>
  /\ conv = NoConv
  /\ cli = [i \in Ids |-> None]
  /\ calls = [c \in Callers |-> NoCall]
  /\ lock = None
  /\ left = MaxCalls[provider]

Call(c, k) == calls' = [calls EXCEPT ![c] = k]
Idle == \A c \in Callers : calls[c].state = "none"
Streams(c) == c = "loop"     \* a compaction asks for no deltas

(* The id a new conversation gets. Conversations no one refers to any more   *)
(* are forgotten, so that a few ids are enough.                              *)
NewId(used) == CHOOSE i \in Ids \ ({Own} \cup used) : TRUE
Kept(stored, ids) == [i \in Ids |-> IF i \in {Own} \cup ids THEN stored[i] ELSE None]

-----------------------------------------------------------------------------
(* Who asks. A call fixes its messages before it waits for the lock.         *)

Ask(c, h) ==
  /\ left > 0 /\ calls[c].state = "none"
  /\ Call(c, [NoCall EXCEPT !.state = "asked", !.messages = h])
  /\ left' = left - 1
  /\ UNCHANGED <<provider, conv, cli, lock>>

\* The loop wakes up for a message, or a tool has answered.
Turn(t) ==
  /\ Len(history) < MaxMessages
  /\ history' = Append(history, User(t))
  /\ Ask("loop", history')

\* After a compaction the loop goes on with nothing new to read.
Continue ==
  /\ history # <<>> /\ Last(history).role = "user"
  /\ Ask("loop", history)
  /\ UNCHANGED history

Compact ==
  /\ history # <<>>
  /\ Ask("compaction", history)
  /\ UNCHANGED history

Cancel(c) ==
  /\ calls[c].state \notin {"none", "returned"} /\ ~calls[c].canceled
  /\ Call(c, [calls[c] EXCEPT !.canceled = TRUE])
  /\ UNCHANGED <<provider, history, conv, cli, lock, left>>

(* The caller takes the answer: it is committed, or dropped because the turn *)
(* was canceled between the answer and the commit.                           *)
Take(c, commit) ==
  /\ calls[c].state = "returned"
  /\ Call(c, NoCall)
  /\ history' = IF ~commit \/ calls[c].result = None THEN history
                ELSE IF c = "compaction" THEN <<Summary>>
                ELSE Append(history, calls[c].result)
  /\ UNCHANGED <<provider, conv, cli, lock, left>>

SelectBranch(h) ==
  /\ Idle /\ left > 0
  /\ history' = h
  /\ left' = left - 1
  /\ UNCHANGED <<provider, conv, cli, calls, lock>>

\* The engine starts again, or the model is set anew: a new adaptor.
Restart ==
  /\ Idle /\ left > 0
  /\ conv' = NoConv
  /\ left' = left - 1
  /\ UNCHANGED <<provider, history, cli, calls, lock>>

\* The CLI's own housekeeping.
Forget(i) ==
  /\ provider = "claude" /\ Idle /\ left > 0 /\ cli[i] # None
  /\ cli' = [cli EXCEPT ![i] = None]
  /\ left' = left - 1
  /\ UNCHANGED <<provider, history, conv, calls, lock>>

Return(c, k, result) ==
  Call(c, [NoCall EXCEPT !.state = "returned", !.result = result, !.shown = k.shown, !.says = k.says,
                         !.got = k.got, !.again = k.again, !.agrees = k.agrees])

-----------------------------------------------------------------------------
(* The Claude Code CLI.                                                      *)

Sent == IF conv.prefix = None THEN 0 ELSE Len(conv.prefix)

ResumableByLength(h, system) ==
  LET start == Sent + IF conv.reply = None THEN 0 ELSE 1
  IN ~conv.dirty /\ conv.system = system /\ start < Len(h) /\ conv.prefix = SubSeq(h, 1, Sent)

(* Hashes are compared by what they hash: the serialisation of the messages, *)
(* which leaves out the bytes of images.                                     *)
Resumable(h, system) ==
  LET start == Sent + IF conv.reply = None THEN 0 ELSE 1
  IN /\ ~conv.dirty
     /\ Sent <= Len(h)
     /\ conv.system = system
     /\ conv.prefix = SubSeq(h, 1, Sent)
     /\ conv.reply # None => Sent < Len(h) /\ h[Sent + 1] = conv.reply
     /\ start < Len(h)

(* planTurn, with conversation.mu held until the call returns.               *)
Plan(c) ==
  LET k == calls[c]
      resume == Resumable(k.messages, System(c))
  IN /\ provider = "claude" /\ k.state = "asked" /\ lock = None
     /\ lock' = c
     /\ Call(c, [k EXCEPT !.state = "ready", !.attempt = 1, !.full = ~resume,
                          !.session = IF resume \/ Sent = 0 THEN conv.id ELSE NewId({conv.id})])
     /\ UNCHANGED <<provider, history, conv, cli, left>>

Delta(k) == IF k.full THEN k.messages ELSE SubSeq(k.messages, Sent + 2, Len(k.messages))

(* The process starts. A conversation to resume may be gone and the id of a  *)
(* new one taken: both fail the attempt, and may be tried again.             *)
Run(c) ==
  LET k == calls[c]
      held == cli[k.session]
      refused == IF k.full THEN held # None ELSE held = None
      stored == IF k.full THEN [system |-> System(c), messages |-> Delta(k)]
                ELSE [held EXCEPT !.messages = @ \o Delta(k)]
  IN /\ provider = "claude" /\ k.state = "ready" /\ ~k.canceled
     /\ IF refused
        THEN Call(c, [k EXCEPT !.state = "failed"]) /\ UNCHANGED cli
        ELSE /\ Call(c, [k EXCEPT !.state = "running", !.says = <<>>])
             /\ cli' = Kept([cli EXCEPT ![k.session] = stored], {k.session, conv.id})
     /\ UNCHANGED <<provider, history, conv, lock, left>>

\* claudeContentStream: of the JSON of an answer that grows only its text is
\* let through, never a tool call's arguments, wherever a fragment ends.
Feeds(said) == \E r \in Replies : IsPrefix(said, Words(r))

\* Text of the structured answer, as it grows.
Speak(c, x) ==
  LET k == calls[c]
      said == Append(k.says, x)
  IN /\ provider = "claude" /\ k.state = "running" /\ ~k.canceled /\ Streams(c)
     /\ Feeds(said)
     /\ Call(c, [k EXCEPT !.says = said, !.shown = Append(@, x)])
     /\ UNCHANGED <<provider, history, conv, cli, lock, left>>

RecordSuccess(c, reply) ==
  conv' = [id |-> calls[c].session, prefix |-> calls[c].messages, system |-> System(c), reply |-> reply, dirty |-> FALSE]

RecordFailure == conv' = [conv EXCEPT !.dirty = TRUE]

\* claudeMessage: the text of an answer and then its calls; one that calls a
\* tool that was not offered, or is no object, is a run that fails for good.
Parsed(r) == Words(r) \o Calls(r)

(* The process ends with a validated answer, which need not be the one whose *)
(* text was streamed: the CLI makes the model answer again when it does not  *)
(* fit the schema.                                                           *)
Finish(c, r) ==
  LET k == calls[c]
      said == Parsed(r)
  IN /\ provider = "claude" /\ k.state = "running" /\ ~k.canceled
     /\ cli' = [cli EXCEPT ![k.session].messages = Append(@, Assistant(said))]
     /\ RecordSuccess(c, Assistant(said))
     /\ Call(c, [k EXCEPT !.state = "answered", !.says = said, !.got = Len(k.says), !.agrees = IsPrefix(k.says, said)])
     /\ UNCHANGED <<provider, history, lock, left>>

(* The model asked for a tool through the CLI's own channel: the process is  *)
(* stopped and its conversation ends on a call that has no result.           *)
NativeTool(c, r) ==
  LET k == calls[c]
  IN /\ provider = "claude" /\ k.state = "running" /\ k.says = <<>> /\ Calls(r) # <<>> /\ Streams(c)
     /\ RecordFailure
     /\ Call(c, [k EXCEPT !.state = "answered", !.says = Parsed(r)])
     /\ UNCHANGED <<provider, history, cli, lock, left>>

RestInFull(k) == Words(k.says)

(* What the stream has not shown is published, and the call returns; a       *)
(* cancellation seen now throws the answer away.                             *)
Rest(k) == IF k.agrees THEN SubSeq(Words(k.says), k.got + 1, Len(Words(k.says))) ELSE <<>>

Answered(c) ==
  LET k == calls[c]
  IN /\ k.state = "answered" /\ lock' = None
     /\ \/ /\ k.canceled /\ Streams(c) /\ Rest(k) # <<>>
           /\ RecordFailure
           /\ Return(c, k, None)
        \/ /\ Return(c, [k EXCEPT !.shown = IF Streams(c) THEN @ \o Rest(k) ELSE @, !.got = Len(Words(k.says))], Assistant(k.says))
           /\ UNCHANGED conv
     /\ UNCHANGED <<provider, history, cli, left>>

\* The process reports a passing failure, or one that another attempt cannot help.
RunFails(c, passing) ==
  LET k == calls[c]
  IN /\ provider = "claude" /\ k.state = "running" /\ ~k.canceled
     /\ IF passing THEN Call(c, [k EXCEPT !.state = "failed"]) /\ UNCHANGED <<conv, lock>>
        ELSE RecordFailure /\ lock' = None /\ Return(c, k, None)
     /\ UNCHANGED <<provider, history, cli, left>>

(* A retry opens a new conversation with the full history.                   *)
RetryRun(c) ==
  LET k == calls[c]
  IN /\ provider = "claude" /\ k.state = "failed"
     /\ IF k.attempt = ClaudeAttempts \/ k.canceled
        THEN RecordFailure /\ lock' = None /\ Return(c, k, None)
        ELSE /\ Call(c, [k EXCEPT !.state = "ready", !.attempt = @ + 1, !.full = TRUE,
                                  !.session = NewId({conv.id, k.session}), !.again = k.shown # <<>>])
             /\ UNCHANGED <<conv, lock>>
     /\ UNCHANGED <<provider, history, cli, left>>

\* Cancellation ends the process; the conversation may hold a part of the turn.
Killed(c) ==
  LET k == calls[c]
  IN /\ provider = "claude" /\ k.state \in {"ready", "running"} /\ k.canceled
     /\ RecordFailure
     /\ lock' = None
     /\ Return(c, k, None)
     /\ UNCHANGED <<provider, history, cli, left>>

-----------------------------------------------------------------------------
(* The HTTP adaptors.                                                        *)

Http == provider # "claude"

\* The request holds the whole history; the answer to it begins.
Begins(c) ==
  \E r \in Replies :
     /\ "|" \in ToSet(r) => provider = "codex"
     /\ Call(c, [calls[c] EXCEPT !.state = "streaming", !.says = r, !.got = 0])

\* A failure that may pass, on the last attempt the call's: a connection that
\* is refused, breaks or times out, a provider that is busy or broken.
FailsForNow(c) ==
  Call(c, IF calls[c].attempt + 1 >= MaxAttempts THEN [NoCall EXCEPT !.state = "returned"]
          ELSE [calls[c] EXCEPT !.state = "waiting", !.attempt = @ + 1])

\* One that will not: a request that cannot be made or is refused, a spent
\* allowance, an unknown host, a certificate nobody trusts.
FailsForGood(c) == Return(c, calls[c], None)

\* retryPolicy.send: an attempt up to the response's headers.
Send(c) ==
  /\ Http /\ calls[c].state \in {"asked", "ready"} /\ ~calls[c].canceled
  /\ Begins(c) \/ FailsForNow(c) \/ FailsForGood(c)
  /\ UNCHANGED <<provider, history, conv, cli, lock, left>>

WaitDeaf(c) ==
  /\ Http /\ calls[c].state = "waiting" /\ ~calls[c].canceled
  /\ Call(c, [calls[c] EXCEPT !.state = "ready"])
  /\ UNCHANGED <<provider, history, conv, cli, lock, left>>

\* The notice and the delay before the next attempt.
Wait(c) ==
  LET k == calls[c]
  IN /\ Http /\ k.state = "waiting"
     /\ IF k.canceled THEN Return(c, k, None) ELSE Call(c, [k EXCEPT !.state = "ready"])
     /\ UNCHANGED <<provider, history, conv, cli, lock, left>>

(* readStream takes one event. Text is shown as it arrives; the client may   *)
(* no longer take it when the turn was canceled.                             *)
Event(c) ==
  LET k == calls[c]
      x == k.says[k.got + 1]
  IN /\ Http /\ k.state = "streaming" /\ ~k.canceled /\ k.got < Len(k.says)
     /\ Call(c, [k EXCEPT !.got = @ + 1,
                          !.shown = IF Streams(c) /\ x \in {"p", "q"} THEN Append(@, x) ELSE @])
     /\ UNCHANGED <<provider, history, conv, cli, lock, left>>

\* The reply assembled from what has arrived; a finished item of Codex replaces its deltas.
Assembled(k) ==
  LET arrived == SubSeq(k.says, 1, k.got)
  IN IF provider = "codex" THEN Whole(arrived) ELSE Assistant(Words(arrived) \o Calls(arrived))

(* The stream ends: with the provider's word that the reply is finished,     *)
(* with its word that it stopped at a limit, or with nothing but the end of  *)
(* the body. Codex and DeepSeek want the first, a compatible endpoint is     *)
(* believed either way.                                                      *)
Accepts(end) == end = "finished" \/ provider = "openai"

StreamEnds(c, end) ==
  LET k == calls[c]
  IN /\ Http /\ k.state = "streaming" /\ ~k.canceled
     /\ end = "finished" => k.got = Len(k.says)
     /\ Return(c, k, IF Accepts(end) THEN Assembled(k) ELSE None)
     /\ UNCHANGED <<provider, history, conv, cli, lock, left>>

\* The connection breaks, an event cannot be read, or the provider reports an error.
StreamBreaks(c) ==
  /\ Http /\ calls[c].state = "streaming" /\ ~calls[c].canceled
  /\ Return(c, calls[c], None)
  /\ UNCHANGED <<provider, history, conv, cli, lock, left>>

StreamCanceled(c) ==
  /\ Http /\ calls[c].state \in {"asked", "ready", "streaming"} /\ calls[c].canceled
  /\ Return(c, calls[c], None)
  /\ UNCHANGED <<provider, history, conv, cli, lock, left>>

-----------------------------------------------------------------------------
Ends == {"finished", "limit", "cut"}

Adaptor(c) ==
  \/ Plan(c) \/ Run(c) \/ Answered(c) \/ RetryRun(c) \/ Killed(c)
  \/ Wait(c) \/ StreamCanceled(c)

Model(c) ==
  \/ Send(c) \/ Event(c) \/ StreamBreaks(c)
  \/ \E x \in {"p", "q"} : Speak(c, x)
  \/ \E r \in Replies : Finish(c, r) \/ NativeTool(c, r)
  \/ \E passing \in BOOLEAN : RunFails(c, passing)
  \/ \E end \in Ends : StreamEnds(c, end)

Next ==
  \/ \E t \in UserTexts : Turn(t)
  \/ Continue \/ Compact \/ Restart
  \/ \E h \in Branches : SelectBranch(h)
  \/ \E i \in Ids : Forget(i)
  \/ \E c \in Callers : Cancel(c) \/ Adaptor(c) \/ Model(c)
  \/ \E c \in Callers, commit \in BOOLEAN : Take(c, commit)

(* The adaptor's own steps are taken; what the model and the network do is   *)
(* not promised: there is no limit on how long an answer may take.           *)
Spec == Init /\ [][Next]_vars /\ \A c \in Callers : WF_vars(Adaptor(c))
-----------------------------------------------------------------------------
(* Whenever the CLI works on a call, its own conversation holds the call's   *)
(* messages, each once and in order, under the call's system prompt: nothing *)
(* of a branch left, a history compacted away, a turn that failed half-way   *)
(* or another process's conversation (planTurn, claude_cli_session.go).      *)
HoldsHistory ==
  \A c \in Callers : provider = "claude" /\ calls[c].state = "running" =>
    cli[calls[c].session] = [system |-> System(c), messages |-> calls[c].messages]

(* What is committed of a reply is the whole of what the provider said it    *)
(* is, or nothing, however the stream ends (readStream, readStream of the    *)
(* DeepSeek and Codex adaptors).  Left out: a compatible endpoint, which     *)
(* does not say; the adaptor takes its early end for a whole reply.          *)
ReplyWhole ==
  \A c \in Callers : provider # "openai" /\ calls[c].state = "returned" /\ calls[c].result # None =>
    calls[c].result = Whole(calls[c].says)

(* The text a client has been shown of a turn is the text committed, neither *)
(* cut nor repeated, whatever was retried before: with several output items  *)
(* the committed text is the last one's. Left out: a Claude turn retried     *)
(* after it had begun to speak, or whose answer the CLI had made again.      *)
ShownIsCommitted ==
  LET k == calls["loop"]
  IN k.state = "returned" /\ k.result # None /\ ~k.again /\ k.agrees =>
       IF "|" \in ToSet(k.says) THEN IsSuffix(Words(k.result.text), k.shown) ELSE k.shown = Words(k.result.text)

(* A reply is committed whole, and as it was shown, but for these two.       *)
ReplyKept == ReplyWhole /\ ShownIsCommitted

(* A canceled call ends, whatever the model or the network does: in a delay, *)
(* before a request, while the CLI works or a stream is read. Only a call    *)
(* that waits for the CLI's conversation does not watch for it.              *)
CancelEnds ==
  \A c \in Callers :
    calls[c].canceled /\ (Http \/ lock = c) ~> calls[c].state \in {"none", "returned"}
=============================================================================
