-------------------------- MODULE LineClient --------------------------
(* The line client (tui/tui.go) against the engine: the prompt loop, its *)
(* commands, and RemoteClient (tui/remote.go), whose Chat joins the       *)
(* session's stream, sends the message and reads until the turn is over.  *)
(* Two ids name the session: the RemoteClient's, which its requests use,  *)
(* and the one of the status line, which some commands use.               *)
EXTENDS Registry

CONSTANT MaxLines  \* bound: lines typed at the prompt

ASSUME LineAssumption == MaxLines \in Nat

VARIABLE repl  \* [at, then, sid, sess, saw, reply, lines]
lineVars == <<vars, repl>>

\* "none" is the time before the first session; then is what an answer is for.
InitLine ==
    /\ Init
    /\ repl = [at |-> "start", then |-> "none", sid |-> None, sess |-> None,
               saw |-> FALSE, reply |-> 0, lines |-> 0]

\* The status codes that RemoteClient takes for success.
Wanted == [create |-> 201, load |-> 200, join |-> 200, chat |-> 202, delete |-> 204,
           rename |-> 200, model |-> 200, compact |-> 200, timeline |-> 200,
           branch |-> 200, records |-> 200]

Issue(op, s, then) ==
    /\ Alone(Line, op) /\ call' = [call EXCEPT ![Line] = Asked(op, s)]
    /\ repl' = [repl EXCEPT !.at = "asking", !.then = then]
Engine == UNCHANGED <<engine, disk, born, active, inbox, session, mu, used>>

(* runLine: the saved sessions are listed; one is resumed, or a new one   *)
(* is created for a model chosen now.  A failure ends the client.          *)
Start ==
    /\ repl.at = "start" /\ Engine /\ UNCHANGED stream
    /\ IF engine = "down" THEN repl' = [repl EXCEPT !.at = "over"] /\ UNCHANGED call
       ELSE \/ \E s \in {s \in Id : disk[s] # None} : Issue("load", s, "resume")
            \/ Issue("create", None, "fresh")

\* ensureSession, or SetSession after a load: both ids follow the answer.
Follow(s) == [repl EXCEPT !.at = "prompt", !.then = "none", !.sid = s, !.sess = s]

Prompted == [repl EXCEPT !.at = "prompt", !.then = "none", !.saw = FALSE, !.reply = 0]

Read(op, then) == /\ call' = [call EXCEPT ![Line] = Asked(op, repl.sess)]
                  /\ repl' = [repl EXCEPT !.then = then]
Back(r) == repl' = r /\ call' = [call EXCEPT ![Line] = Resting]

(* What an answer changes: most commands only print, and a failure leaves *)
(* everything as it was.                                                   *)
Answered ==
    /\ repl.at = "asking" /\ call[Line].at = "answered" /\ Engine
    /\ LET then == repl.then
           s == call[Line].id
           done == call[Line].code = Wanted[call[Line].op] IN
       CASE then \in {"resume", "fresh"} /\ ~ done ->
                Back([repl EXCEPT !.at = "over", !.then = "none"]) /\ UNCHANGED stream
         [] then \in {"resume", "fresh", "new", "load"} /\ done ->
                Back(Follow(s)) /\ UNCHANGED stream
         [] then \in {"model", "compact"} /\ done ->
                Back([Prompted EXCEPT !.sess = s]) /\ UNCHANGED stream
         [] then = "timeline" /\ done ->
                \/ Read("branch", "branch") /\ UNCHANGED stream
                \/ Back(Prompted) /\ UNCHANGED stream
         [] then = "join" /\ done ->
                /\ call' = [call EXCEPT ![Line] = Asked("chat", repl.sid)]
                /\ repl' = [repl EXCEPT !.then = "chat"] /\ UNCHANGED stream
         [] then = "chat" /\ done ->
                Back([repl EXCEPT !.at = "wait", !.then = "none"]) /\ UNCHANGED stream
         [] OTHER -> Back(Prompted) /\ stream' = Unjoined

\* Lines typed at the prompt: a command, a message, or the end.
Command ==
    /\ repl.at = "prompt" /\ repl.lines < MaxLines /\ Engine /\ UNCHANGED stream
    /\ LET typed == [repl EXCEPT !.lines = @ + 1]
           Ask1(op, s, then) ==
               /\ op \in used.mix.line /\ Alone(Line, op)
               /\ call' = [call EXCEPT ![Line] = Asked(op, s)]
               /\ repl' = [typed EXCEPT !.at = "asking", !.then = then]
       IN \/ Ask1("create", None, "new")
          \/ \E s \in born : Ask1("load", s, "load") \/ Ask1("delete", s, "rm")
          \/ Ask1("rename", repl.sess, "rename")
          \/ Ask1("model", repl.sid, "model")
          \/ Ask1("compact", repl.sid, "compact")
          \/ Ask1("timeline", repl.sess, "timeline")
          \/ Ask1("join", repl.sid, "join")

Quit == /\ repl.at = "prompt" /\ Engine /\ UNCHANGED <<call, stream>>
        /\ repl' = [repl EXCEPT !.at = "over"]

(* Chat reads the stream.  Idle ends it once the session was seen running; *)
(* a stream that ended is an error, which may overtake unread events.      *)
EndsAtIdle(e) == e = "idle"
Ends(e) == e = "idle" /\ repl.saw

Event ==
    /\ repl.at = "wait" /\ stream.events # <<>> /\ Engine /\ UNCHANGED call
    /\ LET e == Head(stream.events)
           read == [stream EXCEPT !.events = Tail(@)] IN
       \/ e = "text" /\ repl' = [repl EXCEPT !.reply = @ + 1] /\ stream' = read
       \/ /\ e \in {"busy", "waiting", "compacting"}
          /\ repl' = [repl EXCEPT !.saw = TRUE] /\ stream' = read
       \/ /\ e = "idle"
          /\ repl' = [repl EXCEPT !.at = IF Ends(e) THEN "replied" ELSE @]
          /\ stream' = read
       \/ e \in {"fatal", "end"} /\ repl' = Prompted /\ stream' = Unjoined

Overtaken ==
    /\ repl.at = "wait" /\ stream.h = None /\ Engine /\ UNCHANGED call
    /\ repl' = Prompted /\ stream' = Unjoined

\* updateState: the reply is shown; it names the session it was asked of.
Shown ==
    /\ repl.at = "replied" /\ Engine /\ UNCHANGED call
    /\ repl' = [Prompted EXCEPT !.sess = repl.sid] /\ stream' = Unjoined

LineNext == Start \/ Answered \/ Command \/ Quit \/ Event \/ Overtaken \/ Shown

Next == (EngineNext /\ UNCHANGED repl) \/ LineNext

(* Goroutines of the server and of the client run; people decide.          *)
Fairness ==
    /\ \A h \in Handle : WF_lineVars(AgentStep(h) /\ UNCHANGED repl)
    /\ \A c \in Caller : WF_lineVars(Serve(c) /\ UNCHANGED repl)
    /\ WF_lineVars(Answered) /\ WF_lineVars(Event)

Spec == InitLine /\ [][Next]_lineVars /\ Fairness

------------------------------------------------------------------------
(* A reply that the line client shows is the text of its own turn, all of *)
(* it and nothing else, and that turn is over: as long as no turn was     *)
(* under way when it joined, no other client prompted or compacted the    *)
(* session, and no automatic compaction ran.                               *)
ReplyWhole ==
    (repl.at = "replied" /\ stream.calm /\ stream.alone) =>
        /\ repl.reply = stream.said
        /\ stream.h # None => /\ session[stream.h].queue = 0
                              /\ session[stream.h].at = "parked"

(* A prompt does not hang: again and again the client has its answer, or  *)
(* the turn waits for a decision of a person.                              *)
ChatEnds ==
    []<>(\/ repl.at # "wait"
         \/ stream.h # None /\ session[stream.h].at = "asked")

=======================================================================
