--------------------------- MODULE Terminal ---------------------------
(* The terminal client of the agent (pkg/agent/tui/chat.go): which       *)
(* session its screen shows, which one its messages go to, the observer  *)
(* that follows a session, the pages over the transcript, and the calls  *)
(* of the client, each made by a goroutine that answers when it likes.   *)
(* The sessions behind it are Session.tla's and Stream.tla's: here they  *)
(* are what an observer sees of them.                                    *)
EXTENDS Naturals, Sequences, FiniteSets

CONSTANTS Session,
          None,
          Buffer,      \* events sent ahead of the terminal
          Command,     \* bound: commands the user gives
          MaxCommands, \* bound: their number
          MaxTurns,    \* bound: turns and requests of the sessions
          MaxFailures  \* bound: calls and joins that fail

ASSUME TerminalAssumption ==
    /\ None \notin Session /\ Buffer \in Nat \ {0}
    /\ {MaxCommands, MaxTurns, MaxFailures} \subseteq Nat
    /\ Command \subseteq {"list", "related", "models", "compact", "prompt", "submit", "close", "delete"}

VARIABLES srv,      \* per session, [busy, asks]: its turn, and the decision
                    \* or the question it waits for
          session,  \* m.session
          target,   \* the session of RemoteClient
          screen,   \* [status, working, approval]
          modal,    \* [kind, asks]: the page shown
          observer, \* the observer: [on, of, phase, queue, waiting]
          late,     \* a message of an earlier observer not yet handled
          calls,    \* calls made and not answered
          strayed,  \* an answer was taken for the session's or the page's
                    \* shown that was for another
          used      \* [commands, turns, failures]
terminalVars == <<srv, session, target, screen, modal, observer, late, calls, strayed, used>>

Request(kind, of, n) == [kind |-> kind, of |-> of, n |-> n]
NoRequest == Request("none", None, 0)
Message(kind, of, asks) == [kind |-> kind, of |-> of, asks |-> asks, stale |-> FALSE]
NoMessage == Message("none", None, NoRequest)
CallFor(kind, of) == [kind |-> kind, of |-> of, asks |-> NoRequest, owns |-> FALSE]

Page(kind) == [kind |-> kind, asks |-> NoRequest]
NoPage == Page("none")
Blank == [status |-> "idle", working |-> FALSE, approval |-> NoRequest]
Views == {"view busy", "view idle"}
Unwatched == [on |-> FALSE, of |-> None, phase |-> "ended", queue |-> <<>>, waiting |-> FALSE]

(* The program starts on the list of sessions, or loading one it was     *)
(* given.                                                                *)
TerminalInit ==
    /\ srv = [s \in Session |-> [busy |-> FALSE, asks |-> NoRequest]]
    /\ session = None /\ target = None
    /\ screen = Blank
    /\ \/ modal = Page("sessions") /\ calls = {}
       \/ modal = Page("loading") /\ \E s \in Session : calls = {CallFor("load", s)}
    /\ observer = Unwatched /\ late = NoMessage
    /\ strayed = FALSE
    /\ used = [commands |-> 0, turns |-> 0, failures |-> 0]

-----------------------------------------------------------------------
(* The sessions.  Everything that moves one is an event for its clients; *)
(* one that has fallen behind loses what the server still keeps of its   *)
(* events, any number of the last, for a gap, and gets no more.          *)

Behind(w) ==
    {[w EXCEPT !.queue = Append(SubSeq(@, 1, n), Message("gap", w.of, NoRequest)), !.phase = "ended"] :
        n \in {n \in 0..Len(w.queue) : \A i \in (n + 1)..Len(w.queue) : w.queue[i].kind \notin Views}}
Heard(w, s, m) ==
    CASE ~w.on \/ w.of # s \/ w.phase # "live" -> {w}
      [] w.on /\ w.of = s /\ w.phase = "live" /\ Len(w.queue) < Buffer ->
            {[w EXCEPT !.queue = Append(@, m)]}
      [] OTHER -> Behind(w)

Becomes(s, now, m) ==
    /\ srv' = [srv EXCEPT ![s] = now]
    /\ observer' \in Heard(observer, s, m)

Turns == used.turns < MaxTurns /\ used' = [used EXCEPT !.turns = @ + 1]

Begins(s) == Becomes(s, [srv[s] EXCEPT !.busy = TRUE], Message("busy", s, NoRequest))
Asks(s, kind) ==
    LET r == Request(kind, s, used.turns)
    IN  Becomes(s, [srv[s] EXCEPT !.asks = r], Message("asked", s, r))
Settles(s) == Becomes(s, [srv[s] EXCEPT !.asks = NoRequest], Message("resolved", s, srv[s].asks))
Ends(s) == Becomes(s, [srv[s] EXCEPT !.busy = FALSE], Message("idle", s, NoRequest))

(* Other clients send and answer too.                                    *)
Server(s) ==
    /\ \/ ~srv[s].busy /\ Turns /\ Begins(s)
       \/ srv[s].busy /\ srv[s].asks = NoRequest /\ Turns /\ \E k \in {"approval", "question"} : Asks(s, k)
       \/ srv[s].asks # NoRequest /\ Settles(s) /\ UNCHANGED used
       \/ srv[s].busy /\ srv[s].asks = NoRequest /\ Ends(s) /\ UNCHANGED used
    /\ UNCHANGED <<session, target, screen, modal, late, calls, strayed>>

-----------------------------------------------------------------------
(* The observer.                                                         *)

(* startSessionObserver and the cancellation of the one before: a        *)
(* message it has already handed over is still to be handled.            *)
Lates == {late} \cup
         (IF observer.waiting /\ observer.queue # <<>> THEN {[Head(observer.queue) EXCEPT !.stale = TRUE]} ELSE {})
Observe(s) ==
    /\ observer' = [on |-> TRUE, of |-> s, phase |-> "joining", queue |-> <<>>, waiting |-> TRUE]
    /\ late' \in Lates
Unwatch == observer' = Unwatched /\ late' \in Lates
ObserveIfNone == IF session # None /\ ~observer.on THEN Observe(session) ELSE UNCHANGED <<observer, late>>

(* JoinSession: the view, then events.  A join or a stream may fail.     *)
View(s) == [Message("view", s, srv[s].asks) EXCEPT !.kind = IF srv[s].busy THEN "view busy" ELSE "view idle"]
Join ==
    /\ observer.phase = "joining"
    /\ observer' = [observer EXCEPT !.phase = "live", !.queue = <<View(observer.of)>>]
    /\ UNCHANGED <<srv, session, target, screen, modal, late, calls, strayed, used>>

Fails == used.failures < MaxFailures /\ used' = [used EXCEPT !.failures = @ + 1]
JoinFails ==
    /\ observer.phase \in {"joining", "live"} /\ Fails
    /\ observer' = [observer EXCEPT !.phase = "ended"]
    /\ UNCHANGED <<srv, session, target, screen, modal, late, calls, strayed>>

(* waitStream returns nothing when the join has returned, even if there  *)
(* are messages: its select has both to choose from.                     *)
StopWaiting ==
    /\ observer.on /\ observer.phase = "ended" /\ observer.waiting
    /\ observer' = [observer EXCEPT !.waiting = FALSE, !.queue = <<>>]
    /\ UNCHANGED <<srv, session, target, screen, modal, late, calls, strayed, used>>

(* applySessionView and applySessionEvent.                               *)
Form(r) == [kind |-> "form", asks |-> r]
FormClosed == IF modal.kind = "form" THEN NoPage ELSE modal
ShownView(m, status) ==
    /\ screen' = [status |-> status, working |-> status = "busy",
                  approval |-> IF m.asks.kind = "approval" THEN m.asks ELSE NoRequest]
    /\ modal' = IF m.asks.kind = "question" THEN Form(m.asks) ELSE FormClosed
ShownStatus(status) ==
    screen' = [screen EXCEPT !.status = status, !.working = status = "busy"] /\ UNCHANGED modal
ShownRequest(r) ==
    IF r.kind = "approval" THEN screen' = [screen EXCEPT !.approval = r] /\ UNCHANGED modal
    ELSE modal' = Form(r) /\ UNCHANGED screen
ShownAnswer(r) ==
    IF r.kind = "approval" THEN screen' = [screen EXCEPT !.approval = NoRequest] /\ UNCHANGED modal
    ELSE modal' = (IF modal.asks = r THEN FormClosed ELSE modal) /\ UNCHANGED screen
Shown(m) ==
    CASE m.kind = "view busy" -> ShownView(m, "busy")
      [] m.kind = "view idle" -> ShownView(m, "idle")
      [] m.kind \in {"busy", "idle"} -> ShownStatus(m.kind)
      [] m.kind = "asked" -> ShownRequest(m.asks)
      [] m.kind = "resolved" -> ShownAnswer(m.asks)
      [] m.kind = "gap" -> UNCHANGED <<screen, modal>>

(* sessionViewMsg and sessionEventMsg: only of the observer running, and *)
(* only of the session shown.  A message dropped is the last one         *)
(* waitStream is asked for.                                              *)
CurrentAny(m) == observer.on /\ m.of = session

Current(m) == observer.on /\ m.of = session /\ ~m.stale

Observed ==
    /\ observer.waiting /\ observer.queue # <<>>
    /\ LET m == Head(observer.queue)
           rest == [observer EXCEPT !.queue = Tail(@)]
       IN  IF ~Current(m) THEN /\ observer' = [rest EXCEPT !.waiting = FALSE, !.queue = <<>>]
                               /\ UNCHANGED <<screen, modal, late>>
           ELSE /\ Shown(m)
                /\ IF m.kind = "gap" THEN Observe(session) ELSE observer' = rest /\ UNCHANGED late
    /\ UNCHANGED <<srv, session, target, calls, strayed, used>>

ObservedLate ==
    /\ late # NoMessage /\ late' = NoMessage
    /\ IF Current(late) THEN Shown(late) ELSE UNCHANGED <<screen, modal>>
    /\ UNCHANGED <<srv, session, target, observer, calls, strayed, used>>

-----------------------------------------------------------------------
(* Keys and commands.                                                    *)

Gives(k) ==
    /\ k \in Command /\ used.commands < MaxCommands
    /\ used' = [used EXCEPT !.commands = @ + 1]
Makes(c) == calls' = calls \cup {c}
Typing == modal = NoPage /\ screen.approval = NoRequest

(* ctrl+o and /sessions: the observer goes before the list comes.        *)
OpenSessionList ==
    /\ modal = NoPage /\ Gives("list")
    /\ Unwatch /\ modal' = Page("loading") /\ Makes(CallFor("list", None))
    /\ UNCHANGED <<srv, session, target, screen, strayed>>

(* openRelatedSession: a sidecar or the caller, with the arrow keys.     *)
OpenRelated(s) ==
    /\ modal = NoPage /\ session # None /\ s # session /\ Gives("related")
    /\ Unwatch /\ modal' = Page("loading") /\ Makes(CallFor("load", s))
    /\ UNCHANGED <<srv, session, target, screen, strayed>>

(* A row of the list: the session shown is joined again, another one, or *)
(* a new one, is asked for.                                              *)
Choose(s) ==
    /\ modal.kind = "sessions"
    /\ IF s = session
       THEN modal' = NoPage /\ Observe(session) /\ UNCHANGED calls
       ELSE modal' = Page("loading") /\ Makes(CallFor("load", s)) /\ UNCHANGED <<observer, late>>
    /\ UNCHANGED <<srv, session, target, screen, strayed, used>>

(* c and d on a row; the list stays.                                     *)
CloseRow(s, key) ==
    /\ modal.kind = "sessions" /\ Gives(key)
    /\ Makes(CallFor(key, s))
    /\ UNCHANGED <<srv, session, target, screen, modal, observer, late, strayed>>

(* esc on the list; closePage and the OK of a notice.                    *)
ResumeFromList ==
    /\ modal.kind = "sessions" /\ session # None
    /\ modal' = NoPage /\ Observe(session)
    /\ UNCHANGED <<srv, session, target, screen, calls, strayed, used>>

Dismiss == modal' = NoPage /\ ObserveIfNone

ClosePage ==
    /\ modal.kind \in {"notice", "models"} /\ Dismiss
    /\ UNCHANGED <<srv, session, target, screen, calls, strayed, used>>

(* /model or ctrl+m, and the choice of a model.                          *)
OpenModels ==
    /\ Typing /\ Gives("models")
    /\ modal' = Page("loading") /\ Makes(CallFor("providers", None))
    /\ UNCHANGED <<srv, session, target, screen, observer, late, strayed>>
ChooseModel ==
    /\ modal.kind = "models" /\ target # None
    /\ modal' = Page("loading") /\ Makes(CallFor("model", target))
    /\ UNCHANGED <<srv, session, target, screen, observer, late, strayed, used>>

(* /compact and an MCP prompt with its arguments put up no page.         *)
CompactTarget ==
    /\ Typing /\ session # None /\ target # None /\ Gives("compact")
    /\ screen' = [screen EXCEPT !.working = TRUE]
    /\ Makes(CallFor("compact", target))
    /\ UNCHANGED <<srv, session, target, modal, observer, late, strayed>>
RenderPrompt ==
    /\ Typing /\ session # None /\ Gives("prompt")
    /\ Makes(CallFor("prompt", session))
    /\ UNCHANGED <<srv, session, target, screen, modal, observer, late, strayed>>

(* submit: a prompt that opens the turn owns the status until the        *)
(* session reports its own.                                              *)
Submit ==
    /\ Typing /\ session # None /\ target # None /\ Gives("submit")
    /\ Makes([CallFor("send", target) EXCEPT !.owns = ~screen.working])
    /\ screen' = IF screen.working THEN screen ELSE [screen EXCEPT !.status = "busy", !.working = TRUE]
    /\ UNCHANGED <<srv, session, target, modal, observer, late, strayed>>

(* resolveApproval answers the session the request names; submitElicit   *)
(* the session shown.                                                    *)
AnswerApproval ==
    /\ modal = NoPage /\ screen.approval # NoRequest
    /\ Makes([CallFor("answer", screen.approval.of) EXCEPT !.asks = screen.approval])
    /\ screen' = [screen EXCEPT !.approval = NoRequest]
    /\ UNCHANGED <<srv, session, target, modal, observer, late, strayed, used>>
AnswerForm ==
    /\ modal.kind = "form"
    /\ Makes([CallFor("answer", session) EXCEPT !.asks = modal.asks])
    /\ modal' = NoPage
    /\ UNCHANGED <<srv, session, target, screen, observer, late, strayed, used>>

-----------------------------------------------------------------------
(* Answers.  Apart from those of load, none says which session it is of. *)

Arrives(c) == c \in calls /\ calls' = calls \ {c}
Elsewhere == \E c \in calls' : c.kind \in {"list", "load"}
Strays(pages) == strayed' = (strayed \/ session' # target \/ modal.kind \notin pages \/ Elsewhere)

Listed(c) ==
    /\ c.kind = "list" /\ modal' = Page("sessions")
    /\ UNCHANGED session /\ Strays({"loading", "sessions"})
    /\ UNCHANGED <<srv, target, screen, observer, late, used>>

(* A notice takes the place of whatever page is up.                      *)
CallFailsQuietly(c) ==
    /\ c.kind \in {"list", "load", "providers", "close", "delete"} /\ Fails
    /\ UNCHANGED <<srv, session, target, screen, modal, observer, late, strayed>>

CallFails(c) ==
    /\ c.kind \in {"list", "load", "providers", "close", "delete"} /\ Fails
    /\ modal' = Page("notice")
    /\ UNCHANGED session /\ Strays(IF c.kind \in {"close", "delete"} THEN {"sessions"} ELSE {"loading"})
    /\ UNCHANGED <<srv, target, screen, observer, late>>

(* sessionLoadedMsg and sessionCreatedMsg.                               *)
ShowLoadedKeepsPage(s) == screen' = Blank /\ modal' = (IF modal.kind = "form" THEN modal ELSE NoPage)
ShowLoaded(s) == screen' = Blank /\ modal' = NoPage

Loaded(c) ==
    /\ c.kind = "load"
    /\ session' = c.of /\ target' = c.of /\ strayed' = FALSE
    /\ ShowLoaded(c.of) /\ Observe(c.of)
    /\ UNCHANGED <<srv, used>>

Providers(c) ==
    /\ c.kind = "providers" /\ modal' = Page("models")
    /\ UNCHANGED session /\ Strays({"loading"})
    /\ UNCHANGED <<srv, target, screen, observer, late, used>>

(* modelSetMsg and compactedMsg carry the metadata of the session the    *)
(* call was for; modelSetMsg and mcpPromptRenderedMsg take down whatever *)
(* page is up.                                                           *)
Shows(c) == \/ session' = c.of /\ UNCHANGED used
            \/ session' = session /\ Fails
ModelSet(c) ==
    /\ c.kind = "model" /\ modal' = NoPage
    /\ Shows(c) /\ Strays({"loading"})
    /\ UNCHANGED <<srv, target, screen, observer, late>>
Compacted(c) ==
    /\ c.kind = "compact" /\ screen' = [screen EXCEPT !.working = FALSE]
    /\ Shows(c) /\ Strays({modal.kind})
    /\ UNCHANGED <<srv, target, modal, observer, late>>
PromptRendered(c) ==
    /\ c.kind = "prompt" /\ modal' = NoPage /\ session' = session /\ Strays({"none"})
    /\ UNCHANGED <<srv, target, screen, observer, late, used>>

(* SendMessage is accepted, then messageSentMsg does nothing, or it is   *)
(* refused, and an owner lets go of the status and joins again.          *)
MessageSent(c) ==
    /\ c.kind = "send"
    /\ IF srv[c.of].busy THEN UNCHANGED <<srv, observer>> ELSE Begins(c.of)
    /\ UNCHANGED <<session, target, screen, modal, late, strayed, used>>
Released == [screen EXCEPT !.status = "idle", !.working = FALSE]
MessageRefused(c) ==
    /\ c.kind = "send" /\ Fails
    /\ IF c.owns THEN /\ screen' = Released
                      /\ IF session # None THEN Observe(session) ELSE UNCHANGED <<observer, late>>
       ELSE UNCHANGED <<screen, observer, late>>
    /\ UNCHANGED <<srv, session, target, modal, strayed>>

(* ResolveApproval and ResolveElicitation: the first answer counts, and  *)
(* only at the session that asks.                                        *)
RequestAnswered(c) ==
    /\ c.kind = "answer"
    /\ IF c.of # None /\ srv[c.of].asks = c.asks THEN Settles(c.of) ELSE UNCHANGED <<srv, observer>>
    /\ UNCHANGED <<session, target, screen, modal, late, strayed, used>>

(* applySessionAction: only while the list is up, which a deletion has   *)
(* listed again.                                                         *)
RowClosed(c) ==
    /\ c.kind \in {"close", "delete"} /\ c \in calls
    /\ IF modal.kind = "sessions" /\ c.of = session
       THEN session' = None /\ target' = None ELSE UNCHANGED <<session, target>>
    /\ calls' = (calls \ {c}) \cup
                IF modal.kind = "sessions" /\ c.kind = "delete" THEN {CallFor("list", None)} ELSE {}
    /\ UNCHANGED <<srv, screen, modal, observer, late, strayed, used>>

Answer ==
    \E c \in calls :
        \/ RowClosed(c)
        \/ /\ Arrives(c)
           /\ \/ Listed(c) \/ CallFails(c) \/ Loaded(c) \/ Providers(c) \/ ModelSet(c) \/ Compacted(c)
              \/ PromptRendered(c) \/ MessageSent(c) \/ MessageRefused(c) \/ RequestAnswered(c)

-----------------------------------------------------------------------
User ==
    \/ OpenSessionList \/ ResumeFromList \/ ClosePage \/ OpenModels \/ ChooseModel
    \/ CompactTarget \/ RenderPrompt \/ Submit \/ AnswerApproval \/ AnswerForm
    \/ \E s \in Session : OpenRelated(s) \/ Choose(s) \/ (\E key \in {"close", "delete"} : CloseRow(s, key))
Observer == Join \/ JoinFails \/ StopWaiting \/ Observed \/ ObservedLate

TerminalNext == User \/ Observer \/ Answer \/ \E s \in Session : Server(s)

(* Calls are answered, joins return and the event loop goes on; neither  *)
(* the user nor a session need do anything.                              *)
TerminalSpec ==
    /\ TerminalInit /\ [][TerminalNext]_terminalVars
    /\ WF_terminalVars(Answer) /\ WF_terminalVars(Join \/ Observed \/ StopWaiting \/ ObservedLate)

-----------------------------------------------------------------------
(* While the stream of its session is up and every message of it is      *)
(* handled, the status and the decision on the screen are the session's: *)
(* whatever was listed, opened or refused before, whoever answered, and  *)
(* whatever an earlier observer hands over late.  It does not speak of a *)
(* message or an answer of the user still on its way, nor, until a       *)
(* session is loaded, of a screen that has strayed: an answer to an      *)
(* earlier command moved m.session or took the place of a later page. Of *)
(* a session whose join failed or whose stream ended nothing is said:    *)
(* the code shows the error and does not join again.                     *)
CaughtUp == observer.on /\ observer.phase = "live" /\ observer.queue = <<>> /\ session = observer.of
ScreenIsTrue ==
    (CaughtUp /\ ~strayed /\ ~\E c \in calls : c.kind \in {"send", "answer"})
        => /\ screen.status = (IF srv[session].busy THEN "busy" ELSE "idle")
           /\ srv[session].asks.kind = "approval" => screen.approval = srv[session].asks
           /\ srv[session].asks.kind # "approval" => screen.approval = NoRequest

(* A form on the screen is of the session shown, so that its answer goes *)
(* to the session that asked; and once every message of the session's    *)
(* stream is handled, it is of the question the session waits with.  Not *)
(* so where an answer that was taken for the session shown moves         *)
(* m.session while a form is up (~strayed): the form's answer then goes  *)
(* to the other session, which refuses it.                               *)
FormsAreOwn ==
    modal.kind = "form" /\ ~strayed
        => modal.asks.of = session /\ (CaughtUp => modal.asks = srv[session].asks)

(* A page that only says to wait, which no key takes down, goes.         *)
PagesEnd == modal.kind = "loading" ~> modal.kind # "loading"
=======================================================================
