--------------------------- MODULE Registry ---------------------------
(* The sessions an engine holds and the requests that reach them:       *)
(* engine.go (the registry and its lock e.mu), server.go (the handlers  *)
(* and their status codes), store/session.go (the directory of each     *)
(* session), and what a turn tells the clients that joined it.  Turns,  *)
(* the status hub and the sidecars of this life have modules of their   *)
(* own (Session, Stream, Delegation); here a turn is the order in which *)
(* its states and its text reach a stream, and sidecars are those an    *)
(* earlier life left on disk.                                           *)
EXTENDS Naturals, Sequences, FiniteSets

CONSTANTS Root, Old,       \* sessions of people; the one an earlier life saved
          Sidecar,         \* offspring of Old, on disk
          Client, Line,    \* other clients, one request at a time; the line client
          Handle,          \* bound: InfaiAgentSession values in memory
          MaxQueue,        \* bound: messages queued in a session
          MaxFaults,       \* bound: failed writes, kills and restarts
          SubscriberBuffer,\* events kept for a slow client (SUBSCRIBER_BUFFER)
          DeleteAlone,     \* a delete runs with no other request
          Mixes,           \* bound: [others, line, requests, work, ends], the
                           \* requests of one behaviour: their kinds, how many
                           \* others make, how many texts, tools and compactions
                           \* turns have, whether the server stops
          None

\* The requests of the HTTP API that are served here.
Op == {"create", "load", "chat", "join", "compact", "model", "branch", "approve", "cancel",
       "close", "delete", "rename", "records", "timeline", "report"}

ASSUME RegistryAssumption ==
    /\ Old \in Root /\ Root \cap Sidecar = {}
    /\ Line \notin Client /\ DeleteAlone \in BOOLEAN
    /\ {MaxQueue, MaxFaults, SubscriberBuffer} \subseteq Nat
    /\ None \notin Root \cup Sidecar \cup Client \cup {Line} \cup Handle
    /\ Mixes \subseteq [others : SUBSET Op, requests : Nat, work : Nat, line : SUBSET Op,
                        ends : BOOLEAN]

VARIABLES engine,  \* "up", "stopping" (stopCh closed), "stopped" (canceled), "down"
          disk,    \* session -> None (no directory) or its offspring
          born,    \* ids given out (uuid.NewV7 never repeats one)
          active,  \* e.activeSessionAgents: session -> None or its handle
          inbox,   \* sessions registered with the comms channel
          session, \* what a handle is: its session and the state of that
          mu,      \* who holds e.mu across steps, or None
          call,    \* requests being served
          stream,  \* the join-stream of the line client
          used     \* [requests, work, faults, mix] of the bounds
vars == <<engine, disk, born, active, inbox, session, mu, call, stream, used>>

Id == Root \cup Sidecar
Caller == Client \cup {Line}
Resting == [op |-> "none", id |-> None, at |-> "none", h |-> None, rest |-> {}, doomed |-> None, code |-> 0]
Gone == [of |-> None, open |-> FALSE, status |-> "tombstone", at |-> "over",
         again |-> FALSE, queue |-> 0, token |-> FALSE, drain |-> TRUE]
Unjoined == [h |-> None, events |-> <<>>, calm |-> FALSE, alone |-> FALSE, said |-> 0]

\* A resumed sidecar that concluded runs no loop (newRuntimeSession); the
\* loop of a person's session starts by reporting that it is idle, unless
\* the engine's context is canceled already.
Opened(s) ==
    [Gone EXCEPT !.of = s, !.open = TRUE,
                 !.status = IF s \in Sidecar THEN "completed" ELSE "idle",
                 !.at = IF s \in Sidecar \/ engine = "stopped" THEN "over" ELSE "top"]

Init ==
    /\ engine = "up"
    /\ disk = [s \in Id |-> IF s = Old THEN Sidecar ELSE IF s \in Sidecar THEN {} ELSE None]
    /\ born = {Old} \cup Sidecar
    /\ active = [s \in Id |-> None]
    /\ inbox = {}
    /\ session = [h \in Handle |-> Gone]
    /\ mu = None
    /\ call = [c \in Caller |-> Resting]
    /\ stream = Unjoined
    /\ used \in [requests : {0}, work : {0}, faults : {0}, mix : Mixes]

------------------------------------------------------------------------
(* What a session publishes.  A subscriber that falls behind is dropped  *)
(* with its backlog; what had left the server still arrives.             *)
Texts(events) == Cardinality({i \in DOMAIN events : events[i] = "text"})

PublishTo(joined, h, events) ==
    IF joined.h # h THEN stream' = joined
    ELSE IF Len(joined.events) + Len(events) <= SubscriberBuffer
    THEN stream' = [joined EXCEPT !.events = @ \o events, !.said = @ + Texts(events)]
    ELSE \E k \in 0 .. Len(joined.events) :
             stream' = [joined EXCEPT !.events = SubSeq(@, 1, k) \o <<"end">>,
                                      !.h = None, !.said = @ + Texts(events)]
Publish(h, events) == PublishTo(stream, h, events)

\* releaseSubscribers: what was queued is still read, then the stream ends.
Release(handles) ==
    stream' = IF stream.h \in handles
              THEN [stream EXCEPT !.events = Append(@, "end"), !.h = None] ELSE stream

Concluded(h) == session[h].status \in {"completed", "tombstone"}

\* moveStatusLocked and the rule of handlerForSessionEvents for reports of
\* the agent: they move the status only between idle and busy.
Reported(h, status) ==
    IF session[h].status \in {"idle", "busy"} THEN status ELSE session[h].status
Moved(h, status) == IF Concluded(h) THEN session[h].status ELSE status

InUse(h) == \/ session[h].open \/ stream.h = h
            \/ \E c \in Caller : call[c].h = h
FreeHandle == {h \in Handle : ~ InUse(h)}
Fresh == CHOOSE h \in FreeHandle : TRUE

------------------------------------------------------------------------
(* The loop of a session (agent.go StartLoop), its events in order.      *)
Become(h, r) == session' = [session EXCEPT ![h] = r]
AgentOnly == UNCHANGED <<engine, disk, born, active, inbox, mu, call>>
Works(h, at) == session[h].at = at /\ AgentOnly
Working == used.work < used.mix.work /\ used' = [used EXCEPT !.work = @ + 1]

\* The top of the loop: nothing unread and nothing to go on with ends the
\* turn, and the loop parks.
Top(h) ==
    /\ Works(h, "top") /\ UNCHANGED used
    /\ LET s == session[h] IN
       IF s.again \/ (s.queue > 0 /\ s.drain)
       THEN /\ Become(h, [s EXCEPT !.queue = IF s.drain THEN 0 ELSE @, !.at = "turn"])
            /\ UNCHANGED stream
       ELSE /\ Become(h, [s EXCEPT !.at = "parked", !.status = Reported(h, "idle")])
            /\ Publish(h, <<"idle">>)

Wake(h) ==
    /\ Works(h, "parked") /\ UNCHANGED <<used, stream>>
    /\ session[h].queue > 0 /\ session[h].drain
    /\ Become(h, [session[h] EXCEPT !.queue = @ - 1, !.at = "turn"])

\* The messages read are echoed and committed; a cancellation is noticed.
Turn(h) ==
    /\ Works(h, "turn") /\ UNCHANGED used
    /\ LET s == [session[h] EXCEPT !.status = Reported(h, "busy")] IN
       \/ Become(h, [s EXCEPT !.at = "model"])
       \/ s.token /\ Become(h, [s EXCEPT !.token = FALSE, !.again = FALSE, !.at = "top"])
    /\ Publish(h, <<"busy">>)

Speak(h) ==
    /\ Works(h, "model") /\ Working
    /\ UNCHANGED session /\ Publish(h, <<"text">>)

\* The reply is complete, the turn was canceled, or the provider failed.
EndReply(h) ==
    /\ Works(h, "model") /\ UNCHANGED <<used, stream>>
    /\ \/ \E kept \in {session[h].token, FALSE} :
             Become(h, [session[h] EXCEPT !.token = kept, !.again = FALSE, !.at = "commit"])
       \/ Become(h, [session[h] EXCEPT !.token = FALSE, !.again = FALSE, !.at = "top"])

CallTool(h) ==
    /\ Works(h, "model") /\ Working
    /\ \/ /\ Become(h, [session[h] EXCEPT !.again = TRUE, !.at = "commit"])
          /\ UNCHANGED stream
       \/ /\ ~ session[h].token
          /\ Become(h, [session[h] EXCEPT !.again = TRUE, !.at = "asked",
                                          !.status = Moved(h, "waiting")])
          /\ Publish(h, <<"waiting">>)

\* The reply becomes durable, or the session ends with the failed write.
Commit(h) ==
    /\ Works(h, "commit")
    /\ \/ /\ Become(h, [session[h] EXCEPT !.at = "top"])
          /\ UNCHANGED <<used, stream>>
       \/ /\ Working
          /\ Become(h, [session[h] EXCEPT !.at = "folding", !.status = Moved(h, "compacting")])
          /\ Publish(h, <<"compacting">>)
       \/ /\ used.faults < MaxFaults /\ used' = [used EXCEPT !.faults = @ + 1]
          /\ Become(h, [session[h] EXCEPT !.at = "over", !.status = Moved(h, "tombstone")])
          /\ stream' = IF stream.h # h THEN stream
                       ELSE [stream EXCEPT !.events = @ \o <<"fatal", "end">>, !.h = None]

\* An automatic compaction reports the session idle in mid-turn; one that
\* failed clears what the turn would go on with.
Fold(h) ==
    /\ Works(h, "folding") /\ UNCHANGED used
    /\ \E failed \in BOOLEAN :
          Become(h, [session[h] EXCEPT !.at = "top", !.status = Moved(h, "idle"),
                                       !.again = IF failed THEN FALSE ELSE @])
    /\ PublishTo([stream EXCEPT !.calm = @ /\ stream.h # h], h, <<"idle">>)

AgentStep(h) ==
    \/ Top(h) \/ Wake(h) \/ Turn(h) \/ Speak(h) \/ EndReply(h) \/ CallTool(h)
    \/ Commit(h) \/ Fold(h)

------------------------------------------------------------------------
(* Requests.  A handler answers with a status code; the line client      *)
(* reads it, the others are free for their next request.                 *)
At(c, op, at) == call[c].op = op /\ call[c].at = at
GoTo(c, r) == call' = [call EXCEPT ![c] = r]
Step(c, at) == GoTo(c, [call[c] EXCEPT !.at = at])
Reply(c, code) ==
    IF c = Line THEN [call[c] EXCEPT !.at = "answered", !.h = None, !.code = code]
    ELSE Resting
Answer(c, code) == GoTo(c, Reply(c, code))
Unlocked == mu = None
OnlyCall == UNCHANGED <<engine, disk, born, active, inbox, session, mu, stream, used>>
RestOfSession == UNCHANGED <<engine, disk, born, active, inbox, mu, used>>

Asked(op, s) == [Resting EXCEPT !.op = op, !.id = s, !.at = "begin"]
Alone(c, op) ==
    DeleteAlone =>
        \A d \in Caller \ {c} : call[d].at \notin {"none", "answered"}
                               => "delete" \notin {op, call[d].op}

Ask(c) ==
    /\ c \in Client /\ call[c] = Resting /\ engine # "down"
    /\ used.requests < used.mix.requests
    /\ \E op \in used.mix.others : \E s \in IF op = "create" THEN {None} ELSE born :
          /\ Alone(c, op) /\ GoTo(c, Asked(op, s))
          /\ stream' = [stream EXCEPT !.alone = @ /\ ~ (op \in {"chat", "compact"}
                                                      /\ stream.h # None
                                                      /\ session[stream.h].of = s)]
    /\ used' = [used EXCEPT !.requests = @ + 1]
    /\ UNCHANGED <<engine, disk, born, active, inbox, session, mu>>

\* Nobody listens any more: the connection is refused.
Refused(c) ==
    /\ engine = "down" /\ call[c].at = "begin" /\ Answer(c, 0) /\ OnlyCall

(* POST /v1/sessions.  The session is made before the lock is taken; an  *)
(* engine that began to stop meanwhile takes it back.                    *)
CreateBegin(c) ==
    /\ At(c, "create", "begin") /\ engine # "down"
    /\ UNCHANGED <<engine, active, mu, stream>>
    /\ IF engine # "up"
       THEN Answer(c, 503) /\ UNCHANGED <<disk, born, inbox, session, used>>
       ELSE \/ Answer(c, 400) /\ UNCHANGED <<disk, born, inbox, session, used>>
            \/ \E s \in Root \ born :
                  /\ born' = born \cup {s} /\ disk' = [disk EXCEPT ![s] = {}]
                  /\ \/ /\ FreeHandle # {}
                        /\ session' = [session EXCEPT ![Fresh] = Opened(s)]
                        /\ GoTo(c, [call[c] EXCEPT !.id = s, !.h = Fresh, !.at = "made"])
                        /\ inbox' = inbox \cup {s} /\ UNCHANGED used
                     \/ /\ used.faults < MaxFaults
                        /\ used' = [used EXCEPT !.faults = @ + 1]
                        /\ Answer(c, 400) /\ UNCHANGED <<inbox, session>>

CreateRegisterAnyway(c) ==
    /\ At(c, "create", "made") /\ Unlocked
    /\ active' = [active EXCEPT ![call[c].id] = call[c].h] /\ Answer(c, 201)
    /\ UNCHANGED <<engine, disk, born, inbox, session, mu, stream, used>>

CreateRegister(c) ==
    /\ At(c, "create", "made") /\ Unlocked /\ UNCHANGED <<engine, born, mu, used>>
    /\ LET s == call[c].id IN
       IF engine = "up"
       THEN /\ active' = [active EXCEPT ![s] = call[c].h] /\ Answer(c, 201)
            /\ UNCHANGED <<disk, inbox, session, stream>>
       ELSE /\ disk' = [disk EXCEPT ![s] = None] /\ Become(call[c].h, Gone)
            /\ inbox' = inbox \ {s} /\ Release({call[c].h}) /\ Answer(c, 503) /\ UNCHANGED active

(* POST /v1/sessions/{id}/load, with e.mu held from end to end.          *)
LoadBegin(c) ==
    /\ At(c, "load", "begin") /\ engine # "down" /\ OnlyCall
    /\ IF engine = "up" THEN Step(c, "locking") ELSE Answer(c, 500)

LoadOpenUnasked(c) ==
    /\ At(c, "load", "locking") /\ Unlocked
    /\ UNCHANGED <<engine, disk, born, active, stream, used>>
    /\ LET s == call[c].id IN
       /\ active[s] = None /\ disk[s] # None /\ FreeHandle # {}
       /\ mu' = c /\ inbox' = inbox \cup {s}
       /\ session' = [session EXCEPT ![Fresh] = Opened(s)]
       /\ GoTo(c, [call[c] EXCEPT !.h = Fresh, !.at = "made"])

LoadOpen(c) ==
    /\ At(c, "load", "locking") /\ Unlocked
    /\ UNCHANGED <<engine, disk, born, active, stream, used>>
    /\ LET s == call[c].id IN
       \/ /\ Answer(c, IF active[s] # None THEN 200 ELSE IF disk[s] = None THEN 404 ELSE 500)
          /\ UNCHANGED <<inbox, session, mu>>
       \/ /\ active[s] = None /\ disk[s] # None /\ s \notin inbox /\ FreeHandle # {}
          /\ mu' = c /\ inbox' = inbox \cup {s}
          /\ session' = [session EXCEPT ![Fresh] = Opened(s)]
          /\ GoTo(c, [call[c] EXCEPT !.h = Fresh, !.at = "made"])

LoadRegister(c) ==
    /\ At(c, "load", "made") /\ mu' = (IF mu = c THEN None ELSE mu)
    /\ UNCHANGED <<engine, disk, born, used>>
    /\ IF engine = "up"
       THEN /\ active' = [active EXCEPT ![call[c].id] = call[c].h] /\ Answer(c, 200)
            /\ UNCHANGED <<inbox, session, stream>>
       ELSE /\ Become(call[c].h, Gone) /\ Release({call[c].h}) /\ Answer(c, 500)
            /\ inbox' = inbox \ {call[c].id}
            /\ UNCHANGED active

(* Requests to a session in memory look it up under the lock and act on  *)
(* what they found, which may have been closed by then.                  *)
Stops == {"chat", "join"}  \* refused by an engine that is stopping
ByHandle == Stops \cup {"compact", "model", "branch", "approve"}

Find(c) ==
    /\ call[c].op \in ByHandle /\ call[c].at = "begin" /\ engine # "down" /\ OnlyCall
    /\ IF call[c].op \in Stops /\ engine # "up" THEN Answer(c, 503)
       ELSE /\ Unlocked
            /\ IF active[call[c].id] = None THEN Answer(c, 404)
               ELSE GoTo(c, [call[c] EXCEPT !.h = active[call[c].id], !.at = "act"])

Found(c, op) == At(c, op, "act")
Its(c) == session[call[c].h]
OfSidecar(c) == Its(c).of \in Sidecar

(* POST chat: a message that passed the checks is queued, whatever        *)
(* happens to the session in between.                                     *)
Chat(c) ==
    /\ Found(c, "chat") /\ OnlyCall
    /\ IF OfSidecar(c) THEN Answer(c, 400)
       ELSE IF Its(c).status \in {"compacting", "completed", "tombstone"} \/ ~ Its(c).open
       THEN Answer(c, 409)
       ELSE Step(c, "send") \/ Answer(c, 409)

Enqueue(c) ==
    /\ At(c, "chat", "send") /\ UNCHANGED stream /\ RestOfSession
    /\ Its(c).queue < MaxQueue /\ Become(call[c].h, [Its(c) EXCEPT !.queue = @ + 1])
    /\ Answer(c, 202)

(* GET join-stream: the view and the subscription are one step.  The      *)
(* streams of other clients are not kept.                                 *)
Join(c) ==
    /\ Found(c, "join") /\ UNCHANGED session /\ RestOfSession
    /\ IF Concluded(call[c].h) \/ engine = "stopped"
       THEN Answer(c, 409) /\ UNCHANGED stream
       ELSE /\ Answer(c, 200)
            /\ stream' = IF c # Line THEN stream ELSE
                  [h |-> call[c].h, events |-> <<>>, said |-> 0,
                   calm |-> /\ Its(c).status = "idle" /\ Its(c).queue = 0 /\ ~ Its(c).again
                            /\ Its(c).at \in {"top", "parked"},
                   alone |-> \A d \in Client : ~ (/\ call[d].op \in {"chat", "compact"}
                                                /\ call[d].id = call[c].id)]

(* POST compact.  The status moves with the event of the trigger; a       *)
(* session closed meanwhile answers 500, or 404 after the success.        *)
CompactBegin(c) ==
    /\ Found(c, "compact") /\ UNCHANGED stream /\ RestOfSession
    /\ IF Its(c).status = "idle" /\ Its(c).queue = 0 /\ ~ OfSidecar(c)
       THEN Become(call[c].h, [Its(c) EXCEPT !.drain = FALSE]) /\ Step(c, "trigger")
       ELSE Answer(c, 500) /\ UNCHANGED session

Compacting(c, at, next, status) ==
    /\ At(c, "compact", at) /\ RestOfSession /\ Step(c, next)
    /\ IF Its(c).open
       THEN /\ Become(call[c].h, [Its(c) EXCEPT !.status = Moved(call[c].h, status),
                                               !.drain = next # "fold"])
            /\ Publish(call[c].h, <<status>>)
       ELSE UNCHANGED <<session, stream>>

CompactShow(c) == Compacting(c, "trigger", "fold", "compacting")
CompactDone(c) == Compacting(c, "fold", "meta", "idle")

\* Mutated: a compaction that fails is not published.
CompactFailedDeaf(c) ==
    /\ At(c, "compact", "fold") /\ RestOfSession /\ Step(c, "failed")
    /\ UNCHANGED <<session, stream>>

CompactFailed(c) == Compacting(c, "fold", "failed", "idle")

CompactAnswer(c) ==
    /\ OnlyCall
    /\ \/ At(c, "compact", "failed") /\ Answer(c, 500)
       \/ /\ At(c, "compact", "meta") /\ Unlocked
          /\ Answer(c, IF active[call[c].id] # None THEN 200 ELSE 404)

(* Switching the model or the branch asks for an idle session.            *)
Switch(c) ==
    /\ Found(c, "model") \/ Found(c, "branch")
    /\ OnlyCall
    /\ LET idle == /\ Its(c).status = "idle" /\ ~ OfSidecar(c)
                   /\ call[c].op = "branch" => Its(c).queue = 0
       IN Answer(c, 400) \/ (idle /\ Answer(c, 200))

(* POST approvals: the pending decision is taken once.                    *)
Approve(c) ==
    /\ Found(c, "approve") /\ RestOfSession
    /\ IF Its(c).at = "asked"
       THEN /\ Become(call[c].h, [Its(c) EXCEPT !.at = "commit", !.status = Moved(call[c].h, "busy")])
            /\ Publish(call[c].h, <<"busy">>) /\ Answer(c, 202)
       ELSE Answer(c, 409) /\ UNCHANGED <<session, stream>>

(* POST cancel, whole under the lock.                                     *)
Cancel(c) ==
    /\ At(c, "cancel", "begin") /\ engine # "down" /\ Unlocked /\ RestOfSession
    /\ LET h == active[call[c].id] IN
       IF h = None THEN Answer(c, 404) /\ UNCHANGED <<session, stream>>
       ELSE IF call[c].id \in Sidecar \/ session[h].status \notin {"busy", "waiting"}
       THEN Answer(c, 409) /\ UNCHANGED <<session, stream>>
       ELSE /\ Answer(c, 202)
            /\ IF session[h].at # "asked"
               THEN Become(h, [session[h] EXCEPT !.token = TRUE]) /\ UNCHANGED stream
               ELSE /\ \E left \in BOOLEAN :
                          Become(h, [session[h] EXCEPT !.token = left, !.again = FALSE,
                                          !.at = "commit", !.status = Moved(h, "busy")])
                    /\ Publish(h, <<"busy">>)

(* closeSessionTree: the session's goroutines have ended, its files are  *)
(* closed and its streams are over.                                       *)
ClosedHandle(h) ==
    IF \E c \in Caller : call[c].h = h THEN [Gone EXCEPT !.of = session[h].of] ELSE Gone
CloseAll(S) ==
    LET closed == {active[s] : s \in S} \ {None} IN
    /\ session' = [h \in Handle |-> IF h \in closed THEN ClosedHandle(h) ELSE session[h]]
    /\ active' = [s \in Id |-> IF s \in S THEN None ELSE active[s]]
    /\ inbox' = inbox \ {s \in S : active[s] # None}
    /\ Release(closed)

Close(c) ==
    /\ At(c, "close", "begin") /\ engine # "down" /\ Unlocked
    /\ UNCHANGED <<engine, disk, born, mu, used>>
    /\ LET s == call[c].id IN
       IF active[s] = None THEN Answer(c, 404) /\ UNCHANGED <<active, inbox, session, stream>>
       ELSE IF s \in Sidecar THEN Answer(c, 409) /\ UNCHANGED <<active, inbox, session, stream>>
       ELSE Answer(c, 204) /\ CloseAll({s})

(* DELETE: offspring first, then the session itself; each is closed,      *)
(* without the lock, and then its directory is removed.                    *)
DeleteBegin(c) ==
    /\ At(c, "delete", "begin") /\ engine # "down" /\ OnlyCall
    /\ LET s == call[c].id IN
       IF disk[s] = None THEN Answer(c, 404)
       ELSE IF s \in Sidecar THEN Answer(c, 500)
       ELSE GoTo(c, [call[c] EXCEPT !.rest = disk[s], !.at = "close"])

Victims(c) == IF call[c].rest # {} THEN call[c].rest ELSE {call[c].id}
DeleteClose(c) ==
    /\ At(c, "delete", "close") /\ UNCHANGED <<engine, disk, born, mu, used>>
    /\ \E s \in Victims(c) :
          CloseAll({s}) /\ GoTo(c, [call[c] EXCEPT !.doomed = s, !.at = "remove"])

DeleteRemove(c) ==
    /\ At(c, "delete", "remove") /\ UNCHANGED <<engine, born, active, inbox, session, mu, stream>>
    /\ LET s == call[c].doomed IN
       \/ /\ disk' = [disk EXCEPT ![s] = None] /\ UNCHANGED used
          /\ IF s = call[c].id THEN Answer(c, 204)
             ELSE GoTo(c, [call[c] EXCEPT !.rest = @ \ {s}, !.doomed = None, !.at = "close"])
       \/ /\ used.faults < MaxFaults /\ used' = [used EXCEPT !.faults = @ + 1]
          /\ Answer(c, 500) /\ UNCHANGED disk

(* POST rename: a session in memory renames itself, another's directory   *)
(* is written.  Names are not kept here.                                   *)
Rename(c) ==
    /\ At(c, "rename", "begin") /\ engine # "down" /\ Unlocked /\ OnlyCall
    /\ LET h == active[call[c].id] IN
       LET renamed == IF h = None THEN disk[call[c].id] # None ELSE ~ Concluded(h) IN
       Answer(c, IF renamed THEN 200 ELSE 400)

(* GET of the records, the timeline, the report and the identity.  All    *)
(* read the directory; the report of a session in memory asks it to be    *)
(* idle, and a timeline in memory is asked of the session.                 *)
RootOf(s) == IF s \in Sidecar THEN Old ELSE s
Report(s) ==
    IF disk[s] = None \/ disk[RootOf(s)] = None THEN 404
    ELSE IF \E r \in {RootOf(s)} \cup disk[RootOf(s)] :
               active[r] # None /\ session[active[r]].status # "idle"
    THEN 409 ELSE 200
View(c) ==
    /\ call[c].op \in {"records", "timeline", "report"} /\ call[c].at = "begin"
    /\ engine # "down" /\ Unlocked /\ OnlyCall
    /\ Answer(c, LET s == call[c].id IN
                 IF call[c].op = "report" THEN Report(s)
                 ELSE IF disk[s] # None \/ (call[c].op = "timeline" /\ active[s] # None)
                 THEN 200 ELSE 404)

Serve(c) ==
    \/ CreateBegin(c) \/ CreateRegister(c) \/ LoadBegin(c) \/ LoadOpen(c) \/ LoadRegister(c)
    \/ Find(c) \/ Chat(c) \/ Enqueue(c) \/ Join(c) \/ Switch(c) \/ Approve(c)
    \/ CompactBegin(c) \/ CompactShow(c) \/ CompactDone(c) \/ CompactFailed(c)
    \/ CompactAnswer(c) \/ Cancel(c) \/ Close(c) \/ Rename(c) \/ View(c)
    \/ DeleteBegin(c) \/ DeleteClose(c) \/ DeleteRemove(c) \/ Refused(c)

------------------------------------------------------------------------
(* The life of the server (cmd/agent/main.go, engine.go Shutdown).         *)
Stop == engine = "up" /\ used.mix.ends /\ engine' = "stopping"
        /\ UNCHANGED <<disk, born, active, inbox, session, mu, call, stream, used>>

\* Under the lock every root is closed; then all that runs is canceled.
StopClose ==
    /\ engine = "stopping" /\ Unlocked /\ engine' = "stopped"
    /\ LET closed == {active[s] : s \in Root} \ {None} IN
       /\ session' = [h \in Handle |-> IF h \in closed THEN ClosedHandle(h)
                                        ELSE [session[h] EXCEPT !.at = "over"]]
       /\ active' = [s \in Id |-> IF s \in Root THEN None ELSE active[s]]
    /\ inbox' = inbox \ {s \in Root : active[s] # None}
    /\ Release(Handle)
    /\ UNCHANGED <<disk, born, mu, call, used>>

\* The process ends: the server waited for its handlers, at most ten
\* seconds, or it was killed.
Exit ==
    /\ \/ engine = "stopped" /\ UNCHANGED used
       \/ /\ engine # "down" /\ used.mix.ends /\ used.faults < MaxFaults
          /\ used' = [used EXCEPT !.faults = @ + 1]
    /\ engine' = "down" /\ active' = [s \in Id |-> None] /\ inbox' = {}
    /\ session' = [h \in Handle |-> Gone] /\ mu' = None
    /\ call' = [c \in Caller |-> IF call[c].at \in {"none", "answered"} THEN call[c]
                                  ELSE Reply(c, 0)]
    /\ Release(Handle) /\ UNCHANGED <<disk, born>>

Restart ==
    /\ engine = "down" /\ used.faults < MaxFaults
    /\ used' = [used EXCEPT !.faults = @ + 1] /\ engine' = "up"
    /\ UNCHANGED <<disk, born, active, inbox, session, mu, call, stream>>

EngineNext ==
    \/ \E h \in Handle : AgentStep(h)
    \/ \E c \in Client : Ask(c)
    \/ \E c \in Caller : Serve(c)
    \/ Stop \/ StopClose \/ Exit \/ Restart

------------------------------------------------------------------------
\* A session has one writer: no two handles of it have its files open.
OneWriter ==
    \A g, h \in Handle : (session[g].open /\ session[h].open /\ g # h)
                              => session[g].of # session[h].of

\* Once the shutdown is over no session of a person is left open, but one
\* that the request which opened it is about to close.
ShutdownIsFinal ==
    engine = "stopped" =>
        \A h \in Handle : (session[h].open /\ session[h].of \in Root)
                             => \E c \in Caller : call[c].h = h /\ call[c].at = "made"
=======================================================================
