--------------------------- MODULE RegistryProofs ---------------------------
(***************************************************************************)
(* For any number of sessions, sidecars, clients and handles: a session    *)
(* has at most one writer, a shutdown leaves no session open, and a reply  *)
(* which the line client shows is its own turn's, whole.                   *)
(***************************************************************************)
EXTENDS LineClient, FiniteSetTheorems, FunctionTheorems, TLAPS

-----------------------------------------------------------------------------
(* The inductive invariant *)

Status == {"idle", "busy", "waiting", "compacting", "completed", "tombstone"}
Place == {"top", "parked", "turn", "model", "asked", "commit", "folding", "over"}
Session == [of : Id \cup {None}, open : BOOLEAN, status : Status, at : Place,
            again : BOOLEAN, queue : Nat, token : BOOLEAN, drain : BOOLEAN]
Stage == {"none", "begin", "locking", "made", "act", "send", "trigger", "fold", "failed",
          "meta", "close", "remove", "answered"}
Request == [op : Op \cup {"none"}, id : Id \cup {None}, at : Stage,
            h : Handle \cup {None}, rest : SUBSET Id, doomed : Id \cup {None}, code : Nat]

Repl == [at : {"start", "asking", "prompt", "wait", "replied", "over"},
         then : Op \cup {"none", "resume", "fresh", "new", "rm"},
         sid : Id \cup {None}, sess : Id \cup {None},
         saw : BOOLEAN, reply : Nat, lines : Nat]

Used == [requests : Nat, work : Nat, faults : Nat, mix : Mixes]

TypeOK ==
    /\ engine \in {"up", "stopping", "stopped", "down"}
    /\ disk \in [Id -> {None} \cup SUBSET Id]
    /\ born \in SUBSET Id
    /\ active \in [Id -> Handle \cup {None}]
    /\ inbox \in SUBSET Id
    /\ session \in [Handle -> Session]
    /\ call \in [Caller -> Request]
    /\ repl \in Repl
    /\ used \in Used

\* What is told or taken of an open session leaves whose it is, and its work.
LEMMA DrainField ==
    ASSUME NEW r \in Session, NEW flag \in BOOLEAN
    PROVE  LET s == [r EXCEPT !.drain = flag] IN
           /\ s \in Session /\ s.of = r.of /\ s.open = r.open /\ s.at = r.at
           /\ s.queue = r.queue /\ s.again = r.again
  BY SMTT(30) DEF Session

LEMMA TokenField ==
    ASSUME NEW r \in Session, NEW flag \in BOOLEAN
    PROVE  LET s == [r EXCEPT !.token = flag] IN
           /\ s \in Session /\ s.of = r.of /\ s.open = r.open /\ s.at = r.at
           /\ s.queue = r.queue /\ s.again = r.again
  BY SMTT(30) DEF Session

LEMMA ShownFields ==
    ASSUME NEW r \in Session, NEW status \in Status, NEW flag \in BOOLEAN
    PROVE  LET s == [r EXCEPT !.status = status, !.drain = flag] IN
           s \in Session /\ s.of = r.of /\ s.open = r.open
<1> DEFINE s == [r EXCEPT !.status = status, !.drain = flag]
<1>1. s \in Session
  BY ZenonT(60) DEF Session
<1>2. s.of = r.of /\ s.open = r.open
  BY SMTT(30) DEF Session
<1> QED BY <1>1, <1>2

LEMMA AllowField ==
    ASSUME NEW r \in Session, NEW status \in Status
    PROVE  LET s == [r EXCEPT !.at = "commit", !.status = status] IN
           s \in Session /\ s.of = r.of /\ s.open = r.open /\ s.queue = r.queue
<1> DEFINE s == [r EXCEPT !.at = "commit", !.status = status]
<1>0. "commit" \in Place
  BY DEF Place
<1>1. s \in Session
  BY <1>0, ZenonT(60) DEF Session
<1>2. s.of = r.of /\ s.open = r.open /\ s.queue = r.queue
  BY SMTT(30) DEF Session
<1> QED BY <1>1, <1>2

\* A session whose question is cancelled.
Unasked(r, flag, status) == [r EXCEPT !.token = flag, !.again = FALSE, !.at = "commit", !.status = status]

LEMMA CommitFields ==
    ASSUME NEW r \in Session, NEW status \in Status, NEW flag \in BOOLEAN
    PROVE  LET s == Unasked(r, flag, status) IN
           s \in Session /\ s.of = r.of /\ s.open = r.open /\ s.queue = r.queue
<1> DEFINE s == Unasked(r, flag, status)
<1>0. "commit" \in Place
  BY DEF Place
<1>1. s \in Session
  BY <1>0, ZenonT(60) DEF Session, Unasked
<1>2. s.of = r.of /\ s.open = r.open /\ s.queue = r.queue
  BY SMTT(30) DEF Session, Unasked
<1> QED BY <1>1, <1>2

\* What the cancel handler does to the session it finds, if any.
Signals(h) == Become(h, [session[h] EXCEPT !.token = TRUE])
Refuses(h) == \E left \in BOOLEAN : Become(h, Unasked(session[h], left, Moved(h, "busy")))

LEMMA CancelCases ==
    ASSUME NEW c, Cancel(c), NEW h, h = active[call[c].id]
    PROVE  /\ At(c, "cancel", "begin") /\ RestOfSession
           /\ \/ UNCHANGED <<session, stream>> /\ (Answer(c, 404) \/ Answer(c, 409))
              \/ h # None /\ Answer(c, 202) /\ UNCHANGED stream /\ Signals(h)
              \/ h # None /\ Answer(c, 202) /\ session[h].at = "asked" /\ Publish(h, <<"busy">>) /\ Refuses(h)
<1>1. /\ At(c, "cancel", "begin") /\ RestOfSession
      /\ IF h = None THEN Answer(c, 404) /\ UNCHANGED <<session, stream>>
         ELSE IF call[c].id \in Sidecar \/ session[h].status \notin {"busy", "waiting"}
         THEN Answer(c, 409) /\ UNCHANGED <<session, stream>>
         ELSE /\ Answer(c, 202)
              /\ IF session[h].at # "asked" THEN Signals(h) /\ UNCHANGED stream
                 ELSE Refuses(h) /\ Publish(h, <<"busy">>)
  BY DEF Cancel, Signals, Refuses, Unasked
<1>2. CASE h = None
  BY <1>1, <1>2, ZenonT(30)
<1>3. CASE h # None /\ (call[c].id \in Sidecar \/ session[h].status \notin {"busy", "waiting"})
  BY <1>1, <1>3, ZenonT(30)
<1>4. CASE h # None /\ ~(call[c].id \in Sidecar \/ session[h].status \notin {"busy", "waiting"})
  <2>1. Answer(c, 202) /\ IF session[h].at # "asked" THEN Signals(h) /\ UNCHANGED stream
                          ELSE Refuses(h) /\ Publish(h, <<"busy">>)
    BY <1>1, <1>4, ZenonT(30)
  <2>2. CASE session[h].at # "asked"
    <3>1. Signals(h) /\ UNCHANGED stream
      BY <2>1, <2>2, ZenonT(30)
    <3> QED BY <1>1, <1>4, <2>1, <3>1, ZenonT(30)
  <2>3. CASE session[h].at = "asked"
    <3>1. Refuses(h) /\ Publish(h, <<"busy">>)
      BY <2>1, <2>3, ZenonT(30)
    <3> QED BY <1>1, <1>4, <2>1, <2>3, <3>1, ZenonT(30)
  <2> QED BY <2>2, <2>3
<1>5. \/ h = None
      \/ h # None /\ (call[c].id \in Sidecar \/ session[h].status \notin {"busy", "waiting"})
      \/ h # None /\ ~(call[c].id \in Sidecar \/ session[h].status \notin {"busy", "waiting"})
  OBVIOUS
<1> QED BY <1>2, <1>3, <1>4, <1>5, SMTT(30)

\* A request names a session once there is one to name, and one that has
\* opened a session holds it.
Named(r) ==
    /\ r.op \notin {"none", "create"} => r.id \in Id
    /\ r.op = "create" /\ r.at = "answered" /\ r.code = 201 => r.id \in Id
    /\ r.at = "made" => r.op \in {"create", "load"} /\ r.h \in Handle /\ r.id \in Id

\* The line client waits for what it asked, and knows its session by then.
LineKnows ==
    /\ repl.at # "asking" => call[Line].at = "none"
    /\ repl.at = "asking" =>
          /\ repl.then \in {"fresh", "new"} => call[Line].op = "create"
          /\ repl.then \in {"resume", "load"} => call[Line].op = "load"
          /\ repl.then \notin {"fresh", "new"} => call[Line].op \in Op \ {"create"}
    /\ repl.at \in {"prompt", "wait", "replied"} \/ (repl.at = "asking" /\ repl.then \notin {"fresh", "resume"})
          => repl.sid \in Id /\ repl.sess \in Id

Typed == TypeOK /\ (\A c \in Caller : Named(call[c])) /\ LineKnows

Made(c) == call[c].at = "made"
Holds(h, s) == h \in Handle /\ session[h].open /\ session[h].of = s

\* What has a directory was created, so a new session is new.
Saved == \A s \in Id : disk[s] # None => s \in born

\* An open session is registered, and belongs either to the engine or to the
\* request that opened it; no two requests and no two handles share one.
Writers ==
    /\ inbox \subseteq born /\ Saved
    /\ \A h \in Handle : session[h].open => session[h].of \in inbox
    /\ \A s \in Id : active[s] # None => Holds(active[s], s)
    /\ \A c \in Caller : Made(c) => Holds(call[c].h, call[c].id) /\ active[call[c].id] = None
    /\ \A c, d \in Caller : Made(c) /\ Made(d) /\ c # d => call[c].h # call[d].h
    /\ \A h \in Handle : session[h].open =>
          active[session[h].of] = h \/ \E c \in Caller : Made(c) /\ call[c].h = h
    /\ engine = "stopped" => \A s \in Root : active[s] = None
    /\ OneWriter

IInv == Typed /\ Writers

-----------------------------------------------------------------------------
(* Records and requests *)

LEMMA Apart == None \notin Id /\ None \notin Handle /\ Line \notin Client /\ Root \subseteq Id
  BY RegistryAssumption DEF Id

LEMMA GoneType == Gone \in Session /\ ~Gone.open
  BY DEF Gone, Session, Status, Place

LEMMA RestingType == Resting \in Request /\ Named(Resting) /\ Resting.at = "none" /\ Resting.op = "none"
  BY DEF Resting, Request, Named, Stage

LEMMA OpenedType ==
    ASSUME NEW s \in Id
    PROVE  Opened(s) \in Session /\ Opened(s).open /\ Opened(s).of = s
  BY DEF Opened, Gone, Session, Status, Place

LEMMA FreshType ==
    ASSUME FreeHandle # {}
    PROVE  Fresh \in Handle /\ ~session[Fresh].open /\ stream.h # Fresh /\ \A c \in Caller : call[c].h # Fresh
  BY DEF Fresh, FreeHandle, InUse

\* A new request that has not begun to be served.
LEMMA AskedType ==
    ASSUME NEW op \in Op, NEW s \in Id \cup {None}, op # "create" => s \in Id
    PROVE  /\ Asked(op, s) \in Request /\ Named(Asked(op, s))
           /\ Asked(op, s).at = "begin" /\ Asked(op, s).op = op
  BY DEF Asked, Resting, Request, Named, Stage, Op

\* What a request is after it was answered.
LEMMA ReplyType ==
    ASSUME NEW c \in Caller, call[c] \in Request, Named(call[c]), NEW code \in Nat,
           (call[c].op = "create" /\ code = 201) => call[c].id \in Id
    PROVE  /\ Reply(c, code) \in Request /\ Named(Reply(c, code))
           /\ Reply(c, code).at \notin {"made"}
           /\ c = Line => Reply(c, code).op = call[c].op /\ Reply(c, code).at = "answered"
<1>1. CASE c = Line
  <2> DEFINE r == [call[c] EXCEPT !.at = "answered", !.h = None, !.code = code]
  <2>1. Reply(c, code) = r
    BY <1>1 DEF Reply
  <2>2. /\ r \in Request /\ r.at = "answered" /\ r.code = code
        /\ r.op = call[c].op /\ r.id = call[c].id
    BY DEF Request, Stage
  <2> HIDE DEF r
  <2> QED BY <2>1, <2>2 DEF Named
<1>2. CASE c # Line
  BY <1>2, RestingType DEF Reply
<1> QED BY <1>1, <1>2

LEMMA StepType ==
    ASSUME NEW c \in Caller, call[c] \in Request, Named(call[c]), NEW at \in Stage,
           at \notin {"made", "answered"}
    PROVE  LET r == [call[c] EXCEPT !.at = at] IN
           r \in Request /\ Named(r) /\ r.at = at /\ r.op = call[c].op /\ r.h = call[c].h /\ r.id = call[c].id
  BY DEF Request, Named

-----------------------------------------------------------------------------
(* Steps that open and close nothing *)

\* A request under way is replaced by r.
LEMMA CallStep ==
    ASSUME Typed, NEW c \in Caller, NEW r \in Request, Named(r), call[c].at # "none",
           c = Line => r.op = call[c].op,
           call' = [call EXCEPT ![c] = r], UNCHANGED repl
    PROVE  call' \in [Caller -> Request] /\ (\A d \in Caller : Named(call'[d])) /\ LineKnows'
<1>1. call' \in [Caller -> Request] /\ \A d \in Caller : Named(call'[d])
  BY DEF Typed, TypeOK
<1>2. call'[Line].op = call[Line].op /\ (call[Line].at = "none" => call'[Line].at = "none")
  BY DEF Typed, TypeOK, Caller
<1>3. LineKnows'
  BY <1>2 DEF Typed, LineKnows
<1> QED BY <1>1, <1>3

\* No session is opened or closed and no request begins or ceases to hold one.
LEMMA QuietStep ==
    ASSUME Typed, Writers, engine' # "stopped" \/ engine' = engine, UNCHANGED <<active, inbox>>, born \subseteq born', Saved',
           \A h \in Handle : session'[h].of = session[h].of /\ session'[h].open = session[h].open,
           \A c \in Caller : /\ Made(c) <=> (Made(c))'
                             /\ Made(c) => call'[c].h = call[c].h /\ call'[c].id = call[c].id
    PROVE  Writers'
<1>1. (inbox \subseteq born)' /\ Saved'
  BY DEF Writers
<1>2. \A h \in Handle : session'[h].open => session'[h].of \in inbox'
  BY DEF Writers
<1>3. \A s \in Id : active'[s] # None => Holds(active[s], s)'
  BY DEF Writers, Holds
<1>4. \A c \in Caller : (Made(c))' => Holds(call[c].h, call[c].id)' /\ active'[call'[c].id] = None
  BY DEF Writers, Holds
<1>5. \A c, d \in Caller : (Made(c))' /\ (Made(d))' /\ c # d => call'[c].h # call'[d].h
  BY DEF Writers
<1>6. \A h \in Handle : session'[h].open =>
          active'[session'[h].of] = h \/ \E c \in Caller : (Made(c))' /\ call'[c].h = h
  BY DEF Writers
<1>7. engine' = "stopped" => \A s \in Root : active'[s] = None
  BY DEF Writers
<1>8. OneWriter'
  BY DEF Writers, OneWriter
<1> QED BY <1>1, <1>2, <1>3, <1>4, <1>5, <1>6, <1>7, <1>8 DEF Writers

LEMMA SessionStep ==
    ASSUME session \in [Handle -> Session], NEW h, NEW r,
           h \in Handle => r \in Session /\ r.of = session[h].of /\ r.open = session[h].open,
           Become(h, r)
    PROVE  /\ session' \in [Handle -> Session]
           /\ \A g \in Handle : session'[g].of = session[g].of /\ session'[g].open = session[g].open
  BY DEF Become

LEMMA UsedStep ==
    ASSUME TypeOK
    PROVE  /\ [used EXCEPT !.work = @ + 1] \in Used
           /\ [used EXCEPT !.faults = @ + 1] \in Used
           /\ [used EXCEPT !.requests = @ + 1] \in Used
  BY DEF TypeOK, Used

LEMMA ReportedType ==
    ASSUME session \in [Handle -> Session], NEW h \in Handle, NEW status \in Status
    PROVE  Reported(h, status) \in Status /\ Moved(h, status) \in Status
  BY DEF Reported, Moved, Concluded, Session

\* The loop of an agent neither opens nor closes its session.
LEMMA AgentQuiet ==
    ASSUME session \in [Handle -> Session], NEW h \in Handle, AgentStep(h)
    PROVE  /\ session' \in [Handle -> Session]
           /\ \A g \in Handle : session'[g].of = session[g].of /\ session'[g].open = session[g].open
<1> DEFINE same(r) == r \in Session /\ r.of = session[h].of /\ r.open = session[h].open
           quiet == /\ session' \in [Handle -> Session]
                    /\ \A g \in Handle : session'[g].of = session[g].of /\ session'[g].open = session[g].open
<1> SUFFICES quiet
  OBVIOUS
<1>1. ASSUME NEW r, same(r), Become(h, r) PROVE quiet
  BY <1>1, SessionStep
<1>2. session[h] \in Session
  OBVIOUS
<1>3. \A status \in Status : Reported(h, status) \in Status /\ Moved(h, status) \in Status
  BY ReportedType
<1>4. CASE Top(h)
  <2>1. /\ same([session[h] EXCEPT !.queue = IF session[h].drain THEN 0 ELSE @, !.at = "turn"])
        /\ same([session[h] EXCEPT !.at = "parked", !.status = Reported(h, "idle")])
    BY <1>2, <1>3 DEF Session, Place, Status
  <2> HIDE DEF same, quiet
  <2> QED BY <1>1, <1>4, <2>1 DEF Top
<1>5. CASE Wake(h)
  <2>1. ASSUME session[h].queue > 0 PROVE same([session[h] EXCEPT !.queue = @ - 1, !.at = "turn"])
    <3>1. session[h].queue - 1 \in Nat
      BY <1>2, <2>1 DEF Session
    <3> QED BY <1>2, <3>1 DEF Session, Place
  <2> HIDE DEF same, quiet
  <2> QED BY <1>1, <1>5, <2>1 DEF Wake
<1>6. CASE Turn(h)
  <2> DEFINE s == [session[h] EXCEPT !.status = Reported(h, "busy")]
  <2>1. same(s) /\ same([s EXCEPT !.at = "model"])
        /\ same([s EXCEPT !.token = FALSE, !.again = FALSE, !.at = "top"])
    BY <1>2, <1>3 DEF Session, Place, Status
  <2> HIDE DEF same, quiet
  <2> QED BY <1>1, <1>6, <2>1 DEF Turn
<1>7. CASE Speak(h)
  BY <1>7 DEF Speak
<1>8. CASE EndReply(h)
  <2>1. /\ \A kept \in {session[h].token, FALSE} :
              same([session[h] EXCEPT !.token = kept, !.again = FALSE, !.at = "commit"])
        /\ same([session[h] EXCEPT !.token = FALSE, !.again = FALSE, !.at = "top"])
    BY <1>2 DEF Session, Place
  <2> HIDE DEF same, quiet
  <2> QED BY <1>1, <1>8, <2>1 DEF EndReply
<1>9. CASE CallTool(h)
  <2>1. /\ same([session[h] EXCEPT !.again = TRUE, !.at = "commit"])
        /\ same([session[h] EXCEPT !.again = TRUE, !.at = "asked", !.status = Moved(h, "waiting")])
    BY <1>2, <1>3 DEF Session, Place, Status
  <2> HIDE DEF same, quiet
  <2> QED BY <1>1, <1>9, <2>1 DEF CallTool
<1>10. CASE Commit(h)
  <2>1. /\ same([session[h] EXCEPT !.at = "top"])
        /\ same([session[h] EXCEPT !.at = "folding", !.status = Moved(h, "compacting")])
        /\ same([session[h] EXCEPT !.at = "over", !.status = Moved(h, "tombstone")])
    BY <1>2, <1>3 DEF Session, Place, Status
  <2> HIDE DEF same, quiet
  <2> QED BY <1>1, <1>10, <2>1 DEF Commit
<1>11. CASE Fold(h)
  <2>1. \A failed \in BOOLEAN :
            same([session[h] EXCEPT !.at = "top", !.status = Moved(h, "idle"),
                                    !.again = IF failed THEN FALSE ELSE @])
    BY <1>2, <1>3, ZenonT(30) DEF Session, Place, Status
  <2> HIDE DEF same, quiet
  <2> QED BY <1>1, <1>11, <2>1 DEF Fold
<1> QED BY <1>4, <1>5, <1>6, <1>7, <1>8, <1>9, <1>10, <1>11 DEF AgentStep

LEMMA AgentSteps ==
    ASSUME IInv, NEW h \in Handle, AgentStep(h), UNCHANGED repl
    PROVE  IInv'
<1>1. AgentOnly
  BY DEF AgentStep, Top, Wake, Turn, Speak, EndReply, CallTool, Commit, Fold, Works
<1>2. used' \in Used
  <2>1. used' = used \/ used' = [used EXCEPT !.work = @ + 1] \/ used' = [used EXCEPT !.faults = @ + 1]
    BY DEF AgentStep, Top, Wake, Turn, Speak, EndReply, CallTool, Commit, Fold, Working
  <2> QED BY <2>1, UsedStep DEF IInv, Typed, TypeOK
<1>3. /\ session' \in [Handle -> Session]
      /\ \A g \in Handle : session'[g].of = session[g].of /\ session'[g].open = session[g].open
  BY AgentQuiet DEF IInv, Typed, TypeOK
<1>4. Typed'
  BY <1>1, <1>2, <1>3 DEF IInv, Typed, TypeOK, AgentOnly, LineKnows, Named
<1>5. Writers'
  <2>1. Saved'
    BY <1>1 DEF IInv, Writers, Saved, AgentOnly
  <2> QED BY <1>1, <1>3, <2>1, QuietStep DEF IInv, AgentOnly, Made
<1> QED BY <1>4, <1>5 DEF IInv

-----------------------------------------------------------------------------
(* Requests that open and close nothing *)

\* Nothing but the request itself, the state within a session, directories
\* and counters change.
Quiet ==
    /\ UNCHANGED <<engine, active, inbox, repl>>
    /\ born \subseteq born' /\ born' \in SUBSET Id
    /\ disk' \in [Id -> {None} \cup SUBSET Id] /\ Saved'
    /\ used' \in Used
    /\ session' \in [Handle -> Session]
    /\ \A g \in Handle : session'[g].of = session[g].of /\ session'[g].open = session[g].open

LEMMA RequestQuiet ==
    ASSUME IInv, NEW c \in Caller, NEW r \in Request, Named(r), r.at # "made",
           call[c].at \notin {"none", "made"}, c = Line => r.op = call[c].op,
           call' = [call EXCEPT ![c] = r], Quiet
    PROVE  IInv'
<1>1. call' \in [Caller -> Request] /\ (\A d \in Caller : Named(call'[d])) /\ LineKnows'
  BY CallStep DEF IInv, Quiet
<1>2. Typed'
  <2>1. TypeOK'
    BY <1>1 DEF IInv, Typed, TypeOK, Quiet
  <2>2. (\A d \in Caller : Named(call[d]))'
    BY <1>1 DEF Named
  <2> QED BY <1>1, <2>1, <2>2 DEF Typed
<1>3. \A d \in Caller : /\ Made(d) <=> (Made(d))'
                        /\ Made(d) => call'[d].h = call[d].h /\ call'[d].id = call[d].id
  BY DEF IInv, Typed, TypeOK, Made
<1>4. Writers'
  BY <1>3, QuietStep DEF IInv, Quiet
<1> QED BY <1>2, <1>4 DEF IInv

LEMMA AnswerQuiet ==
    ASSUME IInv, NEW c \in Caller, NEW code \in Nat, call[c].at \notin {"none", "made"},
           call[c].op = "create" => code # 201, Answer(c, code), Quiet
    PROVE  IInv'
<1>1. call[c] \in Request /\ Named(call[c])
  BY DEF IInv, Typed, TypeOK
<1>2. /\ Reply(c, code) \in Request /\ Named(Reply(c, code)) /\ Reply(c, code).at # "made"
      /\ c = Line => Reply(c, code).op = call[c].op
  BY <1>1, ReplyType
<1> QED BY <1>2, RequestQuiet DEF Answer, GoTo

LEMMA StepQuiet ==
    ASSUME IInv, NEW c \in Caller, NEW at \in Stage \ {"made", "answered"},
           call[c].at \notin {"none", "made"}, Step(c, at), Quiet
    PROVE  IInv'
<1> DEFINE r == [call[c] EXCEPT !.at = at]
<1>1. call[c] \in Request /\ Named(call[c])
  BY DEF IInv, Typed, TypeOK
<1>2. r \in Request /\ Named(r) /\ r.at # "made" /\ r.op = call[c].op
  BY <1>1, StepType
<1>3. call' = [call EXCEPT ![c] = r]
  BY DEF Step, GoTo
<1> HIDE DEF r
<1> QED BY <1>2, <1>3, RequestQuiet

LEMMA Untouched ==
    ASSUME IInv, UNCHANGED <<engine, active, inbox, repl, born, disk, used, session>>
    PROVE  Quiet
  BY DEF IInv, Typed, TypeOK, Writers, Saved, Quiet

LEMMA Touched ==
    ASSUME IInv, UNCHANGED <<engine, active, inbox, repl, born, disk, used>>, NEW h, NEW r,
           h \in Handle => r \in Session /\ r.of = session[h].of /\ r.open = session[h].open,
           Become(h, r)
    PROVE  Quiet
<1>1. /\ session' \in [Handle -> Session]
      /\ \A g \in Handle : session'[g].of = session[g].of /\ session'[g].open = session[g].open
  BY SessionStep DEF IInv, Typed, TypeOK
<1> QED BY <1>1 DEF IInv, Typed, TypeOK, Writers, Saved, Quiet

\* Requests that act on an open session or on none leave every session as open
\* as it was and whose it was.
LEMMA QuietRequests ==
    ASSUME IInv, NEW c \in Caller, UNCHANGED repl,
           \/ LoadBegin(c) \/ Find(c) \/ Chat(c) \/ Enqueue(c) \/ Join(c) \/ Switch(c)
           \/ Approve(c) \/ CompactBegin(c) \/ CompactShow(c) \/ CompactDone(c)
           \/ CompactFailed(c) \/ CompactAnswer(c) \/ Cancel(c) \/ Rename(c) \/ View(c)
           \/ DeleteBegin(c) \/ DeleteRemove(c) \/ Refused(c)
    PROVE  IInv'
<1>1. /\ session \in [Handle -> Session] /\ call[c] \in Request /\ Named(call[c])
      /\ active \in [Id -> Handle \cup {None}] /\ disk \in [Id -> {None} \cup SUBSET Id]
  BY DEF IInv, Typed, TypeOK
<1>2. CASE LoadBegin(c)
  BY <1>2, Untouched, AnswerQuiet, StepQuiet DEF LoadBegin, OnlyCall, At, Stage
<1>3. CASE Find(c)
  <2>1. Quiet /\ call[c].at = "begin" /\ call[c].op \notin {"none", "create"}
    BY <1>3, Untouched DEF Find, OnlyCall, ByHandle, Stops
  <2>2. ASSUME NEW code \in {503, 404}, Answer(c, code) PROVE IInv'
    BY <2>1, <2>2, AnswerQuiet
  <2>3. ASSUME GoTo(c, [call[c] EXCEPT !.h = active[call[c].id], !.at = "act"]) PROVE IInv'
    <3> DEFINE r == [call[c] EXCEPT !.h = active[call[c].id], !.at = "act"]
    <3>1. active[call[c].id] \in Handle \cup {None}
      BY <1>1, <2>1 DEF Named
    <3>2. r \in Request /\ r.at = "act" /\ r.op = call[c].op /\ r.id = call[c].id
      BY <1>1, <3>1 DEF Request, Stage
    <3>3. call' = [call EXCEPT ![c] = r]
      BY <2>3 DEF GoTo
    <3> HIDE DEF r
    <3>4. Named(r)
      BY <1>1, <2>1, <3>2 DEF Named
    <3> QED BY <2>1, <3>2, <3>3, <3>4, RequestQuiet
  <2> QED BY <1>3, <2>2, <2>3 DEF Find
<1>4. CASE Chat(c)
  BY <1>4, Untouched, AnswerQuiet, StepQuiet DEF Chat, Found, OnlyCall, At, Stage
<1>5. CASE Enqueue(c)
  <2>1. Quiet
    <3>1. call[c].h \in Handle => session[call[c].h].queue + 1 \in Nat
      BY <1>1 DEF Session
    <3>2. CASE call[c].h \in Handle
      <4>1. LET r == [Its(c) EXCEPT !.queue = session[call[c].h].queue + 1] IN
            r \in Session /\ r.of = session[call[c].h].of /\ r.open = session[call[c].h].open
        BY <1>1, <3>1, <3>2 DEF Its, Session
      <4> QED BY <1>5, <4>1, Touched DEF Enqueue, RestOfSession, Its
    <3>3. CASE call[c].h \notin Handle
      BY <1>5, <3>3, Touched DEF Enqueue, RestOfSession
    <3> QED BY <3>2, <3>3
  <2> QED BY <1>5, <2>1, AnswerQuiet DEF Enqueue, At
<1>6. CASE Join(c)
  BY <1>6, Untouched, AnswerQuiet DEF Join, Found, RestOfSession, At
<1>7. CASE Switch(c)
  BY <1>7, Untouched, AnswerQuiet DEF Switch, Found, OnlyCall, At
<1>8. CASE Approve(c)
  <2>1. ASSUME Become(call[c].h, [Its(c) EXCEPT !.at = "commit", !.status = Moved(call[c].h, "busy")])
        PROVE  Quiet
    <3>1. call[c].h \in Handle => Moved(call[c].h, "busy") \in Status
      BY <1>1, ReportedType DEF Status
    <3>2. ASSUME call[c].h \in Handle
          PROVE  LET r == [Its(c) EXCEPT !.at = "commit", !.status = Moved(call[c].h, "busy")] IN
                 r \in Session /\ r.of = session[call[c].h].of /\ r.open = session[call[c].h].open
      <4>1. Its(c) \in Session /\ Its(c) = session[call[c].h]
        BY <1>1, <3>2 DEF Its
      <4> HIDE DEF Its
      <4>2. Moved(call[c].h, "busy") \in Status
        BY <3>1, <3>2
      <4> QED BY <4>1, <4>2 DEF Session, Place
    <3> QED BY <1>8, <2>1, <3>2, Touched DEF Approve, RestOfSession
  <2>2. Quiet
    BY <1>8, <2>1, Untouched DEF Approve, RestOfSession
  <2> QED BY <1>8, <2>2, AnswerQuiet DEF Approve, Found, At
<1>9. CASE CompactBegin(c)
  <2>1. ASSUME Become(call[c].h, [Its(c) EXCEPT !.drain = FALSE]) PROVE Quiet
    <3>1. ASSUME call[c].h \in Handle
          PROVE  LET r == [Its(c) EXCEPT !.drain = FALSE] IN
                 r \in Session /\ r.of = session[call[c].h].of /\ r.open = session[call[c].h].open
      <4>1. Its(c) \in Session /\ Its(c) = session[call[c].h]
        BY <1>1, <3>1 DEF Its
      <4> QED BY <4>1, DrainField
    <3> QED BY <1>9, <2>1, <3>1, Touched DEF CompactBegin, RestOfSession
  <2>2. Quiet
    BY <1>9, <2>1, Untouched DEF CompactBegin, RestOfSession
  <2> QED BY <1>9, <2>2, AnswerQuiet, StepQuiet DEF CompactBegin, Found, At, Stage
<1>10. ASSUME NEW at \in {"trigger", "fold"}, NEW next \in {"fold", "meta", "failed"},
              NEW status \in {"compacting", "idle"}, Compacting(c, at, next, status)
       PROVE  IInv'
  <2>1. ASSUME Become(call[c].h, [Its(c) EXCEPT !.status = Moved(call[c].h, status), !.drain = next # "fold"])
        PROVE  Quiet
    <3>1. call[c].h \in Handle => Moved(call[c].h, status) \in Status
      BY <1>1, ReportedType DEF Status
    <3>2. ASSUME call[c].h \in Handle
          PROVE  LET r == [Its(c) EXCEPT !.status = Moved(call[c].h, status), !.drain = next # "fold"] IN
                 r \in Session /\ r.of = session[call[c].h].of /\ r.open = session[call[c].h].open
      <4>1. Its(c) \in Session /\ Its(c) = session[call[c].h]
        BY <1>1, <3>2 DEF Its
      <4> DEFINE flag == next # "fold"
                 new == Moved(call[c].h, status)
      <4>2. new \in Status /\ flag \in BOOLEAN
        BY <3>1, <3>2
      <4> HIDE DEF flag, new
      <4>3. LET r == [Its(c) EXCEPT !.status = new, !.drain = flag] IN
            r \in Session /\ r.of = Its(c).of /\ r.open = Its(c).open
        BY <4>1, <4>2, ShownFields
      <4> QED BY <4>1, <4>3 DEF flag, new
    <3> QED BY <1>10, <2>1, <3>2, Touched DEF Compacting, RestOfSession
  <2>2. Quiet
    BY <1>10, <2>1, Untouched DEF Compacting, RestOfSession
  <2> QED BY <1>10, <2>2, StepQuiet DEF Compacting, At, Stage
<1>11. CASE CompactShow(c) \/ CompactDone(c) \/ CompactFailed(c)
  BY <1>10, <1>11 DEF CompactShow, CompactDone, CompactFailed
<1>12. CASE CompactAnswer(c)
  BY <1>12, Untouched, AnswerQuiet DEF CompactAnswer, OnlyCall, At
<1>13. CASE Cancel(c)
  <2> DEFINE h == active[call[c].id]
  <2>0. UNCHANGED <<engine, active, inbox, repl, born, disk, used>>
    BY <1>13, CancelCases DEF RestOfSession
  <2>1. ASSUME Signals(h) PROVE Quiet
    <3> HIDE DEF h
    <3>1. LET r == [session[h] EXCEPT !.token = TRUE] IN
          h \in Handle => r \in Session /\ r.of = session[h].of /\ r.open = session[h].open
      BY <1>1, TokenField
    <3> QED BY <2>0, <2>1, <3>1, Touched DEF Signals
  <2>2. ASSUME Refuses(h) PROVE Quiet
    <3>1. h \in Handle => Moved(h, "busy") \in Status
      BY <1>1, ReportedType DEF Status
    <3> HIDE DEF h
    <3>2. PICK left \in BOOLEAN : Become(h, Unasked(session[h], left, Moved(h, "busy")))
      BY <2>2 DEF Refuses
    <3>3. ASSUME h \in Handle
          PROVE  LET r == Unasked(session[h], left, Moved(h, "busy")) IN
                 r \in Session /\ r.of = session[h].of /\ r.open = session[h].open
      <4>1. session[h] \in Session /\ Moved(h, "busy") \in Status
        BY <1>1, <3>1, <3>3
      <4> QED BY <3>2, <4>1, CommitFields
    <3> QED BY <2>0, <3>2, <3>3, Touched
  <2>3. Quiet
    BY <1>13, <2>0, <2>1, <2>2, CancelCases, Untouched
  <2>4. call[c].at = "begin" /\ call[c].op = "cancel" /\ \E code \in {404, 409, 202} : Answer(c, code)
    <3>1. call[c].at = "begin" /\ call[c].op = "cancel"
      BY <1>13 DEF Cancel, At
    <3>2. Answer(c, 404) \/ Answer(c, 409) \/ Answer(c, 202)
      BY <1>13, CancelCases
    <3> HIDE DEF h
    <3>3. CASE Answer(c, 404)
      BY <3>1, <3>3
    <3>4. CASE Answer(c, 409)
      BY <3>1, <3>4
    <3>5. CASE Answer(c, 202)
      BY <3>1, <3>5
    <3> QED BY <3>2, <3>3, <3>4, <3>5, SMTT(30)
  <2> QED BY <2>3, <2>4, AnswerQuiet
<1>14. CASE Rename(c)
  BY <1>14, Untouched, AnswerQuiet DEF Rename, OnlyCall, At
<1>15. CASE View(c)
  <2>1. Quiet
    BY <1>15, Untouched DEF View, OnlyCall
  <2>2. \E code \in {200, 404, 409} : Answer(c, code)
    BY <1>15 DEF View, Report
  <2> QED BY <1>15, <2>1, <2>2, AnswerQuiet DEF View
<1>16. CASE DeleteBegin(c)
  <2>1. Quiet /\ call[c].at = "begin" /\ call[c].op = "delete"
    BY <1>16, Untouched DEF DeleteBegin, OnlyCall, At
  <2>2. ASSUME disk[call[c].id] # None, GoTo(c, [call[c] EXCEPT !.rest = disk[call[c].id], !.at = "close"])
        PROVE  IInv'
    <3> DEFINE r == [call[c] EXCEPT !.rest = disk[call[c].id], !.at = "close"]
    <3>1. disk[call[c].id] \in SUBSET Id
      BY <1>1, <2>1, <2>2 DEF Named
    <3>2. r \in Request /\ r.at = "close" /\ r.op = call[c].op /\ r.id = call[c].id
      BY <1>1, <3>1 DEF Request, Stage
    <3>3. call' = [call EXCEPT ![c] = r]
      BY <2>2 DEF GoTo
    <3> HIDE DEF r
    <3>4. Named(r)
      BY <1>1, <2>1, <3>2 DEF Named
    <3> QED BY <2>1, <3>2, <3>3, <3>4, RequestQuiet
  <2> QED BY <1>16, <2>1, <2>2, AnswerQuiet DEF DeleteBegin
<1>17. CASE DeleteRemove(c)
  <2>1. call[c].at = "remove" /\ call[c].op = "delete"
    BY <1>17 DEF DeleteRemove, At
  <2>2. /\ disk' \in [Id -> {None} \cup SUBSET Id] /\ Saved'
        /\ used' \in Used
    <3>1. used' = used \/ used' = [used EXCEPT !.faults = @ + 1]
      BY <1>17 DEF DeleteRemove
    <3>2. UNCHANGED born /\ (disk' = disk \/ disk' = [disk EXCEPT ![call[c].doomed] = None])
      BY <1>17 DEF DeleteRemove
    <3> QED BY <1>1, <3>1, <3>2, UsedStep DEF IInv, Typed, TypeOK, Writers, Saved
  <2>3. Quiet
    BY <1>17, <2>2 DEF DeleteRemove, Quiet, IInv, Typed, TypeOK
  <2>4. ASSUME GoTo(c, [call[c] EXCEPT !.rest = @ \ {call[c].doomed}, !.doomed = None, !.at = "close"])
        PROVE  IInv'
    <3> DEFINE r == [call[c] EXCEPT !.rest = @ \ {call[c].doomed}, !.doomed = None, !.at = "close"]
    <3>1. r \in Request /\ r.at = "close" /\ r.op = call[c].op /\ r.id = call[c].id
      BY <1>1 DEF Request, Stage
    <3>2. call' = [call EXCEPT ![c] = r]
      BY <2>4 DEF GoTo
    <3> HIDE DEF r
    <3>3. Named(r)
      BY <1>1, <2>1, <3>1 DEF Named
    <3> QED BY <2>1, <2>3, <3>1, <3>2, <3>3, RequestQuiet
  <2> QED BY <1>17, <2>1, <2>3, <2>4, AnswerQuiet DEF DeleteRemove
<1>18. CASE Refused(c)
  BY <1>18, Untouched, AnswerQuiet DEF Refused, OnlyCall, At
<1> QED BY <1>2, <1>3, <1>4, <1>5, <1>6, <1>7, <1>8, <1>9, <1>11, <1>12, <1>13, <1>14, <1>15,
           <1>16, <1>17, <1>18

-----------------------------------------------------------------------------
(* Requests that open, register and close *)

\* A request opens a session that nobody has open, and holds it.
LEMMA OpenStep ==
    ASSUME IInv, NEW c \in Caller, NEW s \in Id, s \notin inbox, FreeHandle # {},
           NEW r \in Request, r.id = s, r.h = Fresh, r.at = "made", r.op = call[c].op,
           r.op \in {"create", "load"}, call[c].at \notin {"none", "made"},
           call' = [call EXCEPT ![c] = r],
           session' = [session EXCEPT ![Fresh] = Opened(s)], inbox' = inbox \cup {s},
           born \subseteq born', s \in born', born' \in SUBSET Id,
           disk' \in [Id -> {None} \cup SUBSET Id], Saved',
           UNCHANGED <<engine, active, used, repl>>
    PROVE  IInv'
<1>1. Fresh \in Handle /\ ~session[Fresh].open /\ \A d \in Caller : call[d].h # Fresh
  BY FreshType
<1>2. /\ Opened(s) \in Session /\ Opened(s).open /\ Opened(s).of = s
      /\ session \in [Handle -> Session] /\ call \in [Caller -> Request]
      /\ active \in [Id -> Handle \cup {None}]
  BY OpenedType DEF IInv, Typed, TypeOK
<1>3. Named(r)
  BY <1>1 DEF Named
<1>4. call' \in [Caller -> Request] /\ (\A d \in Caller : Named(call'[d])) /\ LineKnows'
  BY <1>3, CallStep DEF IInv
<1>5. Typed'
  <2>1. TypeOK'
    BY <1>1, <1>2, <1>4 DEF IInv, Typed, TypeOK
  <2>2. (\A d \in Caller : Named(call[d]))'
    BY <1>4 DEF Named
  <2> QED BY <1>4, <2>1, <2>2 DEF Typed
<1> DEFINE f == Fresh
<1> HIDE DEF f
<1>6. /\ session' \in [Handle -> Session] /\ session'[f] = Opened(s)
      /\ \A h \in Handle : h # f => session'[h] = session[h]
      /\ call'[c] = r /\ \A d \in Caller : d # c => call'[d] = call[d]
      /\ f \in Handle /\ ~session[f].open /\ \A d \in Caller : call[d].h # f
  BY <1>1, <1>2 DEF f
<1>7. \A h \in Handle : session[h].open => session[h].of # s /\ h # f
  BY <1>6 DEF IInv, Writers
<1>8. \A d \in Caller : Made(d) => d # c
  BY DEF Made
<1>9. \A d \in Caller : (Made(d))' <=> Made(d) \/ d = c
  BY <1>6 DEF Made
<1>10. active[s] = None
  BY <1>7 DEF IInv, Writers, Holds
<1>11. \A h \in Handle : session'[h].open <=> session[h].open \/ h = f
  BY <1>2, <1>6
<1>12. (inbox \subseteq born /\ Saved)'
  BY DEF IInv, Writers
<1>13. \A h \in Handle : session'[h].open => session'[h].of \in inbox'
  BY <1>2, <1>6, <1>11 DEF IInv, Writers
<1>14. \A t \in Id : active'[t] # None => Holds(active[t], t)'
  BY <1>6, <1>7 DEF IInv, Writers, Holds
<1>15. \A d \in Caller : (Made(d))' => Holds(call[d].h, call[d].id)' /\ active'[call'[d].id] = None
  BY <1>2, <1>6, <1>7, <1>9, <1>10 DEF IInv, Writers, Holds, f
<1>16. \A d, e \in Caller : (Made(d))' /\ (Made(e))' /\ d # e => call'[d].h # call'[e].h
  BY <1>6, <1>9 DEF IInv, Writers, f
<1>17. \A h \in Handle : session'[h].open =>
          active'[session'[h].of] = h \/ \E d \in Caller : (Made(d))' /\ call'[d].h = h
  <2>1. ASSUME NEW h \in Handle, session'[h].open, h # f
        PROVE  active'[session'[h].of] = h \/ \E d \in Caller : (Made(d))' /\ call'[d].h = h
    BY <1>6, <1>8, <1>9, <1>11, <2>1 DEF IInv, Writers
  <2>2. call'[c].h = f /\ (Made(c))'
    BY <1>6, <1>9 DEF f
  <2> QED BY <2>1, <2>2
<1>18. engine' = "stopped" => \A t \in Root : active'[t] = None
  BY DEF IInv, Writers
<1>19. OneWriter'
  BY <1>2, <1>6, <1>7, <1>11 DEF IInv, Writers, OneWriter
<1> QED BY <1>5, <1>12, <1>13, <1>14, <1>15, <1>16, <1>17, <1>18, <1>19 DEF IInv, Writers

\* What a request opened becomes the engine's.
LEMMA RegisterStep ==
    ASSUME IInv, NEW c \in Caller, Made(c), engine = "up",
           NEW r \in Request, Named(r), r.at # "made", c = Line => r.op = call[c].op,
           call' = [call EXCEPT ![c] = r],
           active' = [active EXCEPT ![call[c].id] = call[c].h],
           UNCHANGED <<engine, disk, born, inbox, session, used, repl>>
    PROVE  IInv'
<1> DEFINE s == call[c].id
           f == call[c].h
<1>1. /\ session \in [Handle -> Session] /\ call \in [Caller -> Request]
      /\ active \in [Id -> Handle \cup {None}]
      /\ s \in Id /\ f \in Handle /\ session[f].open /\ session[f].of = s /\ active[s] = None
  BY DEF IInv, Typed, TypeOK, Writers, Named, Made, Holds
<1>2. Typed'
  <2>1. call' \in [Caller -> Request] /\ (\A d \in Caller : Named(call'[d])) /\ LineKnows'
    BY CallStep DEF IInv, Made
  <2>2. TypeOK'
    BY <1>1, <2>1 DEF IInv, Typed, TypeOK
  <2>3. (\A d \in Caller : Named(call[d]))'
    BY <2>1 DEF Named
  <2> QED BY <2>1, <2>2, <2>3 DEF Typed
<1>3. /\ active'[s] = f /\ \A t \in Id : t # s => active'[t] = active[t]
      /\ \A d \in Caller : d # c => call'[d] = call[d]
      /\ \A d \in Caller : (Made(d))' <=> Made(d) /\ d # c
  BY <1>1 DEF Made
<1>4. \A d \in Caller : Made(d) /\ d # c => call[d].id # s
  BY <1>1 DEF IInv, Writers, Holds, OneWriter
<1> HIDE DEF s, f
<1>5. \A t \in Id : active'[t] # None => Holds(active[t], t)'
  BY <1>1, <1>3 DEF IInv, Writers, Holds
<1>6. \A d \in Caller : (Made(d))' => Holds(call[d].h, call[d].id)' /\ active'[call'[d].id] = None
  <2> SUFFICES ASSUME NEW d \in Caller, Made(d), d # c
               PROVE  Holds(call[d].h, call[d].id)' /\ active'[call'[d].id] = None
    BY <1>3
  <2>1. call'[d] = call[d] /\ call[d].id # s /\ call[d].id \in Id
    BY <1>3, <1>4 DEF IInv, Typed, Named, Made
  <2> QED BY <1>3, <2>1 DEF IInv, Writers, Holds
<1>7. \A d, e \in Caller : (Made(d))' /\ (Made(e))' /\ d # e => call'[d].h # call'[e].h
  BY <1>3 DEF IInv, Writers
<1>8. \A h \in Handle : session'[h].open =>
          active'[session'[h].of] = h \/ \E d \in Caller : (Made(d))' /\ call'[d].h = h
  <2> SUFFICES ASSUME NEW h \in Handle, session[h].open
               PROVE  active'[session[h].of] = h \/ \E d \in Caller : (Made(d))' /\ call'[d].h = h
    OBVIOUS
  <2>1. CASE h = f
    BY <1>1, <1>3, <2>1
  <2>2. CASE h # f
    <3>1. session[h].of # s /\ session[h].of \in Id
      BY <1>1, <2>2 DEF IInv, Typed, TypeOK, Writers, OneWriter
    <3>2. active[session[h].of] = h \/ \E d \in Caller : Made(d) /\ call[d].h = h
      BY DEF IInv, Writers
    <3>3. call[c].h # h
      BY <2>2 DEF f
    <3> QED BY <1>3, <3>1, <3>2, <3>3
  <2> QED BY <2>1, <2>2
<1>9. (inbox \subseteq born /\ Saved)' /\ OneWriter' /\ \A h \in Handle : session'[h].open => session'[h].of \in inbox'
  BY DEF IInv, Writers, Saved, OneWriter
<1>10. (engine = "stopped" => \A t \in Root : active[t] = None)'
  OBVIOUS
<1> QED BY <1>2, <1>5, <1>6, <1>7, <1>8, <1>9, <1>10 DEF IInv, Writers

\* The engine closes what it holds of the sessions of S.
LEMMA CloseStep ==
    ASSUME IInv, Typed', NEW S \in SUBSET Id,
           \A h \in Handle : IF \E s \in S : active[s] = h THEN ~session'[h].open
                             ELSE session'[h].open = session[h].open /\ session'[h].of = session[h].of,
           active' = [s \in Id |-> IF s \in S THEN None ELSE active[s]],
           inbox' = inbox \ {s \in S : active[s] # None},
           \A d \in Caller : /\ Made(d) <=> (Made(d))'
                             /\ Made(d) => call'[d].h = call[d].h /\ call'[d].id = call[d].id,
           born' = born, Saved', engine' = "stopped" => engine = "stopped" \/ Root \subseteq S
    PROVE  Writers'
<1>1. /\ active \in [Id -> Handle \cup {None}] /\ session \in [Handle -> Session]
      /\ \A d \in Caller : Made(d) => call[d].h \in Handle /\ call[d].id \in Id
  BY DEF IInv, Typed, TypeOK, Named, Made
<1>2. \A h \in Handle : session'[h].open =>
          session[h].open /\ session'[h].of = session[h].of /\ \A s \in S : active[s] # h
  OBVIOUS
<1>3. \A h \in Handle : session[h].open /\ (\A s \in S : active[s] # h) =>
          session'[h].open /\ session'[h].of = session[h].of
  OBVIOUS
<1>4. \A s \in Id : active'[s] # None => s \notin S /\ active'[s] = active[s]
  OBVIOUS
<1>5. (inbox \subseteq born /\ Saved)'
  BY DEF IInv, Writers
<1>6. \A h \in Handle : session'[h].open => session'[h].of \in inbox'
  <2> SUFFICES ASSUME NEW h \in Handle, session'[h].open
               PROVE  session'[h].of \in inbox'
    OBVIOUS
  <2>1. session[h].open /\ session'[h].of = session[h].of /\ session[h].of \in inbox
    BY <1>2 DEF IInv, Writers
  <2>2. \A s \in S : active[s] # None => s # session[h].of
    BY <1>2, <2>1 DEF IInv, Writers, Holds, OneWriter
  <2> QED BY <2>1, <2>2
<1>7. \A s \in Id : active'[s] # None => Holds(active[s], s)'
  <2> SUFFICES ASSUME NEW s \in Id, active'[s] # None
               PROVE  Holds(active[s], s)'
    OBVIOUS
  <2>1. s \notin S /\ active'[s] = active[s] /\ Holds(active[s], s)
    BY <1>4 DEF IInv, Writers
  <2>2. \A t \in S : active[t] # active[s]
    BY <2>1 DEF IInv, Writers, Holds
  <2> QED BY <1>3, <2>1, <2>2 DEF Holds
<1>8. \A d \in Caller : (Made(d))' => Holds(call[d].h, call[d].id)' /\ active'[call'[d].id] = None
  <2> SUFFICES ASSUME NEW d \in Caller, Made(d)
               PROVE  Holds(call[d].h, call[d].id)' /\ active'[call[d].id] = None
    OBVIOUS
  <2>1. Holds(call[d].h, call[d].id) /\ active[call[d].id] = None /\ call[d].h \in Handle /\ call[d].id \in Id
    BY <1>1 DEF IInv, Writers
  <2>2. \A t \in S : active[t] # call[d].h
    BY <2>1, Apart DEF IInv, Writers, Holds
  <2> QED BY <1>3, <2>1, <2>2 DEF Holds
<1>9. \A d, e \in Caller : (Made(d))' /\ (Made(e))' /\ d # e => call'[d].h # call'[e].h
  BY DEF IInv, Writers
<1>10. \A h \in Handle : session'[h].open =>
          active'[session'[h].of] = h \/ \E d \in Caller : (Made(d))' /\ call'[d].h = h
  <2> SUFFICES ASSUME NEW h \in Handle, session'[h].open
               PROVE  active'[session[h].of] = h \/ \E d \in Caller : (Made(d))' /\ call'[d].h = h
    BY <1>2
  <2>1. session[h].open /\ session[h].of \in Id /\ \A s \in S : active[s] # h
    BY <1>2 DEF IInv, Typed, TypeOK, Writers
  <2>2. active[session[h].of] = h \/ \E d \in Caller : Made(d) /\ call[d].h = h
    BY <2>1 DEF IInv, Writers
  <2> QED BY <2>1, <2>2
<1>11. engine' = "stopped" => \A s \in Root : active'[s] = None
  BY Apart DEF IInv, Writers
<1>12. OneWriter'
  BY <1>2 DEF IInv, Writers, OneWriter
<1> QED BY <1>5, <1>6, <1>7, <1>8, <1>9, <1>10, <1>11, <1>12 DEF Writers

\* A request closes what it opened: the engine stopped meanwhile.
LEMMA WithdrawStep ==
    ASSUME IInv, NEW c \in Caller, Made(c), NEW code \in {500, 503}, Answer(c, code),
           Become(call[c].h, Gone), inbox' = inbox \ {call[c].id},
           disk' \in [Id -> {None} \cup SUBSET Id], Saved',
           UNCHANGED <<engine, born, active, used, repl>>
    PROVE  IInv'
<1>0. PICK r \in Request :
         /\ Named(r) /\ r.at # "made" /\ (c = Line => r.op = call[c].op)
         /\ call' = [call EXCEPT ![c] = r] /\ session' = [session EXCEPT ![call[c].h] = Gone]
  <2>1. call[c] \in Request /\ Named(call[c])
    BY DEF IInv, Typed, TypeOK
  <2>2. /\ Reply(c, code) \in Request /\ Named(Reply(c, code)) /\ Reply(c, code).at # "made"
        /\ c = Line => Reply(c, code).op = call[c].op
    BY <2>1, ReplyType
  <2> QED BY <2>2, ZenonT(60) DEF Answer, GoTo, Become
<1> DEFINE s == call[c].id
           f == call[c].h
<1>1. /\ session \in [Handle -> Session] /\ call \in [Caller -> Request]
      /\ s \in Id /\ f \in Handle /\ session[f].open /\ session[f].of = s /\ active[s] = None
      /\ Gone \in Session /\ ~Gone.open
  BY GoneType DEF IInv, Typed, TypeOK, Writers, Named, Made, Holds
<1>2. Typed'
  <2>1. call' \in [Caller -> Request] /\ (\A d \in Caller : Named(call'[d])) /\ LineKnows'
    BY <1>0, CallStep, ZenonT(60) DEF IInv, Made
  <2>2. TypeOK'
    BY <1>0, <1>1, <2>1 DEF IInv, Typed, TypeOK
  <2>3. (\A d \in Caller : Named(call[d]))'
    BY <2>1 DEF Named
  <2> QED BY <2>1, <2>2, <2>3 DEF Typed
<1>3. /\ ~session'[f].open /\ \A h \in Handle : h # f => session'[h] = session[h]
      /\ \A d \in Caller : d # c => call'[d] = call[d]
      /\ \A d \in Caller : (Made(d))' <=> Made(d) /\ d # c
      /\ inbox' = inbox \ {s}
  BY <1>0, <1>1 DEF Made
<1>4. \A h \in Handle : session[h].open /\ h # f => session[h].of # s
  BY <1>1 DEF IInv, Writers, OneWriter
<1>5. \A d \in Caller : Made(d) /\ d # c => call[d].h # f
  BY DEF IInv, Writers
<1> HIDE DEF s
<1>6. (inbox \subseteq born /\ Saved)'
  BY DEF IInv, Writers
<1>7. \A h \in Handle : session'[h].open => session'[h].of \in inbox'
  BY <1>3, <1>4 DEF IInv, Writers
<1>8. \A t \in Id : active'[t] # None => Holds(active[t], t)'
  <2> SUFFICES ASSUME NEW t \in Id, active[t] # None
               PROVE  Holds(active[t], t)'
    OBVIOUS
  <2>1. Holds(active[t], t) /\ active[t] # f
    BY <1>1 DEF IInv, Writers, Holds
  <2> QED BY <1>3, <2>1 DEF Holds
<1>9. \A d \in Caller : (Made(d))' => Holds(call[d].h, call[d].id)' /\ active'[call'[d].id] = None
  BY <1>3, <1>5 DEF IInv, Writers, Holds
<1>10. \A d, e \in Caller : (Made(d))' /\ (Made(e))' /\ d # e => call'[d].h # call'[e].h
  BY <1>3 DEF IInv, Writers
<1>11. \A h \in Handle : session'[h].open =>
          active'[session'[h].of] = h \/ \E d \in Caller : (Made(d))' /\ call'[d].h = h
  <2> SUFFICES ASSUME NEW h \in Handle, h # f, session[h].open
               PROVE  active[session[h].of] = h \/ \E d \in Caller : (Made(d))' /\ call'[d].h = h
    BY <1>3
  <2>1. active[session[h].of] = h \/ \E d \in Caller : Made(d) /\ call[d].h = h
    BY DEF IInv, Writers
  <2> QED BY <1>3, <2>1
<1>12. (engine = "stopped" => \A t \in Root : active[t] = None)'
  BY DEF IInv, Writers
<1>13. OneWriter'
  BY <1>3, SMTT(30) DEF IInv, Writers, OneWriter
<1> QED BY <1>2, <1>6, <1>7, <1>8, <1>9, <1>10, <1>11, <1>12, <1>13 DEF IInv, Writers

LEMMA OpeningRequests ==
    ASSUME IInv, NEW c \in Caller, UNCHANGED repl,
           CreateBegin(c) \/ CreateRegister(c) \/ LoadOpen(c) \/ LoadRegister(c)
    PROVE  IInv'
<1>1. /\ session \in [Handle -> Session] /\ call[c] \in Request /\ Named(call[c])
      /\ active \in [Id -> Handle \cup {None}] /\ disk \in [Id -> {None} \cup SUBSET Id]
      /\ born \in SUBSET Id /\ inbox \subseteq born /\ Saved
  BY SMTT(30) DEF IInv, Typed, TypeOK, Writers
<1>2. CASE CreateBegin(c)
  <2>1. call[c].at = "begin" /\ call[c].op = "create" /\ UNCHANGED <<engine, active>>
    BY <1>2 DEF CreateBegin, At
  <2>2. CASE UNCHANGED <<disk, born, inbox, session, used>> /\ \E code \in {503, 400} : Answer(c, code)
    BY <2>1, <2>2, Untouched, AnswerQuiet
  <2>3. ASSUME NEW s \in Root \ born, born' = born \cup {s}, disk' = [disk EXCEPT ![s] = {}]
        PROVE  s \in Id /\ s \notin inbox /\ born' \in SUBSET Id /\ born \subseteq born' /\ s \in born'
               /\ disk' \in [Id -> {None} \cup SUBSET Id] /\ Saved'
    BY <1>1, <2>3, Apart DEF Saved
  <2>4. ASSUME NEW s \in Root \ born, born' = born \cup {s}, disk' = [disk EXCEPT ![s] = {}],
               FreeHandle # {}, session' = [session EXCEPT ![Fresh] = Opened(s)],
               GoTo(c, [call[c] EXCEPT !.id = s, !.h = Fresh, !.at = "made"]),
               inbox' = inbox \cup {s}, UNCHANGED used
        PROVE  IInv'
    <3> DEFINE r == [call[c] EXCEPT !.id = s, !.h = Fresh, !.at = "made"]
    <3>1. s \in Id /\ s \notin inbox /\ born' \in SUBSET Id /\ born \subseteq born' /\ s \in born'
          /\ disk' \in [Id -> {None} \cup SUBSET Id] /\ Saved' /\ Fresh \in Handle
      BY <2>3, <2>4, FreshType
    <3>2. r \in Request /\ r.id = s /\ r.h = Fresh /\ r.at = "made" /\ r.op = call[c].op
      BY <1>1, <3>1 DEF Request, Stage
    <3>3. call' = [call EXCEPT ![c] = r]
      BY <2>4 DEF GoTo
    <3> HIDE DEF r
    <3> QED BY <2>1, <2>4, <3>1, <3>2, <3>3, OpenStep
  <2>5. ASSUME NEW s \in Root \ born, born' = born \cup {s}, disk' = [disk EXCEPT ![s] = {}],
               used' = [used EXCEPT !.faults = @ + 1], Answer(c, 400), UNCHANGED <<inbox, session>>
        PROVE  IInv'
    <3>1. Quiet
      BY <1>1, <2>1, <2>3, <2>5, UsedStep DEF Quiet, IInv, Typed
    <3> QED BY <2>1, <2>5, <3>1, AnswerQuiet
  <2> QED BY <1>2, <2>2, <2>4, <2>5, ZenonT(100) DEF CreateBegin
<1>3. CASE LoadOpen(c)
  <2> DEFINE s == call[c].id
  <2>1. /\ call[c].at = "locking" /\ call[c].op = "load" /\ s \in Id
        /\ UNCHANGED <<engine, disk, born, active, used>>
    BY <1>1, <1>3 DEF LoadOpen, At, Named
  <2>2. ASSUME NEW code \in {200, 404, 500}, Answer(c, code), UNCHANGED <<inbox, session>>
        PROVE  IInv'
    BY <2>1, <2>2, Untouched, AnswerQuiet
  <2>3. ASSUME disk[s] # None, s \notin inbox, FreeHandle # {}, inbox' = inbox \cup {s},
               session' = [session EXCEPT ![Fresh] = Opened(s)],
               GoTo(c, [call[c] EXCEPT !.h = Fresh, !.at = "made"])
        PROVE  IInv'
    <3> DEFINE r == [call[c] EXCEPT !.h = Fresh, !.at = "made"]
    <3>1. Fresh \in Handle
      BY <2>3, FreshType
    <3>2. r \in Request /\ r.id = s /\ r.h = Fresh /\ r.at = "made" /\ r.op = call[c].op
      BY <1>1, <3>1 DEF Request, Stage
    <3>3. call' = [call EXCEPT ![c] = r] /\ s \in born /\ Saved'
      BY <1>1, <2>1, <2>3 DEF GoTo, Saved
    <3> HIDE DEF r, s
    <3> QED BY <1>1, <2>1, <2>3, <3>1, <3>2, <3>3, OpenStep
  <2> QED BY <1>3, <2>2, <2>3 DEF LoadOpen
<1>4. CASE CreateRegister(c) \/ LoadRegister(c)
  <2>1. Made(c) /\ UNCHANGED <<engine, born, used>>
    BY <1>4 DEF CreateRegister, LoadRegister, At, Made
  <2>2. ASSUME NEW code \in {200, 201, 500, 503}
        PROVE  /\ Reply(c, code) \in Request /\ Named(Reply(c, code)) /\ Reply(c, code).at # "made"
               /\ c = Line => Reply(c, code).op = call[c].op
    BY <1>1, <2>1, ReplyType DEF Named, Made
  <2>3. CASE engine = "up"
    <3>1. PICK code \in {200, 201} : Answer(c, code)
      BY <1>4, <2>3 DEF CreateRegister, LoadRegister
    <3>2. /\ active' = [active EXCEPT ![call[c].id] = call[c].h]
          /\ UNCHANGED <<disk, inbox, session>>
      BY <1>4, <2>3 DEF CreateRegister, LoadRegister
    <3> DEFINE r == Reply(c, code)
    <3>3. /\ r \in Request /\ Named(r) /\ r.at # "made" /\ (c = Line => r.op = call[c].op)
          /\ call' = [call EXCEPT ![c] = r]
      BY <2>2, <3>1 DEF Answer, GoTo
    <3> HIDE DEF r
    <3> QED BY <2>1, <2>3, <3>2, <3>3, RegisterStep, ZenonT(100)
  <2>4. CASE engine # "up"
    <3>1. PICK code \in {500, 503} : Answer(c, code)
      BY <1>4, <2>4 DEF CreateRegister, LoadRegister
    <3>2. /\ Become(call[c].h, Gone) /\ inbox' = inbox \ {call[c].id} /\ UNCHANGED active
          /\ disk' = disk \/ disk' = [disk EXCEPT ![call[c].id] = None]
      BY <1>4, <2>4 DEF CreateRegister, LoadRegister
    <3>3. disk' \in [Id -> {None} \cup SUBSET Id] /\ Saved'
      BY <1>1, <2>1, <3>2 DEF Saved
    <3> QED BY <2>1, <3>1, <3>2, <3>3, WithdrawStep
  <2> QED BY <2>3, <2>4
<1> QED BY <1>2, <1>3, <1>4 DEF CreateBegin

-----------------------------------------------------------------------------
(* Requests that close sessions, and the end of the server *)

LEMMA ClosedType ==
    ASSUME session \in [Handle -> Session], NEW h \in Handle
    PROVE  ClosedHandle(h) \in Session /\ ~ClosedHandle(h).open
<1>1. session[h].of \in Id \cup {None}
  BY DEF Session
<1>2. [Gone EXCEPT !.of = session[h].of] \in Session /\ ~[Gone EXCEPT !.of = session[h].of].open
  BY <1>1, GoneType DEF Session, Gone
<1> QED BY <1>2, GoneType DEF ClosedHandle

LEMMA CloseAllStep ==
    ASSUME IInv, NEW S \in SUBSET Id, CloseAll(S)
    PROVE  /\ session' \in [Handle -> Session] /\ active' \in [Id -> Handle \cup {None}]
           /\ inbox' \in SUBSET Id
           /\ \A h \in Handle : IF \E s \in S : active[s] = h THEN ~session'[h].open
                                ELSE session'[h].open = session[h].open /\ session'[h].of = session[h].of
           /\ active' = [s \in Id |-> IF s \in S THEN None ELSE active[s]]
           /\ inbox' = inbox \ {s \in S : active[s] # None}
<1> DEFINE closed == {active[s] : s \in S} \ {None}
<1>1. /\ session \in [Handle -> Session] /\ active \in [Id -> Handle \cup {None}] /\ inbox \in SUBSET Id
  BY DEF IInv, Typed, TypeOK
<1>2. /\ session' = [h \in Handle |-> IF h \in closed THEN ClosedHandle(h) ELSE session[h]]
      /\ active' = [s \in Id |-> IF s \in S THEN None ELSE active[s]]
      /\ inbox' = inbox \ {s \in S : active[s] # None}
  BY DEF CloseAll
<1>3. \A h \in Handle : h \in closed <=> \E s \in S : active[s] = h
  BY Apart
<1> HIDE DEF closed
<1>4. session' \in [Handle -> Session]
  BY <1>1, <1>2, ClosedType
<1>5. \A h \in Handle : IF \E s \in S : active[s] = h THEN ~session'[h].open
                        ELSE session'[h].open = session[h].open /\ session'[h].of = session[h].of
  BY <1>1, <1>2, <1>3, ClosedType
<1> QED BY <1>1, <1>2, <1>4, <1>5

LEMMA CloseRequest ==
    ASSUME IInv, NEW c \in Caller, NEW r \in Request, Named(r), r.at # "made",
           call[c].at \notin {"none", "made"}, c = Line => r.op = call[c].op,
           call' = [call EXCEPT ![c] = r], NEW s \in Id, CloseAll({s}),
           UNCHANGED <<engine, disk, born, used, repl>>
    PROVE  IInv'
<1>1. call' \in [Caller -> Request] /\ (\A d \in Caller : Named(call'[d])) /\ LineKnows'
  BY CallStep DEF IInv
<1>2. /\ session' \in [Handle -> Session] /\ active' \in [Id -> Handle \cup {None}]
      /\ inbox' \in SUBSET Id
      /\ \A h \in Handle : IF \E t \in {s} : active[t] = h THEN ~session'[h].open
                           ELSE session'[h].open = session[h].open /\ session'[h].of = session[h].of
      /\ active' = [t \in Id |-> IF t \in {s} THEN None ELSE active[t]]
      /\ inbox' = inbox \ {t \in {s} : active[t] # None}
  BY CloseAllStep
<1>3. Typed'
  <2>1. TypeOK'
    BY <1>1, <1>2 DEF IInv, Typed, TypeOK
  <2>2. (\A d \in Caller : Named(call[d]))'
    BY <1>1 DEF Named
  <2> QED BY <1>1, <2>1, <2>2 DEF Typed
<1>4. \A d \in Caller : /\ Made(d) <=> (Made(d))'
                        /\ Made(d) => call'[d].h = call[d].h /\ call'[d].id = call[d].id
  BY DEF IInv, Typed, TypeOK, Made
<1>5. Saved'
  BY DEF IInv, Writers, Saved
<1>6. Writers'
  BY <1>2, <1>3, <1>4, <1>5, CloseStep, ZenonT(100)
<1> QED BY <1>3, <1>6 DEF IInv

LEMMA ClosingRequests ==
    ASSUME IInv, NEW c \in Caller, UNCHANGED repl, Close(c) \/ DeleteClose(c)
    PROVE  IInv'
<1>1. call[c] \in Request /\ Named(call[c])
  BY DEF IInv, Typed, TypeOK
<1>2. CASE Close(c)
  <2> DEFINE s == call[c].id
  <2>1. /\ call[c].at = "begin" /\ call[c].op = "close" /\ s \in Id
        /\ UNCHANGED <<engine, disk, born, used>>
    BY <1>1, <1>2 DEF Close, At, Named
  <2>2. ASSUME NEW code \in {404, 409}, Answer(c, code), UNCHANGED <<active, inbox, session>>
        PROVE  IInv'
    BY <2>1, <2>2, Untouched, AnswerQuiet
  <2>3. ASSUME Answer(c, 204), CloseAll({s}) PROVE IInv'
    <3> DEFINE r == Reply(c, 204)
    <3>1. /\ r \in Request /\ Named(r) /\ r.at # "made" /\ (c = Line => r.op = call[c].op)
          /\ call' = [call EXCEPT ![c] = r]
      BY <1>1, <2>1, <2>3, ReplyType DEF Answer, GoTo
    <3> HIDE DEF r, s
    <3> QED BY <2>1, <2>3, <3>1, CloseRequest
  <2> QED BY <1>2, <2>2, <2>3 DEF Close
<1>3. CASE DeleteClose(c)
  <2>1. /\ call[c].at = "close" /\ call[c].op = "delete" /\ call[c].id \in Id
        /\ UNCHANGED <<engine, disk, born, used>>
    BY <1>1, <1>3 DEF DeleteClose, At, Named
  <2>2. PICK s \in Victims(c) : CloseAll({s}) /\ GoTo(c, [call[c] EXCEPT !.doomed = s, !.at = "remove"])
    BY <1>3 DEF DeleteClose
  <2>3. s \in Id
    BY <1>1, <2>1 DEF Victims, Request
  <2> DEFINE r == [call[c] EXCEPT !.doomed = s, !.at = "remove"]
  <2>4. /\ r \in Request /\ r.at = "remove" /\ r.op = call[c].op /\ r.id = call[c].id
        /\ call' = [call EXCEPT ![c] = r]
    BY <1>1, <2>2, <2>3 DEF Request, Stage, GoTo
  <2> HIDE DEF r
  <2>5. Named(r)
    BY <1>1, <2>1, <2>4 DEF Named
  <2> QED BY <2>1, <2>2, <2>3, <2>4, <2>5, CloseRequest
<1> QED BY <1>2, <1>3

LEMMA StopCloses ==
    ASSUME IInv, StopClose, UNCHANGED repl
    PROVE  IInv'
<1> DEFINE closed == {active[s] : s \in Root} \ {None}
<1>1. /\ session \in [Handle -> Session] /\ active \in [Id -> Handle \cup {None}] /\ inbox \in SUBSET Id
  BY DEF IInv, Typed, TypeOK
<1>2. /\ engine' = "stopped" /\ UNCHANGED <<disk, born, call, used>>
      /\ session' = [h \in Handle |-> IF h \in closed THEN ClosedHandle(h)
                                      ELSE [session[h] EXCEPT !.at = "over"]]
      /\ active' = [s \in Id |-> IF s \in Root THEN None ELSE active[s]]
      /\ inbox' = inbox \ {s \in Root : active[s] # None}
  BY DEF StopClose
<1>3. \A h \in Handle : h \in closed <=> \E s \in Root : active[s] = h
  BY Apart
<1> HIDE DEF closed
<1>4. \A h \in Handle : LET r == [session[h] EXCEPT !.at = "over"] IN
          r \in Session /\ r.open = session[h].open /\ r.of = session[h].of
  BY <1>1 DEF Session, Place
<1>5. session' \in [Handle -> Session]
  BY <1>2, <1>1, <1>4, ClosedType
<1>6. \A h \in Handle : IF \E s \in Root : active[s] = h THEN ~session'[h].open
                        ELSE session'[h].open = session[h].open /\ session'[h].of = session[h].of
  BY <1>1, <1>2, <1>3, <1>4, ClosedType
<1>7. Typed'
  <2>1. TypeOK'
    BY <1>1, <1>2, <1>5 DEF IInv, Typed, TypeOK
  <2> QED BY <1>2, <2>1 DEF IInv, Typed, LineKnows, Named
<1>8. \A d \in Caller : /\ Made(d) <=> (Made(d))'
                        /\ Made(d) => call'[d].h = call[d].h /\ call'[d].id = call[d].id
  BY <1>2 DEF Made
<1>9. Saved'
  BY <1>2 DEF IInv, Writers, Saved
<1>10. Writers'
  BY <1>2, <1>6, <1>7, <1>8, <1>9, CloseStep, Apart
<1> QED BY <1>7, <1>10 DEF IInv

\* When the process ends, its sessions end with it.
LEMMA ExitEnds ==
    ASSUME IInv, Exit, UNCHANGED repl
    PROVE  IInv'
<1>1. /\ engine' = "down" /\ active' = [s \in Id |-> None] /\ inbox' = {}
      /\ session' = [h \in Handle |-> Gone] /\ UNCHANGED <<disk, born>>
      /\ call' = [c \in Caller |-> IF call[c].at \in {"none", "answered"} THEN call[c]
                                   ELSE Reply(c, 0)]
      /\ used' = used \/ used' = [used EXCEPT !.faults = @ + 1]
  BY DEF Exit
<1>2. used' \in Used
  BY <1>1, UsedStep DEF IInv, Typed, TypeOK
<1>3. \A c \in Caller : call'[c] \in Request /\ Named(call'[c]) /\ ~(Made(c))'
  <2> SUFFICES ASSUME NEW c \in Caller
               PROVE  call'[c] \in Request /\ Named(call'[c]) /\ call'[c].at # "made"
    BY DEF Made
  <2>1. call[c] \in Request /\ Named(call[c])
    BY DEF IInv, Typed, TypeOK
  <2>2. Reply(c, 0) \in Request /\ Named(Reply(c, 0)) /\ Reply(c, 0).at # "made"
    BY <2>1, ReplyType
  <2> QED BY <1>1, <2>1, <2>2
<1>4. call' \in [Caller -> Request]
  BY <1>1, <1>3
<1>5. call'[Line].op = call[Line].op /\ (call[Line].at = "none" => call'[Line].at = "none")
  <2>1. Line \in Caller /\ call[Line] \in Request /\ Named(call[Line])
    BY DEF IInv, Typed, TypeOK, Caller
  <2>2. Reply(Line, 0).op = call[Line].op
    BY <2>1, ReplyType
  <2> QED BY <1>1, <2>1, <2>2
<1>6. LineKnows'
  BY <1>5 DEF IInv, Typed, LineKnows
<1>7. Typed'
  <2>1. TypeOK'
    BY <1>1, <1>2, <1>4, GoneType DEF IInv, Typed, TypeOK
  <2>2. (\A c \in Caller : Named(call[c]))'
    BY <1>3 DEF Named
  <2> QED BY <1>6, <2>1, <2>2 DEF Typed
<1>8. Writers'
  <2>1. Saved'
    BY <1>1 DEF IInv, Writers, Saved
  <2>2. OneWriter'
    BY <1>1, GoneType DEF OneWriter
  <2> QED BY <1>1, <1>3, <2>1, <2>2, GoneType DEF Writers
<1> QED BY <1>7, <1>8 DEF IInv

LEMMA StopRestart ==
    ASSUME IInv, Stop \/ Restart, UNCHANGED repl
    PROVE  IInv'
<1>1. /\ engine' \in {"up", "stopping"} /\ UNCHANGED <<disk, born, active, inbox, session, call, repl>>
      /\ used' = used \/ used' = [used EXCEPT !.faults = @ + 1]
  BY DEF Stop, Restart
<1>2. used' \in Used
  BY <1>1, UsedStep DEF IInv, Typed, TypeOK
<1>3. Typed'
  <2>1. TypeOK'
    BY <1>1, <1>2 DEF IInv, Typed, TypeOK
  <2> QED BY <1>1, <2>1 DEF IInv, Typed, LineKnows, Named
<1>4. Writers'
  <2>1. Saved'
    BY <1>1 DEF IInv, Writers, Saved
  <2> QED BY <1>1, <2>1, QuietStep DEF IInv, Made
<1> QED BY <1>3, <1>4 DEF IInv

-----------------------------------------------------------------------------
(* Requests that begin, and the line client *)

LEMMA RequestStep ==
    ASSUME IInv, NEW c \in Caller, NEW r \in Request, Named(r), r.at # "made", ~Made(c),
           call' = [call EXCEPT ![c] = r],
           UNCHANGED <<engine, disk, born, active, inbox, session>>,
           used' \in Used,
           repl' \in Repl, LineKnows'
    PROVE  IInv'
<1>1. Typed'
  <2>1. TypeOK' /\ \A d \in Caller : Named(call'[d])
    BY DEF IInv, Typed, TypeOK, Repl
  <2>2. (\A d \in Caller : Named(call[d]))'
    BY <2>1 DEF Named
  <2> QED BY <2>1, <2>2 DEF Typed
<1>2. \A d \in Caller : /\ Made(d) <=> (Made(d))'
                        /\ Made(d) => call'[d].h = call[d].h /\ call'[d].id = call[d].id
  BY DEF IInv, Typed, TypeOK, Made
<1>3. Saved'
  BY DEF IInv, Writers, Saved
<1>4. Writers'
  BY <1>2, <1>3, QuietStep DEF IInv
<1> QED BY <1>1, <1>4 DEF IInv

LEMMA AskStep ==
    ASSUME IInv, NEW c \in Client, Ask(c), UNCHANGED repl
    PROVE  IInv'
<1>1. call[c].at = "none" /\ UNCHANGED <<engine, disk, born, active, inbox, session>>
  BY RestingType DEF Ask
<1>2. used.mix.others \subseteq Op /\ born \subseteq Id /\ repl \in Repl
  BY RegistryAssumption DEF IInv, Typed, TypeOK, Used
<1>3. PICK op \in used.mix.others : \E s \in IF op = "create" THEN {None} ELSE born :
          GoTo(c, Asked(op, s))
  BY DEF Ask
<1>4. PICK s \in IF op = "create" THEN {None} ELSE born : GoTo(c, Asked(op, s))
  BY <1>3
<1> DEFINE r == Asked(op, s)
<1>5. r \in Request /\ Named(r) /\ r.at = "begin" /\ call' = [call EXCEPT ![c] = r]
  <2>1. op \in Op /\ s \in Id \cup {None} /\ (op # "create" => s \in Id)
    BY <1>2, <1>3, <1>4
  <2> QED BY <1>4, <2>1, AskedType DEF GoTo
<1>6. used' \in Used
  <2>1. used' = [used EXCEPT !.requests = @ + 1]
    BY DEF Ask
  <2> QED BY <2>1, UsedStep DEF IInv, Typed
<1> HIDE DEF r
<1>7. call'[Line] = call[Line]
  BY <1>5, Apart DEF IInv, Typed, TypeOK, Caller
<1>8. LineKnows'
  BY <1>7 DEF IInv, Typed, LineKnows
<1> QED BY <1>1, <1>2, <1>5, <1>6, <1>8, RequestStep DEF Caller, Made

\* The line client asks or receives, and whatever it then is fits the request.
LEMMA LineStep ==
    ASSUME IInv, NEW r \in Request, Named(r), r.at # "made", ~Made(Line),
           call' = [call EXCEPT ![Line] = r], Engine, NEW q \in Repl, repl' = q,
           q.at # "asking" => r.at = "none",
           q.at = "asking" =>
              /\ q.then \in {"fresh", "new"} => r.op = "create"
              /\ q.then \in {"resume", "load"} => r.op = "load"
              /\ q.then \notin {"fresh", "new"} => r.op \in Op \ {"create"},
           q.at \in {"prompt", "wait", "replied"} \/ (q.at = "asking" /\ q.then \notin {"fresh", "resume"})
              => q.sid \in Id /\ q.sess \in Id
    PROVE  IInv'
<1>1. Line \in Caller /\ call'[Line] = r
  BY DEF IInv, Typed, TypeOK, Caller
<1>2. LineKnows'
  BY <1>1 DEF LineKnows
<1>3. used' \in Used
  BY DEF IInv, Typed, TypeOK, Engine
<1> QED BY <1>1, <1>2, <1>3, RequestStep DEF Engine

\* The line client alone moves.
LEMMA ReplStep ==
    ASSUME IInv, Engine, UNCHANGED call, NEW q \in Repl, repl' = q,
           repl.at # "asking", q.at # "asking",
           q.at \in {"prompt", "wait", "replied"} => q.sid \in Id /\ q.sess \in Id
    PROVE  IInv'
<1>1. LineKnows'
  BY DEF IInv, Typed, LineKnows
<1>2. Typed'
  <2>1. TypeOK'
    BY DEF IInv, Typed, TypeOK, Engine, Repl
  <2> QED BY <1>1, <2>1 DEF IInv, Typed, Named
<1>3. Saved'
  BY DEF IInv, Writers, Saved, Engine
<1>4. Writers'
  BY <1>3, QuietStep DEF IInv, Engine, Made
<1> QED BY <1>2, <1>4 DEF IInv

LEMMA LineSteps ==
    ASSUME IInv, LineNext
    PROVE  IInv'
<1>1. /\ repl \in Repl /\ call \in [Caller -> Request] /\ Line \in Caller
      /\ call[Line] \in Request /\ Named(call[Line]) /\ LineKnows
      /\ born \subseteq Id /\ {s \in Id : disk[s] # None} \subseteq Id
  BY DEF IInv, Typed, TypeOK, Repl, Caller
<1>2. repl.at # "asking" => call[Line].at = "none" /\ ~Made(Line)
  BY <1>1 DEF LineKnows, Made
<1>3. \A op \in Op : \A s \in Id \cup {None} :
         (op # "create" => s \in Id) =>
            /\ Asked(op, s) \in Request /\ Named(Asked(op, s))
            /\ Asked(op, s).at # "made" /\ Asked(op, s).op = op
  BY AskedType
<1>4. CASE Start
  <2>1. repl.at = "start" /\ Engine
    BY <1>4 DEF Start
  <2>2. CASE repl' = [repl EXCEPT !.at = "over"] /\ UNCHANGED call
    <3> DEFINE q == [repl EXCEPT !.at = "over"]
    <3>1. q \in Repl /\ q.at = "over"
      BY <1>1 DEF Repl
    <3> HIDE DEF q
    <3> QED BY <2>1, <2>2, <3>1, ReplStep DEF q
  <2>3. ASSUME NEW op \in {"load", "create"}, NEW s \in Id \cup {None}, op = "load" => s \in Id,
               NEW then \in {"resume", "fresh"}, op = "load" <=> then = "resume", Issue(op, s, then)
        PROVE  IInv'
    <3> DEFINE q == [repl EXCEPT !.at = "asking", !.then = then]
               r == Asked(op, s)
    <3>1. q \in Repl /\ q.at = "asking" /\ q.then = then
      BY <1>1 DEF Repl
    <3>2. r \in Request /\ Named(r) /\ r.at # "made" /\ r.op = op /\ op \in Op
      BY <1>3, <2>3 DEF Op
    <3>3. call' = [call EXCEPT ![Line] = r] /\ repl' = q
      BY <2>3 DEF Issue
    <3> HIDE DEF q, r
    <3> QED BY <1>2, <2>1, <2>3, <3>1, <3>2, <3>3, LineStep
  <2> QED BY <1>1, <1>4, <2>2, <2>3, Apart DEF Start
<1>5. ASSUME NEW q \in Repl, q.at \in {"over", "prompt", "wait"}, ~Made(Line), Engine, Back(q),
             q.at # "over" => q.sid \in Id /\ q.sess \in Id
      PROVE  IInv'
  BY <1>5, RestingType, LineStep DEF Back
<1>6. CASE Answered
  <2> DEFINE then == repl.then
             s == call[Line].id
             done == call[Line].code = Wanted[call[Line].op]
  <2>1. /\ repl.at = "asking" /\ ~Made(Line) /\ Engine /\ call[Line].at = "answered"
        /\ then \notin {"resume", "fresh"} => repl.sid \in Id /\ repl.sess \in Id
    BY <1>1, <1>6 DEF Answered, Made, LineKnows
  <2>2. CASE Back([repl EXCEPT !.at = "over", !.then = "none"])
    <3> DEFINE q == [repl EXCEPT !.at = "over", !.then = "none"]
    <3>1. q \in Repl /\ q.at = "over"
      BY <1>1 DEF Repl
    <3> HIDE DEF q
    <3> QED BY <1>5, <2>1, <2>2, <3>1 DEF q
  <2>3. CASE s \in Id /\ Back(Follow(s))
    <3>1. Follow(s) \in Repl /\ Follow(s).at = "prompt" /\ Follow(s).sid = s /\ Follow(s).sess = s
      BY <1>1, <2>3 DEF Follow, Repl
    <3> QED BY <1>5, <2>1, <2>3, <3>1
  <2>4. CASE then \notin {"resume", "fresh"} /\ s \in Id /\ Back([Prompted EXCEPT !.sess = s])
    <3> DEFINE q == [Prompted EXCEPT !.sess = s]
    <3>1. q \in Repl /\ q.at = "prompt" /\ q.sid = repl.sid /\ q.sess = s
      BY <1>1, <2>4 DEF Repl, Prompted
    <3> HIDE DEF q
    <3> QED BY <1>5, <2>1, <2>4, <3>1 DEF q
  <2>5. CASE then \notin {"resume", "fresh"} /\ Back(Prompted)
    <3>1. Prompted \in Repl /\ Prompted.at = "prompt" /\ Prompted.sid = repl.sid /\ Prompted.sess = repl.sess
      BY <1>1 DEF Repl, Prompted
    <3> QED BY <1>5, <2>1, <2>5, <3>1
  <2>6. CASE then \notin {"resume", "fresh"} /\ Back([repl EXCEPT !.at = "wait", !.then = "none"])
    <3> DEFINE q == [repl EXCEPT !.at = "wait", !.then = "none"]
    <3>1. q \in Repl /\ q.at = "wait" /\ q.sid = repl.sid /\ q.sess = repl.sess
      BY <1>1 DEF Repl
    <3> HIDE DEF q
    <3> QED BY <1>5, <2>1, <2>6, <3>1 DEF q
  <2>7. ASSUME NEW op \in {"branch", "chat"}, NEW t \in Id, then \notin {"resume", "fresh"},
               call' = [call EXCEPT ![Line] = Asked(op, t)], repl' = [repl EXCEPT !.then = op]
        PROVE  IInv'
    <3> DEFINE q == [repl EXCEPT !.then = op]
               r == Asked(op, t)
    <3>1. op \in Op /\ op \notin {"create", "resume", "fresh", "new", "load"}
      BY <2>7 DEF Op
    <3>2. q \in Repl /\ q.at = "asking" /\ q.then = op /\ q.sid = repl.sid /\ q.sess = repl.sess
      BY <1>1, <2>1, <3>1 DEF Repl
    <3>3. r \in Request /\ Named(r) /\ r.at # "made" /\ r.op = op
      BY <1>3, <3>1
    <3>4. call' = [call EXCEPT ![Line] = r] /\ repl' = q
      BY <2>7
    <3> HIDE DEF q, r
    <3>5. /\ q.then \notin {"fresh", "new", "resume", "load"} /\ r.op \in Op \ {"create"}
          /\ q.sid \in Id /\ q.sess \in Id
      BY <2>1, <2>7, <3>1, <3>2, <3>3
    <3> QED BY <2>1, <3>2, <3>3, <3>4, <3>5, LineStep, ZenonT(60)
  <2>8. then \in {"resume", "fresh", "new", "load"} /\ done => s \in Id
    <3>1. then \in {"resume", "load"} => call[Line].op = "load"
      BY <1>1, <2>1 DEF LineKnows
    <3>2. then \in {"fresh", "new"} => call[Line].op = "create"
      BY <1>1, <2>1 DEF LineKnows
    <3>3. Wanted["create"] = 201
      BY DEF Wanted
    <3> QED BY <1>1, <2>1, <3>1, <3>2, <3>3 DEF Named
  <2>9. then \in {"model", "compact"} => s \in Id
    BY <1>1, <2>1 DEF LineKnows, Named, Op
  <2> QED BY <1>6, <2>1, <2>2, <2>3, <2>4, <2>5, <2>6, <2>7, <2>8, <2>9 DEF Answered, Read
<1>7. CASE Command
  <2>1. repl.at = "prompt" /\ ~Made(Line) /\ Engine /\ repl.sid \in Id /\ repl.sess \in Id
    BY <1>1, <1>2, <1>7 DEF Command, LineKnows
  <2> DEFINE typed == [repl EXCEPT !.lines = @ + 1]
  <2>2. ASSUME NEW op \in Op, NEW s \in Id \cup {None}, op # "create" => s \in Id,
               NEW then \in Op \cup {"new", "rm"}, op = "create" <=> then = "new",
               then = "load" => op = "load",
               call' = [call EXCEPT ![Line] = Asked(op, s)],
               repl' = [typed EXCEPT !.at = "asking", !.then = then]
        PROVE  IInv'
    <3> DEFINE q == [typed EXCEPT !.at = "asking", !.then = then]
               r == Asked(op, s)
    <3>1. q \in Repl /\ q.at = "asking" /\ q.then = then /\ q.sid = repl.sid /\ q.sess = repl.sess
      <4>1. typed \in Repl /\ typed.sid = repl.sid /\ typed.sess = repl.sess
        BY <1>1 DEF Repl
      <4> HIDE DEF typed
      <4> QED BY <4>1 DEF Repl
    <3>2. r \in Request /\ Named(r) /\ r.at # "made" /\ r.op = op
      BY <1>3, <2>2
    <3>3. call' = [call EXCEPT ![Line] = r] /\ repl' = q /\ then \notin {"fresh", "resume"}
      BY <2>2 DEF Op
    <3> HIDE DEF q, r, typed
    <3> QED BY <2>1, <2>2, <3>1, <3>2, <3>3, LineStep
  <2>3. {"create", "load", "delete", "rename", "model", "compact", "timeline", "join"} \subseteq Op
    BY DEF Op
  <2> HIDE DEF typed
  <2> QED BY <1>1, <1>7, <2>1, <2>2, <2>3 DEF Command, typed
<1>8. CASE Quit \/ Event \/ Overtaken \/ Shown
  <2>1. /\ repl.at # "asking" /\ Engine /\ UNCHANGED call
        /\ repl.at \in {"prompt", "wait", "replied"} /\ repl.sid \in Id /\ repl.sess \in Id
    BY <1>1, <1>8 DEF Quit, Event, Overtaken, Shown, LineKnows
  <2> DEFINE alike(q) == /\ q \in Repl /\ q.at \in {"prompt", "wait", "replied", "over"}
                         /\ q.sid = repl.sid /\ q.sess \in {repl.sess, repl.sid}
  <2>2. alike(repl')
    <3>1. alike(Prompted) /\ alike([Prompted EXCEPT !.sess = repl.sid])
      BY <1>1 DEF Prompted, Repl
    <3>2. alike([repl EXCEPT !.reply = @ + 1]) /\ alike([repl EXCEPT !.saw = TRUE])
      <4>1. \A n \in Nat : alike([repl EXCEPT !.reply = n])
        BY <1>1, <2>1 DEF Repl
      <4>2. repl.reply + 1 \in Nat
        BY <1>1 DEF Repl
      <4>3. alike([repl EXCEPT !.saw = TRUE])
        BY <1>1, <2>1 DEF Repl
      <4> QED BY <4>1, <4>2, <4>3
    <3>3. \A at \in {"over", "replied", repl.at} : alike([repl EXCEPT !.at = at])
      <4> SUFFICES ASSUME NEW at \in {"prompt", "wait", "replied", "over"}
                   PROVE  alike([repl EXCEPT !.at = at])
        BY <2>1
      <4> QED BY <1>1 DEF Repl
    <3> HIDE DEF alike
    <3> QED BY <1>8, <3>1, <3>2, <3>3 DEF Quit, Event, Overtaken, Shown
  <2> QED BY <2>1, <2>2, ReplStep
<1> QED BY <1>4, <1>6, <1>7, <1>8 DEF LineNext

-----------------------------------------------------------------------------
(* The invariant and the theorems *)

LEMMA ServeSteps ==
    ASSUME IInv, NEW c \in Caller, Serve(c), UNCHANGED repl
    PROVE  IInv'
  BY QuietRequests, OpeningRequests, ClosingRequests DEF Serve

LEMMA Initially == InitLine => IInv
<1> SUFFICES ASSUME InitLine PROVE IInv
  OBVIOUS
<1>1. TypeOK
  <2>1. disk \in [Id -> {None} \cup SUBSET Id]
    BY DEF InitLine, Init, Id
  <2>2. session \in [Handle -> Session] /\ call \in [Caller -> Request]
    BY GoneType, RestingType DEF InitLine, Init
  <2>3. used \in Used
    BY DEF InitLine, Init, Used
  <2> QED BY <2>1, <2>2, <2>3, RegistryAssumption DEF InitLine, Init, TypeOK, Repl, Id
<1>2. (\A c \in Caller : Named(call[c]) /\ call[c].at = "none")
  BY RestingType DEF InitLine, Init
<1>3. LineKnows
  BY <1>2 DEF InitLine, LineKnows, Caller
<1>4. \A h \in Handle : ~session[h].open
  BY GoneType DEF InitLine, Init
<1>5. Saved
  BY DEF InitLine, Init, Saved
<1>6. Writers
  BY <1>2, <1>4, <1>5 DEF InitLine, Init, Writers, Made, OneWriter
<1> QED BY <1>1, <1>2, <1>3, <1>6 DEF IInv, Typed

LEMMA Preserved == IInv /\ [Next]_lineVars => IInv'
<1> SUFFICES ASSUME IInv, [Next]_lineVars PROVE IInv'
  OBVIOUS
<1>1. ASSUME EngineNext, UNCHANGED repl PROVE IInv'
  <2>1. CASE \E h \in Handle : AgentStep(h)
    BY <1>1, <2>1, AgentSteps
  <2>2. CASE \E c \in Client : Ask(c)
    BY <1>1, <2>2, AskStep
  <2>3. CASE \E c \in Caller : Serve(c)
    BY <1>1, <2>3, ServeSteps
  <2>4. CASE Stop \/ StopClose \/ Exit \/ Restart
    BY <1>1, <2>4, StopRestart, StopCloses, ExitEnds
  <2> QED BY <1>1, <2>1, <2>2, <2>3, <2>4 DEF EngineNext
<1>2. CASE LineNext
  BY <1>2, LineSteps
<1>3. CASE UNCHANGED lineVars
  BY <1>3 DEF lineVars, vars, IInv, Typed, TypeOK, Named, LineKnows, Writers, Made, Holds, Saved, OneWriter
<1> QED BY <1>1, <1>2, <1>3 DEF Next

LEMMA Invariant == Spec => []IInv
  BY Initially, Preserved, PTL DEF Spec

\* Whatever is created, loaded, closed, deleted and restarted, and whatever
\* fails: no two session values in memory have the files of one session open
\* (engine.go's registry, the comms channel and e.mu).
THEOREM SessionsHaveOneWriter == Spec => []OneWriter
<1>1. IInv => OneWriter
  BY DEF IInv, Writers
<1> QED BY <1>1, Invariant, PTL

\* After Shutdown no session of a person is open, but one which the request
\* that opened it is about to close (engine.go Shutdown, CreateSession and
\* LoadSession).
THEOREM ShutdownsAreFinal == Spec => []ShutdownIsFinal
<1>1. IInv => ShutdownIsFinal
  <2> SUFFICES ASSUME IInv, engine = "stopped",
                      NEW h \in Handle, session[h].open, session[h].of \in Root
               PROVE  \E c \in Caller : call[c].h = h /\ call[c].at = "made"
    BY DEF ShutdownIsFinal
  <2>1. active[session[h].of] = None
    BY DEF IInv, Writers
  <2> QED BY <2>1, Apart DEF IInv, Writers, Made
<1> QED BY <1>1, Invariant, PTL

\* Types; a request names a session once there is one to name, one that has
\* opened a session holds it, and the line client waits only for what it asked
\* and knows its session whenever it acts on one (server.go, tui.go).
THEOREM RequestsAreTyped == Spec => []Typed
<1>1. IInv => Typed
  BY DEF IInv
<1> QED BY <1>1, Invariant, PTL
-----------------------------------------------------------------------------
(* What the stream of the line client holds *)

Running == {"busy", "waiting", "compacting"}
Kind == Running \cup {"idle", "text", "fatal", "end"}
Stream == [h : Handle \cup {None}, events : Seq(Kind), calm : BOOLEAN, alone : BOOLEAN, said : Nat]

\* The stages of a request that work on a session.
Acting == {"act", "send", "trigger", "fold"}

\* A handle that is closed stays still, and a request that has one has the
\* session it names, or one that is closed.
Kept ==
    /\ stream \in Stream
    /\ stream.h # None => session[stream.h].open
    /\ \A h \in Handle : ~session[h].open => session[h].status = "tombstone" /\ session[h].at = "over"
    /\ \A c \in Caller : call[c].h # None => session[call[c].h].of \in {call[c].id, None}
    /\ \A c \in Caller : call[c].at \in Acting => call[c].h # None

\* The line client has a stream from its join to the end of its turn.
LineStream ==
    /\ repl.at = "asking" => /\ call[Line].op = "join" <=> repl.then = "join"
                             /\ call[Line].op = "chat" <=> repl.then = "chat"
    /\ repl.at \notin {"wait", "replied"} => ~repl.saw /\ repl.reply = 0
    /\ stream.calm \/ stream.h # None =>
          \/ repl.at \in {"wait", "replied"}
          \/ repl.at = "asking" /\ repl.then = "chat"
          \/ repl.at = "asking" /\ repl.then = "join" /\ call[Line].at = "answered"

\* While the stream is the line client's alone, no other request for a turn
\* of its session is under way.
Prompts(c) == call[c].op \in {"chat", "compact"}
OnlyUs ==
    stream.h # None /\ stream.alone =>
        \A c \in Client : ~ (Prompts(c) /\ call[c].id = session[stream.h].of)

\* The message of the line client was queued.
Sent ==
    \/ repl.at \in {"wait", "replied"}
    \/ /\ repl.at = "asking" /\ repl.then = "chat"
       /\ call[Line].at = "answered" /\ call[Line].code = 202

\* Of a list of events: it tells that a turn runs, and it tells at i that this
\* turn is over.
Tells(saw, q) == saw \/ \E i \in DOMAIN q : q[i] \in Running
Closes(saw, q, i) == q[i] = "idle" /\ (saw \/ \E j \in DOMAIN q : j < i /\ q[j] \in Running)

Ended(s) == s.at = "parked" /\ s.queue = 0

\* Until the turn is known nothing but idleness is told, and the message of
\* the line client is all that is queued; from then on nothing is queued.
Awaits(saw, q, s, sent) ==
    IF Tells(saw, q)
    THEN sent /\ s.queue = 0
    ELSE /\ \A i \in DOMAIN q : q[i] = "idle"
         /\ \/ /\ s.at \in {"top", "parked"} /\ ~s.again
               /\ s.queue \in {0, 1} /\ (~sent => s.queue = 0)
            \/ s.at = "turn" /\ s.queue = 0 /\ sent

\* What a client r may believe of a stream of a session in state s.
TellsTrue(r, st, s, sent) ==
    st.calm /\ st.alone =>
        /\ st.h # None => /\ Awaits(r.saw, st.events, s, sent)
                          /\ r.reply + Texts(st.events) = st.said
        /\ \A i \in DOMAIN st.events : Closes(r.saw, st.events, i) =>
              /\ \A j \in DOMAIN st.events : j > i => st.events[j] = "end"
              /\ r.reply + Texts(st.events) = st.said
              /\ st.h # None => Ended(s)
        /\ r.at = "replied" =>
              /\ r.reply = st.said
              /\ st.h # None => Ended(s)

Told == TellsTrue(repl, stream, session[stream.h], Sent)

-----------------------------------------------------------------------------
(* Lists of events *)

LEMMA TextsOf ==
    ASSUME NEW q \in Seq(Kind)
    PROVE  /\ Texts(q) \in Nat
           /\ \A e \in Kind : Texts(Append(q, e)) = Texts(q) + (IF e = "text" THEN 1 ELSE 0)
<1> DEFINE T(p) == {i \in DOMAIN p : p[i] = "text"}
<1>1. \A p \in Seq(Kind) : IsFiniteSet(T(p)) /\ Texts(p) = Cardinality(T(p)) /\ Texts(p) \in Nat
  <2> SUFFICES ASSUME NEW p \in Seq(Kind)
               PROVE  IsFiniteSet(T(p)) /\ Texts(p) = Cardinality(T(p)) /\ Texts(p) \in Nat
    OBVIOUS
  <2>1. IsFiniteSet(1 .. Len(p)) /\ T(p) \subseteq 1 .. Len(p)
    BY FS_Interval
  <2>2. IsFiniteSet(T(p))
    BY <2>1, FS_Subset
  <2> QED BY <2>2, FS_CardinalityType DEF Texts
<1> SUFFICES ASSUME NEW e \in Kind
             PROVE  Texts(Append(q, e)) = Texts(q) + (IF e = "text" THEN 1 ELSE 0)
  BY <1>1
<1> DEFINE r == Append(q, e)
<1>2. /\ r \in Seq(Kind) /\ DOMAIN r = 1 .. (Len(q) + 1) /\ r[Len(q) + 1] = e
      /\ \A i \in 1 .. Len(q) : r[i] = q[i]
      /\ DOMAIN q = 1 .. Len(q) /\ Len(q) \in Nat
  OBVIOUS
<1> HIDE DEF r
<1>3. CASE e = "text"
  <2>1. T(r) = T(q) \cup {Len(q) + 1} /\ Len(q) + 1 \notin T(q)
    BY <1>2, <1>3
  <2> HIDE DEF T
  <2>2. Cardinality(T(r)) = Cardinality(T(q)) + 1
    BY <1>1, <2>1, FS_AddElement
  <2>3. Texts(r) = Texts(q) + 1
    BY <1>1, <1>2, <2>2
  <2> QED BY <1>3, <2>3 DEF r
<1>4. CASE e # "text"
  <2>1. T(r) = T(q)
    BY <1>2, <1>4
  <2>2. Texts(r) = Texts(q)
    BY <2>1 DEF Texts
  <2>3. Texts(q) \in Nat
    BY <1>1
  <2> QED BY <1>4, <2>2, <2>3 DEF r
<1> QED BY <1>3, <1>4

LEMMA NoTexts ==
    ASSUME NEW q \in Seq(Kind), \A i \in DOMAIN q : q[i] # "text"
    PROVE  Texts(q) = 0
<1>1. {i \in DOMAIN q : q[i] = "text"} = {}
  OBVIOUS
<1> QED BY <1>1, FS_EmptySet DEF Texts

LEMMA TextsOfTail ==
    ASSUME NEW q \in Seq(Kind), q # <<>>
    PROVE  Texts(q) = Texts(Tail(q)) + (IF Head(q) = "text" THEN 1 ELSE 0)
<1> DEFINE T(p) == {i \in DOMAIN p : p[i] = "text"}
           up == [i \in T(Tail(q)) |-> i + 1]
           moved == {i + 1 : i \in T(Tail(q))}
<1>1. Tail(q) \in Seq(Kind) /\ Len(Tail(q)) = Len(q) - 1 /\ \A i \in DOMAIN Tail(q) : Tail(q)[i] = q[i + 1]
  OBVIOUS
<1>2. IsFiniteSet(T(Tail(q)))
  <2>1. IsFiniteSet(1 .. Len(Tail(q))) /\ T(Tail(q)) \subseteq 1 .. Len(Tail(q))
    BY <1>1, FS_Interval, SMTT(30)
  <2> QED BY <2>1, FS_Subset
<1>3. up \in Bijection(T(Tail(q)), moved)
  <2>1. T(Tail(q)) \subseteq Nat
    BY <1>1
  <2> HIDE DEF T
  <2>2. up \in [T(Tail(q)) -> moved]
    OBVIOUS
  <2>3. \A i, j \in T(Tail(q)) : up[i] = up[j] => i = j
    BY <2>1
  <2>4. \A m \in moved : \E i \in T(Tail(q)) : up[i] = m
    OBVIOUS
  <2> HIDE DEF up, moved
  <2>5. up \in Injection(T(Tail(q)), moved)
    BY <2>2, <2>3, Zenon DEF Injection, IsInjective
  <2>6. up \in Surjection(T(Tail(q)), moved)
    BY <2>2, <2>4, Zenon DEF Surjection
  <2> QED BY <2>5, <2>6, Zenon DEF Bijection
<1>4. IsFiniteSet(moved) /\ Cardinality(moved) = Cardinality(T(Tail(q)))
  <2> HIDE DEF T, up, moved
  <2> QED BY <1>2, <1>3, FS_Bijection DEF ExistsBijection
<1>5. Texts(q) = Cardinality(T(q)) /\ Texts(Tail(q)) = Cardinality(T(Tail(q))) /\ Texts(Tail(q)) \in Nat
  BY <1>1, TextsOf DEF Texts
<1>6. DOMAIN q = 1 .. Len(q) /\ Head(q) = q[1] /\ Len(q) \in Nat \ {0} /\ DOMAIN Tail(q) = 1 .. (Len(q) - 1)
  OBVIOUS
<1> DEFINE t == Tail(q)
<1> HIDE DEF t
<1>7. \A i : i \in T(q) <=> i \in moved \/ (i = 1 /\ Head(q) = "text")
  <2>1. \A i \in T(t) : i + 1 \in T(q)
    BY <1>1, <1>6 DEF t
  <2>2. \A i \in T(q) : i = 1 \/ i - 1 \in T(t)
    BY <1>1, <1>6 DEF t
  <2>3. \A i \in T(q) : i \in Nat
    BY <1>6
  <2>4. 1 \in T(q) <=> Head(q) = "text"
    BY <1>6
  <2>5. moved = {i + 1 : i \in T(t)}
    BY DEF t
  <2> HIDE DEF T, moved
  <2>6. ASSUME NEW i \in T(q), i # 1 PROVE i \in moved
    <3>1. i = (i - 1) + 1
      BY <2>3
    <3> QED BY <2>2, <2>5, <2>6, <3>1
  <2> QED BY <2>1, <2>4, <2>5, <2>6
<1>8. 1 \notin moved
  BY <1>6
<1> HIDE DEF T, moved
<1>9. CASE Head(q) = "text"
  <2>1. T(q) = moved \cup {1}
    BY <1>7, <1>9
  <2>2. Cardinality(T(q)) = Cardinality(moved) + 1
    BY <1>4, <1>8, <2>1, FS_AddElement
  <2> QED BY <1>4, <1>5, <1>9, <2>2
<1>10. CASE Head(q) # "text"
  <2>1. T(q) = moved
    BY <1>7, <1>10
  <2> QED BY <1>4, <1>5, <1>10, <2>1
<1> QED BY <1>9, <1>10

\* The list r is q and then e.
Grown(saw, q, e, r) ==
    /\ r \in Seq(Kind)
    /\ Texts(r) = Texts(q) + (IF e = "text" THEN 1 ELSE 0)
    /\ Tells(saw, r) <=> Tells(saw, q) \/ e \in Running
    /\ DOMAIN r = DOMAIN q \cup {Len(q) + 1} /\ r[Len(q) + 1] = e
    /\ \A i \in DOMAIN q : i < Len(q) + 1
    /\ \A i \in DOMAIN q : r[i] = q[i] /\ (Closes(saw, r, i) <=> Closes(saw, q, i))
    /\ Closes(saw, r, Len(q) + 1) <=> e = "idle" /\ Tells(saw, q)

LEMMA OneMore ==
    ASSUME NEW q \in Seq(Kind), NEW e \in Kind, NEW saw \in BOOLEAN
    PROVE  Grown(saw, q, e, Append(q, e))
<1> DEFINE r == Append(q, e)
<1>2. /\ r \in Seq(Kind) /\ DOMAIN r = 1 .. (Len(q) + 1) /\ r[Len(q) + 1] = e
      /\ \A i \in 1 .. Len(q) : r[i] = q[i]
      /\ DOMAIN q = 1 .. Len(q) /\ Len(q) \in Nat
  OBVIOUS
<1>3. Texts(r) = Texts(q) + (IF e = "text" THEN 1 ELSE 0)
  BY TextsOf
<1>4. Tells(saw, r) <=> Tells(saw, q) \/ e \in Running
  BY <1>2 DEF Tells
<1>5. \A i \in DOMAIN q : r[i] = q[i] /\ (Closes(saw, r, i) <=> Closes(saw, q, i))
  BY <1>2 DEF Closes
<1>6. Closes(saw, r, Len(q) + 1) <=> e = "idle" /\ Tells(saw, q)
  <2>1. \A j \in DOMAIN r : j < Len(q) + 1 <=> j \in DOMAIN q
    BY <1>2
  <2>2. \A j \in DOMAIN q : j \in DOMAIN r /\ r[j] = q[j]
    BY <1>2
  <2> QED BY <1>2, <2>1, <2>2 DEF Closes, Tells
<1>7. \A i \in DOMAIN q : i < Len(q) + 1
  BY <1>2
<1>8. DOMAIN r = DOMAIN q \cup {Len(q) + 1}
  BY <1>2
<1> QED BY <1>2, <1>3, <1>4, <1>5, <1>6, <1>7, <1>8 DEF Grown

\* The list r is over when q is, or never.
Shortened(saw, q, r) ==
    r \in Seq(Kind) /\ \A i \in DOMAIN r : Closes(saw, r, i) => i \in DOMAIN q /\ Closes(saw, q, i)

LEMMA CutShort ==
    ASSUME NEW q \in Seq(Kind), NEW k \in 0 .. Len(q), NEW saw \in BOOLEAN
    PROVE  Shortened(saw, q, SubSeq(q, 1, k) \o <<"end">>)
<1> DEFINE p == SubSeq(q, 1, k)
           r == p \o <<"end">>
<1>1. /\ p \in Seq(Kind) /\ DOMAIN p = 1 .. k /\ k \in Nat
      /\ \A i \in DOMAIN p : i \in DOMAIN q /\ p[i] = q[i]
  OBVIOUS
<1>2. r = Append(p, "end") /\ "end" \in Kind
  BY <1>1 DEF Kind
<1> HIDE DEF p, r
<1>3. /\ r \in Seq(Kind) /\ DOMAIN r = 1 .. (k + 1) /\ r[k + 1] = "end"
      /\ \A i \in 1 .. k : r[i] = p[i]
  BY <1>1, <1>2
<1>4. ASSUME NEW i \in DOMAIN r, Closes(saw, r, i) PROVE i \in DOMAIN q /\ Closes(saw, q, i)
  <2>1. i \in 1 .. k
    BY <1>1, <1>3, <1>4 DEF Closes
  <2>2. \A j \in DOMAIN r : j < i => j \in DOMAIN q /\ r[j] = q[j]
    BY <1>1, <1>3, <2>1
  <2>3. i \in DOMAIN q /\ r[i] = q[i]
    BY <1>1, <1>3, <2>1
  <2> QED BY <1>4, <2>2, <2>3 DEF Closes
<1>5. Shortened(saw, q, r)
  BY <1>3, <1>4 DEF Shortened
<1> QED BY <1>5 DEF p, r

-----------------------------------------------------------------------------
(* What the client may believe of its stream *)

\* The session tells e, and moves from s to s2.
LEMMA ToldMore ==
    ASSUME NEW r \in Repl, NEW st \in Stream, NEW s \in Session, NEW s2 \in Session,
           NEW sent \in BOOLEAN, TellsTrue(r, st, s, sent), st.h # None,
           NEW e \in Running \cup {"idle", "text"}, s.at # "parked", s2.queue = s.queue,
           e = "idle" => s.at = "top" /\ ~s.again /\ s2.at = "parked" /\ ~s2.again,
           e # "idle" => s.at # "top", e = "text" => s.at # "turn",
           NEW st2, st2 = [st EXCEPT !.events = @ \o <<e>>, !.said = @ + Texts(<<e>>)]
    PROVE  st2 \in Stream /\ TellsTrue(r, st2, s2, sent)
<1> DEFINE q == st.events
           q2 == st2.events
<1>1. /\ q \in Seq(Kind) /\ e \in Kind /\ r.saw \in BOOLEAN /\ r.reply \in Nat /\ st.said \in Nat
      /\ q2 = Append(q, e)
  BY DEF Stream, Repl, Kind
<1>2. /\ q2 \in Seq(Kind) /\ DOMAIN q2 = DOMAIN q \cup {Len(q) + 1} /\ q2[Len(q) + 1] = e
      /\ Texts(q2) = Texts(q) + (IF e = "text" THEN 1 ELSE 0) /\ Texts(q) \in Nat
      /\ Tells(r.saw, q2) <=> Tells(r.saw, q) \/ e \in Running
      /\ \A i \in DOMAIN q : i < Len(q) + 1
      /\ \A i \in DOMAIN q : q2[i] = q[i] /\ (Closes(r.saw, q2, i) <=> Closes(r.saw, q, i))
      /\ Closes(r.saw, q2, Len(q) + 1) <=> e = "idle" /\ Tells(r.saw, q)
  <2>1. Grown(r.saw, q, e, q2)
    BY <1>1, OneMore, Zenon
  <2> QED BY <1>1, <2>1, TextsOf DEF Grown
<1>3. Texts(<<e>>) = IF e = "text" THEN 1 ELSE 0
  <2>1. <<>> \in Seq(Kind) /\ <<e>> = Append(<<>>, e) /\ \A i \in DOMAIN <<>> : <<>>[i] # "text"
    OBVIOUS
  <2>2. Texts(<<>>) = 0
    BY <2>1, NoTexts
  <2>3. Texts(Append(<<>>, e)) = Texts(<<>>) + (IF e = "text" THEN 1 ELSE 0)
    BY <1>1, <2>1, TextsOf, Zenon
  <2> QED BY <2>1, <2>2, <2>3
<1>4. /\ st2.h = st.h /\ st2.calm = st.calm /\ st2.alone = st.alone
      /\ st2.said = st.said + (IF e = "text" THEN 1 ELSE 0) /\ st2 \in Stream
  <2>1. st2.events \in Seq(Kind) /\ st.said + Texts(<<e>>) \in Nat
    BY <1>1, <1>2, <1>3
  <2>2. /\ st2.h = st.h /\ st2.calm = st.calm /\ st2.alone = st.alone
        /\ st2.said = st.said + Texts(<<e>>)
        /\ st2 = [h |-> st.h, events |-> st2.events, calm |-> st.calm, alone |-> st.alone,
                  said |-> st.said + Texts(<<e>>)]
    BY DEF Stream
  <2>3. st2 \in Stream
    BY <2>1, <2>2 DEF Stream
  <2> QED BY <1>3, <2>2, <2>3
<1> SUFFICES ASSUME st.calm, st.alone PROVE TellsTrue(r, st2, s2, sent)
  BY <1>4 DEF TellsTrue
<1>5. /\ Awaits(r.saw, q, s, sent) /\ r.reply + Texts(q) = st.said /\ r.at # "replied"
      /\ \A i \in DOMAIN q : ~Closes(r.saw, q, i)
  BY DEF TellsTrue, Ended
<1> HIDE DEF q, q2
<1>6. Awaits(r.saw, q2, s2, sent)
  <2>1. CASE Tells(r.saw, q)
    BY <1>2, <1>5, <2>1 DEF Awaits
  <2>2. CASE ~Tells(r.saw, q) /\ e = "idle"
    <3>1. ~Tells(r.saw, q2) /\ \A i \in DOMAIN q2 : q2[i] = "idle"
      BY <1>2, <1>5, <2>2 DEF Awaits, Running
    <3> QED BY <1>5, <2>2, <3>1 DEF Awaits
  <2>3. CASE ~Tells(r.saw, q) /\ e # "idle"
    <3>1. s.at = "turn" /\ s.queue = 0 /\ sent
      BY <1>5, <2>3 DEF Awaits
    <3> QED BY <1>2, <2>3, <3>1 DEF Awaits, Running
  <2> QED BY <2>1, <2>2, <2>3
<1>7. r.reply + Texts(q2) = st2.said
  BY <1>1, <1>2, <1>4, <1>5
<1>8. ASSUME NEW i \in DOMAIN q2, Closes(r.saw, q2, i)
      PROVE  i = Len(q) + 1 /\ Ended(s2)
  <2>1. i = Len(q) + 1 /\ e = "idle" /\ Tells(r.saw, q)
    BY <1>2, <1>5, <1>8
  <2> QED BY <1>5, <2>1 DEF Awaits, Ended
<1>9. \A i \in DOMAIN q2 : Closes(r.saw, q2, i) => \A j \in DOMAIN q2 : ~ (j > i)
  <2>1. Len(q) \in Nat
    BY <1>1 DEF q
  <2>2. DOMAIN q = 1 .. Len(q)
    BY <1>1 DEF q
  <2> QED BY <1>2, <1>8, <2>1, <2>2
<1> QED BY <1>4, <1>5, <1>6, <1>7, <1>8, <1>9 DEF TellsTrue, q2

\* The stream of a session whose loop has not parked loses its backlog.
LEMMA ToldCut ==
    ASSUME NEW r \in Repl, NEW st \in Stream, NEW s, NEW sent, TellsTrue(r, st, s, sent),
           st.h # None, s.at # "parked", NEW k \in 0 .. Len(st.events), NEW said \in Nat,
           NEW st2, st2 = [st EXCEPT !.events = SubSeq(@, 1, k) \o <<"end">>, !.h = None, !.said = said],
           NEW s2, NEW sent2
    PROVE  st2 \in Stream /\ TellsTrue(r, st2, s2, sent2)
<1>1. /\ st.events \in Seq(Kind) /\ r.saw \in BOOLEAN
      /\ st2.events = SubSeq(st.events, 1, k) \o <<"end">>
  BY DEF Stream, Repl
<1>2. /\ st2.events \in Seq(Kind)
      /\ \A i \in DOMAIN st2.events : Closes(r.saw, st2.events, i)
                                         => i \in DOMAIN st.events /\ Closes(r.saw, st.events, i)
  <2> DEFINE q == st.events
             q2 == st2.events
  <2>1. q \in Seq(Kind) /\ k \in 0 .. Len(q) /\ r.saw \in BOOLEAN /\ q2 = SubSeq(q, 1, k) \o <<"end">>
    BY <1>1
  <2> HIDE DEF q, q2
  <2>2. q2 \in Seq(Kind) /\ \A i \in DOMAIN q2 : Closes(r.saw, q2, i) => i \in DOMAIN q /\ Closes(r.saw, q, i)
    <3>1. Shortened(r.saw, q, q2)
      BY <2>1, CutShort, Zenon
    <3> QED BY <3>1 DEF Shortened
  <2> QED BY <2>2 DEF q, q2
<1>3. st2 \in Stream /\ st2.h = None /\ st2.calm = st.calm /\ st2.alone = st.alone
  BY <1>2 DEF Stream
<1>4. st.calm /\ st.alone => r.at # "replied" /\ \A i \in DOMAIN st.events : ~Closes(r.saw, st.events, i)
  BY DEF TellsTrue, Ended
<1> QED BY <1>2, <1>3, <1>4 DEF TellsTrue

\* The stream ends after what it told.
LEMMA ToldEnd ==
    ASSUME NEW r \in Repl, NEW st \in Stream, NEW s, NEW sent, TellsTrue(r, st, s, sent), st.h # None,
           NEW st2, st2 = [st EXCEPT !.events = Append(@, "end"), !.h = None], NEW s2, NEW sent2
    PROVE  st2 \in Stream /\ TellsTrue(r, st2, s2, sent2)
<1> DEFINE q == st.events
           q2 == st2.events
<1>1. q \in Seq(Kind) /\ r.saw \in BOOLEAN /\ "end" \in Kind /\ q2 = Append(q, "end")
  BY DEF Stream, Repl, Kind
<1>2. /\ q2 \in Seq(Kind) /\ DOMAIN q2 = DOMAIN q \cup {Len(q) + 1} /\ q2[Len(q) + 1] = "end"
      /\ Texts(q2) = Texts(q) /\ Texts(q) \in Nat
      /\ \A i \in DOMAIN q : q2[i] = q[i] /\ (Closes(r.saw, q2, i) <=> Closes(r.saw, q, i))
  <2>1. Grown(r.saw, q, "end", q2)
    BY <1>1, OneMore, Zenon
  <2> QED BY <1>1, <2>1, TextsOf DEF Grown
<1>3. st2 \in Stream /\ st2.h = None /\ st2.calm = st.calm /\ st2.alone = st.alone /\ st2.said = st.said
  BY <1>2 DEF Stream
<1> HIDE DEF q, q2
<1>4. \A i \in DOMAIN q2 : Closes(r.saw, q2, i) => i \in DOMAIN q
  BY <1>2 DEF Closes
<1>5. st.calm /\ st.alone => \A i \in DOMAIN q : Closes(r.saw, q, i) =>
          /\ \A j \in DOMAIN q : j > i => q[j] = "end"
          /\ r.reply + Texts(q) = st.said
  BY DEF TellsTrue, q
<1>6. st.calm /\ st.alone => \A i \in DOMAIN q2 : Closes(r.saw, q2, i) =>
          /\ \A j \in DOMAIN q2 : j > i => q2[j] = "end"
          /\ r.reply + Texts(q2) = st2.said
  BY <1>2, <1>3, <1>4, <1>5
<1> QED BY <1>3, <1>6 DEF TellsTrue, q2

\* Nothing is told while the session moves from s to s2.
LEMMA ToldMove ==
    ASSUME NEW r, NEW st, NEW s, NEW s2, NEW sent, NEW sent2, TellsTrue(r, st, s, sent),
           st.calm /\ st.alone /\ st.h # None =>
              /\ Awaits(r.saw, st.events, s, sent) => Awaits(r.saw, st.events, s2, sent2)
              /\ Ended(s) => Ended(s2)
    PROVE  TellsTrue(r, st, s2, sent2)
  BY DEF TellsTrue

-----------------------------------------------------------------------------
(* A session publishes *)

\* The stream loses what it knows or its session, and gains neither.
StreamTo ==
    /\ stream' \in Stream /\ stream'.h \in {stream.h, None}
    /\ stream'.calm => stream.calm
    /\ stream'.alone => stream.alone

LEMMA PublishType ==
    ASSUME NEW st \in Stream, NEW h \in Handle, NEW e \in Kind, PublishTo(st, h, <<e>>)
    PROVE  /\ stream' \in Stream /\ stream'.h \in {st.h, None}
           /\ stream'.calm = st.calm /\ stream'.alone = st.alone
           /\ st.h # h => stream' = st
<1> DEFINE q == st.events
<1>1. q \in Seq(Kind) /\ <<e>> \in Seq(Kind) /\ "end" \in Kind /\ st.said \in Nat
  BY DEF Stream, Kind
<1>2. Texts(<<e>>) \in Nat
  BY <1>1, TextsOf
<1>3. q \o <<e>> \in Seq(Kind) /\ st.said + Texts(<<e>>) \in Nat
  BY <1>1, <1>2
<1>4. CASE st.h # h
  BY <1>4 DEF PublishTo
<1>5. CASE st.h = h /\ stream' = [st EXCEPT !.events = @ \o <<e>>, !.said = @ + Texts(<<e>>)]
  <2>1. stream' = [st EXCEPT !.events = q \o <<e>>, !.said = st.said + Texts(<<e>>)]
    BY <1>5
  <2> HIDE DEF q
  <2> QED BY <1>3, <1>5, <2>1 DEF Stream
<1>6. CASE st.h = h /\ \E k \in 0 .. Len(st.events) :
               stream' = [st EXCEPT !.events = SubSeq(@, 1, k) \o <<"end">>,
                                    !.h = None, !.said = @ + Texts(<<e>>)]
  <2>1. PICK k \in 0 .. Len(q) :
            stream' = [st EXCEPT !.events = SubSeq(q, 1, k) \o <<"end">>,
                                 !.h = None, !.said = st.said + Texts(<<e>>)]
    BY <1>6
  <2>2. SubSeq(q, 1, k) \o <<"end">> \in Seq(Kind)
    <3>1. Shortened(TRUE, q, SubSeq(q, 1, k) \o <<"end">>)
      BY <1>1, CutShort
    <3> QED BY <3>1 DEF Shortened
  <2> HIDE DEF q
  <2> QED BY <1>3, <1>6, <2>1, <2>2 DEF Stream
<1> QED BY <1>4, <1>5, <1>6 DEF PublishTo

\* What a session tells is true if it fits the move from s to s2.
Fits(s, s2, e) ==
    /\ s.at # "parked" /\ s2.queue = s.queue
    /\ e = "idle" => s.at = "top" /\ ~s.again /\ s2.at = "parked" /\ ~s2.again
    /\ e # "idle" => s.at # "top"
    /\ e = "text" => s.at # "turn"

LEMMA Publishing ==
    ASSUME IInv, stream \in Stream, Told, NEW h \in Handle, NEW s2 \in Session,
           session' = [session EXCEPT ![h] = s2], Sent' = Sent, UNCHANGED repl,
           NEW e \in Running \cup {"idle", "text"}, Publish(h, <<e>>),
           stream.h = h /\ stream.calm /\ stream.alone => Fits(session[h], s2, e)
    PROVE  StreamTo /\ Told'
<1>1. /\ repl \in Repl /\ session \in [Handle -> Session] /\ e \in Kind
      /\ TellsTrue(repl, stream, session[stream.h], Sent) /\ Sent \in BOOLEAN
  BY DEF IInv, Typed, TypeOK, Kind, Told, Sent
<1>2. /\ stream' \in Stream /\ stream'.h \in {stream.h, None}
      /\ stream'.calm = stream.calm /\ stream'.alone = stream.alone
      /\ stream.h # h => stream' = stream
  BY <1>1, PublishType DEF Publish
<1>3. StreamTo
  BY <1>2 DEF StreamTo
<1>4. CASE stream.h # h
  <2>1. stream' = stream /\ (stream.h # None => session'[stream.h] = session[stream.h])
    BY <1>1, <1>2, <1>4 DEF Stream
  <2>2. TellsTrue(repl, stream, session'[stream.h], Sent)
    BY <1>1, <2>1, ToldMove
  <2> QED BY <1>3, <2>1, <2>2 DEF Told
<1>5. CASE stream.h = h /\ ~ (stream.calm /\ stream.alone)
  BY <1>2, <1>3, <1>5 DEF Told, TellsTrue
<1>6. CASE stream.h = h /\ stream.calm /\ stream.alone
  <2>1. stream.h # None /\ session'[h] = s2 /\ session[h] \in Session /\ Fits(session[h], s2, e)
    BY <1>1, <1>6, Apart
  <2>2. CASE stream' = [stream EXCEPT !.events = @ \o <<e>>, !.said = @ + Texts(<<e>>)]
    <3>1. TellsTrue(repl, stream', s2, Sent)
      BY <1>1, <1>6, <2>1, <2>2, ToldMore, ZenonT(30) DEF Fits
    <3>2. stream'.h = h
      BY <1>6, <2>2 DEF Stream
    <3> QED BY <1>3, <2>1, <3>1, <3>2 DEF Told
  <2>3. ASSUME NEW k \in 0 .. Len(stream.events),
               stream' = [stream EXCEPT !.events = SubSeq(@, 1, k) \o <<"end">>,
                                        !.h = None, !.said = @ + Texts(<<e>>)]
        PROVE  Told'
    <3>1. stream.said + Texts(<<e>>) \in Nat
      <4>1. <<e>> \in Seq(Kind) /\ stream.said \in Nat
        BY <1>1 DEF Stream
      <4>2. Texts(<<e>>) \in Nat
        BY <4>1, TextsOf, Zenon
      <4> QED BY <4>1, <4>2
    <3>2. stream' = [stream EXCEPT !.events = SubSeq(@, 1, k) \o <<"end">>,
                                   !.h = None, !.said = stream.said + Texts(<<e>>)]
      BY <2>3
    <3>3. TellsTrue(repl, stream', session'[stream'.h], Sent)
      BY <1>1, <1>6, <2>1, <3>1, <3>2, ToldCut DEF Fits
    <3> QED BY <3>3 DEF Told
  <2> QED BY <1>3, <1>6, <2>2, <2>3 DEF Publish, PublishTo
<1> QED BY <1>4, <1>5, <1>6

\* Nothing is told, and the session h moves to s2.
LEMMA Moving ==
    ASSUME IInv, stream \in Stream, Told, NEW h \in Handle, NEW s2,
           session' = [session EXCEPT ![h] = s2], UNCHANGED <<repl, stream>>,
           NEW sent2, Sent' = sent2,
           stream.calm /\ stream.alone /\ stream.h # None =>
              LET s == IF stream.h = h THEN s2 ELSE session[stream.h] IN
              /\ Awaits(repl.saw, stream.events, session[stream.h], Sent)
                    => Awaits(repl.saw, stream.events, s, sent2)
              /\ Ended(session[stream.h]) => Ended(s)
    PROVE  StreamTo /\ Told'
<1>1. StreamTo
  BY DEF StreamTo
<1>2. stream.h # None => session'[stream.h] = IF stream.h = h THEN s2 ELSE session[stream.h]
  BY DEF IInv, Typed, TypeOK, Stream
<1>3. TellsTrue(repl, stream, session[stream.h], Sent)
  BY DEF Told
<1>4. TellsTrue(repl, stream, session'[stream.h], Sent')
  BY <1>2, <1>3, ToldMove
<1> QED BY <1>1, <1>4 DEF Told

\* The stream ends with a session that fails.
LEMMA FatalTold ==
    ASSUME IInv, stream \in Stream, Told, ~Ended(session[stream.h]), stream.h # None, UNCHANGED repl,
           stream' = [stream EXCEPT !.events = @ \o <<"fatal", "end">>, !.h = None]
    PROVE  StreamTo /\ Told'
<1> DEFINE q == stream.events
           q2 == stream'.events
<1>1. /\ q \in Seq(Kind) /\ {"fatal", "end"} \subseteq Kind /\ q2 = q \o <<"fatal", "end">>
      /\ stream'.h = None /\ stream'.calm = stream.calm /\ stream'.alone = stream.alone
      /\ stream'.said = stream.said
  BY DEF Stream, Kind
<1>2. /\ q2 \in Seq(Kind) /\ DOMAIN q2 = 1 .. (Len(q) + 2) /\ DOMAIN q = 1 .. Len(q) /\ Len(q) \in Nat
      /\ \A i \in 1 .. Len(q) : q2[i] = q[i]
      /\ q2[Len(q) + 1] = "fatal" /\ q2[Len(q) + 2] = "end"
  BY <1>1
<1>3. StreamTo
  BY <1>1, <1>2 DEF StreamTo, Stream
<1> HIDE DEF q, q2
<1>4. \A i \in DOMAIN q2 : Closes(repl.saw, q2, i) => i \in DOMAIN q /\ Closes(repl.saw, q, i)
  <2> SUFFICES ASSUME NEW i \in DOMAIN q2, Closes(repl.saw, q2, i)
               PROVE  i \in DOMAIN q /\ Closes(repl.saw, q, i)
    OBVIOUS
  <2>1. i \in 1 .. Len(q)
    BY <1>2 DEF Closes
  <2>2. \A j \in DOMAIN q2 : j < i => j \in DOMAIN q /\ q2[j] = q[j]
    BY <1>2, <2>1
  <2> QED BY <1>2, <2>1, <2>2 DEF Closes
<1>5. stream.calm /\ stream.alone => repl.at # "replied" /\ \A i \in DOMAIN q : ~Closes(repl.saw, q, i)
  BY DEF Told, TellsTrue, q
<1>6. TellsTrue(repl, stream', session'[stream'.h], Sent')
  BY <1>1, <1>4, <1>5 DEF TellsTrue, q2
<1> QED BY <1>3, <1>6 DEF Told

LEMMA AgentTold ==
    ASSUME IInv, stream \in Stream, Told, NEW h \in Handle, AgentStep(h), UNCHANGED repl
    PROVE  StreamTo /\ Told'
<1>1. /\ session \in [Handle -> Session] /\ session[h] \in Session
      /\ session' \in [Handle -> Session]
  BY AgentQuiet DEF IInv, Typed, TypeOK
<1>2. UNCHANGED call /\ Sent' = Sent
  BY ZenonT(30) DEF AgentStep, Top, Wake, Turn, Speak, EndReply, CallTool, Commit, Fold, Works, AgentOnly, Sent
<1>3. ASSUME NEW s2, Become(h, s2) PROVE session' = [session EXCEPT ![h] = s2] /\ s2 \in Session
  BY <1>1, <1>3 DEF Become
<1>4. ASSUME NEW s2, NEW e \in Running \cup {"idle", "text"}, Become(h, s2), Publish(h, <<e>>),
             Fits(session[h], s2, e)
      PROVE  StreamTo /\ Told'
  BY <1>2, <1>3, <1>4, Publishing
\* In the midst of a turn, which the client knows of, nothing is queued.
<1>5. ASSUME NEW s2, Become(h, s2), UNCHANGED stream, session[h].at \notin {"top", "parked", "turn"},
             s2.queue = session[h].queue
      PROVE  StreamTo /\ Told'
  <2>1. Awaits(repl.saw, stream.events, session[h], Sent) => Awaits(repl.saw, stream.events, s2, Sent)
    BY <1>5 DEF Awaits
  <2>2. ~Ended(session[h])
    BY <1>5 DEF Ended
  <2>3. session' = [session EXCEPT ![h] = s2] /\ UNCHANGED <<repl, stream>>
    BY <1>3, <1>5
  <2> QED BY <1>2, <2>1, <2>2, <2>3, Moving
<1>6. CASE Top(h)
  <2> DEFINE s == session[h]
             turn == [s EXCEPT !.queue = IF s.drain THEN 0 ELSE @, !.at = "turn"]
             park == [s EXCEPT !.at = "parked", !.status = Reported(h, "idle")]
  <2>1. s.at = "top"
    BY <1>6 DEF Top, Works
  <2>2. ASSUME s.again \/ (s.queue > 0 /\ s.drain), Become(h, turn), UNCHANGED stream
        PROVE  StreamTo /\ Told'
    <3>1. turn.at = "turn" /\ turn.queue = (IF s.drain THEN 0 ELSE s.queue)
      BY <1>1 DEF Session
    <3>2. Awaits(repl.saw, stream.events, s, Sent) => Awaits(repl.saw, stream.events, turn, Sent)
      BY <2>1, <2>2, <3>1 DEF Awaits
    <3>3. ~Ended(s)
      BY <2>1 DEF Ended
    <3> HIDE DEF turn
    <3> QED BY <1>2, <1>3, <2>2, <3>2, <3>3, Moving, ZenonT(100)
  <2>3. ASSUME ~s.again, Become(h, park), Publish(h, <<"idle">>)
        PROVE  StreamTo /\ Told'
    <3>1. Fits(s, park, "idle")
      BY <1>1, <2>1, <2>3 DEF Fits, Session
    <3> HIDE DEF park
    <3> QED BY <1>4, <2>3, <3>1
  <2> QED BY <1>6, <2>2, <2>3 DEF Top
<1>7. CASE Wake(h)
  <2> DEFINE s == session[h]
             turn == [s EXCEPT !.queue = @ - 1, !.at = "turn"]
  <2>1. s.at = "parked" /\ s.queue > 0 /\ UNCHANGED stream /\ Become(h, turn) /\ s.queue \in Nat
    BY <1>1, <1>7 DEF Wake, Works, Session
  <2>2. turn.at = "turn" /\ turn.queue = s.queue - 1
    BY <1>1 DEF Session
  <2>3. ~Ended(s)
    BY <2>1 DEF Ended
  <2>4. Awaits(repl.saw, stream.events, s, Sent) => Awaits(repl.saw, stream.events, turn, Sent)
    BY <2>1, <2>2 DEF Awaits
  <2> HIDE DEF turn
  <2> QED BY <1>2, <1>3, <2>1, <2>3, <2>4, Moving
<1>8. CASE Turn(h)
  <2> DEFINE s == [session[h] EXCEPT !.status = Reported(h, "busy")]
             model == [s EXCEPT !.at = "model"]
             top == [s EXCEPT !.token = FALSE, !.again = FALSE, !.at = "top"]
  <2>1. session[h].at = "turn" /\ Publish(h, <<"busy">>) /\ (Become(h, model) \/ Become(h, top))
    BY <1>8 DEF Turn, Works
  <2>2. Fits(session[h], model, "busy") /\ Fits(session[h], top, "busy")
    <3>2. model.queue = session[h].queue /\ top.queue = session[h].queue
      BY <1>1 DEF Session
    <3> HIDE DEF model, top
    <3> QED BY <2>1, <3>2 DEF Fits
  <2> HIDE DEF model, top
  <2> QED BY <1>4, <2>1, <2>2 DEF Running
<1>9. CASE Speak(h)
  <2>1. session[h].at = "model" /\ Publish(h, <<"text">>) /\ session' = session
    BY <1>9 DEF Speak, Works
  <2>2. Become(h, session[h])
    BY <1>1, <2>1 DEF Become
  <2>3. Fits(session[h], session[h], "text")
    BY <2>1 DEF Fits
  <2> QED BY <1>4, <2>1, <2>2, <2>3
<1>10. CASE EndReply(h)
  <2>1. session[h].at = "model" /\ UNCHANGED stream
    BY <1>10 DEF EndReply, Works
  <2>2. \A kept \in {session[h].token, FALSE} :
            [session[h] EXCEPT !.token = kept, !.again = FALSE, !.at = "commit"].queue = session[h].queue
    BY <1>1 DEF Session
  <2>3. [session[h] EXCEPT !.token = FALSE, !.again = FALSE, !.at = "top"].queue = session[h].queue
    BY <1>1 DEF Session
  <2> QED BY <1>5, <1>10, <2>1, <2>2, <2>3 DEF EndReply
<1>11. CASE CallTool(h)
  <2> DEFINE go == [session[h] EXCEPT !.again = TRUE, !.at = "commit"]
             ask == [session[h] EXCEPT !.again = TRUE, !.at = "asked", !.status = Moved(h, "waiting")]
  <2>1. /\ session[h].at = "model"
        /\ \/ Become(h, go) /\ UNCHANGED stream
           \/ Become(h, ask) /\ Publish(h, <<"waiting">>)
    BY <1>11 DEF CallTool, Works
  <2>2. go.queue = session[h].queue /\ ask.queue = session[h].queue
    BY <1>1 DEF Session
  <2> HIDE DEF go, ask
  <2>3. Fits(session[h], ask, "waiting")
    BY <2>1, <2>2 DEF Fits
  <2> QED BY <1>4, <1>5, <2>1, <2>2, <2>3 DEF Running
<1>12. CASE Commit(h)
  <2> DEFINE top == [session[h] EXCEPT !.at = "top"]
             fold == [session[h] EXCEPT !.at = "folding", !.status = Moved(h, "compacting")]
  <2>1. session[h].at = "commit"
    BY <1>12 DEF Commit, Works
  <2>2. top.queue = session[h].queue /\ fold.queue = session[h].queue
    BY <1>1 DEF Session
  <2>3. CASE Become(h, top) /\ UNCHANGED stream
    BY <1>5, <2>1, <2>2, <2>3
  <2>4. CASE Become(h, fold) /\ Publish(h, <<"compacting">>)
    <3> HIDE DEF fold
    <3>1. Fits(session[h], fold, "compacting")
      BY <2>1, <2>2 DEF Fits
    <3> QED BY <1>4, <2>4, <3>1 DEF Running
  <2>5. CASE stream' = IF stream.h # h THEN stream
                       ELSE [stream EXCEPT !.events = @ \o <<"fatal", "end">>, !.h = None]
    <3>1. CASE stream.h # h
      <4>1. PICK s2 : session' = [session EXCEPT ![h] = s2]
        BY <1>12 DEF Commit, Become
      <4> QED BY <1>2, <2>5, <3>1, <4>1, Moving
    <3>2. CASE stream.h = h
      <4>1. stream' = [stream EXCEPT !.events = @ \o <<"fatal", "end">>, !.h = None]
        BY <2>5, <3>2
      <4>2. ~Ended(session[stream.h]) /\ stream.h # None
        BY <2>1, <3>2, Apart DEF Ended
      <4> QED BY <1>2, <4>1, <4>2, FatalTold
    <3> QED BY <3>1, <3>2
  <2> QED BY <1>12, <2>3, <2>4, <2>5 DEF Commit
<1>13. CASE Fold(h)
  <2> DEFINE j == [stream EXCEPT !.calm = @ /\ stream.h # h]
  <2>1. PublishTo(j, h, <<"idle">>) /\ \E s2 : Become(h, s2)
    BY <1>13 DEF Fold
  <2>2. /\ j \in Stream /\ j.h = stream.h /\ j.alone = stream.alone
        /\ j.calm = (stream.calm /\ stream.h # h) /\ "idle" \in Kind
    BY DEF Stream, Kind
  <2>3. /\ stream' \in Stream /\ stream'.h \in {j.h, None}
        /\ stream'.calm = j.calm /\ stream'.alone = j.alone
        /\ j.h # h => stream' = j
    <3> HIDE DEF j
    <3> QED BY <2>1, <2>2, PublishType
  <2>4. CASE stream.h = h
    <3>1. StreamTo /\ ~stream'.calm
      BY <2>2, <2>3, <2>4 DEF StreamTo
    <3> QED BY <3>1 DEF Told, TellsTrue
  <2>5. CASE stream.h # h
    <3>1. j = stream
      BY <2>5 DEF Stream
    <3>2. PICK s2 : session' = [session EXCEPT ![h] = s2]
      BY <2>1 DEF Become
    <3> QED BY <1>2, <2>2, <2>3, <2>5, <3>1, <3>2, Moving
  <2> QED BY <2>4, <2>5
<1> QED BY <1>6, <1>7, <1>8, <1>9, <1>10, <1>11, <1>12, <1>13 DEF AgentStep

-----------------------------------------------------------------------------
(* What surrounds the stream *)

Around == Kept /\ LineStream /\ OnlyUs

\* A closed handle stays still.
Stills(h) == ~session[h].open => session[h].status = "tombstone" /\ session[h].at = "over"

LEMMA KeptStills == Around => \A h \in Handle : Stills(h)
  BY DEF Around, Kept, Stills

\* A request moves on or ends; it takes no session but its own.
Follows(c, r) ==
    /\ call[c].at # "answered" /\ r.op \in {call[c].op, "none"}
    /\ c = Line => r.op = call[c].op
    /\ r.op \in {"chat", "compact"} => r.id = call[c].id
    /\ r.at \in Acting => r.h # None

LEMMA AroundStep ==
    ASSUME IInv, Around, NEW c \in Caller, NEW r, call' = [call EXCEPT ![c] = r], Follows(c, r),
           StreamTo, UNCHANGED repl,
           r.h # None => session'[r.h].of \in {r.id, None},
           \A d \in Caller \ {c} : call[d].h # None => session'[call[d].h].of \in {session[call[d].h].of, None},
           stream'.h # None => session'[stream'.h].open /\ session'[stream'.h].of = session[stream'.h].of,
           \A h \in Handle : (Stills(h))'
    PROVE  Around'
<1>1. /\ call'[c] = r /\ \A d \in Caller \ {c} : call'[d] = call[d]
      /\ Line \in Caller /\ Client \subseteq Caller /\ Line \notin Client
  BY Apart DEF IInv, Typed, TypeOK, Caller
<1>2. Kept'
  <2>1. stream' \in Stream /\ (stream'.h # None => session'[stream'.h].open)
    BY DEF StreamTo
  <2>2. \A h \in Handle : ~session'[h].open => session'[h].status = "tombstone" /\ session'[h].at = "over"
    BY DEF Stills
  <2>3. \A d \in Caller : call'[d].h # None => session'[call'[d].h].of \in {call'[d].id, None}
    BY <1>1 DEF Around, Kept
  <2>4. \A d \in Caller : call'[d].at \in Acting => call'[d].h # None
    BY <1>1 DEF Around, Kept, Follows
  <2> QED BY <2>1, <2>2, <2>3, <2>4 DEF Kept
<1>3. LineStream'
  <2>1. call'[Line].op = call[Line].op /\ (call[Line].at = "answered" => call'[Line].at = "answered")
    BY <1>1 DEF Follows
  <2>2. stream'.calm \/ stream'.h # None => stream.calm \/ stream.h # None
    BY DEF StreamTo
  <2> QED BY <2>1, <2>2 DEF Around, LineStream
<1>4. OnlyUs'
  <2> SUFFICES ASSUME stream'.h # None, stream'.alone, NEW d \in Client, Prompts(d)'
               PROVE  call'[d].id # session'[stream'.h].of
    BY DEF OnlyUs
  <2>1. stream'.h = stream.h /\ stream.alone
    BY DEF StreamTo
  <2>2. Prompts(d) /\ call'[d].id = call[d].id
    BY <1>1 DEF Prompts, Follows
  <2> QED BY <1>1, <2>1, <2>2 DEF Around, OnlyUs
<1> QED BY <1>2, <1>3, <1>4 DEF Around

\* As above, when no session opens or closes.
LEMMA AroundQuiet ==
    ASSUME IInv, Around, NEW c \in Caller, NEW r, call' = [call EXCEPT ![c] = r], Follows(c, r),
           StreamTo, UNCHANGED repl,
           r.h \in {call[c].h, None} /\ (r.h # None => r.id = call[c].id),
           \A g \in Handle : session'[g].of = session[g].of /\ session'[g].open = session[g].open,
           \A h \in Handle : (Stills(h))'
    PROVE  Around'
<1>1. \A d \in Caller : call[d].h # None => call[d].h \in Handle
  BY DEF IInv, Typed, TypeOK, Request
<1>2. stream'.h # None => stream'.h \in Handle /\ session[stream'.h].open
  BY DEF Around, Kept, StreamTo, Stream
<1>3. r.h # None => session'[r.h].of \in {r.id, None}
  BY <1>1 DEF Around, Kept
<1> QED BY <1>1, <1>2, <1>3, AroundStep

\* The request of the line client is not taken for the acceptance of its message.
LEMMA SentSame ==
    ASSUME IInv, Around, NEW c \in Caller, NEW r, call' = [call EXCEPT ![c] = r], Follows(c, r),
           UNCHANGED repl, call[c].op = "chat" /\ r.at = "answered" => r.code # 202
    PROVE  Sent' = Sent
<1>1. call'[c] = r /\ (c # Line => call'[Line] = call[Line]) /\ Line \in Caller
  BY DEF IInv, Typed, TypeOK, Caller
<1>2. repl.at = "asking" /\ repl.then = "chat" => call[Line].op = "chat"
  BY DEF Around, LineStream
<1> QED BY <1>1, <1>2 DEF Sent, Follows

\* Nothing is told and nothing happens to the session of the stream.
LEMMA Untold ==
    ASSUME IInv, stream \in Stream, Told, UNCHANGED <<repl, stream>>, Sent' = Sent,
           stream.h # None => session'[stream.h] = session[stream.h]
    PROVE  StreamTo /\ Told'
<1>1. TellsTrue(repl, stream, session[stream.h], Sent)
  BY DEF Told
<1>2. TellsTrue(repl, stream, session'[stream.h], Sent')
  BY <1>1, ToldMove
<1> QED BY <1>2 DEF Told, StreamTo

\* Sessions are closed, and the stream of one of them ends.
LEMMA Releasing ==
    ASSUME IInv, stream \in Stream, Told, NEW H, None \notin H, Release(H), UNCHANGED repl, Sent' = Sent,
           stream.h # None /\ stream.h \notin H => session'[stream.h] = session[stream.h]
    PROVE  StreamTo /\ Told' /\ stream'.h \notin H
<1>1. CASE stream.h # None /\ stream.h \in H
  <2>1. stream' = [stream EXCEPT !.events = Append(@, "end"), !.h = None]
    BY <1>1 DEF Release
  <2>2. repl \in Repl /\ TellsTrue(repl, stream, session[stream.h], Sent)
    BY DEF IInv, Typed, TypeOK, Told
  <2>3. stream' \in Stream /\ TellsTrue(repl, stream', session'[stream'.h], Sent')
    BY <1>1, <2>1, <2>2, ToldEnd
  <2>4. stream'.h = None /\ stream'.calm = stream.calm /\ stream'.alone = stream.alone
    BY <2>1 DEF Stream
  <2> QED BY <2>3, <2>4 DEF Told, StreamTo
<1>2. CASE stream.h \notin H
  <2>1. UNCHANGED stream
    BY <1>2 DEF Release
  <2> QED BY <1>2, <2>1, Untold
<1> QED BY <1>1, <1>2

\* A loop that runs is that of an open session.
LEMMA AgentAround ==
    ASSUME IInv, Around, NEW h \in Handle, AgentStep(h), UNCHANGED repl, StreamTo
    PROVE  Around'
<1>1. UNCHANGED call
  BY DEF AgentStep, Top, Wake, Turn, Speak, EndReply, CallTool, Commit, Fold, Works, AgentOnly
<1>2. \A g \in Handle : session'[g].of = session[g].of /\ session'[g].open = session[g].open
  BY AgentQuiet DEF IInv, Typed, TypeOK
<1>3. session[h].at # "over" /\ \A g \in Handle \ {h} : session'[g] = session[g]
  <2>1. session' = session \/ \E s2 : session' = [session EXCEPT ![h] = s2]
    BY DEF AgentStep, Top, Wake, Turn, Speak, EndReply, CallTool, Commit, Fold, Become
  <2>2. session[h].at # "over"
    BY DEF AgentStep, Top, Wake, Turn, Speak, EndReply, CallTool, Commit, Fold, Works
  <2> QED BY <2>1, <2>2, SMTT(30) DEF IInv, Typed, TypeOK
<1>4. \A g \in Handle : ~session'[g].open => session'[g].status = "tombstone" /\ session'[g].at = "over"
  BY <1>2, <1>3 DEF Around, Kept
<1>5. Kept'
  <2>1. stream' \in Stream /\ (stream'.h # None => session'[stream'.h].open)
    BY <1>2 DEF StreamTo, Around, Kept, Stream
  <2>2. \A c \in Caller : call'[c].h # None => session'[call'[c].h].of \in {call'[c].id, None}
    BY <1>1, <1>2 DEF Around, Kept, IInv, Typed, TypeOK, Request
  <2>3. \A c \in Caller : call'[c].at \in Acting => call'[c].h # None
    BY <1>1 DEF Around, Kept
  <2> QED BY <1>4, <2>1, <2>2, <2>3 DEF Kept
<1>6. LineStream'
  BY <1>1 DEF Around, LineStream, StreamTo
<1>7. OnlyUs'
  BY <1>1, <1>2 DEF Around, OnlyUs, StreamTo, Prompts, Stream
<1> QED BY <1>5, <1>6, <1>7, SMTT(30) DEF Around

-----------------------------------------------------------------------------
(* Requests and the stream *)

\* The stream holds what the line client may believe.
Good == Around /\ Told

\* A request that tells nothing and moves no session.
LEMMA SilentStep ==
    ASSUME IInv, Good, NEW c \in Caller, NEW r, call' = [call EXCEPT ![c] = r], Follows(c, r),
           UNCHANGED <<repl, stream, session>>,
           r.h \in {call[c].h, None} /\ (r.h # None => r.id = call[c].id),
           call[c].op = "chat" /\ r.at = "answered" => r.code # 202
    PROVE  Good'
<1>1. StreamTo /\ Told'
  <2>1. Sent' = Sent
    BY SentSame DEF Good
  <2> QED BY <2>1, Untold DEF Good, Around, Kept
<1>2. \A h \in Handle : (Stills(h))'
  BY KeptStills DEF Stills, Good
<1>3. Around'
  BY <1>1, <1>2, AroundQuiet DEF Good
<1> QED BY <1>1, <1>3 DEF Good

\* A request is answered.
LEMMA ReplyFollows ==
    ASSUME IInv, NEW c \in Caller, call[c].at # "answered", NEW code
    PROVE  /\ Follows(c, Reply(c, code)) /\ Reply(c, code).h = None
           /\ Reply(c, code).at = "answered" => Reply(c, code).code = code
<1>1. call[c] \in Request
  BY DEF IInv, Typed, TypeOK
<1>2. CASE c = Line
  BY <1>1, <1>2 DEF Reply, Request, Follows, Acting
<1>3. CASE c # Line
  BY <1>3 DEF Reply, Resting, Follows, Acting
<1> QED BY <1>2, <1>3

LEMMA SilentAnswer ==
    ASSUME IInv, Good, NEW c \in Caller, NEW code, Answer(c, code), call[c].at # "answered",
           UNCHANGED <<repl, stream, session>>, call[c].op = "chat" => code # 202
    PROVE  Good'
<1> DEFINE r == Reply(c, code)
<1>1. /\ Follows(c, r) /\ r.h = None /\ (r.at = "answered" => r.code = code)
      /\ call' = [call EXCEPT ![c] = r]
  BY ReplyFollows DEF Answer, GoTo
<1> HIDE DEF r
<1> QED BY <1>1, SilentStep

LEMMA SilentMove ==
    ASSUME IInv, Good, NEW c \in Caller, NEW at, at # "answered", Step(c, at), call[c].at # "answered",
           at \in Acting => call[c].at \in Acting, UNCHANGED <<repl, stream, session>>
    PROVE  Good'
<1> DEFINE r == [call[c] EXCEPT !.at = at]
<1>1. /\ r.op = call[c].op /\ r.id = call[c].id /\ r.h = call[c].h /\ r.at = at
      /\ call' = [call EXCEPT ![c] = r]
  BY DEF Step, GoTo, IInv, Typed, TypeOK, Request
<1> HIDE DEF r
<1>2. Follows(c, r)
  BY <1>1 DEF Follows, Good, Around, Kept
<1> QED BY <1>1, <1>2, SilentStep

\* Requests that leave sessions and the stream alone.
LEMMA SilentRequests ==
    ASSUME IInv, Good, NEW c \in Caller, UNCHANGED repl,
           \/ LoadBegin(c) \/ Chat(c) \/ Switch(c) \/ CompactAnswer(c) \/ Rename(c)
           \/ View(c) \/ DeleteBegin(c) \/ DeleteRemove(c) \/ Refused(c)
    PROVE  Good'
<1>1. call[c] \in Request
  BY DEF IInv, Typed, TypeOK
<1>2. CASE LoadBegin(c)
  BY <1>2, SilentAnswer, SilentMove DEF LoadBegin, OnlyCall, At, Acting
<1>3. CASE Chat(c)
  BY <1>3, SilentAnswer, SilentMove DEF Chat, Found, OnlyCall, At, Acting
<1>4. CASE Switch(c)
  BY <1>4, SilentAnswer DEF Switch, Found, OnlyCall, At
<1>5. CASE CompactAnswer(c)
  BY <1>5, SilentAnswer DEF CompactAnswer, OnlyCall, At
<1>6. CASE Rename(c)
  BY <1>6, SilentAnswer DEF Rename, OnlyCall, At
<1>7. CASE View(c)
  BY <1>7, SilentAnswer DEF View, OnlyCall
<1>8. CASE DeleteBegin(c)
  <2>1. call[c].at = "begin" /\ call[c].op = "delete" /\ UNCHANGED <<stream, session>>
    BY <1>8 DEF DeleteBegin, OnlyCall, At
  <2>2. CASE GoTo(c, [call[c] EXCEPT !.rest = disk[call[c].id], !.at = "close"])
    <3> DEFINE r == [call[c] EXCEPT !.rest = disk[call[c].id], !.at = "close"]
    <3>1. /\ r.op = "delete" /\ r.id = call[c].id /\ r.h = call[c].h /\ r.at = "close"
          /\ call' = [call EXCEPT ![c] = r]
      BY <1>1, <2>1, <2>2 DEF GoTo, Request
    <3> HIDE DEF r
    <3>2. Follows(c, r)
      BY <2>1, <3>1 DEF Follows, Acting
    <3> QED BY <2>1, <3>1, <3>2, SilentStep
  <2> QED BY <1>8, <2>1, <2>2, SilentAnswer DEF DeleteBegin
<1>9. CASE DeleteRemove(c)
  <2>1. call[c].at = "remove" /\ call[c].op = "delete" /\ UNCHANGED <<stream, session>>
    BY <1>9 DEF DeleteRemove, At
  <2>2. CASE GoTo(c, [call[c] EXCEPT !.rest = @ \ {call[c].doomed}, !.doomed = None, !.at = "close"])
    <3> DEFINE r == [call[c] EXCEPT !.rest = @ \ {call[c].doomed}, !.doomed = None, !.at = "close"]
    <3>1. /\ r.op = "delete" /\ r.id = call[c].id /\ r.h = call[c].h /\ r.at = "close"
          /\ call' = [call EXCEPT ![c] = r]
      BY <1>1, <2>1, <2>2 DEF GoTo, Request
    <3> HIDE DEF r
    <3>2. Follows(c, r)
      BY <2>1, <3>1 DEF Follows, Acting
    <3> QED BY <2>1, <3>1, <3>2, SilentStep
  <2> QED BY <1>9, <2>1, <2>2, SilentAnswer DEF DeleteRemove
<1>10. CASE Refused(c)
  BY <1>10, SilentAnswer DEF Refused, OnlyCall
<1> QED BY <1>2, <1>3, <1>4, <1>5, <1>6, <1>7, <1>8, <1>9, <1>10

\* A request finds its session.
LEMMA FindStep ==
    ASSUME IInv, Good, NEW c \in Caller, UNCHANGED repl, Find(c)
    PROVE  Good'
<1>1. /\ call[c] \in Request /\ call[c].id \in Id /\ call[c].at = "begin"
      /\ UNCHANGED <<stream, session>>
  BY DEF IInv, Typed, TypeOK, Named, Find, ByHandle, Stops, OnlyCall
<1>2. ASSUME NEW code \in {503, 404}, Answer(c, code) PROVE Good'
  BY <1>1, <1>2, SilentAnswer
<1>3. ASSUME active[call[c].id] # None, GoTo(c, [call[c] EXCEPT !.h = active[call[c].id], !.at = "act"])
      PROVE  Good'
  <2> DEFINE r == [call[c] EXCEPT !.h = active[call[c].id], !.at = "act"]
  <2>1. /\ r.op = call[c].op /\ r.id = call[c].id /\ r.h = active[call[c].id] /\ r.at = "act"
        /\ call' = [call EXCEPT ![c] = r]
    BY <1>1, <1>3 DEF GoTo, Request
  <2>2. session'[r.h].of = r.id
    BY <1>1, <1>3, <2>1 DEF IInv, Writers, Holds
  <2> HIDE DEF r
  <2>3. Follows(c, r)
    BY <1>1, <1>3, <2>1 DEF Follows
  <2>4. StreamTo /\ Told'
    <3>1. Sent' = Sent
      BY <2>1, <2>3, SentSame DEF Good
    <3> QED BY <1>1, <3>1, Untold DEF Good, Around, Kept
  <2>5. \A h \in Handle : (Stills(h))'
    BY <1>1, KeptStills DEF Stills, Good
  <2>6. stream'.h # None => session'[stream'.h].open
    BY <1>1 DEF Good, Around, Kept
  <2>7. Around'
    BY <1>1, <2>1, <2>2, <2>3, <2>4, <2>5, <2>6, AroundStep DEF Good
  <2> QED BY <2>4, <2>7 DEF Good
<1> QED BY <1>2, <1>3 DEF Find

\* The line client joins a session: it knows whether a turn may be under way
\* there and whether others have prompted it.
LEMMA JoinStep ==
    ASSUME IInv, Good, NEW c \in Caller, UNCHANGED repl, Join(c)
    PROVE  Good'
<1>1. /\ call[c] \in Request /\ call[c].op = "join" /\ call[c].at = "act" /\ session' = session
      /\ session \in [Handle -> Session] /\ repl \in Repl /\ Line \in Caller
  BY DEF IInv, Typed, TypeOK, Join, Found, At, Caller
<1>2. CASE UNCHANGED stream /\ \E code : Answer(c, code)
  BY <1>1, <1>2, SilentAnswer
<1>3. CASE c = Line /\ ~Concluded(call[c].h) /\ engine # "stopped"
  <2> DEFINE h == call[c].h
             st == [h |-> h, events |-> <<>>, said |-> 0,
                    calm |-> /\ Its(c).status = "idle" /\ Its(c).queue = 0 /\ ~ Its(c).again
                             /\ Its(c).at \in {"top", "parked"},
                    alone |-> \A d \in Client : ~ (/\ call[d].op \in {"chat", "compact"}
                                                   /\ call[d].id = call[c].id)]
             r == Reply(c, 200)
  <2>1. stream' = st /\ call' = [call EXCEPT ![c] = r]
    BY <1>3 DEF Join, Answer, GoTo
  <2>2. /\ Follows(c, r) /\ r.h = None /\ r.op = "join" /\ r.at = "answered"
        /\ call'[Line] = r /\ \A d \in Client : call'[d] = call[d]
    BY <1>1, <1>3, <2>1, ReplyFollows, Apart DEF Follows, Reply, Request, Caller, IInv, Typed, TypeOK
  <2>3. repl.at = "asking" /\ repl.then = "join" /\ ~repl.saw /\ repl.reply = 0
    <3>1. repl.at = "asking"
      BY <1>1, <1>3 DEF IInv, Typed, LineKnows
    <3> QED BY <1>1, <1>3, <3>1 DEF Good, Around, LineStream
  <2>4. h # None => h \in Handle /\ session[h].open /\ session[h].of = call[c].id
    <3> SUFFICES ASSUME h \in Handle PROVE session[h].open /\ session[h].of = call[c].id
      BY <1>1 DEF Request
    <3>1. session[h].open
      BY <1>3, KeptStills DEF Stills, Concluded, Good
    <3>2. session[h].of \in Id
      BY <3>1 DEF IInv, Writers, Typed, TypeOK
    <3> QED BY <3>1, <3>2, Apart DEF Good, Around, Kept
  <2>5. st \in Stream /\ st.h = h /\ st.events = <<>> /\ st.said = 0 /\ Texts(st.events) = 0
    <3>1. <<>> \in Seq(Kind) /\ \A i \in DOMAIN <<>> : <<>>[i] # "text"
      OBVIOUS
    <3>2. Texts(<<>>) = 0
      BY <3>1, NoTexts
    <3>3. h \in Handle \cup {None}
      BY <1>1 DEF Request
    <3> HIDE DEF h
    <3> QED BY <3>1, <3>2, <3>3 DEF Stream
  <2>6. Kept'
    <3>1. \A d \in Caller : call'[d].h # None => session'[call'[d].h].of \in {call'[d].id, None}
      BY <1>1, <2>1, <2>2 DEF Good, Around, Kept, Caller
    <3>2. stream' \in Stream /\ (stream'.h # None => session'[stream'.h].open)
      BY <1>1, <2>1, <2>4, <2>5
    <3>3. \A g \in Handle : ~session'[g].open => session'[g].status = "tombstone" /\ session'[g].at = "over"
      BY <1>1 DEF Good, Around, Kept
    <3>4. \A d \in Caller : call'[d].at \in Acting => call'[d].h # None
      BY <1>1, <2>1, <2>2 DEF Good, Around, Kept, Caller, Acting
    <3> QED BY <3>1, <3>2, <3>3, <3>4 DEF Kept
  <2>7. LineStream'
    BY <2>2, <2>3 DEF LineStream
  <2>8. OnlyUs'
    <3>1. stream'.h = h /\ (stream'.alone => \A d \in Client : ~ (Prompts(d) /\ call[d].id = call[c].id))
      BY <2>1 DEF Prompts
    <3> HIDE DEF st, h
    <3> QED BY <1>1, <2>2, <2>4, <3>1 DEF OnlyUs, Prompts
  <2>9. Told'
    <3>1. st.calm => LET s == session[h] IN s.queue = 0 /\ ~s.again /\ s.at \in {"top", "parked"}
      BY DEF Its
    <3>2. ~Tells(repl.saw, st.events)
      BY <2>3 DEF Tells
    <3>3. st.calm => Awaits(repl.saw, st.events, session[h], Sent')
      BY <3>1, <3>2 DEF Awaits
    <3> HIDE DEF h, st
    <3>4. TellsTrue(repl, st, session[h], Sent')
      BY <2>3, <2>5, <3>3 DEF TellsTrue
    <3> QED BY <1>1, <2>1, <2>5, <3>4 DEF Told
  <2> QED BY <2>6, <2>7, <2>8, <2>9 DEF Good, Around
<1> QED BY <1>1, <1>2, <1>3 DEF Join

\* A request changes the session of one handle, which stays as open as it was.
LEMMA HandleStep ==
    ASSUME IInv, Good, NEW c \in Caller, NEW r, call' = [call EXCEPT ![c] = r], Follows(c, r),
           r.h \in {call[c].h, None} /\ (r.h # None => r.id = call[c].id), UNCHANGED repl,
           NEW h \in Handle, NEW s2, session' = [session EXCEPT ![h] = s2],
           s2.of = session[h].of, s2.open = session[h].open,
           ~s2.open => s2.status = "tombstone" /\ s2.at = "over",
           StreamTo, Told'
    PROVE  Good'
<1>1. \A g \in Handle : session'[g] = IF g = h THEN s2 ELSE session[g]
  BY DEF IInv, Typed, TypeOK
<1>2. \A g \in Handle : (Stills(g))'
  BY <1>1, KeptStills DEF Stills, Good
<1>3. \A g \in Handle : session'[g].of = session[g].of /\ session'[g].open = session[g].open
  BY <1>1
<1>4. Around'
  BY <1>2, <1>3, AroundQuiet DEF Good
<1> QED BY <1>4 DEF Good

\* A prompt or a compaction of the joined session is one of others.
LEMMA NotAlone ==
    ASSUME IInv, Around, NEW c \in Caller, Prompts(c), call[c].at # "none", call[c].h = stream.h, stream.h # None, stream.alone
    PROVE  c = Line /\ call[c].op = "chat"
<1>1. stream.h \in Handle /\ session[stream.h].open /\ session[stream.h].of \in Id
  BY DEF Around, Kept, Stream, IInv, Writers, Typed, TypeOK
<1>2. call[c].id = session[stream.h].of
  BY <1>1, Apart DEF Around, Kept
<1>3. c = Line
  BY <1>2 DEF Around, OnlyUs, Caller
<1> QED BY <1>3 DEF Around, LineStream, Prompts, IInv, Typed, LineKnows

LEMMA EnqueueStep ==
    ASSUME IInv, Good, NEW c \in Caller, UNCHANGED repl, Enqueue(c)
    PROVE  Good'
<1> DEFINE h == call[c].h
           s2 == [session[h] EXCEPT !.queue = @ + 1]
           r == Reply(c, 202)
<1>1. /\ call[c] \in Request /\ call[c].op = "chat" /\ call[c].at = "send"
      /\ session \in [Handle -> Session] /\ repl \in Repl /\ Line \in Caller /\ UNCHANGED stream
      /\ session' = [session EXCEPT ![h] = s2] /\ call' = [call EXCEPT ![c] = r]
  BY DEF IInv, Typed, TypeOK, Enqueue, At, Caller, Become, Its, Answer, GoTo
<1>2. Follows(c, r) /\ r.h = None
  BY <1>1, ReplyFollows
<1>3. h \in Handle => /\ s2.of = session[h].of /\ s2.open = session[h].open /\ s2.at = session[h].at
                      /\ s2.status = session[h].status /\ s2.again = session[h].again
                      /\ s2.queue = session[h].queue + 1
  BY <1>1 DEF Session
<1>4. h \in Handle \cup {None}
  BY <1>1 DEF Request
<1>5. c # Line => Sent' = Sent
  BY <1>1 DEF Sent, IInv, Typed, TypeOK
<1> HIDE DEF h, s2, r
\* The message of the line client is the first, and the turn is not known yet.
<1>6. ASSUME c = Line, stream.calm, stream.alone, stream.h # None
      PROVE  Told'
  <2> DEFINE s == session[stream.h]
  <2>1. repl.at = "asking" /\ repl.then = "chat"
    <3>1. repl.at = "asking"
      BY <1>1, <1>6 DEF IInv, Typed, LineKnows
    <3> QED BY <1>1, <1>6, <3>1 DEF Good, Around, LineStream
  <2>2. ~Sent /\ Sent'
    <3>1. r.at = "answered" /\ r.code = 202
      BY <1>1, <1>6 DEF r, Reply, Request
    <3>2. call'[Line] = r
      BY <1>1, <1>6 DEF IInv, Typed, TypeOK
    <3> QED BY <1>1, <1>6, <2>1, <3>1, <3>2 DEF Sent
  <2>3. /\ Awaits(repl.saw, stream.events, s, Sent)
        /\ repl.reply + Texts(stream.events) = stream.said
    BY <1>6 DEF Good, Told, TellsTrue
  <2>4. /\ ~Tells(repl.saw, stream.events) /\ s.at \in {"top", "parked"} /\ ~s.again /\ s.queue = 0
        /\ \A i \in DOMAIN stream.events : stream.events[i] = "idle"
    BY <2>2, <2>3 DEF Awaits
  <2>5. \A i \in DOMAIN stream.events : ~Closes(repl.saw, stream.events, i)
    BY <2>4 DEF Closes, Tells
  <2>6. stream.h \in Handle /\ session'[stream.h] = IF h = stream.h THEN s2 ELSE s
    BY <1>1, <1>6 DEF Good, Around, Kept, Stream
  <2>7. Awaits(repl.saw, stream.events, session'[stream.h], Sent')
    <3> HIDE DEF s
    <3>1. LET t == session'[stream.h] IN t.at \in {"top", "parked"} /\ ~t.again /\ t.queue \in {0, 1}
      BY <1>3, <2>4, <2>6 DEF s
    <3> QED BY <2>2, <2>4, <3>1 DEF Awaits
  <2>8. TellsTrue(repl, stream, session'[stream.h], Sent')
    BY <2>1, <2>3, <2>5, <2>7 DEF TellsTrue
  <2> QED BY <1>1, <2>8 DEF Told
<1>7. Told'
  <2>1. CASE ~ (stream.calm /\ stream.alone)
    BY <1>1, <2>1 DEF Told, TellsTrue
  <2>2. CASE stream.calm /\ stream.alone /\ stream.h = None
    <3>1. TellsTrue(repl, stream, session[stream.h], Sent)
      BY DEF Good, Told
    <3>2. TellsTrue(repl, stream, session'[stream.h], Sent')
      BY <2>2, <3>1, ToldMove
    <3> QED BY <1>1, <3>2 DEF Told
  <2>3. CASE stream.calm /\ stream.alone /\ stream.h # None /\ c # Line
    <3>1. h # stream.h
      BY <1>1, <2>3, NotAlone DEF h, Good, Prompts
    <3>2. session'[stream.h] = session[stream.h]
      BY <1>1, <3>1, <2>3 DEF Good, Around, Kept, Stream
    <3> QED BY <1>1, <1>5, <2>3, <3>2, Untold DEF Good, Around, Kept
  <2> QED BY <1>6, <2>1, <2>2, <2>3
<1>8. StreamTo
  BY <1>1 DEF StreamTo, Good, Around, Kept
<1>9. h \in Handle
  BY <1>1, <1>4 DEF Good, Around, Kept, Acting, h
<1>10. ~s2.open => s2.status = "tombstone" /\ s2.at = "over"
  BY <1>3, <1>9, KeptStills DEF Stills, Good
<1> QED BY <1>1, <1>2, <1>3, <1>7, <1>8, <1>9, <1>10, HandleStep

\* A request tells its session's move from session[h] to s2.
Announces(c, r, h, s2, e) ==
    /\ call' = [call EXCEPT ![c] = r] /\ Follows(c, r)
    /\ r.h \in {call[c].h, None} /\ (r.h # None => r.id = call[c].id)
    /\ call[c].op # "chat" /\ h \in Handle /\ session[h].open
    /\ s2 \in Session /\ Become(h, s2) /\ s2.of = session[h].of /\ s2.open
    /\ e \in Running \cup {"idle", "text"} /\ Publish(h, <<e>>)
    /\ stream.h = h /\ stream.calm /\ stream.alone => Fits(session[h], s2, e)

LEMMA TellingStep ==
    ASSUME IInv, Good, NEW c \in Caller, UNCHANGED repl, NEW r, NEW h, NEW s2, NEW e, Announces(c, r, h, s2, e)
    PROVE  Good'
<1>0. /\ call' = [call EXCEPT ![c] = r] /\ Follows(c, r)
      /\ r.h \in {call[c].h, None} /\ (r.h # None => r.id = call[c].id)
      /\ call[c].op # "chat" /\ h \in Handle /\ session[h].open
      /\ s2 \in Session /\ Become(h, s2) /\ s2.of = session[h].of /\ s2.open
      /\ e \in Running \cup {"idle", "text"} /\ Publish(h, <<e>>)
      /\ stream.h = h /\ stream.calm /\ stream.alone => Fits(session[h], s2, e)
  BY Zenon DEF Announces
<1>1. Sent' = Sent /\ session' = [session EXCEPT ![h] = s2] /\ session[h].open \in BOOLEAN
  BY <1>0, SentSame DEF Good, Become
<1>2. StreamTo /\ Told'
  BY <1>0, <1>1, Publishing DEF Good, Around, Kept
<1>3. s2.open = session[h].open
  BY <1>0 DEF Session, IInv, Typed, TypeOK
<1> QED BY <1>0, <1>1, <1>2, <1>3, HandleStep

\* A request moves a session without a word; nothing that is told concerns it.
LEMMA ShiftStep ==
    ASSUME IInv, Good, NEW c \in Caller, NEW r, call' = [call EXCEPT ![c] = r], Follows(c, r),
           r.h \in {call[c].h, None} /\ (r.h # None => r.id = call[c].id), UNCHANGED <<repl, stream>>,
           call[c].op # "chat", NEW h \in Handle, session[h].open,
           NEW s2 \in Session, Become(h, s2), s2.of = session[h].of, s2.open,
           s2.at = session[h].at, s2.queue = session[h].queue, s2.again = session[h].again
    PROVE  Good'
<1>1. Sent' = Sent /\ session' = [session EXCEPT ![h] = s2]
  BY SentSame DEF Good, Become
<1>2. /\ Awaits(repl.saw, stream.events, session[h], Sent) => Awaits(repl.saw, stream.events, s2, Sent)
      /\ Ended(session[h]) => Ended(s2)
  BY DEF Awaits, Ended
<1>3. StreamTo /\ Told'
  BY <1>1, <1>2, Moving DEF Good, Around, Kept
<1>4. s2.open = session[h].open
  BY DEF Session, IInv, Typed, TypeOK
<1> QED BY <1>1, <1>3, <1>4, HandleStep

LEMMA ApproveStep ==
    ASSUME IInv, Good, NEW c \in Caller, UNCHANGED repl, Approve(c)
    PROVE  Good'
<1>1. call[c] \in Request /\ call[c].op = "approve" /\ call[c].at = "act" /\ session \in [Handle -> Session]
  BY DEF IInv, Typed, TypeOK, Approve, Found, At
<1>2. CASE UNCHANGED <<session, stream>> /\ Answer(c, 409)
  BY <1>1, <1>2, SilentAnswer
<1>3. CASE /\ Its(c).at = "asked" /\ Publish(call[c].h, <<"busy">>) /\ Answer(c, 202)
           /\ Become(call[c].h, [Its(c) EXCEPT !.at = "commit", !.status = Moved(call[c].h, "busy")])
  <2> DEFINE h == call[c].h
             s2 == [session[h] EXCEPT !.at = "commit", !.status = Moved(h, "busy")]
             r == Reply(c, 202)
  <2>1. Follows(c, r) /\ r.h = None /\ call' = [call EXCEPT ![c] = r]
    BY <1>1, <1>3, ReplyFollows DEF Answer, GoTo
  <2>2. Become(h, s2) /\ session[h].at = "asked" /\ Publish(h, <<"busy">>) /\ "busy" \in Running
    BY <1>3 DEF Its, Running
  <2> HIDE DEF r
  <2>3. h \in Handle
    BY <1>1 DEF Good, Around, Kept, Acting, Request
  <2>4. session[h].open
    BY <2>2, <2>3, KeptStills DEF Stills, Good
  <2>5. Moved(h, "busy") \in Status
    BY <1>1, <2>3, ReportedType DEF Status
  <2>6. s2 \in Session /\ s2.of = session[h].of /\ s2.open = session[h].open /\ s2.queue = session[h].queue
    <3> DEFINE status == Moved(h, "busy")
    <3>1. session[h] \in Session /\ status \in Status
      BY <1>1, <2>3, <2>5
    <3> HIDE DEF h, status
    <3>2. LET s == [session[h] EXCEPT !.at = "commit", !.status = status] IN
          s \in Session /\ s.of = session[h].of /\ s.open = session[h].open /\ s.queue = session[h].queue
      BY <3>1, AllowField
    <3> QED BY <3>2 DEF status
  <2>7. Fits(session[h], s2, "busy")
    BY <2>2, <2>6 DEF Fits
  <2> HIDE DEF h, s2
  <2>8. Announces(c, r, h, s2, "busy")
    BY <1>1, <2>1, <2>2, <2>3, <2>4, <2>6, <2>7 DEF Announces
  <2> QED BY <2>8, TellingStep
<1> QED BY <1>2, <1>3 DEF Approve

LEMMA CompactSteps ==
    ASSUME IInv, Good, NEW c \in Caller, UNCHANGED repl,
           CompactBegin(c) \/ CompactShow(c) \/ CompactDone(c) \/ CompactFailed(c)
    PROVE  Good'
<1> DEFINE h == call[c].h
<1>1. /\ call[c] \in Request /\ call[c].op = "compact" /\ call[c].at \in {"act", "trigger", "fold"}
      /\ session \in [Handle -> Session]
  BY DEF IInv, Typed, TypeOK, CompactBegin, CompactShow, CompactDone, CompactFailed, Compacting, Found, At
<1>2. h \in Handle
  BY <1>1 DEF Good, Around, Kept, Acting, Request
<1>3. ASSUME NEW at \in {"trigger", "fold", "meta", "failed"}
      PROVE  LET r == [call[c] EXCEPT !.at = at] IN
             Follows(c, r) /\ r.h = call[c].h /\ r.id = call[c].id
  <2> DEFINE r == [call[c] EXCEPT !.at = at]
  <2>1. r.op = "compact" /\ r.id = call[c].id /\ r.h = call[c].h
    BY <1>1 DEF Request
  <2>2. r.h # None
    BY <1>2, <2>1, Apart
  <2> HIDE DEF r
  <2>3. Follows(c, r)
    BY <1>1, <2>1, <2>2 DEF Follows
  <2> QED BY <2>1, <2>3 DEF r
<1>4. CASE CompactBegin(c)
  <2>1. CASE Answer(c, 500) /\ UNCHANGED <<session, stream>>
    BY <1>1, <2>1, SilentAnswer
  <2>2. CASE /\ Its(c).status = "idle" /\ UNCHANGED stream
             /\ Become(call[c].h, [Its(c) EXCEPT !.drain = FALSE]) /\ Step(c, "trigger")
    <3> DEFINE s2 == [session[h] EXCEPT !.drain = FALSE]
               r == [call[c] EXCEPT !.at = "trigger"]
    <3>1. Become(h, s2) /\ session[h].status = "idle" /\ call' = [call EXCEPT ![c] = r]
      BY <2>2 DEF Its, Step, GoTo
    <3>2. session[h].open
      BY <1>2, <3>1, KeptStills DEF Stills, Good
    <3>3. /\ s2 \in Session /\ s2.of = session[h].of /\ s2.open = session[h].open /\ s2.at = session[h].at
          /\ s2.queue = session[h].queue /\ s2.again = session[h].again
      BY <1>1, <1>2 DEF Session
    <3>4. Follows(c, r) /\ r.h = call[c].h /\ r.id = call[c].id
      BY <1>3
    <3> HIDE DEF h, s2, r
    <3> QED BY <1>1, <1>2, <2>2, <3>1, <3>2, <3>3, <3>4, ShiftStep
  <2> QED BY <1>4, <2>1, <2>2 DEF CompactBegin, RestOfSession
<1>5. ASSUME NEW at \in {"trigger", "fold"}, NEW next \in {"fold", "meta", "failed"},
             NEW status \in {"compacting", "idle"}, Compacting(c, at, next, status)
      PROVE  Good'
  <2>1. call[c].at = at /\ Step(c, next)
    BY <1>5 DEF Compacting, At
  <2>2. CASE UNCHANGED <<session, stream>>
    <3>1. next # "answered" /\ call[c].at # "answered" /\ call[c].at \in Acting
      BY <2>1 DEF Acting
    <3> QED BY <2>1, <2>2, <3>1, SilentMove
  <2>3. CASE /\ Its(c).open /\ Publish(call[c].h, <<status>>)
             /\ Become(call[c].h, [Its(c) EXCEPT !.status = Moved(call[c].h, status), !.drain = next # "fold"])
    <3> DEFINE s2 == [session[h] EXCEPT !.status = Moved(h, status), !.drain = next # "fold"]
               r == [call[c] EXCEPT !.at = next]
    <3>1. Become(h, s2) /\ session[h].open /\ Publish(h, <<status>>) /\ call' = [call EXCEPT ![c] = r]
      BY <2>1, <2>3 DEF Its, Step, GoTo
    <3>2. Moved(h, status) \in Status
      BY <1>1, <1>2, ReportedType DEF Status
    <3>3. s2 \in Session /\ s2.of = session[h].of /\ s2.open = session[h].open
      <4>1. session[h] \in Session /\ (next # "fold") \in BOOLEAN
        BY <1>1, <1>2
      <4> HIDE DEF h
      <4> QED BY <3>2, <4>1, ShownFields, ZenonT(60)
    <3>4. Follows(c, r) /\ r.h = call[c].h /\ r.id = call[c].id
      BY <1>3
    <3>5. stream.h = h /\ stream.calm /\ stream.alone => FALSE
      BY <1>1, <1>2, Apart, NotAlone DEF Good, Prompts
    <3>6. status \in Running \cup {"idle", "text"}
      BY DEF Running
    <3> HIDE DEF h, s2, r
    <3>7. Announces(c, r, h, s2, status)
      BY <1>1, <1>2, <3>1, <3>3, <3>4, <3>5, <3>6 DEF Announces
    <3> QED BY <3>7, TellingStep
  <2> QED BY <1>5, <2>2, <2>3 DEF Compacting
<1> QED BY <1>4, <1>5 DEF CompactShow, CompactDone, CompactFailed

LEMMA CancelStep ==
    ASSUME IInv, Good, NEW c \in Caller, UNCHANGED repl, Cancel(c)
    PROVE  Good'
<1> DEFINE h == active[call[c].id]
           r == Reply(c, 202)
<1>1. /\ call[c] \in Request /\ call[c].op = "cancel" /\ call[c].at = "begin" /\ call[c].id \in Id
      /\ session \in [Handle -> Session]
  BY DEF IInv, Typed, TypeOK, Cancel, At, Named
<1>2. CASE UNCHANGED <<session, stream>> /\ \E code \in {404, 409} : Answer(c, code)
  BY <1>1, <1>2, SilentAnswer
<1>3. ASSUME h # None PROVE h \in Handle /\ session[h].open /\ session[h] \in Session
  BY <1>1, <1>3 DEF IInv, Writers, Holds
<1>4. ASSUME Answer(c, 202) PROVE Follows(c, r) /\ r.h = None /\ call' = [call EXCEPT ![c] = r]
  BY <1>1, <1>4, ReplyFollows DEF Answer, GoTo
<1>5. CASE h # None /\ Answer(c, 202) /\ UNCHANGED stream /\ Signals(h)
  <2> DEFINE s2 == [session[h] EXCEPT !.token = TRUE]
  <2>1. /\ s2 \in Session /\ s2.of = session[h].of /\ s2.open = session[h].open /\ s2.at = session[h].at
        /\ s2.queue = session[h].queue /\ s2.again = session[h].again
    BY <1>3, <1>5, TokenField
  <2>2. Become(h, s2)
    BY <1>5 DEF Signals
  <2> HIDE DEF h, s2, r
  <2> QED BY <1>1, <1>3, <1>4, <1>5, <2>1, <2>2, ShiftStep, SMTT(30)
<1>6. CASE h # None /\ Answer(c, 202) /\ session[h].at = "asked" /\ Publish(h, <<"busy">>) /\ Refuses(h)
  <2>1. PICK left \in BOOLEAN : Become(h, Unasked(session[h], left, Moved(h, "busy")))
    BY <1>6 DEF Refuses
  <2> DEFINE s2 == Unasked(session[h], left, Moved(h, "busy"))
  <2>2. Moved(h, "busy") \in Status /\ "busy" \in Running
    BY <1>1, <1>3, <1>6, ReportedType DEF Status, Running
  <2>3. s2 \in Session /\ s2.of = session[h].of /\ s2.open = session[h].open /\ s2.queue = session[h].queue
    <3>1. session[h] \in Session
      BY <1>3, <1>6
    <3>2. left \in BOOLEAN
      BY <2>1, SMTT(30)
    <3> HIDE DEF h
    <3> QED BY <2>2, <3>1, <3>2, CommitFields
  <2>4. Fits(session[h], s2, "busy")
    BY <1>6, <2>3, SMTT(30) DEF Fits
  <2>5. /\ call' = [call EXCEPT ![c] = r] /\ Follows(c, r) /\ r.h = None
        /\ h \in Handle /\ session[h].open /\ Publish(h, <<"busy">>) /\ Become(h, s2)
    BY <1>3, <1>4, <1>6, <2>1
  <2>6. r.h \in {call[c].h, None} /\ (r.h # None => r.id = call[c].id) /\ call[c].op # "chat"
    BY <1>1, <2>5, SMTT(30)
  <2>7. "busy" \in Running \cup {"idle", "text"} /\ s2.open
    BY <2>2, <2>3, <2>5
  <2> HIDE DEF h, s2, r
  <2>8. Announces(c, r, h, s2, "busy")
    BY <2>3, <2>4, <2>5, <2>6, <2>7 DEF Announces
  <2> QED BY <2>8, TellingStep
<1> QED BY <1>2, <1>5, <1>6, CancelCases

-----------------------------------------------------------------------------
(* Sessions that open and close, and the stream *)

\* The handle of a new session is that of no request and no stream.
LEMMA OpenGood ==
    ASSUME IInv, Good, NEW c \in Caller, NEW s \in Id, NEW r, FreeHandle # {},
           r.op = call[c].op, r.op \in {"create", "load"}, r.id = s, r.h = Fresh, r.at = "made",
           call[c].at # "answered", call' = [call EXCEPT ![c] = r],
           session' = [session EXCEPT ![Fresh] = Opened(s)], UNCHANGED <<repl, stream>>
    PROVE  Good'
<1> DEFINE f == Fresh
<1>1. f \in Handle /\ stream.h # f /\ \A d \in Caller : call[d].h # f
  BY FreshType
<1>2. /\ Opened(s).open /\ Opened(s).of = s
      /\ \A h \in Handle : session'[h] = IF h = f THEN Opened(s) ELSE session[h]
  BY OpenedType DEF IInv, Typed, TypeOK
<1> HIDE DEF f
<1>3. Follows(c, r)
  BY DEF Follows, Acting
<1>4. stream.h # None => session'[stream.h] = session[stream.h] /\ session[stream.h].open
  BY <1>1, <1>2 DEF Good, Around, Kept, Stream
<1>5. StreamTo /\ Told'
  <2>1. Sent' = Sent
    BY <1>3, SentSame DEF Good
  <2> QED BY <1>4, <2>1, Untold DEF Good, Around, Kept
<1>6. \A h \in Handle : (Stills(h))'
  BY <1>2, KeptStills DEF Stills, Good
<1>7. \A d \in Caller \ {c} : call[d].h # None => session'[call[d].h].of = session[call[d].h].of
  <2>1. \A d \in Caller : call[d].h # None => call[d].h \in Handle
    BY DEF IInv, Typed, TypeOK, Request
  <2> QED BY <1>1, <1>2, <2>1
<1>8. session'[r.h].of = r.id
  BY <1>1, <1>2 DEF f
<1>9. Around'
  BY <1>3, <1>4, <1>5, <1>6, <1>7, <1>8, AroundStep DEF Good
<1> QED BY <1>5, <1>9 DEF Good

\* Closed handles are still, name no other session than before, and end the stream.
LEMMA CloseGood ==
    ASSUME IInv, Good, NEW c \in Caller, NEW r, call' = [call EXCEPT ![c] = r], Follows(c, r),
           r.h \in {call[c].h, None} /\ (r.h # None => r.id = call[c].id), UNCHANGED repl,
           call[c].op # "chat", NEW H \in SUBSET Handle, Release(H),
           \A h \in Handle \ H : session'[h] = session[h],
           \A h \in H : (Stills(h))' /\ session'[h].of \in {session[h].of, None}
    PROVE  Good'
<1>1. None \notin H /\ (stream.h # None => stream.h \in Handle) /\ stream \in Stream
  BY Apart DEF Good, Around, Kept, Stream
<1>2. StreamTo /\ Told' /\ stream'.h \notin H
  <2>1. Sent' = Sent
    BY SentSame DEF Good
  <2> QED BY <1>1, <2>1, Releasing DEF Good
<1>3. \A h \in Handle : (Stills(h))'
  BY KeptStills DEF Stills, Good
<1>4. \A d \in Caller : call[d].h # None =>
          call[d].h \in Handle /\ session'[call[d].h].of \in {session[call[d].h].of, None}
  BY DEF IInv, Typed, TypeOK, Request
<1>5. stream'.h # None => session'[stream'.h].open /\ session'[stream'.h].of = session[stream'.h].of
  <2>1. stream'.h # None => stream'.h = stream.h /\ stream.h \in Handle \ H
    BY <1>1, <1>2 DEF StreamTo
  <2> QED BY <2>1 DEF Good, Around, Kept
<1>6. r.h # None => session'[r.h].of \in {r.id, None}
  BY <1>4 DEF Good, Around, Kept
<1>7. Around'
  BY <1>2, <1>3, <1>4, <1>5, <1>6, AroundStep DEF Good
<1> QED BY <1>2, <1>7 DEF Good

LEMMA OpeningGood ==
    ASSUME IInv, Good, NEW c \in Caller, UNCHANGED repl,
           CreateBegin(c) \/ CreateRegister(c) \/ LoadOpen(c) \/ LoadRegister(c)
    PROVE  Good'
<1>1. /\ call[c] \in Request /\ Named(call[c]) /\ call[c].at # "answered"
      /\ call[c].op \in {"create", "load"} /\ session \in [Handle -> Session]
  BY ZenonT(30) DEF IInv, Typed, TypeOK, CreateBegin, CreateRegister, LoadOpen, LoadRegister, At
<1>2. ASSUME NEW code, Answer(c, code), UNCHANGED <<stream, session>> PROVE Good'
  BY <1>1, <1>2, SilentAnswer
<1>3. CASE CreateBegin(c)
  <2>1. ASSUME NEW s \in Root \ born, FreeHandle # {},
               session' = [session EXCEPT ![Fresh] = Opened(s)],
               GoTo(c, [call[c] EXCEPT !.id = s, !.h = Fresh, !.at = "made"])
        PROVE  Good'
    <3> DEFINE r == [call[c] EXCEPT !.id = s, !.h = Fresh, !.at = "made"]
    <3>1. /\ r.id = s /\ r.h = Fresh /\ r.at = "made" /\ r.op = call[c].op
          /\ call' = [call EXCEPT ![c] = r]
      BY <1>1, <2>1 DEF Request, GoTo
    <3>2. s \in Id /\ UNCHANGED stream
      BY <1>3, <2>1, Apart DEF CreateBegin
    <3> HIDE DEF r
    <3> QED BY <1>1, <2>1, <3>1, <3>2, OpenGood
  <2> QED BY <1>2, <1>3, <2>1, ZenonT(30) DEF CreateBegin
<1>4. CASE LoadOpen(c)
  <2>1. UNCHANGED stream /\ call[c].id \in Id
    BY <1>1, <1>4 DEF LoadOpen, At, Named
  <2>2. CASE UNCHANGED session /\ \E code : Answer(c, code)
    BY <1>2, <2>1, <2>2
  <2>3. ASSUME FreeHandle # {},
               session' = [session EXCEPT ![Fresh] = Opened(call[c].id)],
               GoTo(c, [call[c] EXCEPT !.h = Fresh, !.at = "made"])
        PROVE  Good'
    <3> DEFINE r == [call[c] EXCEPT !.h = Fresh, !.at = "made"]
               s == call[c].id
    <3>1. /\ r.id = s /\ r.h = Fresh /\ r.at = "made" /\ r.op = call[c].op
          /\ call' = [call EXCEPT ![c] = r] /\ s \in Id
      BY <1>1, <2>1, <2>3 DEF Request, GoTo
    <3> HIDE DEF r
    <3> QED BY <1>1, <2>1, <2>3, <3>1, OpenGood
  <2> QED BY <1>4, <2>2, <2>3 DEF LoadOpen
<1>5. CASE CreateRegister(c) \/ LoadRegister(c)
  <2>1. call[c].at = "made" /\ call[c].h \in Handle
    BY <1>1, <1>5 DEF CreateRegister, LoadRegister, At, Named
  <2>2. CASE engine = "up"
    <3>1. UNCHANGED <<session, stream>> /\ \E code : Answer(c, code)
      BY <1>5, <2>2 DEF CreateRegister, LoadRegister
    <3> QED BY <1>2, <3>1
  <2>3. CASE engine # "up"
    <3>1. Become(call[c].h, Gone) /\ Release({call[c].h}) /\ \E code : Answer(c, code)
      BY <1>5, <2>3 DEF CreateRegister, LoadRegister
    <3>2. PICK code : Answer(c, code)
      BY <3>1
    <3> DEFINE r == Reply(c, code)
               H == {call[c].h}
    <3>3. Follows(c, r) /\ r.h = None /\ call' = [call EXCEPT ![c] = r]
      BY <1>1, <3>2, ReplyFollows DEF Answer, GoTo
    <3>4. H \in SUBSET Handle /\ \A h \in Handle \ H : session'[h] = session[h]
      BY <1>1, <2>1, <3>1 DEF Become
    <3>5. \A h \in H : (Stills(h))' /\ session'[h].of \in {session[h].of, None}
      BY <1>1, <2>1, <3>1 DEF Become, Gone, Stills
    <3> HIDE DEF r
    <3> QED BY <1>1, <3>1, <3>3, <3>4, <3>5, CloseGood
  <2> QED BY <2>2, <2>3
<1> QED BY <1>3, <1>4, <1>5

LEMMA ClosedStill ==
    ASSUME NEW h \in Handle
    PROVE  LET s == ClosedHandle(h) IN
           s.status = "tombstone" /\ s.at = "over" /\ s.of \in {session[h].of, None}
  BY DEF ClosedHandle, Gone

\* A tree of sessions is closed.
LEMMA CloseAllGood ==
    ASSUME IInv, Good, NEW c \in Caller, NEW r, call' = [call EXCEPT ![c] = r], Follows(c, r),
           r.h \in {call[c].h, None} /\ (r.h # None => r.id = call[c].id), UNCHANGED repl,
           call[c].op # "chat", NEW S \in SUBSET Id, CloseAll(S)
    PROVE  Good'
<1> DEFINE closed == {active[s] : s \in S} \ {None}
<1>1. /\ session' = [h \in Handle |-> IF h \in closed THEN ClosedHandle(h) ELSE session[h]]
      /\ Release(closed)
  BY DEF CloseAll
<1>2. closed \in SUBSET Handle
  BY DEF IInv, Typed, TypeOK
<1> HIDE DEF closed
<1>3. /\ \A h \in Handle \ closed : session'[h] = session[h]
      /\ \A h \in closed : (Stills(h))' /\ session'[h].of \in {session[h].of, None}
  BY <1>1, <1>2, ClosedStill DEF Stills
<1> QED BY <1>1, <1>2, <1>3, CloseGood

LEMMA ClosingGood ==
    ASSUME IInv, Good, NEW c \in Caller, UNCHANGED repl, Close(c) \/ DeleteClose(c)
    PROVE  Good'
<1>1. call[c] \in Request /\ Named(call[c])
  BY DEF IInv, Typed, TypeOK
<1>2. CASE Close(c)
  <2> DEFINE s == call[c].id
  <2>1. call[c].at = "begin" /\ call[c].op = "close" /\ s \in Id
    BY <1>1, <1>2 DEF Close, At, Named
  <2>2. ASSUME NEW code \in {404, 409}, Answer(c, code), UNCHANGED <<session, stream>> PROVE Good'
    BY <2>1, <2>2, SilentAnswer
  <2>3. ASSUME Answer(c, 204), CloseAll({s}) PROVE Good'
    <3> DEFINE r == Reply(c, 204)
    <3>1. Follows(c, r) /\ r.h = None /\ call' = [call EXCEPT ![c] = r]
      BY <2>1, <2>3, ReplyFollows DEF Answer, GoTo
    <3> HIDE DEF r
    <3> QED BY <2>1, <2>3, <3>1, CloseAllGood
  <2> QED BY <1>2, <2>2, <2>3 DEF Close
<1>3. CASE DeleteClose(c)
  <2>1. call[c].at = "close" /\ call[c].op = "delete" /\ call[c].id \in Id
    BY <1>1, <1>3 DEF DeleteClose, At, Named
  <2>2. PICK s \in Victims(c) : CloseAll({s}) /\ GoTo(c, [call[c] EXCEPT !.doomed = s, !.at = "remove"])
    BY <1>3 DEF DeleteClose
  <2>3. s \in Id
    BY <1>1, <2>1 DEF Victims, Request
  <2> DEFINE r == [call[c] EXCEPT !.doomed = s, !.at = "remove"]
  <2>4. /\ r.at = "remove" /\ r.op = call[c].op /\ r.id = call[c].id /\ r.h = call[c].h
        /\ call' = [call EXCEPT ![c] = r]
    BY <1>1, <2>2 DEF Request, GoTo
  <2> HIDE DEF r
  <2>5. Follows(c, r)
    BY <2>1, <2>4 DEF Follows, Acting
  <2> QED BY <2>1, <2>2, <2>3, <2>4, <2>5, CloseAllGood
<1> QED BY <1>2, <1>3

\* Every stream ends with the sessions of the engine.
LEMMA AllReleased ==
    ASSUME IInv, Good, Release(Handle), UNCHANGED repl
    PROVE  /\ stream' \in Stream /\ stream'.h = None /\ Told'
           /\ stream'.calm = stream.calm
<1>1. CASE stream.h = None
  <2>1. UNCHANGED stream
    BY <1>1, Apart DEF Release
  <2>2. TellsTrue(repl, stream, session[stream.h], Sent)
    BY DEF Good, Told
  <2>3. TellsTrue(repl, stream, session'[stream.h], Sent')
    BY <1>1, <2>2, ToldMove
  <2> QED BY <1>1, <2>1, <2>3 DEF Told, Good, Around, Kept
<1>2. CASE stream.h # None
  <2>1. stream.h \in Handle /\ stream \in Stream /\ repl \in Repl
    BY <1>2 DEF Good, Around, Kept, Stream, IInv, Typed, TypeOK
  <2>2. stream' = [stream EXCEPT !.events = Append(@, "end"), !.h = None]
    BY <2>1 DEF Release
  <2>3. TellsTrue(repl, stream, session[stream.h], Sent)
    BY DEF Good, Told
  <2>4. stream' \in Stream /\ TellsTrue(repl, stream', session'[stream'.h], Sent')
    BY <1>2, <2>1, <2>2, <2>3, ToldEnd
  <2>5. stream'.h = None /\ stream'.calm = stream.calm
    BY <2>1, <2>2 DEF Stream
  <2> QED BY <2>4, <2>5 DEF Told
<1> QED BY <1>1, <1>2

LEMMA LifeGood ==
    ASSUME IInv, Good, UNCHANGED repl, Stop \/ StopClose \/ Exit \/ Restart
    PROVE  Good'
<1>1. CASE Stop \/ Restart
  <2>1. UNCHANGED <<session, call, stream>>
    BY <1>1 DEF Stop, Restart
  <2> QED BY <2>1 DEF Good, Around, Kept, LineStream, OnlyUs, Prompts, Told, Sent
<1>2. CASE StopClose
  <2> DEFINE closed == {active[s] : s \in Root} \ {None}
  <2>1. /\ UNCHANGED call /\ Release(Handle)
        /\ session' = [h \in Handle |-> IF h \in closed THEN ClosedHandle(h)
                                        ELSE [session[h] EXCEPT !.at = "over"]]
    BY <1>2 DEF StopClose
  <2>2. /\ stream' \in Stream /\ stream'.h = None /\ Told' /\ stream'.calm = stream.calm
    BY <2>1, AllReleased
  <2> HIDE DEF closed
  <2>3. \A h \in Handle : session'[h].of \in {session[h].of, None}
    BY <2>1, ClosedStill DEF IInv, Typed, TypeOK, Session
  <2>4. \A h \in Handle : ~session'[h].open => session'[h].status = "tombstone" /\ session'[h].at = "over"
    <3> SUFFICES ASSUME NEW h \in Handle, ~session'[h].open
                 PROVE  session'[h].status = "tombstone" /\ session'[h].at = "over"
      OBVIOUS
    <3>1. CASE h \in closed
      BY <2>1, <3>1, ClosedStill
    <3>2. CASE h \notin closed
      <4>1. session[h] \in Session /\ session'[h] = [session[h] EXCEPT !.at = "over"]
        BY <2>1, <3>2 DEF IInv, Typed, TypeOK
      <4>2. session'[h].open = session[h].open /\ session'[h].status = session[h].status
            /\ session'[h].at = "over"
        BY <4>1 DEF Session
      <4> QED BY <4>2, KeptStills DEF Stills, Good
    <3> QED BY <3>1, <3>2
  <2>5. \A c \in Caller : call'[c].h # None => session'[call'[c].h].of \in {call'[c].id, None}
    BY <2>1, <2>3 DEF Good, Around, Kept, IInv, Typed, TypeOK, Request
  <2>6. Kept'
    BY <2>1, <2>2, <2>4, <2>5 DEF Kept, Good, Around
  <2>7. LineStream' /\ OnlyUs'
    BY <2>1, <2>2 DEF Good, Around, LineStream, OnlyUs
  <2> QED BY <2>2, <2>6, <2>7 DEF Good, Around
<1>3. CASE Exit
  <2>1. /\ session' = [h \in Handle |-> Gone] /\ Release(Handle)
        /\ call' = [c \in Caller |-> IF call[c].at \in {"none", "answered"} THEN call[c]
                                     ELSE Reply(c, 0)]
    BY <1>3 DEF Exit
  <2>2. /\ stream' \in Stream /\ stream'.h = None /\ Told' /\ stream'.calm = stream.calm
    BY <2>1, AllReleased
  <2>3. \A c \in Caller : /\ call'[c].h # None => call'[c].h \in Handle
                          /\ call'[c].at \notin Acting
                          /\ c = Line => call'[c].op = call[c].op
                          /\ c = Line /\ call[c].at = "answered" => call'[c].at = "answered"
    <3> SUFFICES ASSUME NEW c \in Caller
                 PROVE  /\ call'[c].h # None => call'[c].h \in Handle
                        /\ call'[c].at \notin Acting
                        /\ c = Line => call'[c].op = call[c].op
                        /\ c = Line /\ call[c].at = "answered" => call'[c].at = "answered"
      OBVIOUS
    <3>1. call[c] \in Request
      BY DEF IInv, Typed, TypeOK
    <3>2. CASE call[c].at \in {"none", "answered"}
      BY <2>1, <3>1, <3>2 DEF Request, Acting
    <3>3. CASE call[c].at \notin {"none", "answered"}
      <4>1. call'[c] = Reply(c, 0) /\ Reply(c, 0).h = None /\ Follows(c, Reply(c, 0))
        BY <2>1, <3>3, ReplyFollows
      <4> QED BY <3>3, <4>1 DEF Follows
    <3> QED BY <3>2, <3>3
  <2>4. \A h \in Handle : session'[h].of = None /\ session'[h].status = "tombstone" /\ session'[h].at = "over"
    BY <2>1 DEF Gone
  <2>5. Kept'
    BY <2>2, <2>3, <2>4 DEF Kept
  <2>6. LineStream' /\ OnlyUs'
    <3>1. Line \in Caller
      BY DEF Caller
    <3> QED BY <2>2, <2>3, <3>1 DEF Good, Around, LineStream, OnlyUs
  <2> QED BY <2>2, <2>5, <2>6 DEF Good, Around
<1> QED BY <1>1, <1>2, <1>3

\* Another client asks; a prompt of the joined session is noticed.
LEMMA AskGood ==
    ASSUME IInv, Good, NEW c \in Client, Ask(c), UNCHANGED repl
    PROVE  Good'
<1>1. PICK op \in used.mix.others : \E s \in IF op = "create" THEN {None} ELSE born :
          /\ GoTo(c, Asked(op, s))
          /\ stream' = [stream EXCEPT !.alone = @ /\ ~ (op \in {"chat", "compact"}
                                                      /\ stream.h # None
                                                      /\ session[stream.h].of = s)]
  BY DEF Ask
<1>2. PICK s \in IF op = "create" THEN {None} ELSE born :
          /\ GoTo(c, Asked(op, s))
          /\ stream' = [stream EXCEPT !.alone = @ /\ ~ (op \in {"chat", "compact"}
                                                      /\ stream.h # None
                                                      /\ session[stream.h].of = s)]
  BY <1>1
<1> DEFINE r == Asked(op, s)
<1>3. /\ r.op = op /\ r.id = s /\ r.h = None /\ r.at = "begin" /\ call' = [call EXCEPT ![c] = r]
      /\ session' = session /\ c \in Caller /\ c # Line /\ stream \in Stream
  BY <1>2, Apart DEF Asked, Resting, GoTo, Ask, Caller, Good, Around, Kept
<1> HIDE DEF r
<1>4. /\ stream' \in Stream /\ stream'.h = stream.h /\ stream'.calm = stream.calm
      /\ stream'.events = stream.events /\ stream'.said = stream.said
      /\ stream'.alone = (stream.alone /\ ~ (op \in {"chat", "compact"} /\ stream.h # None
                                             /\ session[stream.h].of = s))
  BY <1>2, <1>3 DEF Stream
<1>5. /\ call'[c] = r /\ call'[Line] = call[Line] /\ \A d \in Caller \ {c} : call'[d] = call[d]
  BY <1>3 DEF IInv, Typed, TypeOK, Caller
<1>6. Kept'
  BY <1>3, <1>4, <1>5 DEF Good, Around, Kept, Acting
<1>7. LineStream'
  BY <1>4, <1>5 DEF Good, Around, LineStream
<1>8. OnlyUs'
  <2> SUFFICES ASSUME stream.h # None, stream'.alone, NEW d \in Client, Prompts(d)'
               PROVE  call'[d].id # session[stream.h].of
    BY <1>3, <1>4 DEF OnlyUs
  <2>1. CASE d = c
    BY <1>3, <1>4, <1>5, <2>1, ZenonT(30) DEF Prompts
  <2>2. CASE d # c
    BY <1>4, <1>5, <2>2 DEF Prompts, Good, Around, OnlyUs, Caller
  <2> QED BY <2>1, <2>2
<1>9. Told'
  <2>1. Sent' = Sent
    BY <1>5 DEF Sent
  <2>2. TellsTrue(repl, stream', session[stream.h], Sent)
    BY <1>4 DEF Good, Told, TellsTrue
  <2> QED BY <1>3, <1>4, <2>1, <2>2 DEF Told
<1> QED BY <1>6, <1>7, <1>8, <1>9 DEF Good, Around

-----------------------------------------------------------------------------
(* The line client and its stream *)

\* The line client has no stream.
LEMMA WithoutStream ==
    ASSUME IInv, Good, Engine, stream' \in Stream, ~stream'.calm, stream'.h = None,
           NEW r, (r.h = None /\ r.at \notin Acting) \/ r = call[Line], call' = [call EXCEPT ![Line] = r],
           repl'.at \notin {"wait", "replied"}, ~repl'.saw, repl'.reply = 0,
           repl'.at = "asking" => /\ r.op = "join" <=> repl'.then = "join"
                                  /\ r.op = "chat" <=> repl'.then = "chat"
    PROVE  Good'
<1>1. Line \in Caller /\ call'[Line] = r /\ \A d \in Caller \ {Line} : call'[d] = call[d]
  BY DEF IInv, Typed, TypeOK, Caller
<1>2. Kept'
  BY <1>1 DEF Good, Around, Kept, Engine
<1>3. LineStream' /\ OnlyUs'
  BY <1>1 DEF LineStream, OnlyUs
<1>4. Told'
  BY DEF Told, TellsTrue
<1> QED BY <1>2, <1>3, <1>4 DEF Good, Around

\* Only a client that joined has a stream.
LEMMA NoStream ==
    ASSUME Good, \/ repl.at \notin {"wait", "replied", "asking"}
                 \/ repl.at = "asking" /\ repl.then \notin {"join", "chat"}
    PROVE  ~stream.calm /\ stream.h = None /\ ~repl.saw /\ repl.reply = 0
  BY DEF Good, Around, LineStream

LEMMA UnjoinedType == Unjoined \in Stream /\ ~Unjoined.calm /\ Unjoined.h = None
<1>1. <<>> \in Seq(Kind)
  OBVIOUS
<1> QED BY <1>1 DEF Unjoined, Stream

\* The rest of a list of which e was read.
LEMMA RestOf ==
    ASSUME NEW q \in Seq(Kind), q # <<>>, NEW saw \in BOOLEAN,
           NEW e, e = Head(q), NEW saw2 \in BOOLEAN, saw2 <=> saw \/ e \in Running
    PROVE  /\ Tail(q) \in Seq(Kind) /\ e \in Kind
           /\ Texts(q) = Texts(Tail(q)) + (IF e = "text" THEN 1 ELSE 0)
           /\ Texts(Tail(q)) \in Nat
           /\ Tells(saw2, Tail(q)) <=> Tells(saw, q)
           /\ 1 \in DOMAIN q /\ q[1] = e
           /\ \A i \in DOMAIN Tail(q) : i + 1 \in DOMAIN q /\ i + 1 > 1 /\ Tail(q)[i] = q[i + 1]
           /\ \A i \in DOMAIN Tail(q) : Closes(saw2, Tail(q), i) <=> Closes(saw, q, i + 1)
           /\ \A i, j \in DOMAIN Tail(q) : j > i => j + 1 > i + 1
<1> DEFINE t == Tail(q)
<1>1. /\ t \in Seq(Kind) /\ DOMAIN t = 1 .. (Len(q) - 1) /\ DOMAIN q = 1 .. Len(q)
      /\ Len(q) \in Nat \ {0} /\ e = q[1] /\ e \in Kind
      /\ \A i \in 1 .. (Len(q) - 1) : t[i] = q[i + 1]
  OBVIOUS
<1>2. Texts(q) = Texts(t) + (IF e = "text" THEN 1 ELSE 0) /\ Texts(t) \in Nat
  BY <1>1, TextsOfTail, TextsOf
<1> HIDE DEF t
<1>3. \A i \in DOMAIN t : i + 1 \in DOMAIN q /\ i + 1 > 1 /\ t[i] = q[i + 1]
  BY <1>1
<1>4. \A i \in DOMAIN q : i = 1 \/ (i - 1 \in DOMAIN t /\ t[i - 1] = q[i])
  BY <1>1
<1>5. Tells(saw2, t) <=> Tells(saw, q)
  <2>1. (\E j \in DOMAIN t : t[j] \in Running) => \E j \in DOMAIN q : q[j] \in Running
    BY <1>3
  <2>2. e \in Running => \E j \in DOMAIN q : q[j] \in Running
    BY <1>1
  <2>3. ASSUME NEW j \in DOMAIN q, q[j] \in Running, e \notin Running
        PROVE  \E k \in DOMAIN t : t[k] \in Running
    <3>1. j - 1 \in DOMAIN t /\ t[j - 1] = q[j]
      BY <1>1, <1>4, <2>3
    <3> QED BY <2>3, <3>1
  <2> QED BY <2>1, <2>2, <2>3 DEF Tells
<1>6. ASSUME NEW i \in DOMAIN t
      PROVE  Closes(saw2, t, i) <=> Closes(saw, q, i + 1)
  <2>1. (\E j \in DOMAIN t : j < i /\ t[j] \in Running)
            => \E j \in DOMAIN q : j < i + 1 /\ q[j] \in Running
    BY <1>1, <1>3
  <2>2. (\E j \in DOMAIN q : j < i + 1 /\ q[j] \in Running)
            => e \in Running \/ \E j \in DOMAIN t : j < i /\ t[j] \in Running
    <3> SUFFICES ASSUME NEW j \in DOMAIN q, j < i + 1, q[j] \in Running, e \notin Running
                 PROVE  \E k \in DOMAIN t : k < i /\ t[k] \in Running
      OBVIOUS
    <3>1. j - 1 \in DOMAIN t /\ t[j - 1] = q[j]
      BY <1>1, <1>4
    <3>2. j - 1 < i
      BY <1>1
    <3> QED BY <3>1, <3>2
  <2>3. e \in Running => \E j \in DOMAIN q : j < i + 1 /\ q[j] \in Running
    BY <1>1
  <2>4. t[i] = q[i + 1]
    BY <1>3
  <2> QED BY <2>1, <2>2, <2>3, <2>4 DEF Closes
<1>7. \A i, j \in DOMAIN t : j > i => j + 1 > i + 1
  BY <1>1
<1> QED BY <1>1, <1>2, <1>3, <1>5, <1>6, <1>7 DEF t

\* The client reads e: r and st before, r2 and st2 after.
Reads(r, st, e, r2, st2) ==
    /\ r.at = "wait" /\ st.events # <<>> /\ e = Head(st.events)
    /\ e \in Running \cup {"idle", "text"}
    /\ st2 = [st EXCEPT !.events = Tail(st.events)]
    /\ r2.saw \in BOOLEAN /\ (r2.saw <=> r.saw \/ e \in Running)
    /\ r2.reply = r.reply + (IF e = "text" THEN 1 ELSE 0)
    /\ (r2.at = "replied" => e = "idle" /\ r.saw)

LEMMA ToldLess ==
    ASSUME NEW r \in Repl, NEW st \in Stream, NEW s, NEW e, NEW r2, NEW st2,
           TellsTrue(r, st, s, TRUE), Reads(r, st, e, r2, st2)
    PROVE  st2 \in Stream /\ TellsTrue(r2, st2, s, TRUE)
<1>0. /\ r.at = "wait" /\ st.events # <<>> /\ e = Head(st.events)
      /\ e \in Running \cup {"idle", "text"}
      /\ st2 = [st EXCEPT !.events = Tail(st.events)]
      /\ r2.saw \in BOOLEAN /\ (r2.saw <=> r.saw \/ e \in Running)
      /\ r2.reply = r.reply + (IF e = "text" THEN 1 ELSE 0)
      /\ (r2.at = "replied" => e = "idle" /\ r.saw)
  BY DEF Reads
<1> USE <1>0
<1> DEFINE q == st.events
           t == Tail(q)
<1>1. q \in Seq(Kind) /\ r.saw \in BOOLEAN /\ r.reply \in Nat /\ st.said \in Nat
  BY DEF Stream, Repl
<1>2. /\ t \in Seq(Kind) /\ e \in Kind /\ Texts(q) = Texts(t) + (IF e = "text" THEN 1 ELSE 0)
      /\ Texts(t) \in Nat /\ (Tells(r2.saw, t) <=> Tells(r.saw, q))
      /\ 1 \in DOMAIN q /\ q[1] = e
      /\ \A i \in DOMAIN t : i + 1 \in DOMAIN q /\ i + 1 > 1 /\ t[i] = q[i + 1]
      /\ \A i \in DOMAIN t : Closes(r2.saw, t, i) <=> Closes(r.saw, q, i + 1)
      /\ \A i, j \in DOMAIN t : j > i => j + 1 > i + 1
  BY <1>1, RestOf, SMTT(30)
<1>3. /\ st2 \in Stream /\ st2.h = st.h /\ st2.calm = st.calm /\ st2.alone = st.alone
      /\ st2.said = st.said /\ st2.events = t
  BY <1>2 DEF Stream
<1> HIDE DEF t, q
<1>4. r.reply + Texts(q) = st.said <=> r2.reply + Texts(t) = st.said
  BY <1>1, <1>2, SMTT(30)
<1>5. ASSUME st.calm, st.alone, st.h # None
      PROVE  Awaits(r2.saw, t, s, TRUE) /\ r2.reply + Texts(t) = st.said
  <2>1. Awaits(r.saw, q, s, TRUE) /\ r.reply + Texts(q) = st.said
    BY <1>5 DEF TellsTrue, q
  <2> QED BY <1>2, <1>4, <2>1 DEF Awaits
<1>6. ASSUME st.calm, st.alone, NEW i \in DOMAIN t, Closes(r2.saw, t, i)
      PROVE  /\ \A j \in DOMAIN t : j > i => t[j] = "end"
             /\ r2.reply + Texts(t) = st.said
             /\ st.h # None => Ended(s)
  <2>1. /\ \A j \in DOMAIN q : j > i + 1 => q[j] = "end"
        /\ r.reply + Texts(q) = st.said
        /\ st.h # None => Ended(s)
    BY <1>2, <1>6 DEF TellsTrue, q
  <2> QED BY <1>2, <1>4, <2>1
<1>7. ASSUME st.calm, st.alone, r2.at = "replied"
      PROVE  r2.reply = st.said /\ (st.h # None => Ended(s))
  <2>1. Closes(r.saw, q, 1)
    BY <1>2, <1>7 DEF Closes
  <2>2. /\ \A j \in DOMAIN q : j > 1 => q[j] = "end"
        /\ r.reply + Texts(q) = st.said
        /\ st.h # None => Ended(s)
    BY <1>2, <1>7, <2>1 DEF TellsTrue, q
  <2>3. Texts(t) = 0
    <3>1. \A i \in DOMAIN t : t[i] # "text"
      BY <1>2, <2>2
    <3> QED BY <1>2, <3>1, NoTexts
  <2> QED BY <1>1, <1>2, <1>7, <2>2, <2>3
<1> QED BY <1>3, <1>5, <1>6, <1>7, ZenonT(30) DEF TellsTrue

\* The line client asks, and has no stream.
LEMMA LineAsks ==
    ASSUME IInv, Good, Engine, stream' \in Stream, ~stream'.calm, stream'.h = None,
           NEW op, NEW s, call' = [call EXCEPT ![Line] = Asked(op, s)],
           repl'.at = "asking", ~repl'.saw, repl'.reply = 0,
           op = "join" <=> repl'.then = "join", op = "chat" <=> repl'.then = "chat"
    PROVE  Good'
<1> DEFINE r == Asked(op, s)
<1>1. r.op = op /\ r.h = None /\ r.at = "begin" /\ call' = [call EXCEPT ![Line] = r]
  BY DEF Asked, Resting
<1> HIDE DEF r
<1> QED BY <1>1, WithoutStream DEF Acting

\* The line client is at its prompt, or over.
LEMMA LineRests ==
    ASSUME IInv, Good, Engine, stream' \in Stream, ~stream'.calm, stream'.h = None,
           call' = [call EXCEPT ![Line] = Resting] \/ UNCHANGED call,
           repl'.at \in {"prompt", "over"}, ~repl'.saw, repl'.reply = 0
    PROVE  Good'
<1>1. CASE call' = [call EXCEPT ![Line] = Resting]
  <2>1. Resting.h = None /\ Resting.at = "none"
    BY DEF Resting
  <2> QED BY <1>1, <2>1, WithoutStream DEF Acting
<1>2. CASE UNCHANGED call
  <2>1. call' = [call EXCEPT ![Line] = call[Line]]
    BY <1>2 DEF IInv, Typed, TypeOK, Caller
  <2> QED BY <2>1, WithoutStream
<1> QED BY <1>1, <1>2

LEMMA StartGood ==
    ASSUME IInv, Good, Start
    PROVE  Good'
<1>1. /\ stream' = stream /\ stream \in Stream /\ Engine /\ repl \in Repl
      /\ ~stream.calm /\ stream.h = None /\ ~repl.saw /\ repl.reply = 0
  BY NoStream DEF Start, Good, Around, Kept, IInv, Typed, TypeOK
<1>2. CASE repl' = [repl EXCEPT !.at = "over"] /\ UNCHANGED call
  <2>1. repl'.at = "over" /\ ~repl'.saw /\ repl'.reply = 0
    BY <1>1, <1>2 DEF Repl
  <2> QED BY <1>1, <1>2, <2>1, LineRests
<1>3. ASSUME NEW op, NEW s, NEW then, Issue(op, s, then), op \in {"load", "create"},
             then \in {"resume", "fresh"}
      PROVE  Good'
  <2>1. repl'.at = "asking" /\ repl'.then = then /\ ~repl'.saw /\ repl'.reply = 0
    BY <1>1, <1>3 DEF Repl, Issue
  <2>2. call' = [call EXCEPT ![Line] = Asked(op, s)]
    BY <1>3 DEF Issue
  <2> QED BY <1>1, <1>3, <2>1, <2>2, LineAsks
<1> QED BY <1>2, <1>3 DEF Start

LEMMA CommandGood ==
    ASSUME IInv, Good, Command
    PROVE  Good'
<1>1. /\ stream' = stream /\ stream \in Stream /\ Engine /\ repl \in Repl
      /\ ~stream.calm /\ stream.h = None /\ ~repl.saw /\ repl.reply = 0
  BY NoStream DEF Command, Good, Around, Kept, IInv, Typed, TypeOK
<1> DEFINE typed == [repl EXCEPT !.lines = @ + 1]
<1>2. ASSUME NEW op, NEW s, NEW then,
             call' = [call EXCEPT ![Line] = Asked(op, s)],
             repl' = [typed EXCEPT !.at = "asking", !.then = then],
             op = "join" <=> then = "join", op # "chat", then # "chat"
      PROVE  Good'
  <2>1. repl'.at = "asking" /\ repl'.then = then /\ ~repl'.saw /\ repl'.reply = 0
    BY <1>1, <1>2 DEF Repl
  <2> QED BY <1>1, <1>2, <2>1, LineAsks
<1> HIDE DEF typed
<1> DEFINE Asks(op, s, then) ==
               /\ call' = [call EXCEPT ![Line] = Asked(op, s)]
               /\ repl' = [typed EXCEPT !.at = "asking", !.then = then]
<1>3. \/ Asks("create", None, "new")
      \/ \E s \in born : Asks("load", s, "load") \/ Asks("delete", s, "rm")
      \/ Asks("rename", repl.sess, "rename")
      \/ Asks("model", repl.sid, "model")
      \/ Asks("compact", repl.sid, "compact")
      \/ Asks("timeline", repl.sess, "timeline")
      \/ Asks("join", repl.sid, "join")
  BY DEF Command, typed
<1>4. \A op, s, then :
          Asks(op, s, then) /\ (op = "join" <=> then = "join") /\ op # "chat" /\ then # "chat" => Good'
  BY <1>2
<1> HIDE DEF Asks
<1> QED BY <1>3, <1>4

LEMMA QuitGood ==
    ASSUME IInv, Good, Quit
    PROVE  Good'
<1>1. /\ stream' = stream /\ stream \in Stream /\ Engine /\ repl \in Repl /\ UNCHANGED call
      /\ ~stream.calm /\ stream.h = None /\ ~repl.saw /\ repl.reply = 0
  BY NoStream DEF Quit, Good, Around, Kept, IInv, Typed, TypeOK
<1>2. repl'.at = "over" /\ ~repl'.saw /\ repl'.reply = 0
  BY <1>1 DEF Repl, Quit
<1> QED BY <1>1, <1>2, LineRests

\* A turn is over, or the stream of it.
LEMMA LeavesGood ==
    ASSUME IInv, Good, Engine, UNCHANGED call, stream' = Unjoined,
           repl' = Prompted \/ repl' = [Prompted EXCEPT !.sess = repl.sid]
    PROVE  Good'
<1>1. repl'.at = "prompt" /\ ~repl'.saw /\ repl'.reply = 0
  BY DEF Prompted, Repl, IInv, Typed, TypeOK
<1> QED BY <1>1, UnjoinedType, LineRests

\* The line client goes on to send its message, or to wait for the reply.
LEMMA LineGoesOn ==
    ASSUME IInv, Good, Engine, UNCHANGED stream, repl.at = "asking",
           NEW r, r.h = None, r.at \notin Acting, call' = [call EXCEPT ![Line] = r],
           repl'.saw = repl.saw, repl'.reply = repl.reply, repl'.at # "replied", Sent' = Sent,
           \/ repl'.at = "asking" /\ repl'.then = "chat" /\ r.op = "chat"
           \/ repl'.at = "wait"
    PROVE  Good'
<1>1. /\ Line \in Caller /\ call'[Line] = r /\ \A d \in Caller \ {Line} : call'[d] = call[d]
      /\ Client \subseteq Caller \ {Line} /\ session' = session /\ stream' = stream
  BY Apart DEF IInv, Typed, TypeOK, Caller, Engine
<1>2. Kept'
  BY <1>1 DEF Good, Around, Kept
<1>3. LineStream'
  BY <1>1 DEF Good, Around, LineStream
<1>4. OnlyUs'
  BY <1>1 DEF Good, Around, OnlyUs, Prompts
<1>5. Told'
  BY <1>1 DEF Good, Told, TellsTrue
<1> QED BY <1>2, <1>3, <1>4, <1>5 DEF Good, Around

LEMMA AnsweredGood ==
    ASSUME IInv, Good, Answered
    PROVE  Good'
<1> DEFINE s == call[Line].id
           done == call[Line].code = Wanted[call[Line].op]
<1>1. /\ repl.at = "asking" /\ call[Line].at = "answered" /\ Engine /\ repl \in Repl
      /\ ~repl.saw /\ repl.reply = 0 /\ stream \in Stream
      /\ (call[Line].op = "join" <=> repl.then = "join")
      /\ (call[Line].op = "chat" <=> repl.then = "chat")
  BY DEF Answered, Good, Around, Kept, LineStream, IInv, Typed, TypeOK
<1> DEFINE rests(r) == r.at \in {"prompt", "over"} /\ ~r.saw /\ r.reply = 0
<1>2. /\ rests([repl EXCEPT !.at = "over", !.then = "none"]) /\ rests(Follow(s))
      /\ rests([Prompted EXCEPT !.sess = s]) /\ rests(Prompted)
  BY <1>1 DEF Follow, Prompted, Repl
<1>3. ASSUME NEW r, rests(r), Back(r),
             (UNCHANGED stream /\ repl.then \notin {"join", "chat"}) \/ stream' = Unjoined
      PROVE  Good'
  <2>1. repl' = r /\ call' = [call EXCEPT ![Line] = Resting]
    BY <1>3 DEF Back
  <2>2. stream' \in Stream /\ ~stream'.calm /\ stream'.h = None
    BY <1>1, <1>3, NoStream, UnjoinedType
  <2> QED BY <1>1, <1>3, <2>1, <2>2, LineRests
<1>4. ASSUME Read("branch", "branch"), UNCHANGED stream, repl.then = "timeline"
      PROVE  Good'
  <2>1. repl'.at = "asking" /\ repl'.then = "branch" /\ ~repl'.saw /\ repl'.reply = 0
    BY <1>1, <1>4 DEF Read, Repl
  <2>2. call' = [call EXCEPT ![Line] = Asked("branch", repl.sess)]
    BY <1>4 DEF Read
  <2>3. ~stream.calm /\ stream.h = None
    BY <1>1, <1>4, NoStream
  <2> QED BY <1>1, <1>4, <2>1, <2>2, <2>3, LineAsks
<1>5. ASSUME repl.then = "join", call' = [call EXCEPT ![Line] = Asked("chat", repl.sid)],
             repl' = [repl EXCEPT !.then = "chat"], UNCHANGED stream
      PROVE  Good'
  <2>1. /\ repl'.at = "asking" /\ repl'.then = "chat"
        /\ repl'.saw = repl.saw /\ repl'.reply = repl.reply
    BY <1>1, <1>5 DEF Repl
  <2> DEFINE r == Asked("chat", repl.sid)
  <2>2. r.op = "chat" /\ r.h = None /\ r.at = "begin" /\ call' = [call EXCEPT ![Line] = r]
    BY <1>5 DEF Asked, Resting
  <2> HIDE DEF r
  <2>3. call'[Line] = r
    BY <2>2 DEF IInv, Typed, TypeOK, Caller
  <2>4. Sent' = Sent
    BY <1>1, <1>5, <2>1, <2>2, <2>3 DEF Sent
  <2> QED BY <1>1, <1>5, <2>1, <2>2, <2>4, LineGoesOn DEF Acting
<1>6. ASSUME repl.then = "chat", done, Back([repl EXCEPT !.at = "wait", !.then = "none"]),
             UNCHANGED stream
      PROVE  Good'
  <2>1. repl'.at = "wait" /\ repl'.saw = repl.saw /\ repl'.reply = repl.reply
    BY <1>1, <1>6 DEF Repl, Back
  <2>2. Resting.h = None /\ Resting.at = "none" /\ call' = [call EXCEPT ![Line] = Resting]
    BY <1>6 DEF Resting, Back
  <2>3. call[Line].code = 202
    BY <1>1, <1>6 DEF Wanted
  <2>4. Sent' = Sent
    BY <1>1, <1>6, <2>1, <2>3, SMTT(30) DEF Sent
  <2> QED BY <1>1, <1>6, <2>1, <2>2, <2>4, LineGoesOn DEF Acting
<1> HIDE DEF rests, done, s
<1>7. LET then == repl.then IN
       CASE then \in {"resume", "fresh"} /\ ~ done ->
                Back([repl EXCEPT !.at = "over", !.then = "none"]) /\ UNCHANGED stream
         [] then \in {"resume", "fresh", "new", "load"} /\ done ->
                Back(Follow(s)) /\ UNCHANGED stream
         [] then \in {"model", "compact"} /\ done ->
                Back([Prompted EXCEPT !.sess = s]) /\ UNCHANGED stream
         [] then = "timeline" /\ done ->
                \/ Read("branch", "branch") /\ UNCHANGED stream
                \/ Back(Prompted) /\ UNCHANGED stream
         [] then = "join" /\ done ->
                /\ call' = [call EXCEPT ![Line] = Asked("chat", repl.sid)]
                /\ repl' = [repl EXCEPT !.then = "chat"] /\ UNCHANGED stream
         [] then = "chat" /\ done ->
                Back([repl EXCEPT !.at = "wait", !.then = "none"]) /\ UNCHANGED stream
         [] OTHER -> Back(Prompted) /\ stream' = Unjoined
  BY DEF Answered, done, s
<1> QED BY <1>2, <1>3, <1>4, <1>5, <1>6, <1>7

-----------------------------------------------------------------------------
(* The turn is read *)

LEMMA ReadGood ==
    ASSUME IInv, Good, Engine, UNCHANGED call, repl.at = "wait", stream.events # <<>>,
           NEW e, e = Head(stream.events), e \in Running \cup {"idle", "text"},
           stream' = [stream EXCEPT !.events = Tail(@)],
           repl'.saw \in BOOLEAN, repl'.saw <=> repl.saw \/ e \in Running,
           repl'.reply = repl.reply + (IF e = "text" THEN 1 ELSE 0),
           repl'.at \in {"wait", "replied"}, repl'.at = "replied" => e = "idle" /\ repl.saw
    PROVE  Good'
<1>1. /\ stream' \in Stream /\ TellsTrue(repl', stream', session[stream.h], TRUE)
  <2>1. TellsTrue(repl, stream, session[stream.h], TRUE) /\ stream \in Stream /\ repl \in Repl
    BY DEF Good, Told, Sent, Around, Kept, IInv, Typed, TypeOK
  <2> DEFINE s == session[stream.h]
             r2 == repl'
             st2 == stream'
  <2>2. Reads(repl, stream, e, r2, st2)
    BY <2>1 DEF Reads
  <2>3. TellsTrue(repl, stream, s, TRUE)
    BY <2>1
  <2> HIDE DEF s, r2, st2
  <2>4. st2 \in Stream /\ TellsTrue(r2, st2, s, TRUE)
    BY <2>1, <2>2, <2>3, ToldLess
  <2> QED BY <2>4 DEF s, r2, st2
<1>2. /\ stream'.h = stream.h /\ stream'.calm = stream.calm /\ stream'.alone = stream.alone
      /\ session' = session /\ call' = call
  BY DEF Good, Around, Kept, Stream, Engine
<1>3. Kept'
  BY <1>1, <1>2 DEF Good, Around, Kept
<1>4. LineStream' /\ OnlyUs'
  BY <1>2 DEF Good, Around, LineStream, OnlyUs, Prompts
<1>5. Told'
  BY <1>1, <1>2 DEF Told, Sent
<1> QED BY <1>3, <1>4, <1>5 DEF Good, Around

LEMMA EventGood ==
    ASSUME IInv, Good, Event
    PROVE  Good'
<1> DEFINE e == Head(stream.events)
           read == [stream EXCEPT !.events = Tail(@)]
<1>1. /\ repl.at = "wait" /\ stream.events # <<>> /\ Engine /\ UNCHANGED call
      /\ repl \in Repl
  BY DEF Event, IInv, Typed, TypeOK
<1>2. CASE e = "text" /\ repl' = [repl EXCEPT !.reply = @ + 1] /\ stream' = read
  <2>1. repl'.at = "wait" /\ repl'.saw = repl.saw /\ repl'.reply = repl.reply + 1 /\ repl.saw \in BOOLEAN
    BY <1>1, <1>2 DEF Repl
  <2> QED BY <1>1, <1>2, <2>1, ReadGood DEF Running
<1>3. CASE /\ e \in {"busy", "waiting", "compacting"}
           /\ repl' = [repl EXCEPT !.saw = TRUE] /\ stream' = read
  <2>1. repl'.at = "wait" /\ repl'.saw = TRUE /\ repl'.reply = repl.reply + 0
    BY <1>1, <1>3 DEF Repl
  <2> QED BY <1>1, <1>3, <2>1, ReadGood DEF Running
<1>4. CASE /\ e = "idle"
           /\ repl' = [repl EXCEPT !.at = IF Ends(e) THEN "replied" ELSE @]
           /\ stream' = read
  <2>1. /\ repl'.at \in {"wait", "replied"} /\ (repl'.at = "replied" => repl.saw)
        /\ repl'.saw = repl.saw /\ repl'.reply = repl.reply + 0 /\ repl.saw \in BOOLEAN
    BY <1>1, <1>4 DEF Repl, Ends
  <2> QED BY <1>1, <1>4, <2>1, ReadGood DEF Running
<1>5. CASE repl' = Prompted /\ stream' = Unjoined
  BY <1>1, <1>5, LeavesGood
<1> QED BY <1>2, <1>3, <1>4, <1>5 DEF Event

LEMMA LineGood ==
    ASSUME IInv, Good, LineNext
    PROVE  Good'
<1>1. CASE Overtaken
  BY <1>1, LeavesGood DEF Overtaken
<1>2. CASE Shown
  BY <1>2, LeavesGood DEF Shown
<1> QED BY <1>1, <1>2, StartGood, AnsweredGood, CommandGood, QuitGood, EventGood DEF LineNext

-----------------------------------------------------------------------------
(* The invariant of the stream *)

LEMMA ServeGood ==
    ASSUME IInv, Good, NEW c \in Caller, Serve(c), UNCHANGED repl
    PROVE  Good'
  BY SilentRequests, FindStep, JoinStep, EnqueueStep, ApproveStep, CompactSteps, CancelStep,
     OpeningGood, ClosingGood DEF Serve

LEMMA GoodInitially == InitLine => Good
<1> SUFFICES ASSUME InitLine PROVE Good
  OBVIOUS
<1>1. /\ stream = Unjoined /\ stream.h = None /\ ~stream.calm /\ stream \in Stream
      /\ repl.at = "start" /\ ~repl.saw /\ repl.reply = 0
  BY UnjoinedType DEF InitLine, Init
<1>2. /\ \A h \in Handle : session[h].status = "tombstone" /\ session[h].at = "over"
      /\ \A c \in Caller : call[c].h = None /\ call[c].at = "none"
  BY DEF InitLine, Init, Gone, Resting
<1> QED BY <1>1, <1>2 DEF Good, Around, Kept, LineStream, OnlyUs, Told, TellsTrue, Acting

LEMMA GoodPreserved == IInv /\ Good /\ [Next]_lineVars => Good'
<1> SUFFICES ASSUME IInv, Good, [Next]_lineVars PROVE Good'
  OBVIOUS
<1>1. ASSUME EngineNext, UNCHANGED repl PROVE Good'
  <2>1. ASSUME NEW h \in Handle, AgentStep(h) PROVE Good'
    BY <1>1, <2>1, AgentTold, AgentAround DEF Good, Around, Kept
  <2>2. CASE \E c \in Client : Ask(c)
    BY <1>1, <2>2, AskGood
  <2>3. CASE \E c \in Caller : Serve(c)
    BY <1>1, <2>3, ServeGood
  <2>4. CASE Stop \/ StopClose \/ Exit \/ Restart
    BY <1>1, <2>4, LifeGood
  <2> QED BY <1>1, <2>1, <2>2, <2>3, <2>4 DEF EngineNext
<1>2. CASE LineNext
  BY <1>2, LineGood
<1>3. CASE UNCHANGED lineVars
  BY <1>3 DEF lineVars, vars, Good, Around, Kept, LineStream, OnlyUs, Prompts, Told, Sent
<1> QED BY <1>1, <1>2, <1>3 DEF Next

LEMMA Streams == Spec => []Good
  BY GoodInitially, GoodPreserved, Invariant, PTL DEF Spec

\* A reply that the line client shows is the text of its own turn, all of it
\* and nothing else, and that turn is over, if it began on a quiet session and
\* nobody else prompted or compacted it (remote.go Chat, tui.go, engine.go
\* JoinSessionEvents): whatever the queue of the subscriber drops and whoever
\* closes, cancels or restarts meanwhile.
THEOREM RepliesAreWhole == Spec => []ReplyWhole
<1>1. IInv /\ Good => ReplyWhole
  <2> SUFFICES ASSUME IInv, Good, repl.at = "replied", stream.calm, stream.alone
               PROVE  /\ repl.reply = stream.said
                      /\ stream.h # None => session[stream.h].queue = 0
                                            /\ session[stream.h].at = "parked"
    BY DEF ReplyWhole
  <2> QED BY DEF Good, Told, TellsTrue, Ended
<1> QED BY <1>1, Invariant, Streams, PTL
=============================================================================
