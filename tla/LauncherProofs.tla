--------------------------- MODULE LauncherProofs ---------------------------
(***************************************************************************)
(* Proofs about the inference launcher, for any profiles, ports, capacities *)
(* and number of starts: a run shown as stopped has ended and all that was *)
(* read of it is in its log, two servers that run never share a port, and  *)
(* infai kills a server only after asking it to stop, but none that was up *)
(* at the quit key survives it.                                            *)
(*                                                                         *)
(* The listener reports an exit only after logCh is closed and drained and *)
(* cmd.Wait has returned; Wait returns only when the process has ended and *)
(* its pipe is empty. So a run that is up is active, and the ports of      *)
(* active runs are those pickRunPort avoids.                               *)
(*                                                                         *)
(* The second part is about the library of models.                         *)
(***************************************************************************)
EXTENDS Launcher, Library, FiniteSetTheorems, TLAPS

USE LauncherAssumption

Run == [profile : Profile, port : Port \cup {0},
        status : {"running", "stopping", "stopped", "removed"},
        proc : {"starting", "serving", "exited", "killed"},
        pipe : Seq({"line", "long"}), scanner : {"scanning", "ended", "gaveup"},
        logq : Nat, over : BOOLEAN,
        listener : {"waiting", "line", "exit", "done", "lost"}, ticks : Nat]

\* What is over has ended, and what is reported was over and read.
RunInv(r) ==
    /\ r.over => ~Up(r) /\ r.pipe = <<>>
    /\ r.scanner = "ended" => r.over
    /\ r.listener \in {"exit", "done"} /\ r.status # "removed" =>
          r.over /\ r.logq = 0 /\ r.scanner # "scanning"
    /\ r.status = "stopped" => r.listener = "done"
    /\ r.status = "removed" => ~Up(r) /\ r.listener = "done"

PendingOK ==
    /\ pending.kind \in {"nothing", "launch", "open", "stop", "restart", "remove"}
    /\ pending.kind = "launch" => pending.on \in Profile
    /\ pending.kind = "nothing" => pending = Nothing

Good(r) == r \in Run /\ RunInv(r)

RunsInv == runs \in Seq(Run) /\ \A i \in DOMAIN runs : RunInv(runs[i])

IInv == PendingOK /\ RunsInv /\ PortsDistinct
-----------------------------------------------------------------------------
(* One run *)

LEMMA UpIsActive ==
    ASSUME NEW r, Good(r)
    PROVE  Up(r) => Active(r)
  BY DEF Good, Run, RunInv, Up, Active

LEMMA StartedIsGood ==
    ASSUME NEW p \in Profile, NEW q \in Port \cup {0}, NEW n \in Nat
    PROVE  /\ Good(Started(p, q)) /\ Started(p, q).port = q
           /\ Good([Started(p, q) EXCEPT !.ticks = n])
           /\ [Started(p, q) EXCEPT !.ticks = n].port = q
<1> DEFINE old == Started(p, q)
<1>0. old = [profile |-> p, port |-> q, status |-> "running", proc |-> "starting",
           pipe |-> <<>>, scanner |-> "scanning", logq |-> 0, over |-> FALSE,
           listener |-> "waiting", ticks |-> 0]
  BY DEF Started
<1> HIDE DEF old
<1>1. old \in Run /\ ~old.over /\ old.scanner = "scanning" /\ old.listener = "waiting"
      /\ old.status = "running" /\ old.port = q
  BY <1>0 DEF Run
<1>2. [old EXCEPT !.ticks = n] \in Run
  BY <1>1 DEF Run
<1>3. RunInv([old EXCEPT !.ticks = n]) /\ [old EXCEPT !.ticks = n].port = q
  BY <1>1 DEF Run, RunInv
<1>4. RunInv(old)
  BY <1>1 DEF Run, RunInv
<1> QED BY <1>1, <1>2, <1>3, <1>4 DEF Good, old

LEMMA RemovedIsGood ==
    ASSUME NEW p \in Profile
    PROVE  LET s == [Started(p, 0) EXCEPT !.status = "removed", !.proc = "exited",
                                          !.listener = "done"]
           IN  Good(s) /\ ~Up(s)
<1> DEFINE old == Started(p, 0)
<1>0. old = [profile |-> p, port |-> 0, status |-> "running", proc |-> "starting",
           pipe |-> <<>>, scanner |-> "scanning", logq |-> 0, over |-> FALSE,
           listener |-> "waiting", ticks |-> 0]
  BY DEF Started
<1> HIDE DEF old
<1>1. old \in Run /\ ~old.over /\ old.scanner = "scanning"
  BY <1>0 DEF Run
<1>2. [old EXCEPT !.status = "removed", !.proc = "exited", !.listener = "done"] \in Run
  BY <1>1 DEF Run
<1>3. LET t == [old EXCEPT !.status = "removed", !.proc = "exited", !.listener = "done"]
      IN  RunInv(t) /\ ~Up(t)
  BY <1>1 DEF Run, RunInv, Up
<1> QED BY <1>2, <1>3 DEF Good, old

\* A step of one process keeps it good, its port, and starts nothing.
Quiet(r, s) == Good(s) /\ (Up(s) => Up(r) /\ s.port = r.port)

LEMMA ServeStep ==
    ASSUME NEW r, Good(r), r.proc = "starting"
    PROVE  Quiet(r, [r EXCEPT !.proc = "serving"])
<1> DEFINE s == [r EXCEPT !.proc = "serving"]
<1>1. s \in Run
  BY DEF Good, Run
<1>2. RunInv(s) /\ s.port = r.port /\ Up(r)
  BY DEF Good, Run, RunInv, Up
<1> QED BY <1>1, <1>2 DEF Quiet, Good

LEMMA WriteStep ==
    ASSUME NEW r, Good(r), Up(r), NEW l \in {"line", "long"}
    PROVE  Quiet(r, [r EXCEPT !.pipe = Append(@, l)])
<1> DEFINE s == [r EXCEPT !.pipe = Append(@, l)]
<1>1. r \in Run /\ RunInv(r)
  BY DEF Good
<1>2. Append(r.pipe, l) \in Seq({"line", "long"})
  BY <1>1 DEF Run
<1>3. s \in Run
  BY <1>1, <1>2 DEF Run
<1>4. RunInv(s) /\ s.port = r.port
  BY <1>1 DEF Run, RunInv, Up
<1> QED BY <1>3, <1>4 DEF Quiet, Good

LEMMA ExitStep ==
    ASSUME NEW r, Good(r)
    PROVE  Quiet(r, [r EXCEPT !.proc = "exited"])
<1> DEFINE s == [r EXCEPT !.proc = "exited"]
<1>1. s \in Run
  BY DEF Good, Run
<1>2. RunInv(s) /\ s.port = r.port /\ ~Up(s)
  BY DEF Good, Run, RunInv, Up
<1> QED BY <1>1, <1>2 DEF Quiet, Good

LEMMA WaitStep ==
    ASSUME NEW r, Good(r), WaitReturns(r)
    PROVE  Quiet(r, [r EXCEPT !.over = TRUE])
<1> DEFINE s == [r EXCEPT !.over = TRUE]
<1>1. s \in Run
  BY DEF Good, Run
<1>2. RunInv(s) /\ s.port = r.port /\ ~Up(s)
  BY DEF Good, Run, RunInv, Up, WaitReturns
<1> QED BY <1>1, <1>2 DEF Quiet, Good

LEMMA ScanSteps ==
    ASSUME NEW r, Good(r), NEW s \in Scanned(r)
    PROVE  Quiet(r, s)
<1>a. r.scanner # "scanning" => Scanned(r) = {}
  BY DEF Scanned
<1>0. r \in Run /\ RunInv(r) /\ r.scanner = "scanning" /\ r.logq \in Nat
  BY <1>a DEF Good, Run
<1>1. CASE r.pipe = <<>>
  <2>1. r.over /\ s = [r EXCEPT !.scanner = "ended"]
    BY <1>0, <1>1 DEF Scanned
  <2>2. s \in Run
    BY <1>0, <2>1 DEF Run
  <2>3. RunInv(s) /\ s.port = r.port /\ (Up(s) => Up(r))
    BY <1>0, <2>1 DEF Run, RunInv, Up
  <2> QED BY <2>2, <2>3 DEF Quiet, Good
<1>2. CASE r.pipe # <<>>
  <2>1. ~r.over
    BY <1>0, <1>2 DEF RunInv
  <2>2. Tail(r.pipe) \in Seq({"line", "long"}) /\ r.pipe \in Seq({"line", "long"})
    BY <1>0, <1>2 DEF Run
  <2>3. CASE Head(r.pipe) = "long"
    <3>1. PICK rest \in {r.pipe, Tail(r.pipe)} : s = [r EXCEPT !.scanner = "gaveup", !.pipe = rest]
      BY <1>0, <1>2, <2>3 DEF Scanned
    <3>2. s \in Run
      BY <1>0, <2>2, <3>1 DEF Run
    <3>3. RunInv(s) /\ s.port = r.port /\ (Up(s) => Up(r))
      BY <1>0, <2>1, <3>1 DEF Run, RunInv, Up
    <3> QED BY <3>2, <3>3 DEF Quiet, Good
  <2>4. CASE Head(r.pipe) # "long"
    <3>1. s = [r EXCEPT !.pipe = Tail(@), !.logq = @ + 1]
      BY <1>0, <1>2, <2>4 DEF Scanned
    <3>a. r.logq + 1 \in Nat
      BY <1>0
    <3>2. s \in Run
      BY <1>0, <2>2, <3>1, <3>a DEF Run
    <3>3. RunInv(s) /\ s.port = r.port /\ (Up(s) => Up(r))
      BY <1>0, <2>1, <3>1 DEF Run, RunInv, Up
    <3> QED BY <3>2, <3>3 DEF Quiet, Good
  <2> QED BY <2>3, <2>4
<1> QED BY <1>1, <1>2

LEMMA ListenSteps ==
    ASSUME NEW r, Good(r), NEW s \in Listening(r)
    PROVE  Quiet(r, s)
<1>a. r.listener # "waiting" => Listening(r) = {}
  BY DEF Listening
<1>0. r \in Run /\ RunInv(r) /\ r.listener = "waiting" /\ r.logq \in Nat
  BY <1>a DEF Good, Run
<1>1. CASE r.logq > 0
  <2>1. s = [r EXCEPT !.logq = @ - 1, !.listener = "line"]
    BY <1>0, <1>1 DEF Listening
  <2>a. r.logq - 1 \in Nat
    BY <1>0, <1>1
  <2>2. s \in Run
    BY <1>0, <2>a, <2>1 DEF Run
  <2>3. RunInv(s) /\ s.port = r.port /\ (Up(s) => Up(r))
    BY <1>0, <2>1 DEF Run, RunInv, Up
  <2> QED BY <2>2, <2>3 DEF Quiet, Good
<1>2. CASE r.logq = 0
  <2>1. r.scanner # "scanning" /\ r.over /\ s = [r EXCEPT !.listener = "exit"]
    BY <1>0, <1>2 DEF Listening
  <2>2. s \in Run
    BY <1>0, <2>1 DEF Run
  <2>3. RunInv(s) /\ s.port = r.port /\ (Up(s) => Up(r))
    BY <1>0, <1>2, <2>1 DEF Run, RunInv, Up
  <2> QED BY <2>2, <2>3 DEF Quiet, Good
<1> QED BY <1>0, <1>1, <1>2

\* What a run keeps when only its listener, or its listener and its status, change.
LEMMA ListenerField ==
    ASSUME NEW r \in Run, NEW l \in {"waiting", "line", "exit", "done", "lost"}
    PROVE  LET s == [r EXCEPT !.listener = l] IN
           /\ s \in Run /\ s.port = r.port /\ s.proc = r.proc /\ s.listener = l /\ s.status = r.status
           /\ s.pipe = r.pipe /\ s.scanner = r.scanner /\ s.logq = r.logq /\ s.over = r.over
<1> DEFINE s == [r EXCEPT !.listener = l]
<1>1. s \in Run
  BY ZenonT(60) DEF Run
<1>2. /\ s.port = r.port /\ s.proc = r.proc /\ s.listener = l /\ s.status = r.status
      /\ s.pipe = r.pipe /\ s.scanner = r.scanner /\ s.logq = r.logq /\ s.over = r.over
  BY SMTT(60) DEF Run
<1> QED BY <1>1, <1>2

LEMMA StoppedFields ==
    ASSUME NEW r \in Run
    PROVE  LET s == [r EXCEPT !.listener = "done", !.status = "stopped"] IN
           /\ s \in Run /\ s.port = r.port /\ s.proc = r.proc
           /\ s.listener = "done" /\ s.status = "stopped"
           /\ s.pipe = r.pipe /\ s.scanner = r.scanner /\ s.logq = r.logq /\ s.over = r.over
<1> DEFINE s == [r EXCEPT !.listener = "done", !.status = "stopped"]
<1>1. s \in Run
  BY ZenonT(60) DEF Run
<1>2. /\ s.port = r.port /\ s.proc = r.proc /\ s.listener = "done" /\ s.status = "stopped"
      /\ s.pipe = r.pipe /\ s.scanner = r.scanner /\ s.logq = r.logq /\ s.over = r.over
  BY SMTT(60) DEF Run
<1> QED BY <1>1, <1>2

LEMMA DeliverStep ==
    ASSUME NEW r, Good(r), r.listener \in {"line", "exit"}
    PROVE  Quiet(r, Delivered(r))
<1> DEFINE s == Delivered(r)
<1>0. r \in Run /\ RunInv(r)
  BY DEF Good
<1>1. \/ s = [r EXCEPT !.listener = "lost"]
      \/ s = [r EXCEPT !.listener = "waiting"] /\ r.listener = "line"
      \/ s = [r EXCEPT !.listener = "done", !.status = "stopped"] /\ r.listener = "exit"
  BY DEF Delivered
<1> HIDE DEF s
<1>2. /\ s \in Run /\ s.port = r.port /\ s.proc = r.proc
      /\ s.pipe = r.pipe /\ s.scanner = r.scanner /\ s.logq = r.logq /\ s.over = r.over
      /\ \/ s.listener \in {"lost", "waiting"} /\ s.status = r.status
         \/ s.listener = "done" /\ s.status = "stopped" /\ r.listener = "exit"
  <2>1. CASE s = [r EXCEPT !.listener = "lost"]
    BY <1>0, <2>1, ListenerField, ZenonT(60)
  <2>2. CASE s = [r EXCEPT !.listener = "waiting"]
    BY <1>0, <2>2, ListenerField, ZenonT(60)
  <2>3. CASE s = [r EXCEPT !.listener = "done", !.status = "stopped"] /\ r.listener = "exit"
    BY <1>0, <2>3, StoppedFields
  <2> QED BY <1>1, <2>1, <2>2, <2>3
<1>3. r.status \notin {"stopped", "removed"}
  BY <1>0 DEF RunInv
<1>4. RunInv(s) /\ (Up(s) => Up(r))
  BY <1>0, <1>2, <1>3, SMTT(60) DEF RunInv, Up
<1> HIDE DEF Quiet
<1>5. Quiet(r, s)
  BY <1>2, <1>4 DEF Quiet, Good
<1> QED BY <1>5 DEF s

LEMMA StopSteps ==
    ASSUME NEW r, Good(r)
    PROVE  /\ Quiet(r, StopServer(r)) /\ Quiet(r, ForceKill(r)) /\ Quiet(r, r)
           /\ Up(r) => ~Up(ForceKill(r))
           /\ StopServer(r).proc = r.proc
<1>0. r \in Run /\ RunInv(r) /\ Quiet(r, r)
  BY DEF Good, Quiet
<1>1. Quiet(r, StopServer(r)) /\ StopServer(r).proc = r.proc
  <2>1. CASE r.status # "running"
    BY <1>0, <2>1 DEF StopServer
  <2>2. CASE r.status = "running"
    <3> DEFINE s == [r EXCEPT !.status = "stopping", !.ticks = @ + 1]
    <3>1. StopServer(r) = s
      BY <2>2 DEF StopServer
    <3>2. r.ticks + 1 \in Nat
      BY <1>0 DEF Run
    <3>3. s \in Run
      BY <1>0, <3>2 DEF Run
    <3>4. RunInv(s) /\ s.port = r.port /\ s.proc = r.proc /\ (Up(s) => Up(r))
      BY <1>0, <2>2 DEF Run, RunInv, Up
    <3> QED BY <3>1, <3>3, <3>4 DEF Quiet, Good
  <2> QED BY <2>1, <2>2
<1>2. Quiet(r, ForceKill(r)) /\ (Up(r) => ~Up(ForceKill(r)))
  BY SMTT(30) DEF Good, Run, RunInv, Up, Quiet, ForceKill
<1> QED BY <1>1, <1>2 DEF Quiet

LEMMA TimeoutStep ==
    ASSUME NEW r, Good(r), r.ticks > 0
    PROVE  LET t == [r EXCEPT !.ticks = @ - 1] IN
           /\ Quiet(r, t) /\ Quiet(r, TimedOut(t))
           /\ t.proc = r.proc
           /\ Up(r) /\ TimedOut(t).proc = "killed" => r.status = "stopping"
<1> DEFINE t == [r EXCEPT !.ticks = @ - 1]
<1>1. Quiet(r, t) /\ t.proc = r.proc /\ t.status = r.status /\ Good(t) /\ (Up(t) <=> Up(r))
  BY SMTT(30) DEF Good, Run, RunInv, Up, Quiet
<1> HIDE DEF t
<1>2. Quiet(t, TimedOut(t))
  BY <1>1, StopSteps DEF TimedOut
<1>3. Quiet(r, TimedOut(t))
  BY <1>1, <1>2 DEF Quiet
<1>4. Up(r) /\ TimedOut(t).proc = "killed" => r.status = "stopping"
  BY <1>1 DEF TimedOut, Up
<1> QED BY <1>1, <1>3, <1>4 DEF t
-----------------------------------------------------------------------------
(* All runs *)

LEMMA OneRunChanges ==
    ASSUME RunsInv, PortsDistinct, NEW i \in DOMAIN runs, NEW s, Quiet(runs[i], s), Set(i, s)
    PROVE  RunsInv' /\ PortsDistinct'
<1>1. runs \in Seq(Run) /\ runs' = [runs EXCEPT ![i] = s] /\ s \in Run /\ RunInv(s)
  BY DEF RunsInv, Set, Quiet, Good
<1>2. runs' \in Seq(Run) /\ DOMAIN runs' = DOMAIN runs
      /\ \A j \in DOMAIN runs : runs'[j] = IF j = i THEN s ELSE runs[j]
  BY <1>1
<1>3. RunsInv'
  BY <1>1, <1>2 DEF RunsInv, RunInv, Up
<1>4. PortsDistinct'
  <2> SUFFICES ASSUME NEW a \in DOMAIN runs, NEW b \in DOMAIN runs, a # b,
                      Up(runs'[a]), Up(runs'[b])
               PROVE  runs'[a].port # runs'[b].port
    BY <1>2 DEF PortsDistinct, Up
  <2>1. Up(runs[a]) /\ runs'[a].port = runs[a].port
    BY <1>2 DEF Quiet
  <2>2. Up(runs[b]) /\ runs'[b].port = runs[b].port
    BY <1>2 DEF Quiet
  <2> QED BY <2>1, <2>2 DEF PortsDistinct
<1> QED BY <1>3, <1>4

LEMMA AllRunsChange ==
    ASSUME RunsInv, PortsDistinct, DOMAIN runs' = DOMAIN runs, runs' \in Seq(Run),
           \A i \in DOMAIN runs : Quiet(runs[i], runs'[i])
    PROVE  RunsInv' /\ PortsDistinct'
<1>1. RunsInv'
  BY DEF RunsInv, Quiet, Good, RunInv, Up
<1>2. PortsDistinct'
  BY DEF PortsDistinct, Quiet, Up
<1> QED BY <1>1, <1>2

\* A server starts, in a new run or a stopped one, on a port nobody has.
LEMMA ServerStarts ==
    ASSUME RunsInv, PortsDistinct, NEW foreign, NEW q \in PickRunPort(foreign),
           NEW s, Good(s), s.port = q,
           runs' = Append(runs, s) \/ \E i \in DOMAIN runs : Set(i, s)
    PROVE  RunsInv' /\ PortsDistinct'
<1>1. q \in Port /\ q \notin OccupiedPorts
  BY DEF PickRunPort
<1>2. Good(s) /\ s.port = q
  OBVIOUS
<1>3. \A j \in DOMAIN runs : Up(runs[j]) => runs[j].port # q
  <2> SUFFICES ASSUME NEW j \in DOMAIN runs, Up(runs[j]) PROVE j \in ActiveRuns
    BY <1>1 DEF OccupiedPorts
  <2>1. Good(runs[j]) /\ runs[j].status # "removed"
    BY DEF RunsInv, Good, RunInv
  <2> QED BY <2>1, UpIsActive DEF ActiveRuns, Stored
<1>4. PICK k \in DOMAIN runs' :
        /\ runs' \in Seq(Run) /\ runs'[k] = s
        /\ \A j \in DOMAIN runs' \ {k} : j \in DOMAIN runs /\ runs'[j] = runs[j]
  <2>0. runs \in Seq(Run) /\ s \in Run
    BY <1>2 DEF RunsInv, Good
  <2>1. CASE runs' = Append(runs, s)
    <3>1. Len(runs) + 1 \in DOMAIN runs' /\ runs' \in Seq(Run) /\ runs'[Len(runs) + 1] = s
          /\ \A j \in DOMAIN runs' \ {Len(runs) + 1} : j \in DOMAIN runs /\ runs'[j] = runs[j]
      BY <2>0, <2>1
    <3> QED BY <3>1
  <2>2. CASE \E i \in DOMAIN runs : Set(i, s)
    <3>1. PICK i \in DOMAIN runs : runs' = [runs EXCEPT ![i] = s]
      BY <2>2 DEF Set
    <3> QED BY <2>0, <3>1, SMTT(30)
  <2> QED BY <2>1, <2>2
<1>5. RunsInv'
  BY <1>2, <1>4, SMTT(30) DEF RunsInv, Good, RunInv, Up
<1>6. PortsDistinct'
  BY <1>2, <1>3, <1>4, SMTT(60) DEF PortsDistinct, Up
<1> QED BY <1>5, <1>6
-----------------------------------------------------------------------------
(* The steps *)

LEMMA RunIsGood ==
    ASSUME RunsInv, NEW i \in DOMAIN runs
    PROVE  Good(runs[i])
  BY DEF RunsInv, Good

LEMMA Initially == Init => IInv
  BY DEF Init, IInv, PendingOK, RunsInv, PortsDistinct, Nothing

LEMMA ProcessSteps ==
    ASSUME IInv, Process
    PROVE  IInv'
<1> PICK i \in DOMAIN runs : Serve(i) \/ Write(i) \/ Exit(i)
  BY DEF Process
<1>0. Good(runs[i]) /\ PendingOK'
  BY RunIsGood DEF IInv, PendingOK, Serve, Write, Exit
<1>1. CASE Serve(i)
  BY <1>0, <1>1, ServeStep, OneRunChanges DEF Serve, IInv
<1>2. CASE Write(i)
  <2>1. PICK l \in Lines : Set(i, [runs[i] EXCEPT !.pipe = Append(@, l)])
    BY <1>2 DEF Write
  <2>2. l \in {"line", "long"} /\ Up(runs[i])
    BY <1>2 DEF Write, LauncherAssumption
  <2>3. Quiet(runs[i], [runs[i] EXCEPT !.pipe = Append(@, l)])
    BY <1>0, <2>2, WriteStep
  <2> QED BY <1>0, <2>1, <2>3, OneRunChanges DEF IInv
<1>3. CASE Exit(i)
  BY <1>0, <1>3, ExitStep, OneRunChanges DEF Exit, IInv
<1> QED BY <1>1, <1>2, <1>3

LEMMA StreamSteps ==
    ASSUME IInv, Streams
    PROVE  IInv'
<1> PICK i \in DOMAIN runs : Scan(i) \/ Wait(i) \/ Listen(i) \/ Deliver(i)
  BY DEF Streams
<1>0. Good(runs[i]) /\ PendingOK'
  BY RunIsGood DEF IInv, PendingOK, Scan, Wait, Listen, Deliver
<1>1. CASE Scan(i)
  <2>1. PICK s \in Scanned(runs[i]) : Set(i, s)
    BY <1>1 DEF Scan
  <2> QED BY <1>0, <2>1, ScanSteps, OneRunChanges DEF IInv
<1>2. CASE Wait(i)
  BY <1>0, <1>2, WaitStep, OneRunChanges DEF Wait, IInv
<1>3. CASE Listen(i)
  <2>1. PICK s \in Listening(runs[i]) : Set(i, s)
    BY <1>3 DEF Listen
  <2> QED BY <1>0, <2>1, ListenSteps, OneRunChanges DEF IInv
<1>4. CASE Deliver(i)
  BY <1>0, <1>4, DeliverStep, OneRunChanges DEF Deliver, IInv
<1> QED BY <1>1, <1>2, <1>3, <1>4

LEMMA TimerSteps ==
    ASSUME IInv, Timers
    PROVE  IInv'
<1> PICK i \in DOMAIN runs : StopTimeout(i)
  BY DEF Timers
<1>0. Good(runs[i]) /\ PendingOK' /\ runs[i].ticks > 0
  BY RunIsGood DEF IInv, PendingOK, StopTimeout
<1> DEFINE t == [runs[i] EXCEPT !.ticks = @ - 1]
           s == IF Deaf THEN t ELSE TimedOut(t)
<1>1. Set(i, s)
  BY DEF StopTimeout
<1>2. Quiet(runs[i], s)
  BY <1>0, TimeoutStep
<1> QED BY <1>0, <1>1, <1>2, OneRunChanges DEF IInv

LEMMA DoSteps ==
    ASSUME RunsInv, PortsDistinct, NEW k \in {"launch", "open", "stop", "restart", "remove"}, NEW on,
           k = "launch" => on \in Profile, k # "launch" => on \in Stored, Do(k, on)
    PROVE  RunsInv' /\ PortsDistinct'
<1>0. ASSUME UNCHANGED runs PROVE RunsInv' /\ PortsDistinct'
  BY <1>0 DEF RunsInv, PortsDistinct
<1>1. CASE k = "launch"
  <2>1. Launch(on)
    BY <1>1 DEF Do
  <2>2. CASE \E foreign \in Foreign : \E q \in PickRunPort(foreign) : runs' = Append(runs, Started(on, q))
    <3>1. PICK foreign \in Foreign : \E q \in PickRunPort(foreign) : runs' = Append(runs, Started(on, q))
      BY <2>2
    <3>2. PICK q \in PickRunPort(foreign) : runs' = Append(runs, Started(on, q))
      BY <3>1
    <3>3. Good(Started(on, q)) /\ Started(on, q).port = q
      BY <1>1, StartedIsGood DEF PickRunPort
    <3> QED BY <1>1, <3>2, <3>3, ServerStarts
  <2> QED BY <1>0, <2>1, <2>2 DEF Launch
<1>2. CASE k = "open"
  BY <1>0, <1>2 DEF Do
<1>3. CASE k = "stop"
  <2>1. on \in DOMAIN runs /\ Set(on, StopServer(runs[on]))
    BY <1>3 DEF Do, Stored
  <2> QED BY <2>1, RunIsGood, StopSteps, OneRunChanges
<1>4. CASE k = "restart"
  <2>1. on \in DOMAIN runs /\ Restart(on)
    BY <1>4 DEF Do, Stored
  <2>2. Good(runs[on]) /\ runs[on].profile \in Profile /\ runs[on].ticks \in Nat
    BY <2>1, RunIsGood DEF Good, Run
  <2>3. CASE \E foreign \in Foreign : \E q \in PickRunPort(foreign) :
               Set(on, [Started(runs[on].profile, q) EXCEPT !.ticks = runs[on].ticks])
    <3>1. PICK foreign \in Foreign : \E q \in PickRunPort(foreign) :
               Set(on, [Started(runs[on].profile, q) EXCEPT !.ticks = runs[on].ticks])
      BY <2>3
    <3>2. PICK q \in PickRunPort(foreign) :
               Set(on, [Started(runs[on].profile, q) EXCEPT !.ticks = runs[on].ticks])
      BY <3>1
    <3> DEFINE t == [Started(runs[on].profile, q) EXCEPT !.ticks = runs[on].ticks]
    <3>3. Good(t) /\ t.port = q
      BY <2>2, StartedIsGood DEF PickRunPort
    <3> HIDE DEF t
    <3>4. Set(on, t)
      BY <3>2 DEF t
    <3> QED BY <2>1, <3>3, <3>4, ServerStarts
  <2> QED BY <1>0, <2>1, <2>3 DEF Restart
<1>5. CASE k = "remove"
  <2> DEFINE s == [Started(runs[on].profile, 0) EXCEPT !.status = "removed", !.proc = "exited",
                                                       !.listener = "done"]
  <2>1. on \in DOMAIN runs /\ (UNCHANGED runs \/ Set(on, s))
    BY <1>5 DEF Do, Stored, RemoveStopped
  <2>2. runs[on].profile \in Profile
    BY <2>1, RunIsGood DEF Good, Run
  <2>3. Good(s) /\ ~Up(s)
    BY <2>2, RemovedIsGood
  <2> HIDE DEF s
  <2>4. ASSUME Set(on, s) PROVE RunsInv' /\ PortsDistinct'
    BY <2>1, <2>3, <2>4, OneRunChanges DEF Quiet
  <2> QED BY <1>0, <2>1, <2>4
<1> QED BY <1>1, <1>2, <1>3, <1>4, <1>5

LEMMA RunsCarryOver ==
    ASSUME RunsInv, PortsDistinct, UNCHANGED runs
    PROVE  RunsInv' /\ PortsDistinct'
  BY DEF RunsInv, PortsDistinct

\* One key may stop or kill every run.
LEMMA AllStopped ==
    ASSUME RunsInv
    PROVE  /\ StopAll \in Seq(Run) /\ DOMAIN StopAll = DOMAIN runs
           /\ KillAll \in Seq(Run) /\ DOMAIN KillAll = DOMAIN runs
           /\ \A i \in DOMAIN runs :
                 /\ Quiet(runs[i], StopAll[i]) /\ Quiet(runs[i], KillAll[i])
                 /\ StopAll[i].proc = runs[i].proc /\ ~Up(KillAll[i])
<1>1. runs \in Seq(Run) /\ \A i \in DOMAIN runs : Good(runs[i])
  BY DEF RunsInv, Good
<1>2. \A i \in DOMAIN runs :
        /\ Quiet(runs[i], StopAll[i]) /\ Quiet(runs[i], KillAll[i])
        /\ StopAll[i].proc = runs[i].proc
  BY <1>1, StopSteps DEF StopAll, KillAll
<1>3. ASSUME NEW i \in DOMAIN runs PROVE ~Up(KillAll[i])
  <2>1. i \notin ActiveRuns => ~Up(runs[i])
    BY <1>1, UpIsActive DEF ActiveRuns, Stored, Good, RunInv
  <2> QED BY <1>1, <1>3, <2>1, StopSteps DEF KillAll, Quiet
<1>4. \A i \in DOMAIN runs : StopAll[i] \in Run /\ KillAll[i] \in Run
  BY <1>2 DEF Quiet, Good
<1>5. StopAll \in Seq(Run) /\ DOMAIN StopAll = DOMAIN runs
      /\ KillAll \in Seq(Run) /\ DOMAIN KillAll = DOMAIN runs
  BY <1>1, <1>4, SMTT(60) DEF StopAll, KillAll
<1> QED BY <1>2, <1>3, <1>5

LEMMA UserSteps ==
    ASSUME IInv, User
    PROVE  IInv'
<1> USE DEF IInv
<1>1. CASE Press
  <2>1. PendingOK'
    BY <1>1 DEF Press, PendingOK, Asked
  <2> QED BY <1>1, <2>1, RunsCarryOver DEF Press
<1>2. CASE LogsKey
  <2>1. PendingOK'
    BY <1>2 DEF LogsKey, PendingOK
  <2>2. CASE UNCHANGED runs
    BY <2>1, <2>2, RunsCarryOver
  <2>3. CASE ~UNCHANGED runs
    <3>1. PICK i \in Stored : \E k \in {"stop", "restart"} : Do(k, i)
      BY <1>2, <2>3 DEF LogsKey
    <3>2. PICK k \in {"stop", "restart"} : Do(k, i)
      BY <3>1
    <3> QED BY <2>1, <3>2, DoSteps
  <2> QED BY <2>2, <2>3
<1>3. CASE \E k \in {"q", "ctrl+c"} : QuitKey(k)
  <2>1. PendingOK' /\ (runs' = KillAll \/ runs' = StopAll)
    BY <1>3 DEF QuitKey, PendingOK
  <2> QED BY <2>1, AllStopped, AllRunsChange
<1>4. CASE Resize
  BY <1>4, RunsCarryOver DEF Resize, PendingOK
<1> QED BY <1>1, <1>2, <1>3, <1>4 DEF User

LEMMA TerminalSteps ==
    ASSUME IInv, Terminal
    PROVE  IInv'
<1> USE DEF IInv
<1>1. CASE Handle
  <2>1. PendingOK'
    BY <1>1 DEF Handle, PendingOK, Nothing
  <2>2. CASE UNCHANGED runs
    BY <2>1, <2>2, RunsCarryOver
  <2>3. CASE ~UNCHANGED runs
    <3>1. Do(pending.kind, pending.on) /\ (pending.kind # "launch" => pending.on \in Stored)
          /\ pending # Nothing
      BY <1>1, <2>3 DEF Handle
    <3>2. pending.kind \in {"launch", "open", "stop", "restart", "remove"}
          /\ (pending.kind = "launch" => pending.on \in Profile)
      BY <3>1 DEF PendingOK
    <3>3. RunsInv' /\ PortsDistinct'
      BY <3>1, <3>2, DoSteps
    <3> QED BY <2>1, <3>3
  <2> QED BY <2>2, <2>3
<1>2. CASE Leave
  BY <1>2 DEF Leave, PendingOK, Nothing, RunsInv, PortsDistinct
<1>3. CASE WindowSize
  BY <1>3, RunsCarryOver DEF WindowSize, PendingOK
<1> QED BY <1>1, <1>2, <1>3 DEF Terminal
-----------------------------------------------------------------------------
(* What a step may not do *)

\* Between two states of a run it is not killed, or was asked to stop before.
KillAsked(r, s) == Up(r) /\ s.proc = "killed" => r.status = "stopping"

LEMMA OneRunKilled ==
    ASSUME RunsInv, NEW i \in DOMAIN runs, NEW s, Set(i, s), KillAsked(runs[i], s)
    PROVE  \A j \in DOMAIN runs \cap DOMAIN runs' : KillAsked(runs[j], runs'[j])
<1>1. \A j \in DOMAIN runs : runs'[j] = IF j = i THEN s ELSE runs[j]
  BY DEF RunsInv, Set
<1>2. \A j \in DOMAIN runs : KillAsked(runs[j], runs[j])
  BY DEF KillAsked, Up
<1> QED BY <1>1, <1>2

LEMMA NoRunKilled ==
    ASSUME RunsInv, UNCHANGED runs \/ \E s : runs' = Append(runs, s)
    PROVE  \A j \in DOMAIN runs \cap DOMAIN runs' : KillAsked(runs[j], runs'[j])
<1>1. \A j \in DOMAIN runs : runs'[j] = runs[j]
  BY DEF RunsInv
<1> QED BY <1>1 DEF KillAsked, Up

LEMMA StreamKills ==
    ASSUME NEW r, Good(r)
    PROVE  /\ \A s \in Scanned(r) \cup Listening(r) : s.proc = r.proc
           /\ Delivered(r).proc = r.proc
<1>0. r \in Run
  BY DEF Good
<1>1. ASSUME NEW s \in Scanned(r) PROVE s.proc = r.proc
  <2>1. \/ s \in {[r EXCEPT !.scanner = "ended"]}
        \/ s \in {[r EXCEPT !.scanner = "gaveup", !.pipe = rest] : rest \in {r.pipe, Tail(r.pipe)}}
        \/ s \in {[r EXCEPT !.pipe = Tail(@), !.logq = @ + 1]}
    BY <1>1 DEF Scanned
  <2>2. CASE s = [r EXCEPT !.scanner = "ended"]
    BY <1>0, <2>2 DEF Run
  <2>3. ASSUME NEW rest, s = [r EXCEPT !.scanner = "gaveup", !.pipe = rest] PROVE s.proc = r.proc
    BY <1>0, <2>3 DEF Run
  <2>4. CASE s = [r EXCEPT !.pipe = Tail(@), !.logq = @ + 1]
    BY <1>0, <2>4 DEF Run
  <2> QED BY <2>1, <2>2, <2>3, <2>4
<1>2. ASSUME NEW s \in Listening(r) PROVE s.proc = r.proc
  BY <1>2 DEF Listening, Good, Run
<1>3. Delivered(r).proc = r.proc
  BY DEF Delivered, Good, Run
<1> QED BY <1>1, <1>2, <1>3

LEMMA DoKills ==
    ASSUME RunsInv, NEW k \in {"launch", "open", "stop", "restart", "remove"}, NEW on,
           k # "launch" => on \in Stored, Do(k, on)
    PROVE  \A j \in DOMAIN runs \cap DOMAIN runs' : KillAsked(runs[j], runs'[j])
<1>1. CASE k = "launch"
  BY <1>1, NoRunKilled DEF Do, Launch
<1>2. CASE k = "open"
  BY <1>2, NoRunKilled DEF Do
<1>3. CASE k = "stop"
  <2>1. on \in DOMAIN runs /\ Set(on, StopServer(runs[on]))
    BY <1>3 DEF Do, Stored
  <2>2. KillAsked(runs[on], StopServer(runs[on]))
    BY <2>1, RunIsGood, StopSteps DEF KillAsked, Up
  <2> QED BY <2>1, <2>2, OneRunKilled
<1>4. CASE k = "restart"
  <2>1. on \in DOMAIN runs /\ Restart(on)
    BY <1>4 DEF Do, Stored
  <2>2. CASE UNCHANGED runs
    BY <2>2, NoRunKilled
  <2>3. CASE ~UNCHANGED runs
    <3>1. runs[on].status = "stopped"
      BY <2>1, <2>3 DEF Restart
    <3>2. ~Up(runs[on])
      BY <2>1, <3>1, RunIsGood, UpIsActive DEF Active
    <3>3. \E s : Set(on, s)
      BY <2>1, <2>3 DEF Restart
    <3>4. PICK s : Set(on, s)
      BY <3>3
    <3> QED BY <2>1, <3>2, <3>4, OneRunKilled DEF KillAsked
  <2> QED BY <2>2, <2>3
<1>5. CASE k = "remove"
  <2>1. on \in DOMAIN runs /\ RemoveStopped(on)
    BY <1>5 DEF Do, Stored
  <2>2. CASE UNCHANGED runs
    BY <2>2, NoRunKilled
  <2>3. CASE ~UNCHANGED runs
    <3>1. ~Up(runs[on])
      BY <2>1, <2>3, RunIsGood, UpIsActive DEF Active, RemoveStopped
    <3>2. \E s : Set(on, s)
      BY <2>1, <2>3 DEF RemoveStopped
    <3>3. PICK s : Set(on, s)
      BY <3>2
    <3> QED BY <2>1, <3>1, <3>3, OneRunKilled DEF KillAsked
  <2> QED BY <2>2, <2>3
<1> QED BY <1>1, <1>2, <1>3, <1>4, <1>5

LEMMA KilledAsked ==
    ASSUME IInv, Next
    PROVE  \A i \in DOMAIN runs \cap DOMAIN runs' :
               Up(runs[i]) /\ runs'[i].proc = "killed" => runs[i].status = "stopping" \/ app' = "leaving"
<1> DEFINE Only == \A j \in DOMAIN runs \cap DOMAIN runs' : KillAsked(runs[j], runs'[j])
<1> SUFFICES Only \/ app' = "leaving"
  BY DEF KillAsked
<1> USE DEF IInv
<1>1. CASE Process
  <2> PICK i \in DOMAIN runs : Serve(i) \/ Write(i) \/ Exit(i)
    BY <1>1 DEF Process
  <2>1. runs[i] \in Run
    BY RunIsGood DEF Good
  <2>2. PICK s : Set(i, s) /\ (s.proc = "killed" => runs[i].proc = "killed")
    <3>1. CASE Serve(i)
      BY <2>1, <3>1 DEF Serve, Run
    <3>2. CASE Write(i)
      <4>1. PICK l \in Lines : Set(i, [runs[i] EXCEPT !.pipe = Append(@, l)])
        BY <3>2 DEF Write
      <4>2. [runs[i] EXCEPT !.pipe = Append(@, l)].proc = runs[i].proc
        BY <2>1 DEF Run
      <4> QED BY <4>1, <4>2
    <3>3. CASE Exit(i)
      BY <2>1, <3>3 DEF Exit, Run
    <3> QED BY <3>1, <3>2, <3>3
  <2> QED BY <2>2, OneRunKilled DEF KillAsked, Up
<1>2. CASE Streams
  <2> PICK i \in DOMAIN runs : Scan(i) \/ Wait(i) \/ Listen(i) \/ Deliver(i)
    BY <1>2 DEF Streams
  <2>1. Good(runs[i]) /\ runs[i] \in Run
    BY RunIsGood DEF Good
  <2>2. PICK s : Set(i, s) /\ s.proc = runs[i].proc
    <3>1. CASE Scan(i)
      BY <2>1, <3>1, StreamKills DEF Scan
    <3>2. CASE Wait(i)
      <4>1. [runs[i] EXCEPT !.over = TRUE].proc = runs[i].proc
        BY <2>1 DEF Run
      <4> QED BY <3>2, <4>1 DEF Wait
    <3>3. CASE Listen(i)
      BY <2>1, <3>3, StreamKills DEF Listen
    <3>4. CASE Deliver(i)
      BY <2>1, <3>4, StreamKills DEF Deliver
    <3> QED BY <3>1, <3>2, <3>3, <3>4
  <2> QED BY <2>2, OneRunKilled DEF KillAsked, Up
<1>3. CASE Timers
  <2> PICK i \in DOMAIN runs : StopTimeout(i)
    BY <1>3 DEF Timers
  <2>1. Good(runs[i]) /\ runs[i].ticks > 0
    BY RunIsGood DEF StopTimeout
  <2> DEFINE t == [runs[i] EXCEPT !.ticks = @ - 1]
             s == IF Deaf THEN t ELSE TimedOut(t)
  <2>2. Set(i, s)
    BY DEF StopTimeout
  <2>3. KillAsked(runs[i], s)
    <3>1. CASE Deaf
      BY <2>1, <3>1, TimeoutStep DEF KillAsked, Up
    <3>2. CASE ~Deaf
      BY <2>1, <3>2, TimeoutStep DEF KillAsked
    <3> QED BY <3>1, <3>2
  <2> QED BY <2>2, <2>3, OneRunKilled
<1>4. CASE User
  <2>1. CASE Press \/ Resize
    BY <2>1, NoRunKilled DEF Press, Resize
  <2>2. CASE LogsKey
    <3>1. CASE UNCHANGED runs
      BY <3>1, NoRunKilled
    <3>2. CASE ~UNCHANGED runs
      <4>1. PICK i \in Stored : \E k \in {"stop", "restart"} : Do(k, i)
        BY <2>2, <3>2 DEF LogsKey
      <4>2. PICK k \in {"stop", "restart"} : Do(k, i)
        BY <4>1
      <4> QED BY <4>2, DoKills
    <3> QED BY <3>1, <3>2
  <2>3. CASE \E k \in {"q", "ctrl+c"} : QuitKey(k)
    <3>1. app' = "leaving" \/ runs' = StopAll
      BY <2>3 DEF QuitKey
    <3>2. CASE runs' = StopAll
      BY <3>2, AllStopped DEF KillAsked, Up
    <3> QED BY <3>1, <3>2
  <2> QED BY <1>4, <2>1, <2>2, <2>3 DEF User
<1>5. CASE Terminal
  <2>1. CASE Handle
    <3>1. CASE UNCHANGED runs
      BY <3>1, NoRunKilled
    <3>2. CASE ~UNCHANGED runs
      <4>1. Do(pending.kind, pending.on) /\ (pending.kind # "launch" => pending.on \in Stored)
            /\ pending # Nothing
        BY <2>1, <3>2 DEF Handle
      <4> QED BY <4>1, DoKills DEF PendingOK
    <3> QED BY <3>1, <3>2
  <2>2. CASE Leave
    BY <2>2 DEF Leave
  <2>3. CASE WindowSize
    BY <2>3, NoRunKilled DEF WindowSize
  <2> QED BY <1>5, <2>1, <2>2, <2>3 DEF Terminal
<1> QED BY <1>1, <1>2, <1>3, <1>4, <1>5 DEF Next

LEMMA NoneLeft ==
    ASSUME IInv, Next, app = "on", app' = "leaving"
    PROVE  \A i \in DOMAIN runs' : ~Up(runs'[i])
<1>1. PICK k \in {"q", "ctrl+c"} : QuitKey(k)
  BY DEF Next, Process, Streams, Timers, User, Terminal, Serve, Write, Exit, Scan, Wait, Listen,
         Deliver, StopTimeout, Press, LogsKey, Resize, Handle, Leave, WindowSize
<1>2. CASE armed
  BY <1>1, <1>2, AllStopped DEF QuitKey, IInv
<1>3. CASE ~armed
  <2>1. ActiveRuns = {} /\ runs' = StopAll
    BY <1>1, <1>3 DEF QuitKey
  <2>2. \A i \in DOMAIN runs : ~Up(runs[i])
    BY <2>1, RunIsGood, UpIsActive DEF IInv, ActiveRuns, Stored, Good, RunInv
  <2> QED BY <2>1, <2>2, AllStopped DEF IInv, Up
<1>4. DOMAIN runs' = DOMAIN runs
  BY <1>1, AllStopped DEF QuitKey, IInv
<1> QED BY <1>2, <1>3, <1>4

LEMMA ComesToLeave ==
    ASSUME Next, app' = "leaving"
    PROVE  app = "on" \/ app = "leaving"
  BY DEF Next, Process, Streams, Timers, User, Terminal, Serve, Write, Exit, Scan, Wait, Listen,
         Deliver, StopTimeout, Press, LogsKey, Resize, Handle, Leave, WindowSize, QuitKey

\* While infai leaves, only a launch or a restart brings a server up.
LEMMA OneRunDown ==
    ASSUME RunsInv, NEW i \in DOMAIN runs, NEW s, Set(i, s), Up(s) => Up(runs[i])
    PROVE  \A j \in DOMAIN runs' : Up(runs'[j]) => j \in DOMAIN runs /\ Up(runs[j])
<1>1. DOMAIN runs' = DOMAIN runs /\ \A j \in DOMAIN runs : runs'[j] = IF j = i THEN s ELSE runs[j]
  BY DEF RunsInv, Set
<1> QED BY <1>1

LEMMA NoneComesUp ==
    ASSUME IInv, Next, app = "leaving", app' = "leaving", pending.kind \notin {"launch", "restart"}
    PROVE  \A j \in DOMAIN runs' : Up(runs'[j]) => j \in DOMAIN runs /\ Up(runs[j])
<1> DEFINE Down == \A j \in DOMAIN runs' : Up(runs'[j]) => j \in DOMAIN runs /\ Up(runs[j])
<1> USE DEF IInv
<1>1. CASE Process
  <2> PICK i \in DOMAIN runs : Serve(i) \/ Write(i) \/ Exit(i)
    BY <1>1 DEF Process
  <2>1. Up(runs[i]) /\ \E s : Set(i, s)
    BY DEF Serve, Write, Exit, Up
  <2> QED BY <2>1, OneRunDown
<1>2. CASE Streams
  <2> PICK i \in DOMAIN runs : Scan(i) \/ Wait(i) \/ Listen(i) \/ Deliver(i)
    BY <1>2 DEF Streams
  <2>1. Good(runs[i]) /\ runs[i] \in Run
    BY RunIsGood DEF Good
  <2>2. PICK s : Set(i, s) /\ s.proc = runs[i].proc
    <3>1. CASE Wait(i)
      <4>1. [runs[i] EXCEPT !.over = TRUE].proc = runs[i].proc
        BY <2>1 DEF Run
      <4> QED BY <3>1, <4>1 DEF Wait
    <3>2. CASE Scan(i) \/ Listen(i)
      BY <2>1, <3>2, StreamKills DEF Scan, Listen
    <3>3. CASE Deliver(i)
      BY <2>1, <3>3, StreamKills DEF Deliver
    <3> QED BY <3>1, <3>2, <3>3
  <2> QED BY <2>2, OneRunDown DEF Up
<1>3. CASE Timers
  <2> PICK i \in DOMAIN runs : StopTimeout(i)
    BY <1>3 DEF Timers
  <2>1. Good(runs[i]) /\ runs[i] \in Run
    BY RunIsGood DEF Good
  <2> DEFINE t == [runs[i] EXCEPT !.ticks = @ - 1]
             s == IF Deaf THEN t ELSE TimedOut(t)
  <2>2. t \in [DOMAIN t -> {t[f] : f \in DOMAIN t}] /\ t.proc = runs[i].proc
    BY <2>1 DEF Run
  <2>3. Up(s) => Up(runs[i])
    <3>1. [t EXCEPT !.proc = "killed"].proc = "killed"
      BY <2>1 DEF Run
    <3> QED BY <2>2, <3>1 DEF TimedOut, ForceKill, Up
  <2>4. Set(i, s)
    BY DEF StopTimeout
  <2> QED BY <2>3, <2>4, OneRunDown
<1>4. CASE User
  BY <1>4 DEF User, Press, LogsKey, QuitKey, Resize
<1>5. CASE Terminal
  <2>1. CASE UNCHANGED runs
    BY <2>1 DEF Up
  <2>2. CASE ~UNCHANGED runs
    <3>1. Handle
      BY <1>5, <2>2 DEF Terminal, Leave, WindowSize
    <3>2. Do(pending.kind, pending.on) /\ pending # Nothing
          /\ (pending.kind # "launch" => pending.on \in Stored)
      BY <2>2, <3>1 DEF Handle
    <3>3. pending.kind \in {"stop", "remove"} /\ pending.on \in DOMAIN runs
      BY <2>2, <3>2 DEF PendingOK, Do, Stored
    <3> DEFINE i == pending.on
    <3>4. Good(runs[i]) /\ runs[i] \in Run
      BY <3>3, RunIsGood DEF Good
    <3>5. CASE pending.kind = "stop"
      <4>1. Set(i, StopServer(runs[i])) /\ StopServer(runs[i]).proc = runs[i].proc
        BY <3>2, <3>4, <3>5, StopSteps DEF Do
      <4> QED BY <3>3, <4>1, OneRunDown DEF Up
    <3>6. CASE pending.kind = "remove"
      <4>1. ~Up([Started(runs[i].profile, 0) EXCEPT !.status = "removed", !.proc = "exited",
                                                    !.listener = "done"])
        BY DEF Started, Up
      <4>2. Set(i, [Started(runs[i].profile, 0) EXCEPT !.status = "removed", !.proc = "exited",
                                                       !.listener = "done"])
        BY <2>2, <3>2, <3>6 DEF Do, RemoveStopped
      <4> QED BY <3>3, <4>1, <4>2, OneRunDown
    <3> QED BY <3>3, <3>5, <3>6
  <2> QED BY <2>1, <2>2
<1> QED BY <1>1, <1>2, <1>3, <1>4, <1>5 DEF Next
-----------------------------------------------------------------------------
(* The theorems *)

\* Every run keeps to RunInv, and ports stay distinct, in every reachable state.
THEOREM Invariance == Spec => []IInv
<1>1. IInv /\ [Next]_vars => IInv'
  <2> SUFFICES ASSUME IInv, [Next]_vars PROVE IInv'
    OBVIOUS
  <2>1. CASE UNCHANGED vars
    BY <2>1, RunsCarryOver DEF vars, IInv, PendingOK
  <2> QED BY <2>1, ProcessSteps, StreamSteps, TimerSteps, UserSteps, TerminalSteps DEF Next
<1> QED BY Initially, <1>1, PTL DEF Spec

\* The list of runs can be relied on (runs.go, server.go): a run shown as
\* stopped has ended and what its scanner read is in the log, with nothing left
\* in the pipe, and no two servers that run have the same port.
THEOREM RunsCanBeReliedOn == Spec => []RunsAreTrue
<1>1. IInv => RunsAreTrue
  BY DEF IInv, RunsInv, RunInv, Stored, RunsAreTrue, ReportedIsOver
<1> QED BY Invariance, <1>1, PTL

\* infai kills a server only after asking it to stop, or on a second quit key
\* (app.go, stopTimeoutMsg and forceKillAllRuns); the key that quits leaves no
\* server up, and after it none comes up but the one of a launch or restart that
\* was already on its way.
THEOREM NoServerIsLeft == Spec => ServersAreEnded
<1> DEFINE Killed == \A i \in DOMAIN runs \cap DOMAIN runs' :
               Up(runs[i]) /\ runs'[i].proc = "killed" => runs[i].status = "stopping" \/ app' = "leaving"
           Left == app' = "leaving" /\ ~StartsLate => \A i \in DOMAIN runs' :
                      Up(runs'[i]) => app = "leaving" /\ i \in DOMAIN runs /\ Up(runs[i])
<1>1. IInv /\ [Next]_vars => [Killed]_vars
  BY KilledAsked DEF vars, Up
<1>2. IInv /\ [Next]_vars => [Left]_vars
  <2> SUFFICES ASSUME IInv, Next, app' = "leaving", ~StartsLate
               PROVE  \A i \in DOMAIN runs' :
                         Up(runs'[i]) => app = "leaving" /\ i \in DOMAIN runs /\ Up(runs[i])
    BY DEF vars
  <2>1. app = "on" \/ app = "leaving"
    BY ComesToLeave
  <2> QED BY <2>1, NoneLeft, NoneComesUp DEF StartsLate
<1>3. Spec => GraceBeforeKill
  BY Invariance, <1>1, PTL DEF Spec, GraceBeforeKill
<1>4. Spec => NothingLeft
  BY Invariance, <1>2, PTL DEF Spec, NothingLeft
<1> QED BY <1>3, <1>4 DEF ServersAreEnded

-----------------------------------------------------------------------------
(***************************************************************************)
(* The library of models the runs are launched from (Library.tla): what    *)
(* syncs, imports, edits and launches beside one another leave of it.      *)
(***************************************************************************)
HIDE LauncherAssumption

\* The rows of the tables, and the tables.
ModelRow == [id : Nat, file : File, source : Repo \cup {None}]
ProfileRow == [id : Nat, model : Nat, name : Name, engine : Engine, drafts : BOOLEAN,
            draft : Nat \cup {None}, with : File \cup {None}]
Table == [dirs : SUBSET Root, models : SUBSET ModelRow, profiles : SUBSET ProfileRow, recents : SUBSET Nat,
          engines : SUBSET Engine, nextModel : Nat \ {0}, nextProfile : Nat]

\* A draft is the file that was chosen, for as long as there is a row of its id.
Drafted(d, p) ==
    p.drafts => /\ p.draft = None \/ p.draft < d.nextModel
                /\ \A m \in d.models : m.id = p.draft => m.file = p.with

Numbered(d) ==
    /\ \A m \in d.models : m.id < d.nextModel
    /\ \A m, n \in d.models : m.id = n.id \/ m.file = n.file => m = n

Sound(d) ==
    /\ d \in Table /\ Numbered(d)
    /\ \A p \in d.profiles : p.engine \in d.engines /\ Drafted(d, p)

\* The models of e come from those of d: a row keeps its file and its source,
\* and a new row has a new id.
Follows(d, e) ==
    /\ e.nextModel >= d.nextModel
    /\ \A m \in e.models : \/ m.id >= d.nextModel
                           \/ \E n \in d.models : /\ n.id = m.id /\ n.file = m.file
                                                  /\ n.source # None => m.source # None

-----------------------------------------------------------------------------
LEMMA DraftFollows ==
    ASSUME NEW d \in Table, NEW e \in Table, NEW p \in ProfileRow, Follows(d, e), Drafted(d, p),
           None \notin Nat
    PROVE  Drafted(e, p)
<1> SUFFICES ASSUME p.drafts PROVE Drafted(e, p)
  BY DEF Drafted
<1>1. d.nextModel \in Nat /\ e.nextModel \in Nat /\ d.models \subseteq ModelRow /\ e.models \subseteq ModelRow
  BY DEF Table
<1>2. p.draft = None \/ (p.draft \in Nat /\ p.draft < d.nextModel)
  BY DEF Drafted, ProfileRow
<1>3. p.draft = None \/ p.draft < e.nextModel
  BY <1>1, <1>2 DEF Follows
<1>4. ASSUME NEW m \in e.models, m.id = p.draft
      PROVE  m.file = p.with
  <2>1. m.id \in Nat /\ m.id < d.nextModel
    BY <1>1, <1>2, <1>4 DEF ModelRow
  <2>2. PICK n \in d.models : n.id = m.id /\ n.file = m.file
    BY <1>1, <2>1 DEF Follows
  <2> QED BY <1>4, <2>2 DEF Drafted
<1> QED BY <1>3, <1>4 DEF Drafted

LEMMA FollowsSelf ==
    ASSUME NEW d \in Table
    PROVE  Follows(d, d)
<1>1. d.nextModel \in Nat
  BY DEF Table
<1> QED BY <1>1 DEF Follows

LEMMA FollowsOn ==
    ASSUME NEW c \in Table, NEW d \in Table, NEW e \in Table, Follows(c, d), Follows(d, e)
    PROVE  Follows(c, e)
<1>1. /\ c.nextModel \in Nat /\ d.nextModel \in Nat /\ e.nextModel \in Nat
      /\ c.models \subseteq ModelRow /\ d.models \subseteq ModelRow /\ e.models \subseteq ModelRow
  BY DEF Table
<1>2. e.nextModel >= c.nextModel
  BY <1>1 DEF Follows
<1>3. ASSUME NEW m \in e.models
      PROVE  \/ m.id >= c.nextModel
             \/ \E n \in c.models : /\ n.id = m.id /\ n.file = m.file
                                    /\ n.source # None => m.source # None
  <2>1. CASE m.id >= d.nextModel
    <3>1. m.id \in Nat
      BY <1>1 DEF ModelRow
    <3> QED BY <1>1, <2>1, <3>1 DEF Follows
  <2>2. CASE ~(m.id >= d.nextModel)
    <3>1. PICK n \in d.models : n.id = m.id /\ n.file = m.file /\ (n.source # None => m.source # None)
      BY <2>2 DEF Follows
    <3>2. CASE n.id >= c.nextModel
      BY <3>1, <3>2
    <3>3. CASE ~(n.id >= c.nextModel)
      <4>1. PICK k \in c.models : k.id = n.id /\ k.file = n.file /\ (k.source # None => n.source # None)
        BY <3>3 DEF Follows
      <4> QED BY <3>1, <4>1
    <3> QED BY <3>2, <3>3
  <2> QED BY <2>1, <2>2
<1> QED BY <1>2, <1>3 DEF Follows

LEMMA FileOfRow ==
    ASSUME NEW d, Numbered(d), NEW m \in d.models
    PROVE  FileOf(d, m.id) = m.file
<1> DEFINE n == CHOOSE k \in d.models : k.id = m.id
<1>1. n \in d.models /\ n.id = m.id
  OBVIOUS
<1>2. n = m
  BY <1>1 DEF Numbered
<1> QED BY <1>2 DEF FileOf

-----------------------------------------------------------------------------
(* The statements. *)

\* Rows only go: profiles with what hangs on them, and models.
LEMMA WithoutProfilesSound ==
    ASSUME NEW d, Sound(d), NEW ids
    PROVE  LET e == WithoutProfiles(d, ids) IN
           /\ Sound(e) /\ e.models = d.models /\ e.nextModel = d.nextModel
           /\ e.engines = d.engines /\ e.dirs = d.dirs /\ e.profiles = {p \in d.profiles : p.id \notin ids}
<1> DEFINE e == WithoutProfiles(d, ids)
<1>1. d \in Table
  BY DEF Sound
<1>2. /\ e.models = d.models /\ e.nextModel = d.nextModel /\ e.engines = d.engines /\ e.dirs = d.dirs
      /\ e.profiles = {p \in d.profiles : p.id \notin ids} /\ e \in Table
  BY <1>1 DEF Table, WithoutProfiles
<1> HIDE DEF e
<1>3. Numbered(e)
  BY <1>2 DEF Sound, Numbered
<1>4. \A p \in e.profiles : p.engine \in e.engines /\ Drafted(e, p)
  BY <1>2 DEF Sound, Drafted
<1> QED BY <1>2, <1>3, <1>4 DEF e, Sound

LEMMA WithoutModelsSound ==
    ASSUME NEW d, Sound(d), NEW ids, None \notin Nat
    PROVE  LET e == WithoutModels(d, ids) IN
           /\ Sound(e) /\ Follows(d, e) /\ e.models = {m \in d.models : m.id \notin ids}
           /\ e.nextModel = d.nextModel /\ e.engines = d.engines /\ e.dirs = d.dirs
<1> DEFINE gone == {p.id : p \in {q \in d.profiles : q.model \in ids}}
           k == WithoutProfiles(d, gone)
           Freed(p) == [p EXCEPT !.draft = IF @ \in ids THEN None ELSE @]
           e == WithoutModels(d, ids)
<1>1. /\ Sound(k) /\ k.models = d.models /\ k.nextModel = d.nextModel
      /\ k.engines = d.engines /\ k.dirs = d.dirs
  <2> HIDE DEF gone
  <2> QED BY WithoutProfilesSound
<1>2. e = [k EXCEPT !.models = {m \in @ : m.id \notin ids}, !.profiles = {Freed(p) : p \in @}]
  BY DEF WithoutModels
<1> HIDE DEF k, e
<1>3. k \in Table
  BY <1>1 DEF Sound
<1>4. /\ e.models = {m \in d.models : m.id \notin ids} /\ e.profiles = {Freed(p) : p \in k.profiles}
      /\ e.nextModel = d.nextModel /\ e.engines = d.engines /\ e.dirs = d.dirs
      /\ e.recents = k.recents /\ e.nextProfile = k.nextProfile
      /\ DOMAIN e = DOMAIN k
  BY <1>1, <1>2, <1>3 DEF Table
<1>5. ASSUME NEW p \in k.profiles
      PROVE  Freed(p) \in ProfileRow /\ Freed(p).engine \in e.engines /\ Drafted(e, Freed(p))
  <2>1. p \in ProfileRow /\ p.engine \in k.engines /\ Drafted(k, p)
    BY <1>1, <1>3 DEF Table, Sound
  <2>2. /\ Freed(p) \in ProfileRow /\ Freed(p).engine = p.engine /\ Freed(p).drafts = p.drafts
        /\ Freed(p).with = p.with /\ Freed(p).draft \in {p.draft, None}
    BY <2>1 DEF ProfileRow
  <2> HIDE DEF Freed
  <2>3. Drafted(e, Freed(p))
    <3>1. \A m \in e.models : m \in k.models /\ m.id \in Nat
      BY <1>1, <1>3, <1>4, SMTT(30) DEF Table, ModelRow
    <3> QED BY <1>1, <1>4, <2>1, <2>2, <3>1 DEF Drafted
  <2> QED BY <1>1, <1>4, <2>1, <2>2, <2>3
<1>6. e \in Table
  <2>1. {Freed(p) : p \in k.profiles} \in SUBSET ProfileRow
    BY <1>5
  <2>2. {m \in k.models : m.id \notin ids} \in SUBSET ModelRow
    BY <1>3 DEF Table
  <2> HIDE DEF Freed
  <2> QED BY <1>2, <1>3, <2>1, <2>2 DEF Table
<1>7. Numbered(e)
  BY <1>1, <1>4 DEF Sound, Numbered
<1>8. \A p \in e.profiles : p.engine \in e.engines /\ Drafted(e, p)
  <2> HIDE DEF Freed
  <2> QED BY <1>4, <1>5
<1>9. Follows(d, e)
  <2>1. d.nextModel \in Nat
    BY DEF Sound, Table
  <2> QED BY <1>4, <2>1 DEF Follows
<1> QED BY <1>1, <1>4, <1>6, <1>7, <1>8, <1>9 DEF e, Sound

\* The other statements leave the models alone.
LEMMA ModelsKept ==
    ASSUME NEW d, Sound(d), NEW e \in Table, e.models = d.models, e.nextModel = d.nextModel,
           \A p \in e.profiles : p \in d.profiles /\ p.engine \in e.engines
    PROVE  Sound(e) /\ Follows(d, e)
<1>1. Follows(d, e)
  <2>1. d.nextModel \in Nat
    BY DEF Sound, Table
  <2> QED BY <2>1 DEF Follows
<1>2. Numbered(e)
  BY DEF Sound, Numbered
<1>3. \A p \in e.profiles : Drafted(e, p)
  BY DEF Sound, Drafted
<1> QED BY <1>1, <1>2, <1>3 DEF Sound

LEMMA RemoveScanDirSound ==
    ASSUME NEW d, Sound(d), NEW r, None \notin Nat
    PROVE  LET e == RemoveScanDir(d, r) IN
           Sound(e) /\ Follows(d, e) /\ e.engines = d.engines /\ e.dirs \subseteq d.dirs
<1> DEFINE ids == {m.id : m \in {x \in d.models : Folder[x.file] = r}}
           k == WithoutModels(d, ids)
           e == RemoveScanDir(d, r)
<1>1. Sound(k) /\ Follows(d, k) /\ k.engines = d.engines /\ k.dirs = d.dirs
  <2> HIDE DEF ids
  <2> QED BY WithoutModelsSound
<1>2. e = [k EXCEPT !.dirs = @ \ {r}]
  BY DEF RemoveScanDir
<1> HIDE DEF k, e
<1>3. k \in Table /\ d \in Table
  BY <1>1 DEF Sound
<1>4. /\ e \in Table /\ e.models = k.models /\ e.nextModel = k.nextModel /\ e.profiles = k.profiles
      /\ e.engines = k.engines /\ e.dirs = k.dirs \ {r}
  BY <1>2, <1>3 DEF Table
<1>5. Sound(e) /\ Follows(k, e)
  <2>1. \A p \in e.profiles : p \in k.profiles /\ p.engine \in e.engines
    BY <1>1, <1>4 DEF Sound
  <2> QED BY <1>1, <1>4, <2>1, ModelsKept
<1>6. Follows(d, e)
  BY <1>1, <1>3, <1>4, <1>5, FollowsOn
<1> QED BY <1>1, <1>4, <1>5, <1>6 DEF e

LEMMA DeleteEngineSound ==
    ASSUME NEW d, Sound(d), NEW x
    PROVE  LET e == DeleteEngine(d, x) IN Sound(e) /\ Follows(d, e) /\ e.dirs = d.dirs
<1> DEFINE ids == {p.id : p \in {q \in d.profiles : q.engine = x}}
           k == WithoutProfiles(d, ids)
           e == DeleteEngine(d, x)
<1>1. /\ Sound(k) /\ k.models = d.models /\ k.nextModel = d.nextModel /\ k.dirs = d.dirs
      /\ k.engines = d.engines /\ k.profiles = {p \in d.profiles : p.id \notin ids}
  <2> HIDE DEF ids
  <2> QED BY WithoutProfilesSound
<1>2. e = [k EXCEPT !.engines = @ \ {x}]
  BY DEF DeleteEngine
<1>3. \A p \in k.profiles : p \in d.profiles /\ p.engine \in d.engines \ {x}
  <2>1. \A p \in d.profiles : p.engine \in d.engines
    BY DEF Sound
  <2> HIDE DEF k
  <2> QED BY <1>1, <2>1
<1> HIDE DEF k, e, ids
<1>4. k \in Table
  BY <1>1 DEF Sound
<1>5. /\ e \in Table /\ e.models = k.models /\ e.nextModel = k.nextModel /\ e.profiles = k.profiles
      /\ e.engines = k.engines \ {x} /\ e.dirs = k.dirs
  BY <1>2, <1>4 DEF Table
<1>6. Sound(e) /\ Follows(d, e)
  BY <1>1, <1>3, <1>5, ModelsKept
<1> QED BY <1>1, <1>5, <1>6 DEF e

LEMMA UpsertModelSound ==
    ASSUME NEW d, Sound(d), NEW f \in File, NEW source \in Repo \cup {None}, None \notin Nat
    PROVE  LET e == UpsertModel(d, f, source) IN
           Sound(e) /\ Follows(d, e) /\ e.engines = d.engines /\ e.dirs = d.dirs
<1> DEFINE G(m) == IF m.file = f THEN [m EXCEPT !.source = Kept(@, source)] ELSE m
           new == [id |-> NextId(d), file |-> f, source |-> source]
           e == UpsertModel(d, f, source)
<1>0. /\ d \in Table /\ Numbered(d) /\ d.models \subseteq ModelRow /\ d.nextModel \in Nat \ {0}
      /\ d.profiles \subseteq ProfileRow
      /\ \A p \in d.profiles : p.engine \in d.engines /\ Drafted(d, p)
  BY DEF Sound, Table
<1>1. ASSUME NEW m \in d.models
      PROVE  G(m) \in ModelRow /\ G(m).id = m.id /\ G(m).file = m.file /\ (m.source # None => G(m).source # None)
  BY <1>0, <1>1 DEF ModelRow, Kept
<1>2. new \in ModelRow /\ new.id = d.nextModel /\ new.file = f
  BY <1>0 DEF ModelRow, NextId
<1>3. CASE \E m \in d.models : m.file = f
  <2>1. e = [d EXCEPT !.models = {G(m) : m \in @}]
    BY <1>3 DEF UpsertModel
  <2> HIDE DEF G, e
  <2>2. /\ e.models = {G(m) : m \in d.models} /\ e.nextModel = d.nextModel /\ e.profiles = d.profiles
        /\ e.engines = d.engines /\ e.dirs = d.dirs
    BY <1>0, <2>1 DEF Table
  <2>3. e \in Table
    <3>1. {G(m) : m \in d.models} \in SUBSET ModelRow
      BY <1>1
    <3> QED BY <1>0, <2>1, <3>1 DEF Table
  <2>4. Numbered(e)
    <3>1. \A m \in e.models : m.id < e.nextModel
      BY <1>0, <1>1, <2>2 DEF Numbered
    <3>2. ASSUME NEW m \in e.models, NEW n \in e.models, m.id = n.id \/ m.file = n.file
          PROVE  m = n
      <4>1. PICK x \in d.models, y \in d.models : m = G(x) /\ n = G(y)
        BY <2>2
      <4>2. x.id = y.id \/ x.file = y.file
        BY <1>1, <3>2, <4>1
      <4> QED BY <1>0, <4>1, <4>2 DEF Numbered
    <3> QED BY <3>1, <3>2 DEF Numbered
  <2>5. Follows(d, e)
    <3>1. e.nextModel >= d.nextModel
      BY <1>0, <2>2
    <3> QED BY <1>1, <2>2, <3>1 DEF Follows
  <2>6. \A p \in e.profiles : p.engine \in e.engines /\ Drafted(e, p)
    BY <1>0, <2>2, <2>3, <2>5, DraftFollows
  <2> QED BY <2>2, <2>3, <2>4, <2>5, <2>6 DEF Sound, e
<1>4. CASE ~\E m \in d.models : m.file = f
  <2>1. e = [d EXCEPT !.models = @ \cup {new}, !.nextModel = @ + 1]
    BY <1>4 DEF UpsertModel
  <2> HIDE DEF new, e
  <2>2. /\ e \in Table /\ e.models = d.models \cup {new} /\ e.nextModel = d.nextModel + 1
        /\ e.profiles = d.profiles /\ e.engines = d.engines /\ e.dirs = d.dirs
    <3> DEFINE models == d.models \cup {new}
               next == d.nextModel + 1
    <3>1. models \in SUBSET ModelRow /\ next \in Nat \ {0}
      BY <1>0, <1>2
    <3>2. e = [d EXCEPT !.models = models, !.nextModel = next]
      BY <2>1
    <3> HIDE DEF models, next
    <3>3. /\ e \in Table /\ e.models = models /\ e.nextModel = next
          /\ e.profiles = d.profiles /\ e.engines = d.engines /\ e.dirs = d.dirs
      BY <1>0, <3>1, <3>2 DEF Table
    <3> QED BY <3>3 DEF models, next
  <2>3. Numbered(e)
    <3>1. \A m \in d.models : m.id \in Nat /\ m.id < d.nextModel
      BY <1>0 DEF Numbered, ModelRow
    <3>2. \A m \in e.models : m.id < e.nextModel
      BY <1>0, <1>2, <2>2, <3>1
    <3>3. \A m, n \in e.models : m.id = n.id \/ m.file = n.file => m = n
      BY <1>0, <1>2, <1>4, <2>2, <3>1 DEF Numbered
    <3> QED BY <3>2, <3>3 DEF Numbered
  <2>4. Follows(d, e)
    BY <1>0, <1>2, <2>2 DEF Follows
  <2>5. \A p \in e.profiles : p.engine \in e.engines /\ Drafted(e, p)
    BY <1>0, <2>2, <2>4, DraftFollows
  <2> QED BY <2>2, <2>3, <2>4, <2>5 DEF Sound, e
<1> QED BY <1>3, <1>4

\* A finite set has a numbering.
LEMMA NumberingIsOne ==
    ASSUME NEW S, IsFiniteSet(S)
    PROVE  /\ Cardinality(S) \in Nat /\ Numbering(S) \in [S -> 1 .. Cardinality(S)]
           /\ \A f, g \in S : f # g => Numbering(S)[f] # Numbering(S)[g]
<1> DEFINE N == 1 .. Cardinality(S)
<1>1. Cardinality(S) \in Nat /\ ExistsBijection(N, S)
  BY FS_CardinalityType
<1>2. PICK b \in Bijection(N, S) : TRUE
  BY <1>1 DEF ExistsBijection
<1>3. b \in [N -> S] /\ \A f \in S : \E i \in N : b[i] = f
  BY <1>2 DEF Bijection, Surjection
<1> DEFINE n == [f \in S |-> CHOOSE i \in N : b[i] = f]
<1>4. \A f \in S : n[f] \in N /\ b[n[f]] = f
  BY <1>3
<1>5. n \in [S -> N] /\ \A f, g \in S : f # g => n[f] # n[g]
  <2>1. n \in [S -> N]
    BY <1>4
  <2> HIDE DEF n
  <2> QED BY <1>4, <2>1
<1> HIDE DEF n
<1> QED BY <1>1, <1>5 DEF Numbering

LEMMA WithRowsSound ==
    ASSUME NEW d, Sound(d), NEW files \in SUBSET File
    PROVE  LET e == WithRows(d, files) IN
           /\ Sound(e) /\ Follows(d, e) /\ e.engines = d.engines /\ e.dirs = d.dirs
           /\ d.models \subseteq e.models
           /\ {m.file : m \in e.models} = {m.file : m \in d.models} \cup files
<1> DEFINE new == {f \in files : \A m \in d.models : m.file # f}
           place == Numbering(new)
           Row(f) == [id |-> NextId(d) + place[f] - 1, file |-> f, source |-> None]
           rows == {Row(f) : f \in new}
           size == Cardinality(new)
           e == WithRows(d, files)
<1>0. /\ d \in Table /\ Numbered(d) /\ d.models \subseteq ModelRow /\ d.nextModel \in Nat \ {0}
      /\ d.profiles \subseteq ProfileRow /\ None \notin Nat
      /\ \A p \in d.profiles : p.engine \in d.engines /\ Drafted(d, p)
  BY LibraryAssumption DEF Sound, Table
<1>1. IsFiniteSet(new)
  BY FS_Subset, LibraryAssumption
<1>2. size \in Nat /\ place \in [new -> 1 .. size] /\ \A f, g \in new : f # g => place[f] # place[g]
  <2> HIDE DEF new
  <2> QED BY <1>1, NumberingIsOne
<1>3. e = [d EXCEPT !.models = @ \cup rows, !.nextModel = @ + size]
  BY DEF WithRows
<1> HIDE DEF place, size
<1>4. ASSUME NEW f \in new
      PROVE  /\ Row(f) \in ModelRow /\ Row(f).id >= d.nextModel /\ Row(f).id < d.nextModel + size
             /\ Row(f).id = d.nextModel + place[f] - 1 /\ Row(f).file = f /\ f \in File
             /\ \A m \in d.models : m.file # f
  <2>1. place[f] \in Nat /\ 1 <= place[f] /\ place[f] <= size
    BY <1>2
  <2> DEFINE i == d.nextModel + place[f] - 1
  <2>2. i \in Nat /\ i >= d.nextModel /\ i < d.nextModel + size
    BY <1>0, <1>2, <2>1
  <2>3. Row(f) = [id |-> i, file |-> f, source |-> None]
    BY DEF NextId
  <2> HIDE DEF i
  <2>4. Row(f) \in ModelRow /\ Row(f).id = i /\ Row(f).file = f
    BY <2>2, <2>3 DEF ModelRow
  <2> HIDE DEF Row
  <2> QED BY <2>2, <2>4 DEF i
<1> HIDE DEF e, Row
<1>5. /\ e \in Table /\ e.models = d.models \cup rows /\ e.nextModel = d.nextModel + size
      /\ e.profiles = d.profiles /\ e.engines = d.engines /\ e.dirs = d.dirs
  <2> DEFINE models == d.models \cup rows
             next == d.nextModel + size
  <2>1. models \in SUBSET ModelRow /\ next \in Nat \ {0}
    BY <1>0, <1>2, <1>4
  <2>2. e = [d EXCEPT !.models = models, !.nextModel = next]
    BY <1>3
  <2> HIDE DEF models, next
  <2>3. /\ e \in Table /\ e.models = models /\ e.nextModel = next
        /\ e.profiles = d.profiles /\ e.engines = d.engines /\ e.dirs = d.dirs
    BY <1>0, <2>1, <2>2 DEF Table
  <2> QED BY <2>3 DEF models, next
<1>6. \A m \in d.models : m.id \in Nat /\ m.id < d.nextModel
  BY <1>0 DEF Numbered, ModelRow
<1>7. Numbered(e)
  <2>1. \A m \in e.models : m.id < e.nextModel
    BY <1>0, <1>2, <1>4, <1>5, <1>6
  <2>2. ASSUME NEW m \in e.models, NEW n \in e.models, m.id = n.id \/ m.file = n.file
        PROVE  m = n
    <3>1. CASE m \in d.models /\ n \in d.models
      BY <1>0, <2>2, <3>1 DEF Numbered
    <3>2. ASSUME NEW x \in d.models, NEW f \in new
          PROVE  x.id # Row(f).id /\ x.file # Row(f).file
      BY <1>0, <1>4, <1>6 DEF ModelRow
    <3>3. ASSUME NEW f \in new, NEW g \in new, Row(f).id = Row(g).id \/ Row(f).file = Row(g).file
          PROVE  f = g
      <4>1. place[f] \in Nat /\ place[g] \in Nat
        BY <1>2
      <4>2. CASE Row(f).id = Row(g).id
        BY <1>0, <1>2, <1>4, <4>1, <4>2
      <4>3. CASE Row(f).file = Row(g).file
        BY <1>4, <4>3
      <4> QED BY <3>3, <4>2, <4>3
    <3> QED BY <1>5, <2>2, <3>1, <3>2, <3>3
  <2> QED BY <2>1, <2>2 DEF Numbered
<1>8. Follows(d, e)
  <2>1. e.nextModel >= d.nextModel
    BY <1>0, <1>2, <1>5
  <2>2. \A m \in rows : m.id >= d.nextModel
    BY <1>4
  <2> HIDE DEF rows
  <2> QED BY <1>5, <2>1, <2>2 DEF Follows
<1>9. \A p \in e.profiles : p.engine \in e.engines /\ Drafted(e, p)
  BY <1>0, <1>5, <1>8, DraftFollows
<1>10. {m.file : m \in e.models} = {m.file : m \in d.models} \cup files
  <2>1. {m.file : m \in rows} = new
    BY <1>4
  <2> HIDE DEF rows
  <2>2. {m.file : m \in e.models} = {m.file : m \in d.models} \cup new
    BY <1>5, <2>1
  <2> QED BY <2>2
<1> HIDE DEF rows
<1> QED BY <1>5, <1>7, <1>8, <1>9, <1>10 DEF Sound, e

\* A sync keeps the rows of the files that exist and were found where their
\* folder was read, and leaves the files found as the models of those folders.
LEMMA SyncSound ==
    ASSUME NEW d, Sound(d), NEW found,
           \A r \in DOMAIN found : found[r] \subseteq File
    PROVE  LET e == SyncPerRoot(d, found) IN
           /\ Sound(e) /\ Follows(d, e) /\ e.engines = d.engines /\ e.dirs = d.dirs
           /\ \A m \in d.models : Exists(m.file) /\ (Folder[m.file] \in DOMAIN found => m.file \in found[Folder[m.file]])
                 => m \in e.models
           /\ \A m \in e.models : Folder[m.file] \in DOMAIN found => m.file \in UNION {found[r] : r \in DOMAIN found}
           /\ \A r \in DOMAIN found : found[r] \subseteq {m.file : m \in e.models}
<1> DEFINE gone == {m.id : m \in {x \in d.models : ~Exists(x.file)}}
           files == UNION {found[r] : r \in DOMAIN found}
           ids == gone \cup Unlisted(d, found)
           k == WithoutModels(d, ids)
           e == SyncPerRoot(d, found)
<1>0. None \notin Nat /\ files \in SUBSET File /\ d \in Table
  BY LibraryAssumption DEF Sound
<1>1. e = WithRows(k, files)
  BY DEF SyncPerRoot
<1>2. /\ Sound(k) /\ Follows(d, k) /\ k.models = {m \in d.models : m.id \notin ids}
      /\ k.engines = d.engines /\ k.dirs = d.dirs
  <2> HIDE DEF ids
  <2> QED BY <1>0, WithoutModelsSound
<1>3. ASSUME NEW m \in d.models, Exists(m.file),
             Folder[m.file] \in DOMAIN found => m.file \in found[Folder[m.file]]
      PROVE  m.id \notin ids
  <2>1. m.file \in files \/ Folder[m.file] \notin DOMAIN found
    BY <1>3
  <2>2. ASSUME NEW x \in d.models, x.id = m.id PROVE x = m
    BY <2>2 DEF Sound, Numbered
  <2>3. m.id \notin gone
    BY <1>3, <2>2
  <2>4. m.id \notin Unlisted(d, found)
    BY <2>1, <2>2 DEF Unlisted
  <2> QED BY <2>3, <2>4
<1>4. ASSUME NEW m \in d.models, m.id \notin ids, Folder[m.file] \in DOMAIN found
      PROVE  m.file \in files
  BY <1>4 DEF Unlisted
<1> HIDE DEF ids, k, e
<1>5. /\ Sound(e) /\ Follows(k, e) /\ e.engines = k.engines /\ e.dirs = k.dirs /\ k.models \subseteq e.models
      /\ {m.file : m \in e.models} = {m.file : m \in k.models} \cup files
  <2> HIDE DEF files
  <2> QED BY <1>0, <1>1, <1>2, WithRowsSound
<1>6. Follows(d, e)
  <2>1. k \in Table /\ e \in Table
    BY <1>2, <1>5 DEF Sound
  <2> QED BY <1>0, <1>2, <1>5, <2>1, FollowsOn
<1>7. \A m \in e.models : Folder[m.file] \in DOMAIN found => m.file \in files
  <2> TAKE m \in e.models
  <2>1. m.file \in {x.file : x \in k.models} \cup files
    BY <1>5
  <2> HIDE DEF files
  <2> QED BY <1>2, <1>4, <2>1
<1>8. \A r \in DOMAIN found : found[r] \subseteq {m.file : m \in e.models}
  BY <1>5
<1>9. \A m \in d.models : Exists(m.file) /\ (Folder[m.file] \in DOMAIN found => m.file \in found[Folder[m.file]])
                 => m \in e.models
  BY <1>2, <1>3, <1>5
<1> QED BY <1>2, <1>5, <1>6, <1>7, <1>8, <1>9 DEF e

\* A profile that is saved, under a name of its own or over one of its name.
LEMMA UpsertProfileSound ==
    ASSUME NEW d, Sound(d), NEW p, p.engine \in d.engines, Drafted(d, p),
           \A i \in Nat : [p EXCEPT !.id = i] \in ProfileRow /\ [p EXCEPT !.id = i].engine = p.engine
                          /\ Drafted(d, [p EXCEPT !.id = i])
    PROVE  LET e == UpsertProfile(d, p) IN
           /\ Sound(e) /\ Follows(d, e) /\ e.engines = d.engines /\ e.dirs = d.dirs
           /\ e.models = d.models /\ e.nextModel = d.nextModel
<1> DEFINE same == {q \in d.profiles : q.model = p.model /\ q.name = p.name}
           New(i) == [p EXCEPT !.id = i]
           e == UpsertProfile(d, p)
<1>0. /\ d \in Table /\ d.profiles \subseteq ProfileRow /\ d.nextProfile \in Nat /\ d.nextModel \in Nat
      /\ \A q \in d.profiles : q.id \in Nat /\ q.engine \in d.engines /\ Drafted(d, q)
  BY DEF Sound, Table, ProfileRow
<1>1. \A i \in Nat : New(i) \in ProfileRow /\ New(i).engine \in d.engines /\ Drafted(d, New(i))
  OBVIOUS
<1>2. /\ e \in Table /\ e.models = d.models /\ e.nextModel = d.nextModel
      /\ e.engines = d.engines /\ e.dirs = d.dirs
      /\ \A q \in e.profiles : q.engine \in d.engines /\ Drafted(d, q)
  <2>1. CASE same # {}
    <3> DEFINE ps == (d.profiles \ same) \cup {New(q.id) : q \in same}
    <3>1. e = [d EXCEPT !.profiles = ps]
      BY <2>1 DEF UpsertProfile
    <3> HIDE DEF New
    <3>2. ps \in SUBSET ProfileRow /\ \A q \in ps : q.engine \in d.engines /\ Drafted(d, q)
      BY <1>0, <1>1
    <3> HIDE DEF ps, e
    <3> QED BY <1>0, <3>1, <3>2 DEF Table
  <2>2. CASE same = {}
    <3> DEFINE ps == d.profiles \cup {New(d.nextProfile)}
               n == d.nextProfile + 1
    <3>1. e = [d EXCEPT !.profiles = ps, !.nextProfile = n]
      BY <2>2 DEF UpsertProfile
    <3> HIDE DEF New
    <3>2. n \in Nat /\ ps \in SUBSET ProfileRow /\ \A q \in ps : q.engine \in d.engines /\ Drafted(d, q)
      BY <1>0, <1>1
    <3> HIDE DEF ps, n, e
    <3> QED BY <1>0, <3>1, <3>2 DEF Table
  <2> QED BY <2>1, <2>2
<1> HIDE DEF e
<1>4. Numbered(e) /\ \A q \in e.profiles : q.engine \in e.engines /\ Drafted(e, q)
  BY <1>2 DEF Sound, Numbered, Drafted
<1>5. Follows(d, e)
  BY <1>0, <1>2 DEF Follows
<1> QED BY <1>2, <1>4, <1>5 DEF Sound, e

-----------------------------------------------------------------------------
(* The invariant. *)

Disk == [content : [File -> {"absent", "bad", "good"}], folder : [Root -> {"open", "locked", "gone"}]]
Found == UNION {[D -> SUBSET File] : D \in SUBSET Root}
SyncState == [at : {"idle", "listing", "loading", "done", "failed"}, todo : SUBSET Root, found : Found,
         dirs : SUBSET Root, steady : SUBSET File, still : BOOLEAN]
Import == [at : {"idle", "adding", "sourcing", "done", "failed"}, root : Root \cup {None},
           todo : SUBSET File, kept : SUBSET File, source : Repo \cup {None},
           page : {"none", "browse", "wizard", "closed"}]
Entry == [profile : ProfileRow, file : File]
Form == [model : Nat, drafts : SUBSET Nat, engines : SUBSET Engine]
UiRun == [entry : Entry \cup {None}, up : BOOLEAN]
Ui == [home : SUBSET Entry, dirs : SUBSET Root, form : Form \cup {None}, run : UiRun]

\* What the pages remember of the tables is still true of them, or gone.
Shown ==
    /\ \A x \in ui.home : Drafted(db, x.profile)
    /\ ui.run.entry # None => Drafted(db, ui.run.entry.profile)
    /\ ui.form # None => ui.form.engines \subseteq db.engines

\* What a sync found so far: each file in its folder, those that stayed among
\* them, and all there is when the disk stood still.
GoodFile(k, f) == k.content[f] = "good" /\ k.folder[Folder[f]] # "gone"
There(k, r) == {f \in File : Folder[f] = r /\ k.content[f] # "absent"}
ScanOf(t, k) ==
    t.at \in {"listing", "loading"} =>
      /\ \A r \in DOMAIN t.found : \A f \in t.found[r] : Folder[f] = r
      /\ \A f \in t.steady : GoodFile(k, f) /\ (Folder[f] \in DOMAIN t.found => f \in t.found[Folder[f]])
      /\ t.still => \A r \in DOMAIN t.found :
            t.found[r] = IF t.at = "loading" /\ r \notin t.todo THEN {f \in There(k, r) : GoodFile(k, f)}
                         ELSE There(k, r)

ShelfInv ==
    /\ Sound(db) /\ disk \in Disk /\ sync \in [Sync -> SyncState] /\ import \in Import /\ ui \in Ui
    /\ Shown /\ \A s \in Sync : ScanOf(sync[s], disk)

\* What every step keeps.
Upheld == ShelfInv' /\ Follows(db, db')

-----------------------------------------------------------------------------
LEMMA FoundParts ==
    ASSUME NEW found \in Found
    PROVE  /\ DOMAIN found \subseteq Root /\ \A r \in DOMAIN found : found[r] \subseteq File
           /\ found \in [DOMAIN found -> SUBSET File]
<1>1. PICK D \in SUBSET Root : found \in [D -> SUBSET File]
  BY DEF Found
<1> QED BY <1>1

LEMMA FoundWhole ==
    ASSUME NEW D \in SUBSET Root, NEW found \in [D -> SUBSET File]
    PROVE  found \in Found
  BY DEF Found

LEMMA EntriesShown ==
    ASSUME NEW d, Sound(d)
    PROVE  /\ ListAllProfiles(d) \subseteq Entry
           /\ \A x \in ListAllProfiles(d) : Drafted(d, x.profile)
<1> SUFFICES ASSUME NEW p \in d.profiles, p.model \in Models(d)
             PROVE  [profile |-> p, file |-> FileOf(d, p.model)] \in Entry /\ Drafted(d, p)
  BY DEF ListAllProfiles
<1>1. p \in ProfileRow /\ Drafted(d, p) /\ d.models \subseteq ModelRow
  BY DEF Sound, Table
<1>2. PICK m \in d.models : m.id = p.model
  BY DEF Models
<1>3. FileOf(d, p.model) = m.file
  BY <1>2, FileOfRow DEF Sound
<1>4. FileOf(d, p.model) \in File
  BY <1>1, <1>3 DEF ModelRow
<1> QED BY <1>1, <1>4 DEF Entry

LEMMA RefreshedUi ==
    ASSUME NEW d, Sound(d), ui \in Ui
    PROVE  LET v == Refreshed(d) IN
           /\ v \in Ui /\ v.home = ListAllProfiles(d) /\ v.dirs = d.dirs
           /\ v.form = ui.form /\ v.run = ui.run
           /\ \A x \in Form \cup {None} : /\ [v EXCEPT !.form = x] \in Ui /\ [v EXCEPT !.form = x].home = v.home
                                          /\ [v EXCEPT !.form = x].form = x /\ [v EXCEPT !.form = x].run = v.run
           /\ \A x \in UiRun : /\ [v EXCEPT !.run = x] \in Ui /\ [v EXCEPT !.run = x].home = v.home
                             /\ [v EXCEPT !.run = x].form = v.form /\ [v EXCEPT !.run = x].run = x
<1> DEFINE home == ListAllProfiles(d)
           v == Refreshed(d)
<1>1. home \in SUBSET Entry /\ d.dirs \in SUBSET Root
  BY EntriesShown DEF Sound, Table
<1>2. v = [ui EXCEPT !.home = home, !.dirs = d.dirs]
  BY DEF Refreshed
<1> HIDE DEF home, v
<1>3. v \in Ui /\ v.home = home /\ v.dirs = d.dirs /\ v.form = ui.form /\ v.run = ui.run
  BY <1>1, <1>2 DEF Ui
<1>4. \A x \in Form \cup {None} : /\ [v EXCEPT !.form = x] \in Ui /\ [v EXCEPT !.form = x].home = v.home
                                  /\ [v EXCEPT !.form = x].form = x /\ [v EXCEPT !.form = x].run = v.run
  BY <1>3 DEF Ui
<1>5. \A x \in UiRun : /\ [v EXCEPT !.run = x] \in Ui /\ [v EXCEPT !.run = x].home = v.home
                     /\ [v EXCEPT !.run = x].form = v.form /\ [v EXCEPT !.run = x].run = x
  BY <1>3 DEF Ui
<1> QED BY <1>3, <1>4, <1>5 DEF home, v

\* A step that changes the tables soundly, and the pages by reading them again,
\* keeps what is shown true.
LEMMA ShownOn ==
    ASSUME ShelfInv, Sound(db'), Follows(db, db'), ui' \in Ui,
           ui'.home \in {ui.home, ListAllProfiles(db')},
           ui'.run.entry \in {ui.run.entry, None} \cup ui.home,
           ui'.form = None \/ (ui'.form = ui.form /\ db.engines \subseteq db'.engines)
    PROVE  Shown'
<1>0. db \in Table /\ db' \in Table /\ None \notin Nat /\ ui.home \subseteq Entry /\ ui.run.entry \in Entry \cup {None}
  BY LibraryAssumption DEF ShelfInv, Sound, Ui, UiRun
<1>1. ASSUME NEW x \in Entry, Drafted(db, x.profile)
      PROVE  Drafted(db', x.profile)
  <2>1. x.profile \in ProfileRow
    BY DEF Entry
  <2> QED BY <1>0, <1>1, <2>1, DraftFollows
<1>2. \A x \in ui'.home : Drafted(db', x.profile)
  <2>1. CASE ui'.home = ui.home
    BY <1>0, <1>1, <2>1 DEF ShelfInv, Shown
  <2>2. CASE ui'.home = ListAllProfiles(db')
    BY <2>2, EntriesShown
  <2> QED BY <2>1, <2>2
<1>3. ui'.run.entry # None => Drafted(db', ui'.run.entry.profile)
  BY <1>0, <1>1 DEF ShelfInv, Shown
<1>4. ui'.form # None => ui'.form.engines \subseteq db'.engines
  BY DEF ShelfInv, Shown
<1> QED BY <1>2, <1>3, <1>4 DEF Shown

LEMMA ScansOn ==
    ASSUME ShelfInv, UNCHANGED <<disk, sync>>
    PROVE  disk' \in Disk /\ sync' \in [Sync -> SyncState] /\ \A s \in Sync : ScanOf(sync'[s], disk')
BY DEF ShelfInv

\* The interface reads the tables after it changed them.
LEMMA TablesStep ==
    ASSUME ShelfInv, Sound(db'), Follows(db, db'), UNCHANGED <<disk, sync>>,
           import' \in Import, ui' \in Ui,
           ui'.home \in {ui.home, ListAllProfiles(db')},
           ui'.run.entry \in {ui.run.entry, None} \cup ui.home,
           ui'.form = None \/ (ui'.form = ui.form /\ db.engines \subseteq db'.engines)
    PROVE  Upheld
<1>1. Shown'
  BY ShownOn
<1>2. disk' \in Disk /\ sync' \in [Sync -> SyncState] /\ \A s \in Sync : ScanOf(sync'[s], disk')
  BY ScansOn
<1> QED BY <1>1, <1>2 DEF ShelfInv, Upheld

LEMMA SameTables ==
    ASSUME ShelfInv, db' = db
    PROVE  Sound(db') /\ Follows(db, db') /\ (UNCHANGED ui => Shown')
<1>1. Follows(db, db)
  BY FollowsSelf DEF ShelfInv, Sound
<1> QED BY <1>1 DEF ShelfInv, Shown

-----------------------------------------------------------------------------
(* The disk. *)

\* The disk may change for the files that syncs no longer count as steady.
LEMMA DisturbedHolds ==
    ASSUME ShelfInv, disk' \in Disk, NEW files \in SUBSET File, sync' = Disturbed(files),
           \A f \in File \ files : GoodFile(disk, f) => GoodFile(disk', f)
    PROVE  sync' \in [Sync -> SyncState] /\ \A s \in Sync : ScanOf(sync'[s], disk')
<1>1. ASSUME NEW s \in Sync
      PROVE  sync'[s] \in SyncState /\ ScanOf(sync'[s], disk')
  <2> DEFINE t == sync[s]
             u == [t EXCEPT !.steady = @ \ files, !.still = FALSE]
  <2>1. t \in SyncState /\ ScanOf(t, disk)
    BY DEF ShelfInv
  <2>2. sync'[s] = u
    BY DEF Disturbed
  <2> HIDE DEF t
  <2>3. /\ u \in SyncState /\ u.at = t.at /\ u.found = t.found /\ u.steady = t.steady \ files /\ u.still = FALSE
        /\ t.steady \subseteq File
    BY <2>1 DEF SyncState
  <2> HIDE DEF u
  <2>4. ScanOf(u, disk')
    BY <2>1, <2>3 DEF ScanOf
  <2> QED BY <2>2, <2>3, <2>4
<1>2. sync' \in [Sync -> SyncState]
  BY <1>1 DEF Disturbed
<1> QED BY <1>1, <1>2

LEMMA MovedHolds ==
    ASSUME ShelfInv, NEW new \in Disk, NEW files \in SUBSET File, Moved(new, files),
           \A f \in File \ files : GoodFile(disk, f) => GoodFile(new, f)
    PROVE  Upheld
<1>1. disk' = new /\ sync' = Disturbed(files) /\ UNCHANGED <<db, import, ui>>
  BY DEF Moved
<1>2. sync' \in [Sync -> SyncState] /\ \A s \in Sync : ScanOf(sync'[s], disk')
  BY <1>1, DisturbedHolds
<1> QED BY <1>1, <1>2, SameTables DEF Upheld, ShelfInv

LEMMA FileChangesHolds ==
    ASSUME ShelfInv, NEW f \in File, FileChanges(f)
    PROVE  Upheld
<1>1. PICK c \in {"absent", "bad", "good"} : Moved([disk EXCEPT !.content[f] = c], {f})
  BY DEF FileChanges
<1> DEFINE new == [disk EXCEPT !.content[f] = c]
<1>2. disk \in Disk
  BY DEF ShelfInv
<1>3. new \in Disk /\ new.folder = disk.folder /\ \A g \in File \ {f} : new.content[g] = disk.content[g]
  BY <1>2 DEF Disk
<1> HIDE DEF new
<1>4. \A g \in File \ {f} : GoodFile(disk, g) => GoodFile(new, g)
  BY <1>3 DEF GoodFile
<1>5. Moved(new, {f})
  BY <1>1 DEF new
<1> QED BY <1>3, <1>4, <1>5, MovedHolds

LEMMA FolderChangesHolds ==
    ASSUME ShelfInv, NEW r \in Root, FolderChanges(r)
    PROVE  Upheld
<1> DEFINE files(c) == IF c = "gone" THEN {f \in File : Folder[f] = r} ELSE {}
<1>1. PICK c \in {"open", "locked", "gone"} : Moved([disk EXCEPT !.folder[r] = c], files(c))
  BY DEF FolderChanges
<1> DEFINE new == [disk EXCEPT !.folder[r] = c]
<1>2. disk \in Disk
  BY DEF ShelfInv
<1>3. /\ new \in Disk /\ new.content = disk.content /\ new.folder[r] = c
      /\ \A q \in Root \ {r} : new.folder[q] = disk.folder[q]
  BY <1>2 DEF Disk
<1> HIDE DEF new
<1>4. \A g \in File \ files(c) : GoodFile(disk, g) => GoodFile(new, g)
  BY <1>3, LibraryAssumption DEF GoodFile
<1>5. Moved(new, files(c)) /\ files(c) \in SUBSET File
  BY <1>1 DEF new
<1> HIDE DEF files
<1> QED BY <1>3, <1>4, <1>5, MovedHolds

-----------------------------------------------------------------------------
(* The syncs. *)

\* A sync that takes a step of its own, with the rest as it was.
LEMMA ScanStep ==
    ASSUME ShelfInv, NEW s \in Sync, NEW t \in SyncState, sync' = [sync EXCEPT ![s] = t],
           UNCHANGED <<disk, db, import, ui>>, ScanOf(t, disk)
    PROVE  Upheld
<1>1. sync' \in [Sync -> SyncState] /\ sync'[s] = t /\ \A q \in Sync \ {s} : sync'[q] = sync[q]
  BY DEF ShelfInv
<1>2. \A q \in Sync : ScanOf(sync'[q], disk')
  BY <1>1 DEF ShelfInv
<1> QED BY <1>1, <1>2, SameTables DEF Upheld, ShelfInv

LEMMA StartSyncHolds ==
    ASSUME ShelfInv, NEW s \in Sync, StartSync(s)
    PROVE  Upheld
<1> DEFINE steady == {f \in File : Readable(f)}
           t == [at |-> "listing", todo |-> ui.dirs, found |-> <<>>, dirs |-> ui.dirs,
                 steady |-> steady, still |-> TRUE]
<1>1. sync' = [sync EXCEPT ![s] = t] /\ UNCHANGED <<disk, db, import, ui>>
  BY DEF StartSync
<1>2. ui.dirs \in SUBSET Root /\ steady \in SUBSET File /\ \A f \in steady : GoodFile(disk, f)
  BY DEF ShelfInv, Ui, GoodFile, Readable
<1>3. <<>> \in Found /\ DOMAIN <<>> = {}
  <2>1. <<>> \in [{} -> SUBSET File]
    OBVIOUS
  <2> QED BY <2>1 DEF Found
<1> HIDE DEF steady
<1>4. t \in SyncState
  BY <1>2, <1>3 DEF SyncState
<1>5. ScanOf(t, disk)
  BY <1>2, <1>3 DEF ScanOf
<1> HIDE DEF t
<1> QED BY <1>1, <1>4, <1>5, ScanStep

LEMMA ScanRootHolds ==
    ASSUME ShelfInv, NEW s \in Sync, NEW r \in Root, ScanRoot(s, r)
    PROVE  Upheld
<1> DEFINE t == sync[s]
           todo == t.todo \ {r}
           found == WithListed(t.found, r)
           u == [t EXCEPT !.found = found, !.at = IF todo = {} THEN "loading" ELSE @,
                          !.todo = IF todo = {} THEN DOMAIN found ELSE todo]
<1>1. t \in SyncState /\ ScanOf(t, disk) /\ t.at = "listing" /\ r \in t.todo
  BY DEF ShelfInv, ScanRoot
<1>2. sync' = [sync EXCEPT ![s].found = found, ![s].at = IF todo = {} THEN "loading" ELSE @,
                       ![s].todo = IF todo = {} THEN DOMAIN found ELSE todo]
      /\ UNCHANGED <<disk, db, import, ui>>
  BY DEF ScanRoot
<1>3. sync' = [sync EXCEPT ![s] = u]
  BY <1>2
<1>4. /\ t.found \in Found /\ t.todo \subseteq Root /\ DOMAIN t.found \subseteq Root
      /\ t.found \in [DOMAIN t.found -> SUBSET File]
  BY <1>1, FoundParts DEF SyncState
<1>5. /\ \/ found = t.found
         \/ /\ DOMAIN found = DOMAIN t.found \cup {r} /\ found[r] = There(disk, r)
            /\ \A q \in DOMAIN t.found \ {r} : found[q] = t.found[q]
      /\ found \in Found
  <2>1. CASE disk.folder[r] = "open"
    <3>1. found = [q \in DOMAIN t.found \cup {r} |-> IF q = r THEN Listed(r) ELSE t.found[q]]
      BY <2>1 DEF WithListed, With
    <3>2. Listed(r) \subseteq File
      BY DEF Listed
    <3> HIDE DEF found, t
    <3>3. found \in [DOMAIN t.found \cup {r} -> SUBSET File]
      BY <1>4, <3>1, <3>2
    <3> DEFINE D == DOMAIN t.found \cup {r}
    <3>4. D \in SUBSET Root /\ found \in [D -> SUBSET File]
      BY <1>4, <3>3
    <3> HIDE DEF D
    <3>5. found \in Found
      BY <3>4, FoundWhole
    <3> QED BY <3>1, <3>5 DEF There, Listed
  <2>2. CASE disk.folder[r] # "open"
    BY <1>4, <2>2 DEF WithListed
  <2> QED BY <2>1, <2>2
<1> DEFINE at == IF todo = {} THEN "loading" ELSE "listing"
           left == IF todo = {} THEN DOMAIN found ELSE todo
<1>6. u = [t EXCEPT !.found = found, !.at = at, !.todo = left]
  BY <1>1
<1>7. at \in {"listing", "loading"} /\ left \in SUBSET Root /\ DOMAIN found \subseteq Root
      /\ (at = "loading" => left = DOMAIN found)
  BY <1>4, <1>5, FoundParts
<1> HIDE DEF found, at, left, u, t
<1>8. /\ u \in SyncState /\ u.found = found /\ u.at = at /\ u.todo = left /\ u.steady = t.steady /\ u.still = t.still
      /\ t.steady \subseteq File
  BY <1>1, <1>5, <1>6, <1>7 DEF SyncState
<1>9. ScanOf(u, disk)
  <2>1. \A q \in DOMAIN found : \A f \in found[q] : Folder[f] = q
    BY <1>1, <1>5 DEF ScanOf, There
  <2>2. \A f \in u.steady : GoodFile(disk, f) /\ (Folder[f] \in DOMAIN found => f \in found[Folder[f]])
    BY <1>1, <1>5, <1>8 DEF ScanOf, There, GoodFile
  <2>3. u.still => \A q \in DOMAIN found : found[q] = There(disk, q)
    BY <1>1, <1>5, <1>8 DEF ScanOf
  <2> QED BY <1>7, <1>8, <2>1, <2>2, <2>3 DEF ScanOf
<1> QED BY <1>2, <1>3, <1>8, <1>9, ScanStep

LEMMA LoadMetadataHolds ==
    ASSUME ShelfInv, NEW s \in Sync, NEW r \in Root, LoadMetadata(s, r)
    PROVE  Upheld
<1> DEFINE t == sync[s]
           todo == t.todo \ {r}
           found == [t.found EXCEPT ![r] = {f \in @ : Readable(f)}]
           u == [t EXCEPT !.found = found, !.todo = todo]
<1>1. t \in SyncState /\ ScanOf(t, disk) /\ t.at = "loading" /\ r \in t.todo
  BY DEF ShelfInv, LoadMetadata
<1>2. sync' = [sync EXCEPT ![s].todo = @ \ {r}, ![s].found[r] = {f \in @ : Readable(f)}]
      /\ UNCHANGED <<disk, db, import, ui>>
  BY DEF LoadMetadata
<1>3. sync' = [sync EXCEPT ![s] = u]
  BY <1>1, <1>2 DEF ShelfInv, SyncState
<1>4. /\ t.found \in Found /\ t.todo \subseteq Root /\ DOMAIN t.found \subseteq Root
      /\ t.found \in [DOMAIN t.found -> SUBSET File]
  BY <1>1, FoundParts DEF SyncState
<1> HIDE DEF t
<1>5. /\ DOMAIN found = DOMAIN t.found /\ found \in Found
      /\ \A q \in DOMAIN found : found[q] = IF q = r THEN {f \in t.found[q] : GoodFile(disk, f)} ELSE t.found[q]
  <2> DEFINE old == t.found
             D == DOMAIN old
  <2>1. D \in SUBSET Root /\ old \in [D -> SUBSET File]
    BY <1>4
  <2>2. found = [old EXCEPT ![r] = {f \in old[r] : GoodFile(disk, f)}]
    BY DEF GoodFile, Readable
  <2> HIDE DEF D, old, found
  <2>3. found \in [D -> SUBSET File] /\ \A q \in D : found[q] = IF q = r THEN {f \in old[q] : GoodFile(disk, f)} ELSE old[q]
    BY <2>1, <2>2
  <2>4. found \in Found
    BY <2>1, <2>3, FoundWhole
  <2> QED BY <2>3, <2>4 DEF D, old
<1> HIDE DEF found
<1>6. /\ u \in SyncState /\ u.found = found /\ u.at = "loading" /\ u.todo = todo /\ u.steady = t.steady
      /\ u.still = t.still /\ t.steady \subseteq File
  BY <1>1, <1>4, <1>5 DEF SyncState
<1> HIDE DEF u
<1>7. ScanOf(u, disk)
  <2>1. \A q \in DOMAIN found : \A f \in found[q] : Folder[f] = q
    BY <1>1, <1>5, ZenonT(30) DEF ScanOf
  <2>2. \A f \in u.steady : GoodFile(disk, f) /\ (Folder[f] \in DOMAIN found => f \in found[Folder[f]])
    BY <1>1, <1>5, <1>6, ZenonT(60) DEF ScanOf
  <2>3. ASSUME u.still, NEW q \in DOMAIN found
        PROVE  found[q] = IF q \notin u.todo THEN {f \in There(disk, q) : GoodFile(disk, f)} ELSE There(disk, q)
    <3>1. t.found[q] = IF q \notin t.todo THEN {f \in There(disk, q) : GoodFile(disk, f)} ELSE There(disk, q)
      BY <1>1, <1>5, <1>6, <2>3 DEF ScanOf
    <3> QED BY <1>1, <1>5, <1>6, <3>1
  <2> QED BY <1>6, <2>1, <2>2, <2>3 DEF ScanOf
<1> QED BY <1>2, <1>3, <1>6, <1>7, ScanStep

LEMMA IdleScan ==
    ASSUME NEW at \in {"idle", "done", "failed"}
    PROVE  [NoSync EXCEPT !.at = at] \in SyncState /\ [NoSync EXCEPT !.at = at].at = at /\ NoSync \in SyncState
           /\ NoSync.at = "idle"
<1>1. <<>> \in Found
  <2>1. <<>> \in [{} -> SUBSET File]
    OBVIOUS
  <2> QED BY <2>1 DEF Found
<1> QED BY <1>1 DEF NoSync, SyncState

LEMMA ApplySyncHolds ==
    ASSUME ShelfInv, NEW s \in Sync, ApplySync(s)
    PROVE  Upheld
<1> DEFINE found == sync[s].found
           Done(at) == [NoSync EXCEPT !.at = at]
<1>1. sync[s] \in SyncState
  BY DEF ShelfInv
<1>2. \A r \in DOMAIN found : found[r] \subseteq File
  BY <1>1, FoundParts DEF SyncState
<1>3. Sound(db') /\ Follows(db, db') /\ db'.engines = db.engines
  <2>1. CASE db' = SyncPerRoot(db, found)
    <3> HIDE DEF found
    <3> QED BY <1>2, <2>1, SyncSound DEF ShelfInv
  <2>2. CASE db' = db
    BY <2>2, SameTables
  <2> QED BY <2>1, <2>2 DEF ApplySync
<1>4. UNCHANGED <<disk, import, ui>>
  BY DEF ApplySync
<1>5. PICK t \in SyncState : sync' = [sync EXCEPT ![s] = t] /\ t.at \in {"done", "failed"}
  <2>1. PICK at \in {"done", "failed"} : sync' = [sync EXCEPT ![s] = Done(at)]
    BY DEF ApplySync
  <2>2. Done(at) \in SyncState /\ Done(at).at = at
    BY IdleScan
  <2> HIDE DEF Done
  <2> QED BY <2>1, <2>2
<1>6. sync' \in [Sync -> SyncState] /\ \A q \in Sync : ScanOf(sync'[q], disk')
  <2>1. ScanOf(t, disk)
    BY <1>5 DEF ScanOf
  <2> QED BY <1>4, <1>5, <2>1 DEF ShelfInv
<1>7. Shown'
  BY <1>3, <1>4, ShownOn DEF ShelfInv
<1> QED BY <1>3, <1>4, <1>6, <1>7 DEF Upheld, ShelfInv

LEMMA SyncDoneHolds ==
    ASSUME ShelfInv, NEW s \in Sync, SyncDone(s)
    PROVE  Upheld
<1>1. UNCHANGED <<disk, db>> /\ sync' = [sync EXCEPT ![s] = NoSync]
  BY DEF SyncDone
<1>2. sync' \in [Sync -> SyncState] /\ \A q \in Sync : ScanOf(sync'[q], disk')
  <2>1. ScanOf(NoSync, disk) /\ NoSync \in SyncState
    BY IdleScan DEF ScanOf
  <2> HIDE DEF NoSync
  <2> QED BY <1>1, <2>1 DEF ShelfInv
<1>3. Sound(db') /\ Follows(db, db')
  BY <1>1, SameTables
<1>4. CASE UNCHANGED <<ui, import>>
  BY <1>1, <1>2, <1>3, <1>4, SameTables DEF Upheld, ShelfInv
<1>5. CASE ui' = Refreshed(db) /\ import' = Unwatched
  <2>1. ui' \in Ui /\ ui'.home = ListAllProfiles(db') /\ ui'.run = ui.run /\ ui'.form = ui.form
    BY <1>1, <1>5, RefreshedUi DEF ShelfInv
  <2>2. import' \in Import
    BY <1>5 DEF ShelfInv, Import, Unwatched
  <2>3. Shown'
    BY <1>1, <1>3, <2>1, ShownOn
  <2> QED BY <1>1, <1>2, <1>3, <2>1, <2>2, <2>3 DEF Upheld, ShelfInv
<1> QED BY <1>4, <1>5 DEF SyncDone

-----------------------------------------------------------------------------
(* Imports and downloads. *)

LEMMA OnwardIs ==
    ASSUME NEW i \in Import
    PROVE  Onward(i) \in Import
<1> DEFINE a == [i EXCEPT !.at = "sourcing", !.todo = i.kept, !.kept = {}]
           b == [NoImport EXCEPT !.at = "done", !.page = i.page]
<1>1. a \in Import
  BY DEF Import
<1>2. b \in Import
  BY DEF Import, NoImport
<1>3. Onward(i) \in {i, a, b}
  BY DEF Onward
<1> QED BY <1>1, <1>2, <1>3

\* A step of an import changes the tables and itself.
LEMMA ImportStep ==
    ASSUME ShelfInv, UNCHANGED <<disk, sync, ui>>, import' \in Import,
           Sound(db'), Follows(db, db'), db'.engines = db.engines
    PROVE  Upheld
  BY TablesStep DEF ShelfInv

LEMMA BrowseHolds ==
    ASSUME ShelfInv, NEW r \in Root, NEW files \in SUBSET File, Browse(r, files)
    PROVE  Upheld
<1>1. /\ UNCHANGED <<disk, db, sync, ui>>
      /\ import' = [at |-> "adding", root |-> r, todo |-> files, kept |-> {}, source |-> None, page |-> "browse"]
  BY DEF Browse
<1>2. import' \in Import
  BY <1>1 DEF Import
<1> QED BY <1>1, <1>2, ImportStep, SameTables

LEMMA DownloadHolds ==
    ASSUME ShelfInv, NEW r \in Root, NEW f \in File, NEW repo \in Repo, Download(r, f, repo)
    PROVE  Upheld
<1> DEFINE todo == Listed(r) \cup {f}
<1>1. /\ disk' = [disk EXCEPT !.content[f] = "good"] /\ sync' = Disturbed({}) /\ UNCHANGED <<db, ui>>
      /\ import' = [at |-> "adding", root |-> r, todo |-> todo, kept |-> {}, source |-> repo, page |-> "wizard"]
  BY DEF Download
<1>2. todo \in SUBSET File
  BY DEF Listed
<1> HIDE DEF todo
<1>3. import' \in Import
  BY <1>1, <1>2 DEF Import
<1>4. disk \in Disk
  BY DEF ShelfInv
<1>5. disk' \in Disk /\ \A g \in File : GoodFile(disk, g) => GoodFile(disk', g)
  BY <1>1, <1>4 DEF Disk, GoodFile
<1>6. sync' \in [Sync -> SyncState] /\ \A s \in Sync : ScanOf(sync'[s], disk')
  BY <1>1, <1>5, DisturbedHolds
<1> QED BY <1>1, <1>3, <1>5, <1>6, SameTables DEF Upheld, ShelfInv

LEMMA RegisterDirHolds ==
    ASSUME ShelfInv, RegisterDir
    PROVE  Upheld
<1>1. UNCHANGED <<disk, sync, ui>> /\ import \in Import /\ import.root # None /\ db \in Table /\ Sound(db)
  BY DEF RegisterDir, ShelfInv, Sound
<1>2. CASE db' = [db EXCEPT !.dirs = @ \cup {import.root}] /\ import' = Onward([import EXCEPT !.root = None])
  <2>1. /\ db' \in Table /\ db'.models = db.models /\ db'.nextModel = db.nextModel
        /\ db'.profiles = db.profiles /\ db'.engines = db.engines
    <3>1. db.dirs \cup {import.root} \in SUBSET Root
      BY <1>1 DEF Table, Import
    <3> QED BY <1>1, <1>2, <3>1 DEF Table
  <2>2. Sound(db') /\ Follows(db, db')
    <3>1. \A p \in db'.profiles : p \in db.profiles /\ p.engine \in db'.engines
      BY <1>1, <2>1 DEF Sound
    <3> QED BY <1>1, <2>1, <3>1, ModelsKept
  <2>3. import' \in Import
    <3>1. [import EXCEPT !.root = None] \in Import
      BY <1>1 DEF Import
    <3> QED BY <1>2, <3>1, OnwardIs
  <2> QED BY <1>1, <2>1, <2>2, <2>3, ImportStep
<1>3. CASE db' = db /\ import' = [NoImport EXCEPT !.at = "failed", !.page = import.page]
  <2>1. import' \in Import
    BY <1>1, <1>3 DEF Import, NoImport
  <2> QED BY <1>1, <1>3, <2>1, ImportStep, SameTables
<1> QED BY <1>2, <1>3 DEF RegisterDir

LEMMA AddModelHolds ==
    ASSUME ShelfInv, NEW f \in File, AddModel(f)
    PROVE  Upheld
<1> DEFINE a == [import EXCEPT !.todo = @ \ {f}, !.kept = @ \cup {f}]
           b == [import EXCEPT !.todo = @ \ {f}]
<1>1. UNCHANGED <<disk, sync, ui>> /\ import \in Import /\ Sound(db) /\ None \notin Nat
  BY LibraryAssumption DEF AddModel, ShelfInv
<1>2. a \in Import /\ b \in Import
  BY <1>1 DEF Import
<1>3. \/ db' = UpsertModel(db, f, None) /\ import' = Onward(a)
      \/ db' = db /\ import' = Onward(b)
  BY DEF AddModel
<1> HIDE DEF a, b
<1>4. import' \in Import
  BY <1>2, <1>3, OnwardIs
<1>5. Sound(db') /\ Follows(db, db') /\ db'.engines = db.engines
  BY <1>1, <1>3, UpsertModelSound, SameTables
<1> QED BY <1>1, <1>4, <1>5, ImportStep

LEMMA AddSourceHolds ==
    ASSUME ShelfInv, NEW f \in File, AddSource(f)
    PROVE  Upheld
<1> DEFINE b == [import EXCEPT !.todo = @ \ {f}]
<1>1. UNCHANGED <<disk, sync, ui>> /\ import \in Import /\ Sound(db) /\ None \notin Nat
  BY LibraryAssumption DEF AddSource, ShelfInv
<1>2. b \in Import /\ import.source \in Repo \cup {None}
  BY <1>1 DEF Import
<1>3. db' \in {UpsertModel(db, f, import.source), db} /\ import' = Onward(b)
  BY DEF AddSource
<1> HIDE DEF b
<1>4. import' \in Import
  BY <1>2, <1>3, OnwardIs
<1>5. Sound(db') /\ Follows(db, db') /\ db'.engines = db.engines
  BY <1>1, <1>2, <1>3, UpsertModelSound, SameTables
<1> QED BY <1>1, <1>4, <1>5, ImportStep

\* The pages are read again, and the tables are as they were.
LEMMA RefreshStep ==
    ASSUME ShelfInv, UNCHANGED <<disk, sync, db>>, import' \in Import,
           ui' \in {ui, Refreshed(db)}
    PROVE  Upheld
<1>1. /\ ui' \in Ui /\ ui'.home \in {ui.home, ListAllProfiles(db')} /\ ui'.run = ui.run
      /\ ui'.form = ui.form
  BY RefreshedUi DEF ShelfInv
<1> QED BY <1>1, SameTables, TablesStep

LEMMA ImportDoneHolds ==
    ASSUME ShelfInv, ImportDone
    PROVE  Upheld
<1>1. UNCHANGED <<disk, sync, db>> /\ ui' \in {ui, Refreshed(db)} /\ import' = NoImport
  BY DEF ImportDone
<1>2. NoImport \in Import
  BY DEF NoImport, Import
<1> QED BY <1>1, <1>2, RefreshStep

LEMMA CloseWizardHolds ==
    ASSUME ShelfInv, CloseWizard
    PROVE  Upheld
<1>1. UNCHANGED <<disk, sync, db>> /\ ui' = Refreshed(db) /\ import' \in {NoImport, Unwatched}
  BY DEF CloseWizard
<1>2. NoImport \in Import /\ Unwatched \in Import
  BY DEF NoImport, Unwatched, Import, ShelfInv
<1> QED BY <1>1, <1>2, RefreshStep

-----------------------------------------------------------------------------
(* The interface. *)

\* An edit of the tables, after which the pages are read again.
LEMMA EditStep ==
    ASSUME ShelfInv, UNCHANGED <<disk, sync, import>>, Sound(db'), Follows(db, db'),
           ui' = Refreshed(db'), ui.form = None
    PROVE  Upheld
<1>1. ui' \in Ui /\ ui'.home = ListAllProfiles(db') /\ ui'.run = ui.run /\ ui'.form = None
  BY RefreshedUi DEF ShelfInv
<1> QED BY <1>1, TablesStep DEF ShelfInv

LEMMA RemoveFolderHolds ==
    ASSUME ShelfInv, NEW r \in Root, RemoveFolder(r)
    PROVE  Upheld
<1>1. /\ UNCHANGED <<disk, sync, import>> /\ db' = RemoveScanDir(db, r) /\ ui' = Refreshed(db') /\ ui.form = None
  BY DEF RemoveFolder, Free
<1>2. Sound(db') /\ Follows(db, db')
  BY <1>1, RemoveScanDirSound, LibraryAssumption DEF ShelfInv
<1> QED BY <1>1, <1>2, EditStep

LEMMA ChangeEnginesHolds ==
    ASSUME ShelfInv, NEW e \in Engine, ChangeEngines(e)
    PROVE  Upheld
<1>1. /\ UNCHANGED <<disk, sync, import>> /\ ui' = Refreshed(db') /\ ui.form = None
      /\ db' = DeleteEngine(db, e) \/ db' = [db EXCEPT !.engines = @ \cup {e}]
  BY DEF ChangeEngines, Free
<1>2. CASE db' = DeleteEngine(db, e)
  <2>1. Sound(db') /\ Follows(db, db')
    BY <1>2, DeleteEngineSound DEF ShelfInv
  <2> QED BY <1>1, <2>1, EditStep
<1>3. CASE db' = [db EXCEPT !.engines = @ \cup {e}]
  <2>1. db \in Table /\ Sound(db)
    BY DEF ShelfInv, Sound
  <2>2. /\ db' \in Table /\ db'.models = db.models /\ db'.nextModel = db.nextModel
        /\ db'.profiles = db.profiles /\ db'.engines = db.engines \cup {e}
    BY <1>3, <2>1 DEF Table
  <2>3. \A p \in db'.profiles : p \in db.profiles /\ p.engine \in db'.engines
    BY <2>1, <2>2 DEF Sound
  <2>4. Sound(db') /\ Follows(db, db')
    BY <2>1, <2>2, <2>3, ModelsKept
  <2> QED BY <1>1, <2>4, EditStep
<1> QED BY <1>1, <1>2, <1>3

\* A step of the pages alone.
LEMMA PageStep ==
    ASSUME ShelfInv, UNCHANGED <<disk, sync, db, import>>, ui' \in Ui,
           ui'.home = ui.home, ui'.run.entry = ui.run.entry, ui'.form \in {ui.form, None}
    PROVE  Upheld
  BY SameTables, TablesStep DEF ShelfInv

LEMMA OpenFormHolds ==
    ASSUME ShelfInv, NEW id \in Models(db), OpenForm(id)
    PROVE  Upheld
<1> DEFINE engines == {e \in db.engines : Kind[e] = Kind[FileOf(db, id)]}
           form == [model |-> id, drafts |-> Models(db) \ {id}, engines |-> engines]
<1>1. UNCHANGED <<disk, sync, db, import>> /\ ui' = [ui EXCEPT !.form = form]
  BY DEF OpenForm
<1>2. Models(db) \subseteq Nat /\ engines \subseteq db.engines /\ db.engines \subseteq Engine
  BY DEF ShelfInv, Sound, Table, Models, ModelRow
<1> HIDE DEF engines
<1>3. form \in Form /\ form.engines \subseteq db.engines
  BY <1>2 DEF Form
<1> HIDE DEF form
<1>4. /\ ui' \in Ui /\ ui'.home = ui.home /\ ui'.run = ui.run /\ ui'.form = form
  BY <1>1, <1>3 DEF ShelfInv, Ui
<1>5. Shown'
  BY <1>1, <1>3, <1>4 DEF ShelfInv, Shown, Drafted
<1>6. disk' \in Disk /\ sync' \in [Sync -> SyncState] /\ \A s \in Sync : ScanOf(sync'[s], disk')
  BY <1>1, ScansOn
<1> QED BY <1>1, <1>4, <1>5, <1>6, SameTables DEF Upheld, ShelfInv

LEMMA CloseFormHolds ==
    ASSUME ShelfInv, CloseForm
    PROVE  Upheld
<1>1. UNCHANGED <<disk, sync, db, import>> /\ ui' = [ui EXCEPT !.form = None]
  BY DEF CloseForm
<1>2. ui' \in Ui /\ ui'.home = ui.home /\ ui'.run = ui.run /\ ui'.form = None
  BY <1>1 DEF ShelfInv, Ui
<1> QED BY <1>1, <1>2, PageStep

LEMMA SaveProfileHolds ==
    ASSUME ShelfInv, NEW name \in Name, NEW e \in Engine,
           NEW draft \in Models(db) \cup {None}, SaveProfile(name, e, draft)
    PROVE  Upheld
<1> DEFINE with == IF draft # None THEN FileOf(db, draft) ELSE None
           P(i) == [id |-> i, model |-> ui.form.model, name |-> name, engine |-> e, drafts |-> draft # None,
                    draft |-> draft, with |-> with]
           d == UpsertProfile(db, P(None))
<1>1. /\ UNCHANGED <<disk, sync, import>> /\ db' = d /\ ui' = [Refreshed(db') EXCEPT !.form = None]
      /\ ui.form # None /\ e \in ui.form.engines /\ ui.form.model \in Models(db)
  BY DEF SaveProfile
<1>2. /\ Sound(db) /\ db.models \subseteq ModelRow /\ Numbered(db) /\ None \notin Nat
      /\ e \in db.engines /\ ui.form.model \in Nat
  BY <1>1, LibraryAssumption DEF ShelfInv, Sound, Table, Shown, Models, ModelRow
<1>3. /\ with \in File \cup {None} /\ draft \in Nat \cup {None}
      /\ draft # None => draft < db.nextModel
      /\ draft # None => \A m \in db.models : m.id = draft => m.file = with
  <2>1. CASE draft = None
    BY <2>1
  <2>2. CASE draft # None
    <3>1. PICK n \in db.models : n.id = draft
      BY <2>2 DEF Models
    <3>2. FileOf(db, draft) = n.file
      BY <1>2, <3>1, FileOfRow
    <3>3. with = n.file
      BY <2>2, <3>2
    <3> HIDE DEF with
    <3>4. \A m \in db.models : m.id = draft => m = n
      BY <1>2, <3>1 DEF Numbered
    <3> QED BY <1>2, <3>1, <3>3, <3>4 DEF Numbered, ModelRow
  <2> QED BY <2>1, <2>2
<1> HIDE DEF with
<1>4. \A i \in Nat : [P(None) EXCEPT !.id = i] = P(i)
  OBVIOUS
<1>5. \A i \in Nat : P(i) \in ProfileRow
  BY <1>2, <1>3 DEF ProfileRow
<1>6. \A i \in Nat \cup {None} : P(i).engine = e /\ Drafted(db, P(i))
  <2> TAKE i \in Nat \cup {None}
  <2>1. /\ P(i).engine = e /\ P(i).draft = draft /\ P(i).with = with /\ P(i).drafts = (draft # None)
    OBVIOUS
  <2> HIDE DEF P
  <2> QED BY <1>3, <2>1 DEF Drafted
<1>7. Sound(d) /\ Follows(db, d) /\ d.engines = db.engines
  <2> DEFINE p == P(None)
  <2>1. /\ p.engine \in db.engines /\ Drafted(db, p)
        /\ \A i \in Nat : [p EXCEPT !.id = i] \in ProfileRow /\ [p EXCEPT !.id = i].engine = p.engine
                          /\ Drafted(db, [p EXCEPT !.id = i])
    <3> HIDE DEF P
    <3> QED BY <1>2, <1>4, <1>5, <1>6
  <2> HIDE DEF p
  <2>2. Sound(UpsertProfile(db, p)) /\ Follows(db, UpsertProfile(db, p)) /\ UpsertProfile(db, p).engines = db.engines
    BY <1>2, <2>1, UpsertProfileSound
  <2> QED BY <2>2 DEF p
<1> HIDE DEF d
<1>8. Sound(db') /\ Follows(db, db')
  BY <1>1, <1>7
<1>9. ui' \in Ui /\ ui'.home = ListAllProfiles(db') /\ ui'.run = ui.run /\ ui'.form = None
  BY <1>1, <1>8, RefreshedUi DEF ShelfInv
<1> QED BY <1>1, <1>8, <1>9, TablesStep DEF ShelfInv

LEMMA DeleteProfileHolds ==
    ASSUME ShelfInv, NEW x \in ui.home, DeleteProfile(x)
    PROVE  Upheld
<1> DEFINE d == WithoutProfiles(db, {x.profile.id})
<1>1. UNCHANGED <<disk, sync, import>> /\ db' = d /\ ui' = Refreshed(db') /\ ui.form = None
  BY DEF DeleteProfile, Free
<1>2. Sound(d) /\ d.models = db.models /\ d.nextModel = db.nextModel
  BY WithoutProfilesSound DEF ShelfInv
<1> HIDE DEF d
<1>3. Follows(db, d)
  <2>1. db.nextModel \in Nat
    BY DEF ShelfInv, Sound, Table
  <2> QED BY <1>2, <2>1 DEF Follows
<1> QED BY <1>1, <1>2, <1>3, EditStep

LEMMA LaunchHolds ==
    ASSUME ShelfInv, NEW x \in ui.home, LaunchEntry(x)
    PROVE  Upheld
<1> DEFINE run == [entry |-> x, up |-> TRUE]
<1>1. /\ UNCHANGED <<disk, sync, import>> /\ ui' = [Refreshed(db') EXCEPT !.run = run] /\ ui.form = None
      /\ db' = IF x.profile.id \in Profiles(db) THEN [db EXCEPT !.recents = @ \cup {x.profile.id}] ELSE db
  BY DEF LaunchEntry, Free
<1>2. db \in Table /\ Sound(db) /\ Profiles(db) \subseteq Nat
  BY DEF ShelfInv, Sound, Table, Profiles, ProfileRow
<1>3. Sound(db') /\ Follows(db, db')
  <2>1. CASE x.profile.id \in Profiles(db)
    <3>1. /\ db' \in Table /\ db'.models = db.models /\ db'.nextModel = db.nextModel
          /\ db'.profiles = db.profiles /\ db'.engines = db.engines
      <4> DEFINE recents == db.recents \cup {x.profile.id}
      <4>1. recents \in SUBSET Nat
        BY <1>2, <2>1 DEF Table
      <4>2. db' = [db EXCEPT !.recents = recents]
        BY <1>1, <2>1
      <4> HIDE DEF recents
      <4> QED BY <1>2, <4>1, <4>2 DEF Table
    <3>2. \A p \in db'.profiles : p \in db.profiles /\ p.engine \in db'.engines
      BY <1>2, <3>1 DEF Sound
    <3> QED BY <1>2, <3>1, <3>2, ModelsKept
  <2>2. CASE x.profile.id \notin Profiles(db)
    BY <1>1, <2>2, SameTables
  <2> QED BY <2>1, <2>2
<1>4. run \in UiRun /\ run.entry = x
  BY DEF ShelfInv, Ui, UiRun
<1> HIDE DEF run
<1>5. ui' \in Ui /\ ui'.home = ListAllProfiles(db') /\ ui'.run = run /\ ui'.form = None
  <2> DEFINE v == Refreshed(db')
  <2>1. v \in Ui /\ v.home = ListAllProfiles(db') /\ v.form = None
    BY <1>1, <1>3, RefreshedUi DEF ShelfInv
  <2>2. ui' = [v EXCEPT !.run = run]
    BY <1>1
  <2> HIDE DEF v
  <2> QED BY <1>4, <2>1, <2>2 DEF Ui
<1> QED BY <1>1, <1>3, <1>4, <1>5, TablesStep DEF ShelfInv

LEMMA RunHolds ==
    ASSUME ShelfInv, RunEnds \/ RestartRun
    PROVE  Upheld
<1>1. PICK b \in BOOLEAN : UNCHANGED <<disk, sync, db, import>> /\ ui' = [ui EXCEPT !.run.up = b]
  BY DEF RunEnds, RestartRun
<1>2. ui \in Ui /\ ui.run \in UiRun
  BY DEF ShelfInv, Ui
<1> DEFINE run == [ui.run EXCEPT !.up = b]
<1>3. run \in UiRun /\ run.entry = ui.run.entry
  BY <1>2 DEF UiRun
<1>4. ui' = [ui EXCEPT !.run = run]
  BY <1>1
<1> HIDE DEF run
<1>5. ui' \in Ui /\ ui'.home = ui.home /\ ui'.form = ui.form /\ ui'.run = run
  BY <1>2, <1>3, <1>4 DEF Ui
<1> QED BY <1>1, <1>3, <1>5, PageStep

LEMMA StartAgainHolds ==
    ASSUME ShelfInv, StartAgain
    PROVE  Upheld
<1>1. /\ UNCHANGED <<disk, db>> /\ sync' = [s \in Sync |-> NoSync] /\ import' = NoImport
      /\ ui' = [Refreshed(db) EXCEPT !.form = None, !.run = NoRun]
  BY DEF StartAgain
<1>2. sync' \in [Sync -> SyncState] /\ \A s \in Sync : ScanOf(sync'[s], disk')
  BY <1>1, IdleScan DEF ScanOf
<1>3. NoImport \in Import /\ NoRun \in UiRun /\ NoRun.entry = None
  BY DEF NoImport, Import, NoRun, UiRun
<1>4. Sound(db') /\ Follows(db, db')
  BY <1>1, SameTables
<1>5. ui' \in Ui /\ ui'.home = ListAllProfiles(db') /\ ui'.run.entry = None /\ ui'.form = None
  <2> DEFINE v == Refreshed(db)
  <2>1. v \in Ui /\ v.home = ListAllProfiles(db)
    BY RefreshedUi DEF ShelfInv
  <2> HIDE DEF v
  <2>2. ui' = [v EXCEPT !.form = None, !.run = NoRun]
    BY <1>1 DEF v
  <2> QED BY <1>1, <1>3, <2>1, <2>2 DEF Ui
<1>6. Shown'
  BY <1>4, <1>5, ShownOn
<1> QED BY <1>1, <1>2, <1>3, <1>4, <1>5, <1>6 DEF Upheld, ShelfInv

-----------------------------------------------------------------------------
(* The whole. *)

LEMMA LibraryInitially ==
    ASSUME LibraryInit
    PROVE  ShelfInv
<1> DEFINE d == [dirs |-> Root, models |-> {}, profiles |-> {}, recents |-> {}, engines |-> Engine,
                 nextModel |-> 1, nextProfile |-> 1]
<1>1. /\ db = WithRows(d, File) /\ disk = [content |-> [f \in File |-> "good"], folder |-> [r \in Root |-> "open"]]
      /\ sync = [s \in Sync |-> NoSync] /\ import = NoImport
      /\ ui = [home |-> {}, dirs |-> Root, form |-> None, run |-> NoRun]
  BY DEF LibraryInit
<1>2. Sound(d)
  <2>1. d \in Table /\ d.models = {} /\ d.profiles = {}
    BY DEF Table
  <2> QED BY <2>1 DEF Sound, Numbered
<1> HIDE DEF d
<1>3. Sound(db)
  BY <1>1, <1>2, WithRowsSound
<1>4. disk \in Disk
  BY <1>1 DEF Disk
<1>5. sync \in [Sync -> SyncState] /\ \A s \in Sync : ScanOf(sync[s], disk)
  BY <1>1, IdleScan DEF ScanOf
<1>6. import \in Import
  BY <1>1 DEF NoImport, Import
<1>7. NoRun \in UiRun /\ NoRun.entry = None
  BY DEF NoRun, UiRun
<1>8. ui \in Ui /\ ui.home = {} /\ ui.run.entry = None /\ ui.form = None
  BY <1>1, <1>7 DEF Ui
<1>9. Shown
  BY <1>8 DEF Shown
<1> QED BY <1>3, <1>4, <1>5, <1>6, <1>8, <1>9 DEF ShelfInv

LEMMA LibraryStep ==
    ASSUME ShelfInv, [LibraryNext]_libraryVars
    PROVE  Upheld
<1>1. CASE UNCHANGED libraryVars
  BY <1>1, SameTables, ScansOn DEF libraryVars, Upheld, ShelfInv
<1>2. CASE LibraryNext
  <2>1. ASSUME NEW s \in Sync, ApplySync(s) \/ SyncDone(s) \/ StartSync(s)
        PROVE  Upheld
    BY <2>1, ApplySyncHolds, SyncDoneHolds, StartSyncHolds
  <2>2. ASSUME NEW s \in Sync, NEW r \in Root, ScanRoot(s, r) \/ LoadMetadata(s, r)
        PROVE  Upheld
    BY <2>2, ScanRootHolds, LoadMetadataHolds
  <2>3. ASSUME NEW f \in File, AddModel(f) \/ AddSource(f) \/ FileChanges(f)
        PROVE  Upheld
    BY <2>3, AddModelHolds, AddSourceHolds, FileChangesHolds
  <2>4. ASSUME NEW r \in Root, RemoveFolder(r) \/ FolderChanges(r)
        PROVE  Upheld
    BY <2>4, RemoveFolderHolds, FolderChangesHolds
  <2>5. ASSUME NEW r \in Root, NEW files \in SUBSET File, Browse(r, files)
        PROVE  Upheld
    BY <2>5, BrowseHolds
  <2>6. ASSUME NEW r \in Root, NEW f \in File, NEW repo \in Repo, Download(r, f, repo)
        PROVE  Upheld
    BY <2>6, DownloadHolds
  <2>7. ASSUME NEW e \in Engine, ChangeEngines(e)
        PROVE  Upheld
    BY <2>7, ChangeEnginesHolds
  <2>8. ASSUME NEW id \in Models(db), OpenForm(id)
        PROVE  Upheld
    BY <2>8, OpenFormHolds
  <2>9. ASSUME NEW name \in Name, NEW e \in Engine, NEW draft \in Models(db) \cup {None},
               SaveProfile(name, e, draft)
        PROVE  Upheld
    BY <2>9, SaveProfileHolds
  <2>10. ASSUME NEW x \in ui.home, DeleteProfile(x) \/ LaunchEntry(x)
         PROVE  Upheld
    BY <2>10, DeleteProfileHolds, LaunchHolds
  <2>11. ASSUME RegisterDir \/ ImportDone \/ CloseWizard \/ CloseForm \/ RunEnds \/ RestartRun \/ StartAgain
         PROVE  Upheld
    BY <2>11, RegisterDirHolds, ImportDoneHolds, CloseWizardHolds, CloseFormHolds, RunHolds, StartAgainHolds
  <2> QED
    BY <1>2, <2>1, <2>2, <2>3, <2>4, <2>5, <2>6, <2>7, <2>8, <2>9, <2>10, <2>11 DEF LibraryNext, Background
<1> QED BY <1>1, <1>2

\* Only the end of a sync ends one with its rows written.
LEMMA OnlyApply ==
    ASSUME ShelfInv, [LibraryNext]_libraryVars, NEW s \in Sync, Applies(s)
    PROVE  db' = SyncPerRoot(db, sync[s].found) /\ sync[s].todo = {}
<1> DEFINE Goal == db' = SyncPerRoot(db, sync[s].found) /\ sync[s].todo = {}
<1>0. /\ sync[s].at = "loading" /\ sync'[s].at = "done" /\ sync[s] \in SyncState
      /\ sync \in [Sync -> SyncState] /\ NoSync \in SyncState
  BY IdleScan DEF Applies, ShelfInv
<1>1. ASSUME UNCHANGED sync PROVE FALSE
  BY <1>0, <1>1
<1>2. ASSUME NEW q \in Sync, ApplySync(q) PROVE Goal
  <2>1. CASE q = s
    <3>1. \A at \in {"failed"} : sync' = [sync EXCEPT ![s] = [NoSync EXCEPT !.at = at]] => sync'[s].at = at
      BY <1>0, IdleScan
    <3> QED BY <1>0, <1>2, <2>1, <3>1 DEF ApplySync
  <2>2. CASE q # s
    <3>1. sync'[s] = sync[s]
      BY <1>0, <1>2, <2>2 DEF ApplySync
    <3> QED BY <1>0, <3>1
  <2> QED BY <2>1, <2>2
<1>3. ASSUME NEW q \in Sync, SyncDone(q) \/ StartSync(q) PROVE FALSE
  <2>1. sync[q].at # "loading" /\ \E t : sync' = [sync EXCEPT ![q] = t]
    BY <1>3 DEF SyncDone, StartSync
  <2>2. q # s
    BY <1>0, <2>1
  <2>3. sync'[s] = sync[s]
    BY <1>0, <2>1, <2>2
  <2> QED BY <1>0, <2>3
<1>4. ASSUME NEW q \in Sync, NEW r \in Root, ScanRoot(q, r) \/ LoadMetadata(q, r) PROVE FALSE
  <2>1. CASE q # s
    <3>1. \E t : sync' = [sync EXCEPT ![q] = t]
      BY <1>4 DEF ScanRoot, LoadMetadata
    <3>2. sync'[s] = sync[s]
      BY <1>0, <2>1, <3>1
    <3> QED BY <1>0, <3>2
  <2>2. CASE q = s
    <3>1. LoadMetadata(s, r)
      BY <1>0, <1>4, <2>2 DEF ScanRoot
    <3>2. sync' = [sync EXCEPT ![s].todo = @ \ {r}, ![s].found[r] = {f \in @ : Readable(f)}]
      BY <3>1 DEF LoadMetadata
    <3>3. sync'[s].at = sync[s].at
      BY <1>0, <3>2 DEF SyncState
    <3> QED BY <1>0, <3>3
  <2> QED BY <2>1, <2>2
<1>5. ASSUME NEW files, sync' = Disturbed(files) PROVE FALSE
  <2>1. sync'[s] = [sync[s] EXCEPT !.steady = @ \ files, !.still = FALSE]
    BY <1>5 DEF Disturbed
  <2>2. sync'[s].at = sync[s].at
    BY <1>0, <2>1 DEF SyncState
  <2> QED BY <1>0, <2>2
<1>6. ASSUME sync' = [q \in Sync |-> NoSync] PROVE FALSE
  BY <1>0, <1>6, IdleScan
<1> SUFFICES ASSUME ~Goal PROVE FALSE
  OBVIOUS
<1> HIDE DEF Goal
<1>7. LibraryNext
  BY <1>1 DEF libraryVars
<1>8. ASSUME NEW f \in File, AddModel(f) \/ AddSource(f) \/ FileChanges(f) PROVE FALSE
  BY <1>1, <1>5, <1>8 DEF AddModel, AddSource, FileChanges, Moved
<1>9. ASSUME NEW r \in Root, RemoveFolder(r) \/ FolderChanges(r) PROVE FALSE
  BY <1>1, <1>5, <1>9 DEF RemoveFolder, FolderChanges, Moved
<1>10. ASSUME NEW r \in Root, NEW files \in SUBSET File, Browse(r, files) PROVE FALSE
  BY <1>1, <1>10 DEF Browse
<1>11. ASSUME NEW r \in Root, NEW f \in File, NEW repo \in Repo, Download(r, f, repo) PROVE FALSE
  BY <1>5, <1>11 DEF Download
<1>12. ASSUME NEW e \in Engine, ChangeEngines(e) PROVE FALSE
  BY <1>1, <1>12 DEF ChangeEngines
<1>13. ASSUME NEW id \in Models(db), OpenForm(id) PROVE FALSE
  BY <1>1, <1>13 DEF OpenForm
<1>14. ASSUME NEW name \in Name, NEW e \in Engine, NEW draft \in Models(db) \cup {None},
              SaveProfile(name, e, draft) PROVE FALSE
  BY <1>1, <1>14 DEF SaveProfile
<1>15. ASSUME NEW x \in ui.home, DeleteProfile(x) \/ LaunchEntry(x) PROVE FALSE
  BY <1>1, <1>15 DEF DeleteProfile, LaunchEntry
<1>16. ASSUME RegisterDir \/ ImportDone \/ CloseWizard \/ CloseForm \/ RunEnds \/ RestartRun PROVE FALSE
  BY <1>1, <1>16 DEF RegisterDir, ImportDone, CloseWizard, CloseForm, RunEnds, RestartRun
<1>17. ASSUME StartAgain PROVE FALSE
  BY <1>6, <1>17 DEF StartAgain
<1> QED
  BY <1>2, <1>3, <1>4, <1>7, <1>8, <1>9, <1>10, <1>11, <1>12, <1>13, <1>14, <1>15, <1>16, <1>17
  DEF LibraryNext, Background

\* Only a launch or a restart brings a run up.
LEMMA OnlyLaunch ==
    ASSUME ShelfInv, [LibraryNext]_libraryVars, ui'.run.up, ~ui.run.up
    PROVE  /\ BuildRunSpec(ui'.run.entry)
           /\ ui'.run.entry \in ui.home \/ (ui.run.entry # None /\ ui'.run.entry = ui.run.entry)
<1> DEFINE Goal == /\ BuildRunSpec(ui'.run.entry)
                   /\ ui'.run.entry \in ui.home \/ (ui.run.entry # None /\ ui'.run.entry = ui.run.entry)
<1>0. ui \in Ui /\ ui.run \in UiRun
  BY DEF ShelfInv, Ui
<1>1. ASSUME UNCHANGED ui PROVE FALSE
  BY <1>1
<1>2. ASSUME NEW d, ui' = Refreshed(d) PROVE FALSE
  <2>1. ui'.run = ui.run
    BY <1>0, <1>2 DEF Refreshed, Ui
  <2> QED BY <2>1
<1>3. ASSUME NEW x, ui' = [ui EXCEPT !.form = x] PROVE FALSE
  <2>1. ui'.run = ui.run
    BY <1>0, <1>3 DEF Ui
  <2> QED BY <2>1
<1>4. ASSUME NEW d, ui' = [Refreshed(d) EXCEPT !.form = None] PROVE FALSE
  <2>1. ui'.run = ui.run
    BY <1>0, <1>4 DEF Refreshed, Ui
  <2> QED BY <2>1
<1>5. ASSUME NEW d, NEW x, ui' = [Refreshed(d) EXCEPT !.run = x] PROVE ui'.run = x
  BY <1>0, <1>5 DEF Refreshed, Ui
<1>6. ASSUME NEW x \in ui.home, LaunchEntry(x) PROVE Goal
  <2>1. ui'.run = [entry |-> x, up |-> TRUE] /\ BuildRunSpec(x)
    BY <1>5, <1>6 DEF LaunchEntry
  <2> QED BY <2>1
<1>7. ASSUME RestartRun PROVE Goal
  <2>1. ui' = [ui EXCEPT !.run.up = TRUE] /\ ui.run.entry # None /\ BuildRunSpec(ui.run.entry)
    BY <1>7 DEF RestartRun
  <2>2. ui'.run.entry = ui.run.entry
    BY <1>0, <2>1 DEF Ui, UiRun
  <2> QED BY <2>1, <2>2
<1>8. ASSUME RunEnds PROVE FALSE
  <2>1. ui'.run.up = FALSE
    BY <1>0, <1>8 DEF RunEnds, Ui, UiRun
  <2> QED BY <2>1
<1>9. ASSUME StartAgain PROVE FALSE
  <2>1. ui' = [Refreshed(db) EXCEPT !.form = None, !.run = NoRun]
    BY <1>9 DEF StartAgain
  <2>2. ui'.run = NoRun
    BY <1>0, <2>1 DEF Refreshed, Ui
  <2> QED BY <2>2 DEF NoRun
<1> SUFFICES ASSUME ~Goal PROVE FALSE
  OBVIOUS
<1> HIDE DEF Goal
<1>10. LibraryNext
  BY <1>1 DEF libraryVars
<1>11. ASSUME NEW s \in Sync, ApplySync(s) \/ SyncDone(s) \/ StartSync(s) PROVE FALSE
  BY <1>1, <1>2, <1>11 DEF ApplySync, SyncDone, StartSync
<1>12. ASSUME NEW s \in Sync, NEW r \in Root, ScanRoot(s, r) \/ LoadMetadata(s, r) PROVE FALSE
  BY <1>1, <1>12 DEF ScanRoot, LoadMetadata
<1>13. ASSUME NEW f \in File, AddModel(f) \/ AddSource(f) \/ FileChanges(f) PROVE FALSE
  BY <1>1, <1>13 DEF AddModel, AddSource, FileChanges, Moved
<1>14. ASSUME NEW r \in Root, RemoveFolder(r) \/ FolderChanges(r) PROVE FALSE
  BY <1>1, <1>2, <1>14 DEF RemoveFolder, FolderChanges, Moved
<1>15. ASSUME NEW r \in Root, NEW files \in SUBSET File, Browse(r, files) PROVE FALSE
  BY <1>1, <1>15 DEF Browse
<1>16. ASSUME NEW r \in Root, NEW f \in File, NEW repo \in Repo, Download(r, f, repo) PROVE FALSE
  BY <1>1, <1>16 DEF Download
<1>17. ASSUME NEW e \in Engine, ChangeEngines(e) PROVE FALSE
  BY <1>2, <1>17 DEF ChangeEngines
<1>18. ASSUME NEW id \in Models(db), OpenForm(id) PROVE FALSE
  BY <1>3, <1>18 DEF OpenForm
<1>19. ASSUME NEW name \in Name, NEW e \in Engine, NEW draft \in Models(db) \cup {None},
              SaveProfile(name, e, draft) PROVE FALSE
  BY <1>4, <1>19 DEF SaveProfile
<1>20. ASSUME NEW x \in ui.home, DeleteProfile(x) PROVE FALSE
  BY <1>2, <1>20 DEF DeleteProfile
<1>21. ASSUME RegisterDir \/ ImportDone \/ CloseWizard \/ CloseForm PROVE FALSE
  BY <1>1, <1>2, <1>3, <1>21 DEF RegisterDir, ImportDone, CloseWizard, CloseForm
<1> QED
  BY <1>6, <1>7, <1>8, <1>9, <1>10, <1>11, <1>12, <1>13, <1>14, <1>15, <1>16, <1>17, <1>18, <1>19, <1>20, <1>21
  DEF LibraryNext, Background

-----------------------------------------------------------------------------
(* What the steps keep. *)

LEMMA SteadyStep ==
    ASSUME ShelfInv, [LibraryNext]_libraryVars, NEW s \in Sync, Applies(s),
           NEW m \in db.models, m.file \in sync[s].steady
    PROVE  m \in db'.models
<1> DEFINE found == sync[s].found
<1>1. db' = SyncPerRoot(db, found) /\ sync[s].at = "loading"
  BY OnlyApply DEF Applies
<1>2. /\ Sound(db) /\ sync[s] \in SyncState /\ ScanOf(sync[s], disk) /\ m.file \in File
      /\ \A r \in DOMAIN found : found[r] \subseteq File
  BY FoundParts DEF ShelfInv, Sound, Table, ModelRow, SyncState
<1>3. Exists(m.file) /\ (Folder[m.file] \in DOMAIN found => m.file \in found[Folder[m.file]])
  BY <1>1, <1>2 DEF ScanOf, GoodFile, Exists
<1> HIDE DEF found
<1> QED BY <1>1, <1>2, <1>3, SyncSound

LEMMA ReflectsStep ==
    ASSUME ShelfInv, [LibraryNext]_libraryVars, NEW s \in Sync, Applies(s), sync[s].still,
           NEW r \in DOMAIN sync[s].found
    PROVE  Rows(db', r) = {f \in File : Folder[f] = r /\ Readable(f)}
<1> DEFINE found == sync[s].found
<1>1. db' = SyncPerRoot(db, found) /\ sync[s].at = "loading" /\ sync[s].todo = {}
  BY OnlyApply DEF Applies
<1>2. /\ Sound(db) /\ sync[s] \in SyncState /\ ScanOf(sync[s], disk)
      /\ \A q \in DOMAIN found : found[q] \subseteq File
  BY FoundParts DEF ShelfInv, Sound, SyncState
<1>3. found[r] = {f \in File : Folder[f] = r /\ Readable(f)}
  <2>1. found[r] = {f \in There(disk, r) : GoodFile(disk, f)}
    BY <1>1, <1>2 DEF ScanOf
  <2> HIDE DEF found
  <2> QED BY <2>1 DEF There, GoodFile, Readable
<1>4. \A q \in DOMAIN found : \A f \in found[q] : Folder[f] = q
  BY <1>1, <1>2 DEF ScanOf
<1> HIDE DEF found
<1>5. /\ \A m \in db'.models : Folder[m.file] \in DOMAIN found => m.file \in UNION {found[q] : q \in DOMAIN found}
      /\ \A q \in DOMAIN found : found[q] \subseteq {m.file : m \in db'.models}
  BY <1>1, <1>2, SyncSound
<1>6. r \in DOMAIN found
  BY DEF found
<1>7. ASSUME NEW f \in Rows(db', r)
      PROVE  f \in found[r]
  <2>1. PICK m \in db'.models : Folder[m.file] = r /\ f = m.file
    BY <1>7 DEF Rows
  <2>2. PICK q \in DOMAIN found : f \in found[q]
    BY <1>5, <1>6, <2>1
  <2> QED BY <1>4, <2>1, <2>2
<1>8. ASSUME NEW f \in found[r]
      PROVE  f \in Rows(db', r)
  <2>1. PICK m \in db'.models : m.file = f
    BY <1>5, <1>6
  <2>2. Folder[f] = r
    BY <1>4, <1>6
  <2> QED BY <2>1, <2>2 DEF Rows
<1> QED BY <1>3, <1>7, <1>8

LEMMA SourceStep ==
    ASSUME ShelfInv, Upheld, NEW m \in db.models, NEW n \in db'.models,
           m.id = n.id, m.source # None
    PROVE  n.source # None
<1>1. /\ Numbered(db) /\ Follows(db, db') /\ m.id \in Nat /\ m.id < db.nextModel /\ db.nextModel \in Nat
  BY DEF ShelfInv, Sound, Table, ModelRow, Numbered, Upheld
<1>2. PICK k \in db.models : k.id = n.id /\ (k.source # None => n.source # None)
  BY <1>1 DEF Follows
<1> QED BY <1>1, <1>2 DEF Numbered

LEMMA LaunchStep ==
    ASSUME ShelfInv, [LibraryNext]_libraryVars, ui'.run.up, ~ui.run.up
    PROVE  LET p == ui'.run.entry.profile IN
           /\ p.engine \in db.engines
           /\ p.drafts => p.draft \in Models(db) /\ FileOf(db, p.draft) = p.with
<1> DEFINE x == ui'.run.entry
           p == x.profile
<1>1. /\ BuildRunSpec(x)
      /\ x \in ui.home \/ (ui.run.entry # None /\ x = ui.run.entry)
  BY OnlyLaunch
<1>2. Drafted(db, p) /\ Numbered(db)
  BY <1>1 DEF ShelfInv, Shown, Sound
<1> HIDE DEF x
<1> HIDE DEF p
<1>3. p.engine \in db.engines /\ (p.drafts => p.draft \in Models(db))
  BY <1>1 DEF BuildRunSpec, DraftResolved, p
<1>4. ASSUME p.drafts
      PROVE  FileOf(db, p.draft) = p.with
  <2>1. PICK m \in db.models : m.id = p.draft
    BY <1>3, <1>4 DEF Models
  <2>2. FileOf(db, p.draft) = m.file
    BY <1>2, <2>1, FileOfRow
  <2> QED BY <1>2, <1>4, <2>1, <2>2 DEF Drafted
<1> QED BY <1>3, <1>4 DEF x, p

LEMMA LibraryHolds == LibrarySpec => []ShelfInv
<1>1. LibraryInit => ShelfInv
  BY LibraryInitially
<1>2. ShelfInv /\ [LibraryNext]_libraryVars => ShelfInv'
  BY LibraryStep DEF Upheld
<1> QED BY <1>1, <1>2, PTL DEF LibrarySpec

\* What a person chose is kept through scans, imports and downloads: the rows of
\* files that were readable when a sync began and stayed so, where they came from,
\* the engines of profiles and what a launch takes (db.go SyncPerRoot, UpsertModel and DeleteInferenceEngine,
\* service.go BuildRunSpec, app.go restartRun).
THEOREM RowsAreKept == LibrarySpec => RowsKept
<1>1. LibrarySpec => []ShelfInv
  BY LibraryHolds
<1>2. ShelfInv /\ [LibraryNext]_libraryVars => [\A s \in Sync : Applies(s) =>
         \A m \in db.models : m.file \in sync[s].steady => m \in db'.models]_libraryVars
  BY SteadyStep
<1>3. ShelfInv /\ [LibraryNext]_libraryVars => [\A m \in db.models, n \in db'.models :
         m.id = n.id /\ m.source # None => n.source # None]_libraryVars
  <2>1. ASSUME ShelfInv, [LibraryNext]_libraryVars PROVE Upheld
    BY <2>1, LibraryStep
  <2> QED BY <2>1, SourceStep
<1>4. ShelfInv => EnginesKept
  BY DEF ShelfInv, Sound, EnginesKept
<1>5. ShelfInv /\ [LibraryNext]_libraryVars => [ui'.run.up /\ ~ui.run.up =>
         LET p == ui'.run.entry.profile IN
         /\ p.engine \in db.engines
         /\ p.drafts => p.draft \in Models(db) /\ FileOf(db, p.draft) = p.with]_libraryVars
  BY LaunchStep
<1>6. LibrarySpec => SteadyKept
  BY <1>1, <1>2, PTL DEF LibrarySpec, SteadyKept
<1>7. LibrarySpec => SourceKept
  BY <1>1, <1>3, PTL DEF LibrarySpec, SourceKept
<1>8. LibrarySpec => []EnginesKept
  BY <1>1, <1>4, PTL
<1>9. LibrarySpec => LaunchedAsSaved
  BY <1>1, <1>5, PTL DEF LibrarySpec, LaunchedAsSaved
<1> QED BY <1>6, <1>7, <1>8, <1>9 DEF RowsKept

\* When the disk stood still during a sync, the folders it could list have
\* exactly their readable files as models after it, whatever imports, removals
\* and other syncs did meanwhile (service.go SyncModelsWithContext, db.go
\* SyncPerRoot).
THEOREM SyncsReflectTheDisk == LibrarySpec => SyncReflectsDisk
<1>1. LibrarySpec => []ShelfInv
  BY LibraryHolds
<1>2. ShelfInv /\ [LibraryNext]_libraryVars => [\A s \in Sync : Applies(s) /\ sync[s].still =>
         \A r \in DOMAIN sync[s].found : Rows(db', r) = {f \in File : Folder[f] = r /\ Readable(f)}]_libraryVars
  BY ReflectsStep
<1> QED BY <1>1, <1>2, PTL DEF LibrarySpec, SyncReflectsDisk
=============================================================================
