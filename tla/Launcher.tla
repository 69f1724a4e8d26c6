--------------------------- MODULE Launcher ---------------------------
(* Inference servers run from the terminal UI: the process and its       *)
(* readers (internal/runner/server.go), what the UI shows of it          *)
(* (tui/server.go), the store of runs (tui/runs.go) and the messages and *)
(* keys of AppModel (tui/app.go).  Bubble Tea handles one message at a   *)
(* time; the goroutine a handler returns sends its message whenever it   *)
(* likes.                                                                *)
EXTENDS Naturals, Sequences

CONSTANTS Profile,
          Port,         \* ports tried, from the profiles' own port up
          PipeCapacity, \* lines the process may write ahead of the scanner
          LogCapacity,  \* lines logCh holds
          MaxStarts,    \* bound: launches and restarts
          Budgets,      \* bound: [starts, lines, resizes], what a behaviour
                        \* launches and restarts, writes, resizes
          Lines,        \* bound: which of "line" and "long" are written
          Foreign       \* sets of ports other programs may hold

ASSUME LauncherAssumption ==
    /\ Port \subseteq Nat /\ Foreign \subseteq SUBSET Port
    /\ {PipeCapacity, LogCapacity} \subseteq Nat \ {0}
    /\ MaxStarts \in Nat
    /\ Budgets \subseteq [starts : 0..MaxStarts, lines : Nat, resizes : Nat]
    /\ Lines \subseteq {"line", "long"}

VARIABLES app,     \* "on", "leaving" after tea.Quit, "off"
          screen,  \* "home" or "logs" (screenServerRunning)
          armed,   \* quitArmed
          pending, \* message of a runs or profiles tab on its way
          runs,    \* the store, by RunID
          term,    \* [window, size, told]: the terminal, a.width and
                   \* a.height, and whether a WindowSizeMsg is on its way
          budget   \* [starts, lines, resizes] left
vars == <<app, screen, armed, pending, runs, term, budget>>

Nothing == [kind |-> "nothing", on |-> 0]
Asked(kind, on) == [kind |-> kind, on |-> on]

(* A run and its process.  pipe is what the scanner has not read; logq   *)
(* the lines in logCh; over says that cmd.Wait has returned: the write   *)
(* end is closed and the result is in exitCh.  ticks are the grace       *)
(* timers of Stop that have not fired.                                   *)
Started(p, port) ==
    [profile |-> p, port |-> port, status |-> "running", proc |-> "starting",
     pipe |-> <<>>, scanner |-> "scanning", logq |-> 0, over |-> FALSE,
     listener |-> "waiting", ticks |-> 0]

Up(r) == r.proc \in {"starting", "serving"}
Active(r) == r.status \in {"running", "stopping"}
Stored == {i \in DOMAIN runs : runs[i].status # "removed"}
ActiveRuns == {i \in Stored : Active(runs[i])}
Set(i, r) == runs' = [runs EXCEPT ![i] = r]

Init ==
    /\ app = "on" /\ screen = "home" /\ armed = FALSE
    /\ pending = Nothing /\ runs = <<>>
    /\ term = [window |-> "fits", size |-> "fits", told |-> FALSE]
    /\ budget \in Budgets

(* Update ignores every message while the home screen is open and the    *)
(* stored size is too small.                                             *)
Deaf == screen = "home" /\ term.size = "small"

-----------------------------------------------------------------------
(* The process and the runner.                                           *)

(* The server binds its port some time after it has started.             *)
Serve(i) ==
    /\ runs[i].proc = "starting"
    /\ Set(i, [runs[i] EXCEPT !.proc = "serving"])
    /\ UNCHANGED <<app, screen, armed, pending, term, budget>>

(* A line goes through the pipe of exec.Cmd and the copying goroutine;   *)
(* a long one does not fit the scanner's buffer of 64 KiB.               *)
Write(i) ==
    /\ Up(runs[i]) /\ Len(runs[i].pipe) < PipeCapacity
    /\ budget.lines > 0
    /\ \E l \in Lines : Set(i, [runs[i] EXCEPT !.pipe = Append(@, l)])
    /\ budget' = [budget EXCEPT !.lines = @ - 1]
    /\ UNCHANGED <<app, screen, armed, pending, term>>

(* It ends by itself, or on the SIGTERM of Stop, which it may ignore.    *)
Exit(i) ==
    /\ Up(runs[i])
    /\ Set(i, [runs[i] EXCEPT !.proc = "exited"])
    /\ UNCHANGED <<app, screen, armed, pending, term, budget>>

(* The scanner sends a line to logCh and blocks while that is full.  On  *)
(* a line that is too long it stops and closes logCh: nobody reads the   *)
(* io.Pipe again, and the copying goroutine blocks on what is left.      *)
Scanned(r) ==
    CASE r.scanner = "scanning" /\ r.pipe = <<>> /\ r.over -> {[r EXCEPT !.scanner = "ended"]}
      [] r.scanner = "scanning" /\ r.pipe # <<>> /\ Head(r.pipe) = "long" ->
            {[r EXCEPT !.scanner = "gaveup", !.pipe = rest] : rest \in {r.pipe, Tail(r.pipe)}}
      [] r.scanner = "scanning" /\ r.pipe # <<>> /\ Head(r.pipe) # "long" /\ r.logq < LogCapacity ->
            {[r EXCEPT !.pipe = Tail(@), !.logq = @ + 1]}
      [] OTHER -> {}
Scan(i) ==
    /\ \E r \in Scanned(runs[i]) : Set(i, r)
    /\ UNCHANGED <<app, screen, armed, pending, term, budget>>

(* cmd.Wait returns when the process has ended and all it wrote is       *)
(* copied; then the pipe is closed and the result sent.                  *)

WaitReturns(r) == ~Up(r) /\ ~r.over /\ r.pipe = <<>>

Wait(i) ==
    /\ WaitReturns(runs[i])
    /\ Set(i, [runs[i] EXCEPT !.over = TRUE])
    /\ UNCHANGED <<app, screen, armed, pending, term, budget>>

(* The command of listenForLog: the next line, or the result when logCh  *)
(* is closed and drained.                                                *)
ListeningEither(r) ==
    CASE r.listener = "waiting" /\ r.logq > 0 /\ ~r.over -> {[r EXCEPT !.logq = @ - 1, !.listener = "line"]}
      [] r.listener = "waiting" /\ r.over -> {[r EXCEPT !.listener = "exit"]}
      [] OTHER -> {}

Listening(r) ==
    CASE r.listener = "waiting" /\ r.logq > 0 -> {[r EXCEPT !.logq = @ - 1, !.listener = "line"]}
      [] r.listener = "waiting" /\ r.logq = 0 /\ r.scanner # "scanning" /\ r.over ->
            {[r EXCEPT !.listener = "exit"]}
      [] OTHER -> {}

Listen(i) ==
    /\ \E r \in Listening(runs[i]) : Set(i, r)
    /\ UNCHANGED <<app, screen, armed, pending, term, budget>>

-----------------------------------------------------------------------
(* Messages of a run, handled by Update.  A logLineMsg listens again, a  *)
(* serverExitMsg ends the run.  A message that comes while Update is     *)
(* deaf is gone, and with it the listener.                               *)
Delivered(r) ==
    CASE Deaf -> [r EXCEPT !.listener = "lost"]
      [] ~Deaf /\ r.listener = "line" -> [r EXCEPT !.listener = "waiting"]
      [] OTHER -> [r EXCEPT !.listener = "done", !.status = "stopped"]
Deliver(i) ==
    /\ app # "off" /\ runs[i].listener \in {"line", "exit"}
    /\ Set(i, Delivered(runs[i]))
    /\ UNCHANGED <<app, screen, armed, pending, term, budget>>

(* ServerModel.Stop: SIGTERM and the grace timer.                        *)
StopServerUntimed(r) == IF r.status # "running" THEN r ELSE [r EXCEPT !.status = "stopping"]

StopServer(r) ==
    IF r.status # "running" THEN r
    ELSE [r EXCEPT !.status = "stopping", !.ticks = @ + 1]

(* ServerModel.ForceKill: SIGKILL to the process group.                  *)
ForceKill(r) ==
    IF r.status = "stopped" \/ ~Up(r) THEN r ELSE [r EXCEPT !.proc = "killed"]

(* stopTimeoutMsg: the five seconds of some Stop of the run are over.    *)
TimedOut(r) == IF r.status = "stopping" THEN ForceKill(r) ELSE r

StopTimeout(i) ==
    /\ app # "off" /\ runs[i].ticks > 0
    /\ LET r == [runs[i] EXCEPT !.ticks = @ - 1]
       IN  Set(i, IF Deaf THEN r ELSE TimedOut(r))
    /\ UNCHANGED <<app, screen, armed, pending, term, budget>>

-----------------------------------------------------------------------
(* Launching and restarting.                                             *)

(* pickRunPort: the first port that no active run has and that can be    *)
(* listened on.                                                          *)
OccupiedPorts == {runs[i].port : i \in ActiveRuns}

PickRunPort(foreign) ==
    LET served == {runs[i].port : i \in {j \in Stored : runs[j].proc = "serving"}}
        free == Port \ (OccupiedPorts \cup foreign \cup served)
    IN  {q \in free : \A o \in free : q <= o}

Start == budget.starts > 0 /\ budget' = [budget EXCEPT !.starts = @ - 1]

(* launchRun: one active run of a profile; BuildRunSpec, the port and    *)
(* the start of the process may fail.                                    *)
Launch(p) ==
    /\ screen' = "home"
    /\ IF \E i \in ActiveRuns : runs[i].profile = p
       THEN UNCHANGED <<runs, budget>>
       ELSE \/ \E foreign \in Foreign : \E q \in PickRunPort(foreign) :
                  runs' = Append(runs, Started(p, q)) /\ Start
            \/ UNCHANGED <<runs, budget>>

(* restartRun: of a stopped run, under its RunID.  Timers of the earlier *)
(* process stay.                                                         *)
Restart(i) ==
    IF runs[i].status # "stopped" THEN UNCHANGED <<runs, budget>>
    ELSE \/ \E foreign \in Foreign : \E q \in PickRunPort(foreign) :
               /\ Set(i, [Started(runs[i].profile, q) EXCEPT !.ticks = runs[i].ticks])
               /\ Start
         \/ UNCHANGED <<runs, budget>>

(* RemoveStopped.  A timer of a run that is gone does nothing.           *)
RemoveStopped(i) ==
    /\ IF runs[i].status # "stopped" THEN UNCHANGED runs
       ELSE Set(i, [Started(runs[i].profile, 0) EXCEPT !.status = "removed", !.proc = "exited",
                                                      !.listener = "done"])
    /\ UNCHANGED budget

-----------------------------------------------------------------------
(* Keys.  A key of a tab becomes a message, handled later; one of the    *)
(* logs screen acts on the active run, which [ and ] choose.             *)

Press ==
    /\ app = "on" /\ ~Deaf /\ screen = "home" /\ pending = Nothing
    /\ \/ \E p \in Profile : pending' = Asked("launch", p)
       \/ \E k \in {"open", "stop", "restart", "remove"} : \E i \in Stored : pending' = Asked(k, i)
    /\ armed' = FALSE
    /\ UNCHANGED <<app, screen, runs, term, budget>>

Do(k, on) ==
    CASE k = "launch" -> Launch(on)
      [] k = "open" -> screen' = "logs" /\ UNCHANGED <<runs, budget>>
      [] k = "stop" -> Set(on, StopServer(runs[on])) /\ UNCHANGED <<screen, budget>>
      [] k = "restart" -> Restart(on) /\ UNCHANGED screen
      [] k = "remove" -> RemoveStopped(on) /\ UNCHANGED screen

Handle ==
    /\ app # "off" /\ pending # Nothing
    /\ pending' = Nothing
    /\ IF Deaf \/ (pending.kind # "launch" /\ pending.on \notin Stored)
       THEN UNCHANGED <<screen, runs, budget>>
       ELSE Do(pending.kind, pending.on)
    /\ UNCHANGED <<app, armed, term>>

LogsKey ==
    /\ app = "on" /\ screen = "logs"
    /\ \/ \E i \in Stored : \E k \in {"stop", "restart"} : Do(k, i)
       \/ screen' = "home" /\ UNCHANGED <<runs, budget>>
    /\ armed' = FALSE
    /\ UNCHANGED <<app, pending, term>>

(* stopAllRuns and forceKillAllRuns.                                     *)
StopAll == [i \in DOMAIN runs |-> IF i \in ActiveRuns THEN StopServer(runs[i]) ELSE runs[i]]
KillRunning == [i \in DOMAIN runs |-> IF runs[i].status = "running" THEN ForceKill(runs[i]) ELSE runs[i]]

KillAll == [i \in DOMAIN runs |-> IF i \in ActiveRuns THEN ForceKill(runs[i]) ELSE runs[i]]

(* q on the home screen, ctrl+c anywhere: the first stops the runs, the  *)
(* second kills them and quits.                                          *)
QuitKey(k) ==
    /\ app = "on" /\ ~Deaf /\ (k = "q" => screen = "home")
    /\ LET quits == armed \/ (k = "q" /\ ActiveRuns = {})
       IN  /\ app' = IF quits THEN "leaving" ELSE "on"
           /\ armed' = IF quits THEN FALSE ELSE TRUE
           /\ runs' = IF armed THEN KillAll ELSE StopAll
    /\ UNCHANGED <<screen, pending, term, budget>>

(* The message of tea.Quit ends the event loop, and infai with its       *)
(* store; a server still up is on its own.                               *)
Leave ==
    /\ app = "leaving"
    /\ app' = "off" /\ screen' = "home" /\ pending' = Nothing /\ runs' = <<>>
    /\ term' = [window |-> "fits", size |-> "fits", told |-> FALSE]
    /\ UNCHANGED <<armed, budget>>

-----------------------------------------------------------------------
(* The window.  On the home screen a size below the minimum is not even  *)
(* stored.                                                               *)
Resize ==
    /\ app = "on" /\ ~term.told /\ budget.resizes > 0
    /\ term' = [term EXCEPT !.window = IF @ = "fits" THEN "small" ELSE "fits", !.told = TRUE]
    /\ budget' = [budget EXCEPT !.resizes = @ - 1]
    /\ UNCHANGED <<app, screen, armed, pending, runs>>

WindowSize ==
    /\ app # "off" /\ term.told
    /\ term' = [term EXCEPT !.told = FALSE,
                            !.size = IF Deaf \/ (screen = "home" /\ term.window = "small")
                                     THEN @ ELSE term.window]
    /\ UNCHANGED <<app, screen, armed, pending, runs, budget>>

-----------------------------------------------------------------------
Process == \E i \in DOMAIN runs : app # "off" /\ (Serve(i) \/ Write(i) \/ Exit(i))
Streams == \E i \in DOMAIN runs : app # "off" /\ (Scan(i) \/ Wait(i) \/ Listen(i) \/ Deliver(i))
Timers == \E i \in DOMAIN runs : StopTimeout(i)
User == Press \/ LogsKey \/ (\E k \in {"q", "ctrl+c"} : QuitKey(k)) \/ Resize
Terminal == Handle \/ Leave \/ WindowSize

Next == Process \/ Streams \/ Timers \/ User \/ Terminal

(* Goroutines run, timers fire and Bubble Tea delivers; neither a user   *)
(* nor a server need do anything.                                        *)
Spec == Init /\ [][Next]_vars /\ WF_vars(Streams) /\ WF_vars(Timers) /\ WF_vars(Terminal)

-----------------------------------------------------------------------
TypeOK ==
    /\ app \in {"on", "leaving", "off"} /\ screen \in {"home", "logs"} /\ armed \in BOOLEAN
    /\ pending = Nothing \/ (pending.kind = "launch" /\ pending.on \in Profile)
                         \/ (pending.kind \in {"open", "stop", "restart", "remove"} /\ pending.on \in DOMAIN runs)
    /\ \A i \in DOMAIN runs :
          /\ runs[i].status \in {"running", "stopping", "stopped", "removed"}
          /\ runs[i].port \in Port \cup {0}
          /\ runs[i].proc \in {"starting", "serving", "exited", "killed"}
          /\ runs[i].scanner \in {"scanning", "ended", "gaveup"}
          /\ runs[i].logq \in 0..LogCapacity /\ Len(runs[i].pipe) <= PipeCapacity
          /\ runs[i].listener \in {"waiting", "line", "exit", "done", "lost"}
    /\ term.window \in {"fits", "small"} /\ term.size \in {"fits", "small"} /\ term.told \in BOOLEAN

(* A run shown as stopped is: its process has ended, and every line it   *)
(* wrote is in the log, but for a last one too long for the scanner.     *)
ReportedIsOver ==
    \A i \in Stored : runs[i].status = "stopped"
        => ~Up(runs[i]) /\ runs[i].logq = 0 /\ runs[i].pipe = <<>>

(* Two servers infai has running never share a port, though neither may  *)
(* be listening yet when the second is started.                          *)
PortsDistinct ==
    \A i, j \in DOMAIN runs : i # j /\ Up(runs[i]) /\ Up(runs[j]) => runs[i].port # runs[j].port

(* What the list shows of a run can be relied on.                        *)
RunsAreTrue == ReportedIsOver /\ PortsDistinct

(* infai kills a server only after asking it to stop in this life, or on *)
(* a second quit key.                                                    *)
GraceBeforeKill ==
    [][\A i \in DOMAIN runs \cap DOMAIN runs' :
          Up(runs[i]) /\ runs'[i].proc = "killed" => runs[i].status = "stopping" \/ app' = "leaving"]_vars

(* A launch or restart on its way to Update, which handles it even after *)
(* tea.Quit was returned, while its own message has not come.            *)
StartsLate == app = "leaving" /\ pending.kind \in {"launch", "restart"}

(* The key that quits leaves no server up, and until infai has ended     *)
(* none comes up again but the one of a launch or restart that was on    *)
(* its way at that key: nobody ends that one.                            *)
NothingLeft ==
    [][app' = "leaving" /\ ~StartsLate =>
          \A i \in DOMAIN runs' :
             Up(runs'[i]) => app = "leaving" /\ i \in DOMAIN runs /\ Up(runs[i])]_vars

(* infai ends its servers in good time, and before it leaves those that  *)
(* were up at the key.                                                   *)
ServersAreEnded == GraceBeforeKill /\ NothingLeft

(* A run that was asked to stop is shown stopped in the end, whatever    *)
(* its server does, unless infai quits, its scanner has given up on a    *)
(* line, or Update is deaf.                                              *)
StopEnds ==
    \A i \in 1..MaxStarts :
        (i \in DOMAIN runs /\ runs[i].status = "stopping")
            ~> \/ app # "on" \/ Deaf
               \/ i \in DOMAIN runs /\ (\/ runs[i].status # "stopping"
                                       \/ runs[i].scanner = "gaveup" \/ runs[i].listener = "lost")

=======================================================================
