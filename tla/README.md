# Verification of infai

infai is two programs in one repository. `infaiw` is an agent harness: an
engine that runs conversations between a user, a model and tools as durable
*sessions*, and terminals that talk to it over HTTP (`src/pkg/agent`). `infai`
is a launcher for local inference servers with a model library, a profile
editor and a model downloader (`src/internal`). This directory holds TLA+
specifications of the parts whose correctness depends on the order of things,
the TLC configurations that check small instances of them, and theorems that
TLAPS proves for every instance.

    tlc -config MCStores.cfg MCStores         # one run
    tlapm TimelineProofs.tla                  # the proofs of one module

`PROJECT.json` is the index: components, runs with their properties, a mutant
of the model for each property that must break it, the source lines behind
every definition, the hazards at their lines, and the theorems.

## The system

| Component | State it keeps | Operations | Modules |
|---|---|---|---|
| session timeline (`store/timeline.go`) | chunk files of JSON lines, `index.jsonl`, `HEAD`, `HEAD.tmp`, blobs; in memory the index, the head, a broken flag | append to the head, branch from an event, read, close, open after a crash | `Timeline`, `EventLog` |
| agent loop (`agent/agent.go`) | working history, what it just read from the mailbox, pending tool calls | take messages, commit, generate, run tools, compact, park | `Session` |
| session (`session/`) | status, event bus, pending approval, active timeline, parent of the next branch, cancellation token | send, cancel, decide an approval, compact, select a branch, close; the hub moves the status | `Session` (partly) |
| event stream of a session (`session/runtime.go`) | subscribers and their queues, in-flight log | join, fan out, evict, leave, release at the end | `Stream` |
| MCP elicitation (`session/elicitation.go`) | pending question | ask, resolve, withdraw | `Stream` |
| delegation (`delegate/`, `comms/`, `engine/`) | inboxes, children of a session, answers collected so far | request a sidecar, confirm, relay its answer, cancel a tree | `Delegation` |
| engine registry, metadata store, HTTP handlers (`engine/engine.go`, `store/session.go`, `server/`) | resident sessions and their directories, `e.mu` | create, load, list, close, delete, chat, shut down | `Registry` (partly) |
| line client (`tui/tui.go`, `tui/remote.go`) | the session it prompts, the reply of a turn | prompt, load, create, delete | `LineClient` |
| engine configuration (`engine/provider.go`, `mcp.go`, `policy.go`, `autostart.go`) | credentials, catalogs, MCP servers, policies, in memory and in `models.json` and `tools.json` | log in and out, refresh, edit, authorize, restart | `Config` (partly) |
| MCP manager (`actuators/mcp.go`, `session/tools.go`) | connections of a session, what each server offers, the server of each tool and resource | connect, list, merge, call, read, close | `Connections` |
| model adaptors (`models/`) | retries of one request, the conversation of the Claude CLI | send, stream, retry, resume, give up | `Models` (partly) |
| terminal client (`tui/chat.go`) | the session shown, its observer, the page over it, calls under way | open, switch, close, delete, answer | `Terminal` (partly) |
| model downloader and wizard (`internal/downloader`, `internal/tui/download.go`) | staged and published files, progress, the step of the wizard | search, choose, download, resume, verify, publish, import | `Download`, `DownloadWizard` |
| runner and launcher (`internal/runner`, `internal/tui`) | child processes, their pipes and logs, the runs | launch, stop, restart, remove, quit | `Launcher` |
| model library (`internal/db`, `backend`, `scanner`) | folders, models, profiles, engines, recents in SQLite | sync, import, edit, launch | `Library` (partly) |
| profiles (`internal/backend`, `memoryfit`, `launcher`, `tui/profileedit.go`) | the form, suggestions under way | edit, suggest, review, save, launch | `ProfileRules`, `ProfileForm` |
| task checklist (`memory/`, `session/tasklist.go`) | the list in memory; its record in the results of calls and in compactions | add, update, set the status, delete, clear; rebuild it from the timeline | `Checklist` |
| tools (files, bash, web), evaluations, prompts, vision, reports, views | | I/O, parsing, presentation | no |

How they interact. A client's call runs on a goroutine of the server. It
changes the session under `s.mu`, and talks over channels to the two
goroutines a session owns, the **agent loop** and the **hub**: the *mailbox*
carries user messages to the loop; *userCancellation* (one slot) a request to
stop the turn; a decision channel of each approval releases a waiting tool
call; and the *event bus* carries what everybody reports to the hub, which
alone moves the status of a live session and fans events out to joined
clients. The loop and compactions append to the timeline outside `s.mu`. The
end of a session is a canceled context every blocking operation looks at.
Sidecars are sessions too; they and their caller talk through the engine, over
bounded inboxes. The engine's maps are guarded by `e.mu`, its configuration by
`providerMu` and `toolsConfigMu`. The terminals of both programs are Bubble
Tea loops: a handler runs to its end, and the goroutine it returns posts its
message whenever it likes, to whatever the screen then shows.

What makes this hard, and the properties it calls for:

* *The timeline* must survive a kill, a power loss or an I/O error between any
  two file operations: nothing acknowledged is lost, HEAD is not older than
  it, everything the index names can be read, and the directory can be opened.
* *Approvals, cancellations and closing* race for the same tool call: it must
  get one decision, its own, and nobody may be left waiting.
* *History exists several times* (timeline, active timeline, working history,
  the CLI's own conversation) and changes in steps: the model must be asked to
  continue what was committed, and what is committed must be what it said.
* *Delegated work* crosses five channels and two locks: an answer must reach
  its own call, and no sidecar may be left behind or keep its caller waiting.
* *Watching clients* join, fall behind and leave: none may miss an event (that
  none sees one twice fails, `StreamTwice`), and a session must not wait for them.
* *The task checklist* is changed when a tool is called and recorded when its
  result is committed: what a reload or a branch rebuilds must be what was there.
* *MCP servers* are connected to, listed and merged in parallel and fail on their
  own: what a session binds must be what it reports, and be closed with it.
* *Requests overlap*: one writer per timeline, no session outlives a shutdown,
  memory and files of the configuration agree, no token is used twice.
* *Downloads and syncs* leave things half done and run beside the user: what
  is published must be what the hub listed, the registry must follow the disk.
* *The terminals* act on answers that arrive late: what is on the screen must
  be the session's, the run's, the profile's it stands for.

## The modules

### Timeline, EventLog

One writer of one session directory. `vis` is what a process sees in the
files, `dur` what a power loss leaves at least; `vis` runs ahead between a
write and its `fsync`. A line of a chunk is a record (event, chunk, newline
present), so that a torn line, a line glued to the unterminated one before it,
and the truncation on open are what the code does, in lines rather than bytes.
`glued` is a ghost: an append was written to the end of a line that parses and
lacks only its newline. Opening keeps such a line (`timeline.go:632-641`), and
what the code does from there on is in the model, but outside the properties
about lines: the two events are lost and the directory is refused.
The phases of `appendFromParentLocked` are actions (`WriteBlob`, `SyncBlob`,
`RotateChunk`, `WriteLine`, `SyncLine`, `PrepareHead`, `AppendIndex`,
`RenameHead`, `FinishAppend`), and so are those of `NewTimeline` (`LoadIndex`,
`ReconcileChunks`, `ReindexOne`, `RecoverHead`, `LoadHead`). `FailAppend` is an
error of the operation at hand with what it may leave behind; `Kill` ends the
process and keeps what was written; `PowerLoss` keeps any prefix of what was
not synced, a part of the first lost line included, and treats the creation
and the rename of `HEAD.tmp` as independent. Events are numbered; a larger
number is a later UUIDv7.

`EventLog` is what the session relies on: stored events stay, the head moves
only to a newer stored event, only an event the head has reached is
acknowledged. `Timeline` implements it with the durable lines as the events and
the durable HEAD as the head (`Refines`).

### Session

One interactive session: agent loop, hub, watchers of cancellations, and one
client call of each kind, interleaved at critical sections of `s.mu`, channel
operations and timeline appends.

| Variable | Code |
|---|---|
| `status`, `ctx`, `bus`, `hub` | `s.status`, `s.ctx`, `s.eventBus`, the goroutine of `handlerForSessionEvents` |
| `mailbox`, `drain` | `AgentMailbox`: the channel and `drainValve` |
| `token`, `watch`, `stale` | `userCancellation`; the goroutine of the running generation or `runTurnCancelable`; such goroutines of earlier ones that still select |
| `approval`, `decision` | `pendingApproval` and its channel |
| `agent` | where `StartLoop` is, with its locals |
| `fold` | `compactChat`, called by the loop (`auto`) or by a client (`manual`) |
| `timeline`, `head`, `branch`, `active`, `working` | committed events, HEAD, `pendingBranchParent`, `activeTimeline`, `workingHistory` |
| `client` | what each client call in progress still has to do |
| `seen` | ghosts and counters of bounds |

Each step of `StartLoop` between two blocking points is an action, named for
what it does, and so is each half of a client call that releases the lock in
between (`EnqueueUserMessage`/`SendMessage`, `CancelTurn`/`PublishResolution`/
`SendDecision`, `SelectBranch`/`SwitchHistory`/`FinishSelect`,
`Close`/`CancelSession`/`FinishClose`, `ManualCompact` and the steps of
`Compactor`).

Abstracted: the events that do not move the status (deltas, tool results,
usage) take no room in the bus, since they only delay the others; the content
of messages; which files a tool touches; elicitations (in `Stream`), sidecars
(in `Delegation`), acceptance scripts and the iteration limit, which an
interactive session would need 2^32 iterations to reach. The timeline is a
sequence here; an append succeeds or fails as a whole, which is what
`Timeline` is about.

### Delegation

An interactive session whose model calls the two delegation tools, the engine
between it and its sidecars, and a client that cancels the turn or closes the
session. `turn` is the caller's loop and tool dispatcher; `inbox`, `engine`,
`mailbox` are the bounded channels; `router` and `spawner` are
`listenForAgentComms` and `spawnSidecar`, goroutines that hold an answer or a
request while a channel is full; `smu` and `mu` say who holds `s.mu` and `e.mu`
across a wait; `linger` stands for handler goroutines of `Unsubscribe`d
inboxes, which may still take a message. Sidecars have the number of their
request, so an answer that reaches another call is seen by its number. What a
sidecar does between its task and its answer is one step, `SidecarEnds`.
`Blocked` says where somebody waits for room: the engine's relay, the handler of
background answers, the closer of a sidecar.

### Stream

The event bus and its hub, the clients attached to a session, and the questions
MCP servers ask through it. `inFlight` is the log a joining client is given,
`queue` and `open` are a subscription, `client` is the handler of join-stream
and what its terminal shows, `ask` an `MCPElicit` call, `closer` is
`CloseWithReason`. One section of the code under `s.mu` is one step. The loop
publishes messages and commits them; statuses are `Session`'s.

### Registry, LineClient

`Registry` is what the engine holds (`active`, `inbox`, `mu`), what is on disk
(`disk`), what each handle to a session is (`session`) and the requests being
served (`call`), step by step between locks, with the status codes of their
handlers. A turn is here the order in which its states and its text reach a
stream: emission and hub are one step (`Session` and `Stream` have the detail),
and closing a session is one step under `e.mu`. Sidecars are those an earlier
life left on disk. `DeleteAlone` says that a delete does not overlap another
request on its tree, which `DeleteSession` does not ensure (see below).

`LineClient` extends it with the line-oriented client (`repl`): the prompt, its
commands, and `Chat`, which joins the stream of a session, sends a message and
reads until the turn is over.

### Config, Connections

What the engine is configured with, in memory (`memory`, `policies`) and in
files (`file`, `tools`), the provider's side of credentials (`web`), requests
at the locks `providerMu`, `toolsConfigMu` and `e.mu` (`call`, `lock`), and the
watcher of catalogs (`watch`). A credential is a number: codex issues a new one
at each login and refresh, and refreshes from each only once. `told` is a ghost:
what successful answers made of `tools.json`. Writing `models.json` may be torn
by a kill, since it is not written atomically. An authorization keeps its lock
while the user is at the browser.

`Connections` is `MCPManager`: `asked` and `offers` say what is configured and
what the servers have, `link` the connection to each, `found` the listing its
goroutines fill in (`todo` are those still under way), `routes`, `readers`,
`kept` and `absent` what `merge` makes of it, `manager` how far the session or
the probe is (`discarded`: the discovery was interrupted, and Close was called
with nothing merged; `dropped`: the session failed to start afterwards), and
`mcpCall` the calls that go over the connections. A tool is the name the model
is given, so that two servers may claim one. `MCConfig` runs it alone, as one
more mix: the manager is made from a copy of the configuration.

### Models

The model calls of one session, by its loop and by a compaction, through four
providers: the Claude CLI, which keeps a conversation of its own (`cli`) that a
later call resumes with the new messages only (`conv`), and three HTTP
adaptors, which send the whole history, retry until the answer begins and
assemble it from the stream. A message is its role and the pieces of its text;
images are part of the text.

### Checklist

The task checklist of a session: `list` is `s.taskChecklist`, changed by the
calls the loop (`agent`) makes one after the other, and recorded only when the
batch of their results is appended (`CommitNext`). An event of `timeline` is its
active context, the records from the last compaction to itself, so that parents
need no variable; `chosen` is `pendingBranchParent`. `Rebuilt` is
`getLatestTaskChecklist`, `Shown` the chat screen's walk over the same records.
Compactions (`folding`), `SelectBranch` (`selecting`), calls that timed out and
still apply their edit (`late`), the end of the session and its reload
interleave with that. Left out: the order and the descriptions of items, edits
the argument checks refuse (`CallFails`), and the report's own walk, which goes
over the events of every branch (`report.go:1043-1044`). Ids of calls are unique.
`overtaken` is a ghost: since the last record the list has changed beside the call
that was to record it. `MCModels` runs it alone, as one more part.

### Download, DownloadWizard

`Download` is `Downloader.Download`: goroutine 0 is `downloadAll`, the others
its workers; `staged` and `published` are the files, `job` the state of the
goroutines, the queue of files and the progress channel of one. A file's
content is the sequence of its chunks, a chunk the version of the remote file
it was read from, so that a mixture of versions is told apart. The snapshot of
the progress is taken with the change it reports. `DownloadWizard` extends it
with the wizard (`ui`), the request to the hub it waits for, the reader of the
channel, and the import; a `Restart` loses all but the files. A wizard is opened
when nothing of an earlier download is under way in the process (a bound).

### Launcher

`runs` is the store of runs with, for each, its process, pipe, scanner, waiter,
log channel and listener; `app`, `screen`, `armed`, `pending` and `term` are what
the handlers of `AppModel` look at. A process may write, end, or ignore SIGTERM.

### Library

`disk` is what a scan finds, `db` the tables, `sync` the goroutines of
`SyncModels` (list, read metadata, then one transaction), `import` the
goroutine of `ImportPath`, `ui` what the pages remember of the database. A
statement or a transaction is one step, done or refused as a whole. The message
of a saved profile is handled right after the key, and one run is shown at a
time.

### ProfileRules, ProfileForm

`ProfileRules` is the algebra without state: `Estimate` of the memory of a
context, the profile `Suggest`ed for a model and an engine, the `Validate` of a
profile, the command line it is launched with, and its way into the fields of
the editor and back. One field stands for the fields handled alike; sizes are
in units of `K` tokens (1024 in the code, 16 in the run). `ProfileForm` is the
editor with its suggestions (`asks`), each computed on a goroutine whose
message is handled whenever it comes, and the library changing under it.
Engines are fixed, lists are read when they are used, a text is typed in one
step, and the error texts are not kept.

### Terminal

What the chat screen shows (`session`, `screen`, `modal`), where its messages go
(`target`), the observer that follows a session (`observer`, `late`), the calls it
has made (`calls`), and the sessions as an observer sees them (`srv`).
`strayed` is a ghost: an answer was taken for the session's or page's shown
that was for another.

## The runs

| Run | Properties | Instance |
|---|---|---|
| Stores | `AckedKept`, `BlobsDurable`, `Reopens`, `Refines`, `RowsKept`, `SyncReflectsDisk` | a timeline: 3 events, 3 faults of any kind, 2 lines per chunk, a new session; or a library: 2 folders, 3 files, 1 engine, 2 syncs, 5 models, 2 profiles, 6 mixes |
| Session | `Answerable`, `ApprovedOnly`, `ContinuesHead`, `SentIsCommitted`, `CloseReturns` | 6 mixes of: 2 messages, 1 reply with up to 2 tool calls, 1 cancellation, 2 compactions, 1 selection, closing, failing appends; bus of 2, mailbox of 1, retention of 1 |
| Delegation | `AnswersReach`, `SidecarsEnd`, `CallsEnd` | a reply of two delegations (both foreground, both background, or one of each), the first sidecar may fail, 1 user message, 1 cancellation, a close; or a reply of three foreground delegations, 1 user message, a close; engine inbox 2, inboxes 1, mailbox 1 |
| Stream | `MissesNothing`, `AnswerReaches`, `StreamsEnd` | 2 clients, 1 attached at a time, 2 joins, queue of 1, bus of 2, 2 messages, 2 questions, 1 failing commit, closing |
| StreamTwice | `NeverBoth`, violated | 1 client, 1 message, 1 join |
| LineClient | `ReplyWhole`, `OneWriter`, `ShutdownIsFinal`, `ChatEnds` | 3 sessions and 1 old sidecar, 3 handles, 1 other client, 2 lines typed, queue of 2, 1 fault, subscriber queue of 4; 8 mixes |
| Config | `ConfigDurable`, `ServersHeld`, `CredentialsKept`, `CallsReturn` | 2 providers, 1 session, 1 server, 1 policy, 2 requests at a time, 4 in all, 3 tokens, 1 fault; operations on providers, or on tools; or 2 MCP servers that offer any of 2 tools and 1 resource, 2 callers |
| Models | `HoldsHistory`, `ReplyKept`, `CancelEnds`, `ChecklistHeld` | 4 providers, 3 calls of claude and 2 of the others, 4 messages, 2 attempts; or a checklist of 2 titles, 2 edits, 1 reply with a call, 5 events |
| Terminal | `ScreenIsTrue`, `FormsAreOwn`, `PagesEnd` | 2 sessions, 2 commands of 8 kinds, 2 turns, 1 failure, queue of 1 |
| Download | `PublishedExact`, `OutcomeTrue`, `DownloadEnds` | a hashed weight file and an optional projector of 1 or 2 chunks, 2 workers, 2 retries, 2 downloads, 1 fault, 1 new version, 1 restart |
| Launcher | `RunsAreTrue`, `ServersAreEnded`, `StopEnds` | 2 profiles, 2 ports, pipe and log of 1; 3 budgets of (starts, lines, resizes): (2,1,0), (2,0,1), (1,1,1) |
| Profiles | `ProfilesHold`, `BestContext` | 3 models, 3 engines, 3 machines, `K` = 16; 4 mixes of fields |

What each shows is in its "about" in `PROJECT.json`, and above each property in
its module. Eleven runs pass.
`StreamTwice` shows the code against a comment of its own, "never both and never
neither" (`runtime.go:185-187`), and ends in a violation: a message committed
while its event is on the bus is in the view of a client that joins then, and is
sent to it. `MissesNothing` is the half that holds.

What the passing properties leave out, because the code does otherwise, is in
their comments. The larger ones: `AckedKept`, `Reopens` and `Refines` end where
an append is glued; `AnswerIsOwn` excepts a call after a request given up;
`CallsEnd` excepts a queue that stays full for good (below); `ConfigDurable` a
torn `models.json`; `ReplyKept` an early end of a compatible endpoint and a
Claude turn that began again; `OutcomeTrue` promises success only of partials
that begin the version wanted, since a partial is resumed by its name and size;
`ServersAreEnded` excepts a launch or restart that is on its way to `Update` at
the quit key (`StartsLate`), which starts a server nobody ends; `ScreenIsTrue` and
`FormsAreOwn` except a terminal that has `strayed`, and say nothing of one whose
join failed or whose stream ended; `NoneLeftOpen` excepts a discovery that was
interrupted and a session that failed to start, whose connections stay open.

Why these bounds. One fault per point of the code is the interesting case of
`Timeline`; three reach a fault during the recovery from another, and two lines
per chunk make one of few events rotate. Channels of the code have 8 to 256
slots; capacities of 1 and 2 make full channels an ordinary case instead of an
unreachable one. In `Delegation` they fill in all three ways the code can
block: the closer of a sidecar reports to a full engine inbox with `e.mu` held,
which the engine's loop may need; the handler of background answers meets a
full mailbox with `s.mu` held; and the engine relays to an inbox nobody reads
any more. Each of the three may last for good, so each is a disjunct of
`Blocked`, and without any one of them `CallsEnd` fails. Two clients, requests,
downloads, runs or syncs are what a race needs; the third of `LineClient`'s
sessions is the one created while another is deleted. Where a product of all
operations is out of reach, a run starts from one of several *mixes*, each
naming how many operations of each kind it may see (`Mixes`, `Budgets`, `Ops`),
chosen for the operations that race for the same state; the bounds are the last
conjuncts of the guards, or of `Next` in `Library`. In the same way `MCStores`,
`MCConfig` and `MCModels` have two parts of which a behaviour moves one, and
`MCDelegation` a kind of reply for the whole behaviour.

Deadlock is checked in Stream and StreamTwice. Elsewhere the system may really
stop: a library whose user does nothing, a parked session nobody calls and a
closed one, an engine that is down, a program that has been quit, a history
nobody continues, a terminal or a form whose user gives no further command.

## Fairness

Nothing is assumed of people or of faults; what is fair are goroutines, which
the Go scheduler runs when they can. Of remote services it is assumed in
`Session` that a generation and a tool call end, in `Download` that the hub
answers or fails, and goes on sending or breaks off, in `Terminal` that the
server answers a call, and in `Config` no more than the deadlines of the code
give.

* `Session`: each of agent, hub, compaction and the half finished client calls.
  It includes that a generation and a tool call end, by an answer, an error or
  the cancellation of their context. Nobody need decide: `SentIsCommitted`
  excludes a turn that waits for an approval nobody gives. Where `select` may
  choose between a free slot and the end of the session, so may the model, each
  time. A stale watcher is not fair: it may stay behind forever.
* `Delegation`, `Download`, `Stream`: `WF_vars(System)`, everything but the
  clients, the user, new versions and restarts. Every step of it is bounded in
  number, so one weak fairness is that of each.
* `LineClient`: each agent, each request being served, and the client's reading
  of answers and events. Decisions of people promise nothing.
* `Config`: each request being served; every wait on the network has a
  deadline in the code.
* `Models`: the adaptor's own steps. There is no limit on how long an answer of
  a model may take, and none is assumed: `CancelEnds` is about cancellations.
* `Launcher`: pipes and readers, timers, and Bubble Tea's deliveries; a server
  need neither write nor end.
* `Terminal`: answers to calls, and the observer's join, events and end.
* `ProfileForm`: a suggestion that is computed comes; `Library` has no liveness
  property: a sync that is not scheduled harms nobody.

## The proofs

| Module | Theorem | States | Assumes |
|---|---|---|---|
| `TimelineProofs` | `TypeCorrect` | `[]TypeOK` | |
| | `AckedIsKept` | `[]AckedKept`: `AckedDurable` (`AckedStaysDurable`) and `HeadNotBehind` (`HeadStaysAhead`) | |
| | `BlobsStayDurable` | `[]BlobsDurable` | |
| | `TimelineImplementsLog` | `Refines` | |
| | `ReopensAfterOneFault` | `[]Reopens` | |
| | `ClientsMissNothing` | `[]MissesNothing` of `Stream` | |
| | `AnswersAreTheServers` | `[]AnswerReaches` of `Stream` | |
| `SessionProofs` | `CallsAreAnswerable` | `[]Answerable` | |
| | `ToolsAreApproved` | `[]ApprovedOnly` | |
| | `HistoryContinuesHead` | `[]ContinuesHead` | |
| | `TheScreenIsTrue` | `[]ScreenIsTrue` of `Terminal` | |
| | `FormsAreTheSessions` | `[]FormsAreOwn` of `Terminal` | |
| `RegistryProofs` | `RequestsAreTyped` | `[]Typed` | |
| | `SessionsHaveOneWriter` | `[]OneWriter` | |
| | `ShutdownsAreFinal` | `[]ShutdownIsFinal` | |
| | `RepliesAreWhole` | `[]ReplyWhole` | |
| `ConfigProofs` | `ConfigurationIsDurable` | `[]ConfigDurable` | |
| | `TokensAreUsedOnce` | `[]RefreshedOnce` | |
| | `LogoutsStick` | `LogoutSticks` (action property) | |
| | `CredentialsAreKept` | `CredentialsKept`, the two together | |
| | `ServersAreHeld` | `[]ServersHeld` of `Connections` | |
| `DownloadProofs` | `PublishedIsExact` | `[]PublishedExact` | |
| | `OutcomesAreTrue` | `[]OutcomeTrue` | |
| | `SuggestionsAreBest` | `[]BestContext` of `ProfileForm` | |
| | `ProfilesAreHeld` | `[]ProfilesHold` of `ProfileForm` | |
| `LauncherProofs` | `RunsCanBeReliedOn` | `[]RunsAreTrue` | |
| | `NoServerIsLeft` | `ServersAreEnded` (action properties) | |
| | `RowsAreKept` | `RowsKept` of `Library` (three action properties, one invariant) | |
| | `SyncsReflectTheDisk` | `SyncReflectsDisk` of `Library` (action property) | |
| `ModelsProofs` | `ConversationHoldsHistory` | `[]HoldsHistory` | |
| | `RepliesAreKept` | `[]ReplyKept` | |
| | `ChecklistIsHeld` | `[]ChecklistHeld` of `Checklist` | |
| `DelegationProofs` | `AnswersAreDelivered` | `[]AnswersReach` | |
| | `SidecarsDoNotOutlive` | `[]SidecarsEnd` | |

All are of the form `Spec => ...` and hold for any number of events, sessions,
clients, files, workers, faults, and any capacity and bound: the named
assumptions of the modules (`TimelineAssumption` and so on) only give the
constants their types. (`FormAssumption` says besides that the profiles of the
start are rows the editor could have left, and `ModelsAssumption` that `None`
is nothing else.) A proof module may extend two modules: `TimelineProofs` is
about `Timeline` and `Stream`, `SessionProofs` about `Session` and `Terminal`,
`LauncherProofs` about `Launcher` and `Library`, `DownloadProofs` about
`DownloadWizard` and `ProfileForm`, `ConfigProofs` about `Config` and
`Connections`, `ModelsProofs` about `Models` and `Checklist`. The second module
names its specification apart (`StreamSpec`, `TerminalSpec`, `LibrarySpec`,
`EditorSpec`, `ConnectionsSpec`, `ChecklistSpec`), and each theorem is about
the specification and the property its run checks.

**Timeline.** `TypeInv` adds to `TypeOK` where an append can be: only an open,
unbroken writer is inside one, of the newest event, and from `PrepareHead` to
`RenameHead` the file `HEAD.tmp` names that event; without that the rename
could install a torn HEAD. `AckedDurable` alone is not inductive: that a line
is in the durable files says nothing about what the next truncation or power
loss does to it. `LogInv` says of every acknowledged event, and of the one
whose append has passed `SyncLine`, that it is *safe*: the same complete line
at the same position of both the visible and the durable log. It adds that an
open, unbroken writer sees only lines that parse, so that what it writes is
appended or else is glued to such a line, which sets `glued`. What is proved of
lines is proved as `glued \/ ...`, and `GluedStays` says that the exception
never ends; `BlobInv` needs none. `BlobInv` says that a big event has its blob
durable from the moment its append has passed `SyncBlob`. `HeadNotBehind`
depends on which of `HEAD` and `HEAD.tmp` a crash left and reopening picks;
`HeadInv` therefore says of every one of them that parses, cached or durable,
that it is not older than any acknowledged event: whichever survives will do.
`IndexInv` says that from the reconciliation of the chunks on the index in
memory names every acknowledged event.

The refinement needs two more facts. `Contained`: every line on the disk that
parses is in the page cache at the same place. Every step leaves such lines
alone, and the chunk files on the disk change only by becoming what the cache
holds, so the stored events of `EventLog` are never lost. `ForwardInv`:
`vis.head` and each `HEAD.tmp` that parses equal the durable HEAD or are newer
with their line on the disk, a durable `HEAD.tmp` is the visible one, and the
visible HEAD is older than the event being appended. With these each step is
one of `Store`, `MoveHead`, `Acknowledge`, or a stutter.

`Reopens` is about at most one fault, and its invariant says what each fault
finds. `Sound`, whatever came before: only the last line of all may be torn, and
a big event has its durable blob before its line. `Clean`, before any fault:
the log holds the acknowledged events and the append in progress, and so do
`index.jsonl` and `HEAD`, cached or durable. `Known`, with one fault: what the
index file, the memory and `HEAD` name has a complete line, so nothing refuses
the directory. The power loss needs `Clean`: what the files named was
acknowledged or past `SyncLine`, so `LogInv` says its line is safe.

**Session.** The one question a session may have asked is in one place: with
the session (`approval`), with a client that took it and is on its way
(`client`), or answered in the channel of the call that waits (`decision`).
`Asked` says so, with who may be waiting for it; `Granted` follows an approval
from the client's decision to the tool that runs. Neither uses the bus, so the
lag of the hub does not matter to them.

For `ContinuesHead` the invariant is `Chain`: every event of the timeline
follows the one before it, `active` and `working` are all of them (`Line`), and
inside a commit they lack exactly the ids of the commit. It holds as long as
nothing was compacted and no branch selected, and then no step but a commit
changes a history (`ChainSteps`). `ContextIsLine` says what `Context`, which is
recursive, computes of such a timeline.

**Stream.** `Complete` says of a list of events, what is to come after it and
the messages already known that no message is missing or told twice and that
they are in order. `Watching` says it twice: of every attached client (the view
it joined with, what it was shown, its queue and then the bus) until the
session's context ends, and of a client that joins now (the committed messages,
the log of those in flight, the bus). Publishing a message, taking an event off
the bus, sending it to the subscribers, a client's reading it and a commit each
move a message from one of these places to the next, and keep both; a join
turns the second into the first. A subscriber whose queue is full is dropped in
the same step, so it need not be complete afterwards. `Elicited` says that the
question that is outstanding has no conclusion and that one that has a result
has the one given; the call of a question that nobody concluded is told that
it was canceled.

**Terminal.** The screen lags behind the session, so the invariant is about what
it will show. `Caught` says it of the queue of the observer: the last message
about the status, and the last about the decision, tell what the session is now,
and where the queue says nothing the screen does already, or shows the busy of a
prompt, or the decision, whose call is not answered yet (`StatusShown`,
`ApprovalShown`); a form, shown or still in the queue, is of the question asked
or is followed by a message that takes it down (`Pending`). `Follows` says that
the session shown is the one observed, unless a list or another session was
asked for, and `Observing` that a message of an earlier observer can be told
from the present one's, so that it changes nothing.

**Delegation.** A request is in one place on its way to the caller: the engine's
inbox, its goroutine, or the confirmations (`Single`). `Ordered` says that only
the request awaited, or one given up no later, may be under way, so that a
confirmation of another request shows that an earlier one was given up. The
channels of results hold only sidecars that are over (`Results`), so a call that
stops waiting for a sidecar leaves none working. `Strays` is the property made
inductive: without a cancellation each working foreground sidecar is attended
to by a call; with one it was created late or is on the list of the cancellation
in progress. It needs that before any cancellation a request is given up only
because the session has ended, and then no sidecar is left (`Closing`).

**Registry.** `Typed` gives the types, that requests name handles that exist,
and what the line client knows (`LineKnows`). `Writers` says that an open
session is registered with the comms channel and belongs either to the engine
(`active`) or to the one request that opened it and has not entered it yet
(`Made`), that no two requests and no two handles share one, that what has a
directory was created, so that a new session is new, and that a stopped engine
has no active root. The theorems hold with and without `DeleteAlone`.

**Line client.** `ReplyWhole` joins three things that move apart: what the
session does, what is queued for the subscriber, and what the client has read.
`Told` relates them while the stream is calm and alone. `Awaits`: until an event
says that a turn runs, only idleness is told, and the client's own message is
all that is queued; from then on nothing is queued, and what was read with what
is still to be read is the text said. `Closes(saw, q, i)`: if the list tells at
`i` that this turn is over, only the end of the stream follows, the text is
complete and the session is parked. Each event published (`ToldMore`), queue
dropped (`ToldCut`), event read (`ToldLess`) and step of the session
(`ToldMove`) keeps that. `LineStream` and `OnlyUs` say when the client has a
stream, and that no other request for a turn of its session is under way while
the stream counts as alone.

**Config.** Ownership of the locks (`Own(c)`: which steps of a request hold
which lock, and that nobody else does), and what a request knows at each of
them: the catalogs, credentials and tools it read are still those of the
engine, because it holds the lock under which they change. `TokenGood` relates
each token to those spent; `Durable`, `Down` and `ToolsTold` are the equality of
memory and files where no request is in between. For `Connections` the invariant
says what a listing that did not fail has found (all the server's tools, whatever
the two other goroutines did to its error), that a server is kept only after such
a listing and with every one of its tools free, so that no later merge takes one
away, and which connections are open in each phase.

**Download.** `Stages` says which goroutine is where, `Shares` that a file of
the plan is in the queue, with one worker, or done, so that no two goroutines
touch one file; `Verified` what is known of the content of a file after each
stage; `Settled` which progress is in the channel, the wizard's hands or yet to
be sent when `downloadAll` ends; `Undisturbed` that without faults,
cancellations and new versions, and with partials that begin the version
wanted, no worker fails; `Asked` and `Screen` relate the wizard to the download
it started.

**Models.** What the adaptor remembers of the CLI's conversation (`conv`) and
what the CLI has stored (`cli`) agree (`Remembered`) except while a process runs
or has failed, and then its call holds `conversation.mu` (`Locked`); nobody lets
go of the lock without restoring the agreement or marking the conversation
dirty. `Told` adds that a call that is ready to resume has checked it, and that a
process that runs was told exactly its call's messages: those it resumed with,
and the new ones. `ModelsAssumption` says besides types that `None` is no
message, history or conversation.

For `ReplyKept` each call is followed by itself (`Faithful`): what a client was
shown is the text of what was read of the stream (`Streamed`), or what the
process has said since it last began, unless the call is marked as one that
began again (`Spoken`). That a stream read one piece further shows one more
piece, that the CLI's text and calls are told apart again, and that the last
item of several ends the text are lemmas about `Picked`.

**Checklist.** `Follows` says where the list is when nothing overtook it: it is
that of the last result of the batch still to be appended, whose reply is on
the branch already if the commit has begun, or it is what the branch being
continued rebuilds and nothing to come changes that. `BatchOK` says what a batch
is (a reply, then the results of its first calls, in their order) and that the
timeline has no other reply with those calls; `Paired` and `UpTo`, that on any
branch a result follows its own reply and that ids are those of the replies so
far; hence a branch continued or compacted in the middle of a batch rebuilds a
list of complete calls only, and both walks, forwards and backwards, find the
same record. `Overlaps` says that a compaction that nothing overtook holds the
list of now. The run has one reply with one call; the theorem is about any
number of replies, calls, events and edits.

Induction over data: the library's induction theorems cannot be used, their
parameter being an operator, but its theorem that the strict subsets of a
finite set are well founded can. From it follow, for sets of numbers, that each
has a least one (`Least`) and the principle of induction (`Induction`). A
recursive function is then handled by a witness: one that satisfies its
equation exists, so the function does, and it is determined at each argument.

**Launcher.** `RunInv` follows one run: the result of `cmd.Wait` is in only
when its process has ended and its pipe is empty, an exit is reported only when
the scanner is done and `logCh` drained, and a run is stopped by that report
only. So a server that is up belongs to an active run, and the ports of those
are the ones `pickRunPort` avoids; with that the quit key, which stops or kills
every active run, misses none, and afterwards (`NoneComesUp`) only a launch or
restart that was on its way starts a server.

**Library.** `Sound` says of the tables that ids and files are each those of one
row, that ids are below the next one, that a profile's engine is there and that
its draft, while a row has that id, is the file that was chosen (`Drafted`).
`Follows` compares the tables before and after: a row keeps its file and its
source, and what is new has a new id; it is reflexive and transitive, and every
statement and transaction keeps `Sound` and is a `Follows`. That carries
`Drafted` over to the entries that pages and runs remember (`Shown`): an id that
was deleted cannot come back as another file's. `ScanOf` says of a sync under
way what it found so far: each file in the folder it is in, the steady files
among them and still readable, and if the disk stood still all the files of the
folders listed, those of the folders loaded being the readable ones.

**Profiles.** Neither property is about the form as it moves, but about what it
may leave behind. `FormInv` says of the tables that every profile is a `Row` the
editor can write, that it `Refers` to an entry of the list that its engine runs,
and so does its draft, and, while no model is gone, that no rule objects to it
(`Valid`): the save checks that against the entries there are when its message
comes, which may be fewer than when the form was opened. Of the form it says that
its fields are filled in (`Filled`), that its entry is one of the start, and that
its advice is the `Best`; the same is kept of each request under way, because its
answer replaces the form. An advice is computed from the entry of the start and
shown for the one that may have lost its file of vision meanwhile: the estimate
does not depend on that (`SameEstimate`). `Select` ranges over the candidates with
an estimate, the property over all: `AllOrNone` says that with one all have one.
That a row goes through the fields and back (`RowReopens`) rests on `Units`, the
arithmetic of contexts in the largest unit that divides them; that an option is
named once, on the sequences of options being injective and the free flags being
none of them (`CommandLine`).

The inductive invariants were checked with TLC on the runs' instances before
they were proved. Each step of the system has its own lemma or case, and each
conjunct it can disturb a step below.

Model-checked only, and why:

* All liveness (`SentIsCommitted`, `CloseReturns`, `CallsEnd`, `StreamsEnd`,
  `ChatEnds`, `CallsReturn`, `CancelEnds`, `PagesEnd`, `DownloadEnds`,
  `StopEnds`): fairness and ENABLED are beyond the prover.

## What the code does beyond or against its own words

Met while modelling. One of them has a run that shows it (`StreamTwice`); each
of the others was left in the model where it is part of it, and the property's
comment names it as an exception, unless a module above leaves it out.

* *Timeline.* A kill in the first append leaves a directory that is refused for
  good. A last line that lacks only its newline is neither truncated nor
  refused, though `timeline.go:607-608` says truncated; the next append loses it and itself. Two
  faults may leave an index entry that cannot be read. A terminal that attaches
  while the engine appends (`src/README.md:114-116`) removes or renames the
  writer's `HEAD.tmp` in `GetSessionRecords`; the rename then fails and the
  session dies though no I/O failed.
* *Session.* A decision resolved before its request event is published leaves
  `waiting_approval` (`session.go:903-904`, `tools.go:744`). An event still in
  the bus takes a closing session off the tombstone (`session.go:714-722`). A
  manual compaction may start beside a turn a message has already woken
  (`compaction.go:88`). A cancellation token outlives its turn and ends the
  next (`session.go:601`). `SelectBranch` replaces the history and then may
  fail (`session.go:480`), or, during a commit the hub has not shown, loses it.
  An automatic compaction keeps recent messages raw that a reload compacts
  (`compaction.go:213`).
* *Delegation.* A confirmation left by a canceled `RequestSidecar` is taken by
  the next (`comms.go:39-41`); the handler of an ended subscription may take a
  message; a cancellation during a creation leaves a stray sidecar; a full
  engine inbox while `e.mu` is held blocks for good, and so does a full mailbox
  while `s.mu` is (`session.go:1098`, where `comms.go:175` asks for a handler
  that does not block); a background answer before `Track` is dropped.
* *Stream.* A message whose event is still on the bus when it is committed is
  shown twice to a client that joins then (`StreamTwice`,
  `runtime.go:185-187`). A question resolved late moves a parked session to
  busy, and a late event may replace and lose the form on the screen.
* *Registry, line client.* `DeleteSession` calls `closeSessionTree` without
  `e.mu` (its comment, `engine.go:768-769`, asks for it), so a child created
  meanwhile outlives its parent. `GetReport` answers 409 for a session with a
  concluded but registered sidecar (`session.go:406`, `engine.go:956-958`).
  Metadata copied under a lock and saved outside it may overwrite newer
  (`store/session.go:204`). A chat that passed its checks answers 202 though
  the session closes before the message is sent. A load of a session being
  created opens its timeline a second time before it is refused. An automatic
  compaction publishes idle in the middle of a turn, so `Chat` returns a
  truncated reply; other clients' turns make it return early; with no
  `onApproval` a turn that waits for an approval hangs the prompt.
* *Config.* An edit of an MCP server that names no credential keeps a token
  minted for another URL (`mcp.go:152-156` against `174-175`). `models.json` is
  written with `os.WriteFile`; a kill in between leaves an engine that does not
  start. A refreshed token that cannot be saved is lost. A login holds
  `providerMu` for up to 15 minutes while a `LoadSession` that waits for it
  holds `e.mu`.
* *Connections.* A discovery that is interrupted, or whose session then fails
  to start, leaves its connections open, though `mcp.go:154-156` counts on
  `Close`, which closes what was merged. The error of a listing of prompts or resources
  may be overwritten by the `nil` of the tools' goroutine, a data race.
* *Models.* A Claude turn retried after it began to speak shows its text twice
  (`claude_cli.go:197-200`). A Codex response of two message items commits only
  the last. A compatible endpoint's early EOF passes for a whole reply. Nothing
  limits the time of a stream or of the CLI; a caller that waits for
  `conversation.mu` ignores its cancellation.
* *Checklist.* A checklist call that timed out still applies its edit later
  (`RunBounded`, `ite.go:193-199`), and the list it leaves is recorded by
  nothing until the next call. A manual compaction beside a turn may record a
  list that is older than the edits of that turn.
* *Terminal.* The gap event is lost when a join ends (`chat.go:2243`,
  `runtime.go:171`). The answer to a compaction or a model change of a session
  left meanwhile sets `m.session` while target and observer stay
  (`remote.go:30-32`); answers of prompts and providers replace or take down
  other pages; a join that ends with an error does not reconnect.
* *Download.* A failed "load more" leaves `loadingMore`, and the repository
  step ignores every key (`download.go:183`). Workers of a canceled download
  block for good on the channel; its last messages reach the next wizard
  (`download.go:600`). Files without a checksum may mix versions. Files are
  renamed one by one (`src/README.md:80-81` speaks of atomic transfers). A sync
  that ends closes an open wizard.
* *Launcher.* A window that shrinks on another screen leaves a home screen that
  ignores every message (`app.go:236`, `app.go:382`). A restart while the
  profile runs elsewhere makes two active runs. A stop timeout of an earlier
  stop cuts the grace of a later one short. SIGTERM to infai leaves servers
  running (`main.go:37-42`), and so does a launch handled after the quit key
  (`app.go:278`). A line of more than 64 KiB wedges its run.
* *Library.* A file imported while a sync is under way is deleted with its
  profiles. The models of an unmounted folder are removed though its scan
  failed, as are models whose metadata cannot be read. A folder removed during
  a sync gets its models back (`models_tab.go:300`, `db.go:346-371`). Saving
  under another profile's name overwrites that one. A kill between a migration
  and its patch leaves the patch unapplied (`db.go:70-86`).
* *Profiles.* A late suggestion overwrites edits, and one of an abandoned form
  may land in another. Reserved flags and unterminated quotes are accepted by a
  save and refused by the launch (`validation.go:466-505`). A context beyond
  2^32 wraps. The catalog's first `prefix_caching` hides that of vLLM.

## Not modelled

The encoding of provider protocols, HTTP, the wire protocol of MCP, SQLite
itself, file formats, hardware queries, drawing and layout, reports,
evaluations, prompts and vision: they are I/O, parsing or presentation, where a
model would restate the code. A second writer of a timeline, a second engine on
one data directory, and a second infai on one library are not modelled: nothing
in the code supports them.

## The plan

Every safety property the runs check is a theorem. What is left is breadth: the
statistics and reports a session keeps, and the migrations and patches of the
library's database, where an existing run can exercise them.
