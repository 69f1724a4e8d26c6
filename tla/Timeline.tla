------------------------------ MODULE Timeline ------------------------------
(***************************************************************************)
(* The durable event timeline of one infaiw session                        *)
(* (pkg/agent/store/timeline.go): JSONL chunk files, an index file, a HEAD *)
(* file replaced by rename, and content-addressed blobs.  An append is a   *)
(* sequence of file operations; the process may be killed, the machine may *)
(* lose power and an operation may fail between any two of them, and       *)
(* NewTimeline rebuilds the writer's memory from whatever the disk holds.  *)
(*                                                                         *)
(* An event is identified by its number in `event`, which stands for the   *)
(* time-ordered UUIDv7 the code draws: later events have larger numbers.   *)
(* A line of a chunk is one record of `log`; byte offsets are abstracted   *)
(* to positions in it.                                                     *)
(***************************************************************************)
EXTENDS Integers, Sequences, FiniteSets

CONSTANTS
    MaxEvents,         \* bound: events whose append is ever attempted
    MaxFaults,         \* bound: kills, power losses and I/O errors
    ChunkLines,        \* lines a chunk holds before it is rotated
    Faults,            \* the kinds of fault the environment may produce
    Preloaded          \* events committed before the behaviour starts

ASSUME TimelineAssumption ==
    /\ MaxEvents \in Nat /\ MaxFaults \in Nat
    /\ ChunkLines \in Nat \ {0}
    /\ Faults \subseteq {"kill", "power", "ioerror"}
    /\ Preloaded \in {0, 1}

RootEvent == 0       \* rootEventID; also "no such file" for HEAD and HEAD.tmp
Torn == -1           \* bytes that do not parse
Kinds == {"message", "compaction"}
Id == Nat \ {0}

VARIABLES
    vis,      \* the files as a process sees them (page cache included)
    dur,      \* the files as a power loss would leave them at least
    status,   \* "closed", a phase of NewTimeline, "open", or "failed"
    pc,       \* where appendFromParentLocked is, "idle" between appends
    broken,   \* the writer refuses appends until it is reopened
    index,    \* in memory: the events the writer knows
    head,     \* in memory: the current HEAD
    missing,  \* events reconcileChunks still has to write to the index file
    event,    \* ghost: the contents of every event ever attempted
    acked,    \* ghost: events whose append returned without an error
    faults,   \* ghost: faults so far
    glued     \* ghost: bytes were appended to a line that parsed

vars == <<vis, dur, status, pc, broken, index, head, missing, event, acked, faults, glued>>
files == <<vis, dur>>
memory == <<broken, index, head, missing>>

Line == [id : Id \cup {Torn}, chunk : Nat, nl : BOOLEAN]
Event == [parent : Nat,     \* ParentID
          branch : BOOLEAN, \* BranchFrom is set
          kind : Kinds,
          big : BOOLEAN]    \* the record is kept in a blob
Disk == [log : Seq(Line),    \* the lines of all chunk files, in file order
         chunk : Nat,        \* the highest numbered chunk file
         index : SUBSET Id,  \* complete entries of index.jsonl
         tail : Int,         \* 0 when its last line ends in a newline; else the
                             \* entry, or Torn, that the last line holds
         head : Nat, tmp : Int, \* HEAD and HEAD.tmp
         blobs : SUBSET Id]  \* the events whose blob exists under its name

Opening == {"reconcile", "reindex", "loadhead"}
Steps == {"blob", "syncblob", "rotate", "write", "sync", "prepare", "index", "rename", "syncdir"}

TypeOK ==
    /\ vis \in Disk /\ dur \in Disk
    /\ status \in {"closed", "open", "failed"} \cup Opening
    /\ pc \in Steps \cup {"idle"}
    /\ broken \in BOOLEAN
    /\ index \subseteq Id /\ missing \subseteq Id
    /\ head \in Nat
    /\ event \in Seq(Event)
    /\ acked \subseteq Id
    /\ faults \in Nat
    /\ glued \in BOOLEAN

-----------------------------------------------------------------------------
(* Files *)

Ids(log) == {log[i].id : i \in DOMAIN log} \ {Torn}

\* Writing bytes at the end of chunk c.  After a line that lacks its newline
\* they land on that same line, which then no longer parses: bytes that follow
\* a torn line are part of it, and a line that lacked nothing else is spoilt.
Written(log, c, e, nl) ==
    IF log # <<>> /\ ~log[Len(log)].nl /\ log[Len(log)].chunk = c
    THEN [log EXCEPT ![Len(log)] = [id |-> Torn, chunk |-> c, nl |-> nl]]
    ELSE Append(log, [id |-> e, chunk |-> c, nl |-> nl])

\* What a write of event e that did not complete may have left behind.
PartlyWritten(log, c, e) ==
    {log, Written(log, c, Torn, FALSE), Written(log, c, e, FALSE), Written(log, c, e, TRUE)}

\* A write to chunk c would be glued to a line that parses.
Glues(log, c) ==
    /\ log # <<>> /\ ~log[Len(log)].nl
    /\ log[Len(log)].chunk = c /\ log[Len(log)].id # Torn

\* appendIndex: an entry glued to an unterminated line is lost with that line.
Indexed(d, e) ==
    [d EXCEPT !.index = IF d.tail = 0 THEN @ \cup {e} ELSE @ \ {d.tail},
              !.tail = 0]

PartlyIndexed(d, e) ==
    {d, [d EXCEPT !.tail = Torn, !.index = @ \ {d.tail}], Indexed(d, e)}
        \cup IF d.tail = 0
             THEN {[d EXCEPT !.index = @ \cup {e}, !.tail = e]} ELSE {}

FullChunk(d) ==
    LET lines == Cardinality({i \in DOMAIN d.log : d.log[i].chunk = d.chunk})
    IN  lines > 0 /\ lines + 1 > ChunkLines

-----------------------------------------------------------------------------
(* Appending: AppendToHead, BranchFromEventID, appendFromParentLocked.     *)
(* Timeline.mu is held from Submit until pc is "idle" again, so readers    *)
(* only run while it is.                                                   *)

Current == Len(event)    \* the event being appended

HasChild(p) == \E c \in index : event[c].parent = p

Submit(parent, branch, kind, big) ==
    /\ status = "open" /\ pc = "idle" /\ ~broken
    /\ Len(event) < MaxEvents
    /\ event' = Append(event, [parent |-> parent, branch |-> branch,
                               kind |-> kind, big |-> big])
    /\ pc' = IF big THEN "blob" ELSE "rotate"
    /\ UNCHANGED <<vis, dur, status, memory, acked, faults, glued>>

AppendToHead(kind, big) == Submit(head, FALSE, kind, big)

BranchFromEventID(parent, big) ==
    /\ parent \in index
    /\ Submit(parent, HasChild(parent), "message", big)

\* writeBlob up to the rename.  Every record carries its own timestamp, so no
\* two events share a blob and the file never exists already.
WriteBlob ==
    /\ status = "open" /\ pc = "blob"
    /\ vis' = [vis EXCEPT !.blobs = @ \cup {Current}]
    /\ pc' = "syncblob"
    /\ UNCHANGED <<dur, status, memory, event, acked, faults, glued>>

\* Mutated: the blob directory is not synced.
SyncBlobSkipped ==
    /\ status = "open" /\ pc = "syncblob"
    /\ pc' = "rotate"
    /\ UNCHANGED <<vis, dur, status, memory, event, acked, faults, glued>>

SyncBlob ==
    /\ status = "open" /\ pc = "syncblob"
    /\ dur' = [dur EXCEPT !.blobs = vis.blobs]
    /\ pc' = "rotate"
    /\ UNCHANGED <<vis, status, memory, event, acked, faults, glued>>

RotateChunk ==
    /\ status = "open" /\ pc = "rotate"
    /\ IF FullChunk(vis)
       THEN /\ vis' = [vis EXCEPT !.chunk = @ + 1]
            /\ dur' = [dur EXCEPT !.log = vis.log, !.chunk = vis.chunk + 1]
       ELSE UNCHANGED files
    /\ pc' = "write"
    /\ UNCHANGED <<status, memory, event, acked, faults, glued>>

WriteLine ==
    /\ status = "open" /\ pc = "write"
    /\ vis' = [vis EXCEPT !.log = Written(@, vis.chunk, Current, TRUE)]
    /\ glued' = (glued \/ Glues(vis.log, vis.chunk))
    /\ pc' = "sync"
    /\ UNCHANGED <<dur, status, memory, event, acked, faults>>

\* Mutated: the chunk is not synced.
SyncLineSkipped ==
    /\ status = "open" /\ pc = "sync"
    /\ pc' = "prepare"
    /\ UNCHANGED <<vis, dur, status, memory, event, acked, faults, glued>>

SyncLine ==
    /\ status = "open" /\ pc = "sync"
    /\ dur' = [dur EXCEPT !.log = vis.log]
    /\ pc' = "prepare"
    /\ UNCHANGED <<vis, status, memory, event, acked, faults, glued>>

PrepareHead ==
    /\ status = "open" /\ pc = "prepare"
    /\ vis' = [vis EXCEPT !.tmp = Current]
    /\ pc' = "index"
    /\ UNCHANGED <<dur, status, memory, event, acked, faults, glued>>

AppendIndex ==
    /\ status = "open" /\ pc = "index"
    /\ vis' = Indexed(vis, Current)
    /\ dur' = [dur EXCEPT !.index = vis'.index, !.tail = 0]
    /\ pc' = "rename"
    /\ UNCHANGED <<status, memory, event, acked, faults, glued>>

RenameHead ==
    /\ status = "open" /\ pc = "rename"
    /\ vis' = [vis EXCEPT !.head = vis.tmp, !.tmp = RootEvent]
    /\ pc' = "syncdir"
    /\ UNCHANGED <<dur, status, memory, event, acked, faults, glued>>

\* Mutated: the append returns without the directory sync.
FinishAppendUnsynced ==
    /\ status = "open" /\ pc = "syncdir"
    /\ index' = index \cup {Current}
    /\ head' = Current
    /\ acked' = acked \cup {Current}
    /\ pc' = "idle"
    /\ UNCHANGED <<files, status, broken, missing, event, faults, glued>>

\* The directory sync that ends commitHead, the in-memory update, the return.
FinishAppend ==
    /\ status = "open" /\ pc = "syncdir"
    /\ dur' = [dur EXCEPT !.head = vis.head, !.tmp = vis.tmp]
    /\ index' = index \cup {Current}
    /\ head' = Current
    /\ acked' = acked \cup {Current}
    /\ pc' = "idle"
    /\ UNCHANGED <<vis, status, broken, missing, event, faults, glued>>

\* The files after the operation at pc failed half way.  A rotation may have
\* created the next chunk file before it failed.
FailedAt(step) ==
    CASE step = "rotate" -> {vis} \cup IF FullChunk(vis) THEN {[vis EXCEPT !.chunk = @ + 1]} ELSE {}
      [] step = "write" -> {[vis EXCEPT !.log = l] : l \in PartlyWritten(vis.log, vis.chunk, Current)}
      [] step = "prepare" -> {[vis EXCEPT !.tmp = t] : t \in {vis.tmp, Torn, Current}}
      [] step = "index" -> PartlyIndexed(vis, Current)
      [] OTHER -> {vis}

\* An operation returns an error: the append fails and, past the blob, the
\* writer is broken until the session is reopened.
FailAppend ==
    /\ "ioerror" \in Faults /\ faults < MaxFaults
    /\ status = "open" /\ pc # "idle"
    /\ vis' \in FailedAt(pc)
    /\ broken' = (pc \notin {"blob", "syncblob"})
    /\ pc' = "idle"
    /\ faults' = faults + 1
    /\ glued' = (glued \/ (vis'.log # vis.log /\ Glues(vis.log, vis.chunk)))
    /\ UNCHANGED <<dur, status, index, head, missing, event, acked>>

-----------------------------------------------------------------------------
(* The end of a process *)

\* The memory of a writer that is not open.
Forget ==
    /\ status' = "closed"
    /\ pc' = "idle"
    /\ broken' = FALSE
    /\ index' = {} /\ missing' = {}
    /\ head' = RootEvent

Close ==
    /\ status = "open" /\ pc = "idle"
    /\ dur' = [dur EXCEPT !.log = vis.log]
    /\ Forget
    /\ UNCHANGED <<vis, event, acked, faults, glued>>

\* The process dies; the operating system keeps every completed write.
Kill ==
    /\ "kill" \in Faults /\ faults < MaxFaults
    /\ status # "closed"
    /\ vis' \in {vis} \cup IF pc = "prepare" THEN {[vis EXCEPT !.tmp = Torn]} ELSE {}
    /\ Forget
    /\ faults' = faults + 1
    /\ UNCHANGED <<dur, event, acked, glued>>

\* Lines that were not synced are lost from the end, the first lost one
\* possibly leaving a part of itself behind, or all of it but the newline.
LogsAfterPowerLoss ==
    LET Kept(n) == \A i \in DOMAIN vis.log \cap DOMAIN dur.log :
                       vis.log[i] = dur.log[i] => i <= n
        Upto(n) == SubSeq(vis.log, 1, n)
        Cut(n, e) == [Upto(n) EXCEPT ![n] = [id |-> e, chunk |-> @.chunk, nl |-> FALSE]]
    IN  {dur.log} \cup {Upto(n) : n \in {m \in 0..Len(vis.log) : Kept(m)}}
          \cup {Cut(n, Torn) : n \in {m \in 1..Len(vis.log) : Kept(m - 1)}}
          \cup {Cut(n, vis.log[n].id) : n \in {m \in 1..Len(vis.log) : Kept(m - 1)}}

IndexesAfterPowerLoss ==
    LET Of(d) == [index |-> d.index, tail |-> d.tail]
    IN  {Of(dur), Of(vis)}
          \cup IF Of(dur) # Of(vis)
               THEN {[index |-> dur.index \ {dur.tail}, tail |-> Torn]} ELSE {}

\* Creating HEAD.tmp and renaming it over HEAD reach the disk independently.
HeadsAfterPowerLoss ==
    [head : {dur.head, vis.head},
     tmp : {dur.tmp, vis.tmp}
             \cup (IF vis.head # dur.head THEN {vis.head} ELSE {})
             \cup (IF vis.tmp # dur.tmp THEN {Torn} ELSE {})]

PowerLoss ==
    /\ "power" \in Faults /\ faults < MaxFaults
    /\ \E log \in LogsAfterPowerLoss, ix \in IndexesAfterPowerLoss,
          h \in HeadsAfterPowerLoss, b \in {dur.blobs, vis.blobs}, c \in {dur.chunk, vis.chunk} :
          vis' = [log |-> log, chunk |-> c, index |-> ix.index, tail |-> ix.tail,
                  head |-> h.head, tmp |-> h.tmp, blobs |-> b]
    /\ dur' = vis'
    /\ Forget
    /\ faults' = faults + 1
    /\ UNCHANGED <<event, acked, glued>>

-----------------------------------------------------------------------------
(* Opening: NewTimeline *)

\* A refused open leaves nothing in memory and may be tried again.
LoadIndex ==
    /\ status \in {"closed", "failed"}
    /\ status' = "reconcile"
    /\ index' = vis.index /\ missing' = {}
    /\ UNCHANGED <<vis, dur, pc, broken, head, event, acked, faults, glued>>

\* A complete line, or one that is not the last, that does not parse.  Only the
\* last line of the last chunk can be partial, since a writer whose write failed
\* refuses to append until the reopening has cut that line.
Corrupt(log) == \E i \in DOMAIN log : log[i].id = Torn /\ (log[i].nl \/ i < Len(log))

Truncated(log) ==
    IF log # <<>> /\ log[Len(log)].id = Torn THEN SubSeq(log, 1, Len(log) - 1) ELSE log

\* Mutated: events missing from the index file are not put back.
ReconcileChunksNoReindex ==
    /\ status = "reconcile"
    /\ IF Corrupt(vis.log)
       THEN status' = "failed" /\ UNCHANGED <<vis, index, missing>>
       ELSE /\ status' = "reindex"
            /\ vis' = [vis EXCEPT !.log = Truncated(@)]
            /\ UNCHANGED <<index, missing>>
    /\ UNCHANGED <<dur, pc, broken, head, event, acked, faults, glued>>

ReconcileChunks ==
    /\ status = "reconcile"
    /\ IF Corrupt(vis.log)
       THEN status' = "failed" /\ UNCHANGED <<vis, index, missing>>
       ELSE /\ status' = "reindex"
            /\ vis' = [vis EXCEPT !.log = Truncated(@)]
            /\ missing' = Ids(vis.log) \ index
            /\ index' = index \cup Ids(vis.log)
    /\ UNCHANGED <<dur, pc, broken, head, event, acked, faults, glued>>

\* The loop at the end of reconcileChunks, in file order.
ReindexOne ==
    /\ status = "reindex" /\ missing # {}
    /\ \E e \in missing :
          /\ \A n \in missing : e <= n
          /\ missing' = missing \ {e}
          /\ vis' = Indexed(vis, e)
    /\ dur' = [dur EXCEPT !.index = vis'.index, !.tail = 0]
    /\ UNCHANGED <<status, pc, broken, index, head, event, acked, faults, glued>>

RecoverHead ==
    /\ status = "reindex" /\ missing = {}
    /\ status' = "loadhead"
    /\ vis' = CASE vis.tmp = RootEvent -> vis
                [] vis.tmp \in index -> [vis EXCEPT !.head = vis.tmp, !.tmp = RootEvent]
                [] OTHER -> [vis EXCEPT !.tmp = RootEvent]
    /\ dur' = IF vis.tmp = RootEvent THEN dur ELSE [dur EXCEPT !.head = vis'.head, !.tmp = RootEvent]
    /\ UNCHANGED <<pc, memory, event, acked, faults, glued>>

\* loadHead, then openChunk when it succeeds.
LoadHead ==
    /\ status = "loadhead"
    /\ IF vis.head \in index \/ (vis.head = RootEvent /\ index = {})
       THEN /\ status' = "open" /\ head' = vis.head
            /\ dur' = [dur EXCEPT !.chunk = vis.chunk]
       ELSE status' = "failed" /\ UNCHANGED <<head, dur>>
    /\ UNCHANGED <<vis, pc, broken, index, missing, event, acked, faults, glued>>

-----------------------------------------------------------------------------

\* A new session directory, or one whose first message was committed.
Init ==
    /\ vis = [log |-> [i \in 1..Preloaded |-> [id |-> i, chunk |-> 0, nl |-> TRUE]],
              chunk |-> 0, index |-> 1..Preloaded, tail |-> 0,
              head |-> Preloaded, tmp |-> RootEvent, blobs |-> {}]
    /\ dur = vis
    /\ status = "closed" /\ pc = "idle" /\ broken = FALSE
    /\ index = {} /\ missing = {} /\ head = RootEvent
    /\ event = [i \in 1..Preloaded |->
                   [parent |-> RootEvent, branch |-> FALSE, kind |-> "message", big |-> FALSE]]
    /\ acked = 1..Preloaded
    /\ faults = 0 /\ glued = FALSE

StartAppend ==
    \/ \E kind \in Kinds, big \in BOOLEAN : AppendToHead(kind, big)
    \/ \E parent \in index, big \in BOOLEAN : BranchFromEventID(parent, big)

StepAppend == WriteBlob \/ SyncBlob \/ RotateChunk \/ WriteLine \/ SyncLine
             \/ PrepareHead \/ AppendIndex \/ RenameHead \/ FinishAppend

Open == LoadIndex \/ ReconcileChunks \/ ReindexOne \/ RecoverHead \/ LoadHead

Next == StartAppend \/ StepAppend \/ FailAppend \/ Close \/ Kill \/ PowerLoss \/ Open

Spec == Init /\ [][Next]_vars

-----------------------------------------------------------------------------
(* Properties *)

\* readAt and resolveRecord succeed for e.
ReadableEvent(e) ==
    /\ e \in index /\ e \in Ids(vis.log)
    /\ event[e].big => e \in vis.blobs

Readers == status = "open" /\ pc = "idle"

\* An append that returned without an error has its line on the disk for good:
\* no kill, power loss or failed later append can take it back (chunkFile.Sync
\* comes before the return).  The exception is an append written to the end of
\* a line that lacks only its newline, which reconcileChunks leaves as it is.
AckedDurable == ~glued => acked \subseteq Ids(dur.log)

\* The blob of a big acknowledged event is on the disk for good (writeBlob
\* comes before the line and the return), whatever became of the lines.
BlobsDurable == \A e \in acked : event[e].big => e \in dur.blobs

\* Whatever faults came before, a reopened timeline knows every acknowledged
\* event and its HEAD is not older than the newest one: it is that event or
\* one whose append was cut short after it.  The same exception.
HeadNotBehind ==
    Readers /\ ~glued => /\ acked \subseteq index
                         /\ \A e \in acked : e <= head

\* Nothing acknowledged is lost, neither on the disk nor to a reader, until
\* an append is glued to a line that lacks only its newline.
AckedKept == AckedDurable /\ HeadNotBehind

\* After at most one fault every event the index knows can be read, which
\* LoadEntireTimeline (the branch view and the report) needs of all at once.
IndexReadable == Readers /\ faults <= 1 /\ ~glued => \A e \in index : ReadableEvent(e)

\* After at most one fault NewTimeline does not refuse a directory that only
\* the timeline wrote to and that holds an acknowledged event.
Accepted == faults <= 1 /\ acked # {} /\ ~glued => status # "failed"

\* One fault at any point of an append costs no more than that append, also
\* when it leaves a line that lacks only its newline: the directory opens and
\* everything its index knows can be read, until the next append to that chunk
\* is glued to such a line.  From there on nothing is said: the code then loses
\* the event of that line and the glued one, and refuses the directory.
Reopens == Accepted /\ IndexReadable

\* A timeline only grows: an event on the disk is never lost, and the HEAD on
\* the disk only ever moves to an event newer than the one it names.  So it is
\* until an append is glued to a line that lacks only its newline.
EventLogImpl == INSTANCE EventLog WITH
    events <- Ids(dur.log), head <- dur.head, acked <- acked
Refines == EventLogImpl!Init /\ [][EventLogImpl!Next \/ glued']_(EventLogImpl!vars)
=============================================================================
