------------------------------- MODULE Download -------------------------------
(***************************************************************************)
(* The model downloader (internal/downloader/download.go): Download starts *)
(* a goroutine that stages the files of a plan with a few workers, retries *)
(* and resumes, verifies, publishes by renaming, and reports its progress  *)
(* over a channel of one.  Goroutine 0 is downloadAll, the others are its  *)
(* workers.                                                                *)
(*                                                                         *)
(* A file's content is the sequence of its chunks, a chunk the version of  *)
(* the remote file it was read from.                                       *)
(***************************************************************************)
EXTENDS Integers, Sequences, FiniteSets, SequencesExt

CONSTANTS
    File,       \* the files of the repository (base names)
    Hashed,     \* those listed with a SHA256
    Size,       \* the number of chunks of each version of a file
    Workers,    \* MaxConcurrency
    MaxRetries, \* attempts per file
    MaxFaults   \* bound: failing requests, reads and renames

Version == DOMAIN Size

ASSUME DownloadAssumption ==
    /\ IsFiniteSet(File) /\ Hashed \subseteq File
    /\ Size \in Seq(Nat \ {0}) /\ Size # <<>>
    /\ Workers \in Nat \ {0} /\ MaxRetries \in Nat \ {0} /\ MaxFaults \in Nat

VARIABLES
    served,    \* the version of each file the hub serves
    staged,    \* each file's .partial in the staging directory
    published, \* each file at the destination
    job,       \* the download
    faults     \* counter of the bound MaxFaults

disk == <<staged, published>>

Goroutine == 0..Workers
FileState == {"pending", "downloading", "verifying", "completed", "failed"}
Overall == {"pending", "completed", "failed"}
Absent == <<0>>
Content == Seq(Version) \cup {Absent}

DownloadTypeOK ==
    /\ served \in [File -> Version]
    /\ staged \in [File -> Content] /\ published \in [File -> Content]
    /\ faults \in 0..MaxFaults
    /\ job.plan \in Seq(File)             \* CombinedFiles
    /\ job.want \in [File -> Version]     \* the version the plan was made of
    /\ job.canceled \in BOOLEAN
    /\ job.queue \in Seq(File)            \* files to fetch, then to rename
    /\ job.files \in [File -> FileState] /\ job.state \in Overall
    /\ job.ch \in Seq(Overall) /\ Len(job.ch) <= 1
    /\ job.put \subseteq File             \* ghost: what it published
    /\ job.clean \in BOOLEAN              \* ghost, see Start
    /\ \A w \in Goroutine :
          /\ job.run[w].at \in {"none", "prepare", "join", "publish", "close", "closed",
                                "idle", "gone", "send", "wait", "request", "copy", "verify"}
          /\ job.run[w].try \in 0..MaxRetries /\ job.run[w].note \in Overall

Nowhere == [at |-> "none", next |-> "none", note |-> "pending", file |-> "none", try |-> 0,
            from |-> 1, resumed |-> FALSE]

NoJob == [plan |-> <<>>, want |-> [f \in File |-> 1], canceled |-> FALSE, queue |-> <<>>,
          files |-> [f \in File |-> "pending"], state |-> "pending", ch |-> <<>>,
          put |-> {}, clean |-> FALSE, run |-> [w \in Goroutine |-> Nowhere]]

DownloadInit ==
    /\ served = [f \in File |-> 1]
    /\ staged = [f \in File |-> Absent] /\ published = [f \in File |-> Absent]
    /\ job = NoJob /\ faults = 0

-----------------------------------------------------------------------------
(* The files *)

\* What the listing says a file of version v holds.
Exact(v) == [i \in 1..Size[v] |-> v]

\* The chunks of a .partial that downloadFile would resume from, 0 for none.
Resumable(f, v) ==
    IF staged[f] # Absent /\ Len(staged[f]) < Size[v] THEN Len(staged[f]) ELSE 0

Working == job.run[0].at \notin {"none", "closed"}

-----------------------------------------------------------------------------
(* Progress: update changes it under the lock, takes a snapshot and sends  *)
(* that outside of it, which blocks while the channel is full.  A snapshot *)
(* is its overall state here, taken with the change; the ones onBytes      *)
(* sends now and then say nothing else and are left out.                   *)

Update(j, w, next) ==
    [j EXCEPT !.run[w] = [Nowhere EXCEPT !.at = "send", !.next = next, !.note = j.state,
                                         !.file = IF next = "idle" THEN "none" ELSE j.run[w].file]]

Send(w) ==
    LET r == job.run[w] IN
    /\ r.at = "send" /\ job.ch = <<>>
    /\ job' = [job EXCEPT !.ch = <<r.note>>,
                          !.run[w] = [Nowhere EXCEPT !.at = r.next, !.file = r.file, !.try = 1]]
    /\ UNCHANGED <<served, disk, faults>>

-----------------------------------------------------------------------------
(* A worker (downloadAll, downloadFileWithRetry, downloadFile) *)

\* The worker's file failed for good.
Failed(j, w) ==
    Update([j EXCEPT !.files[j.run[w].file] = "failed", !.state = "failed"], w, "idle")

\* An attempt failed: is there another one?
Erred(j, w, permanent) ==
    IF j.canceled \/ permanent \/ j.run[w].try = MaxRetries THEN Failed(j, w)
    ELSE [j EXCEPT !.run[w].at = "wait", !.run[w].try = @ + 1]

\* The next file of the queue; the workers are alike, so the first idle one takes it.
TakeJob(w) ==
    LET f == Head(job.queue) IN
    /\ job.run[w].at = "idle" /\ \A v \in 1..(w - 1) : job.run[v].at # "idle"
    /\ job' = IF job.queue = <<>> THEN [job EXCEPT !.run[w] = [Nowhere EXCEPT !.at = "gone"]]
              ELSE Update([job EXCEPT !.queue = Tail(@), !.files[f] = "downloading",
                                      !.run[w].file = f], w, "request")
    /\ UNCHANGED <<served, disk, faults>>

\* Between two attempts: the timer, or the canceled context.
Wait(w) ==
    /\ job.run[w].at = "wait"
    /\ \/ job' = [job EXCEPT !.run[w].at = "request"]
       \/ job.canceled /\ job' = Failed(job, w)
    /\ UNCHANGED <<served, disk, faults>>

\* A request, or the reading of its body, fails; a canceled one may at any time.
RequestFails(w) ==
    /\ job.run[w].at \in {"request", "copy"}
    /\ \/ /\ job.canceled
          /\ job' = Erred(job, w, FALSE)
          /\ UNCHANGED faults
       \/ /\ faults < MaxFaults /\ faults' = faults + 1
          /\ job' = [Erred(job, w, FALSE) EXCEPT !.clean = FALSE]
    /\ UNCHANGED <<served, disk>>

\* A .partial shorter than the file is resumed: with 206 the rest is appended,
\* when the hub has any.
Resume(w) ==
    LET r == job.run[w]  have == Resumable(r.file, job.want[r.file]) IN
    /\ r.at = "request" /\ ~job.canceled /\ have > 0
    /\ job' = IF have >= Size[served[r.file]] THEN Erred(job, w, FALSE)
              ELSE [job EXCEPT !.run[w] = [r EXCEPT !.at = "copy", !.from = served[r.file],
                                                    !.resumed = TRUE]]
    /\ UNCHANGED <<served, disk, faults>>

\* Anything else, and a 200 to a request that wanted to resume, starts over: a
\* length other than the plan's is refused, when the server tells it.
Fresh(w) ==
    LET r == job.run[w]  f == r.file IN
    /\ r.at = "request" /\ ~job.canceled
    /\ \/ /\ Size[served[f]] # Size[job.want[f]]
          /\ job' = Erred(job, w, TRUE)
          /\ UNCHANGED staged
       \/ /\ staged' = [staged EXCEPT ![f] = <<>>]
          /\ job' = [job EXCEPT !.run[w] = [r EXCEPT !.at = "copy", !.from = served[f],
                                                     !.resumed = FALSE]]
    /\ UNCHANGED <<served, published, faults>>

\* The next chunk is written; at the end of the body a resumed file must have
\* the plan's size.
Copy(w) ==
    LET r == job.run[w]  f == r.file  length == Len(staged[f]) + 1 IN
    /\ r.at = "copy"
    /\ staged' = [staged EXCEPT ![f] = Append(@, r.from)]
    /\ job' = IF length < Size[r.from] THEN job
              ELSE IF r.resumed /\ length # Size[job.want[f]] THEN Erred(job, w, TRUE)
              ELSE Update([job EXCEPT !.files[f] = "verifying"], w, "verify")
    /\ UNCHANGED <<served, published, faults>>

\* Mutated: no checksum.
VerifyNothing(w) ==
    /\ job.run[w].at = "verify"
    /\ job' = Update([job EXCEPT !.files[job.run[w].file] = "completed"], w, "idle")
    /\ UNCHANGED <<served, disk, faults>>

\* verifyChecksum, which does not look at the context.
Verify(w) ==
    LET f == job.run[w].file IN
    /\ job.run[w].at = "verify"
    /\ job' = IF f \in Hashed /\ staged[f] # Exact(job.want[f])
              THEN Failed(job, w)
              ELSE Update([job EXCEPT !.files[f] = "completed"], w, "idle")
    /\ UNCHANGED <<served, disk, faults>>

-----------------------------------------------------------------------------
(* downloadAll *)

\* Download of a valid plan.  Ghost: clean says that the hub serves what the plan
\* lists, that every partial to resume is the beginning of it, and (later) that
\* nothing fails.
Start(plan, want) ==
    LET begun(f) == \A i \in 1..Resumable(f, want[f]) : staged[f][i] = want[f] IN
    job' = [NoJob EXCEPT !.plan = plan, !.want = want, !.queue = plan,
                         !.clean = served = want /\ \A f \in File : begun(f),
                         !.run[0] = [Nowhere EXCEPT !.at = "prepare"]]

\* All that is not published fails.
AllFailed(j) ==
    Update([j EXCEPT !.files = [f \in File |-> "failed"], !.state = "failed", !.clean = FALSE],
           0, "close")

\* The staging directory and the disk space; then the workers start.
Prepare ==
    /\ job.run[0].at = "prepare"
    /\ \/ /\ job' = [job EXCEPT !.run = [w \in Goroutine |-> [Nowhere EXCEPT !.at =
                       IF w = 0 THEN "join" ELSE IF w <= Len(job.plan) THEN "idle" ELSE "gone"]]]
          /\ UNCHANGED faults
       \/ /\ faults < MaxFaults /\ faults' = faults + 1
          /\ job' = AllFailed(job)
    /\ UNCHANGED <<served, disk>>

\* wg.Wait, the results, and the last look at the context.
Join ==
    /\ job.run[0].at = "join" /\ \A w \in Goroutine \ {0} : job.run[w].at = "gone"
    /\ job' = IF job.canceled \/ \E f \in File : job.files[f] = "failed"
              THEN Update([job EXCEPT !.state = "failed"], 0, "close")
              ELSE [job EXCEPT !.queue = job.plan, !.run[0].at = "publish"]
    /\ UNCHANGED <<served, disk, faults>>

\* One rename after the other.
Publish ==
    LET f == Head(job.queue) IN
    /\ job.run[0].at = "publish" /\ job.queue # <<>>
    /\ published' = [published EXCEPT ![f] = staged[f]]
    /\ staged' = [staged EXCEPT ![f] = Absent]
    /\ job' = [job EXCEPT !.queue = Tail(@), !.put = @ \cup {f}]
    /\ UNCHANGED <<served, faults>>

\* The first that fails ends the download.
PublishFails ==
    /\ job.run[0].at = "publish" /\ job.queue # <<>>
    /\ faults < MaxFaults /\ faults' = faults + 1
    /\ job' = AllFailed(job)
    /\ UNCHANGED <<served, disk>>

Published ==
    /\ job.run[0].at = "publish" /\ job.queue = <<>>
    /\ job' = Update([job EXCEPT !.state = "completed"], 0, "close")
    /\ UNCHANGED <<served, disk, faults>>

\* The deferred calls: the destination is free again and the channel closed.
Close ==
    /\ job.run[0].at = "close"
    /\ job' = [job EXCEPT !.run[0].at = "closed"]
    /\ UNCHANGED <<served, disk, faults>>

Transfer ==
    \/ Prepare \/ Join \/ Publish \/ PublishFails \/ Published \/ Close
    \/ \E w \in Goroutine :
          \/ Send(w) \/ TakeJob(w) \/ Wait(w) \/ RequestFails(w)
          \/ Resume(w) \/ Fresh(w) \/ Copy(w) \/ Verify(w)

=============================================================================
