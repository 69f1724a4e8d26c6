--------------------------- MODULE DownloadProofs ---------------------------
(***************************************************************************)
(* Proofs about the downloader and its wizard, for every repository, number *)
(* of workers and bound: PublishedExact, and OutcomeTrue.                   *)
(*                                                                         *)
(* The inductive invariant says which goroutine may touch which file: the  *)
(* one whose file it is while the workers run, downloadAll afterwards; what *)
(* is known of a file by then; and which progress the wizard reads last.   *)
(*                                                                         *)
(* The last part is about the editor of the profiles that the downloaded   *)
(* models are run with, ProfileForm.tla: ProfilesHold, and BestContext.    *)
(***************************************************************************)
EXTENDS DownloadWizard, ProfileForm, SequenceTheorems, FiniteSetTheorems, WellFoundedInduction, TLAPS

Point == {"none", "prepare", "join", "publish", "close", "closed", "idle", "gone",
          "send", "wait", "request", "copy", "verify"}
Run == [at : Point, next : Point, note : Overall, file : File \cup {"none"},
        try : 0..MaxRetries, from : Version, resumed : BOOLEAN]
Job == [plan : Seq(File), want : [File -> Version], canceled : BOOLEAN, queue : Seq(File),
        files : [File -> FileState], state : Overall, ch : Seq(Overall),
        put : SUBSET File, clean : BOOLEAN, run : [Goroutine -> Run]]
Ui == [open : BOOLEAN, step : Step, searching : BOOLEAN, loadingMore : BOOLEAN,
       optional : Seq(File), optSel : Seq(BOOLEAN), want : [File -> Version],
       shown : Overall \cup {"none"},
       outcome : {"none", "failed", "imported", "canceled"}]

Types ==
    /\ served \in [File -> Version]
    /\ staged \in [File -> Content] /\ published \in [File -> Content]
    /\ job \in Job /\ ui \in Ui /\ hub \in {"none", "search", "more", "files"}
    /\ waiting \in BOOLEAN /\ importing \in BOOLEAN
    /\ posted \in Overall \cup {"done", "none"}

Crew == Goroutine \ {0}
Ended == {"send", "close", "closed"}

\* The worker w has a file, and is not done with it.
Holding(w) ==
    \/ job.run[w].at \in {"wait", "request", "copy", "verify"}
    \/ job.run[w].at = "send" /\ job.run[w].next \in {"request", "verify"}

\* The workers run while downloadAll waits for them.
Stages ==
    /\ job.run[0].at \in {"none", "prepare", "join", "publish"} \cup Ended
    /\ job.run[0].at = "send" => /\ job.run[0].next = "close"
                                 /\ job.run[0].note = job.state
    /\ \A w \in Crew :
          /\ \/ job.run[w].at \in {"none", "idle", "gone"} \/ Holding(w)
             \/ job.run[w].at = "send" /\ job.run[w].next = "idle"
          /\ job.run[0].at # "join" => job.run[w].at \in {"none", "gone"}
    /\ job.run[0].at # "none" => job.plan # <<>> /\ IsInjective(job.plan)

\* A file is in the queue, or one worker's, or settled.
Shares ==
    /\ IsInjective(job.queue)
    /\ \A w \in Crew : Holding(w) =>
          /\ job.run[w].file \in File
          /\ job.files[job.run[w].file] \in {"downloading", "verifying"}
          /\ job.run[w].at = "copy" => staged[job.run[w].file] # Absent
          /\ \A v \in Crew : Holding(v) /\ job.run[v].file = job.run[w].file => v = w
    /\ job.run[0].at = "prepare" => /\ job.queue = job.plan /\ job.put = {}
                                    /\ \A f \in File : job.files[f] = "pending"
    /\ job.run[0].at = "join" =>
          /\ job.put = {}
          /\ \A f \in ToSet(job.queue) : job.files[f] = "pending"
          /\ \A f \in ToSet(job.plan) :
                \/ f \in ToSet(job.queue) \/ job.files[f] \in {"completed", "failed"}
                \/ \E w \in Crew : Holding(w) /\ job.run[w].file = f
          /\ job.run[1].at \in {"none", "gone"} => job.queue = <<>>
    /\ job.run[0].at = "publish" =>
          /\ \A f \in ToSet(job.plan) : f \in job.put \cup ToSet(job.queue)
          /\ \A f \in ToSet(job.queue) : f \notin job.put /\ job.files[f] = "completed"

\* What was verified and not yet renamed is what the plan lists, and so is what was.
Verified ==
    /\ \A f \in Hashed : job.files[f] = "completed" /\ f \notin job.put
          => staged[f] = Exact(job.want[f])
    /\ PublishedExact

\* The overall state tells how it ended.
Settled ==
    /\ job.run[0].at \in {"none", "prepare", "publish"} => job.state = "pending"
    /\ job.run[0].at \in Ended => job.state \in {"completed", "failed"}
    /\ job.run[0].at = "join" =>
          /\ job.state # "completed"
          /\ job.state = "failed" => \E f \in File : job.files[f] = "failed"
    /\ job.state = "completed" => ToSet(job.plan) \subseteq job.put

\* The first n chunks of f's partial are what the plan lists.
Begins(f, n) == \A i \in 1..n : staged[f][i] = job.want[f]

\* Nothing has gone wrong with an undisturbed download.
Undisturbed ==
    job.clean =>
       /\ Working => served = job.want /\ ~job.canceled
       /\ job.state # "failed" /\ \A f \in File : job.files[f] # "failed"
       /\ \A f \in File : Begins(f, Resumable(f, job.want[f]))
       /\ \A w \in Crew : LET r == job.run[w] IN
             /\ r.at = "copy" => /\ r.from = job.want[r.file]
                                 /\ Len(staged[r.file]) < Size[job.want[r.file]]
             /\ r.at = "verify" \/ (r.at = "send" /\ r.next = "verify")
                   => staged[r.file] = Exact(job.want[r.file])

\* A request to the hub keeps the wizard where it asked.
Asked ==
    /\ hub = "search" => At("search") /\ ui.searching
    /\ hub = "more" => At("repo") /\ ui.loadingMore
    /\ hub = "files" => At("engine") /\ ui.searching

\* What the wizard knows: the last progress is on its way or shown.
Screen ==
    /\ ui.open /\ ui.step \notin {"downloading", "done"}
          => ~Working /\ ~waiting /\ posted = "none" /\ ~importing
    /\ ui.outcome # "none" => ui.open /\ ui.step = "done"
    /\ ui.outcome = "failed" => job.state = "failed"
    /\ posted # "none" => ~waiting
    /\ posted = "done" => job.run[0].at = "closed" /\ job.ch = <<>>
    /\ importing => ToSet(job.plan) \subseteq job.put
    /\ At("downloading") /\ job.run[0].at \in {"close", "closed"} =>
          job.state = IF job.ch # <<>> THEN Head(job.ch)
                      ELSE IF posted \in Overall THEN posted ELSE ui.shown

IInv == Types /\ Stages /\ Shares /\ Verified /\ Settled /\ Undisturbed /\ Asked /\ Screen

-----------------------------------------------------------------------------
(* The operators the model is built from *)

\* A version's content is as long as its size says, and nothing else.
LEMMA Versions ==
    /\ 1 \in Version
    /\ \A v \in Version : Size[v] \in Nat \ {0}
    /\ Absent \notin Seq(Version)
    /\ \A v \in Version : /\ Exact(v) \in Seq(Version) /\ Len(Exact(v)) = Size[v]
                           /\ \A i \in 1..Size[v] : Exact(v)[i] = v
<1>1. Len(Size) \in Nat \ {0} /\ Version = 1..Len(Size)
  BY DownloadAssumption DEF Version
<1>2. \A v \in Version : Size[v] \in Nat \ {0}
  BY <1>1, DownloadAssumption
<1>3. Absent \notin Seq(Version)
  <2>1. SUFFICES ASSUME Absent \in Seq(Version) PROVE FALSE
    OBVIOUS
  <2>2. 0 \in Version
    <3>1. <<0>>[1] = 0 /\ 1 \in 1..Len(<<0>>)
      OBVIOUS
    <3> QED BY <2>1, <3>1 DEF Absent
  <2> QED BY <1>1, <2>2
<1>4. ASSUME NEW v \in Version
      PROVE  /\ Exact(v) \in Seq(Version) /\ Len(Exact(v)) = Size[v]
             /\ \A i \in 1..Size[v] : Exact(v)[i] = v
  BY <1>2 DEF Exact
<1> QED BY <1>1, <1>2, <1>3, <1>4

\* Taking the head of a sequence without duplicates.
LEMMA Taking ==
    ASSUME NEW S, NEW q \in Seq(S), q # <<>>, IsInjective(q)
    PROVE  /\ Head(q) \in S /\ Tail(q) \in Seq(S) /\ IsInjective(Tail(q))
           /\ Head(q) \notin ToSet(Tail(q))
           /\ ToSet(q) = {Head(q)} \cup ToSet(Tail(q))
<1>1. Head(q) = q[1] /\ Head(q) \in S /\ Tail(q) \in Seq(S) /\ Len(Tail(q)) = Len(q) - 1
  OBVIOUS
<1>2. \A i \in 1..Len(Tail(q)) : Tail(q)[i] = q[i + 1] /\ i + 1 \in 1..Len(q)
  BY <1>1
<1>3. DOMAIN q = 1..Len(q) /\ DOMAIN Tail(q) = 1..Len(Tail(q)) /\ Len(q) \in Nat \ {0}
  BY <1>1
<1>4. IsInjective(Tail(q))
  BY <1>2, <1>3 DEF IsInjective
<1>5. Head(q) \notin ToSet(Tail(q))
  BY <1>1, <1>2, <1>3 DEF IsInjective, ToSet
<1>6. ToSet(q) = {Head(q)} \cup ToSet(Tail(q))
  <2>1. ASSUME NEW i \in 1..Len(q) PROVE q[i] = Head(q) \/ \E k \in 1..Len(Tail(q)) : q[i] = Tail(q)[k]
    <3>1. CASE i = 1
      BY <3>1, <1>1
    <3>2. CASE i # 1
      <4>1. i - 1 \in 1..Len(Tail(q)) /\ (i - 1) + 1 = i
        BY <3>2, <1>1, <1>3
      <4> QED BY <4>1, <1>2
    <3> QED BY <3>1, <3>2
  <2>2. \A x : x \in ToSet(q) <=> \E i \in 1..Len(q) : x = q[i]
    BY <1>3 DEF ToSet
  <2>3. \A x : x \in ToSet(Tail(q)) <=> \E k \in 1..Len(Tail(q)) : x = Tail(q)[k]
    BY <1>3 DEF ToSet
  <2>4. 1 \in 1..Len(q)
    BY <1>3
  <2> QED BY <2>1, <2>2, <2>3, <2>4, <1>1, <1>2
<1> QED BY <1>1, <1>4, <1>5, <1>6

LEMMA Rest == /\ Nowhere \in Run /\ 0 \in Goroutine /\ 1 \in Crew
              /\ \A w \in Crew : w \in Goroutine /\ w # 0
  BY Versions, DownloadAssumption DEF Nowhere, Run, Point, Overall, Goroutine, Crew

\* What no step of a goroutine changes, but for put in a rename.
Keeps(k, j) ==
    /\ k.plan = j.plan /\ k.want = j.want /\ k.put = j.put
    /\ k.canceled => j.canceled
    /\ k.clean => j.clean

\* Another place of one goroutine changes nothing else.
LEMMA Moving ==
    ASSUME NEW j \in Job, NEW w \in Goroutine, NEW r \in Run
    PROVE  LET k == [j EXCEPT !.run[w] = r] IN
           /\ k \in Job /\ Keeps(k, j)
           /\ k.queue = j.queue /\ k.files = j.files /\ k.state = j.state /\ k.ch = j.ch
           /\ k.run[w] = r
           /\ \A v \in Goroutine : v # w => k.run[v] = j.run[v]
<1>1. j.run \in [Goroutine -> Run]
  BY DEF Job
<1> DEFINE run == [j.run EXCEPT ![w] = r]
<1>2. run \in [Goroutine -> Run] /\ run[w] = r
      /\ \A v \in Goroutine : v # w => run[v] = j.run[v]
  BY <1>1
<1>3. [j EXCEPT !.run[w] = r] = [j EXCEPT !.run = run]
  OBVIOUS
<1> HIDE DEF run
<1>4. [j EXCEPT !.run = run] \in Job /\ [j EXCEPT !.run = run].run = run
  BY <1>2 DEF Job
<1>5. LET k == [j EXCEPT !.run = run] IN
      /\ Keeps(k, j) /\ k.queue = j.queue /\ k.files = j.files /\ k.state = j.state
      /\ k.ch = j.ch
  BY DEF Job, Keeps
<1> QED BY <1>2, <1>3, <1>4, <1>5, ZenonT(30)

\* Update changes the goroutine only, and leaves its snapshot to be sent.
LEMMA Updating ==
    ASSUME NEW j \in Job, NEW w \in Goroutine, NEW next \in Point
    PROVE  /\ Update(j, w, next) \in Job
           /\ Keeps(Update(j, w, next), j)
           /\ Update(j, w, next).queue = j.queue /\ Update(j, w, next).files = j.files
           /\ Update(j, w, next).state = j.state /\ Update(j, w, next).ch = j.ch
           /\ \A v \in Goroutine : v # w => Update(j, w, next).run[v] = j.run[v]
           /\ Update(j, w, next).run[w].at = "send"
           /\ Update(j, w, next).run[w].next = next
           /\ Update(j, w, next).run[w].note = j.state
           /\ next # "idle" => Update(j, w, next).run[w].file = j.run[w].file
<1> DEFINE file == IF next = "idle" THEN "none" ELSE j.run[w].file
           r == [Nowhere EXCEPT !.at = "send", !.next = next, !.note = j.state, !.file = file]
<1>2. Update(j, w, next) = [j EXCEPT !.run[w] = r]
  BY DEF Update
<1>3. file \in File \cup {"none"} /\ j.state \in Overall
  BY DEF Job, Run
<1> HIDE DEF file
<1>4. r \in Run /\ r.at = "send" /\ r.next = next /\ r.note = j.state /\ r.file = file
  <2>1. Nowhere \in Run /\ "send" \in Point
    BY Rest DEF Point
  <2> HIDE DEF Nowhere
  <2> QED BY <1>3, <2>1 DEF Run
<1> HIDE DEF r
<1> QED BY <1>2, <1>4, Moving DEF file

\* A record of a download that differs in its goroutines, its files and its state.
LEMMA Changing ==
    ASSUME NEW j \in Job, NEW files \in [File -> FileState], NEW state \in Overall
    PROVE  /\ [j EXCEPT !.files = files] \in Job
           /\ [j EXCEPT !.files = files, !.state = state] \in Job
           /\ [j EXCEPT !.state = state] \in Job
  BY DEF Job

LEMMA Spoiling ==
    ASSUME NEW j \in Job
    PROVE  LET k == [j EXCEPT !.clean = FALSE] IN
           /\ k \in Job /\ Keeps(k, j) /\ ~k.clean
           /\ k.queue = j.queue /\ k.files = j.files /\ k.state = j.state /\ k.run = j.run
  BY DEF Job, Keeps

\* Failed: the file has failed, and with it the download.
LEMMA Failing ==
    ASSUME NEW j \in Job, NEW w \in Goroutine, NEW f \in File, j.run[w].file = f
    PROVE  /\ Failed(j, w) \in Job
           /\ Keeps(Failed(j, w), j) /\ Failed(j, w).queue = j.queue
           /\ Failed(j, w).files = [j.files EXCEPT ![f] = "failed"]
           /\ Failed(j, w).state = "failed"
           /\ \A v \in Goroutine : v # w => Failed(j, w).run[v] = j.run[v]
           /\ Failed(j, w).run[w].at = "send" /\ Failed(j, w).run[w].next = "idle"
<1> DEFINE files == [j.files EXCEPT ![f] = "failed"]
           k == [j EXCEPT !.files = files, !.state = "failed"]
<1>1. files \in [File -> FileState] /\ "failed" \in Overall /\ "idle" \in Point
  BY DEF Job, FileState, Overall, Point
<1>2. k \in Job /\ k.run = j.run
  <2> HIDE DEF files
  <2> QED BY <1>1, Changing DEF Job
<1>3. Failed(j, w) = Update(k, w, "idle")
  BY DEF Failed
<1> HIDE DEF files
<1>4. Keeps(k, j) /\ k.queue = j.queue /\ k.files = files /\ k.state = "failed"
  BY DEF Job, Keeps
<1> HIDE DEF k
<1>5. /\ Update(k, w, "idle") \in Job /\ Keeps(Update(k, w, "idle"), k)
      /\ Update(k, w, "idle").queue = k.queue /\ Update(k, w, "idle").files = k.files
      /\ Update(k, w, "idle").state = k.state
      /\ \A v \in Goroutine : v # w => Update(k, w, "idle").run[v] = k.run[v]
      /\ Update(k, w, "idle").run[w].at = "send"
      /\ Update(k, w, "idle").run[w].next = "idle"
  BY <1>1, <1>2, Updating
<1> QED BY <1>2, <1>3, <1>4, <1>5 DEF files, Keeps

-----------------------------------------------------------------------------
(* A step of a worker: it keeps its file, settles it, takes one or rests *)

Others == <<served, published, ui, hub, waiting, posted, importing>>

\* While a worker is active downloadAll waits, and nothing was published.
LEMMA Joined ==
    ASSUME IInv, NEW w \in Crew, job.run[w].at \notin {"none", "gone"}
    PROVE  job.run[0].at = "join" /\ job.put = {} /\ Working
  BY DEF IInv, Stages, Shares, Working

\* What the invariant says of all the rest, when a worker makes a step.
LEMMA CrewRest ==
    ASSUME IInv, NEW w \in Crew, job.run[w].at \notin {"none", "gone"}, UNCHANGED Others,
           job' \in Job, staged' \in [File -> Content], Keeps(job', job),
           \A v \in Goroutine : v # w => job'.run[v] = job.run[v],
           job'.state \in {job.state, "failed"}
    PROVE  /\ Types' /\ Asked' /\ Screen' /\ PublishedExact'
           /\ job'.run[0].at = "join" /\ job'.put = {}
           /\ job'.plan # <<>> /\ IsInjective(job'.plan)
           /\ job'.state # "completed" /\ ToSet(job'.plan) = ToSet(job.plan)
<1>1. job.run[0].at = "join" /\ job.put = {} /\ Working
  BY Joined
<1>2. job'.run[0] = job.run[0] /\ job'.put = {} /\ job'.plan = job.plan
  BY <1>1, Rest DEF Keeps
<1>3. Types'
  BY DEF IInv, Types, Others
<1>4. Asked'
  BY DEF IInv, Asked, Others, At
<1>5. Screen'
  <2>1. posted # "done"
    BY <1>1 DEF IInv, Screen
  <2> QED BY <1>1, <1>2, <2>1 DEF IInv, Screen, Others, At, Working
<1>6. PublishedExact'
  BY <1>2 DEF PublishedExact
<1>7. job'.plan # <<>> /\ IsInjective(job'.plan) /\ job'.state # "completed"
  BY <1>1, <1>2 DEF IInv, Stages, Settled
<1> QED BY <1>1, <1>2, <1>3, <1>4, <1>5, <1>6, <1>7

\* The worker goes on with its file f.
LEMMA CrewKeeps ==
    ASSUME IInv, NEW w \in Crew, NEW f \in File, Holding(w), job.run[w].file = f,
           UNCHANGED Others, job' \in Job, staged' \in [File -> Content], Keeps(job', job),
           job'.queue = job.queue, job'.state = job.state,
           \A v \in Goroutine : v # w => job'.run[v] = job.run[v],
           \A g \in File : g # f => job'.files[g] = job.files[g] /\ staged'[g] = staged[g],
           job'.files[f] \in {"downloading", "verifying"},
           Holding(w)', job'.run[w].file = f,
           job'.run[w].at = "copy" => staged'[f] # Absent,
           job'.clean => LET r == job'.run[w]  v == job.want[f] IN
              /\ Begins(f, Resumable(f, job.want[f]))'
              /\ r.at = "copy" => r.from = v /\ Len(staged'[f]) < Size[v]
              /\ r.at = "verify" \/ (r.at = "send" /\ r.next = "verify") => staged'[f] = Exact(v)
    PROVE  IInv'
<1>0. job.run[w].at \notin {"none", "gone"} /\ w \in Goroutine /\ 0 \in Goroutine /\ w # 0
  BY Rest DEF Holding
<1>1. /\ Types' /\ Asked' /\ Screen' /\ PublishedExact'
      /\ job'.run[0].at = "join" /\ job'.put = {}
      /\ job'.plan # <<>> /\ IsInjective(job'.plan)
      /\ job'.state # "completed" /\ ToSet(job'.plan) = ToSet(job.plan)
  BY <1>0, CrewRest
<1>2. job.run[0].at = "join" /\ job.put = {} /\ Working
  BY <1>0, Joined
<1>3. \A v \in Crew : v # w =>
         /\ job'.run[v] = job.run[v]
         /\ Holding(v)' <=> Holding(v)
         /\ Holding(v) => job.run[v].file # f
  BY Rest DEF Holding, IInv, Shares
<1>4. Stages'
  <2>1. ASSUME NEW v \in Crew
        PROVE  \/ job'.run[v].at \in {"none", "idle", "gone"} \/ Holding(v)'
               \/ job'.run[v].at = "send" /\ job'.run[v].next = "idle"
    <3>1. CASE v = w
      BY <3>1
    <3>2. CASE v # w
      BY <1>3, <3>2 DEF IInv, Stages, Holding
    <3> QED BY <3>1, <3>2
  <2> QED BY <1>1, <2>1 DEF Stages
<1>5. job.files[f] \in {"downloading", "verifying"}
  BY DEF IInv, Shares
<1>6. Shares'
  <2>1. ASSUME NEW v \in Crew, Holding(v)'
        PROVE  /\ job'.run[v].file \in File
               /\ job'.files[job'.run[v].file] \in {"downloading", "verifying"}
               /\ job'.run[v].at = "copy" => staged'[job'.run[v].file] # Absent
               /\ \A u \in Crew : Holding(u)' /\ job'.run[u].file = job'.run[v].file => u = v
    <3>1. CASE v = w
      BY <1>3, <3>1 DEF Holding
    <3>2. CASE v # w
      <4>1. job'.run[v] = job.run[v] /\ Holding(v) /\ job.run[v].file # f
        BY <1>3, <2>1, <3>2 DEF Holding
      <4>2. job.run[v].file \in File
        BY <4>1 DEF IInv, Shares
      <4>3. ASSUME NEW u \in Crew, Holding(u)', job'.run[u].file = job'.run[v].file
            PROVE  u = v
        <5>1. u # w
          BY <4>1, <4>3
        <5>2. Holding(u) /\ job.run[u].file = job.run[v].file
          BY <1>3, <4>1, <4>3, <5>1 DEF Holding
        <5> QED BY <4>1, <5>2 DEF IInv, Shares
      <4> QED BY <4>1, <4>2, <4>3 DEF IInv, Shares
    <3> QED BY <3>1, <3>2
  <2>2. job'.queue = job.queue /\ job'.plan = job.plan
    BY DEF Keeps
  <2>3. \A g \in ToSet(job'.queue) : job'.files[g] = "pending"
    <3>1. \A g \in ToSet(job.queue) : g # f /\ g \in File /\ job.files[g] = "pending"
      <4>1. ToSet(job.queue) \subseteq File
        BY DEF IInv, Types, Job, ToSet
      <4> QED BY <1>2, <1>5, <4>1 DEF IInv, Shares
    <3> QED BY <2>2, <3>1
  <2>4. ASSUME NEW g \in ToSet(job'.plan)
        PROVE  \/ g \in ToSet(job'.queue) \/ job'.files[g] \in {"completed", "failed"}
               \/ \E v \in Crew : Holding(v)' /\ job'.run[v].file = g
    <3>1. CASE g = f
      BY <3>1
    <3>2. CASE g # f
      <4>1. g \in File
        BY <2>2 DEF IInv, Types, Job, ToSet
      <4>2. \/ g \in ToSet(job.queue) \/ job.files[g] \in {"completed", "failed"}
            \/ \E v \in Crew : Holding(v) /\ job.run[v].file = g
        BY <1>2, <2>2 DEF IInv, Shares
      <4> QED BY <1>3, <2>2, <3>2, <4>1, <4>2 DEF Holding
    <3> QED BY <3>1, <3>2
  <2>5. job'.run[1].at \in {"none", "gone"} => job'.queue = <<>>
    <3>1. CASE w = 1
      BY <3>1 DEF Holding
    <3>2. CASE w # 1
      BY <1>2, <1>3, <2>2, <3>2, Rest DEF IInv, Shares
    <3> QED BY <3>1, <3>2
  <2>6. IsInjective(job'.queue)
    BY <2>2 DEF IInv, Shares
  <2> QED BY <1>1, <2>1, <2>3, <2>4, <2>5, <2>6 DEF Shares
<1>7. Verified'
  BY <1>1, <1>2, DownloadAssumption DEF IInv, Verified, Keeps
<1>8. Settled'
  BY <1>1, <1>2, <1>5, SMTT(30) DEF IInv, Settled
<1>9. ASSUME job'.clean PROVE Undisturbed'
  <2>1. job.clean /\ Undisturbed /\ job'.want = job.want
    BY <1>9 DEF Keeps, IInv
  <2>2. served' = job'.want /\ ~job'.canceled
    BY <1>2, <2>1 DEF Undisturbed, Keeps, Others
  <2>3. job'.state # "failed" /\ \A g \in File : job'.files[g] # "failed"
    BY <2>1 DEF Undisturbed
  <2>4. \A g \in File : Begins(g, Resumable(g, job.want[g]))'
    <3>1. ASSUME NEW g \in File, g # f PROVE Begins(g, Resumable(g, job.want[g]))'
      <4>1. staged'[g] = staged[g] /\ job'.want[g] = job.want[g]
        BY <2>1, <3>1
      <4>2. Begins(g, Resumable(g, job.want[g]))
        BY <2>1, SMTT(30) DEF Undisturbed
      <4> QED BY <4>1, <4>2 DEF Begins, Resumable
    <3> QED BY <1>9, <3>1
  <2>5. ASSUME NEW v \in Crew
        PROVE  LET r == job'.run[v] IN
               /\ r.at = "copy" => /\ r.from = job'.want[r.file]
                                   /\ Len(staged'[r.file]) < Size[job'.want[r.file]]
               /\ r.at = "verify" \/ (r.at = "send" /\ r.next = "verify")
                     => staged'[r.file] = Exact(job'.want[r.file])
    <3>1. CASE v = w
      BY <1>9, <2>1, <3>1
    <3>2. CASE v # w
      <4>1. job'.run[v] = job.run[v]
        BY <1>3, <3>2
      <4>2. ASSUME job.run[v].at \in {"copy", "verify"}
                   \/ (job.run[v].at = "send" /\ job.run[v].next = "verify")
            PROVE  job.run[v].file # f /\ job.run[v].file \in File
        BY <1>3, <3>2, <4>2 DEF Holding, IInv, Shares
      <4>3. ASSUME job.run[v].at \in {"copy", "verify"}
                   \/ (job.run[v].at = "send" /\ job.run[v].next = "verify")
            PROVE  staged'[job.run[v].file] = staged[job.run[v].file]
        BY <4>2, <4>3, SMTT(30)
      <4>4. job.run[v].at = "copy" => /\ job.run[v].from = job.want[job.run[v].file]
                                      /\ Len(staged[job.run[v].file]) < Size[job.want[job.run[v].file]]
        BY <2>1 DEF Undisturbed
      <4>5. job.run[v].at = "verify" \/ (job.run[v].at = "send" /\ job.run[v].next = "verify")
                => staged[job.run[v].file] = Exact(job.want[job.run[v].file])
        BY <2>1, SMTT(30) DEF Undisturbed
      <4> QED BY <2>1, <4>1, <4>3, <4>4, <4>5
    <3> QED BY <3>1, <3>2
  <2> QED BY <2>2, <2>3, <2>4, <2>5 DEF Undisturbed
<1>10. Undisturbed'
  BY <1>9, SMTT(30) DEF Undisturbed
<1> QED BY <1>1, <1>4, <1>6, <1>7, <1>8, <1>10 DEF IInv

\* Between two files nothing goes wrong with an undisturbed download.
LEMMA CrewUndisturbed ==
    ASSUME IInv, NEW w \in Crew, UNCHANGED Others, UNCHANGED staged, Keeps(job', job), Working,
           \A v \in Crew : v # w => job'.run[v] = job.run[v],
           job'.run[w].at \in {"idle", "gone", "send"},
           job'.run[w].at = "send" => job'.run[w].next \in {"idle", "request"},
           job'.clean => job'.state # "failed" /\ \A g \in File : job'.files[g] # "failed"
    PROVE  Undisturbed'
<1> SUFFICES ASSUME job'.clean PROVE Undisturbed'
  BY DEF Undisturbed
<1>1. job.clean /\ Undisturbed /\ job'.want = job.want
  BY DEF Keeps, IInv
<1>2. served' = job'.want /\ ~job'.canceled
  BY <1>1 DEF Undisturbed, Keeps, Others
<1>3. \A g \in File : Begins(g, Resumable(g, job.want[g]))'
  BY <1>1, SMTT(30) DEF Undisturbed, Begins, Resumable
<1>4. ASSUME NEW v \in Crew
      PROVE  LET r == job'.run[v] IN
             /\ r.at = "copy" => /\ r.from = job'.want[r.file]
                                 /\ Len(staged'[r.file]) < Size[job'.want[r.file]]
             /\ r.at = "verify" \/ (r.at = "send" /\ r.next = "verify")
                   => staged'[r.file] = Exact(job'.want[r.file])
  <2>1. CASE v = w
    BY <2>1
  <2>2. CASE v # w
    BY <1>1, <2>2 DEF Undisturbed
  <2> QED BY <2>1, <2>2
<1> QED BY <1>2, <1>3, <1>4, SMTT(30) DEF Undisturbed

\* The worker is done with its file f.
LEMMA CrewSettles ==
    ASSUME IInv, NEW w \in Crew, NEW f \in File, Holding(w), job.run[w].file = f,
           UNCHANGED Others, job' \in Job, staged' \in [File -> Content], Keeps(job', job),
           job'.queue = job.queue,
           \A v \in Goroutine : v # w => job'.run[v] = job.run[v],
           \A g \in File : g # f => job'.files[g] = job.files[g] /\ staged'[g] = staged[g],
           job'.run[w].at = "send", job'.run[w].next = "idle",
           \/ /\ job'.files[f] = "completed" /\ job'.state = job.state /\ staged' = staged
              /\ f \in Hashed => staged[f] = Exact(job.want[f])
           \/ job'.files[f] = "failed" /\ job'.state = "failed" /\ ~job'.clean
    PROVE  IInv'
<1>0. job.run[w].at \notin {"none", "gone"} /\ w \in Goroutine /\ 0 \in Goroutine /\ w # 0
  BY Rest DEF Holding
<1>1. /\ Types' /\ Asked' /\ Screen' /\ PublishedExact'
      /\ job'.run[0].at = "join" /\ job'.put = {}
      /\ job'.plan # <<>> /\ IsInjective(job'.plan)
      /\ job'.state # "completed" /\ ToSet(job'.plan) = ToSet(job.plan)
  <2>1. job'.state \in {job.state, "failed"}
    OBVIOUS
  <2> QED BY <1>0, <2>1, CrewRest
<1>2. job.run[0].at = "join" /\ job.put = {} /\ Working
  BY <1>0, Joined
<1>3. \A v \in Crew : v # w =>
         /\ job'.run[v] = job.run[v]
         /\ Holding(v)' <=> Holding(v)
         /\ Holding(v) => job.run[v].file # f
  BY Rest DEF Holding, IInv, Shares
<1>4. ~Holding(w)'
  BY DEF Holding
<1>5. Stages'
  <2>1. ASSUME NEW v \in Crew
        PROVE  \/ job'.run[v].at \in {"none", "idle", "gone"} \/ Holding(v)'
               \/ job'.run[v].at = "send" /\ job'.run[v].next = "idle"
    BY <1>3 DEF IInv, Stages, Holding
  <2> QED BY <1>1, <2>1 DEF Stages
<1>6. job'.queue = job.queue /\ job'.plan = job.plan /\ ToSet(job.queue) \subseteq File
      /\ ToSet(job.plan) \subseteq File /\ job'.want = job.want
  BY DEF Keeps, IInv, Types, Job, ToSet
<1>7. Shares'
  <2>1. ASSUME NEW v \in Crew, Holding(v)'
        PROVE  /\ job'.run[v].file \in File
               /\ job'.files[job'.run[v].file] \in {"downloading", "verifying"}
               /\ job'.run[v].at = "copy" => staged'[job'.run[v].file] # Absent
               /\ \A u \in Crew : Holding(u)' /\ job'.run[u].file = job'.run[v].file => u = v
    <3>1. v # w
      BY <1>4, <2>1 DEF Holding
    <3>2. job'.run[v] = job.run[v] /\ Holding(v) /\ job.run[v].file # f
      BY <1>3, <2>1, <3>1, SMTT(30) DEF Holding
    <3>3. ASSUME NEW u \in Crew, Holding(u)', job'.run[u].file = job'.run[v].file
          PROVE  u = v
      <4>1. u # w
        BY <1>4, <3>3 DEF Holding
      <4> QED BY <1>3, <3>2, <3>3, <4>1 DEF IInv, Shares, Holding
    <3> QED BY <3>2, <3>3 DEF IInv, Shares
  <2>2. \A g \in ToSet(job'.queue) : job'.files[g] = "pending"
    BY <1>2, <1>6 DEF IInv, Shares
  <2>3. ASSUME NEW g \in ToSet(job'.plan)
        PROVE  \/ g \in ToSet(job'.queue) \/ job'.files[g] \in {"completed", "failed"}
               \/ \E v \in Crew : Holding(v)' /\ job'.run[v].file = g
    <3>1. CASE g = f
      BY <3>1
    <3>2. CASE g # f
      <4>1. \/ g \in ToSet(job.queue) \/ job.files[g] \in {"completed", "failed"}
            \/ \E v \in Crew : Holding(v) /\ job.run[v].file = g
        BY <1>2, <1>6 DEF IInv, Shares
      <4> QED BY <1>3, <1>6, <3>2, <4>1 DEF Holding
    <3> QED BY <3>1, <3>2
  <2>4. job'.run[1].at \in {"none", "gone"} => job'.queue = <<>>
    BY <1>2, <1>3, <1>6, Rest DEF IInv, Shares
  <2>5. IsInjective(job'.queue)
    BY <1>6 DEF IInv, Shares
  <2> QED BY <1>1, <2>1, <2>2, <2>3, <2>4, <2>5 DEF Shares
<1>8. Verified'
  BY <1>1, <1>2, <1>6, DownloadAssumption DEF IInv, Verified
<1>9. Settled'
  <2>1. job.files[f] # "failed"
    BY DEF IInv, Shares
  <2>2. ASSUME job'.state = "failed" PROVE \E g \in File : job'.files[g] = "failed"
    <3>1. CASE job'.files[f] = "failed"
      BY <3>1
    <3>2. CASE job'.files[f] # "failed"
      <4>1. job.state = "failed"
        BY <2>2, <3>2
      <4>2. PICK g \in File : job.files[g] = "failed"
        BY <1>2, <4>1 DEF IInv, Settled
      <4> QED BY <2>1, <4>2
    <3> QED BY <3>1, <3>2
  <2>3. job'.run[0].at = "join"
    BY <1>1
  <2> QED BY <1>1, <2>2, <2>3 DEF Settled, Ended
<1>10. Undisturbed'
  <2>1. CASE job'.files[f] = "completed" /\ staged' = staged
    <3>1. job'.clean => job'.state # "failed" /\ \A g \in File : job'.files[g] # "failed"
      BY <2>1 DEF IInv, Undisturbed, Keeps
    <3> QED BY <1>2, <1>3, <2>1, <3>1, CrewUndisturbed
  <2>2. CASE ~job'.clean
    BY <2>2 DEF Undisturbed
  <2> QED BY <2>1, <2>2
<1> QED BY <1>1, <1>5, <1>7, <1>8, <1>9, <1>10 DEF IInv

\* The worker has sent its last progress and is idle, or finds no file and goes.
LEMMA CrewRests ==
    ASSUME IInv, NEW w \in Crew, job.run[w].at \notin {"none", "gone"}, ~Holding(w),
           UNCHANGED Others, UNCHANGED staged, job' \in Job, Keeps(job', job),
           job'.queue = job.queue, job'.files = job.files, job'.state = job.state,
           \A v \in Goroutine : v # w => job'.run[v] = job.run[v],
           job'.run[w].at = "idle" \/ (job'.run[w].at = "gone" /\ job.queue = <<>>)
    PROVE  IInv'
<1>1. /\ Types' /\ Asked' /\ Screen' /\ PublishedExact'
      /\ job'.run[0].at = "join" /\ job'.put = {}
      /\ job'.plan # <<>> /\ IsInjective(job'.plan)
      /\ job'.state # "completed" /\ ToSet(job'.plan) = ToSet(job.plan)
  <2>1. staged' \in [File -> Content] /\ job'.state \in {job.state, "failed"}
    BY DEF IInv, Types
  <2> QED BY <2>1, CrewRest
<1>2. job.run[0].at = "join" /\ job.put = {} /\ Working
  BY Joined
<1>3. /\ \A v \in Crew : Holding(v)' <=> Holding(v)
      /\ \A v \in Crew : v # w => job'.run[v] = job.run[v]
      /\ \A v \in Crew : Holding(v) => job'.run[v] = job.run[v]
  BY Rest DEF Holding
<1>4. Stages'
  <2>1. ASSUME NEW v \in Crew
        PROVE  \/ job'.run[v].at \in {"none", "idle", "gone"} \/ Holding(v)'
               \/ job'.run[v].at = "send" /\ job'.run[v].next = "idle"
    BY <1>3 DEF IInv, Stages
  <2> QED BY <1>1, <2>1 DEF Stages
<1>5. job'.plan = job.plan /\ job'.want = job.want
  BY DEF Keeps
<1>6. Shares'
  <2>1. job'.run[1].at \in {"none", "gone"} => job'.queue = <<>>
    BY <1>2, <1>3, Rest DEF IInv, Shares
  <2>2. \A f \in ToSet(job'.plan) :
           \/ f \in ToSet(job'.queue) \/ job'.files[f] \in {"completed", "failed"}
           \/ \E v \in Crew : Holding(v)' /\ job'.run[v].file = f
    BY <1>2, <1>3, <1>5 DEF IInv, Shares
  <2>3. ASSUME NEW v \in Crew, Holding(v)'
        PROVE  /\ job'.run[v].file \in File
               /\ job'.files[job'.run[v].file] \in {"downloading", "verifying"}
               /\ job'.run[v].at = "copy" => staged'[job'.run[v].file] # Absent
               /\ \A u \in Crew : Holding(u)' /\ job'.run[u].file = job'.run[v].file => u = v
    BY <1>3, <2>3 DEF IInv, Shares
  <2> QED BY <1>1, <1>2, <2>1, <2>2, <2>3 DEF IInv, Shares
<1>7. Verified'
  BY <1>1, <1>2, <1>5 DEF IInv, Verified
<1>8. Settled'
  BY <1>1, <1>2 DEF IInv, Settled
<1>9. Undisturbed'
  <2>1. job'.clean => job'.state # "failed" /\ \A g \in File : job'.files[g] # "failed"
    BY DEF IInv, Undisturbed, Keeps
  <2> QED BY <1>2, <1>3, <2>1, CrewUndisturbed
<1> QED BY <1>1, <1>4, <1>6, <1>7, <1>8, <1>9 DEF IInv

\* The worker takes the first file of the queue.
LEMMA CrewTakes ==
    ASSUME IInv, NEW w \in Crew, job.run[w].at = "idle", job.queue # <<>>,
           UNCHANGED Others, UNCHANGED staged, job' \in Job, Keeps(job', job),
           job'.queue = Tail(job.queue), job'.state = job.state,
           job'.files = [job.files EXCEPT ![Head(job.queue)] = "downloading"],
           \A v \in Goroutine : v # w => job'.run[v] = job.run[v],
           job'.run[w].at = "send", job'.run[w].next = "request",
           job'.run[w].file = Head(job.queue)
    PROVE  IInv'
<1> DEFINE f == Head(job.queue)
<1>0. /\ f \in File /\ job'.queue \in Seq(File) /\ IsInjective(job'.queue)
      /\ f \notin ToSet(job'.queue) /\ ToSet(job.queue) = {f} \cup ToSet(job'.queue)
  <2>1. job.queue \in Seq(File) /\ IsInjective(job.queue)
    BY DEF IInv, Types, Job, Shares
  <2> QED BY <2>1, Taking
<1>1. /\ Types' /\ Asked' /\ Screen' /\ PublishedExact'
      /\ job'.run[0].at = "join" /\ job'.put = {}
      /\ job'.plan # <<>> /\ IsInjective(job'.plan)
      /\ job'.state # "completed" /\ ToSet(job'.plan) = ToSet(job.plan)
  <2>1. staged' \in [File -> Content] /\ job'.state \in {job.state, "failed"}
    BY DEF IInv, Types
  <2> QED BY <2>1, CrewRest
<1>2. job.run[0].at = "join" /\ job.put = {} /\ Working
  BY Joined
<1>3. job.files[f] = "pending" /\ job'.files[f] = "downloading"
      /\ \A g \in File : g # f => job'.files[g] = job.files[g]
  BY <1>0, <1>2 DEF IInv, Shares, Types, Job
<1>4. \A v \in Crew : v # w =>
         /\ job'.run[v] = job.run[v]
         /\ Holding(v)' <=> Holding(v)
         /\ Holding(v) => job.run[v].file # f
  BY <1>3, Rest DEF Holding, IInv, Shares
<1>5. ~Holding(w) /\ Holding(w)' /\ job'.run[w].file = f /\ job'.run[w].at = "send"
  BY DEF Holding
<1> HIDE DEF f
<1>6. Stages'
  <2>1. ASSUME NEW v \in Crew
        PROVE  \/ job'.run[v].at \in {"none", "idle", "gone"} \/ Holding(v)'
               \/ job'.run[v].at = "send" /\ job'.run[v].next = "idle"
    BY <1>4, <1>5 DEF IInv, Stages, Holding
  <2> QED BY <1>1, <2>1 DEF Stages
<1>7. job'.plan = job.plan /\ ToSet(job.queue) \subseteq File
      /\ ToSet(job.plan) \subseteq File /\ job'.want = job.want
  BY DEF Keeps, IInv, Types, Job, ToSet
<1>8. Shares'
  <2>1. ASSUME NEW v \in Crew, Holding(v)'
        PROVE  /\ job'.run[v].file \in File
               /\ job'.files[job'.run[v].file] \in {"downloading", "verifying"}
               /\ job'.run[v].at = "copy" => staged'[job'.run[v].file] # Absent
               /\ \A u \in Crew : Holding(u)' /\ job'.run[u].file = job'.run[v].file => u = v
    <3>1. CASE v = w
      BY <1>0, <1>3, <1>4, <1>5, <3>1 DEF Holding
    <3>2. CASE v # w
      <4>1. job'.run[v] = job.run[v] /\ Holding(v) /\ job.run[v].file # f
        BY <1>4, <2>1, <3>2, SMTT(30) DEF Holding
      <4>2. ASSUME NEW u \in Crew, Holding(u)', job'.run[u].file = job'.run[v].file
            PROVE  u = v
        <5>1. u # w
          BY <1>5, <4>1, <4>2
        <5> QED BY <1>4, <4>1, <4>2, <5>1 DEF IInv, Shares, Holding
      <4> QED BY <1>3, <4>1, <4>2 DEF IInv, Shares
    <3> QED BY <3>1, <3>2
  <2>2. \A g \in ToSet(job'.queue) : job'.files[g] = "pending"
    BY <1>0, <1>2, <1>3, <1>7 DEF IInv, Shares
  <2>3. ASSUME NEW g \in ToSet(job'.plan)
        PROVE  \/ g \in ToSet(job'.queue) \/ job'.files[g] \in {"completed", "failed"}
               \/ \E v \in Crew : Holding(v)' /\ job'.run[v].file = g
    <3>1. CASE g = f
      BY <1>5, <3>1 DEF Holding
    <3>2. CASE g # f
      <4>1. \/ g \in ToSet(job.queue) \/ job.files[g] \in {"completed", "failed"}
            \/ \E v \in Crew : Holding(v) /\ job.run[v].file = g
        BY <1>2, <1>7 DEF IInv, Shares
      <4> QED BY <1>0, <1>3, <1>4, <1>5, <1>7, <3>2, <4>1 DEF Holding
    <3> QED BY <3>1, <3>2
  <2>4. job'.run[1].at \in {"none", "gone"} => job'.queue = <<>>
    <3>1. CASE w = 1
      BY <1>5, <3>1
    <3>2. CASE w # 1
      BY <1>2, <1>4, <3>2, Rest DEF IInv, Shares
    <3> QED BY <3>1, <3>2
  <2> QED BY <1>0, <1>1, <2>1, <2>2, <2>3, <2>4 DEF Shares
<1>9. Verified'
  BY <1>1, <1>2, <1>3, <1>7, DownloadAssumption DEF IInv, Verified
<1>10. Settled'
  BY <1>1, <1>2, <1>3 DEF IInv, Settled
<1>11. Undisturbed'
  <2>1. job'.clean => job'.state # "failed" /\ \A g \in File : job'.files[g] # "failed"
    BY <1>3 DEF IInv, Undisturbed, Keeps
  <2> QED BY <1>2, <1>4, <2>1, CrewUndisturbed, SMTT(30)
<1> QED BY <1>1, <1>6, <1>8, <1>9, <1>10, <1>11 DEF IInv

-----------------------------------------------------------------------------
(* The steps of a worker *)

LEMMA SendStep ==
    ASSUME IInv, NEW w \in Crew, Send(w), UNCHANGED <<ui, hub, pipes>>
    PROVE  IInv'
<1> DEFINE r == job.run[w]
           j == [job EXCEPT !.ch = <<r.note>>]
           q == [Nowhere EXCEPT !.at = r.next, !.file = r.file, !.try = 1]
<1>1. job \in Job /\ r \in Run /\ w \in Goroutine
  BY Rest DEF IInv, Types, Job
<1>2. j \in Job /\ Keeps(j, job) /\ j.queue = job.queue /\ j.files = job.files
      /\ j.state = job.state /\ j.run = job.run
  <2>1. <<r.note>> \in Seq(Overall)
    BY <1>1 DEF Run
  <2> DEFINE ch == <<r.note>>
  <2> HIDE DEF ch
  <2>2. [job EXCEPT !.ch = ch] \in Job /\ Keeps([job EXCEPT !.ch = ch], job)
        /\ [job EXCEPT !.ch = ch].queue = job.queue /\ [job EXCEPT !.ch = ch].files = job.files
        /\ [job EXCEPT !.ch = ch].state = job.state /\ [job EXCEPT !.ch = ch].run = job.run
    BY <1>1, <2>1 DEF Job, Keeps, ch
  <2> QED BY <2>2 DEF ch
<1>3. q \in Run /\ q.at = r.next /\ q.file = r.file
  <2>1. Nowhere \in Run /\ 1 \in 0..MaxRetries /\ r.next \in Point /\ r.file \in File \cup {"none"}
    BY <1>1, Rest, DownloadAssumption DEF Run
  <2> HIDE DEF Nowhere, r
  <2> QED BY <2>1 DEF Run
<1>4. job' = [j EXCEPT !.run[w] = q] /\ UNCHANGED Others /\ UNCHANGED staged
  BY DEF Send, disk, Others, pipes
<1>5. r.at = "send" /\ r.next \in {"idle", "request", "verify"}
  BY DEF Send, IInv, Stages, Holding
<1> HIDE DEF q, j
<1>6. /\ job' \in Job /\ Keeps(job', job) /\ job'.queue = job.queue /\ job'.files = job.files
      /\ job'.state = job.state /\ job'.run[w] = q
      /\ \A v \in Goroutine : v # w => job'.run[v] = job.run[v]
  BY <1>1, <1>2, <1>3, <1>4, Moving DEF Keeps
<1>7. CASE r.next = "idle"
  <2>1. ~Holding(w) /\ job.run[w].at \notin {"none", "gone"} /\ job'.run[w].at = "idle"
    BY <1>3, <1>5, <1>6, <1>7 DEF Holding
  <2> QED BY <1>4, <1>6, <2>1, CrewRests
<1>8. CASE r.next \in {"request", "verify"}
  <2>1. Holding(w) /\ Holding(w)' /\ job'.run[w].at = r.next /\ job'.run[w].file = r.file
    BY <1>3, <1>5, <1>6, <1>8 DEF Holding
  <2>2. PICK f \in File : f = r.file
    BY <2>1 DEF IInv, Shares
  <2>3. job'.files[f] \in {"downloading", "verifying"}
    BY <1>6, <2>1, <2>2 DEF IInv, Shares
  <2>4. staged' \in [File -> Content] /\ job'.run[w].at # "copy"
    BY <1>4, <1>8, <2>1 DEF IInv, Types
  <2>5. ASSUME job'.clean
        PROVE  /\ Begins(f, Resumable(f, job.want[f]))'
               /\ job'.run[w].at = "verify" \/ (job'.run[w].at = "send" /\ job'.run[w].next = "verify")
                     => staged'[f] = Exact(job.want[f])
    <3>1. job.clean /\ job'.want = job.want /\ Undisturbed
      BY <1>6, <2>5 DEF Keeps, IInv
    <3>2. Begins(f, Resumable(f, job.want[f]))'
      BY <1>4, <3>1 DEF Undisturbed, Begins, Resumable
    <3>3. r.next = "verify" => staged[f] = Exact(job.want[f])
      BY <1>5, <2>2, <3>1 DEF Undisturbed
    <3> QED BY <1>4, <1>8, <2>1, <3>2, <3>3
  <2> HIDE DEF r
  <2> QED BY <1>4, <1>6, <2>1, <2>2, <2>3, <2>4, <2>5, CrewKeeps DEF r
<1> QED BY <1>5, <1>7, <1>8

LEMMA TakeStep ==
    ASSUME IInv, NEW w \in Crew, TakeJob(w), UNCHANGED <<ui, hub, pipes>>
    PROVE  IInv'
<1>1. job \in Job /\ w \in Goroutine /\ job.run[w] \in Run /\ job.run[w].at = "idle"
  BY Rest DEF IInv, Types, Job, TakeJob
<1>2. UNCHANGED Others /\ UNCHANGED staged
  BY DEF TakeJob, disk, Others, pipes
<1>3. ~Holding(w) /\ job.run[w].at \notin {"none", "gone"}
  BY <1>1 DEF Holding
<1>4. CASE job.queue = <<>>
  <2> DEFINE q == [Nowhere EXCEPT !.at = "gone"]
  <2>1. q \in Run /\ q.at = "gone"
    <3>1. Nowhere \in Run /\ "gone" \in Point
      BY Rest DEF Point
    <3> HIDE DEF Nowhere
    <3> QED BY <3>1 DEF Run
  <2>2. job' = [job EXCEPT !.run[w] = q]
    BY <1>4 DEF TakeJob
  <2> HIDE DEF q
  <2>3. /\ job' \in Job /\ Keeps(job', job) /\ job'.queue = job.queue /\ job'.files = job.files
        /\ job'.state = job.state /\ job'.run[w].at = "gone"
        /\ \A v \in Goroutine : v # w => job'.run[v] = job.run[v]
    BY <1>1, <2>1, <2>2, Moving
  <2> QED BY <1>2, <1>3, <1>4, <2>3, CrewRests
<1>5. CASE job.queue # <<>>
  <2> DEFINE f == Head(job.queue)
             queue == Tail(job.queue)
             files == [job.files EXCEPT ![f] = "downloading"]
             j == [job EXCEPT !.queue = queue, !.files = files]
             q == [job.run[w] EXCEPT !.file = f]
             k == [j EXCEPT !.run[w] = q]
  <2>1. f \in File /\ queue \in Seq(File) /\ files \in [File -> FileState]
    <3>1. f \in File /\ queue \in Seq(File)
      BY <1>1, <1>5 DEF Job
    <3> QED BY <1>1, <3>1 DEF Job, FileState
  <2>2. q \in Run /\ q.file = f
    <3> HIDE DEF f
    <3> QED BY <1>1, <2>1 DEF Run
  <2>3. job' = Update(k, w, "request")
    BY <1>5 DEF TakeJob
  <2> HIDE DEF f, queue, files, q
  <2>4. j \in Job /\ Keeps(j, job) /\ j.queue = queue /\ j.files = files /\ j.state = job.state
        /\ j.run = job.run
    BY <1>1, <2>1 DEF Job, Keeps
  <2> HIDE DEF j
  <2>5. /\ k \in Job /\ Keeps(k, j) /\ k.queue = j.queue /\ k.files = j.files
        /\ k.state = j.state /\ k.run[w] = q
        /\ \A v \in Goroutine : v # w => k.run[v] = j.run[v]
    BY <1>1, <2>2, <2>4, Moving
  <2> HIDE DEF k
  <2>6. "request" \in Point
    BY DEF Point
  <2>7. /\ job' \in Job /\ Keeps(job', k) /\ job'.queue = k.queue /\ job'.files = k.files
        /\ job'.state = k.state /\ job'.run[w].at = "send" /\ job'.run[w].next = "request"
        /\ job'.run[w].file = k.run[w].file
        /\ \A v \in Goroutine : v # w => job'.run[v] = k.run[v]
    BY <1>1, <2>3, <2>5, <2>6, Updating
  <2>8. Keeps(job', job)
    BY <2>4, <2>5, <2>7 DEF Keeps
  <2>9. /\ job'.queue = Tail(job.queue) /\ job'.state = job.state
        /\ job'.files = [job.files EXCEPT ![Head(job.queue)] = "downloading"]
        /\ job'.run[w].file = Head(job.queue)
        /\ \A v \in Goroutine : v # w => job'.run[v] = job.run[v]
    BY <2>2, <2>4, <2>5, <2>7 DEF f, queue, files
  <2> QED BY <1>1, <1>2, <1>5, <2>7, <2>8, <2>9, CrewTakes
<1> QED BY <1>4, <1>5

\* A file that fails disturbs the download.
LEMMA FailedStep ==
    ASSUME IInv, NEW w \in Crew, NEW f \in File, Holding(w), job.run[w].file = f,
           UNCHANGED Others, staged' \in [File -> Content],
           \A g \in File : g # f => staged'[g] = staged[g],
           job' = Failed(job, w) \/ job' = [Failed(job, w) EXCEPT !.clean = FALSE], ~job'.clean
    PROVE  IInv'
<1> DEFINE k == Failed(job, w)
<1>1. job \in Job /\ w \in Goroutine
  BY Rest DEF IInv, Types
<1>2. /\ k \in Job /\ Keeps(k, job) /\ k.queue = job.queue
      /\ k.files = [job.files EXCEPT ![f] = "failed"] /\ k.state = "failed"
      /\ \A v \in Goroutine : v # w => k.run[v] = job.run[v]
      /\ k.run[w].at = "send" /\ k.run[w].next = "idle"
  BY <1>1, Failing
<1>3. job.files \in [File -> FileState]
  BY <1>1 DEF Job
<1> HIDE DEF k
<1>4. /\ job' \in Job /\ Keeps(job', k) /\ job'.queue = k.queue /\ job'.files = k.files
      /\ job'.state = k.state /\ job'.run = k.run
  <2>1. CASE job' = k
    BY <1>2, <2>1 DEF Keeps
  <2>2. CASE job' = [k EXCEPT !.clean = FALSE]
    BY <1>2, <2>2, Spoiling
  <2> QED BY <2>1, <2>2 DEF k
<1>5. Keeps(job', job)
  BY <1>2, <1>4 DEF Keeps
<1>6. /\ job'.files[f] = "failed" /\ job'.state = "failed" /\ job'.queue = job.queue
      /\ \A g \in File : g # f => job'.files[g] = job.files[g] /\ staged'[g] = staged[g]
      /\ \A v \in Goroutine : v # w => job'.run[v] = job.run[v]
      /\ job'.run[w].at = "send" /\ job'.run[w].next = "idle"
  BY <1>2, <1>3, <1>4
<1> QED BY <1>4, <1>5, <1>6, CrewSettles

\* A file that waits, or goes on, after a failure disturbs it too.
LEMMA WaitsStep ==
    ASSUME IInv, NEW w \in Crew, NEW f \in File, job.run[w].at \in {"wait", "request", "copy"},
           job.run[w].file = f, UNCHANGED Others, UNCHANGED staged,
           NEW q \in Run, q.at \in {"wait", "request"}, q.file = f,
           LET k == [job EXCEPT !.run[w] = q] IN
              job' = k \/ job' = [k EXCEPT !.clean = FALSE]
    PROVE  IInv'
<1> DEFINE k == [job EXCEPT !.run[w] = q]
<1>1. job \in Job /\ w \in Goroutine /\ Holding(w)
  BY Rest DEF IInv, Types, Holding
<1>2. /\ k \in Job /\ Keeps(k, job) /\ k.queue = job.queue /\ k.files = job.files
      /\ k.state = job.state /\ k.run[w] = q
      /\ \A v \in Goroutine : v # w => k.run[v] = job.run[v]
  BY <1>1, Moving
<1> HIDE DEF k
<1>3. /\ job' \in Job /\ Keeps(job', k) /\ job'.queue = k.queue /\ job'.files = k.files
      /\ job'.state = k.state /\ job'.run = k.run
  <2>1. CASE job' = k
    BY <1>2, <2>1 DEF Keeps
  <2>2. CASE job' = [k EXCEPT !.clean = FALSE]
    BY <1>2, <2>2, Spoiling
  <2> QED BY <2>1, <2>2 DEF k
<1>4. Keeps(job', job)
  BY <1>2, <1>3 DEF Keeps
<1>5. Holding(w)' /\ job'.run[w] = q /\ job.files[f] \in {"downloading", "verifying"}
  BY <1>1, <1>2, <1>3, SMTT(30) DEF Holding, IInv, Shares
<1>6. job'.clean => Begins(f, Resumable(f, job.want[f]))'
  BY <1>4 DEF Keeps, IInv, Undisturbed, Begins, Resumable
<1>7. staged' \in [File -> Content]
  BY DEF IInv, Types
<1> QED BY <1>1, <1>2, <1>3, <1>4, <1>5, <1>6, <1>7, CrewKeeps

\* What waits to try again is a run of the same file.
LEMMA Waiting ==
    ASSUME NEW r \in Run, NEW t \in 0..MaxRetries
    PROVE  LET q == [r EXCEPT !.at = "wait", !.try = t]
           IN  q \in Run /\ q.at = "wait" /\ q.file = r.file
<1>1. "wait" \in Point
  BY DEF Point
<1> QED BY <1>1 DEF Run

\* Two fields of a run are set as one run is.
LEMMA TwoFields ==
    ASSUME NEW j \in Job, NEW w \in Goroutine
    PROVE  [j EXCEPT !.run[w].at = "wait", !.run[w].try = @ + 1]
             = [j EXCEPT !.run[w] = [j.run[w] EXCEPT !.at = "wait", !.try = j.run[w].try + 1]]
<1>1. j.run \in [Goroutine -> Run] /\ j.run[w] \in Run
  BY DEF Job
<1> DEFINE f == [j.run EXCEPT ![w].at = "wait", ![w].try = @ + 1]
           g == [j.run EXCEPT ![w] = [j.run[w] EXCEPT !.at = "wait", !.try = j.run[w].try + 1]]
<1>2. f = g
  BY <1>1 DEF Run
<1>3. [j EXCEPT !.run[w].at = "wait", !.run[w].try = @ + 1] = [j EXCEPT !.run = f]
  BY <1>1 DEF Job
<1>4. [j EXCEPT !.run[w] = [j.run[w] EXCEPT !.at = "wait", !.try = j.run[w].try + 1]] = [j EXCEPT !.run = g]
  BY <1>1 DEF Job
<1> QED BY <1>2, <1>3, <1>4

\* An attempt fails for good, or is repeated.
LEMMA ErredStep ==
    ASSUME IInv, NEW w \in Crew, NEW f \in File, job.run[w].at \in {"request", "copy"},
           job.run[w].file = f, UNCHANGED Others, UNCHANGED staged, NEW permanent \in BOOLEAN,
           \/ job' = Erred(job, w, permanent) /\ ~job.clean
           \/ job' = [Erred(job, w, permanent) EXCEPT !.clean = FALSE]
    PROVE  IInv'
<1> DEFINE r == job.run[w]
<1>1. job \in Job /\ w \in Goroutine /\ r \in Run /\ Holding(w)
  BY Rest DEF IInv, Types, Job, Holding
<1>2. CASE job.canceled \/ permanent \/ r.try = MaxRetries
  <2>1. Erred(job, w, permanent) = Failed(job, w)
    BY <1>2 DEF Erred
  <2>2. Failed(job, w) \in Job /\ (Failed(job, w).clean => job.clean)
    BY <1>1, Failing DEF Keeps
  <2>3. ~job'.clean
    BY <2>1, <2>2, Spoiling
  <2>4. staged' \in [File -> Content]
    BY DEF IInv, Types
  <2> QED BY <1>1, <2>1, <2>3, <2>4, FailedStep
<1>3. CASE ~(job.canceled \/ permanent \/ r.try = MaxRetries)
  <2> DEFINE try == r.try + 1
             q == [r EXCEPT !.at = "wait", !.try = try]
  <2>1. try \in 0..MaxRetries
    <3>1. r.try \in 0..MaxRetries
      BY <1>1 DEF Run
    <3>2. r.try # MaxRetries
      BY <1>3
    <3>3. MaxRetries \in Nat
      BY DownloadAssumption
    <3> HIDE DEF r
    <3> QED BY <3>1, <3>2, <3>3
  <2>2. Erred(job, w, permanent) = [job EXCEPT !.run[w] = q]
    <3>1. Erred(job, w, permanent) = [job EXCEPT !.run[w].at = "wait", !.run[w].try = @ + 1]
      BY <1>3 DEF Erred
    <3> QED BY <1>1, <3>1, TwoFields
  <2> HIDE DEF try
  <2>3. q \in Run /\ q.at = "wait" /\ q.file = f
    <3>1. r \in Run /\ r.file = f
      BY <1>1
    <3> HIDE DEF r
    <3> QED BY <2>1, <3>1, Waiting
  <2> HIDE DEF q
  <2> DEFINE k == [job EXCEPT !.run[w] = q]
  <2>4. job' = k \/ job' = [k EXCEPT !.clean = FALSE]
    BY <2>2
  <2>5. q.at \in {"wait", "request"} /\ job.run[w].at \in {"wait", "request", "copy"}
    BY <2>3
  <2> QED BY <2>3, <2>4, <2>5, WaitsStep, ZenonT(60)
<1> QED BY <1>2, <1>3

LEMMA WaitStep ==
    ASSUME IInv, NEW w \in Crew, Wait(w), UNCHANGED <<ui, hub, pipes>>
    PROVE  IInv'
<1>1. job \in Job /\ w \in Goroutine /\ job.run[w] \in Run /\ job.run[w].at = "wait"
      /\ Holding(w)
  BY Rest DEF IInv, Types, Job, Wait, Holding
<1>2. UNCHANGED Others /\ UNCHANGED staged
  BY DEF Wait, disk, Others, pipes
<1>3. PICK f \in File : job.run[w].file = f
  BY <1>1 DEF IInv, Shares
<1>4. CASE job' = [job EXCEPT !.run[w].at = "request"]
  <2> DEFINE q == [job.run[w] EXCEPT !.at = "request"]
  <2>1. q \in Run /\ q.at = "request" /\ q.file = f
    BY <1>1, <1>3 DEF Run, Point
  <2>2. job' = [job EXCEPT !.run[w] = q]
    BY <1>4
  <2> HIDE DEF q
  <2> QED BY <1>1, <1>2, <1>3, <2>1, <2>2, WaitsStep
<1>5. CASE job.canceled /\ job' = Failed(job, w)
  <2>1. ~job.clean
    BY <1>1, <1>5, Joined DEF IInv, Undisturbed
  <2>2. ~job'.clean
    BY <1>1, <1>3, <1>5, <2>1, Failing DEF Keeps
  <2>3. staged' \in [File -> Content]
    BY <1>2 DEF IInv, Types
  <2> QED BY <1>1, <1>2, <1>3, <1>5, <2>2, <2>3, FailedStep, SMTT(30)
<1> QED BY <1>4, <1>5 DEF Wait

LEMMA RequestFailsStep ==
    ASSUME IInv, NEW w \in Crew, RequestFails(w), UNCHANGED <<ui, hub, pipes>>
    PROVE  IInv'
<1>1. job.run[w].at \in {"request", "copy"} /\ Holding(w)
  BY DEF RequestFails, Holding
<1>2. UNCHANGED Others /\ UNCHANGED staged
  BY DEF RequestFails, disk, Others, pipes
<1>3. PICK f \in File : job.run[w].file = f
  BY <1>1 DEF IInv, Shares
<1>4. \/ job' = Erred(job, w, FALSE) /\ ~job.clean
      \/ job' = [Erred(job, w, FALSE) EXCEPT !.clean = FALSE]
  <2>1. job.canceled => ~job.clean
    BY <1>1, Joined DEF IInv, Undisturbed
  <2> QED BY <2>1 DEF RequestFails
<1> QED BY <1>1, <1>2, <1>3, <1>4, ErredStep

LEMMA ResumeStep ==
    ASSUME IInv, NEW w \in Crew, Resume(w), UNCHANGED <<ui, hub, pipes>>
    PROVE  IInv'
<1> DEFINE r == job.run[w]
<1>1. /\ job \in Job /\ w \in Goroutine /\ r \in Run /\ r.at = "request" /\ Holding(w)
      /\ job.want \in [File -> Version] /\ served \in [File -> Version]
  BY Rest DEF IInv, Types, Job, Resume, Holding
<1>2. UNCHANGED Others /\ UNCHANGED staged
  BY DEF Resume, disk, Others, pipes
<1>3. PICK f \in File : r.file = f
  BY <1>1 DEF IInv, Shares
<1>4. /\ staged[f] # Absent /\ Len(staged[f]) < Size[job.want[f]]
      /\ Resumable(f, job.want[f]) = Len(staged[f])
  BY <1>3, SMTT(30) DEF Resume, Resumable
<1>5. job.clean => served = job.want /\ Begins(f, Resumable(f, job.want[f]))
  BY <1>1, Joined DEF IInv, Undisturbed
<1>6. CASE Len(staged[f]) >= Size[served[f]]
  <2>1. ~job.clean
    <3>1. /\ Len(staged[f]) \in Nat /\ Size[served[f]] \in Nat
      BY <1>1, <1>4, Versions DEF IInv, Types, Content
    <3> QED BY <1>4, <1>5, <1>6, <3>1
  <2>2. job' = Erred(job, w, FALSE)
    BY <1>3, <1>4, <1>6 DEF Resume
  <2> QED BY <1>1, <1>2, <1>3, <2>1, <2>2, ErredStep
<1>7. CASE ~(Len(staged[f]) >= Size[served[f]])
  <2> DEFINE q == [r EXCEPT !.at = "copy", !.from = served[f], !.resumed = TRUE]
  <2>1. q \in Run /\ q.at = "copy" /\ q.file = f /\ q.from = served[f]
    <3>1. "copy" \in Point /\ served[f] \in Version
      BY <1>1 DEF Point
    <3> HIDE DEF r
    <3> QED BY <1>1, <1>3, <3>1 DEF Run
  <2>2. job' = [job EXCEPT !.run[w] = q]
    BY <1>3, <1>4, <1>7 DEF Resume
  <2> HIDE DEF q
  <2>3. /\ job' \in Job /\ Keeps(job', job) /\ job'.queue = job.queue /\ job'.files = job.files
        /\ job'.state = job.state /\ job'.run[w] = q
        /\ \A v \in Goroutine : v # w => job'.run[v] = job.run[v]
    BY <1>1, <2>1, <2>2, Moving, SMTT(30)
  <2>4. Holding(w)' /\ job.files[f] \in {"downloading", "verifying"}
    BY <1>1, <1>3, <2>1, <2>3 DEF Holding, IInv, Shares
  <2>5. staged' \in [File -> Content]
    BY <1>2 DEF IInv, Types
  <2>6. job'.clean => Begins(f, Resumable(f, job.want[f]))'
    BY <1>2, <1>5, <2>3 DEF Keeps, Begins, Resumable
  <2> HIDE DEF r
  <2>7. job.run[w].file = f
    BY <1>3 DEF r
  <2>8. job'.clean => job'.run[w].from = job.want[f] /\ Len(staged'[f]) < Size[job.want[f]]
    BY <1>2, <1>4, <1>5, <2>1, <2>3 DEF Keeps
  <2> QED BY <1>1, <1>2, <1>4, <2>1, <2>3, <2>4, <2>5, <2>6, <2>7, <2>8, CrewKeeps
<1> QED BY <1>6, <1>7

LEMMA FreshStep ==
    ASSUME IInv, NEW w \in Crew, Fresh(w), UNCHANGED <<ui, hub, pipes>>
    PROVE  IInv'
<1> DEFINE r == job.run[w]
<1>1. /\ job \in Job /\ w \in Goroutine /\ r \in Run /\ r.at = "request" /\ Holding(w)
      /\ job.want \in [File -> Version] /\ served \in [File -> Version]
      /\ staged \in [File -> Content]
  BY Rest DEF IInv, Types, Job, Fresh, Holding
<1>2. UNCHANGED Others
  BY DEF Fresh, Others, pipes
<1>3. PICK f \in File : r.file = f
  BY <1>1, SMTT(30) DEF IInv, Shares
<1>4. job.clean => served = job.want
  BY <1>1, Joined DEF IInv, Undisturbed
<1>5. CASE Size[served[f]] # Size[job.want[f]] /\ job' = Erred(job, w, TRUE) /\ UNCHANGED staged
  <2>1. ~job.clean
    BY <1>4, <1>5
  <2> QED BY <1>1, <1>2, <1>3, <1>5, <2>1, ErredStep
<1>6. ASSUME staged' = [staged EXCEPT ![f] = <<>>],
             job' = [job EXCEPT !.run[w] = [r EXCEPT !.at = "copy", !.from = served[f],
                                                     !.resumed = FALSE]]
      PROVE  IInv'
  <2> DEFINE q == [r EXCEPT !.at = "copy", !.from = served[f], !.resumed = FALSE]
  <2>1. q \in Run /\ q.at = "copy" /\ q.file = f /\ q.from = served[f]
    <3>1. "copy" \in Point /\ served[f] \in Version
      BY <1>1 DEF Point
    <3> HIDE DEF r
    <3> QED BY <1>1, <1>3, <3>1 DEF Run
  <2>2. job' = [job EXCEPT !.run[w] = q]
    BY <1>6
  <2> HIDE DEF q
  <2>3. /\ job' \in Job /\ Keeps(job', job) /\ job'.queue = job.queue /\ job'.files = job.files
        /\ job'.state = job.state /\ job'.run[w] = q
        /\ \A v \in Goroutine : v # w => job'.run[v] = job.run[v]
    BY <1>1, <2>1, <2>2, Moving, SMTT(30)
  <2>4. Holding(w)' /\ job.files[f] \in {"downloading", "verifying"}
    BY <1>1, <1>3, <2>1, <2>3 DEF Holding, IInv, Shares
  <2>5. /\ staged' \in [File -> Content] /\ staged'[f] = <<>> /\ <<>> # Absent
        /\ \A g \in File : g # f => staged'[g] = staged[g]
    BY <1>1, <1>6 DEF Content, Absent
  <2>6. Begins(f, Resumable(f, job.want[f]))'
    BY <2>5 DEF Begins, Resumable
  <2>7. 0 < Size[job.want[f]] /\ Len(<<>>) = 0
    BY <1>1, Versions
  <2>8. job'.clean => job'.run[w].from = job.want[f] /\ Len(staged'[f]) < Size[job.want[f]]
    BY <1>4, <2>1, <2>3, <2>5, <2>7 DEF Keeps
  <2> HIDE DEF r
  <2>9. job.run[w].file = f
    BY <1>3 DEF r
  <2> QED BY <1>1, <1>2, <2>1, <2>3, <2>4, <2>5, <2>6, <2>8, <2>9, CrewKeeps
<1> QED BY <1>3, <1>5, <1>6 DEF Fresh

LEMMA VerifyStep ==
    ASSUME IInv, NEW w \in Crew, Verify(w), UNCHANGED <<ui, hub, pipes>>
    PROVE  IInv'
<1>1. /\ job \in Job /\ w \in Goroutine /\ job.run[w].at = "verify" /\ Holding(w)
  BY Rest DEF IInv, Types, Job, Verify, Holding
<1>2. UNCHANGED Others /\ UNCHANGED staged
  BY DEF Verify, disk, Others, pipes
<1>3. PICK f \in File : job.run[w].file = f
  BY <1>1 DEF IInv, Shares
<1>4. staged' \in [File -> Content]
  BY <1>2 DEF IInv, Types
<1>5. CASE f \in Hashed /\ staged[f] # Exact(job.want[f])
  <2>1. job' = Failed(job, w)
    BY <1>3, <1>5 DEF Verify
  <2>2. ~job.clean
    BY <1>1, <1>3, <1>5 DEF IInv, Undisturbed
  <2>3. ~job'.clean
    BY <1>1, <1>3, <2>1, <2>2, Failing DEF Keeps
  <2> QED BY <1>1, <1>2, <1>3, <1>4, <2>1, <2>3, FailedStep
<1>6. CASE ~(f \in Hashed /\ staged[f] # Exact(job.want[f]))
  <2> DEFINE files == [job.files EXCEPT ![f] = "completed"]
             j == [job EXCEPT !.files = files]
  <2>1. job' = Update(j, w, "idle")
    BY <1>3, <1>6 DEF Verify
  <2>2. files \in [File -> FileState] /\ files[f] = "completed"
        /\ \A g \in File : g # f => files[g] = job.files[g]
    BY <1>1 DEF Job, FileState
  <2> HIDE DEF files
  <2>3. j \in Job /\ Keeps(j, job) /\ j.files = files /\ j.queue = job.queue
        /\ j.state = job.state /\ j.run = job.run
    BY <1>1, <2>2 DEF Job, Keeps
  <2> HIDE DEF j
  <2>4. "idle" \in Point
    BY DEF Point
  <2>5. /\ job' \in Job /\ Keeps(job', j) /\ job'.queue = j.queue /\ job'.files = j.files
        /\ job'.state = j.state /\ job'.run[w].at = "send" /\ job'.run[w].next = "idle"
        /\ \A v \in Goroutine : v # w => job'.run[v] = j.run[v]
    BY <1>1, <2>1, <2>3, <2>4, Updating
  <2>6. Keeps(job', job)
    BY <2>3, <2>5 DEF Keeps
  <2> QED BY <1>1, <1>2, <1>3, <1>4, <1>6, <2>2, <2>3, <2>5, <2>6, CrewSettles
<1> QED BY <1>5, <1>6

\* One chunk more: the partial of an undisturbed download is still the beginning
\* of what the plan lists, or all of it.
LEMMA CopyStep ==
    ASSUME IInv, NEW w \in Crew, Copy(w), UNCHANGED <<ui, hub, pipes>>
    PROVE  IInv'
<1> DEFINE r == job.run[w]
<1>1. /\ job \in Job /\ w \in Goroutine /\ r \in Run /\ r.at = "copy" /\ Holding(w)
      /\ job.want \in [File -> Version] /\ staged \in [File -> Content]
  BY Rest DEF IInv, Types, Job, Copy, Holding
<1>2. UNCHANGED Others
  BY DEF Copy, Others, pipes
<1>3. PICK f \in File : r.file = f
  BY <1>1 DEF IInv, Shares
<1> DEFINE v == job.want[f]
           n == Len(staged[f])
<1>4. /\ v \in Version /\ r.from \in Version /\ staged[f] \in Seq(Version) /\ n \in Nat
      /\ Size[v] \in Nat /\ Size[r.from] \in Nat
  <2>1. staged[f] # Absent
    BY <1>1, <1>3 DEF IInv, Shares
  <2> QED BY <1>1, <1>3, <2>1, Versions DEF Content, Run
<1>5. /\ staged' = [staged EXCEPT ![f] = Append(staged[f], r.from)]
      /\ job' = IF n + 1 < Size[r.from] THEN job
                ELSE IF r.resumed /\ n + 1 # Size[v] THEN Erred(job, w, TRUE)
                ELSE Update([job EXCEPT !.files[f] = "verifying"], w, "verify")
  BY <1>3 DEF Copy
<1>6. /\ staged'[f] \in Seq(Version) /\ Len(staged'[f]) = n + 1
      /\ staged'[f][n + 1] = r.from /\ \A i \in 1..n : staged'[f][i] = staged[f][i]
  <2>1. staged'[f] = Append(staged[f], r.from)
    BY <1>1, <1>5
  <2> QED BY <1>4, <2>1
<1>7. /\ staged' \in [File -> Content] /\ staged'[f] # Absent
      /\ \A g \in File : g # f => staged'[g] = staged[g]
  BY <1>1, <1>5, <1>6, Versions DEF Content
<1> HIDE DEF r
<1>8. job.run[w] = r
  BY DEF r
<1>9. job.clean => r.from = v /\ n < Size[v] /\ \A i \in 1..n : staged[f][i] = v
  <2>1. job.clean => r.from = v /\ n < Size[v] /\ Begins(f, Resumable(f, v))
    BY <1>1, <1>3, <1>8 DEF IInv, Undisturbed
  <2>2. n < Size[v] => Resumable(f, v) = n
    BY <1>1, <1>3, <1>8 DEF Resumable, IInv, Shares
  <2> QED BY <2>1, <2>2 DEF Begins
<1>10. job.clean => \A i \in 1..(n + 1) : staged'[f][i] = v
  BY <1>4, <1>6, <1>9
<1>11. job.clean => Begins(f, Resumable(f, v))'
  <2>1. job'.want = job.want
    <3>1. CASE job' = job
      BY <3>1
    <3>2. CASE job' = Erred(job, w, TRUE)
      BY <1>1, <1>3, <1>8, <3>2, Failing DEF Erred, Keeps
    <3>3. CASE job' = Update([job EXCEPT !.files[f] = "verifying"], w, "verify")
      BY <1>1, <3>3 DEF Update, Job
    <3> QED BY <1>5, <3>1, <3>2, <3>3
  <2>2. job'.want[f] = v
    BY <2>1
  <2>3. Resumable(f, v)' \in 0..(n + 1)
    BY <1>4, <1>6, <2>2 DEF Resumable
  <2> QED BY <1>4, <1>10, <2>2, <2>3 DEF Begins
<1>12. CASE n + 1 < Size[r.from]
  <2>1. job' = job /\ Keeps(job', job)
    BY <1>5, <1>12 DEF Keeps
  <2>2. Holding(w)' /\ job'.run[w] = r
    BY <1>1, <1>8, <2>1 DEF Holding
  <2>3. job'.files[f] \in {"downloading", "verifying"}
    BY <1>1, <1>3, <1>8, <2>1 DEF IInv, Shares
  <2>4. job'.clean => Begins(f, Resumable(f, job.want[f]))'
    BY <1>11, <2>1
  <2>5. job'.clean => r.from = job.want[f] /\ Len(staged'[f]) < Size[job.want[f]]
    BY <1>6, <1>9, <1>12, <2>1
  <2> HIDE DEF n, v
  <2> QED BY <1>1, <1>2, <1>3, <1>7, <1>8, <2>1, <2>2, <2>3, <2>4, <2>5, CrewKeeps
<1>13. CASE ~(n + 1 < Size[r.from]) /\ r.resumed /\ n + 1 # Size[v]
  <2>1. job' = Failed(job, w)
    BY <1>5, <1>13 DEF Erred
  <2>2. ~job.clean
    BY <1>4, <1>9, <1>13
  <2>3. ~job'.clean
    BY <1>1, <1>3, <1>8, <2>1, <2>2, Failing DEF Keeps
  <2> HIDE DEF n, v
  <2> QED BY <1>1, <1>2, <1>3, <1>7, <1>8, <2>1, <2>3, FailedStep
<1>14. CASE ~(n + 1 < Size[r.from]) /\ ~(r.resumed /\ n + 1 # Size[v])
  <2> DEFINE files == [job.files EXCEPT ![f] = "verifying"]
             j == [job EXCEPT !.files = files]
  <2>1. job' = Update(j, w, "verify")
    BY <1>5, <1>14
  <2>2. files \in [File -> FileState] /\ files[f] = "verifying"
        /\ \A g \in File : g # f => files[g] = job.files[g]
    BY <1>1 DEF Job, FileState
  <2> HIDE DEF files
  <2>3. j \in Job /\ Keeps(j, job) /\ j.files = files /\ j.queue = job.queue
        /\ j.state = job.state /\ j.run = job.run
    BY <1>1, <2>2 DEF Job, Keeps
  <2> HIDE DEF j
  <2>4. "verify" \in Point
    BY DEF Point
  <2>5. /\ job' \in Job /\ Keeps(job', j) /\ job'.queue = j.queue /\ job'.files = j.files
        /\ job'.state = j.state /\ job'.run[w].at = "send" /\ job'.run[w].next = "verify"
        /\ job'.run[w].file = j.run[w].file
        /\ \A u \in Goroutine : u # w => job'.run[u] = j.run[u]
    BY <1>1, <2>1, <2>3, <2>4, Updating
  <2>6. Keeps(job', job) /\ (job'.clean => job.clean)
    BY <2>3, <2>5 DEF Keeps
  <2>7. Holding(w)' /\ job'.run[w].file = f /\ job'.run[w].at # "copy"
    BY <1>3, <1>8, <2>3, <2>5 DEF Holding
  <2>8. job'.clean => Begins(f, Resumable(f, job.want[f]))'
    BY <1>11, <2>6
  <2>9. job'.clean => staged'[f] = Exact(job.want[f])
    <3>1. SUFFICES ASSUME job.clean PROVE staged'[f] = Exact(v)
      BY <2>6
    <3>2. n + 1 = Size[v]
      BY <1>4, <1>9, <1>14, <3>1
    <3>3. /\ Exact(v) \in Seq(Version) /\ Len(Exact(v)) = Size[v]
          /\ \A i \in 1..Size[v] : Exact(v)[i] = v
      BY <1>4, Versions
    <3> QED BY <1>6, <1>10, <3>1, <3>2, <3>3, SMTT(60)
  <2> HIDE DEF n, v
  <2> QED BY <1>1, <1>2, <1>3, <1>7, <1>8, <2>2, <2>3, <2>5, <2>6, <2>7, <2>8, <2>9, CrewKeeps
<1> QED BY <1>12, <1>13, <1>14

-----------------------------------------------------------------------------
(* The steps of downloadAll *)

\* Outside of the join the workers are not there.
LEMMA Alone ==
    ASSUME IInv, \/ job.run[0].at # "join"
                 \/ \A w \in Crew : job.run[w].at = "gone"
    PROVE  \A w \in Crew : job.run[w].at \in {"none", "gone"} /\ ~Holding(w)
  BY DEF IInv, Stages, Holding

\* What the invariant says of the screen and the types, when downloadAll makes a
\* step before its last.
LEMMA MainRest ==
    ASSUME IInv, job.run[0].at \in {"prepare", "join", "publish", "send"},
           UNCHANGED <<served, ui, hub, waiting, posted, importing>>,
           job' \in Job, staged' \in [File -> Content], published' \in [File -> Content],
           job'.plan = job.plan, job.put \subseteq job'.put,
           job.state = "failed" => job'.state = "failed",
           \/ job'.run[0].at \notin {"close", "closed"}
           \/ job'.run[0].at = "close" /\ job'.ch = <<job'.state>>
    PROVE  Types' /\ Asked' /\ Screen'
<1>1. Working /\ posted # "done"
  BY DEF IInv, Screen, Working
<1>2. Types'
  BY DEF IInv, Types
<1>3. Asked'
  BY DEF IInv, Asked, At
<1>4. Screen'
  <2>1. At("downloading")' /\ job'.run[0].at \in {"close", "closed"}
           => job'.ch # <<>> /\ job'.state = Head(job'.ch)
    OBVIOUS
  <2>2. ToSet(job.plan)' = ToSet(job.plan)
    OBVIOUS
  <2>3. importing' => ToSet(job'.plan) \subseteq job'.put
    BY <2>2 DEF IInv, Screen
  <2>4. ui'.outcome = "failed" => job'.state = "failed"
    BY DEF IInv, Screen
  <2> QED BY <1>1, <2>1, <2>3, <2>4 DEF IInv, Screen, At, Working
<1> QED BY <1>2, <1>3, <1>4

\* The end of a download: its last progress is to be sent.
LEMMA EndsStep ==
    ASSUME IInv, job.run[0].at \in {"prepare", "join", "publish"},
           \A w \in Crew : job.run[w].at \in {"none", "gone"},
           UNCHANGED Others, UNCHANGED staged, job' \in Job, Keeps(job', job),
           job'.queue = job.queue,
           job'.run[0].at = "send", job'.run[0].next = "close", job'.run[0].note = job'.state,
           \A v \in Goroutine : v # 0 => job'.run[v] = job.run[v],
           \/ /\ job'.state = "failed" /\ ~job'.clean
              /\ \A f \in File : job'.files[f] = "completed" => job.files[f] = "completed"
           \/ /\ job'.state = "completed" /\ job.state # "failed"
              /\ job'.files = job.files /\ ToSet(job.plan) \subseteq job.put
    PROVE  IInv'
<1>1. \A w \in Crew : job'.run[w] = job.run[w] /\ ~Holding(w)' /\ ~Holding(w)
  BY Rest DEF Holding
<1>2. /\ job'.plan = job.plan /\ job'.want = job.want /\ job'.put = job.put
      /\ (job'.canceled => job.canceled) /\ (job'.clean => job.clean)
  BY DEF Keeps
<1>3. Types' /\ Asked' /\ Screen'
  <2>1. /\ staged' \in [File -> Content] /\ published' \in [File -> Content]
        /\ UNCHANGED <<served, ui, hub, waiting, posted, importing>>
    BY DEF IInv, Types, Others
  <2>2. /\ job.put \subseteq job'.put /\ job'.run[0].at \notin {"close", "closed"}
        /\ job.run[0].at \in {"prepare", "join", "publish", "send"}
        /\ job.state = "failed" => job'.state = "failed"
    BY <1>2
  <2> QED BY <1>2, <2>1, <2>2, MainRest
<1>4. Stages'
  BY <1>1, <1>2 DEF IInv, Stages, Ended
<1>5. Shares'
  BY <1>1, <1>2 DEF IInv, Shares
<1>6. Verified'
  BY <1>2, DownloadAssumption DEF IInv, Verified, PublishedExact, Others
<1>7. Settled'
  BY <1>2, SMTT(30) DEF Settled, Ended
<1>8. Undisturbed'
  <2>1. ASSUME job'.clean PROVE Undisturbed'
    <3>1. job.clean /\ job'.files = job.files /\ Undisturbed /\ Working
      BY <1>2, <2>1, SMTT(30) DEF IInv, Working
    <3>2. served' = job'.want /\ ~job'.canceled /\ job'.state # "failed"
      BY <1>2, <2>1, <3>1, SMTT(30) DEF Undisturbed, Others, Keeps
    <3>3. \A f \in File : Begins(f, Resumable(f, job.want[f]))'
      BY <1>2, <3>1 DEF Undisturbed, Begins, Resumable
    <3> QED BY <1>1, <1>2, <3>1, <3>2, <3>3 DEF Undisturbed, Holding
  <2> QED BY <2>1, SMTT(30) DEF Undisturbed
<1> QED BY <1>3, <1>4, <1>5, <1>6, <1>7, <1>8 DEF IInv

\* AllFailed ends a download.
LEMMA AllFailedStep ==
    ASSUME IInv, job.run[0].at \in {"prepare", "publish"}, job' = AllFailed(job),
           UNCHANGED Others, UNCHANGED staged
    PROVE  IInv'
<1> DEFINE files == [f \in File |-> "failed"]
           j == [job EXCEPT !.files = files, !.state = "failed", !.clean = FALSE]
<1>1. job \in Job /\ files \in [File -> FileState] /\ "failed" \in Overall /\ "close" \in Point
  BY DEF IInv, Types, FileState, Overall, Point
<1>2. job' = Update(j, 0, "close")
  BY DEF AllFailed
<1>3. \A f \in File : files[f] # "completed"
  OBVIOUS
<1> HIDE DEF files
<1>4. j \in Job /\ Keeps(j, job) /\ j.files = files /\ j.queue = job.queue
      /\ j.state = "failed" /\ ~j.clean /\ j.run = job.run
  BY <1>1 DEF Job, Keeps
<1> HIDE DEF j
<1>5. /\ job' \in Job /\ Keeps(job', j) /\ job'.queue = j.queue /\ job'.files = j.files
      /\ job'.state = j.state /\ job'.run[0].at = "send" /\ job'.run[0].next = "close"
      /\ job'.run[0].note = j.state
      /\ \A u \in Goroutine : u # 0 => job'.run[u] = j.run[u]
  BY <1>1, <1>2, <1>4, Rest, Updating, SMTT(30)
<1>6. Keeps(job', job) /\ ~job'.clean
  BY <1>4, <1>5 DEF Keeps
<1> QED BY <1>3, <1>4, <1>5, <1>6, Alone, EndsStep

LEMMA JoinStep ==
    ASSUME IInv, Join, UNCHANGED <<ui, hub, pipes>>
    PROVE  IInv'
<1>1. /\ job \in Job /\ job.run[0].at = "join" /\ \A w \in Crew : job.run[w].at = "gone"
      /\ Working
  BY DEF Join, Crew, IInv, Types, Working
<1>2. UNCHANGED Others /\ UNCHANGED staged
  BY DEF Join, disk, Others, pipes
<1>3. CASE job.canceled \/ \E f \in File : job.files[f] = "failed"
  <2> DEFINE j == [job EXCEPT !.state = "failed"]
  <2>1. job' = Update(j, 0, "close") /\ "close" \in Point
    BY <1>3 DEF Join, Point
  <2>2. j \in Job /\ Keeps(j, job) /\ j.files = job.files /\ j.queue = job.queue
        /\ j.state = "failed" /\ j.clean = job.clean /\ j.run = job.run
    BY <1>1 DEF Job, Keeps, Overall
  <2> HIDE DEF j
  <2>3. /\ job' \in Job /\ Keeps(job', j) /\ job'.queue = j.queue /\ job'.files = j.files
        /\ job'.state = j.state /\ job'.run[0].at = "send" /\ job'.run[0].next = "close"
        /\ job'.run[0].note = j.state
        /\ \A u \in Goroutine : u # 0 => job'.run[u] = j.run[u]
    BY <2>1, <2>2, Rest, Updating, SMTT(30)
  <2>4. Keeps(job', job)
    BY <2>2, <2>3 DEF Keeps
  <2>5. ~job'.clean
    BY <1>1, <1>3, <2>4 DEF IInv, Undisturbed, Keeps
  <2> QED BY <1>1, <1>2, <2>2, <2>3, <2>4, <2>5, EndsStep
<1>4. CASE ~(job.canceled \/ \E f \in File : job.files[f] = "failed")
  <2> DEFINE q == [job.run[0] EXCEPT !.at = "publish"]
             j == [job EXCEPT !.queue = job.plan]
  <2>1. q \in Run /\ q.at = "publish"
    <3>1. job.run[0] \in Run /\ "publish" \in Point
      BY <1>1, Rest DEF Job, Point
    <3> QED BY <3>1 DEF Run
  <2>2. job' = [j EXCEPT !.run[0] = q]
    BY <1>4 DEF Join
  <2>3. j \in Job /\ Keeps(j, job) /\ j.files = job.files /\ j.queue = job.plan
        /\ j.state = job.state /\ j.run = job.run /\ j.ch = job.ch
    BY <1>1 DEF Job, Keeps
  <2> HIDE DEF q, j
  <2>4. /\ job' \in Job /\ Keeps(job', j) /\ job'.queue = j.queue /\ job'.files = j.files
        /\ job'.state = j.state /\ job'.run[0] = q
        /\ \A u \in Goroutine : u # 0 => job'.run[u] = j.run[u]
    BY <2>1, <2>2, <2>3, Rest, Moving
  <2>5. /\ job'.plan = job.plan /\ job'.want = job.want /\ job'.put = job.put
        /\ (job'.clean => job.clean) /\ job'.files = job.files /\ job'.state = job.state
        /\ job'.queue = job.plan /\ job'.run[0].at = "publish"
        /\ \A w \in Crew : job'.run[w] = job.run[w]
    BY <2>1, <2>3, <2>4, Rest DEF Keeps
  <2>6. job'.canceled = job.canceled
    BY <1>1, <2>2 DEF j, Job
  <2>7. \A w \in Crew : ~Holding(w) /\ ~Holding(w)'
    BY <1>1, <2>5 DEF Holding
  <2>8. Types' /\ Asked' /\ Screen'
    <3>1. /\ staged' \in [File -> Content] /\ published' \in [File -> Content]
          /\ UNCHANGED <<served, ui, hub, waiting, posted, importing>>
      BY <1>2 DEF IInv, Types, Others
    <3> QED BY <1>1, <2>4, <2>5, <3>1, MainRest
  <2>9. Stages'
    BY <1>1, <2>5 DEF IInv, Stages
  <2>10. Shares'
    <3>1. job.run[1].at = "gone" /\ ToSet(job.plan) \subseteq File
      BY <1>1, Rest DEF Job, ToSet
    <3>2. job.queue = <<>> /\ ToSet(job.queue) = {} /\ job.put = {}
      BY <1>1, <3>1 DEF IInv, Shares, ToSet
    <3>3. \A f \in ToSet(job.plan) : job.files[f] = "completed"
      BY <1>1, <1>4, <2>7, <3>1, <3>2 DEF IInv, Shares
    <3>4. IsInjective(job.plan)
      BY <1>1 DEF IInv, Stages
    <3> QED BY <2>5, <2>7, <3>2, <3>3, <3>4 DEF Shares
  <2>11. Verified'
    BY <1>2, <2>5, DownloadAssumption DEF IInv, Verified, PublishedExact, Others
  <2>12. Settled'
    <3>1. job.state = "pending"
      BY <1>1, <1>4, SMTT(30) DEF IInv, Settled, Job, Overall
    <3> QED BY <2>5, <3>1 DEF Settled, Ended
  <2>13. Undisturbed'
    <3>1. \A f \in File : Begins(f, Resumable(f, job.want[f]))' <=> Begins(f, Resumable(f, job.want[f]))
      BY <1>2, <2>5 DEF Begins, Resumable
    <3> QED BY <1>1, <1>2, <2>5, <2>6, <3>1 DEF IInv, Undisturbed, Others
  <2> QED BY <2>8, <2>9, <2>10, <2>11, <2>12, <2>13 DEF IInv
<1> QED BY <1>3, <1>4

LEMMA PublishedStep ==
    ASSUME IInv, Published, UNCHANGED <<ui, hub, pipes>>
    PROVE  IInv'
<1> DEFINE j == [job EXCEPT !.state = "completed"]
<1>1. /\ job \in Job /\ job.run[0].at = "publish" /\ job.queue = <<>>
      /\ job' = Update(j, 0, "close") /\ "close" \in Point
  BY DEF Published, Point, IInv, Types
<1>2. UNCHANGED Others /\ UNCHANGED staged
  BY DEF Published, disk, Others, pipes
<1>3. j \in Job /\ Keeps(j, job) /\ j.files = job.files /\ j.queue = job.queue
      /\ j.state = "completed" /\ j.run = job.run
  BY <1>1 DEF Job, Keeps, Overall
<1> HIDE DEF j
<1>4. /\ job' \in Job /\ Keeps(job', j) /\ job'.queue = j.queue /\ job'.files = j.files
      /\ job'.state = j.state /\ job'.run[0].at = "send" /\ job'.run[0].next = "close"
      /\ job'.run[0].note = j.state
      /\ \A u \in Goroutine : u # 0 => job'.run[u] = j.run[u]
  BY <1>1, <1>3, Rest, Updating, SMTT(30)
<1>5. Keeps(job', job)
  BY <1>3, <1>4 DEF Keeps
<1>6. ToSet(job.plan) \subseteq job.put /\ job.state # "failed"
  <2>1. ToSet(job.queue) = {}
    BY <1>1 DEF ToSet
  <2> QED BY <1>1, <2>1 DEF IInv, Shares, Settled
<1>7. \A w \in Crew : job.run[w].at \in {"none", "gone"}
  BY <1>1, Alone
<1> QED BY <1>1, <1>2, <1>3, <1>4, <1>5, <1>6, <1>7, EndsStep

LEMMA PublishStep ==
    ASSUME IInv, Publish, UNCHANGED <<ui, hub, pipes>>
    PROVE  IInv'
<1> DEFINE f == Head(job.queue)
           queue == Tail(job.queue)
           put == job.put \cup {f}
<1>1. /\ job \in Job /\ job.run[0].at = "publish" /\ job.queue # <<>> /\ Working
      /\ job.queue \in Seq(File) /\ IsInjective(job.queue)
      /\ staged \in [File -> Content] /\ published \in [File -> Content]
  BY DEF Publish, IInv, Types, Working, Job, Shares
<1>2. /\ f \in File /\ queue \in Seq(File) /\ IsInjective(queue) /\ f \notin ToSet(queue)
      /\ ToSet(job.queue) = {f} \cup ToSet(queue)
  BY <1>1, Taking
<1>3. /\ published' = [published EXCEPT ![f] = staged[f]]
      /\ staged' = [staged EXCEPT ![f] = Absent]
      /\ job' = [job EXCEPT !.queue = queue, !.put = put]
      /\ UNCHANGED <<served, ui, hub, waiting, posted, importing>>
  BY DEF Publish, pipes
<1>4. put \in SUBSET File /\ job.put \subseteq put /\ f \in put /\ put \subseteq job.put \cup {f}
  BY <1>1, <1>2 DEF Job
<1> HIDE DEF f, queue, put
<1>5. /\ job' \in Job /\ job'.plan = job.plan /\ job'.want = job.want /\ job'.put = put
      /\ job'.queue = queue /\ job'.files = job.files /\ job'.state = job.state
      /\ job'.run = job.run /\ job'.clean = job.clean /\ job'.canceled = job.canceled
  BY <1>1, <1>2, <1>3, <1>4 DEF Job
<1>6. /\ staged' \in [File -> Content] /\ published' \in [File -> Content]
      /\ published'[f] = staged[f] /\ staged'[f] = Absent
      /\ \A g \in File : g # f => published'[g] = published[g] /\ staged'[g] = staged[g]
  BY <1>1, <1>2, <1>3 DEF Content
<1>7. \A w \in Crew : job.run[w].at \in {"none", "gone"} /\ ~Holding(w)
  BY <1>1, Alone
<1>8. \A w \in Crew : ~Holding(w)'
  BY <1>5, <1>7 DEF Holding
<1>9. Types' /\ Asked' /\ Screen'
  BY <1>1, <1>3, <1>4, <1>5, <1>6, MainRest
<1>10. Stages'
  BY <1>1, <1>5 DEF IInv, Stages, Holding
<1>11. \A g \in ToSet(job.queue) : g \notin job.put /\ job.files[g] = "completed"
  BY <1>1 DEF IInv, Shares
<1>12. Shares'
  <2>1. \A g \in ToSet(job.plan) : g \in put \cup ToSet(queue)
    BY <1>1, <1>2, <1>4 DEF IInv, Shares
  <2>2. \A g \in ToSet(queue) : g \notin put /\ job.files[g] = "completed"
    BY <1>2, <1>4, <1>11
  <2> QED BY <1>1, <1>2, <1>5, <1>8, <2>1, <2>2 DEF Shares
<1>13. Verified'
  <2>1. job.files[f] = "completed" /\ f \notin job.put
    BY <1>2, <1>11
  <2>2. \A g \in Hashed : g \in File
    BY DownloadAssumption
  <2>3. ASSUME NEW g \in Hashed, job'.files[g] = "completed", g \notin job'.put
        PROVE  staged'[g] = Exact(job'.want[g])
    BY <1>4, <1>5, <1>6, <2>2, <2>3 DEF IInv, Verified
  <2>4. ASSUME NEW g \in job'.put \cap Hashed PROVE published'[g] = Exact(job'.want[g])
    <3>1. CASE g = f
      BY <1>5, <1>6, <2>1, <3>1 DEF IInv, Verified
    <3>2. CASE g # f
      BY <1>4, <1>5, <1>6, <2>2, <3>2 DEF IInv, Verified, PublishedExact
    <3> QED BY <3>1, <3>2
  <2> QED BY <2>3, <2>4 DEF Verified, PublishedExact
<1>14. Settled'
  BY <1>1, <1>5, SMTT(30) DEF IInv, Settled, Ended
<1>15. Undisturbed'
  <2>1. \A g \in File : Begins(g, Resumable(g, job.want[g])) => Begins(g, Resumable(g, job.want[g]))'
    <3>1. ASSUME NEW g \in File, g = f PROVE Begins(g, Resumable(g, job.want[g]))'
      BY <1>6, <3>1 DEF Begins, Resumable
    <3>2. ASSUME NEW g \in File, g # f, Begins(g, Resumable(g, job.want[g]))
          PROVE  Begins(g, Resumable(g, job.want[g]))'
      BY <1>5, <1>6, <3>2 DEF Begins, Resumable
    <3> QED BY <3>1, <3>2
  <2>2. \A w \in Crew : job'.run[w].at \in {"none", "gone"}
    BY <1>5, <1>7
  <2> QED BY <1>1, <1>3, <1>5, <2>1, <2>2 DEF IInv, Undisturbed
<1> QED BY <1>9, <1>10, <1>12, <1>13, <1>14, <1>15 DEF IInv

\* The last two steps: the final progress is sent, and the channel closed.
LEMMA LastStep ==
    ASSUME IInv, job.run[0].at \in {"send", "close"}, UNCHANGED Others, UNCHANGED staged,
           job' \in Job, Keeps(job', job), job'.queue = job.queue, job'.files = job.files,
           job'.state = job.state, \A v \in Goroutine : v # 0 => job'.run[v] = job.run[v],
           \/ /\ job.run[0].at = "send"
              /\ job'.run[0].at = "close" /\ job'.ch = <<job.run[0].note>>
           \/ /\ job.run[0].at = "close"
              /\ job'.run[0].at = "closed" /\ job'.ch = job.ch
    PROVE  IInv'
<1>1. \A w \in Crew : job.run[w].at \in {"none", "gone"} /\ job'.run[w] = job.run[w]
  BY Alone, Rest
<1>2. \A w \in Crew : ~Holding(w)' /\ ~Holding(w)
  BY <1>1 DEF Holding
<1>3. /\ job'.plan = job.plan /\ job'.want = job.want /\ job'.put = job.put
      /\ (job'.canceled => job.canceled) /\ (job'.clean => job.clean)
  BY DEF Keeps
<1>4. Types' /\ Asked'
  BY DEF IInv, Types, Asked, Others, At
<1>5. Screen'
  <2>1. posted # "done" /\ Working
    BY DEF IInv, Screen, Working
  <2>2. At("downloading") /\ job'.run[0].at \in {"close", "closed"} =>
            job'.state = IF job'.ch # <<>> THEN Head(job'.ch)
                         ELSE IF posted \in Overall THEN posted ELSE ui.shown
    <3>1. CASE job.run[0].at = "send"
      <4>1. job.run[0].note = job.state /\ job'.ch = <<job.state>>
        BY <3>1 DEF IInv, Stages
      <4>2. job'.ch # <<>> /\ Head(job'.ch) = job.state
        BY <4>1
      <4> QED BY <4>2
    <3>2. CASE job.run[0].at = "close"
      BY <3>2 DEF IInv, Screen
    <3> QED BY <3>1, <3>2
  <2> QED BY <1>3, <2>1, <2>2 DEF IInv, Screen, Others, At, Working
<1>6. Stages'
  BY <1>1, <1>3 DEF IInv, Stages, Ended
<1>7. Shares'
  BY <1>2, <1>3 DEF IInv, Shares
<1>8. Verified'
  BY <1>3, DownloadAssumption DEF IInv, Verified, PublishedExact, Others
<1>9. Settled'
  BY <1>3, SMTT(30) DEF IInv, Settled, Ended
<1>10. Undisturbed'
  <2>1. \A g \in File : Begins(g, Resumable(g, job.want[g]))' <=> Begins(g, Resumable(g, job.want[g]))
    BY <1>3 DEF Begins, Resumable
  <2>2. Working
    BY DEF Working
  <2> QED BY <1>1, <1>3, <2>1, <2>2 DEF IInv, Undisturbed, Others
<1> QED BY <1>4, <1>5, <1>6, <1>7, <1>8, <1>9, <1>10 DEF IInv

LEMMA SendLastStep ==
    ASSUME IInv, Send(0), UNCHANGED <<ui, hub, pipes>>
    PROVE  IInv'
<1> DEFINE r == job.run[0]
           ch == <<r.note>>
           j == [job EXCEPT !.ch = ch]
           q == [Nowhere EXCEPT !.at = r.next, !.file = r.file, !.try = 1]
<1>1. job \in Job /\ r \in Run /\ r.at = "send" /\ r.next = "close"
  BY Rest DEF IInv, Types, Job, Stages, Send
<1>2. ch \in Seq(Overall)
  BY <1>1 DEF Run
<1>3. q \in Run /\ q.at = "close"
  <2>1. Nowhere \in Run /\ 1 \in 0..MaxRetries /\ r.next \in Point /\ r.file \in File \cup {"none"}
    BY <1>1, Rest, DownloadAssumption DEF Run
  <2> HIDE DEF Nowhere, r
  <2> QED BY <1>1, <2>1 DEF Run
<1>4. job' = [j EXCEPT !.run[0] = q] /\ UNCHANGED Others /\ UNCHANGED staged
  BY DEF Send, disk, Others, pipes
<1> HIDE DEF ch, q
<1>5. j \in Job /\ Keeps(j, job) /\ j.queue = job.queue /\ j.files = job.files
      /\ j.state = job.state /\ j.run = job.run /\ j.ch = ch
  BY <1>1, <1>2 DEF Job, Keeps
<1> HIDE DEF j
<1>6. /\ job' \in Job /\ Keeps(job', j) /\ job'.queue = j.queue /\ job'.files = j.files
      /\ job'.state = j.state /\ job'.ch = j.ch /\ job'.run[0] = q
      /\ \A v \in Goroutine : v # 0 => job'.run[v] = j.run[v]
  BY <1>3, <1>4, <1>5, Rest, Moving
<1>7. Keeps(job', job)
  BY <1>5, <1>6 DEF Keeps
<1>8. job'.ch = <<r.note>>
  BY <1>5, <1>6 DEF ch
<1> QED BY <1>1, <1>3, <1>4, <1>5, <1>6, <1>7, <1>8, LastStep

LEMMA CloseStep ==
    ASSUME IInv, Close, UNCHANGED <<ui, hub, pipes>>
    PROVE  IInv'
<1> DEFINE q == [job.run[0] EXCEPT !.at = "closed"]
<1>1. job \in Job /\ job.run[0] \in Run /\ job.run[0].at = "close" /\ "closed" \in Point
  BY Rest DEF IInv, Types, Job, Close, Point
<1>2. q \in Run /\ q.at = "closed"
  BY <1>1 DEF Run
<1>3. job' = [job EXCEPT !.run[0] = q] /\ UNCHANGED Others /\ UNCHANGED staged
  BY DEF Close, disk, Others, pipes
<1> HIDE DEF q
<1>4. /\ job' \in Job /\ Keeps(job', job) /\ job'.queue = job.queue /\ job'.files = job.files
      /\ job'.state = job.state /\ job'.ch = job.ch /\ job'.run[0] = q
      /\ \A v \in Goroutine : v # 0 => job'.run[v] = job.run[v]
  BY <1>1, <1>2, <1>3, Rest, Moving
<1> QED BY <1>1, <1>2, <1>3, <1>4, LastStep

\* The workers start, and the whole plan is in the queue.
LEMMA PrepareStep ==
    ASSUME IInv, Prepare, UNCHANGED <<ui, hub, pipes>>
    PROVE  IInv'
<1> DEFINE first(w) == IF w = 0 THEN "join" ELSE IF w <= Len(job.plan) THEN "idle" ELSE "gone"
           place(w) == [Nowhere EXCEPT !.at = first(w)]
           run == [w \in Goroutine |-> place(w)]
<1>1. job \in Job /\ job.run[0].at = "prepare" /\ Working /\ job.plan \in Seq(File)
      /\ job.plan # <<>> /\ IsInjective(job.plan)
  BY DEF Prepare, IInv, Types, Working, Job, Stages
<1>2. UNCHANGED Others /\ UNCHANGED staged
  BY DEF Prepare, disk, Others, pipes
<1>3. CASE job' = AllFailed(job)
  BY <1>1, <1>2, <1>3, AllFailedStep
<1>4. CASE job' = [job EXCEPT !.run = run]
  <2>1. \A w \in Goroutine : place(w) \in Run /\ place(w).at = first(w)
    <3>1. \A w \in Goroutine : first(w) \in {"join", "idle", "gone"}
      OBVIOUS
    <3>2. {"join", "idle", "gone"} \subseteq Point
      BY DEF Point
    <3>3. Nowhere \in Run
      BY Rest
    <3> HIDE DEF first, Nowhere
    <3> QED BY <3>1, <3>2, <3>3 DEF Run
  <2>2. 1 \in Goroutine /\ 1 <= Len(job.plan)
    <3>1. Len(job.plan) # 0 /\ Len(job.plan) \in Nat
      BY <1>1
    <3> QED BY <3>1, DownloadAssumption DEF Goroutine
  <2>3. first(0) = "join" /\ first(1) = "idle" /\ \A w \in Crew : first(w) \in {"idle", "gone"}
    BY <2>2, Rest
  <2> HIDE DEF place, first
  <2>4. run \in [Goroutine -> Run] /\ run[0].at = "join" /\ run[1].at = "idle"
        /\ \A w \in Crew : run[w].at \in {"idle", "gone"}
    BY <2>1, <2>2, <2>3, Rest
  <2> HIDE DEF run
  <2>5. /\ job' \in Job /\ job'.run = run /\ Keeps(job', job)
        /\ job'.plan = job.plan /\ job'.want = job.want /\ job'.put = job.put
        /\ job'.queue = job.queue /\ job'.files = job.files /\ job'.state = job.state
        /\ job'.clean = job.clean /\ job'.canceled = job.canceled
    BY <1>1, <1>4, <2>4 DEF Job, Keeps
  <2>6. \A w \in Crew : ~Holding(w)'
    BY <2>4, <2>5 DEF Holding
  <2>7. Types' /\ Asked' /\ Screen'
    <3>1. /\ staged' \in [File -> Content] /\ published' \in [File -> Content]
          /\ UNCHANGED <<served, ui, hub, waiting, posted, importing>>
      BY <1>2 DEF IInv, Types, Others
    <3> QED BY <1>1, <2>4, <2>5, <3>1, MainRest
  <2>8. Stages'
    BY <1>1, <2>4, <2>5 DEF Stages
  <2>9. Shares'
    <3>1. job.queue = job.plan /\ job.put = {} /\ \A f \in File : job.files[f] = "pending"
      BY <1>1 DEF IInv, Shares
    <3>2. ToSet(job.plan) \subseteq File
      BY <1>1 DEF ToSet
    <3> QED BY <1>1, <2>4, <2>5, <2>6, <3>1, <3>2 DEF Shares
  <2>10. Verified'
    BY <1>2, <2>5, DownloadAssumption DEF IInv, Verified, PublishedExact, Others
  <2>11. Settled'
    BY <1>1, <2>4, <2>5, SMTT(30) DEF IInv, Settled, Ended
  <2>12. Undisturbed'
    <3>1. \A f \in File : Begins(f, Resumable(f, job.want[f]))' <=> Begins(f, Resumable(f, job.want[f]))
      BY <1>2, <2>5 DEF Begins, Resumable
    <3> QED BY <1>1, <1>2, <2>4, <2>5, <3>1 DEF IInv, Undisturbed, Others
  <2> QED BY <2>7, <2>8, <2>9, <2>10, <2>11, <2>12 DEF IInv
<1> QED BY <1>3, <1>4 DEF Prepare

LEMMA PublishFailsStep ==
    ASSUME IInv, PublishFails, UNCHANGED <<ui, hub, pipes>>
    PROVE  IInv'
  BY AllFailedStep DEF PublishFails, disk, Others, pipes

\* A step of the download, whoever makes it.
LEMMA DownloadingStep ==
    ASSUME IInv, Downloading
    PROVE  IInv'
<1>1. UNCHANGED <<ui, hub, pipes>>
  BY DEF Downloading
<1>2. CASE Prepare \/ Join \/ Publish \/ PublishFails \/ Published \/ Close
  <2>1. CASE Prepare
    BY <1>1, <2>1, PrepareStep
  <2>2. CASE Join
    BY <1>1, <2>2, JoinStep
  <2>3. CASE Publish
    BY <1>1, <2>3, PublishStep
  <2>4. CASE PublishFails
    BY <1>1, <2>4, PublishFailsStep
  <2>5. CASE Published
    BY <1>1, <2>5, PublishedStep
  <2>6. CASE Close
    BY <1>1, <2>6, CloseStep
  <2> QED BY <1>2, <2>1, <2>2, <2>3, <2>4, <2>5, <2>6
<1>3. ASSUME NEW w \in Goroutine,
             \/ Send(w) \/ TakeJob(w) \/ Wait(w) \/ RequestFails(w)
             \/ Resume(w) \/ Fresh(w) \/ Copy(w) \/ Verify(w)
      PROVE  IInv'
  <2>1. CASE w \in Crew
    <3>1. CASE Send(w)
      BY <1>1, <2>1, <3>1, SendStep
    <3>2. CASE TakeJob(w)
      BY <1>1, <2>1, <3>2, TakeStep
    <3>3. CASE Wait(w)
      BY <1>1, <2>1, <3>3, WaitStep
    <3>4. CASE RequestFails(w)
      BY <1>1, <2>1, <3>4, RequestFailsStep
    <3>5. CASE Resume(w)
      BY <1>1, <2>1, <3>5, ResumeStep
    <3>6. CASE Fresh(w)
      BY <1>1, <2>1, <3>6, FreshStep
    <3>7. CASE Copy(w)
      BY <1>1, <2>1, <3>7, CopyStep
    <3>8. CASE Verify(w)
      BY <1>1, <2>1, <3>8, VerifyStep
    <3> QED BY <1>3, <3>1, <3>2, <3>3, <3>4, <3>5, <3>6, <3>7, <3>8
  <2>2. CASE w \notin Crew
    <3>1. w = 0
      <4>1. w \in Goroutine
        BY SMTT(30)
      <4> QED BY <2>2, <4>1, Zenon DEF Crew
    <3>2. Send(0)
      BY <1>3, <3>1 DEF IInv, Stages, Ended, TakeJob, Wait, RequestFails, Resume, Fresh, Copy,
                        Verify
    <3> QED BY <1>1, <3>2, SendLastStep
  <2> QED BY <2>1, <2>2
<1> QED BY <1>2, <1>3 DEF Downloading, Transfer

-----------------------------------------------------------------------------
(* The wizard and the environment *)

\* A step that leaves the goroutines and the disk alone.
LEMMA Untouched ==
    ASSUME IInv, UNCHANGED disk, job'.plan = job.plan, job'.want = job.want,
           job'.queue = job.queue, job'.files = job.files, job'.state = job.state,
           job'.put = job.put, job'.run = job.run,
           job'.clean => /\ job.clean
                         /\ Working => served' = served /\ job'.canceled = job.canceled
    PROVE  Stages' /\ Shares' /\ Verified' /\ Settled' /\ Undisturbed'
<1>1. \A w \in Crew : Holding(w)' <=> Holding(w)
  BY DEF Holding
<1>2. staged' = staged /\ published' = published
  BY DEF disk
<1>3. Stages'
  BY <1>1 DEF IInv, Stages
<1>4. Shares'
  BY <1>1, <1>2 DEF IInv, Shares
<1>5. Verified'
  BY <1>2 DEF IInv, Verified, PublishedExact
<1>6. Settled'
  BY SMTT(30) DEF IInv, Settled
<1>7. Undisturbed'
  <2>1. \A f \in File : Begins(f, Resumable(f, job.want[f]))' <=> Begins(f, Resumable(f, job.want[f]))
    BY <1>2 DEF Begins, Resumable
  <2>2. Working' <=> Working
    BY DEF Working
  <2> QED BY <1>2, <2>1, <2>2 DEF IInv, Undisturbed
<1> QED BY <1>3, <1>4, <1>5, <1>6, <1>7

\* Nothing of a download is at work or on its way.
Quiet == ~Working /\ ~waiting /\ posted = "none" /\ ~importing

\* The steps of the wizard before a download, which leave the transfer alone.
LEMMA PlanningStep ==
    ASSUME IInv, UNCHANGED <<transfer, pipes>>, Quiet,
           ui' \in Ui, hub' \in {"none", "search", "more", "files"}, ui'.outcome = "none",
           ui'.open => ui'.step \notin {"downloading", "done"}, Asked'
    PROVE  IInv'
<1>1. UNCHANGED <<served, staged, published, job, waiting, posted, importing>>
  BY DEF transfer, disk, pipes
<1>2. Stages' /\ Shares' /\ Verified' /\ Settled' /\ Undisturbed'
  BY <1>1, Untouched DEF disk
<1>3. Types'
  BY <1>1 DEF IInv, Types
<1>4. Screen'
  BY <1>1 DEF IInv, Screen, Quiet, At, Working
<1> QED BY <1>2, <1>3, <1>4 DEF IInv

\* What is known while a plan is being found.
LEMMA Planning ==
    ASSUME IInv, ui.open, ui.step \notin {"downloading", "done"}
    PROVE  Quiet /\ ui \in Ui /\ ui.outcome = "none"
<1>1. ui \in Ui
  BY DEF IInv, Types
<1> QED BY <1>1 DEF IInv, Screen, Quiet

\* effectivePlan is a sequence of files.
LEMMA EffectivePlan ==
    ASSUME IInv, NEW optional \in Effective
    PROVE  optional \in Seq(File)
<1>1. PICK nth \in [1..Cardinality(Selected) -> Selected] :
         optional = [i \in DOMAIN nth |-> ui.optional[nth[i]]]
  BY DEF Effective
<1>2. Selected \subseteq DOMAIN ui.optional /\ ui.optional \in Seq(File)
  BY DEF Selected, IInv, Types, Ui
<1>3. Cardinality(Selected) \in Nat
  <2>1. IsFiniteSet(1..Len(ui.optional))
    BY <1>2, FS_Interval
  <2>2. Selected \subseteq 1..Len(ui.optional)
    BY <1>2
  <2> QED BY <2>1, <2>2, FS_Subset, FS_CardinalityType
<1>4. \A i \in 1..Cardinality(Selected) : ui.optional[nth[i]] \in File
  BY <1>2
<1> QED BY <1>1, <1>3, <1>4

\* Open, and the keys and answers that find a plan.
LEMMA SearchSteps ==
    ASSUME IInv, \/ Open \/ Leave \/ Search \/ LoadMore \/ SearchDone \/ PickRepo
                 \/ PickEngine \/ Back \/ ChooseDest
    PROVE  IInv'
<1>0. ui \in Ui /\ Closed \in Ui /\ UNCHANGED <<transfer, pipes>>
  BY Versions DEF IInv, Types, Ui, Closed, Step, Overall, Open, Leave, Search, LoadMore,
     SearchDone, PickRepo, PickEngine, Back, ChooseDest
<1>1. CASE Open
  <2>1. Quiet /\ hub' = "none" /\ ui'.outcome = "none" /\ ui'.step = "search"
    BY <1>1 DEF Open, Quiet, Closed, IInv, Asked, At, Types
  <2>2. ui' \in Ui /\ Asked'
    BY <1>0, <1>1, <2>1 DEF Open, Ui, Asked
  <2> QED BY <1>0, <2>1, <2>2, PlanningStep
<1>2. CASE ~Open
  <2>1. ui.open /\ ui.step \in {"search", "repo", "engine", "variant", "review", "dest"}
    BY <1>2 DEF IInv, Asked, At, Leave, Search, LoadMore, SearchDone, PickRepo, PickEngine, Back,
                ChooseDest
  <2>2. Quiet /\ ui.outcome = "none"
    BY <2>1, Planning
  <2>3. ui' \in Ui /\ ui'.outcome = "none"
        /\ (ui'.open => ui'.step \notin {"downloading", "done"})
        /\ hub' \in {"none", "search", "more", "files"}
    <3>1. hub \in {"none", "search", "more", "files"}
      BY DEF IInv, Types
    <3>2. CASE Leave
      BY <1>0, <3>1, <3>2 DEF Leave, Closed
    <3>3. CASE Search \/ LoadMore \/ PickEngine
      BY <1>0, <2>1, <2>2, <3>1, <3>3, ZenonT(60) DEF Ui, Search, LoadMore, PickEngine
    <3>4. CASE SearchDone
      <4>1. ui.step \in Step /\ ui.step \notin {"downloading", "done"} /\ ui \in Ui
        BY <1>0, <2>1 DEF Step
      <4>2. hub' = "none"
        BY <3>4 DEF SearchDone
      <4>3. PICK step \in {ui.step, "repo"}, more \in {FALSE, ui.loadingMore} :
              ui' = [ui EXCEPT !.searching = FALSE, !.step = step, !.loadingMore = more]
        <5>1. CASE ui' = [ui EXCEPT !.searching = FALSE]
          BY <4>1, <5>1 DEF Ui
        <5>2. CASE ui' = [ui EXCEPT !.searching = FALSE, !.step = "repo",
                                    !.loadingMore = IF hub = "more" THEN FALSE ELSE @]
          BY <5>2
        <5> QED BY <3>4, <5>1, <5>2 DEF SearchDone
      <4>4. step \in Step /\ step \notin {"downloading", "done"} /\ more \in BOOLEAN
        BY <4>1 DEF Step, Ui
      <4> QED BY <2>2, <4>1, <4>2, <4>3, <4>4 DEF Ui
    <3>5. CASE PickRepo \/ ChooseDest
      BY <1>0, <2>1, <2>2, <3>1, <3>5, ZenonT(60) DEF Ui, Step, PickRepo, ChooseDest
    <3>6. CASE Back
      <4>1. PICK step \in {"search", "repo", "engine", "review"} : ui' = [ui EXCEPT !.step = step]
        BY <3>6 DEF Back
      <4>2. hub' = hub
        BY <3>6 DEF Back
      <4>3. step \in Step /\ step \notin {"downloading", "done"}
        BY <4>1 DEF Step
      <4> QED BY <1>0, <2>2, <3>1, <4>1, <4>2, <4>3 DEF Ui
    <3> QED BY <1>2, <3>2, <3>3, <3>4, <3>5, <3>6
  <2>4. Asked'
    BY <1>0, <1>2, <2>1, ZenonT(30) DEF Ui, IInv, Asked, At, Leave, Search, LoadMore, SearchDone, PickRepo,
       PickEngine, Back, ChooseDest, Closed, Types
  <2> QED BY <1>0, <2>2, <2>3, <2>4, PlanningStep
<1> QED BY <1>1, <1>2

\* The steps that set the plan, or change it.
LEMMA PlanSteps ==
    ASSUME IInv, FilesDone \/ PickVariant \/ Toggle \/ DestRefused
    PROVE  IInv'
<1>0. ui \in Ui /\ UNCHANGED <<transfer, pipes>> /\ served \in [File -> Version]
      /\ ui.want \in [File -> Version]
  BY DEF IInv, Types, Ui, FilesDone, PickVariant, Toggle, DestRefused
<1>1. ui.open /\ ui.step \in {"engine", "variant", "review", "dest"}
  BY DEF IInv, Asked, At, FilesDone, PickVariant, Toggle, DestRefused
<1>2. Quiet /\ ui.outcome = "none"
  BY <1>1, Planning
<1>3. hub' \in {"none", "search", "more", "files"} /\ Asked'
  <2>1. CASE FilesDone
    BY <2>1 DEF FilesDone, Asked
  <2>2. CASE ~FilesDone
    <3>1. hub' = hub /\ hub = "none"
      BY <2>2 DEF IInv, Types, Asked, At, PickVariant, Toggle, DestRefused
    <3> QED BY <3>1 DEF Asked
  <2> QED BY <2>1, <2>2
<1> DEFINE all == [i \in DOMAIN Optional |-> TRUE]
<1>4. all \in Seq(BOOLEAN) /\ Optional \in Seq(File)
  <2>1. Optional \in Seq(File) /\ Len(Optional) \in Nat /\ DOMAIN Optional = 1..Len(Optional)
    BY WizardAssumption
  <2>2. all = [i \in 1..Len(Optional) |-> TRUE]
    BY <2>1
  <2> QED BY <2>1, <2>2
<1>5. /\ ui' \in Ui /\ ui'.outcome = "none"
      /\ ui'.step \notin {"downloading", "done"}
  <2>1. CASE FilesDone
    <3>1. CASE ui' = [ui EXCEPT !.searching = FALSE]
      BY <1>0, <1>1, <1>2, <3>1 DEF Ui
    <3>2. ASSUME NEW step \in {"variant", "review"},
                 ui' = [SetPlan(ui, Optional, served) EXCEPT !.searching = FALSE, !.step = step]
          PROVE  ui' \in Ui /\ ui'.outcome = "none" /\ ui'.step \notin {"downloading", "done"}
      <4>1. ui' = [ui EXCEPT !.optional = Optional, !.optSel = all, !.want = served,
                             !.searching = FALSE, !.step = step]
        BY <3>2 DEF SetPlan
      <4> HIDE DEF all
      <4> QED BY <1>0, <1>2, <1>4, <4>1 DEF Ui, Step
    <3> QED BY <2>1, <3>1, <3>2 DEF FilesDone
  <2>2. CASE PickVariant
    <3>1. ui' = [ui EXCEPT !.optional = Optional, !.optSel = all, !.want = ui.want,
                           !.step = "review"]
      BY <2>2 DEF PickVariant, SetPlan
    <3> HIDE DEF all
    <3> QED BY <1>0, <1>2, <1>4, <3>1 DEF Ui, Step
  <2>3. CASE Toggle
    <3>1. PICK i \in DOMAIN ui.optSel : ui' = [ui EXCEPT !.optSel[i] = ~@]
      BY <2>3 DEF Toggle
    <3> DEFINE sel == [ui.optSel EXCEPT ![i] = ~ui.optSel[i]]
    <3>2. sel \in Seq(BOOLEAN)
      BY <1>0, <3>1 DEF Ui
    <3>3. ui' = [ui EXCEPT !.optSel = sel]
      BY <3>1
    <3> HIDE DEF sel
    <3> QED BY <1>0, <1>1, <1>2, <3>2, <3>3 DEF Ui
  <2>4. CASE DestRefused
    <3>1. CASE ui' = [ui EXCEPT !.step = "review"]
      BY <1>0, <1>2, <3>1 DEF Ui, Step
    <3>2. ASSUME NEW optional \in Effective,
                 ui' = [ui EXCEPT !.step = "review", !.optional = optional]
          PROVE  ui' \in Ui /\ ui'.outcome = "none" /\ ui'.step \notin {"downloading", "done"}
      BY <1>0, <1>2, <3>2, EffectivePlan DEF Ui, Step
    <3> QED BY <2>4, <3>1, <3>2 DEF DestRefused
  <2> QED BY <2>1, <2>2, <2>3, <2>4
<1> QED BY <1>0, <1>2, <1>3, <1>5, PlanningStep

\* A download starts with the files the plan has then.
LEMMA StartDownloadStep ==
    ASSUME IInv, StartDownload
    PROVE  IInv'
<1>1. PICK optional \in Effective :
         /\ IsInjective(Required \o optional)
         /\ Start(Required \o optional, ui.want)
         /\ ui' = [ui EXCEPT !.step = "downloading", !.optional = optional]
  BY DEF StartDownload
<1>2. Quiet /\ ui \in Ui /\ ui.outcome = "none" /\ ui.open /\ ui.step = "dest"
      /\ hub = "none" /\ ui.want \in [File -> Version]
  <2>1. ui.open /\ ui.step = "dest"
    BY DEF StartDownload, At
  <2>2. Quiet /\ ui \in Ui /\ ui.outcome = "none"
    BY <2>1, Planning
  <2> QED BY <2>1, <2>2 DEF IInv, Types, Asked, At, Ui
<1>3. /\ waiting' = TRUE /\ posted' = "none" /\ importing' = FALSE
      /\ hub' = hub /\ served' = served /\ staged' = staged /\ published' = published
  BY <1>2 DEF StartDownload, Quiet, disk
<1> DEFINE plan == Required \o optional
           q == [Nowhere EXCEPT !.at = "prepare"]
           run == [NoJob.run EXCEPT ![0] = q]
           clean == job'.clean
           begun(f) == \A i \in 1..Resumable(f, ui.want[f]) : staged[f][i] = ui.want[f]
           good == served = ui.want /\ \A f \in File : begun(f)
<1>4. plan \in Seq(File) /\ plan # <<>> /\ IsInjective(plan) /\ optional \in Seq(File)
  <2>1. optional \in Seq(File) /\ Required \in Seq(File) /\ Required # <<>>
    BY EffectivePlan, WizardAssumption
  <2>2. Len(plan) = Len(Required) + Len(optional) /\ Len(Required) # 0
    BY <2>1
  <2> QED BY <1>1, <2>1, <2>2
<1>5. q \in Run /\ q.at = "prepare"
  <2>1. Nowhere \in Run /\ "prepare" \in Point
    BY Rest DEF Point
  <2> HIDE DEF Nowhere
  <2> QED BY <2>1 DEF Run
<1>6. run \in [Goroutine -> Run] /\ run[0].at = "prepare" /\ \A w \in Crew : run[w].at = "none"
  <2>1. NoJob.run = [w \in Goroutine |-> Nowhere] /\ Nowhere.at = "none"
    BY DEF NoJob, Nowhere
  <2> HIDE DEF q
  <2> QED BY <1>5, <2>1, Rest
<1>7. job' = [NoJob EXCEPT !.plan = plan, !.want = ui.want, !.queue = plan, !.clean = good,
                           !.run = run]
  BY <1>1 DEF Start, NoJob
<1> HIDE DEF plan, run, good
<1>8. /\ job'.plan = plan /\ job'.want = ui.want /\ job'.queue = plan /\ job'.run = run
      /\ (job'.clean <=> good) /\ job'.canceled = FALSE /\ job'.put = {} /\ job'.state = "pending"
      /\ job'.ch = <<>> /\ \A f \in File : job'.files[f] = "pending"
  BY <1>7 DEF NoJob
<1>9. job' \in Job
  <2>1. /\ [f \in File |-> "pending"] \in [File -> FileState] /\ "pending" \in Overall
        /\ <<>> \in Seq(Overall) /\ good \in BOOLEAN
    BY DEF FileState, Overall, good
  <2> QED BY <1>2, <1>4, <1>6, <1>7, <2>1 DEF NoJob, Job
<1>10. \A w \in Crew : ~Holding(w)'
  BY <1>6, <1>8 DEF Holding
<1>11. Types' /\ Asked'
  BY <1>1, <1>2, <1>3, <1>4, <1>9 DEF IInv, Types, Asked, Ui, Step
<1>12. Stages'
  BY <1>4, <1>6, <1>8, <1>10 DEF Stages
<1>13. Shares'
  BY <1>4, <1>6, <1>8, <1>10 DEF Shares
<1>14. Verified'
  BY <1>8, DownloadAssumption DEF Verified, PublishedExact
<1>15. Settled'
  BY <1>6, <1>8 DEF Settled, Ended
<1>16. Undisturbed'
  <2>1. good => served' = job'.want /\ \A f \in File : Begins(f, Resumable(f, job.want[f]))'
    BY <1>3, <1>8 DEF good, Begins, Resumable
  <2> QED BY <1>6, <1>8, <2>1 DEF Undisturbed
<1>17. Screen'
  BY <1>1, <1>2, <1>3, <1>6, <1>8 DEF Screen, At, Ui
<1> QED BY <1>11, <1>12, <1>13, <1>14, <1>15, <1>16, <1>17 DEF IInv

\* waitForProgress, and the messages it posts.
LEMMA ProgressSteps ==
    ASSUME IInv, Receive \/ HandleProgress \/ HandleDone \/ Imported
    PROVE  IInv'
<1>1. /\ ui \in Ui /\ job \in Job /\ job.ch \in Seq(Overall) /\ "done" \notin Overall
      /\ "none" \notin Overall /\ posted \in Overall \cup {"done", "none"}
  BY DEF IInv, Types, Job, Overall
<1>2. UNCHANGED <<served, staged, published, hub>>
  BY DEF Receive, HandleProgress, HandleDone, Imported, disk, transfer
<1>3. CASE Receive
  <2>1. waiting /\ waiting' = FALSE /\ posted = "none" /\ ui' = ui /\ importing' = importing
    BY <1>3 DEF Receive, IInv, Screen
  <2>2. CASE job.ch # <<>> /\ posted' = Head(job.ch) /\ job' = [job EXCEPT !.ch = <<>>]
    <3>1. posted' \in Overall
      BY <1>1, <2>2
    <3>2. /\ job' \in Job /\ job'.plan = job.plan /\ job'.want = job.want
          /\ job'.queue = job.queue /\ job'.files = job.files /\ job'.state = job.state
          /\ job'.put = job.put /\ job'.run = job.run /\ job'.clean = job.clean
          /\ job'.canceled = job.canceled /\ job'.ch = <<>>
      <4>1. <<>> \in Seq(Overall)
        OBVIOUS
      <4> QED BY <1>1, <2>2, <4>1 DEF Job
    <3>3. Stages' /\ Shares' /\ Verified' /\ Settled' /\ Undisturbed'
      BY <1>2, <3>2, Untouched DEF disk
    <3>4. Types' /\ Asked'
      BY <1>2, <2>1, <3>1, <3>2 DEF IInv, Types, Asked, At
    <3>5. Screen'
      BY <1>1, <2>1, <2>2, <3>1, <3>2 DEF IInv, Screen, At, Working
    <3> QED BY <3>3, <3>4, <3>5 DEF IInv
  <2>3. CASE job.ch = <<>> /\ job.run[0].at = "closed" /\ posted' = "done" /\ job' = job
    <3>1. Stages' /\ Shares' /\ Verified' /\ Settled' /\ Undisturbed'
      BY <1>2, <2>3, Untouched DEF disk
    <3>2. Types' /\ Asked'
      BY <1>2, <2>1, <2>3 DEF IInv, Types, Asked, At
    <3>3. Screen'
      BY <1>1, <2>1, <2>3 DEF IInv, Screen, At, Working
    <3> QED BY <3>1, <3>2, <3>3 DEF IInv
  <2> QED BY <1>3, <2>2, <2>3 DEF Receive
<1>4. CASE ~Receive
  <2>1. job' = job
    BY <1>4 DEF HandleProgress, HandleDone, Imported, transfer
  <2>2. Stages' /\ Shares' /\ Verified' /\ Settled' /\ Undisturbed'
    BY <1>2, <2>1, Untouched DEF disk
  <2>3. CASE HandleProgress
    <3>1. posted \in Overall /\ posted' = "none" /\ importing' = importing
      BY <2>3 DEF HandleProgress
    <3>2. CASE At("downloading") /\ ui' = [ui EXCEPT !.shown = posted] /\ waiting' = TRUE
      BY <1>1, <1>2, <2>1, <2>2, <3>1, <3>2 DEF IInv, Types, Asked, Screen, At, Ui, Working
    <3>3. CASE ~At("downloading") /\ ui' = ui /\ waiting' = waiting
      BY <1>1, <1>2, <2>1, <2>2, <3>1, <3>3 DEF IInv, Types, Asked, Screen, At, Working
    <3> QED BY <2>3, <3>2, <3>3 DEF HandleProgress
  <2>4. CASE HandleDone
    <3>1. /\ posted = "done" /\ posted' = "none" /\ waiting' = waiting
          /\ job.run[0].at = "closed" /\ job.ch = <<>>
      BY <2>4 DEF HandleDone, IInv, Screen
    <3>2. At("downloading") => job.state = ui.shown
      BY <1>1, <3>1 DEF IInv, Screen
    <3>3. CASE At("downloading") /\ ui.shown = "failed"
      <4>1. ui' = [ui EXCEPT !.step = "done", !.outcome = "failed"] /\ importing' = importing
        BY <2>4, <3>3 DEF HandleDone
      <4>2. ui' \in Ui /\ ui'.open = ui.open /\ ui'.step = "done" /\ ui'.outcome = "failed"
            /\ ui.open
        BY <1>1, <3>3, <4>1 DEF Ui, Step, At
      <4>3. Types' /\ Asked'
        BY <1>2, <2>1, <3>1, <3>3, <4>1, <4>2 DEF IInv, Types, Asked, At
      <4>4. Screen'
        BY <2>1, <3>1, <3>2, <3>3, <4>1, <4>2 DEF IInv, Screen, At
      <4> QED BY <2>2, <4>3, <4>4 DEF IInv
    <3>4. CASE ~(At("downloading") /\ ui.shown = "failed")
      <4>1. ui' = ui /\ importing' = At("downloading")
        BY <2>4, <3>4 DEF HandleDone
      <4>2. At("downloading") => ToSet(job.plan) \subseteq job.put
        BY <3>1, <3>2, <3>4 DEF IInv, Settled, Ended
      <4>3. Types' /\ Asked'
        BY <1>2, <2>1, <3>1, <4>1 DEF IInv, Types, Asked, At
      <4>4. Screen'
        <5>1. ~(ui.open /\ ui.step \notin {"downloading", "done"})
          BY <3>1 DEF IInv, Screen
        <5> QED BY <1>1, <2>1, <3>1, <3>2, <4>1, <4>2, <5>1 DEF IInv, Screen, At
      <4> QED BY <2>2, <4>3, <4>4 DEF IInv
    <3> QED BY <3>3, <3>4
  <2>5. CASE Imported
    <3>1. importing /\ importing' = FALSE /\ waiting' = waiting /\ posted' = posted
      BY <2>5 DEF Imported
    <3>2. CASE At("downloading")
      <4>1. ui' = [ui EXCEPT !.step = "done", !.outcome = "imported"]
        BY <2>5, <3>2 DEF Imported
      <4>2. ui' \in Ui /\ ui'.open /\ ui'.step = "done" /\ ui'.outcome = "imported"
        BY <1>1, <3>2, <4>1 DEF Ui, Step, At
      <4>3. Types' /\ Asked' /\ Screen'
        BY <1>2, <2>1, <3>1, <3>2, <4>1, <4>2 DEF IInv, Types, Asked, Screen, At
      <4> QED BY <2>2, <4>3 DEF IInv
    <3>3. CASE ~At("downloading")
      <4>1. ui' = ui
        BY <2>5, <3>3 DEF Imported
      <4>2. Types' /\ Asked'
        BY <1>2, <2>1, <3>1, <4>1 DEF IInv, Types, Asked, At
      <4>3. Screen'
        BY <2>1, <3>1, <3>3, <4>1 DEF IInv, Screen, At, Working
      <4> QED BY <2>2, <4>2, <4>3 DEF IInv
    <3> QED BY <3>2, <3>3
  <2> QED BY <1>4, <2>3, <2>4, <2>5
<1> QED BY <1>3, <1>4

\* The process has just started.
Started ==
    /\ served \in [File -> Version]
    /\ staged \in [File -> Content] /\ published \in [File -> Content]
    /\ job = NoJob /\ ui = Closed /\ hub = "none"
    /\ waiting = FALSE /\ posted = "none" /\ importing = FALSE

\* Without a download there is nothing to say, whatever lies on the disk.
LEMMA Blank == Started => IInv
<1> SUFFICES ASSUME Started PROVE IInv
  OBVIOUS
<1> USE DEF Started
<1>1. /\ NoJob.plan = <<>> /\ NoJob.queue = <<>> /\ NoJob.put = {} /\ NoJob.clean = FALSE
      /\ NoJob.state = "pending" /\ NoJob.ch = <<>>
      /\ NoJob.run = [w \in Goroutine |-> Nowhere] /\ \A f \in File : NoJob.files[f] = "pending"
  BY DEF NoJob
<1>2. \A w \in Goroutine : job.run[w] = Nowhere /\ job.run[w].at = "none"
  BY <1>1 DEF Nowhere
<1>3. NoJob \in Job
  <2>1. /\ [f \in File |-> "pending"] \in [File -> FileState] /\ "pending" \in Overall
        /\ <<>> \in Seq(Overall) /\ <<>> \in Seq(File)
        /\ [f \in File |-> 1] \in [File -> Version]
        /\ [w \in Goroutine |-> Nowhere] \in [Goroutine -> Run]
    BY Versions, Rest DEF FileState, Overall
  <2> HIDE DEF Nowhere
  <2> QED BY <2>1 DEF NoJob, Job
<1>4. Closed \in Ui /\ ~Closed.open /\ Closed.outcome = "none"
  <2>1. [f \in File |-> 1] \in [File -> Version] /\ <<>> \in Seq(File) /\ <<>> \in Seq(BOOLEAN)
    BY Versions
  <2> QED BY <2>1 DEF Closed, Ui, Step
<1>5. Types /\ Asked
  BY <1>3, <1>4 DEF Types, Asked
<1>6. \A w \in Crew : ~Holding(w)
  BY <1>2, Rest DEF Holding
<1>7. Stages
  BY <1>2, Rest DEF Stages
<1>8. Shares
  BY <1>1, <1>2, <1>6, Rest DEF Shares, IsInjective
<1>9. Verified
  BY <1>1, DownloadAssumption DEF Verified, PublishedExact
<1>10. Settled
  BY <1>1, <1>2, Rest DEF Settled, Ended
<1>11. Undisturbed
  BY <1>1 DEF Undisturbed
<1>12. Screen
  BY <1>2, <1>4, Rest DEF Screen, At
<1> QED BY <1>5, <1>7, <1>8, <1>9, <1>10, <1>11, <1>12 DEF IInv

\* A cancellation, a change at the hub and a restart.
LEMMA OtherSteps ==
    ASSUME IInv, Cancel \/ CloseWizard \/ NewVersion \/ Restart
    PROVE  IInv'
<1>1. job \in Job /\ ui \in Ui /\ UNCHANGED <<staged, published>> /\ Closed \in Ui
  BY Versions DEF IInv, Types, Ui, Closed, Step, Overall, Cancel, CloseWizard, NewVersion, Restart,
                  disk
<1>2. CASE Cancel \/ CloseWizard \/ NewVersion
  <2>1. /\ job' \in Job /\ job'.plan = job.plan /\ job'.want = job.want
        /\ job'.queue = job.queue /\ job'.files = job.files /\ job'.state = job.state
        /\ job'.put = job.put /\ job'.run = job.run /\ job'.ch = job.ch
        /\ (job'.clean => job.clean /\ ~Working)
    <3>1. (job.clean /\ ~Working) \in BOOLEAN
      OBVIOUS
    <3>2. CASE job' = [job EXCEPT !.canceled = TRUE, !.clean = job.clean /\ ~Working]
      BY <1>1, <3>2 DEF Job
    <3>3. CASE job' = [job EXCEPT !.clean = job.clean /\ ~Working]
      BY <1>1, <3>3 DEF Job
    <3> QED BY <1>2, <3>2, <3>3 DEF Cancel, CloseWizard, NewVersion
  <2>2. Stages' /\ Shares' /\ Verified' /\ Settled' /\ Undisturbed'
    BY <1>1, <2>1, Untouched DEF disk
  <2>3. served' \in [File -> Version]
    BY <1>2 DEF Cancel, CloseWizard, NewVersion, IInv, Types
  <2>4. UNCHANGED <<hub, waiting, posted, importing>>
    BY <1>2 DEF Cancel, CloseWizard, NewVersion, pipes
  <2>5. CASE Cancel
    <3>1. ui' = [ui EXCEPT !.step = "done", !.outcome = "canceled"] /\ At("downloading")
      BY <2>5 DEF Cancel
    <3>2. ui' \in Ui /\ ui'.open /\ ui'.step = "done" /\ ui'.outcome = "canceled"
      BY <1>1, <3>1 DEF Ui, Step, At
    <3>3. Types' /\ Asked' /\ Screen'
      BY <1>1, <2>1, <2>3, <2>4, <3>1, <3>2 DEF IInv, Types, Asked, Screen, At
    <3> QED BY <2>2, <3>3 DEF IInv
  <2>6. CASE CloseWizard
    <3>1. ui' = Closed /\ At("done")
      BY <2>6 DEF CloseWizard
    <3>2. ~ui'.open /\ ui'.outcome = "none"
      BY <3>1 DEF Closed
    <3>3. Types' /\ Asked' /\ Screen'
      BY <1>1, <2>1, <2>3, <2>4, <3>1, <3>2 DEF IInv, Types, Asked, Screen, At
    <3> QED BY <2>2, <3>3 DEF IInv
  <2>7. CASE NewVersion
    <3>1. ui' = ui
      BY <2>7 DEF NewVersion
    <3>2. Types' /\ Asked' /\ Screen'
      BY <1>1, <2>1, <2>3, <2>4, <3>1 DEF IInv, Types, Asked, Screen, At, Working
    <3> QED BY <2>2, <3>2 DEF IInv
  <2> QED BY <1>2, <2>5, <2>6, <2>7
<1>3. CASE Restart
  <2>1. /\ job' = NoJob /\ ui' = Closed /\ hub' = "none" /\ ~waiting' /\ posted' = "none"
        /\ ~importing' /\ served' = served /\ waiting' \in BOOLEAN /\ importing' \in BOOLEAN
    BY <1>3 DEF Restart
  <2>2. Started'
    BY <1>1, <2>1 DEF Started, IInv, Types
  <2> QED BY <2>2, Blank, PTL
<1> QED BY <1>2, <1>3

-----------------------------------------------------------------------------
(* The theorems *)

LEMMA Initially == Init => IInv
<1>1. Init => Started
  BY Versions DEF Init, DownloadInit, Started, Content
<1> QED BY <1>1, Blank

LEMMA Inductive == IInv /\ [Next]_vars => IInv'
<1> SUFFICES ASSUME IInv, [Next]_vars PROVE IInv'
  OBVIOUS
<1>1. CASE System
  BY <1>1, DownloadingStep, SearchSteps, PlanSteps, ProgressSteps DEF System
<1>2. CASE User
  BY <1>2, SearchSteps, PlanSteps, StartDownloadStep, OtherSteps DEF User
<1>3. CASE NewVersion \/ Restart
  BY <1>3, OtherSteps
<1>4. CASE UNCHANGED vars
  <2>1. UNCHANGED <<served, disk, job, ui, hub, waiting, posted, importing>>
    BY <1>4 DEF vars, disk
  <2>2. Stages' /\ Shares' /\ Verified' /\ Settled' /\ Undisturbed'
    BY <2>1, Untouched
  <2>3. Types' /\ Asked' /\ Screen'
    BY <2>1 DEF IInv, Types, Asked, Screen, At, Working, disk
  <2> QED BY <2>2, <2>3 DEF IInv
<1> QED BY <1>1, <1>2, <1>3, <1>4 DEF Next

LEMMA Invariant == Spec => []IInv
  BY Initially, Inductive, PTL DEF Spec

\* What a download published under a checksum is what its plan lists, for every
\* repository, number of workers, and history of crashes, cancellations, failures
\* and new versions (downloadFile, verifyChecksum and the renames of downloadAll).
THEOREM PublishedIsExact == Spec => []PublishedExact
<1>1. IInv => PublishedExact
  BY DEF IInv, Verified
<1> QED BY <1>1, Invariant, PTL

\* The wizard imports a plan only when all of it was published and reports a failure
\* only of a download that failed (waitForProgress and its messages), and a
\* download that nothing disturbs succeeds if the hub serves the version planned
\* and each partial it starts from is a beginning of that version.
THEOREM OutcomesAreTrue == Spec => []OutcomeTrue
<1>1. IInv => OutcomeTrue
  <2> SUFFICES ASSUME IInv PROVE OutcomeTrue
    OBVIOUS
  <2>1. importing => ToSet(job.plan) \subseteq job.put
    BY DEF IInv, Screen
  <2>2. ui.outcome = "failed" => job.state = "failed"
    BY DEF IInv, Screen
  <2>3. job.run[0].at = "closed" /\ job.clean => job.state = "completed"
    BY DEF IInv, Settled, Ended, Undisturbed
  <2> QED BY <2>1, <2>2, <2>3 DEF OutcomeTrue
<1> QED BY <1>1, Invariant, PTL

-----------------------------------------------------------------------------

\* A set of numbers that is not empty and has an end has a least and a largest.
LEMMA Extremes ==
  ASSUME NEW n \in Nat, NEW S \in SUBSET (1 .. n), S # {}
  PROVE  /\ \E x \in S : \A y \in S : x >= y
         /\ \E x \in S : \A y \in S : x <= y
<1> DEFINE R == StrictSubsetOrdering(Nat)
           F == FiniteSubsetsOf(Nat)
           Above == {{y \in S : y >= x} : x \in S}
           Below == {{y \in S : y <= x} : x \in S}
<1>1. IsWellFoundedOn(R, F)
  BY FS_StrictSubsetOrderingWellFounded
<1>2. Above \subseteq F /\ Below \subseteq F
  <2>1. IsFiniteSet(1 .. n) /\ 1 .. n \subseteq Nat
    BY FS_Interval
  <2>2. \A T \in SUBSET (1 .. n) : IsFiniteSet(T) /\ T \in SUBSET Nat
    BY <2>1, FS_Subset
  <2> QED BY <2>2 DEF FiniteSubsetsOf
<1>3. Above # {} /\ Below # {}
  OBVIOUS
<1>4. PICK A \in Above : \A B \in Above : ~(<<B, A>> \in R)
  <2> HIDE DEF R, F, Above
  <2> QED BY <1>1, <1>2, <1>3, WFMin
<1>5. PICK B \in Below : \A C \in Below : ~(<<C, B>> \in R)
  <2> HIDE DEF R, F, Below
  <2> QED BY <1>1, <1>2, <1>3, WFMin
<1>6. PICK a \in S : A = {y \in S : y >= a}
  BY <1>4
<1>7. PICK b \in S : B = {y \in S : y <= b}
  BY <1>5
<1>8. ASSUME NEW y \in S PROVE a >= y
  <2> SUFFICES ASSUME ~(a >= y) PROVE FALSE
    OBVIOUS
  <2> DEFINE T == {z \in S : z >= y}
  <2>1. y > a /\ y \in Nat /\ a \in Nat /\ \A z \in S : z \in Nat
    OBVIOUS
  <2>2. T \subseteq A /\ a \in A /\ a \notin T
    <3>1. \A z \in S : z >= y => z >= a
      BY <2>1
    <3>2. a >= a /\ ~(a >= y)
      BY <2>1
    <3> QED BY <1>6, <3>1, <3>2, Zenon
  <2>3. <<T, A>> \in (SUBSET Nat) \X (SUBSET Nat)
    BY <1>6, <2>1
  <2>4. <<T, A>> \in R
    BY <2>2, <2>3 DEF StrictSubsetOrdering
  <2> QED BY <1>4, <2>4
<1>9. ASSUME NEW y \in S PROVE b <= y
  <2> SUFFICES ASSUME ~(b <= y) PROVE FALSE
    OBVIOUS
  <2> DEFINE T == {z \in S : z <= y}
  <2>1. y < b /\ y \in Nat /\ b \in Nat /\ \A z \in S : z \in Nat
    OBVIOUS
  <2>2. T \subseteq B /\ b \in B /\ b \notin T
    <3>1. \A z \in S : z <= y => z <= b
      BY <2>1
    <3>2. b <= b /\ ~(b <= y)
      BY <2>1
    <3> QED BY <1>7, <3>1, <3>2, Zenon
  <2>3. <<T, B>> \in (SUBSET Nat) \X (SUBSET Nat)
    BY <1>7, <2>1
  <2>4. <<T, B>> \in R
    BY <2>2, <2>3 DEF StrictSubsetOrdering
  <2> QED BY <1>5, <2>4
<1> QED BY <1>8, <1>9

\* Max and Min of such a set are in it.
LEMMA MaxMin ==
  ASSUME NEW n \in Nat, NEW S \in SUBSET (1 .. n), S # {}
  PROVE  /\ Max(S) \in S /\ \A y \in S : Max(S) >= y
         /\ Min(S) \in S /\ \A y \in S : Min(S) <= y
BY Extremes DEF Max, Min

\* Select chooses the largest context that fits, or the least of all.
LEMMA SelectIs ==
  ASSUME NEW n \in Nat, NEW of, DOMAIN of \subseteq 1 .. n, DOMAIN of # {}
  PROVE  /\ Select(of) \in DOMAIN of
         /\ IF of[Select(of)].fit = "does_not_fit"
            THEN \A c \in DOMAIN of : of[c].fit = "does_not_fit" /\ c >= Select(of)
            ELSE \A c \in DOMAIN of : c > Select(of) => of[c].fit = "does_not_fit"
<1> DEFINE fitting == {c \in DOMAIN of : of[c].fit # "does_not_fit"}
<1>1. CASE fitting # {}
  <2>1. fitting \in SUBSET (1 .. n)
    OBVIOUS
  <2>2. Max(fitting) \in fitting /\ \A y \in fitting : Max(fitting) >= y
    BY <1>1, <2>1, MaxMin
  <2>3. Select(of) = Max(fitting)
    BY <1>1 DEF Select
  <2>4. Select(of) \in fitting /\ \A y \in fitting : Select(of) >= y
    BY <2>2, <2>3
  <2>5. \A c \in DOMAIN of : c > Select(of) => c \notin fitting
    BY <2>1, <2>4
  <2> QED BY <2>4, <2>5
<1>2. CASE fitting = {}
  <2>1. DOMAIN of \in SUBSET (1 .. n)
    OBVIOUS
  <2>2. Min(DOMAIN of) \in DOMAIN of /\ \A y \in DOMAIN of : Min(DOMAIN of) <= y
    BY <2>1, MaxMin
  <2>3. Select(of) = Min(DOMAIN of)
    BY <1>2 DEF Select
  <2>4. Select(of) \in DOMAIN of /\ \A y \in DOMAIN of : Select(of) <= y
    BY <2>2, <2>3
  <2>5. \A c \in DOMAIN of : of[c].fit = "does_not_fit" /\ c >= Select(of)
    BY <1>2, <2>1, <2>4
  <2> QED BY <2>4, <2>5
<1> QED BY <1>1, <1>2

----------------------------------------------------------------------------
(* What a suggestion is.                                                     *)

\* Of every context of an entry or of none there is an estimate.
LEMMA AllOrNone ==
  ASSUME NEW entry, NEW engine, NEW kind, NEW hw, NEW overhead, NEW c, NEW d,
         Estimate(entry, kind, Suggested(entry, engine, kind, c), hw, overhead) # Fails
  PROVE  /\ Estimate(entry, kind, Suggested(entry, engine, kind, d), hw, overhead) # Fails
         /\ entry.kind = kind /\ entry.meta # None
<1> DEFINE ngl == IF kind = "llamacpp" THEN Automatic ELSE None
           util == IF kind = "vllm" THEN 85 ELSE None
           pool == SelectPool(hw, kind, ngl, util)
           Hopeless == \/ entry.meta = None
                       \/ entry.kind # kind \/ pool = None \/ entry.meta.context = 0
                       \/ entry.meta.layers = 0 \/ entry.meta.kv = 0
                       \/ (entry.meta.size = 0 /\ entry.meta.params = 0)
<1>1. ASSUME NEW x
      PROVE  /\ Suggested(entry, engine, kind, x).ngl = ngl
             /\ Suggested(entry, engine, kind, x).util = util
  BY DEF Suggested
<1>2. ASSUME NEW x
      PROVE  (Estimate(entry, kind, Suggested(entry, engine, kind, x), hw, overhead) = Fails) <=> Hopeless
  <2> DEFINE p == Suggested(entry, engine, kind, x)
             e == Estimate(entry, kind, p, hw, overhead)
  <2>1. SelectPool(hw, kind, p.ngl, p.util) = pool
    BY <1>1
  <2> HIDE DEF p, pool
  <2>2. CASE Hopeless
    <3>1. e = Fails
      BY <2>1, <2>2, Zenon DEF Estimate
    <3> QED BY <2>2, <3>1 DEF p
  <2>3. CASE ~Hopeless
    <3>1. \E fit, required, available :
             e = [fit |-> fit, required |-> required, available |-> available,
                  confidence |-> IF entry.meta.size > 0 THEN "high" ELSE "medium"]
      BY <2>1, <2>3, ZenonT(60) DEF Estimate
    <3> HIDE DEF e, Hopeless
    <3>2. e.confidence # "none"
      <4>1. PICK fit, required, available :
               e = [fit |-> fit, required |-> required, available |-> available,
                    confidence |-> IF entry.meta.size > 0 THEN "high" ELSE "medium"]
        BY <3>1
      <4>2. e.confidence = IF entry.meta.size > 0 THEN "high" ELSE "medium"
        BY <4>1
      <4> QED BY <4>2
    <3>3. Fails.confidence = "none"
      BY DEF Fails
    <3> HIDE DEF e
    <3>4. e # Fails
      BY <3>2, <3>3
    <3> QED BY <2>3, <3>4 DEF e, p
  <2> QED BY <2>2, <2>3 DEF p
<1> HIDE DEF pool
<1> QED BY <1>2

\* Nothing but the context of a suggested profile differs, and any is valid.
LEMMA ValidAllOrNone ==
  ASSUME NEW entry, NEW engine, NEW kind, NEW c, NEW d, c > 0, d > 0,
         ValidateProfile(Suggested(entry, engine, kind, c), entry, None, kind) = {}
  PROVE  ValidateProfile(Suggested(entry, engine, kind, d), entry, None, kind) = {}
<1> DEFINE p == Suggested(entry, engine, kind, c)
           q == Suggested(entry, engine, kind, d)
<1>1. /\ p.tokens = q.tokens /\ p.mode = q.mode /\ p.draft = q.draft /\ p.model = q.model
      /\ p.name = q.name /\ p.port = q.port /\ p.ngl = q.ngl /\ p.batch = q.batch
      /\ p.util = q.util /\ p.context = c /\ q.context = d
  BY DEF Suggested
<1> HIDE DEF p, q
<1>2. ValidateSpeculative(p, entry, None, kind) = ValidateSpeculative(q, entry, None, kind)
  BY <1>1 DEF ValidateSpeculative
<1>3. ValidateProfile(p, entry, None, kind) = {}
  BY DEF p
<1>4. ValidateProfile(q, entry, None, kind) = {}
  BY <1>1, <1>2, <1>3 DEF ValidateProfile
<1> QED BY <1>4 DEF q

\* The estimates of a suggestion, of every context.
Estimates(entry, engine, kind, hw) ==
    [c \in SuggestionContexts(entry) |->
        Estimate(entry, kind, Suggested(entry, engine, kind, c), hw, Overhead)]

\* A context is the best of those of an entry.
BestOf(entry, engine, kind, hw, best) ==
    /\ best \in SuggestionContexts(entry)
    /\ IF Estimates(entry, engine, kind, hw)[best].fit = "does_not_fit"
       THEN \A c \in SuggestionContexts(entry) :
               Estimates(entry, engine, kind, hw)[c].fit = "does_not_fit" /\ c >= best
       ELSE \A c \in SuggestionContexts(entry) :
               c > best => Estimates(entry, engine, kind, hw)[c].fit = "does_not_fit"

\* What SuggestProfile answers is for the best of the contexts.
LEMMA SuggestionIs ==
  ASSUME NEW entry, NEW engine, NEW kind, NEW hw,
         entry.meta # None => entry.meta.context \in Nat,
         SuggestProfile(entry, engine, kind, hw, Overhead) # None
  PROVE  /\ entry.kind = kind /\ entry.meta # None
         /\ \E best \in Nat \ {0} :
               /\ BestOf(entry, engine, kind, hw, best)
               /\ SuggestProfile(entry, engine, kind, hw, Overhead)
                     = [draft |-> Suggested(entry, engine, kind, best),
                        fit |-> Estimates(entry, engine, kind, hw)[best]]
<1> DEFINE of == Estimates(entry, engine, kind, hw)
           D == SuggestionContexts(entry)
           usable == {c \in D : of[c] # Fails
                        /\ ValidateProfile(Suggested(entry, engine, kind, c), entry, None, kind) = {}}
           sel == Select([c \in usable |-> of[c]])
           s == SuggestProfile(entry, engine, kind, hw, Overhead)
<1>1. DOMAIN of = D /\ of = [c \in D |-> of[c]]
  BY DEF Estimates
<1>2. s = IF usable = {} THEN None ELSE [draft |-> Suggested(entry, engine, kind, sel), fit |-> of[sel]]
  <2>1. s = LET Draft(c) == Suggested(entry, engine, kind, c)
                f == [c \in SuggestionContexts(entry) |-> Estimate(entry, kind, Draft(c), hw, Overhead)]
                u == {c \in DOMAIN f : f[c] # Fails /\ ValidateProfile(Draft(c), entry, None, kind) = {}}
                context == Select([c \in u |-> f[c]])
            IN IF u = {} THEN None ELSE [draft |-> Draft(context), fit |-> f[context]]
    BY DEF SuggestProfile
  <2> QED BY <2>1 DEF Estimates
<1>3. PICK c0 \in usable : TRUE
  BY <1>2
<1>4. entry.kind = kind /\ entry.meta # None /\ entry.meta.context \in Nat
  <2>1. of[c0] = Estimate(entry, kind, Suggested(entry, engine, kind, c0), hw, Overhead)
    BY <1>3 DEF Estimates
  <2> QED BY <1>3, <2>1, AllOrNone
<1>5. D \subseteq 1 .. entry.meta.context
  BY <1>4 DEF SuggestionContexts
<1>6. usable = D
  <2>1. ASSUME NEW c \in D PROVE c \in usable
    <3>1. c > 0 /\ c0 > 0
      BY <1>3, <1>4, <1>5
    <3>2. of[c] = Estimate(entry, kind, Suggested(entry, engine, kind, c), hw, Overhead)
      BY DEF Estimates
    <3>3. of[c0] = Estimate(entry, kind, Suggested(entry, engine, kind, c0), hw, Overhead)
      BY <1>3 DEF Estimates
    <3>4. of[c] # Fails
      BY <1>3, <3>2, <3>3, AllOrNone
    <3>5. ValidateProfile(Suggested(entry, engine, kind, c), entry, None, kind) = {}
      BY <1>3, <3>1, ValidAllOrNone
    <3> QED BY <3>4, <3>5
  <2> QED BY <2>1
<1>7. sel = Select(of)
  BY <1>1, <1>6
<1> HIDE DEF of, usable, sel
<1>8. /\ sel \in D
      /\ IF of[sel].fit = "does_not_fit"
         THEN \A c \in D : of[c].fit = "does_not_fit" /\ c >= sel
         ELSE \A c \in D : c > sel => of[c].fit = "does_not_fit"
  BY <1>1, <1>3, <1>4, <1>5, <1>6, <1>7, SelectIs
<1>9. s = [draft |-> Suggested(entry, engine, kind, sel), fit |-> of[sel]]
  BY <1>2, <1>3
<1>10. sel \in Nat \ {0}
  BY <1>4, <1>5, <1>8
<1>11. BestOf(entry, engine, kind, hw, sel)
  BY <1>8 DEF BestOf, of
<1> HIDE DEF s, D
<1> QED BY <1>4, <1>9, <1>10, <1>11 DEF s, of

Like(e) == \E m \in Library : e \in {m, [m EXCEPT !.vision = FALSE]}

\* The fields of an editor for the entry are filled in.
Filled(v, entry) ==
    /\ v \in [name : {v.name}, engine : ToSet(Offered(entry)), port : {v.port},
              context : Nat \cup {Automatic, Bad, None}, unit : {1, K, M}, ngl : {v.ngl}, batch : {v.batch},
              cache : {v.cache}, mmproj : BOOLEAN, mode : {v.mode}, tokens : {v.tokens}, draft : {v.draft},
              extra : {v.extra}, util : {v.util}, prefix : BOOLEAN]
    /\ Text(v.extra)

Shape(f) ==
    f \in [entry : {f.entry}, entries : {f.entries}, editing : {f.editing}, values : {f.values},
           initial : {f.initial}, focus : DOMAIN Fields, advanced : {f.advanced}, loading : {f.loading},
           advice : {f.advice}, acknowledged : {f.acknowledged}, discard : {f.discard}]

\* The context an advice names is the best there is for the entry.
Best(entry, advice) ==
    LET kind == entry.kind
        best == advice.context
        fit == [c \in SuggestionContexts(entry) |->
                   Estimate(entry, kind, Suggested(entry, advice.engine, kind, c), advice.hw, Overhead).fit]
    IN IF fit[best] = "does_not_fit"
       THEN \A c \in DOMAIN fit : fit[c] = "does_not_fit" /\ c >= best
       ELSE \A c \in DOMAIN fit : c > best => fit[c] = "does_not_fit"

Drawn(f) ==
    /\ Shape(f)
    /\ Like(f.entry)
    /\ Filled(f.values, f.entry)
    /\ f.advice # None => Best(f.entry, f.advice)

\* The tables: entries of the start, of which no two are the same model, and
\* profiles that refer to them.
Tables(d) ==
    /\ d \in [entries : {d.entries}, profiles : {d.profiles}, next : {d.next}]
    /\ \A e \in d.entries : Like(e)
    /\ \A e, f \in d.entries : e.id = f.id => e = f
    /\ \A p \in d.profiles : Row(p) /\ Refers(p, d.entries)
    /\ Ids(d.entries) = Ids(Library) => \A p \in d.profiles : Valid(p, Library)

Requested(a) == Like(a.entry) /\ a.engine \in ToSet(Offered(a.entry))

FormInv ==
    /\ Tables(db)
    /\ \A a \in asks : Requested(a)
    /\ screen = "form" \/ form # None => Drawn(form)
    /\ \A p \in saving : Row(p)

----------------------------------------------------------------------------
(* Entries.                                                                  *)
IsEntry(e) == e \in [id : {e.id}, kind : Kinds, vision : BOOLEAN, meta : {e.meta}]

\* What is always so of an entry: a model of the start, that sees or no longer does.
LEMMA LikeIs ==
  ASSUME NEW e, Like(e)
  PROVE  /\ \E m \in Library : e.id = m.id /\ e.kind = m.kind /\ e.meta = m.meta
         /\ IsEntry(e) /\ e # None
         /\ e.meta # None => e.meta.context \in Nat
         /\ Like([e EXCEPT !.vision = FALSE])
         /\ [e EXCEPT !.vision = FALSE].id = e.id /\ [e EXCEPT !.vision = FALSE].kind = e.kind
<1>1. PICK m \in Library : e \in {m, [m EXCEPT !.vision = FALSE]}
  BY DEF Like
<1>2. /\ m \in [id : {m.id}, kind : Kinds, vision : BOOLEAN, meta : {m.meta}]
      /\ m.meta # None => m.meta.context \in Nat
      /\ m # None /\ [m EXCEPT !.vision = FALSE] # None
  BY FormAssumption
<1> DEFINE b == [m EXCEPT !.vision = FALSE]
<1>3. /\ b \in [id : {m.id}, kind : Kinds, vision : BOOLEAN, meta : {m.meta}]
      /\ b.id = m.id /\ b.kind = m.kind /\ b.meta = m.meta
      /\ [b EXCEPT !.vision = FALSE] = b
  BY <1>2
<1>4. Like(b) /\ Like(m)
  BY DEF Like
<1>5. IsEntry(m) /\ IsEntry(b)
  BY <1>2, <1>3 DEF IsEntry
<1>6. CASE e = m
  BY <1>2, <1>3, <1>4, <1>5, <1>6
<1>7. CASE e = b
  <2> HIDE DEF b
  <2>1. b # None
    BY <1>2 DEF b
  <2> QED BY <1>2, <1>3, <1>4, <1>5, <1>7, <2>1
<1> QED BY <1>1, <1>6, <1>7

\* The model with an id is the one, where no two have it.
LEMMA EntryIn ==
  ASSUME NEW entries, \A e, f \in entries : e.id = f.id => e = f, NEW e \in entries
  PROVE  Entry(entries, e.id) = e
BY DEF Entry

\* The entry that is looked up has the id, if any has.
LEMMA EntryOfId ==
  ASSUME NEW entries, NEW id \in Ids(entries)
  PROVE  Entry(entries, id) \in entries /\ Entry(entries, id).id = id
BY DEF Entry, Ids

\* What an entry was at the start.
LEMMA EntryWas ==
  ASSUME NEW e, Like(e)
  PROVE  /\ e.id \in Ids(Library) /\ Entry(Library, e.id) \in Library
         /\ Entry(Library, e.id).id = e.id /\ Entry(Library, e.id).kind = e.kind
         /\ Entry(Library, e.id).meta = e.meta /\ Entry(Library, e.id) # None
<1>1. PICK m \in Library : e.id = m.id /\ e.kind = m.kind /\ e.meta = m.meta
  BY LikeIs
<1>2. \A a, b \in Library : a.id = b.id => a = b
  BY FormAssumption
<1>3. Entry(Library, m.id) = m
  BY <1>2, EntryIn
<1>4. m # None
  BY FormAssumption
<1> QED BY <1>1, <1>3, <1>4 DEF Ids

----------------------------------------------------------------------------
(* The engines of a kind.                                                    *)
\* The engines offered are those of the kind.
LEMMA OfferedIs ==
  ASSUME NEW e, Like(e)
  PROVE  /\ Offered(e) \in Seq({x \in DOMAIN EngineKind : EngineKind[x] = e.kind})
         /\ ToSet(Offered(e)) = {x \in DOMAIN EngineKind : EngineKind[x] = e.kind}
         /\ Offered(e) # <<>> => Head(Offered(e)) \in ToSet(Offered(e))
         /\ \A i \in 1 .. Len(Offered(e)) : Offered(e)[i] \in ToSet(Offered(e))
<1>1. e.kind \in Kinds
  BY LikeIs DEF IsEntry
<1> DEFINE S == {x \in DOMAIN EngineKind : EngineKind[x] = e.kind}
<1>2. Offered(e) \in Seq(S)
  BY <1>1, FormAssumption DEF Offered
<1>3. \A x \in S : x \in ToSet(Offered(e))
  BY <1>1, FormAssumption DEF Offered
<1>4. ToSet(Offered(e)) = {Offered(e)[i] : i \in 1 .. Len(Offered(e))}
  BY <1>2 DEF ToSet
<1>5. \A i \in 1 .. Len(Offered(e)) : Offered(e)[i] \in S
  BY <1>2
<1>6. Offered(e) # <<>> => 1 \in 1 .. Len(Offered(e)) /\ Head(Offered(e)) = Offered(e)[1]
  BY <1>2
<1> HIDE DEF S
<1>7. ToSet(Offered(e)) = S
  BY <1>3, <1>4, <1>5
<1>8. \A i \in 1 .. Len(Offered(e)) : Offered(e)[i] \in ToSet(Offered(e))
  BY <1>5, <1>7
<1> QED BY <1>2, <1>6, <1>7, <1>8 DEF S

\* Units are positive, and a context written in the largest that divides it
\* is read back as it was.
LEMMA Units ==
  ASSUME NEW c \in Nat \ {0}
  PROVE  LET unit == CASE c % M = 0 -> M [] c % M # 0 /\ c % K = 0 -> K [] c % K # 0 -> 1
         IN unit \in {1, K, M} /\ c \div unit \in Nat \ {0} /\ (c \div unit) * unit = c
<1>1. K \in Nat \ {0}
  BY FormAssumption
<1>2. M \in Nat \ {0}
  BY <1>1 DEF M
<1>3. ASSUME NEW d \in Nat \ {0}, c % d = 0
      PROVE  c \div d \in Nat \ {0} /\ (c \div d) * d = c
  BY <1>3
<1> DEFINE unit == CASE c % M = 0 -> M [] c % M # 0 /\ c % K = 0 -> K [] c % K # 0 -> 1
<1>4. CASE c % M = 0
  BY <1>2, <1>3, <1>4
<1>5. CASE c % M # 0 /\ c % K = 0
  <2>1. unit = K
    BY <1>5
  <2> QED BY <1>1, <1>3, <1>5, <2>1
<1>6. CASE c % M # 0 /\ c % K # 0
  <2>1. unit = 1
    BY <1>6
  <2>2. c \div 1 = c
    OBVIOUS
  <2> QED BY <2>1, <2>2
<1> QED BY <1>4, <1>5, <1>6

\* A profile fills an editor of an entry that has an engine.
LEMMA OpenedFits ==
  ASSUME NEW p, NEW entry, NEW drafts, Like(entry), Offered(entry) # <<>>,
         p.context \in Nat \ {0}, p.mmproj \in BOOLEAN, p.prefix \in BOOLEAN, Text(p.extra)
  PROVE  Filled(Opened(p, entry, Offered(entry), drafts), entry)
<1> DEFINE unit == CASE p.context % M = 0 -> M [] p.context % M # 0 /\ p.context % K = 0 -> K
                     [] p.context % K # 0 -> 1
           v == Opened(p, entry, Offered(entry), drafts)
<1>1. unit \in {1, K, M} /\ p.context \div unit \in Nat
  BY Units
<1> DEFINE engine == IF p.engine \in ToSet(Offered(entry)) THEN p.engine ELSE Head(Offered(entry))
           mmproj == p.mmproj /\ entry.vision
           tokens == IF p.tokens = None /\ p.mode # "off" THEN 1 ELSE p.tokens
           draft == IF p.draft \in drafts THEN p.draft ELSE None
           context == p.context \div unit
<1>2. engine \in ToSet(Offered(entry))
  BY OfferedIs
<1>3. mmproj \in BOOLEAN
  OBVIOUS
<1>4. v = [name |-> p.name, engine |-> engine,
           port |-> p.port, context |-> context, unit |-> unit, ngl |-> p.ngl,
           batch |-> p.batch, cache |-> p.cache, mmproj |-> mmproj, mode |-> p.mode,
           tokens |-> tokens, draft |-> draft,
           extra |-> p.extra, util |-> p.util, prefix |-> p.prefix]
  BY DEF Opened
<1>5. context \in Nat \cup {Automatic, Bad, None}
  BY <1>1
<1> HIDE DEF unit, v, engine, mmproj, tokens, draft, context
<1> QED BY <1>1, <1>2, <1>3, <1>4, <1>5 DEF Filled, v

\* The defaults of a new profile fill the fields in.
LEMMA DefaultsFit ==
  ASSUME NEW entry, Like(entry), Offered(entry) # <<>>
  PROVE  Filled(Defaults(Offered(entry)), entry)
<1>1. Head(Offered(entry)) \in ToSet(Offered(entry))
  BY OfferedIs
<1> QED BY <1>1 DEF Defaults, Filled, Text

\* What an editor makes of fields that are complete is a row.
LEMMA RowOfFields ==
  ASSUME NEW v, NEW entry, NEW id, NEW model, Like(entry), Filled(v, entry),
         Complete(v, KindOf(v))
  PROVE  Row(ToProfile(v, id, model, KindOf(v)))
<1> DEFINE kind == KindOf(v)
           p == ToProfile(v, id, model, kind)
           ngl == IF v.ngl = None THEN Automatic ELSE v.ngl
           tokens == IF v.mode = "off" THEN None ELSE v.tokens
           draft == IF Drafts(v.mode) THEN v.draft ELSE None
           util == IF kind = "vllm" THEN v.util ELSE None
           prefix == kind = "vllm" /\ v.prefix
           context == v.context * v.unit
<1>1. p = [id |-> id, model |-> model, engine |-> v.engine, name |-> v.name, port |-> v.port,
           context |-> context, ngl |-> ngl,
           batch |-> v.batch, cache |-> v.cache, mmproj |-> v.mmproj, mode |-> v.mode,
           tokens |-> tokens, draft |-> draft, extra |-> v.extra,
           util |-> util, prefix |-> prefix]
  BY DEF ToProfile
<1>2. /\ v.engine \in DOMAIN EngineKind /\ EngineKind[v.engine] = kind
      /\ v.mmproj \in BOOLEAN /\ v.prefix \in BOOLEAN /\ Text(v.extra)
      /\ v.unit \in {1, K, M} /\ v.context \in Nat \cup {Automatic, Bad, None}
  BY OfferedIs DEF Filled, KindOf
<1>3. context \in Nat \ {0}
  <2>1. K \in Nat \ {0}
    BY FormAssumption
  <2>2. M \in Nat \ {0}
    BY <2>1 DEF M
  <2>3. v.context \in Nat \ {0} /\ v.unit \in Nat \ {0}
    BY <1>2, <2>1, <2>2 DEF Complete, Digits
  <2> QED BY <2>3
<1>4. prefix \in BOOLEAN /\ (prefix => kind = "vllm")
  OBVIOUS
<1>5. ngl # None
  BY FormAssumption
<1>6. IF v.mode = "off" THEN tokens = None ELSE tokens # Bad
  BY DEF Complete
<1>7. ~Drafts(v.mode) => draft = None
  OBVIOUS
<1>8. IF kind = "vllm" THEN util # Bad /\ (util # None => util > 0 /\ util <= Hundredths)
      ELSE util = None /\ ~prefix
  BY DEF Complete
<1>9. /\ v.name # None /\ v.batch # Bad
      /\ Digits(v.port) /\ v.port >= 1 /\ v.port <= 65535
  BY DEF Complete
<1> HIDE DEF kind, p, ngl, tokens, draft, util, prefix, context
<1>10. /\ p.engine = v.engine /\ p.name = v.name /\ p.port = v.port /\ p.context = context
       /\ p.ngl = ngl /\ p.batch = v.batch /\ p.mmproj = v.mmproj /\ p.mode = v.mode
       /\ p.tokens = tokens /\ p.draft = draft /\ p.extra = v.extra /\ p.util = util
       /\ p.prefix = prefix
  BY <1>1
<1>11. p \in [id : {p.id}, model : {p.model}, engine : DOMAIN EngineKind, name : {p.name}, port : {p.port},
              context : Nat \ {0}, ngl : {p.ngl}, batch : {p.batch}, cache : {p.cache}, mmproj : BOOLEAN,
              mode : {p.mode}, tokens : {p.tokens}, draft : {p.draft}, extra : {p.extra}, util : {p.util},
              prefix : BOOLEAN]
  BY <1>1, <1>2, <1>3, <1>4
<1>12. Row(p)
  BY <1>2, <1>5, <1>6, <1>7, <1>8, <1>9, <1>10, <1>11 DEF Row
<1> QED BY <1>12 DEF p, kind

\* A row that is opened is complete, and is made the same row again.
LEMMA RowReopens ==
  ASSUME NEW p, NEW entry, NEW drafts, Like(entry), Row(p),
         EngineKind[p.engine] = entry.kind, p.mmproj => entry.vision,
         p.mode # "off" => p.tokens # None, p.draft # None => p.draft \in drafts
  PROVE  LET v == Opened(p, entry, Offered(entry), drafts)
         IN /\ KindOf(v) = entry.kind
            /\ Complete(v, KindOf(v))
            /\ ToProfile(v, p.id, p.model, KindOf(v)) = p
<1> DEFINE unit == CASE p.context % M = 0 -> M [] p.context % M # 0 /\ p.context % K = 0 -> K
                     [] p.context % K # 0 -> 1
           v == Opened(p, entry, Offered(entry), drafts)
           context == p.context \div unit
           kind == entry.kind
<1>1. p \in [id : {p.id}, model : {p.model}, engine : DOMAIN EngineKind, name : {p.name}, port : {p.port},
             context : Nat \ {0}, ngl : {p.ngl}, batch : {p.batch}, cache : {p.cache}, mmproj : BOOLEAN,
             mode : {p.mode}, tokens : {p.tokens}, draft : {p.draft}, extra : {p.extra}, util : {p.util},
             prefix : BOOLEAN]
  BY DEF Row
<1>2. p.context \in Nat \ {0} /\ p.engine \in DOMAIN EngineKind /\ p.mmproj \in BOOLEAN /\ p.prefix \in BOOLEAN
  BY <1>1
<1>3. unit \in {1, K, M} /\ context \in Nat \ {0} /\ context * unit = p.context
  BY <1>2, Units
<1>4. p.engine \in ToSet(Offered(entry))
  BY <1>2, OfferedIs
<1>5. /\ v.name = p.name /\ v.engine = p.engine /\ v.port = p.port /\ v.context = context
      /\ v.unit = unit /\ v.ngl = p.ngl /\ v.batch = p.batch /\ v.cache = p.cache
      /\ v.mmproj = (p.mmproj /\ entry.vision) /\ v.mode = p.mode
      /\ v.tokens = (IF p.tokens = None /\ p.mode # "off" THEN 1 ELSE p.tokens)
      /\ v.draft = (IF p.draft \in drafts THEN p.draft ELSE None)
      /\ v.extra = p.extra /\ v.util = p.util /\ v.prefix = p.prefix
  BY <1>4 DEF Opened
<1> HIDE DEF v, unit, context, kind
<1>6. v.mmproj = p.mmproj /\ v.tokens = p.tokens /\ v.draft = p.draft
  <2>1. entry.vision \in BOOLEAN
    BY LikeIs DEF IsEntry
  <2>2. v.mmproj = p.mmproj
    BY <1>2, <1>5, <2>1
  <2>3. v.tokens = p.tokens
    BY <1>5
  <2>4. v.draft = p.draft
    BY <1>5
  <2> QED BY <2>2, <2>3, <2>4
<1>7. KindOf(v) = kind
  BY <1>5 DEF KindOf, kind
<1>8. Complete(v, kind)
  <2>1. Digits(context) /\ context > 0
    <3>1. {Automatic, Bad, None} \cap Nat = {}
      BY FormAssumption
    <3>2. context \in Nat /\ context > 0
      BY <1>3
    <3>3. context \notin {Automatic, Bad, None}
      BY <3>1, <3>2, Zenon
    <3> QED BY <3>2, <3>3 DEF Digits
  <2>2. p.mode # "off" => p.tokens # Bad
    BY DEF Row
  <2>3. kind = "vllm" => p.util # Bad /\ (p.util # None => p.util > 0 /\ p.util <= Hundredths)
    BY DEF Row, kind
  <2>4. /\ p.name # None /\ p.batch # Bad
        /\ Digits(p.port) /\ p.port >= 1 /\ p.port <= 65535
    BY DEF Row
  <2> QED BY <1>5, <1>6, <2>1, <2>2, <2>3, <2>4 DEF Complete
<1>9. ToProfile(v, p.id, p.model, kind) = p
  <2> DEFINE q == ToProfile(v, p.id, p.model, kind)
  <2>1. q = [id |-> p.id, model |-> p.model, engine |-> v.engine, name |-> v.name, port |-> v.port,
             context |-> v.context * v.unit, ngl |-> IF v.ngl = None THEN Automatic ELSE v.ngl,
             batch |-> v.batch, cache |-> v.cache, mmproj |-> v.mmproj, mode |-> v.mode,
             tokens |-> IF v.mode = "off" THEN None ELSE v.tokens,
             draft |-> IF Drafts(v.mode) THEN v.draft ELSE None, extra |-> v.extra,
             util |-> IF kind = "vllm" THEN v.util ELSE None, prefix |-> kind = "vllm" /\ v.prefix]
    BY DEF ToProfile
  <2>2. v.context * v.unit = p.context
    BY <1>3, <1>5
  <2>3. (IF v.ngl = None THEN Automatic ELSE v.ngl) = p.ngl
    BY <1>5 DEF Row
  <2>4. (IF v.mode = "off" THEN None ELSE v.tokens) = p.tokens
    BY <1>5, <1>6 DEF Row
  <2>5. (IF Drafts(v.mode) THEN v.draft ELSE None) = p.draft
    BY <1>5, <1>6 DEF Row
  <2>6. (IF kind = "vllm" THEN v.util ELSE None) = p.util
    BY <1>5 DEF Row, kind
  <2>7. (kind = "vllm" /\ v.prefix) = p.prefix
    <3>1. ~(kind = "vllm") => ~p.prefix
      BY DEF Row, kind
    <3> QED BY <1>2, <1>5, <3>1
  <2>8. q = [id |-> p.id, model |-> p.model, engine |-> p.engine, name |-> p.name, port |-> p.port,
             context |-> p.context, ngl |-> p.ngl,
             batch |-> p.batch, cache |-> p.cache, mmproj |-> p.mmproj, mode |-> p.mode,
             tokens |-> p.tokens,
             draft |-> p.draft, extra |-> p.extra,
             util |-> p.util, prefix |-> p.prefix]
    BY <1>5, <1>6, <2>1, <2>2, <2>3, <2>4, <2>5, <2>6, <2>7, ZenonT(30)
  <2> HIDE DEF q
  <2>9. q = p
    BY <1>1, <2>8
  <2> QED BY <2>9 DEF q
<1> QED BY <1>7, <1>8, <1>9 DEF v, kind

----------------------------------------------------------------------------
(* Command lines.                                                            *)
Options0 == Managed("llamacpp") \cup Managed("vllm")

\* A flag that is not there yet may follow.
LEMMA Extended ==
  ASSUME NEW S, NEW s \in Seq(S), NEW T, IsInjective(s), \A i \in DOMAIN s : s[i] \in T,
         NEW flag \in S, flag \notin T, NEW condition \in BOOLEAN
  PROVE  LET r == s \o When(condition, flag)
         IN /\ r \in Seq(S) /\ IsInjective(r) /\ \A i \in DOMAIN r : r[i] \in T \cup {flag}
            /\ Len(r) >= Len(s)
<1> DEFINE r == s \o When(condition, flag)
<1>1. CASE ~condition
  <2>1. r = s
    BY <1>1 DEF When
  <2> QED BY <2>1
<1>2. CASE condition
  <2>1. When(condition, flag) = <<flag>>
    BY <1>2 DEF When
  <2>2. r = s \o <<flag>>
    BY <2>1
  <2>3. /\ r \in Seq(S) /\ Len(r) = Len(s) + 1 /\ DOMAIN r = 1 .. Len(r) /\ DOMAIN s = 1 .. Len(s)
        /\ r[Len(s) + 1] = flag /\ \A i \in 1 .. Len(s) : r[i] = s[i]
        /\ Len(s) \in Nat
    BY <2>2
  <2> HIDE DEF r
  <2>4. \A i \in DOMAIN r : i = Len(s) + 1 \/ i \in DOMAIN s
    BY <2>3
  <2>5. \A i \in DOMAIN r : r[i] \in T \cup {flag}
    BY <2>3, <2>4
  <2>6. IsInjective(r)
    <3> SUFFICES ASSUME NEW a \in DOMAIN r, NEW b \in DOMAIN r, r[a] = r[b] PROVE a = b
      BY DEF IsInjective
    <3>1. CASE a = Len(s) + 1 /\ b = Len(s) + 1
      BY <3>1
    <3>2. CASE a \in DOMAIN s /\ b = Len(s) + 1
      BY <2>3, <3>2
    <3>3. CASE a = Len(s) + 1 /\ b \in DOMAIN s
      BY <2>3, <3>3
    <3>4. CASE a \in DOMAIN s /\ b \in DOMAIN s
      <4>1. s[a] = s[b]
        BY <2>3, <3>4
      <4> QED BY <3>4, <4>1 DEF IsInjective
    <3> QED BY <2>4, <3>1, <3>2, <3>3, <3>4
  <2> QED BY <2>3, <2>5, <2>6 DEF r
<1> QED BY <1>1, <1>2

\* A profile's own options, of llama.cpp and of vLLM: each is named once.
LEMMA OwnOfLlama ==
  ASSUME NEW p, NEW entry, p.mmproj \in BOOLEAN, entry.vision \in BOOLEAN
  PROVE  LET own == OwnFlags(p, entry, "llamacpp")
         IN own \in Seq(Options0) /\ IsInjective(own) /\ Len(own) > 0
<1> DEFINE S == Options0
           s0 == When(p.mmproj /\ entry.vision, "--mmproj") \o <<"--port", "-c", "-ngl", "--metrics">>
           T0 == {"--mmproj", "--port", "-c", "-ngl", "--metrics"}
           s1 == s0 \o When(p.batch # None, "-b")
           T1 == T0 \cup {"-b"}
           s2 == s1 \o When(p.cache # None, "--cache-type-k")
           T2 == T1 \cup {"--cache-type-k"}
           s3 == s2 \o When(p.mode # "off", "--spec-type")
           T3 == T2 \cup {"--spec-type"}
           s4 == s3 \o When(Drafts(p.mode), "--spec-draft-model")
           T4 == T3 \cup {"--spec-draft-model"}
           s5 == s4 \o When(p.mode # "off" /\ p.tokens # None, "--spec-draft-n-max")
<1>1. OwnFlags(p, entry, "llamacpp") = s5
  BY DEF OwnFlags
<1>2. T0 \subseteq S /\ "-b" \in S /\ "--cache-type-k" \in S /\ "--spec-type" \in S
      /\ "--spec-draft-model" \in S /\ "--spec-draft-n-max" \in S
  BY DEF Options0, Managed
<1>3. /\ "-b" \notin T0 /\ "--cache-type-k" \notin T1 /\ "--spec-type" \notin T2
      /\ "--spec-draft-model" \notin T3 /\ "--spec-draft-n-max" \notin T4
  OBVIOUS
<1>4. s0 \in Seq(S) /\ IsInjective(s0) /\ (\A i \in DOMAIN s0 : s0[i] \in T0) /\ Len(s0) > 0
  <2>1. CASE p.mmproj /\ entry.vision
    <3> DEFINE t == <<"--port", "-c", "-ngl", "--metrics">>
               h == <<"--mmproj">>
    <3>1. s0 = h \o t
      BY <2>1 DEF When
    <3>2. /\ t \in Seq(S) /\ Len(t) = 4
          /\ t[1] = "--port" /\ t[2] = "-c" /\ t[3] = "-ngl" /\ t[4] = "--metrics"
      <4> HIDE DEF S
      <4> QED BY <1>2
    <3>3. h \in Seq(S) /\ Len(h) = 1 /\ h[1] = "--mmproj"
      <4> HIDE DEF S
      <4> QED BY <1>2
    <3> HIDE DEF s0, S, t, h
    <3>4. /\ s0 \in Seq(S) /\ Len(s0) = 5 /\ DOMAIN s0 = 1 .. 5
          /\ s0[1] = "--mmproj" /\ s0[2] = "--port" /\ s0[3] = "-c" /\ s0[4] = "-ngl"
          /\ s0[5] = "--metrics"
      <4>0. h \in Seq(S) /\ Len(h) = 1 /\ t \in Seq(S) /\ Len(t) = 4
        BY <3>2, <3>3
      <4>1. /\ s0 \in Seq(S) /\ Len(s0) = 5 /\ DOMAIN s0 = 1 .. 5
            /\ \A i \in 1 .. 5 : s0[i] = IF i <= 1 THEN h[i] ELSE t[i - 1]
        <5>1. /\ h \o t \in Seq(S) /\ Len(h \o t) = Len(h) + Len(t)
              /\ \A i \in 1 .. Len(h) + Len(t) :
                    (h \o t)[i] = IF i <= Len(h) THEN h[i] ELSE t[i - Len(h)]
          BY <4>0, ConcatProperties
        <5>2. /\ s0 \in Seq(S) /\ Len(s0) = 1 + 4
              /\ \A i \in 1 .. 1 + 4 : s0[i] = IF i <= 1 THEN h[i] ELSE t[i - 1]
          BY <3>1, <4>0, <5>1, Zenon
        <5>3. 1 + 4 = 5
          OBVIOUS
        <5> QED BY <5>2, <5>3
      <4>2. s0[1] = h[1] /\ s0[2] = t[1] /\ s0[3] = t[2] /\ s0[4] = t[3] /\ s0[5] = t[4]
        BY <4>1
      <4> QED BY <3>2, <3>3, <4>1, <4>2
    <3>5. \A i \in 1 .. 5 : i = 1 \/ i = 2 \/ i = 3 \/ i = 4 \/ i = 5
      OBVIOUS
    <3>6. \A i \in DOMAIN s0 : s0[i] \in T0
      BY <3>4, <3>5
    <3>7. IsInjective(s0)
      BY <3>4, <3>5 DEF IsInjective
    <3> QED BY <3>4, <3>6, <3>7
  <2>2. CASE ~(p.mmproj /\ entry.vision)
    <3> DEFINE t == <<"--port", "-c", "-ngl", "--metrics">>
    <3>1. s0 = <<>> \o t
      BY <2>2 DEF When
    <3>2. /\ t \in Seq(S) /\ Len(t) = 4
          /\ t[1] = "--port" /\ t[2] = "-c" /\ t[3] = "-ngl" /\ t[4] = "--metrics"
      <4> HIDE DEF S
      <4> QED BY <1>2
    <3> HIDE DEF s0, S, t
    <3>3. s0 = t
      BY <3>1, <3>2
    <3>4. \A i \in 1 .. 4 : i = 1 \/ i = 2 \/ i = 3 \/ i = 4
      OBVIOUS
    <3>5. DOMAIN s0 = 1 .. 4
      BY <3>2, <3>3
    <3>6. \A i \in DOMAIN s0 : s0[i] \in T0
      BY <3>2, <3>3, <3>4, <3>5
    <3>7. IsInjective(s0)
      BY <3>2, <3>3, <3>4, <3>5 DEF IsInjective
    <3>8. s0 \in Seq(S) /\ Len(s0) > 0
      <4>1. t \in Seq(S)
        BY <3>2
      <4>2. s0 \in Seq(S)
        BY <4>1, <3>3, Zenon
      <4>3. Len(s0) = 4
        BY <3>2, <3>3, Zenon
      <4> QED BY <4>2, <4>3
    <3> QED BY <3>6, <3>7, <3>8
  <2> QED BY <2>1, <2>2
<1> HIDE DEF S, s0, T0
<1>5. (p.batch # None) \in BOOLEAN /\ (p.cache # None) \in BOOLEAN /\ (p.mode # "off") \in BOOLEAN
      /\ Drafts(p.mode) \in BOOLEAN /\ (p.mode # "off" /\ p.tokens # None) \in BOOLEAN
  BY DEF Drafts
<1>6. s1 \in Seq(S) /\ IsInjective(s1) /\ (\A i \in DOMAIN s1 : s1[i] \in T1) /\ Len(s1) >= Len(s0)
  BY <1>2, <1>3, <1>4, <1>5, Extended
<1> HIDE DEF s1, T1
<1>7. s2 \in Seq(S) /\ IsInjective(s2) /\ (\A i \in DOMAIN s2 : s2[i] \in T2) /\ Len(s2) >= Len(s1)
  BY <1>2, <1>3, <1>5, <1>6, Extended
<1> HIDE DEF s2, T2
<1>8. s3 \in Seq(S) /\ IsInjective(s3) /\ (\A i \in DOMAIN s3 : s3[i] \in T3) /\ Len(s3) >= Len(s2)
  BY <1>2, <1>3, <1>5, <1>7, Extended
<1> HIDE DEF s3, T3
<1>9. s4 \in Seq(S) /\ IsInjective(s4) /\ (\A i \in DOMAIN s4 : s4[i] \in T4) /\ Len(s4) >= Len(s3)
  BY <1>2, <1>3, <1>5, <1>8, Extended
<1> HIDE DEF s4, T4
<1>10. s5 \in Seq(S) /\ IsInjective(s5) /\ Len(s5) >= Len(s4)
  BY <1>2, <1>3, <1>5, <1>9, Extended
<1> HIDE DEF s5
<1>11. Len(s0) \in Nat /\ Len(s1) \in Nat /\ Len(s2) \in Nat /\ Len(s3) \in Nat /\ Len(s4) \in Nat
       /\ Len(s5) \in Nat
  BY <1>4, <1>6, <1>7, <1>8, <1>9, <1>10
<1>12. Len(s5) > 0
  BY <1>4, <1>6, <1>7, <1>8, <1>9, <1>10, <1>11
<1> QED BY <1>1, <1>10, <1>12 DEF S

\* The options of vLLM are named once each, and there are some.
LEMMA OwnOfVllm ==
  ASSUME NEW p, NEW entry, p.prefix \in BOOLEAN
  PROVE  LET own == OwnFlags(p, entry, "vllm")
         IN own \in Seq(Options0) /\ IsInjective(own) /\ Len(own) > 0
<1> DEFINE S == Options0
           s0 == <<"--port", "--max-model-len">>
           T0 == {"--port", "--max-model-len"}
           s1 == s0 \o When(p.util # None, "--gpu-memory-utilization")
           T1 == T0 \cup {"--gpu-memory-utilization"}
           s2 == s1 \o When(p.prefix, "--enable-prefix-caching")
           T2 == T1 \cup {"--enable-prefix-caching"}
           s3 == s2 \o When(p.mode # "off", "--speculative-config")
<1>1. OwnFlags(p, entry, "vllm") = s3
  BY DEF OwnFlags
<1>2. T0 \subseteq S /\ "--gpu-memory-utilization" \in S /\ "--enable-prefix-caching" \in S
      /\ "--speculative-config" \in S
  BY DEF Options0, Managed
<1>3. /\ "--gpu-memory-utilization" \notin T0 /\ "--enable-prefix-caching" \notin T1
      /\ "--speculative-config" \notin T2
  OBVIOUS
<1> HIDE DEF S
<1>4. s0 \in Seq(S) /\ IsInjective(s0) /\ (\A i \in DOMAIN s0 : s0[i] \in T0) /\ Len(s0) = 2
  BY <1>2 DEF IsInjective
<1> HIDE DEF s0, T0
<1>5. (p.util # None) \in BOOLEAN /\ (p.mode # "off") \in BOOLEAN
  OBVIOUS
<1>6. s1 \in Seq(S) /\ IsInjective(s1) /\ (\A i \in DOMAIN s1 : s1[i] \in T1) /\ Len(s1) >= Len(s0)
  BY <1>2, <1>3, <1>4, <1>5, Extended
<1> HIDE DEF s1, T1
<1>7. s2 \in Seq(S) /\ IsInjective(s2) /\ (\A i \in DOMAIN s2 : s2[i] \in T2) /\ Len(s2) >= Len(s1)
  BY <1>2, <1>3, <1>6, Extended
<1> HIDE DEF s2, T2
<1>8. s3 \in Seq(S) /\ IsInjective(s3) /\ Len(s3) >= Len(s2)
  BY <1>2, <1>3, <1>5, <1>7, Extended
<1> HIDE DEF s3
<1>9. Len(s1) \in Nat /\ Len(s2) \in Nat /\ Len(s3) \in Nat
  BY <1>6, <1>7, <1>8
<1>10. Len(s3) > 0
  BY <1>4, <1>6, <1>7, <1>8, <1>9
<1> QED BY <1>1, <1>8, <1>10 DEF S

Free(p) == [i \in DOMAIN Words(p) |-> Words(p)[i].flag]

\* The own flags of a profile, and after them its free flags.
OwnThenFree(own, p) ==
    /\ DOMAIN (own \o Free(p)) = 1 .. Len(own) + Len(Words(p)) /\ Len(Words(p)) \in Nat
    /\ \A i \in 1 .. Len(own) : (own \o Free(p))[i] = own[i]
    /\ \A i \in DOMAIN (own \o Free(p)) : i \notin 1 .. Len(own) =>
          \E w \in ToSet(Words(p)) : (own \o Free(p))[i] = w.flag

\* Free flags, where they are let through, name no option of the profile.
LEMMA FreeFlags ==
  ASSUME NEW p, Text(p.extra), NEW own \in Seq(Options0)
  PROVE  OwnThenFree(own, p)
<1> DEFINE words == Words(p)
           X == ToSet(words)
           Y == {w.flag : w \in X} \cup Options0
           free == [i \in DOMAIN words |-> words[i].flag]
<1>1. words \in Seq(X)
  <2>1. CASE p.extra = None
    <3>1. words = <<>>
      BY <2>1 DEF Words
    <3> QED BY <3>1
  <2>2. CASE p.extra # None
    <3>1. words = p.extra.words
      BY <2>2 DEF Words
    <3>2. p.extra \in [words : Seq(ToSet(p.extra.words)), closed : BOOLEAN]
      BY <2>2 DEF Text
    <3> QED BY <3>1, <3>2
  <2> QED BY <2>1, <2>2
<1>2. \A i \in DOMAIN words : words[i] \in X
  BY DEF ToSet
<1>3. DOMAIN words = 1 .. Len(words) /\ Len(words) \in Nat
  BY <1>1
<1>4. \A i \in DOMAIN words : words[i].flag \in Y
  BY <1>2
<1> HIDE DEF words, X
<1>5. free \in Seq(Y) /\ Len(free) = Len(words) /\ \A i \in 1 .. Len(words) : free[i] = words[i].flag
  <2>1. free \in [1 .. Len(words) -> Y]
    BY <1>3, <1>4
  <2> HIDE DEF Y
  <2>2. free \in Seq(Y) /\ Len(free) = Len(words)
    BY <1>3, <2>1
  <2> QED BY <1>3, <2>2
<1>6. own \in Seq(Y)
  BY DEF Y
<1> HIDE DEF free, Y
<1>7. /\ own \o free \in Seq(Y) /\ Len(own \o free) = Len(own) + Len(words) /\ Len(own) \in Nat
      /\ \A i \in 1 .. Len(own) : (own \o free)[i] = own[i]
      /\ \A i \in 1 .. Len(own) + Len(words) : i \notin 1 .. Len(own) =>
            /\ i - Len(own) \in 1 .. Len(words) /\ (own \o free)[i] = free[i - Len(own)]
  BY <1>3, <1>5, <1>6, SMTT(30)
<1>8. ASSUME NEW i \in 1 .. Len(own) + Len(words), i \notin 1 .. Len(own)
      PROVE  \E w \in X : (own \o free)[i] = w.flag
  <2>1. i - Len(own) \in DOMAIN words /\ (own \o free)[i] = words[i - Len(own)].flag
    BY <1>3, <1>5, <1>7, <1>8
  <2> QED BY <1>2, <2>1
<1>9. DOMAIN (own \o free) = 1 .. Len(own) + Len(words)
  BY <1>3, <1>7
<1> QED BY <1>3, <1>7, <1>8, <1>9 DEF words, X, free, Free, OwnThenFree

\* A command line names no option of the profile twice, and there is one
\* whenever the model and the flags are right.
LEMMA CommandLine ==
  ASSUME NEW p, NEW entry, NEW draft, NEW kind \in Kinds, Text(p.extra),
         p.mmproj \in BOOLEAN, p.prefix \in BOOLEAN, entry.vision \in BOOLEAN
  PROVE  LET spec == BuildSpec(p, entry, draft, kind)
         IN /\ \A flag \in Managed(kind) : Cardinality({i \in DOMAIN spec : spec[i] = flag}) <= 1
            /\ /\ entry.kind = kind /\ (Drafts(p.mode) => draft # None)
               /\ p.extra = None \/ (p.extra.closed /\ ~RejectManagedFlags(p.extra.words, kind))
               => spec # <<>>
<1> DEFINE own == OwnFlags(p, entry, kind)
           free == Free(p)
           spec == BuildSpec(p, entry, draft, kind)
           Refused == \/ entry.kind # kind \/ (Drafts(p.mode) /\ draft = None)
                      \/ p.extra # None /\ (~p.extra.closed \/ RejectManagedFlags(p.extra.words, kind))
<1>1. own \in Seq(Options0) /\ IsInjective(own) /\ Len(own) > 0
  BY OwnOfLlama, OwnOfVllm DEF Kinds
<1>2. spec = IF Refused THEN <<>> ELSE own \o free
  BY DEF BuildSpec, Free
<1>3. /\ DOMAIN (own \o free) = 1 .. Len(own) + Len(Words(p)) /\ Len(Words(p)) \in Nat
      /\ \A i \in 1 .. Len(own) : (own \o free)[i] = own[i]
      /\ \A i \in DOMAIN (own \o free) : i \notin 1 .. Len(own) =>
            \E w \in ToSet(Words(p)) : (own \o free)[i] = w.flag
  <2>1. own \in Seq(Options0) /\ Text(p.extra)
    BY <1>1
  <2> HIDE DEF own, spec, Refused
  <2>2. OwnThenFree(own, p)
    BY <2>1, FreeFlags
  <2> QED BY <2>2, Zenon DEF OwnThenFree
<1>4. CASE Refused
  <2>1. spec = <<>>
    BY <1>2, <1>4
  <2>2. ASSUME NEW flag PROVE Cardinality({i \in DOMAIN spec : spec[i] = flag}) <= 1
    <3>1. {i \in DOMAIN spec : spec[i] = flag} = {}
      BY <2>1
    <3>2. Cardinality({}) = 0
      BY FS_EmptySet
    <3> QED BY <3>1, <3>2
  <2> QED BY <1>4, <2>2
<1>5. CASE ~Refused
  <2>1. spec = own \o free
    BY <1>2, <1>5
  <2>2. \A w \in ToSet(Words(p)) : w.flag \notin Managed(kind)
    <3>1. CASE p.extra = None
      <4>1. Words(p) = <<>>
        BY <3>1 DEF Words
      <4> QED BY <4>1 DEF ToSet
    <3>2. CASE p.extra # None
      <4>1. Words(p) = p.extra.words /\ ~RejectManagedFlags(p.extra.words, kind)
        BY <1>5, <3>2 DEF Words
      <4> QED BY <4>1 DEF RejectManagedFlags
    <3> QED BY <3>1, <3>2
  <2> HIDE DEF own, free, spec, Refused
  <2>3. Len(own) \in Nat /\ DOMAIN own = 1 .. Len(own)
    BY <1>1
  <2>4. ASSUME NEW flag \in Managed(kind)
        PROVE  Cardinality({i \in DOMAIN spec : spec[i] = flag}) <= 1
    <3> DEFINE C == {i \in DOMAIN spec : spec[i] = flag}
    <3>1. \A i \in C : i \in DOMAIN own /\ own[i] = flag
      BY <1>3, <2>1, <2>2, <2>3
    <3>2. \A i, j \in C : i = j
      BY <1>1, <3>1 DEF IsInjective
    <3> HIDE DEF C
    <3>3. CASE C = {}
      <4>1. Cardinality({}) = 0
        BY FS_EmptySet
      <4> QED BY <3>3, <4>1 DEF C
    <3>4. CASE C # {}
      <4>1. PICK i \in C : TRUE
        BY <3>4
      <4>2. C = {i}
        BY <3>2, <4>1
      <4>3. Cardinality({i}) = 1
        BY FS_Singleton
      <4> QED BY <4>2, <4>3 DEF C
    <3> QED BY <3>3, <3>4
  <2>5. spec # <<>>
    <3>1. 1 \in DOMAIN spec
      BY <1>1, <1>3, <2>1, <2>3
    <3> QED BY <3>1
  <2> QED BY <2>4, <2>5 DEF spec
<1> QED BY <1>4, <1>5

----------------------------------------------------------------------------
(* The best of the contexts.                                                 *)

\* An estimate reads nothing of an entry but its metadata and its kind.
LEMMA EstimateReads ==
  ASSUME NEW e, NEW f, e.meta = f.meta, e.kind = f.kind, NEW kind, NEW hw, NEW q
  PROVE  Estimate(e, kind, q, hw, Overhead) = Estimate(f, kind, q, hw, Overhead)
BY SMTT(30) DEF Estimate

\* An estimate, and the contexts, depend on what an entry was at the start.
LEMMA SameEstimate ==
  ASSUME NEW e, NEW f, e.meta = f.meta, e.kind = f.kind, e.id = f.id,
         NEW kind, NEW engine, NEW c, NEW hw
  PROVE  Estimate(e, kind, Suggested(e, engine, kind, c), hw, Overhead)
             = Estimate(f, kind, Suggested(f, engine, kind, c), hw, Overhead)
<1>1. Suggested(e, engine, kind, c) = Suggested(f, engine, kind, c)
  BY DEF Suggested
<1> DEFINE p == Suggested(f, engine, kind, c)
<1>2. Estimate(e, kind, p, hw, Overhead) = Estimate(f, kind, p, hw, Overhead)
  <2> HIDE DEF p
  <2> QED BY EstimateReads
<1> QED BY <1>1, <1>2

\* So do the contexts it is asked about.
LEMMA SameContexts ==
  ASSUME NEW e, NEW f, e.meta = f.meta
  PROVE  SuggestionContexts(e) = SuggestionContexts(f)
BY Zenon DEF SuggestionContexts

\* What a form keeps of a suggestion.
Advice(n, engine, s, hw) ==
    [n |-> n, engine |-> engine, fit |-> s.fit, context |-> s.draft.context, hw |-> hw]

\* It is the best for the entry, and can be opened.
Advisable(e, n, engine, hw, s) ==
    /\ Best(e, Advice(n, engine, s, hw))
    /\ s.draft.context \in Nat \ {0} /\ s.draft.mmproj = FALSE /\ s.draft.prefix = FALSE
    /\ s.draft.extra = None

\* The suggestion for an entry that was asked about, whatever the entry is by
\* now, is the best, and can be opened.
LEMMA SuggestionIsBest ==
  ASSUME NEW e, Like(e), NEW engine \in DOMAIN EngineKind, NEW hw \in Hardware, NEW n,
         NEW s, s = Suggestions[e.id][engine][hw], s # None
  PROVE  Advisable(e, n, engine, hw, s)
<1> DEFINE f == Entry(Library, e.id)
           kind == EngineKind[engine]
           of == Estimates(f, engine, kind, hw)
           D == SuggestionContexts(e)
           advice == Advice(n, engine, s, hw)
<1>1. e.id \in Ids(Library) /\ f.kind = e.kind /\ f.meta = e.meta /\ f.id = e.id
  BY EntryWas
<1>2. s = SuggestProfile(f, engine, kind, hw, Overhead)
  BY <1>1 DEF Suggestions
<1>3. f.meta # None => f.meta.context \in Nat
  BY <1>1, LikeIs
<1> HIDE DEF f, kind
<1>4. PICK best \in Nat \ {0} :
        /\ BestOf(f, engine, kind, hw, best)
        /\ s = [draft |-> Suggested(f, engine, kind, best), fit |-> of[best]]
  BY <1>2, <1>3, SuggestionIs
<1>5. f.kind = kind
  BY <1>2, <1>3, SuggestionIs
<1>6. SuggestionContexts(f) = D
  BY <1>1, SameContexts
<1>7. ASSUME NEW c \in D
      PROVE  Estimate(e, kind, Suggested(e, engine, kind, c), hw, Overhead) = of[c]
  <2>1. of[c] = Estimate(f, kind, Suggested(f, engine, kind, c), hw, Overhead)
    BY <1>6 DEF Estimates
  <2>2. Estimate(e, kind, Suggested(e, engine, kind, c), hw, Overhead)
           = Estimate(f, kind, Suggested(f, engine, kind, c), hw, Overhead)
    BY <1>1, SameEstimate
  <2> QED BY <2>1, <2>2, Zenon
<1> DEFINE fit == [c \in D |->
                     Estimate(e, kind, Suggested(e, engine, kind, c), hw, Overhead).fit]
<1>8. DOMAIN fit = D /\ \A c \in D : fit[c] = of[c].fit
  BY <1>7
<1>9. s.draft = Suggested(f, engine, kind, best)
  BY <1>4
<1>10. /\ s.draft.context = best /\ s.draft.mmproj = FALSE /\ s.draft.prefix = FALSE
       /\ s.draft.extra = None
  BY <1>9 DEF Suggested
<1>11. advice.context = best /\ advice.engine = engine /\ advice.hw = hw
  BY <1>10 DEF Advice
<1>12. e.kind = kind
  BY <1>1, <1>5
<1> HIDE DEF fit, of, D, advice
<1>13. /\ best \in D
       /\ IF of[best].fit = "does_not_fit"
          THEN \A c \in D : of[c].fit = "does_not_fit" /\ c >= best
          ELSE \A c \in D : c > best => of[c].fit = "does_not_fit"
  BY <1>4, <1>6 DEF BestOf, of
<1>14. IF fit[best] = "does_not_fit"
       THEN \A c \in DOMAIN fit : fit[c] = "does_not_fit" /\ c >= best
       ELSE \A c \in DOMAIN fit : c > best => fit[c] = "does_not_fit"
  BY <1>8, <1>13, Zenon
<1>15. fit = [c \in SuggestionContexts(e) |->
                 Estimate(e, e.kind, Suggested(e, advice.engine, e.kind, c), advice.hw, Overhead).fit]
  BY <1>11, <1>12, Zenon DEF fit, D
<1>16. Best(e, advice)
  BY <1>11, <1>14, <1>15, Zenon DEF Best
<1> QED BY <1>10, <1>16 DEF advice, Advisable

----------------------------------------------------------------------------
(* Editors.                                                                  *)
\* A form on fields that are filled in, and with a best advice, is drawn.
LEMMA FormDrawn ==
  ASSUME NEW entry, NEW entries, NEW editing, NEW values, Like(entry), Filled(values, entry),
         NEW advice, advice # None => Best(entry, advice), NEW loading
  PROVE  LET f == Form(entry, entries, editing, values)
         IN /\ Drawn(f) /\ Drawn([f EXCEPT !.advice = advice]) /\ Drawn([f EXCEPT !.loading = loading])
            /\ f.values = values /\ f.editing = editing /\ f.entry = entry
            /\ [f EXCEPT !.loading = loading].entry = entry
<1> DEFINE f == Form(entry, entries, editing, values)
           g == [f EXCEPT !.advice = advice]
           h == [f EXCEPT !.loading = loading]
<1>1. 1 \in DOMAIN Fields
  BY DEF Fields
<1>2. /\ Shape(f) /\ f.entry = entry /\ f.values = values /\ f.advice = None /\ f.editing = editing
  BY <1>1 DEF Form, Shape
<1> HIDE DEF f
<1>3. Shape(g) /\ g.entry = entry /\ g.values = values /\ g.advice = advice
  BY <1>2 DEF Shape
<1>4. Shape(h) /\ h.entry = entry /\ h.values = values /\ h.advice = None
  BY <1>2 DEF Shape
<1> HIDE DEF g, h
<1>5. Drawn(f) /\ Drawn(g) /\ Drawn(h)
  BY <1>2, <1>3, <1>4 DEF Drawn
<1> QED BY <1>2, <1>4, <1>5 DEF f, g, h

\* Marks on an editor leave what it edits.
LEMMA Focused ==
  ASSUME NEW f, Drawn(f), NEW to \in DOMAIN Fields
  PROVE  Drawn([f EXCEPT !.focus = to])
<1> DEFINE g == [f EXCEPT !.focus = to]
<1>1. Shape(f)
  BY DEF Drawn
<1>2. Shape(g) /\ g.entry = f.entry /\ g.values = f.values /\ g.advice = f.advice
  BY <1>1 DEF Shape
<1> HIDE DEF g
<1>3. Drawn(g)
  BY <1>2 DEF Drawn
<1> QED BY <1>3 DEF g

\* Other marks leave what it edits, too.
LEMMA Marked ==
  ASSUME NEW f, Drawn(f), NEW x
  PROVE  /\ Drawn([f EXCEPT !.advanced = x])
         /\ Drawn([f EXCEPT !.loading = x]) /\ Drawn([f EXCEPT !.acknowledged = x])
         /\ Drawn([f EXCEPT !.discard = x])
         /\ [f EXCEPT !.loading = x].entry = f.entry
<1>1. Shape(f)
  BY DEF Drawn
<1> DEFINE f2 == [f EXCEPT !.advanced = x]
           f3 == [f EXCEPT !.loading = x]
           f4 == [f EXCEPT !.acknowledged = x]
           f5 == [f EXCEPT !.discard = x]
<1>3. Shape(f2) /\ f2.entry = f.entry /\ f2.values = f.values /\ f2.advice = f.advice
  BY <1>1 DEF Shape
<1>4. Shape(f3) /\ f3.entry = f.entry /\ f3.values = f.values /\ f3.advice = f.advice
  BY <1>1 DEF Shape
<1>5. Shape(f4) /\ f4.entry = f.entry /\ f4.values = f.values /\ f4.advice = f.advice
  BY <1>1 DEF Shape
<1>6. Shape(f5) /\ f5.entry = f.entry /\ f5.values = f.values /\ f5.advice = f.advice
  BY <1>1 DEF Shape
<1> HIDE DEF f2, f3, f4, f5
<1>7. Drawn(f2) /\ Drawn(f3) /\ Drawn(f4) /\ Drawn(f5)
  BY <1>3, <1>4, <1>5, <1>6 DEF Drawn
<1> QED BY <1>4, <1>7 DEF f2, f3, f4, f5

Names == {"name", "engine", "port", "context", "unit", "ngl", "batch", "cache", "mmproj",
          "mode", "tokens", "draft", "extra", "util", "prefix"}

\* A field that is given a value of its own.
LEMMA FieldEdited ==
  ASSUME NEW f, Drawn(f), NEW field \in Names, NEW x,
         field = "engine" => x \in ToSet(Offered(f.entry)),
         field = "unit" => x \in {1, K, M},
         field = "context" => x \in Nat \cup {Automatic, Bad, None},
         field \in {"mmproj", "prefix"} => x \in BOOLEAN,
         field = "extra" => Text(x)
  PROVE  /\ Drawn([f EXCEPT !.values[field] = x])
         /\ [f EXCEPT !.values[field] = x].entry = f.entry
<1> DEFINE v == f.values
           w == [v EXCEPT ![field] = x]
           g == [f EXCEPT !.values = w]
<1>1. Shape(f) /\ Like(f.entry) /\ Filled(v, f.entry)
  BY DEF Drawn
<1>2. /\ v \in [name : {v.name}, engine : ToSet(Offered(f.entry)), port : {v.port},
                context : Nat \cup {Automatic, Bad, None}, unit : {1, K, M}, ngl : {v.ngl}, batch : {v.batch},
                cache : {v.cache}, mmproj : BOOLEAN, mode : {v.mode}, tokens : {v.tokens}, draft : {v.draft},
                extra : {v.extra}, util : {v.util}, prefix : BOOLEAN]
      /\ Text(v.extra)
  BY <1>1 DEF Filled
<1>3. [f EXCEPT !.values[field] = x] = g
  BY <1>1 DEF Shape
<1>4. Shape(g) /\ g.entry = f.entry /\ g.values = w /\ g.advice = f.advice
  <2> HIDE DEF w
  <2> QED BY <1>1 DEF Shape
<1> HIDE DEF v, g
<1>5. DOMAIN v = Names
  BY <1>2 DEF Names
<1>6. DOMAIN w = Names /\ w = [k \in Names |-> w[k]]
      /\ \A k \in Names : w[k] = IF k = field THEN x ELSE v[k]
  BY <1>5
<1> HIDE DEF w
<1>7. /\ w.engine \in ToSet(Offered(f.entry)) /\ w.unit \in {1, K, M}
      /\ w.context \in Nat \cup {Automatic, Bad, None} /\ w.mmproj \in BOOLEAN /\ w.prefix \in BOOLEAN
      /\ Text(w.extra)
  <2>1. /\ v["engine"] \in ToSet(Offered(f.entry)) /\ v["unit"] \in {1, K, M}
        /\ v["context"] \in Nat \cup {Automatic, Bad, None} /\ v["mmproj"] \in BOOLEAN /\ v["prefix"] \in BOOLEAN
        /\ Text(v["extra"])
    BY <1>2
  <2>2. {"engine", "unit", "context", "mmproj", "prefix", "extra"} \subseteq Names
    BY DEF Names
  <2>3. w["engine"] \in ToSet(Offered(f.entry))
    BY <1>6, <2>1, <2>2
  <2>4. w["unit"] \in {1, K, M}
    BY <1>6, <2>1, <2>2
  <2>5. w["context"] \in Nat \cup {Automatic, Bad, None}
    BY <1>6, <2>1, <2>2
  <2>6. w["mmproj"] \in BOOLEAN
    BY <1>6, <2>1, <2>2
  <2>7. w["prefix"] \in BOOLEAN
    BY <1>6, <2>1, <2>2
  <2>8. Text(w["extra"])
    BY <1>6, <2>1, <2>2
  <2> QED BY <2>3, <2>4, <2>5, <2>6, <2>7, <2>8
<1>8. w \in [name : {w.name}, engine : ToSet(Offered(f.entry)), port : {w.port},
             context : Nat \cup {Automatic, Bad, None}, unit : {1, K, M}, ngl : {w.ngl}, batch : {w.batch},
             cache : {w.cache}, mmproj : BOOLEAN, mode : {w.mode}, tokens : {w.tokens}, draft : {w.draft},
             extra : {w.extra}, util : {w.util}, prefix : BOOLEAN]
  BY <1>6, <1>7 DEF Names
<1>9. Filled(w, f.entry)
  BY <1>7, <1>8 DEF Filled
<1>10. Drawn(g)
  BY <1>1, <1>4, <1>9 DEF Drawn
<1> QED BY <1>3, <1>4, <1>10

----------------------------------------------------------------------------
(* Rows and tables.                                                          *)

\* A row with another draft, or another number, is a row.
LEMMA RowWith ==
  ASSUME NEW p, Row(p), NEW x, ~Drafts(p.mode) => x = None
  PROVE  LET q == [p EXCEPT !.draft = x]
         IN /\ Row(q) /\ q.draft = x
            /\ q.mode = p.mode /\ q.tokens = p.tokens /\ q.model = p.model /\ q.engine = p.engine
<1> DEFINE q == [p EXCEPT !.draft = x]
<1>1. p \in [id : {p.id}, model : {p.model}, engine : DOMAIN EngineKind, name : {p.name}, port : {p.port},
             context : Nat \ {0}, ngl : {p.ngl}, batch : {p.batch}, cache : {p.cache}, mmproj : BOOLEAN,
             mode : {p.mode}, tokens : {p.tokens}, draft : {p.draft}, extra : {p.extra}, util : {p.util},
             prefix : BOOLEAN]
  BY DEF Row
<1>2. /\ q.id = p.id /\ q.model = p.model /\ q.engine = p.engine /\ q.name = p.name /\ q.port = p.port
      /\ q.context = p.context /\ q.ngl = p.ngl /\ q.batch = p.batch /\ q.cache = p.cache
      /\ q.mmproj = p.mmproj /\ q.mode = p.mode /\ q.tokens = p.tokens /\ q.draft = x
      /\ q.extra = p.extra /\ q.util = p.util /\ q.prefix = p.prefix
  BY <1>1
<1>3. q \in [id : {q.id}, model : {q.model}, engine : DOMAIN EngineKind, name : {q.name}, port : {q.port},
             context : Nat \ {0}, ngl : {q.ngl}, batch : {q.batch}, cache : {q.cache}, mmproj : BOOLEAN,
             mode : {q.mode}, tokens : {q.tokens}, draft : {q.draft}, extra : {q.extra}, util : {q.util},
             prefix : BOOLEAN]
  BY <1>1
<1> HIDE DEF q
<1>4. Row(q)
  BY <1>2, <1>3 DEF Row
<1> QED BY <1>2, <1>4 DEF q

WithId(p, id) == [p EXCEPT !.id = id]

\* A row with another number is a row, to which the same rules object.
LEMMA RowNumbered ==
  ASSUME NEW p, Row(p), NEW id, NEW t, NEW d, NEW kind
  PROVE  LET q == WithId(p, id)
         IN /\ Row(q) /\ q.draft = p.draft
            /\ q.mode = p.mode /\ q.tokens = p.tokens /\ q.model = p.model /\ q.engine = p.engine
            /\ ValidateProfile(q, t, d, kind) = ValidateProfile(p, t, d, kind)
<1> DEFINE q == WithId(p, id)
<1>1. p \in [id : {p.id}, model : {p.model}, engine : DOMAIN EngineKind, name : {p.name}, port : {p.port},
             context : Nat \ {0}, ngl : {p.ngl}, batch : {p.batch}, cache : {p.cache}, mmproj : BOOLEAN,
             mode : {p.mode}, tokens : {p.tokens}, draft : {p.draft}, extra : {p.extra}, util : {p.util},
             prefix : BOOLEAN]
  BY DEF Row
<1>2. /\ q.model = p.model /\ q.engine = p.engine /\ q.name = p.name /\ q.port = p.port
      /\ q.context = p.context /\ q.ngl = p.ngl /\ q.batch = p.batch /\ q.cache = p.cache
      /\ q.mmproj = p.mmproj /\ q.mode = p.mode /\ q.tokens = p.tokens /\ q.draft = p.draft
      /\ q.extra = p.extra /\ q.util = p.util /\ q.prefix = p.prefix
  BY <1>1 DEF WithId
<1>3. q \in [id : {q.id}, model : {q.model}, engine : DOMAIN EngineKind, name : {q.name}, port : {q.port},
             context : Nat \ {0}, ngl : {q.ngl}, batch : {q.batch}, cache : {q.cache}, mmproj : BOOLEAN,
             mode : {q.mode}, tokens : {q.tokens}, draft : {q.draft}, extra : {q.extra}, util : {q.util},
             prefix : BOOLEAN]
  BY <1>1 DEF WithId
<1> HIDE DEF q
<1>4. Row(q)
  BY <1>2, <1>3 DEF Row
<1>5. ValidateSpeculative(q, t, d, kind) = ValidateSpeculative(p, t, d, kind)
  BY <1>2 DEF ValidateSpeculative
<1>6. ValidateProfile(q, t, d, kind) = ValidateProfile(p, t, d, kind)
  BY <1>2, <1>5 DEF ValidateProfile
<1> QED BY <1>2, <1>4, <1>6 DEF q

\* No rule reads the number of a profile.
LEMMA NumberedValid ==
  ASSUME NEW p, Row(p)
  PROVE  \A id, t, d, kind : ValidateProfile(WithId(p, id), t, d, kind) = ValidateProfile(p, t, d, kind)
<1> TAKE id, t, d, kind
<1> QED BY RowNumbered

\* The same kind and metadata of a model and of a draft, the same errors.
SameModel(t, u) == (t = None <=> u = None) /\ (t # None => t.kind = u.kind /\ t.meta = u.meta)

\* The rules object to the same in models of the same kind and metadata.
LEMMA ValidSame ==
  ASSUME NEW p, NEW kind, NEW t, NEW u, NEW d, NEW e, SameModel(t, u), Drafts(p.mode) => SameModel(d, e)
  PROVE  ValidateProfile(p, t, d, kind) = ValidateProfile(p, u, e, kind)
<1>1. Meta(t) = Meta(u)
  BY DEF Meta, SameModel
<1>2. Drafts(p.mode) => /\ Meta(d) = Meta(e) /\ (d = None <=> e = None)
                        /\ (d # None => d.kind = e.kind)
  BY DEF Meta, SameModel
<1>3. Drafts(p.mode) => (SameVocabulary(t, d) <=> SameVocabulary(u, e))
  BY <1>1, <1>2 DEF SameVocabulary
<1>4. ValidateSpeculative(p, t, d, kind) = ValidateSpeculative(p, u, e, kind)
  <2>1. (Drafts(p.mode) => p.draft # p.model /\ d # None /\ d.kind = kind /\ SameVocabulary(t, d))
          <=> (Drafts(p.mode) => p.draft # p.model /\ e # None /\ e.kind = kind /\ SameVocabulary(u, e))
    BY <1>2, <1>3
  <2>2. Issues("draft_model_id", Drafts(p.mode) => p.draft # p.model /\ d # None /\ d.kind = kind /\ SameVocabulary(t, d))
         = Issues("draft_model_id", Drafts(p.mode) => p.draft # p.model /\ e # None /\ e.kind = kind /\ SameVocabulary(u, e))
    BY <2>1 DEF Issues
  <2> QED BY <1>1, <2>2 DEF ValidateSpeculative
<1>5. (t # None => t.kind = kind) <=> (u # None => u.kind = kind)
  BY DEF SameModel
<1>6. Issues("inference_engine", t # None => t.kind = kind) = Issues("inference_engine", u # None => u.kind = kind)
  BY <1>5 DEF Issues
<1> QED BY <1>4, <1>6 DEF ValidateProfile

\* What no error means.
LEMMA ValidMeans ==
  ASSUME NEW p, NEW t, NEW d, NEW kind, ValidateProfile(p, t, d, kind) = {}
  PROVE  /\ p.mode = "off" \/ p.tokens # None
         /\ t # None => t.kind = kind
         /\ Drafts(p.mode) => p.draft # p.model /\ d # None /\ d.kind = kind
<1>1. /\ ValidateSpeculative(p, t, d, kind) = {}
      /\ Issues("inference_engine", t # None => t.kind = kind) = {}
  BY DEF ValidateProfile
<1>2. t # None => t.kind = kind
  BY <1>1 DEF Issues
<1>3. /\ Issues("speculative_tokens", (p.tokens # None => p.tokens > 0) /\ (p.mode = "off" \/ p.tokens # None)) = {}
      /\ Issues("draft_model_id",
             Drafts(p.mode) => p.draft # p.model /\ d # None /\ d.kind = kind /\ SameVocabulary(t, d)) = {}
  BY <1>1 DEF ValidateSpeculative
<1>4. p.mode = "off" \/ p.tokens # None
  BY <1>3 DEF Issues
<1>5. Drafts(p.mode) => p.draft # p.model /\ d # None /\ d.kind = kind
  BY <1>3 DEF Issues
<1> QED BY <1>2, <1>4, <1>5

\* While no model is gone, each is the model of the start.
LEMMA SameEntries ==
  ASSUME NEW d, Tables(d), Ids(d.entries) = Ids(Library), NEW id
  PROVE  SameModel(Entry(d.entries, id), Entry(Library, id))
<1>1. CASE id \in Ids(d.entries)
  <2> DEFINE e == Entry(d.entries, id)
  <2>1. e \in d.entries /\ e.id = id
    BY <1>1, EntryOfId
  <2>2. Like(e)
    BY <2>1 DEF Tables
  <2> HIDE DEF e
  <2>3. e # None
    BY <2>2, LikeIs
  <2>4. /\ Entry(Library, e.id).kind = e.kind
        /\ Entry(Library, e.id).meta = e.meta /\ Entry(Library, e.id) # None
    BY <2>2, EntryWas
  <2> QED BY <2>1, <2>3, <2>4 DEF SameModel, e
<1>2. CASE id \notin Ids(d.entries)
  <2>1. Entry(d.entries, id) = None
    BY <1>2 DEF Entry, Ids
  <2>2. Entry(Library, id) = None
    BY <1>2 DEF Entry, Ids
  <2> QED BY <2>1, <2>2 DEF SameModel
<1> QED BY <1>1, <1>2

\* A sync that removes a model leaves no profile that refers to it.
LEMMA RemovedHolds ==
  ASSUME Tables(db), NEW entry \in db.entries
  PROVE  Tables(Removed(entry))
<1> DEFINE Strip(p) == [p EXCEPT !.draft = IF @ = entry.id THEN None ELSE @]
           d == Removed(entry)
<1>1. db \in [entries : {db.entries}, profiles : {db.profiles}, next : {db.next}]
  BY SMTT(30) DEF Tables
<1>2. /\ d \in [entries : {d.entries}, profiles : {d.profiles}, next : {d.next}]
      /\ d.entries = db.entries \ {entry}
      /\ d.profiles = {Strip(p) : p \in {q \in db.profiles : q.model # entry.id}}
  BY <1>1 DEF Removed
<1> HIDE DEF d
<1>3. /\ \A e \in db.entries : Like(e)
      /\ \A e, f \in db.entries : e.id = f.id => e = f
      /\ \A p \in db.profiles : Row(p) /\ Refers(p, db.entries)
  BY DEF Tables
<1>4. ASSUME NEW p \in d.profiles
      PROVE  Row(p) /\ Refers(p, d.entries)
  <2>1. PICK q \in db.profiles : q.model # entry.id /\ p = Strip(q)
    BY <1>2
  <2>2. Row(q) /\ Refers(q, db.entries)
    BY <1>3
  <2> DEFINE x == IF q.draft = entry.id THEN None ELSE q.draft
  <2>3. p = [q EXCEPT !.draft = x]
    BY <2>1
  <2>4. ~Drafts(q.mode) => x = None
    BY <2>2 DEF Row
  <2> HIDE DEF x
  <2>5. /\ Row(p) /\ p.draft = x
        /\ p.mode = q.mode /\ p.tokens = q.tokens /\ p.model = q.model /\ p.engine = q.engine
    BY <2>2, <2>3, <2>4, RowWith
  <2>6. PICK e \in db.entries : e.id = q.model /\ e.kind = EngineKind[q.engine]
    BY <2>2 DEF Refers
  <2>7. e \in d.entries
    BY <1>2, <2>1, <2>6
  <2>8. p.draft # None =>
          p.draft # p.model /\ \E f \in d.entries : f.id = p.draft /\ f.kind = EngineKind[p.engine]
    <3> SUFFICES ASSUME p.draft # None
                 PROVE  p.draft # p.model /\ \E f \in d.entries : f.id = p.draft /\ f.kind = EngineKind[p.engine]
      OBVIOUS
    <3>1. q.draft # entry.id /\ p.draft = q.draft /\ q.draft # None
      BY <2>5 DEF x
    <3>2. PICK f \in db.entries : f.id = q.draft /\ f.kind = EngineKind[q.engine]
      BY <2>2, <3>1 DEF Refers
    <3>3. f \in d.entries
      BY <1>2, <3>1, <3>2
    <3>4. q.draft # q.model
      BY <2>2, <3>1 DEF Refers
    <3> QED BY <2>5, <3>1, <3>2, <3>3, <3>4
  <2>9. p.mode # "off" => p.tokens # None
    BY <2>2, <2>5 DEF Refers
  <2>10. \E f \in d.entries : f.id = p.model /\ f.kind = EngineKind[p.engine]
    BY <2>5, <2>6, <2>7
  <2> QED BY <2>5, <2>8, <2>9, <2>10 DEF Refers
<1>5. Ids(d.entries) # Ids(Library)
  <2>1. entry.id \in Ids(Library)
    BY <1>3, EntryWas
  <2>2. entry.id \notin Ids(d.entries)
    BY <1>2, <1>3 DEF Ids
  <2> QED BY <2>1, <2>2
<1>6. /\ \A e \in d.entries : Like(e)
      /\ \A e, f \in d.entries : e.id = f.id => e = f
  BY <1>2, <1>3
<1>7. Tables(d)
  BY <1>2, <1>4, <1>5, <1>6 DEF Tables
<1> QED BY <1>7 DEF d

\* A sync that finds the file of vision gone leaves the model.
LEMMA BlindedHolds ==
  ASSUME Tables(db), NEW entry \in db.entries
  PROVE  Tables(Blinded(entry))
<1> DEFINE b == [entry EXCEPT !.vision = FALSE]
           d == Blinded(entry)
<1>1. db \in [entries : {db.entries}, profiles : {db.profiles}, next : {db.next}]
  BY DEF Tables
<1>2. /\ d \in [entries : {d.entries}, profiles : {d.profiles}, next : {d.next}]
      /\ d.entries = (db.entries \ {entry}) \cup {b}
      /\ d.profiles = db.profiles
  <2>1. d = [db EXCEPT !.entries = (@ \ {entry}) \cup {b}]
    BY DEF Blinded
  <2> DEFINE E == (db.entries \ {entry}) \cup {b}
  <2>2. d = [db EXCEPT !.entries = E]
    BY <2>1
  <2> HIDE DEF E, d
  <2>3. d \in [entries : {E}, profiles : {db.profiles}, next : {db.next}]
    BY <1>1, <2>2
  <2> QED BY <2>3 DEF E
<1>3. /\ \A e \in db.entries : Like(e)
      /\ \A e, f \in db.entries : e.id = f.id => e = f
      /\ \A p \in db.profiles : Row(p) /\ Refers(p, db.entries)
      /\ Ids(db.entries) = Ids(Library) => \A p \in db.profiles : Valid(p, Library)
  BY DEF Tables
<1>4. Like(b) /\ b.id = entry.id /\ b.kind = entry.kind
  BY <1>3, LikeIs
<1> HIDE DEF d, b
<1>5. \A e \in db.entries : \E f \in d.entries : f.id = e.id /\ f.kind = e.kind
  BY <1>2, <1>4
<1>6. \A f \in d.entries : \E e \in db.entries : f.id = e.id
  BY <1>2, <1>4
<1>7. Ids(d.entries) = Ids(db.entries)
  BY <1>5, <1>6 DEF Ids
<1>8. ASSUME NEW p \in d.profiles PROVE Refers(p, d.entries)
  <2>1. Refers(p, db.entries)
    BY <1>2, <1>3
  <2> QED BY <1>5, <2>1 DEF Refers
<1>9. \A e, f \in d.entries : e.id = f.id => e = f
  BY <1>2, <1>3, <1>4
<1>10. \A e \in d.entries : Like(e)
  BY <1>2, <1>3, <1>4
<1>11. Tables(d)
  BY <1>2, <1>3, <1>7, <1>8, <1>9, <1>10 DEF Tables
<1> QED BY <1>11 DEF d

\* A profile that no rule objects to is saved under its number.
LEMMA UpsertedHolds ==
  ASSUME Tables(db), NEW p, Row(p), p.model \in Ids(db.entries),
         ValidateProfile(p, Entry(db.entries, p.model), Entry(db.entries, p.draft), EngineKind[p.engine]) = {}
  PROVE  Tables(Upserted(p))
<1> DEFINE same == {q \in db.profiles : q.model = p.model /\ q.name = p.name}
           d == Upserted(p)
           t == Entry(db.entries, p.model)
           kind == EngineKind[p.engine]
           Numbered(x) == WithId(p, x)
<1>1. db \in [entries : {db.entries}, profiles : {db.profiles}, next : {db.next}]
  BY DEF Tables
<1>2. /\ d \in [entries : {d.entries}, profiles : {d.profiles}, next : {d.next}]
      /\ d.entries = db.entries
      /\ \A q \in d.profiles : q \in db.profiles \/ \E x : q = Numbered(x)
  <2>1. CASE same # {}
    <3>1. d = [db EXCEPT !.profiles = (@ \ same) \cup {Numbered(q.id) : q \in same}]
      BY <2>1 DEF Upserted, WithId
    <3> QED BY <1>1, <3>1
  <2>2. CASE same = {}
    <3> DEFINE P == db.profiles \cup {Numbered(db.next)}
               n == db.next + 1
    <3>1. d = [db EXCEPT !.profiles = P, !.next = n]
      BY <2>2 DEF Upserted, WithId
    <3>2. \A q \in P : q \in db.profiles \/ \E x : q = Numbered(x)
      OBVIOUS
    <3> HIDE DEF P, n, d, Numbered
    <3>3. d \in [entries : {db.entries}, profiles : {P}, next : {n}]
      BY <1>1, <3>1
    <3> QED BY <3>2, <3>3
  <2> QED BY <2>1, <2>2
<1> HIDE DEF d
<1>3. t \in db.entries /\ t.id = p.model
  BY EntryOfId
<1>4. t # None
  BY <1>3, LikeIs DEF Tables
<1>5. /\ p.mode = "off" \/ p.tokens # None
      /\ t.kind = kind
      /\ Drafts(p.mode) => /\ p.draft # p.model /\ Entry(db.entries, p.draft) # None
                           /\ Entry(db.entries, p.draft).kind = kind
  BY <1>4, ValidMeans
<1>6. Refers(p, db.entries)
  <2>1. p.draft # None =>
          p.draft # p.model /\ \E e \in db.entries : e.id = p.draft /\ e.kind = EngineKind[p.engine]
    <3> SUFFICES ASSUME p.draft # None
                 PROVE  p.draft # p.model /\ \E e \in db.entries : e.id = p.draft /\ e.kind = kind
      OBVIOUS
    <3>1. Drafts(p.mode)
      BY DEF Row
    <3>2. p.draft \in Ids(db.entries)
      BY <1>5, <3>1 DEF Entry, Ids
    <3>3. Entry(db.entries, p.draft) \in db.entries /\ Entry(db.entries, p.draft).id = p.draft
      BY <3>2, EntryOfId
    <3> QED BY <1>5, <3>1, <3>3
  <2> QED BY <1>3, <1>5, <2>1 DEF Refers
<1>7. ASSUME Ids(db.entries) = Ids(Library) PROVE Valid(p, Library)
  <2>1. SameModel(Entry(db.entries, p.model), Entry(Library, p.model))
    BY <1>7, SameEntries
  <2>2. SameModel(Entry(db.entries, p.draft), Entry(Library, p.draft))
    BY <1>7, SameEntries
  <2>3. ValidateProfile(p, Entry(db.entries, p.model), Entry(db.entries, p.draft), kind)
          = ValidateProfile(p, Entry(Library, p.model), Entry(Library, p.draft), kind)
    BY <2>1, <2>2, ValidSame
  <2> QED BY <2>3 DEF Valid
<1>8. ASSUME NEW x
      PROVE  /\ Row(Numbered(x)) /\ Refers(Numbered(x), db.entries)
             /\ Ids(db.entries) = Ids(Library) => Valid(Numbered(x), Library)
  <2> DEFINE q == Numbered(x)
  <2>1. /\ Row(q) /\ q.draft = p.draft
        /\ q.mode = p.mode /\ q.tokens = p.tokens /\ q.model = p.model /\ q.engine = p.engine
    BY RowNumbered
  <2>2. \A u, v : ValidateProfile(q, u, v, kind) = ValidateProfile(p, u, v, kind)
    BY NumberedValid
  <2> HIDE DEF q
  <2>3. Refers(q, db.entries)
    BY <1>6, <2>1 DEF Refers
  <2>4. Ids(db.entries) = Ids(Library) => Valid(q, Library)
    BY <1>7, <2>1, <2>2 DEF Valid
  <2> QED BY <2>1, <2>3, <2>4 DEF q
<1> HIDE DEF Numbered
<1>9. \A q \in d.profiles : Row(q) /\ Refers(q, d.entries)
  BY <1>2, <1>8 DEF Tables
<1>10. Ids(d.entries) = Ids(Library) => \A q \in d.profiles : Valid(q, Library)
  BY <1>2, <1>8 DEF Tables
<1>11. Tables(d)
  BY <1>2, <1>9, <1>10 DEF Tables
<1> QED BY <1>11 DEF d

----------------------------------------------------------------------------
(* The steps.                                                                *)
\* It holds at the start.
LEMMA FormInit == EditorInit => FormInv
<1> SUFFICES ASSUME EditorInit PROVE FormInv
  OBVIOUS
<1>1. PICK ps \in Saved : db = [entries |-> Library, profiles |-> ps, next |-> Cardinality(ps) + 1]
  BY DEF EditorInit
<1> DEFINE n == Cardinality(ps) + 1
<1> HIDE DEF n
<1>2. db = [entries |-> Library, profiles |-> ps, next |-> n]
  BY <1>1 DEF n
<1>3. /\ db \in [entries : {db.entries}, profiles : {db.profiles}, next : {db.next}]
      /\ db.entries = Library /\ db.profiles = ps
  BY <1>2
<1>4. \A e \in Library : Like(e)
  BY DEF Like
<1>5. \A p \in ps : Row(p) /\ Refers(p, Library) /\ Valid(p, Library)
  BY FormAssumption
<1>6. \A e, f \in Library : e.id = f.id => e = f
  BY FormAssumption
<1>7. Tables(db)
  BY <1>3, <1>4, <1>5, <1>6 DEF Tables
<1>8. screen = "home" /\ form = None /\ asks = {} /\ saving = {}
  BY DEF EditorInit
<1> QED BY <1>7, <1>8 DEF FormInv

\* A sync of the library, under whatever screen.
LEMMA LibraryHolds ==
  ASSUME FormInv, NEW entry \in db.entries, LibraryChanges(entry)
  PROVE  FormInv'
<1>1. Tables(db')
  BY RemovedHolds, BlindedHolds DEF FormInv, LibraryChanges
<1> QED BY <1>1 DEF FormInv, LibraryChanges

\* A model is picked: the form opens on the defaults and a suggestion is asked for.
LEMMA PickHolds ==
  ASSUME FormInv, NEW entry \in db.entries, Pick(entry)
  PROVE  FormInv'
<1>1. Like(entry)
  BY DEF FormInv, Tables
<1>2. CASE Offered(entry) = <<>>
  BY <1>2 DEF FormInv, Pick
<1>3. CASE Offered(entry) # <<>>
  <2> DEFINE values == Defaults(Offered(entry))
             opened == Form(entry, db.entries, 0, values)
             asked == Ask(entry, Head(Offered(entry)))
  <2>1. Filled(values, entry)
    BY <1>1, <1>3, DefaultsFit
  <2>2. Drawn([opened EXCEPT !.loading = TRUE])
    <3> HIDE DEF values
    <3> QED BY <1>1, <2>1, FormDrawn
  <2>3. Requested(asked)
    BY <1>1, <1>3, OfferedIs DEF Requested, Ask
  <2> HIDE DEF opened, asked
  <2>4. /\ form' = [opened EXCEPT !.loading = TRUE] /\ asks' = asks \cup {asked}
        /\ db' = db /\ saving' = saving
    BY <1>3 DEF Pick, opened, asked
  <2> QED BY <2>2, <2>3, <2>4 DEF FormInv
<1> QED BY <1>2, <1>3

\* A profile is opened.
LEMMA OpenHolds ==
  ASSUME FormInv, NEW p \in db.profiles, EditProfile(p)
  PROVE  FormInv'
<1> DEFINE entry == Entry(db.entries, p.model)
           drafts == DraftOptions(entry, db.entries, entry.kind)
           values == Opened(p, entry, Offered(entry), drafts)
<1>1. entry \in db.entries
  BY EntryOfId DEF EditProfile
<1>2. Like(entry) /\ Row(p)
  BY <1>1 DEF FormInv, Tables
<1>3. /\ Offered(entry) # <<>>
      /\ form' = Form(entry, db.entries, p.id, values)
      /\ db' = db /\ saving' = saving /\ asks' = asks
  BY DEF EditProfile, EditForm
<1>4. p.context \in Nat \ {0} /\ p.mmproj \in BOOLEAN /\ p.prefix \in BOOLEAN /\ Text(p.extra)
  BY <1>2 DEF Row
<1> HIDE DEF entry, drafts
<1>5. Filled(values, entry)
  BY <1>2, <1>3, <1>4, OpenedFits
<1> HIDE DEF values
<1>6. Drawn(form')
  BY <1>2, <1>3, <1>5, FormDrawn
<1> QED BY <1>3, <1>6 DEF FormInv

\* A profile is deleted.
LEMMA DeleteHolds ==
  ASSUME FormInv, NEW p \in db.profiles, DeleteProfile(p)
  PROVE  FormInv'
<1> DEFINE P == db.profiles \ {p}
<1>1. db' = [db EXCEPT !.profiles = P]
  BY DEF DeleteProfile
<1>2. db \in [entries : {db.entries}, profiles : {db.profiles}, next : {db.next}]
  BY DEF FormInv, Tables
<1>3. \A q \in P : q \in db.profiles
  OBVIOUS
<1> HIDE DEF P
<1>4. /\ db' \in [entries : {db'.entries}, profiles : {db'.profiles}, next : {db'.next}]
      /\ db'.entries = db.entries /\ db'.profiles = P
  BY <1>1, <1>2
<1>5. Tables(db')
  BY <1>3, <1>4 DEF FormInv, Tables
<1> QED BY <1>5 DEF FormInv, DeleteProfile

\* An edit leaves a form of the entry, and may ask for another suggestion.
LEMMA EditedHolds ==
  ASSUME FormInv, NEW new, Drawn(new), new.entry = form.entry, Editing(new)
  PROVE  FormInv'
<1>1. /\ db' = db /\ saving' = saving
      /\ form' = new \/ form' = [new EXCEPT !.loading = TRUE]
      /\ asks' = asks \/ asks' = asks \cup {Ask(form.entry, new.values.engine)}
  <2>1. db' = db /\ saving' = saving
    BY DEF Editing
  <2>2. CASE form.editing = 0 /\ new.values.engine # form.values.engine
    BY <2>1, <2>2, Zenon DEF Editing
  <2>3. CASE ~(form.editing = 0 /\ new.values.engine # form.values.engine)
    BY <2>1, <2>3, Zenon DEF Editing
  <2> QED BY <2>2, <2>3
<1>2. Drawn(form')
  <2>1. Drawn([new EXCEPT !.loading = TRUE])
    BY Marked
  <2> QED BY <1>1, <2>1, Zenon
<1>3. Like(new.entry) /\ new.values.engine \in ToSet(Offered(new.entry))
  BY DEF Drawn, Filled
<1>4. Requested(Ask(form.entry, new.values.engine))
  BY <1>3 DEF Requested, Ask
<1> QED BY <1>1, <1>2, <1>4 DEF FormInv

\* The fields by their names.
LEMMA FieldNames == \A i \in DOMAIN Fields : Fields[i] \in Names
BY DEF Fields, Names

\* A text is typed.
LEMMA TypeHolds ==
  ASSUME FormInv, form # None, Field \in DOMAIN Typed, NEW text \in Typed[Field], Type(text)
  PROVE  FormInv'
<1>1. Drawn(form)
  BY DEF FormInv
<1>2. Field \in Names
  BY <1>1, FieldNames DEF Drawn, Shape, Field
<1>3. Field \notin Selects \cup Flags /\ Editing([form EXCEPT !.values[Field] = text])
  BY DEF Type
<1> HIDE DEF Field
<1>4. /\ Field \notin {"engine", "unit", "mmproj", "prefix"}
      /\ Field = "context" => text \in Nat \cup {Automatic, Bad, None}
      /\ Field = "extra" => Text(text)
  BY <1>3, FormAssumption DEF Selects, Flags
<1>5. /\ Drawn([form EXCEPT !.values[Field] = text])
      /\ [form EXCEPT !.values[Field] = text].entry = form.entry
  BY <1>1, <1>2, <1>4, FieldEdited
<1> QED BY <1>3, <1>5, EditedHolds

\* A flag is turned over.
LEMMA ToggleHolds ==
  ASSUME FormInv, form # None, Flip
  PROVE  FormInv'
<1>1. Drawn(form)
  BY DEF FormInv
<1>2. Field \in Names
  BY <1>1, FieldNames DEF Drawn, Shape, Field
<1> DEFINE x == ~form.values[Field]
<1>3. Field \in Flags /\ Editing([form EXCEPT !.values[Field] = x])
  BY DEF Flip
<1>4. x \in BOOLEAN
  BY Zenon
<1> HIDE DEF x
<1>5. Field \in {"mmproj", "prefix"}
  BY <1>3 DEF Flags
<1>6. /\ Drawn([form EXCEPT !.values[Field] = x])
      /\ [form EXCEPT !.values[Field] = x].entry = form.entry
  BY <1>1, <1>2, <1>4, <1>5, FieldEdited
<1> QED BY <1>3, <1>6, EditedHolds

\* The next of the options of a field, round about, is one of them.
LEMMA NextOption ==
  ASSUME NEW S, NEW options \in Seq(S), NEW at \in DOMAIN options, NEW delta \in {1, -1}
  PROVE  ((at - 1 + Len(options) + delta) % Len(options)) + 1 \in 1 .. Len(options)
OBVIOUS

\* A select is turned, forwards or backwards.
LEMMA TurnHolds ==
  ASSUME FormInv, form # None, NEW delta \in {1, -1}, Turn(delta)
  PROVE  FormInv'
<1>1. Drawn(form)
  BY DEF FormInv
<1>2. Field \in Names
  BY <1>1, FieldNames DEF Drawn, Shape, Field
<1> DEFINE options == OptionsOf(Field)
           at == CHOOSE i \in DOMAIN options : options[i] = form.values[Field]
           x == options[((at - 1 + Len(options) + delta) % Len(options)) + 1]
<1>3. Field \in Selects /\ Editing([form EXCEPT !.values[Field] = x])
  BY DEF Turn
<1> HIDE DEF options
<1>4. Field = "engine" => x \in ToSet(Offered(form.entry))
  <2> SUFFICES ASSUME Field = "engine" PROVE x \in ToSet(Offered(form.entry))
    OBVIOUS
  <2>1. options = Offered(form.entry)
    BY DEF options, OptionsOf
  <2>2. Like(form.entry) /\ form.values.engine \in ToSet(options)
    BY <1>1, <2>1 DEF Drawn, Filled
  <2>3. \E i \in DOMAIN options : options[i] = form.values[Field]
    BY <2>2 DEF ToSet
  <2>4. at \in DOMAIN options
    BY <2>3
  <2>5. options \in Seq({y \in DOMAIN EngineKind : EngineKind[y] = form.entry.kind})
    BY <2>1, <2>2, OfferedIs
  <2> HIDE DEF at
  <2>6. ((at - 1 + Len(options) + delta) % Len(options)) + 1 \in 1 .. Len(options)
    BY <2>4, <2>5, NextOption
  <2> QED BY <2>1, <2>2, <2>6, OfferedIs
<1>5. Field = "unit" => x \in {1, K, M}
  <2> SUFFICES ASSUME Field = "unit" PROVE x \in {1, K, M}
    OBVIOUS
  <2>1. options = <<1, K, M>>
    BY DEF options, OptionsOf
  <2>2. form.values.unit \in {1, K, M}
    BY <1>1 DEF Drawn, Filled
  <2>3. \E i \in DOMAIN options : options[i] = form.values[Field]
    BY <2>1, <2>2
  <2>4. at \in DOMAIN options
    BY <2>3
  <2>5. options \in Seq({1, K, M})
    BY <2>1
  <2> HIDE DEF at
  <2>6. ((at - 1 + Len(options) + delta) % Len(options)) + 1 \in 1 .. Len(options)
    BY <2>4, <2>5, NextOption
  <2> QED BY <2>5, <2>6
<1> HIDE DEF x
<1>6. Field \notin {"context", "mmproj", "prefix", "extra"}
  BY <1>3 DEF Selects
<1>7. /\ Drawn([form EXCEPT !.values[Field] = x])
      /\ [form EXCEPT !.values[Field] = x].entry = form.entry
  BY <1>1, <1>2, <1>4, <1>5, <1>6, FieldEdited
<1> QED BY <1>3, <1>7, EditedHolds

\* The keys that edit nothing.
LEMMA MarkHolds ==
  ASSUME FormInv, form # None,
         \/ \E to \in DOMAIN Fields : MoveFocus(to)
         \/ ShowAdvanced \/ Esc \/ \E yes \in BOOLEAN : Discard(yes)
  PROVE  FormInv'
<1>1. Drawn(form)
  BY DEF FormInv
<1>2. /\ db' = db /\ asks' = asks /\ saving' = saving
      /\ \/ screen' = "home" /\ form' = None
         \/ \E to \in DOMAIN Fields : form' = [form EXCEPT !.focus = to]
         \/ form' = [form EXCEPT !.advanced = ~@]
         \/ \E b \in BOOLEAN : form' = [form EXCEPT !.discard = b]
  <2>1. CASE \E to \in DOMAIN Fields : MoveFocus(to)
    BY <2>1 DEF MoveFocus
  <2>2. CASE ShowAdvanced
    BY <2>2 DEF ShowAdvanced
  <2>3. CASE Esc
    BY <2>3 DEF Esc, Leaves
  <2>4. CASE \E yes \in BOOLEAN : Discard(yes)
    BY <2>4 DEF Discard, Leaves
  <2> QED BY <2>1, <2>2, <2>3, <2>4
<1>3. (screen' = "home" /\ form' = None) \/ Drawn(form')
  <2>1. \A to \in DOMAIN Fields : Drawn([form EXCEPT !.focus = to])
    BY <1>1, Focused
  <2>2. Drawn([form EXCEPT !.advanced = ~@])
    BY <1>1, Marked, Zenon
  <2>3. \A b \in BOOLEAN : Drawn([form EXCEPT !.discard = b])
    BY <1>1, Marked, Zenon
  <2> QED BY <1>2, <2>1, <2>2, <2>3, Zenon
<1> QED BY <1>2, <1>3 DEF FormInv

\* What is on its way to the handler of the save is a row.
LEMMA CtrlSHolds ==
  ASSUME FormInv, form # None, CtrlS
  PROVE  FormInv'
<1>1. Drawn(form)
  BY DEF FormInv
<1> DEFINE p == ToProfile(form.values, form.editing, form.entry.id, KindOf(form.values))
<1>2. /\ db' = db /\ asks' = asks
      /\ \/ form' = [form EXCEPT !.acknowledged = TRUE] /\ saving' = saving
         \/ /\ form' = form /\ saving' = saving \cup {p}
            /\ Complete(form.values, KindOf(form.values))
  <2>1. db' = db /\ asks' = asks
    BY DEF CtrlS
  <2>2. CASE Review
    BY <2>1, <2>2, Zenon DEF CtrlS
  <2>3. CASE ~Review
    BY <2>1, <2>3, Zenon DEF CtrlS
  <2> QED BY <2>2, <2>3
<1>3. Like(form.entry) /\ Filled(form.values, form.entry)
  BY <1>1 DEF Drawn
<1>4. Complete(form.values, KindOf(form.values)) => Row(p)
  BY <1>3, RowOfFields
<1> HIDE DEF p
<1>5. Drawn(form')
  <2>1. Drawn([form EXCEPT !.acknowledged = TRUE])
    BY <1>1, Marked
  <2> QED BY <1>1, <1>2, <2>1, Zenon
<1> QED BY <1>2, <1>4, <1>5 DEF FormInv

\* A form that is filled in may take a best advice.
LEMMA FormAdvised ==
  ASSUME NEW e, NEW entries, NEW editing, NEW values, Like(e), Filled(values, e),
         NEW advice, Best(e, advice)
  PROVE  Drawn([Form(e, entries, editing, values) EXCEPT !.advice = advice])
BY FormDrawn

\* An editor opened on a suggestion is drawn, with what it was suggested for.
LEMMA AdvisedDrawn ==
  ASSUME NEW e, Like(e), NEW engine \in DOMAIN EngineKind, NEW hw \in Hardware, NEW n,
         Offered(e) # <<>>, NEW s, s = Suggestions[e.id][engine][hw], s # None, NEW entries
  PROVE  Drawn([EditForm(s.draft, e, entries) EXCEPT !.advice = Advice(n, engine, s, hw)])
<1> DEFINE advice == Advice(n, engine, s, hw)
<1>0. Advisable(e, n, engine, hw, s)
  BY SuggestionIsBest, SMTT(30)
<1>1. /\ Best(e, advice)
      /\ s.draft.context \in Nat \ {0} /\ s.draft.mmproj = FALSE /\ s.draft.prefix = FALSE
      /\ s.draft.extra = None
  BY <1>0 DEF Advisable
<1> HIDE DEF advice
<1> DEFINE drafts == DraftOptions(e, entries, e.kind)
           values == Opened(s.draft, e, Offered(e), drafts)
<1>2. Text(s.draft.extra)
  BY <1>1 DEF Text
<1>3. EditForm(s.draft, e, entries) = Form(e, entries, s.draft.id, values)
  BY DEF EditForm
<1> HIDE DEF drafts
<1>4. Filled(values, e)
  BY <1>1, <1>2, OpenedFits
<1> HIDE DEF values
<1>5. Drawn([Form(e, entries, s.draft.id, values) EXCEPT !.advice = advice])
  BY <1>1, <1>4, FormAdvised
<1> QED BY <1>3, <1>5 DEF advice

\* The message of a suggestion is handled, however late it is.
LEMMA AnswerHolds ==
  ASSUME FormInv, NEW n, SuggestionAnswer(n)
  PROVE  FormInv'
<1>1. PICK a \in asks, hw \in Hardware :
         /\ asks' = asks \ {a}
         /\ IF Awaits(a)
            THEN LET s == Suggestions[a.entry.id][a.engine][hw] IN
                 form' = IF s = None THEN Unadvised ELSE Advised(a, s, hw)
            ELSE form' = form
         /\ UNCHANGED <<db, screen, saving, used>>
  BY DEF SuggestionAnswer
<1>2. \A b \in asks' : Requested(b)
  BY <1>1 DEF FormInv
<1>3. CASE ~Awaits(a)
  BY <1>1, <1>2, <1>3 DEF FormInv
<1>4. CASE Awaits(a)
  <2> DEFINE s == Suggestions[a.entry.id][a.engine][hw]
  <2>1. screen = "form" /\ Drawn(form)
    BY <1>4 DEF FormInv, Awaits
  <2>2. form' = IF s = None THEN Unadvised ELSE Advised(a, s, hw)
    BY <1>1, <1>4
  <2>3. Like(a.entry) /\ a.engine \in ToSet(Offered(a.entry))
    BY DEF FormInv, Requested
  <2>4. a.engine \in DOMAIN EngineKind /\ Offered(a.entry) # <<>>
    <3>1. a.engine \in DOMAIN EngineKind
      BY <2>3, OfferedIs
    <3>2. Offered(a.entry) = <<>> => ToSet(Offered(a.entry)) = {}
      BY DEF ToSet
    <3> QED BY <2>3, <3>1, <3>2
  <2>5. CASE s = None
    <3>1. form' = [form EXCEPT !.loading = FALSE]
      BY <2>2, <2>5 DEF Unadvised
    <3>2. Drawn([form EXCEPT !.loading = FALSE])
      BY <2>1, Marked
    <3>3. Drawn(form')
      BY <3>1, <3>2
    <3> QED BY <1>1, <1>2, <3>3 DEF FormInv
  <2>6. CASE s # None
    <3>1. form' = Advised(a, s, hw)
      BY <2>2, <2>6
    <3>2. Advised(a, s, hw)
            = [EditForm(s.draft, a.entry, form.entries) EXCEPT !.advice = Advice(a.n, a.engine, s, hw)]
      BY DEF Advised, Advice
    <3>3. s = Suggestions[a.entry.id][a.engine][hw]
      BY ZenonT(60)
    <3> HIDE DEF s
    <3>4. \A entries :
            Drawn([EditForm(s.draft, a.entry, entries) EXCEPT !.advice = Advice(a.n, a.engine, s, hw)])
      BY <2>3, <2>4, <2>6, <3>3, AdvisedDrawn
    <3>7. Drawn(form')
      BY <3>1, <3>2, <3>4, Zenon
    <3> QED BY <1>1, <1>2, <3>7 DEF FormInv
  <2> QED BY <2>5, <2>6
<1> QED BY <1>3, <1>4

\* The handler of a save checks the profile against the models there are by then.
LEMMA SaveHolds ==
  ASSUME FormInv, NEW p \in saving, Save(p)
  PROVE  FormInv'
<1>1. Row(p) /\ Tables(db)
  BY DEF FormInv
<1>2. /\ asks' = asks /\ saving' = saving \ {p}
      /\ \/ db' = db /\ screen' = screen /\ form' = form
         \/ /\ ValidateProfile(p, Entry(db.entries, p.model), Entry(db.entries, p.draft),
                               EngineKind[p.engine]) = {}
            /\ p.model \in Ids(db.entries)
            /\ db' = Upserted(p) /\ screen' = "home" /\ form' = None
  BY DEF Save, Leaves
<1>3. Tables(db')
  BY <1>1, <1>2, UpsertedHolds
<1> QED BY <1>2, <1>3 DEF FormInv

\* Every step keeps the invariant.
LEMMA FormStep ==
  ASSUME FormInv, [EditorNext]_editorVars
  PROVE  FormInv'
<1>1. CASE \E entry \in db.entries : LibraryChanges(entry) \/ Pick(entry)
  BY <1>1, LibraryHolds, PickHolds
<1>2. CASE \E p \in db.profiles : EditProfile(p) \/ DeleteProfile(p)
  BY <1>2, OpenHolds, DeleteHolds
<1>3. CASE \E n \in 1 .. used.asks : SuggestionAnswer(n)
  BY <1>3, AnswerHolds
<1>4. CASE \E p \in saving : Save(p)
  BY <1>4, SaveHolds
<1>5. CASE NewProfile \/ LeavePicker
  BY <1>5 DEF FormInv, NewProfile, LeavePicker
<1>6. CASE form # None /\ \E delta \in {1, -1} : Turn(delta)
  BY <1>6, TurnHolds
<1>7. CASE form # None /\ Field \in DOMAIN Typed /\ \E text \in Typed[Field] : Type(text)
  BY <1>7, TypeHolds
<1>8. CASE form # None /\ Flip
  BY <1>8, ToggleHolds
<1>9. CASE form # None /\ CtrlS
  BY <1>9, CtrlSHolds
<1>10. CASE form # None /\ \/ \E to \in DOMAIN Fields : MoveFocus(to)
                           \/ ShowAdvanced \/ Esc \/ \E yes \in BOOLEAN : Discard(yes)
  BY <1>10, MarkHolds
<1>11. CASE UNCHANGED editorVars
  BY <1>11 DEF FormInv, editorVars
<1> QED BY Zenon, <1>1, <1>2, <1>3, <1>4, <1>5, <1>6, <1>7, <1>8, <1>9, <1>10, <1>11 DEF EditorNext

----------------------------------------------------------------------------
(* What the invariant says of the rows.                                      *)
\* A row refers to an entry of the list, which is a model of the start.
LEMMA RowOf ==
  ASSUME FormInv, NEW p \in db.profiles
  PROVE  /\ Row(p) /\ Refers(p, db.entries) /\ EntryOf(p) \in db.entries
         /\ EntryOf(p).id = p.model /\ EntryOf(p).kind = EngineKind[p.engine]
         /\ Like(EntryOf(p)) /\ EntryOf(p).vision \in BOOLEAN
         /\ p.mmproj \in BOOLEAN /\ p.prefix \in BOOLEAN /\ Text(p.extra)
         /\ EngineKind[p.engine] \in Kinds
<1>1. Row(p) /\ Refers(p, db.entries) /\ Tables(db)
  BY DEF FormInv, Tables
<1>2. PICK e \in db.entries : e.id = p.model /\ e.kind = EngineKind[p.engine]
  BY <1>1 DEF Refers
<1>3. Entry(db.entries, e.id) = e
  BY <1>1, EntryIn DEF Tables
<1>4. EntryOf(p) = e
  BY <1>2, <1>3 DEF EntryOf
<1>5. Like(e)
  BY <1>1 DEF Tables
<1>6. e.vision \in BOOLEAN
  <2>1. IsEntry(e)
    BY <1>5, LikeIs
  <2> QED BY <2>1 DEF IsEntry
<1>7. /\ p.mmproj \in BOOLEAN /\ p.prefix \in BOOLEAN /\ Text(p.extra)
      /\ EngineKind[p.engine] \in Kinds
  BY <1>1, FormAssumption DEF Row
<1> QED BY <1>1, <1>2, <1>4, <1>5, <1>6, <1>7

\* A row that refers to the list goes through the form as it is.
LEMMA SavedSame == FormInv => UntouchedSavesSame
<1> SUFFICES ASSUME FormInv, NEW p \in db.profiles, p.model \in Ids(db.entries),
                    p.mmproj => EntryOf(p).vision
             PROVE  LET opened == EditForm(p, EntryOf(p), db.entries) IN
                    /\ Complete(opened.values, KindOf(opened.values))
                    /\ ToProfile(opened.values, opened.editing, p.model, KindOf(opened.values)) = p
  BY DEF UntouchedSavesSame
<1> DEFINE entry == EntryOf(p)
           drafts == DraftOptions(entry, db.entries, entry.kind)
           values == Opened(p, entry, Offered(entry), drafts)
<1>1. /\ Row(p) /\ Refers(p, db.entries) /\ entry \in db.entries
      /\ entry.id = p.model /\ entry.kind = EngineKind[p.engine] /\ Like(entry)
  BY RowOf
<1> HIDE DEF entry
<1>2. p.draft # None => p.draft \in drafts
  BY <1>1 DEF Refers, DraftOptions
<1>3. p.mode # "off" => p.tokens # None
  BY <1>1 DEF Refers
<1>4. p.mmproj => entry.vision
  BY DEF entry
<1> HIDE DEF drafts
<1>5. /\ Complete(values, KindOf(values))
      /\ ToProfile(values, p.id, p.model, KindOf(values)) = p
  BY <1>1, <1>2, <1>3, <1>4, RowReopens
<1> DEFINE opened == EditForm(p, entry, db.entries)
<1>6. opened.values = values /\ opened.editing = p.id
  BY DEF EditForm, Form, drafts
<1> HIDE DEF values, opened
<1>7. /\ Complete(opened.values, KindOf(opened.values))
      /\ ToProfile(opened.values, opened.editing, p.model, KindOf(opened.values)) = p
  BY <1>5, <1>6
<1> QED BY <1>7 DEF opened, entry

\* The rules that let a row in let it be launched.
LEMMA RowLaunches == FormInv => SavedLaunches
<1> SUFFICES ASSUME FormInv, Ids(db.entries) = Ids(Library), NEW p \in db.profiles, Parses(p)
             PROVE  Launched(p) # <<>>
  BY DEF SavedLaunches
<1> DEFINE kind == EngineKind[p.engine]
           draft == IF UsesDraft(p.mode) THEN Entry(db.entries, p.draft) ELSE None
           spec == BuildSpec(p, EntryOf(p), draft, kind)
<1>1. Tables(db) /\ Valid(p, Library)
  BY DEF FormInv, Tables
<1>2. SameModel(Entry(db.entries, p.model), Entry(Library, p.model))
  BY <1>1, SameEntries
<1>3. SameModel(Entry(db.entries, p.draft), Entry(Library, p.draft))
  BY <1>1, SameEntries
<1>4. Drafts(p.mode) => draft = Entry(db.entries, p.draft)
  BY DEF Drafts, UsesDraft
<1>5. ValidateProfile(p, Entry(Library, p.model), Entry(Library, p.draft), kind) = {}
  BY <1>1 DEF Valid
<1> HIDE DEF draft, kind
<1>6. /\ SameModel(Entry(Library, p.model), EntryOf(p))
      /\ Drafts(p.mode) => SameModel(Entry(Library, p.draft), draft)
  BY <1>2, <1>3, <1>4 DEF SameModel, EntryOf
<1>7. ValidateProfile(p, EntryOf(p), draft, kind) = {}
  BY <1>5, <1>6, ValidSame
<1>8. /\ kind \in Kinds /\ Text(p.extra) /\ p.mmproj \in BOOLEAN /\ p.prefix \in BOOLEAN
      /\ EntryOf(p).vision \in BOOLEAN /\ EntryOf(p).kind = kind
  BY RowOf DEF kind
<1>9. Drafts(p.mode) => draft # None
  BY <1>7, ValidMeans
<1>10. p.extra = None \/ (p.extra.closed /\ ~RejectManagedFlags(p.extra.words, kind))
  BY DEF Parses, kind
<1>11. spec # <<>>
  BY <1>8, <1>9, <1>10, CommandLine
<1>12. Launched(p) = spec
  BY <1>7 DEF Launched, draft, kind
<1> QED BY <1>11, <1>12

\* No option of a command line is named twice, whatever the free flags.
LEMMA NamedOnce == FormInv => ManagedOnce
<1> SUFFICES ASSUME FormInv, NEW p \in db.profiles, NEW flag \in Managed(EngineKind[p.engine])
             PROVE  Cardinality({i \in DOMAIN Launched(p) : Launched(p)[i] = flag}) <= 1
  BY DEF ManagedOnce
<1> DEFINE kind == EngineKind[p.engine]
           draft == IF UsesDraft(p.mode) THEN Entry(db.entries, p.draft) ELSE None
           spec == BuildSpec(p, EntryOf(p), draft, kind)
<1>1. /\ kind \in Kinds /\ Text(p.extra) /\ p.mmproj \in BOOLEAN /\ p.prefix \in BOOLEAN
      /\ EntryOf(p).vision \in BOOLEAN
  BY RowOf
<1>2. Launched(p) \in {<<>>, spec}
  BY DEF Launched
<1> HIDE DEF draft, kind
<1>3. \A f \in Managed(kind) : Cardinality({i \in DOMAIN spec : spec[i] = f}) <= 1
  BY <1>1, CommandLine
<1> HIDE DEF spec
<1>4. CASE Launched(p) = spec
  BY <1>3, <1>4 DEF kind
<1>5. CASE Launched(p) = <<>>
  <2>1. {i \in DOMAIN Launched(p) : Launched(p)[i] = flag} = {}
    BY <1>5
  <2> QED BY <2>1, FS_EmptySet
<1> QED BY <1>2, <1>4, <1>5

\* The advice of a form is the best there was.
LEMMA AdviceBest == FormInv => BestContext
<1> SUFFICES ASSUME FormInv, form # None, form.advice # None
             PROVE  Best(form.entry, form.advice)
  BY DEF BestContext, Best
<1> QED BY DEF FormInv, Drawn

\* The invariant holds throughout.
LEMMA FormAlways == EditorSpec => []FormInv
<1>1. FormInv /\ [EditorNext]_editorVars => FormInv'
  BY FormStep
<1> QED BY <1>1, FormInit, PTL DEF EditorSpec

\* The suggestion a form shows is the largest context that fits, or the least
\* demanding one when none does, whatever was typed, synced or asked meanwhile
\* (SuggestProfile of service.go, the handler of its message in app.go).
THEOREM SuggestionsAreBest == EditorSpec => []BestContext
BY FormAlways, AdviceBest, PTL

\* A saved profile opens and saves as it was, can be launched while no model is
\* gone, and names no managed option twice on its command line (profileedit.go,
\* UpsertProfile, BuildRunSpec and the builders of the launcher).
THEOREM ProfilesAreHeld == EditorSpec => []ProfilesHold
<1>1. FormInv => ProfilesHold
  BY SavedSame, RowLaunches, NamedOnce DEF ProfilesHold
<1> QED BY <1>1, FormAlways, PTL

=============================================================================
