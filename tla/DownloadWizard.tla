--------------------------- MODULE DownloadWizard ---------------------------
(***************************************************************************)
(* The download wizard of the terminal UI (internal/tui/download.go) over  *)
(* the downloader: the steps from the search to the destination, the       *)
(* goroutines that wait for the hub, for the progress channel and for the  *)
(* import, and the messages they post to the UI's loop.                    *)
(*                                                                         *)
(* Messages do not say which wizard they are for; a wizard is opened when  *)
(* nothing of an earlier download is under way in the process (a bound).   *)
(***************************************************************************)
EXTENDS Download

CONSTANTS
    Required,    \* the files a plan must have, in order
    Optional,    \* the optional files a plan may have, in order
    MaxDownloads,\* bound: downloads started
    MaxChanges,  \* bound: new versions at the hub
    MaxRestarts  \* bound: ends of the process

ASSUME WizardAssumption ==
    /\ Required \in Seq(File) /\ Required # <<>> /\ Optional \in Seq(File)
    /\ MaxDownloads \in Nat /\ MaxChanges \in Nat /\ MaxRestarts \in Nat

VARIABLES
    ui,       \* the wizard on the screen
    hub,      \* the hub request it has sent, "none" when there is none
    waiting,  \* is waitForProgress waiting for the channel?
    posted,   \* the progress message on its way to the UI, "none" when there is none
    importing,\* is ImportDownloaded in progress?
    count     \* counters of the bounds

vars == <<served, staged, published, job, faults, ui, hub, waiting, posted, importing, count>>
transfer == <<served, disk, job, faults>>
pipes == <<waiting, posted, importing>>

Step == {"search", "repo", "engine", "variant", "review", "dest", "downloading", "done"}

TypeOK ==
    /\ DownloadTypeOK
    /\ ui.open \in BOOLEAN /\ ui.step \in Step
    /\ ui.searching \in BOOLEAN /\ ui.loadingMore \in BOOLEAN
    /\ ui.optional \in Seq(File) /\ ui.optSel \in Seq(BOOLEAN)
    /\ ui.want \in [File -> Version]                        \* what the plan lists
    /\ ui.shown \in Overall \cup {"none"}                     \* progress.State
    /\ ui.outcome \in {"none", "failed", "imported", "canceled"}
    /\ hub \in {"none", "search", "more", "files"}
    /\ waiting \in BOOLEAN /\ posted \in Overall \cup {"done", "none"}
    /\ importing \in BOOLEAN
    /\ count \in [downloads : 0..MaxDownloads, changes : 0..MaxChanges, restarts : 0..MaxRestarts]

Closed == [open |-> FALSE, step |-> "search", searching |-> FALSE,
           loadingMore |-> FALSE, optional |-> <<>>, optSel |-> <<>>,
           want |-> [f \in File |-> 1], shown |-> "none",
           outcome |-> "none"]

Init ==
    /\ DownloadInit
    /\ ui = Closed /\ hub = "none"
    /\ waiting = FALSE /\ posted = "none" /\ importing = FALSE
    /\ count = [downloads |-> 0, changes |-> 0, restarts |-> 0]

-----------------------------------------------------------------------------
(* Finding a plan.  Keys are ignored while a request is out. *)

At(step) == ui.open /\ ui.step = step

\* 'w' on the models tab: a new wizard, with a Downloader of its own.  Bound:
\* nothing of another download is still at work, or waited for, in this process.
Open ==
    /\ ~ui.open /\ count.downloads < MaxDownloads
    /\ ~Working /\ ~waiting /\ posted = "none" /\ ~importing
    /\ ui' = [Closed EXCEPT !.open = TRUE]
    /\ UNCHANGED <<hub, transfer, pipes, count>>

\* esc in the search step.
Leave ==
    /\ At("search") /\ ~ui.searching
    /\ ui' = Closed
    /\ UNCHANGED <<hub, transfer, pipes, count>>

Search ==
    /\ At("search") /\ ~ui.searching
    /\ ui' = [ui EXCEPT !.searching = TRUE] /\ hub' = "search"
    /\ UNCHANGED <<transfer, pipes, count>>

\* 'l', offered while the last page was full.
LoadMore ==
    /\ At("repo") /\ ~ui.loadingMore
    /\ ui' = [ui EXCEPT !.loadingMore = TRUE, !.searching = TRUE] /\ hub' = "more"
    /\ UNCHANGED <<transfer, pipes, count>>

\* A failed request, or a first search without a result, leaves the step.
SearchDone ==
    /\ hub \in {"search", "more"} /\ hub' = "none"
    /\ \/ ui' = [ui EXCEPT !.searching = FALSE]
       \/ ui' = [ui EXCEPT !.searching = FALSE, !.step = "repo",
                           !.loadingMore = IF hub = "more" THEN FALSE ELSE @]
    /\ UNCHANGED <<transfer, pipes, count>>

PickRepo ==
    /\ At("repo") /\ ~ui.loadingMore
    /\ ui' = [ui EXCEPT !.step = "engine"]
    /\ UNCHANGED <<hub, transfer, pipes, count>>

\* enter on an engine: list the repository's files.
PickEngine ==
    /\ At("engine") /\ ~ui.searching
    /\ ui' = [ui EXCEPT !.searching = TRUE] /\ hub' = "files"
    /\ UNCHANGED <<transfer, pipes, count>>

\* setPlan: the optional files start out selected.
SetPlan(u, optional, want) ==
    [u EXCEPT !.optional = optional, !.optSel = [i \in DOMAIN optional |-> TRUE], !.want = want]

\* The listing: several GGUF variants, one plan, or an error.
FilesDone ==
    /\ hub = "files" /\ hub' = "none"
    /\ \/ ui' = [ui EXCEPT !.searching = FALSE]
       \/ \E step \in {"variant", "review"} :
             ui' = [SetPlan(ui, Optional, served) EXCEPT !.searching = FALSE, !.step = step]
    /\ UNCHANGED <<transfer, pipes, count>>

PickVariant ==
    /\ At("variant")
    /\ ui' = [SetPlan(ui, Optional, ui.want) EXCEPT !.step = "review"]
    /\ UNCHANGED <<hub, transfer, pipes, count>>

Back ==
    /\ \/ At("repo") /\ ~ui.loadingMore /\ ui' = [ui EXCEPT !.step = "search"]
       \/ At("engine") /\ ~ui.searching /\ ui' = [ui EXCEPT !.step = "repo"]
       \/ At("variant") /\ ui' = [ui EXCEPT !.step = "engine"]
       \/ At("review") /\ ui' = [ui EXCEPT !.step = "engine"]
       \/ At("dest") /\ ui' = [ui EXCEPT !.step = "review"]
    /\ UNCHANGED <<hub, transfer, pipes, count>>

\* The space key on an optional file.
Toggle ==
    /\ At("review")
    /\ \E i \in DOMAIN ui.optSel : ui' = [ui EXCEPT !.optSel[i] = ~@]
    /\ UNCHANGED <<hub, transfer, pipes, count>>

ChooseDest ==
    /\ At("review")
    /\ ui' = [ui EXCEPT !.step = "dest"]
    /\ UNCHANGED <<hub, transfer, pipes, count>>

-----------------------------------------------------------------------------
(* The download *)

Selected == {i \in DOMAIN ui.optional : i \in DOMAIN ui.optSel /\ ui.optSel[i]}

\* effectivePlan: the optional files selected, by position and in order.  There is
\* one such sequence.
Effective ==
    LET inOrder(nth) == \A i, j \in DOMAIN nth : i < j => nth[i] < nth[j]
    IN {[i \in DOMAIN nth |-> ui.optional[nth[i]]] :
           nth \in {n \in [1..Cardinality(Selected) -> Selected] : inOrder(n)}}

\* FileBrowserSavedMsg, when the directory cannot be made, or Download refuses the
\* plan, which by then has lost the files that are not selected.
DestRefused ==
    /\ At("dest")
    /\ \/ ui' = [ui EXCEPT !.step = "review"]
       \/ \E optional \in Effective :
             ui' = [ui EXCEPT !.step = "review", !.optional = optional]
    /\ UNCHANGED <<hub, transfer, pipes, count>>

\* FileBrowserSavedMsg: the download of a valid plan starts (ValidatePlan: no two
\* files go to one destination).
StartDownload ==
    /\ At("dest") /\ count' = [count EXCEPT !.downloads = @ + 1]
    /\ \E optional \in Effective :
          /\ IsInjective(Required \o optional)
          /\ Start(Required \o optional, ui.want)
          /\ ui' = [ui EXCEPT !.step = "downloading", !.optional = optional]
    /\ waiting' = TRUE
    /\ UNCHANGED <<hub, served, disk, faults, posted, importing>>

\* waitForProgress: one receive, posted to the UI.
Receive ==
    /\ waiting /\ waiting' = FALSE
    /\ \/ /\ job.ch # <<>> /\ posted' = Head(job.ch)
          /\ job' = [job EXCEPT !.ch = <<>>]
       \/ /\ job.ch = <<>> /\ job.run[0].at = "closed" /\ posted' = "done"
          /\ UNCHANGED job
    /\ UNCHANGED <<served, disk, faults, ui, hub, importing, count>>

\* Mutated: the channel is not read again.
HandleProgressOnce ==
    /\ posted \in Overall /\ posted' = "none"
    /\ ui' = IF At("downloading") THEN [ui EXCEPT !.shown = posted] ELSE ui
    /\ UNCHANGED <<transfer, hub, waiting, importing, count>>

\* downloadProgressMsg: shown, and the channel read once more.
HandleProgress ==
    /\ posted \in Overall /\ posted' = "none"
    /\ IF At("downloading") THEN ui' = [ui EXCEPT !.shown = posted] /\ waiting' = TRUE
       ELSE UNCHANGED <<ui, waiting>>
    /\ UNCHANGED <<transfer, hub, importing, count>>

\* Mutated: the end of the channel is taken for success.
HandleDoneUnread ==
    /\ posted = "done" /\ posted' = "none"
    /\ importing' = At("downloading")
    /\ UNCHANGED <<transfer, ui, hub, waiting, count>>

\* The channel is closed: the last progress shown decides.
HandleDone ==
    /\ posted = "done" /\ posted' = "none"
    /\ IF At("downloading") /\ ui.shown = "failed"
       THEN ui' = [ui EXCEPT !.step = "done", !.outcome = "failed"] /\ UNCHANGED importing
       ELSE importing' = At("downloading") /\ UNCHANGED ui
    /\ UNCHANGED <<transfer, hub, waiting, count>>

\* ImportDownloaded has ended, and its message is handled.
Imported ==
    /\ importing /\ importing' = FALSE
    /\ ui' = IF At("downloading") THEN [ui EXCEPT !.step = "done", !.outcome = "imported"] ELSE ui
    /\ UNCHANGED <<transfer, hub, waiting, posted, count>>

\* esc while it runs: nobody reads the progress any more.
Cancel ==
    /\ At("downloading")
    /\ job' = [job EXCEPT !.canceled = TRUE, !.clean = @ /\ ~Working]
    /\ ui' = [ui EXCEPT !.step = "done", !.outcome = "canceled"]
    /\ UNCHANGED <<served, disk, faults, hub, pipes, count>>

\* enter or esc in the last step, which cancels what is left.
CloseWizard ==
    /\ At("done")
    /\ ui' = Closed
    /\ job' = [job EXCEPT !.canceled = TRUE, !.clean = @ /\ ~Working]
    /\ UNCHANGED <<served, disk, faults, hub, pipes, count>>

-----------------------------------------------------------------------------
(* The environment *)

\* The branch the plan names moves on.  Bound: while a download runs; before its
\* listing and after its end no one would notice.
NewVersion ==
    /\ Working /\ count.changes < MaxChanges /\ count' = [count EXCEPT !.changes = @ + 1]
    /\ \E f \in File, v \in Version : v # served[f] /\ served' = [served EXCEPT ![f] = v]
    /\ job' = [job EXCEPT !.clean = @ /\ ~Working]
    /\ UNCHANGED <<disk, faults, ui, hub, pipes>>

\* The process ends, by a quit or a crash, and is started again: the disk
\* stays.  Bound: while a download or an import runs.
Restart ==
    /\ Working \/ importing
    /\ count.restarts < MaxRestarts /\ count' = [count EXCEPT !.restarts = @ + 1]
    /\ job' = NoJob
    /\ ui' = Closed /\ hub' = "none"
    /\ waiting' = FALSE /\ posted' = "none" /\ importing' = FALSE
    /\ UNCHANGED <<served, disk, faults>>

Downloading == Transfer /\ UNCHANGED <<ui, hub, pipes, count>>

System ==
    \/ SearchDone \/ FilesDone \/ Downloading \/ Receive
    \/ HandleProgress \/ HandleDone \/ Imported

User ==
    \/ Open \/ Leave \/ Search \/ LoadMore \/ PickRepo \/ PickEngine \/ PickVariant
    \/ Back \/ Toggle \/ ChooseDest \/ DestRefused \/ StartDownload \/ Cancel \/ CloseWizard

Next == System \/ User \/ NewVersion \/ Restart

Spec == Init /\ [][Next]_vars

FairSpec == Spec /\ WF_vars(System)

-----------------------------------------------------------------------------
(* Properties *)

\* What a download published under a checksum holds exactly what its plan lists,
\* whatever partials earlier downloads, crashes and other versions left behind.
PublishedExact == \A f \in job.put \cap Hashed : published[f] = Exact(job.want[f])

\* The wizard imports a plan only when all of it was published, and says that a
\* download failed only if it did: the last progress it reads is the final one.
\* A download succeeds if nothing disturbs it, the hub serves the version that
\* was planned, and each partial in the staging directory is a beginning of that
\* version; a partial of another version is resumed by its name and size, and
\* the checksum fails the download.
OutcomeTrue ==
    /\ importing => ToSet(job.plan) \subseteq job.put
    /\ ui.outcome = "failed" => job.state = "failed"
    /\ job.run[0].at = "closed" /\ job.clean => job.state = "completed"

\* A download on the screen ends: it is imported, fails, or is canceled.
DownloadEnds == At("downloading") ~> ~At("downloading")

=============================================================================
