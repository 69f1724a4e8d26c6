---------------------------- MODULE Library ----------------------------
(* The model library of infai: one SQLite file (internal/db) with the   *)
(* folders, models, profiles, recents and engines, the service over it   *)
(* (internal/backend), the scans of the folders (internal/scanner) and    *)
(* the pages of the terminal interface that use them (internal/tui).      *)
(* A sync lists the folders, reads the metadata of what it found and only *)
(* then opens its transaction; an import runs beside it.  A statement or  *)
(* a transaction is one step: it is all done, or refused as a whole.       *)
EXTENDS Naturals, FiniteSets

CONSTANTS Root, File,  \* folders; model files (or safetensors directories)
          Folder,      \* the folder each file is in
          Engine, Name, Repo,
          Kind,        \* of each file and engine: what can run what
          Sync,        \* syncs that may be under way at a time
          MaxModels, MaxProfiles, \* bounds: ids handed out
          Mixes,       \* bound: which edits the user makes, and how many edits,
                       \* syncs and changes of the disk there are
          None

ASSUME LibraryAssumption ==
    /\ IsFiniteSet(File) /\ Folder \in [File -> Root]
    /\ {MaxModels, MaxProfiles} \subseteq Nat
    /\ Mixes \subseteq [ops : SUBSET {"import", "folder", "engine", "profile", "run", "kill"},
                        edits : Nat, syncs : Nat, changes : Nat]
    /\ None \notin Nat \cup Root \cup File \cup Engine \cup Name \cup Repo

VARIABLES disk,   \* [content: of each file, folder: how each folder reads]
          db,     \* the tables
          sync,   \* the syncs: SyncModels, on goroutines of their own
          import, \* ImportPath, called by the interface or a download
          ui,     \* [home: the entries shown, dirs, form, run]
          used    \* [syncs, edits, changes] against the bounds of used.mix
libraryVars == <<disk, db, sync, import, ui, used>>

NoSync == [at |-> "idle", todo |-> {}, found |-> <<>>, dirs |-> {}, steady |-> {}, still |-> FALSE]
NoImport == [at |-> "idle", root |-> None, todo |-> {}, kept |-> {}, source |-> None, page |-> "none"]
Unwatched == [import EXCEPT !.page = IF @ = "wizard" THEN "closed" ELSE @]
NoRun == [entry |-> None, up |-> FALSE]

Models(d) == {m.id : m \in d.models}
Profiles(d) == {p.id : p \in d.profiles}
FileOf(d, id) == (CHOOSE m \in d.models : m.id = id).file

Exists(f) == disk.content[f] # "absent" /\ disk.folder[Folder[f]] # "gone"
Readable(f) == disk.content[f] = "good" /\ disk.folder[Folder[f]] # "gone"
Listed(r) == {f \in File : Folder[f] = r /\ disk.content[f] # "absent"}

(* What the statements do to the tables.  Foreign keys are on: with a    *)
(* model go its profiles and their recents, and a draft becomes NULL.     *)
WithoutProfiles(d, ids) ==
    [d EXCEPT !.profiles = {p \in @ : p.id \notin ids}, !.recents = @ \ ids]
WithoutModels(d, ids) ==
    LET kept == WithoutProfiles(d, {p.id : p \in {q \in d.profiles : q.model \in ids}}) IN
    [kept EXCEPT !.models = {m \in @ : m.id \notin ids},
                 !.profiles = {[p EXCEPT !.draft = IF @ \in ids THEN None ELSE @] : p \in @}]
RemoveScanDir(d, r) ==
    [WithoutModels(d, {m.id : m \in {x \in d.models : Folder[x.file] = r}}) EXCEPT !.dirs = @ \ {r}]

Kept(old, new) == IF new = None THEN old ELSE new

(* AUTOINCREMENT: an id is never used again.                             *)
NextId(d) == d.nextModel

UpsertModel(d, f, source) ==
    IF \E m \in d.models : m.file = f
    THEN [d EXCEPT !.models = {IF m.file = f THEN [m EXCEPT !.source = Kept(@, source)] ELSE m : m \in @}]
    ELSE [d EXCEPT !.models = @ \cup {[id |-> NextId(d), file |-> f, source |-> source]},
                   !.nextModel = @ + 1]

(* Every file gets a row; the rows that are new take the next ids.        *)
Numbering(files) ==
    CHOOSE n \in [files -> 1 .. Cardinality(files)] : \A f, g \in files : f # g => n[f] # n[g]
WithRows(d, files) ==
    LET new == {f \in files : \A m \in d.models : m.file # f}
        place == Numbering(new)
    IN [d EXCEPT !.models = @ \cup {[id |-> NextId(d) + place[f] - 1, file |-> f, source |-> None] : f \in new},
                 !.nextModel = @ + Cardinality(new)]

DeleteEngine(d, e) ==
    [WithoutProfiles(d, {p.id : p \in {q \in d.profiles : q.engine = e}}) EXCEPT !.engines = @ \ {e}]

UpsertProfile(d, p) ==
    LET same == {q \in d.profiles : q.model = p.model /\ q.name = p.name} IN
    IF same # {}
    THEN [d EXCEPT !.profiles = (@ \ same) \cup {[p EXCEPT !.id = q.id] : q \in same}]
    ELSE [d EXCEPT !.profiles = @ \cup {[p EXCEPT !.id = d.nextProfile]}, !.nextProfile = @ + 1]

UnlistedKept(d, found) == {}

(* The transaction of a sync: files that are gone, files of a listed     *)
(* folder that were not found in it, then every file found.               *)
Unlisted(d, found) ==
    {m.id : m \in {x \in d.models : /\ Folder[x.file] \in DOMAIN found
                                    /\ x.file \notin UNION {found[r] : r \in DOMAIN found}}}

SyncPerRoot(d, found) ==
    LET gone == {m.id : m \in {x \in d.models : ~Exists(x.file)}}
    IN WithRows(WithoutModels(d, gone \cup Unlisted(d, found)),
                UNION {found[r] : r \in DOMAIN found})

(* What the pages show: a profile whose model or engine is gone is not   *)
(* among them.                                                            *)
ListAllProfiles(d) ==
    {[profile |-> p, file |-> FileOf(d, p.model)] :
        p \in {q \in d.profiles : q.model \in Models(d) /\ q.engine \in d.engines}}
Refreshed(d) == [ui EXCEPT !.home = ListAllProfiles(d), !.dirs = d.dirs]

(* A library of earlier days: every folder was imported, no profile is    *)
(* saved yet.                                                             *)
LibraryInit ==
    /\ disk = [content |-> [f \in File |-> "good"], folder |-> [r \in Root |-> "open"]]
    /\ db = WithRows([dirs |-> Root, models |-> {}, profiles |-> {}, recents |-> {}, engines |-> Engine,
                      nextModel |-> 1, nextProfile |-> 1], File)
    /\ sync = [s \in Sync |-> NoSync] /\ import = NoImport
    /\ ui = [home |-> {}, dirs |-> Root, form |-> None, run |-> NoRun]
    /\ used \in [syncs : {0}, edits : {0}, changes : {0}, mix : Mixes]

(* Files appear, break and go, and a folder is unmounted or loses its    *)
(* read permission, at any time.                                          *)
Disturbed(files) == [s \in Sync |-> [sync[s] EXCEPT !.steady = @ \ files, !.still = FALSE]]
Moved(new, files) ==
    /\ used.changes < used.mix.changes /\ used' = [used EXCEPT !.changes = @ + 1]
    /\ disk' = new /\ disk # new /\ sync' = Disturbed(files)
    /\ UNCHANGED <<db, import, ui>>
FileChanges(f) == \E c \in {"absent", "bad", "good"} : Moved([disk EXCEPT !.content[f] = c], {f})
FolderChanges(r) ==
    \E c \in {"open", "locked", "gone"} :
        Moved([disk EXCEPT !.folder[r] = c], IF c = "gone" THEN {f \in File : Folder[f] = r} ELSE {})

----------------------------------------------------------------------------
(* The interface is one loop: a browsed import runs in it, the download    *)
(* wizard and the profile form take the keys while they are open.          *)
Looping == import.page # "browse"
Free == import.page \in {"none", "closed"} /\ ui.form = None
Edit(op) ==
    op \in used.mix.ops /\ used.edits < used.mix.edits /\ used' = [used EXCEPT !.edits = @ + 1]

StartSync(s) ==
    /\ Free /\ ui.dirs # {} /\ sync[s].at = "idle"
    /\ used.syncs < used.mix.syncs /\ used' = [used EXCEPT !.syncs = @ + 1]
    /\ sync' = [sync EXCEPT ![s] = [at |-> "listing", todo |-> ui.dirs, found |-> <<>>, dirs |-> ui.dirs,
                                   steady |-> {f \in File : Readable(f)}, still |-> TRUE]]
    /\ UNCHANGED <<disk, db, import, ui>>

With(found, r, files) == [q \in DOMAIN found \cup {r} |-> IF q = r THEN files ELSE found[q]]
WithFailedRoots(found, r) == With(found, r, IF disk.folder[r] = "open" THEN Listed(r) ELSE {})

(* A folder that cannot be listed is reported and not in the results.      *)
WithListed(found, r) ==
    IF disk.folder[r] = "open" THEN With(found, r, Listed(r)) ELSE found

ScanRoot(s, r) ==
    /\ sync[s].at = "listing" /\ r \in sync[s].todo
    /\ LET todo == sync[s].todo \ {r}
           found == WithListed(sync[s].found, r)
       IN sync' = [sync EXCEPT ![s].found = found,
                       ![s].at = IF todo = {} THEN "loading" ELSE @,
                       ![s].todo = IF todo = {} THEN DOMAIN found ELSE todo]
    /\ UNCHANGED <<disk, db, import, ui, used>>

LoadMetadata(s, r) ==
    /\ sync[s].at = "loading" /\ r \in sync[s].todo
    /\ sync' = [sync EXCEPT ![s].todo = @ \ {r}, ![s].found[r] = {f \in @ : Readable(f)}]
    /\ UNCHANGED <<disk, db, import, ui, used>>

ApplySync(s) ==
    /\ sync[s].at = "loading" /\ sync[s].todo = {}
    /\ \/ /\ db' = SyncPerRoot(db, sync[s].found)
          /\ sync' = [sync EXCEPT ![s] = [NoSync EXCEPT !.at = "done"]]
       \/ db' = db /\ sync' = [sync EXCEPT ![s] = [NoSync EXCEPT !.at = "failed"]]
    /\ UNCHANGED <<disk, import, ui, used>>

(* The pages are built anew after a sync, an open download wizard too.     *)
SyncDone(s) ==
    /\ Looping /\ sync[s].at \in {"done", "failed"}
    /\ sync' = [sync EXCEPT ![s] = NoSync]
    /\ IF sync[s].at = "failed" THEN UNCHANGED <<ui, import>>
       ELSE ui' = Refreshed(db) /\ import' = Unwatched
    /\ UNCHANGED <<disk, db, used>>

----------------------------------------------------------------------------
(* ImportPath of a folder or of one file, and ImportDownloaded, which      *)
(* writes where the models came from after them.                           *)
Browse(r, files) ==
    /\ Free /\ import.at = "idle" /\ Edit("import")
    /\ disk.folder[r] = "open" /\ files \in {Listed(r)} \cup {{f} : f \in Listed(r)}
    /\ import' = [at |-> "adding", root |-> r, todo |-> files, kept |-> {}, source |-> None, page |-> "browse"]
    /\ UNCHANGED <<disk, db, sync, ui>>

Download(r, f, repo) ==
    /\ Free /\ import.at = "idle" /\ Edit("import")
    /\ disk.folder[r] = "open" /\ Folder[f] = r /\ disk.content[f] = "absent"
    /\ disk' = [disk EXCEPT !.content[f] = "good"] /\ sync' = Disturbed({})
    /\ import' = [at |-> "adding", root |-> r, todo |-> Listed(r) \cup {f}, kept |-> {},
                  source |-> repo, page |-> "wizard"]
    /\ UNCHANGED <<db, ui>>

Onward(i) ==
    IF i.todo # {} THEN i
    ELSE IF i.at = "adding" /\ i.source # None /\ i.kept # {}
    THEN [i EXCEPT !.at = "sourcing", !.todo = i.kept, !.kept = {}]
    ELSE [NoImport EXCEPT !.at = "done", !.page = i.page]

RegisterDir ==
    /\ import.at = "adding" /\ import.root # None
    /\ \/ /\ db' = [db EXCEPT !.dirs = @ \cup {import.root}]
          /\ import' = Onward([import EXCEPT !.root = None])
       \/ db' = db /\ import' = [NoImport EXCEPT !.at = "failed", !.page = import.page]
    /\ UNCHANGED <<disk, sync, ui, used>>

(* A model whose metadata or row fails is an issue of the import.          *)
AddModel(f) ==
    /\ import.at = "adding" /\ import.root = None /\ f \in import.todo
    /\ \/ /\ Readable(f) /\ db' = UpsertModel(db, f, None)
          /\ import' = Onward([import EXCEPT !.todo = @ \ {f}, !.kept = @ \cup {f}])
       \/ db' = db /\ import' = Onward([import EXCEPT !.todo = @ \ {f}])
    /\ UNCHANGED <<disk, sync, ui, used>>

AddSource(f) ==
    /\ import.at = "sourcing" /\ f \in import.todo
    /\ db' \in {UpsertModel(db, f, import.source), db}
    /\ import' = Onward([import EXCEPT !.todo = @ \ {f}])
    /\ UNCHANGED <<disk, sync, ui, used>>

ImportDone ==
    /\ import.at \in {"done", "failed"} /\ import.page # "wizard"
    /\ ui' = IF import.page = "browse" /\ import.at = "done" THEN Refreshed(db) ELSE ui
    /\ import' = NoImport
    /\ UNCHANGED <<disk, db, sync, used>>

(* Closing the wizard does not stop an import that has begun.              *)
CloseWizard ==
    /\ import.page = "wizard" /\ ui' = Refreshed(db)
    /\ import' = IF import.at \in {"done", "failed"} THEN NoImport ELSE Unwatched
    /\ UNCHANGED <<disk, db, sync, used>>

----------------------------------------------------------------------------
RemoveFolder(r) ==
    /\ Free /\ Edit("folder") /\ r \in ui.dirs
    /\ db' = RemoveScanDir(db, r)
    /\ ui' = Refreshed(db') /\ UNCHANGED <<disk, sync, import>>

ChangeEngines(e) ==
    /\ Free /\ Edit("engine")
    /\ db' = IF e \in db.engines THEN DeleteEngine(db, e) ELSE [db EXCEPT !.engines = @ \cup {e}]
    /\ ui' = Refreshed(db') /\ UNCHANGED <<disk, sync, import>>

(* The form keeps the model, the drafts and the engines of its opening.    *)
OpenForm(id) ==
    /\ Free /\ Edit("profile") /\ id \in Models(db)
    /\ \E e \in db.engines : Kind[e] = Kind[FileOf(db, id)]
    /\ ui' = [ui EXCEPT !.form = [model |-> id, drafts |-> Models(db) \ {id},
                   engines |-> {e \in db.engines : Kind[e] = Kind[FileOf(db, id)]}]]
    /\ UNCHANGED <<disk, db, sync, import>>

CloseForm ==
    /\ Looping /\ ui.form # None /\ ui' = [ui EXCEPT !.form = None]
    /\ UNCHANGED <<disk, db, sync, import, used>>

(* A speculative profile needs a draft that is in the registry and runs on *)
(* the same engine; after its model is deleted the draft is NULL.          *)
DraftResolved(d, p) ==
    p.drafts => /\ p.draft \in Models(d) \ {p.model}
                /\ Kind[FileOf(d, p.draft)] = Kind[p.engine]

(* A model that is gone passes the validation, and its foreign key fails.  *)
SaveProfile(name, e, draft) ==
    LET form == ui.form
        p == [id |-> None, model |-> form.model, name |-> name, engine |-> e, drafts |-> draft # None,
              draft |-> draft, with |-> IF draft # None THEN FileOf(db, draft) ELSE None]
    IN /\ Looping /\ form # None /\ e \in form.engines /\ draft \in form.drafts \cup {None}
       /\ form.model \in Models(db) /\ draft \in Models(db) \cup {None} /\ DraftResolved(db, p)
       /\ db.nextProfile <= MaxProfiles
       /\ db' = UpsertProfile(db, p)
       /\ ui' = [Refreshed(db') EXCEPT !.form = None]
       /\ UNCHANGED <<disk, sync, import, used>>

DeleteProfile(entry) ==
    /\ Free /\ Edit("profile") /\ ~(ui.run.up /\ ui.run.entry.profile.id = entry.profile.id)
    /\ db' = WithoutProfiles(db, {entry.profile.id})
    /\ ui' = Refreshed(db') /\ UNCHANGED <<disk, sync, import>>

(* BuildRunSpec works on the entry shown, or kept by the run, and reads    *)
(* only the engine and the draft again.                                    *)
BuildRunSpec(entry) ==
    entry.profile.engine \in db.engines /\ DraftResolved(db, entry.profile)

LaunchEntry(entry) ==
    /\ Free /\ Edit("run") /\ ~ui.run.up /\ BuildRunSpec(entry)
    /\ db' = IF entry.profile.id \in Profiles(db)
             THEN [db EXCEPT !.recents = @ \cup {entry.profile.id}] ELSE db
    /\ ui' = [Refreshed(db') EXCEPT !.run = [entry |-> entry, up |-> TRUE]]
    /\ UNCHANGED <<disk, sync, import>>

RunEnds ==
    /\ Looping /\ ui.run.up /\ ui' = [ui EXCEPT !.run.up = FALSE]
    /\ UNCHANGED <<disk, db, sync, import, used>>

RestartRun ==
    /\ Free /\ Edit("run") /\ ~ui.run.up /\ ui.run.entry # None /\ BuildRunSpec(ui.run.entry)
    /\ ui' = [ui EXCEPT !.run.up = TRUE]
    /\ UNCHANGED <<disk, db, sync, import>>

(* infai is killed, or quits with what is under way, and starts again.     *)
StartAgain ==
    /\ Edit("kill") /\ sync' = [s \in Sync |-> NoSync] /\ import' = NoImport
    /\ ui' = [Refreshed(db) EXCEPT !.form = None, !.run = NoRun]
    /\ UNCHANGED <<disk, db>>

Background ==
    \/ \E s \in Sync : ApplySync(s) \/ SyncDone(s)
    \/ \E s \in Sync, r \in Root : ScanRoot(s, r) \/ LoadMetadata(s, r)
    \/ RegisterDir \/ ImportDone
    \/ \E f \in File : AddModel(f) \/ AddSource(f)

LibraryNext ==
    /\ \/ Background
       \/ \E s \in Sync : StartSync(s)
       \/ \E r \in Root : RemoveFolder(r) \/ FolderChanges(r)
       \/ \E r \in Root, files \in SUBSET File : Browse(r, files)
       \/ \E r \in Root, f \in File, repo \in Repo : Download(r, f, repo)
       \/ \E f \in File : FileChanges(f)
       \/ \E e \in Engine : ChangeEngines(e)
       \/ \E id \in Models(db) : OpenForm(id)
       \/ \E name \in Name, e \in Engine, draft \in Models(db) \cup {None} : SaveProfile(name, e, draft)
       \/ \E entry \in ui.home : DeleteProfile(entry) \/ LaunchEntry(entry)
       \/ CloseWizard \/ CloseForm \/ RunEnds \/ RestartRun \/ StartAgain
    /\ db'.nextModel <= MaxModels + 1

LibrarySpec == LibraryInit /\ [][LibraryNext]_libraryVars

----------------------------------------------------------------------------
Applies(s) == sync[s].at = "loading" /\ sync'[s].at = "done"
Rows(d, r) == {m.file : m \in {x \in d.models : Folder[x.file] = r}}

(* A model whose file stayed readable from the start of a sync to its end  *)
(* keeps its row, and with it its id and its profiles, whatever folders     *)
(* could not be listed and whatever came and went beside it.               *)
SteadyKept == [][\A s \in Sync : Applies(s) =>
    \A m \in db.models : m.file \in sync[s].steady => m \in db'.models]_libraryVars

(* When the disk stood still during a sync, the folders that could be      *)
(* listed have exactly their readable files as models after it, whatever   *)
(* imports, removals and other syncs did meanwhile.                        *)
SyncReflectsDisk == [][\A s \in Sync : Applies(s) /\ sync[s].still =>
    \A r \in DOMAIN sync[s].found : Rows(db', r) = {f \in File : Folder[f] = r /\ Readable(f)}]_libraryVars

(* Where a model was downloaded from is never forgotten while its row      *)
(* lives, though scans and imports know nothing of it.                     *)
SourceKept == [][\A m \in db.models, n \in db'.models :
    m.id = n.id /\ m.source # None => n.source # None]_libraryVars

(* No profile is left with an engine that is gone, where no page would     *)
(* show it: there is no foreign key for engines.                           *)
EnginesKept == \A p \in db.profiles : p.engine \in db.engines

(* What is launched or restarted from an entry read long ago runs on an    *)
(* engine that is still there and drafts with the file that was chosen     *)
(* when the profile was saved.                                             *)
LaunchedAsSaved == [][ui'.run.up /\ ~ui.run.up =>
    LET p == ui'.run.entry.profile IN
    /\ p.engine \in db.engines
    /\ p.drafts => p.draft \in Models(db) /\ FileOf(db, p.draft) = p.with]_libraryVars

(* What a person chose is kept through scans, imports and downloads: the   *)
(* rows of files that were there when a sync began and stayed (one that is *)
(* imported while it is under way is not: its row is deleted), where they  *)
(* came from, the engines of profiles and what a launch takes.             *)
RowsKept == SteadyKept /\ SourceKept /\ []EnginesKept /\ LaunchedAsSaved
=============================================================================
