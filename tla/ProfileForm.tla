--------------------------- MODULE ProfileForm ---------------------------
(* The profile editor of infai: the form a profile is made or changed in    *)
(* (internal/tui/profileedit.go), the screens around it and the messages     *)
(* the loop of the interface handles for it (internal/tui/app.go), and the    *)
(* saving and launching behind it (internal/backend/service.go).  A           *)
(* suggestion is computed on a goroutine of its own and its message is        *)
(* handled whenever it comes, whatever the user did meanwhile; a sync of the   *)
(* library changes the models under the form.                                *)
EXTENDS ProfileRules

CONSTANTS Library,     \* the model entries of the start
          Saved,       \* the profiles it may hold at the start, in sets
          Engines, EngineKind, \* of each kind its engines in their order, of each engine its kind
          Hardware, Overhead, \* what a look at the machine may find
          Typed,       \* of each text field: what may be typed into it
          Mixes        \* bounds: which fields are edited, and how many requests, acts
                       \* (openings, edits, deletions) and changes of the library there are

VARIABLES db,      \* [entries, profiles, next]
          screen,  \* "home", "picker" or "form"
          form,    \* the editor, or None
          asks,    \* the suggestions under way
          saving,  \* the profiles on their way to the handler of the save
          used     \* [asks, acts, changes, mix]
editorVars == <<db, screen, form, asks, saving, used>>

Ids(entries) == {e.id : e \in entries}
Offered(entry) == Engines[entry.kind]
KindOf(v) == EngineKind[v.engine]

(* The extra flags are a text, read as words.                                *)
Text(x) == x = None \/ x \in [words : Seq(ToSet(x.words)), closed : BOOLEAN]

(* A row of the table of profiles, as the editor leaves it.                  *)
Row(p) ==
    /\ p \in [id : {p.id}, model : {p.model}, engine : DOMAIN EngineKind, name : {p.name}, port : {p.port},
              context : Nat \ {0}, ngl : {p.ngl}, batch : {p.batch}, cache : {p.cache}, mmproj : BOOLEAN,
              mode : {p.mode}, tokens : {p.tokens}, draft : {p.draft}, extra : {p.extra}, util : {p.util},
              prefix : BOOLEAN]
    /\ p.name # None /\ p.ngl # None /\ p.batch # Bad /\ Text(p.extra)
    /\ Digits(p.port) /\ p.port >= 1 /\ p.port <= 65535
    /\ IF p.mode = "off" THEN p.tokens = None ELSE p.tokens # Bad
    /\ ~Drafts(p.mode) => p.draft = None
    /\ IF EngineKind[p.engine] = "vllm"
       THEN p.util # Bad /\ (p.util # None => p.util > 0 /\ p.util <= Hundredths)
       ELSE p.util = None /\ ~p.prefix

(* Its model is in the list and runs on its engine, and so is its draft.      *)
Refers(p, entries) ==
    /\ p.mode # "off" => p.tokens # None
    /\ \E e \in entries : e.id = p.model /\ e.kind = EngineKind[p.engine]
    /\ p.draft # None =>
          p.draft # p.model /\ \E e \in entries : e.id = p.draft /\ e.kind = EngineKind[p.engine]

Valid(p, entries) ==
    ValidateProfile(p, Entry(entries, p.model), Entry(entries, p.draft), EngineKind[p.engine]) = {}

Kinds == {"llamacpp", "vllm"}
ASSUME FormAssumption ==
    /\ K \in Nat \ {0} /\ Automatic # None /\ {Automatic, Bad, None} \cap Nat = {}
    /\ \A kind \in Kinds : Engines[kind] \in Seq({e \in DOMAIN EngineKind : EngineKind[e] = kind})
    /\ \A e \in DOMAIN EngineKind : EngineKind[e] \in Kinds /\ e \in ToSet(Engines[EngineKind[e]])
    /\ \A e \in Library :
          /\ e \in [id : {e.id}, kind : Kinds, vision : BOOLEAN, meta : {e.meta}]
          /\ e.meta # None => e.meta.context \in Nat
          /\ e # None /\ [e EXCEPT !.vision = FALSE] # None
          /\ \A f \in Library : f.id = e.id => f = e
    /\ \A ps \in Saved : \A p \in ps : Row(p) /\ Refers(p, Library) /\ Valid(p, Library)
    /\ DOMAIN Typed \subseteq ToSet(Fields) \ (Selects \cup Flags)
    /\ "context" \in DOMAIN Typed => Typed["context"] \subseteq Nat \cup {Automatic, Bad, None}
    /\ "extra" \in DOMAIN Typed => \A x \in Typed["extra"] : Text(x)
    /\ Mixes \subseteq [fields : SUBSET ToSet(Fields), asks : Nat, acts : Nat, changes : Nat]

Form(entry, entries, editing, values) ==
    [entry |-> entry, entries |-> entries, editing |-> editing, values |-> values, initial |-> values,
     focus |-> 1, advanced |-> FALSE, loading |-> FALSE, advice |-> None,
     acknowledged |-> FALSE, discard |-> FALSE]

EditForm(p, entry, entries) ==
    Form(entry, entries, p.id, Opened(p, entry, Offered(entry), DraftOptions(entry, entries, entry.kind)))

Ask(entry, engine) == [n |-> used.asks + 1, entry |-> entry, engine |-> engine]

EditorInit ==
    /\ \E ps \in Saved : db = [entries |-> Library, profiles |-> ps, next |-> Cardinality(ps) + 1]
    /\ screen = "home" /\ form = None /\ asks = {} /\ saving = {}
    /\ used \in [asks : {0}, acts : {0}, changes : {0}, mix : Mixes]

----------------------------------------------------------------------------
(* A sync removes a model, with its profiles, or its file of vision.         *)
Removed(entry) ==
    [db EXCEPT !.entries = @ \ {entry},
        !.profiles = {[p EXCEPT !.draft = IF @ = entry.id THEN None ELSE @] :
                          p \in {q \in @ : q.model # entry.id}}]
Blinded(entry) == [db EXCEPT !.entries = (@ \ {entry}) \cup {[entry EXCEPT !.vision = FALSE]}]

LibraryChanges(entry) ==
    /\ used.changes < used.mix.changes /\ used' = [used EXCEPT !.changes = @ + 1]
    /\ db' \in {Removed(entry), Blinded(entry)} \ {db}
    /\ UNCHANGED <<screen, form, asks, saving>>

(* The list of profiles, and the list of models a new one is for.            *)
NewProfile ==
    /\ screen = "home" /\ db.entries # {} /\ screen' = "picker"
    /\ UNCHANGED <<db, form, asks, saving, used>>

LeavePicker ==
    /\ screen = "picker" /\ screen' = "home"
    /\ UNCHANGED <<db, form, asks, saving, used>>

Pick(entry) ==
    /\ screen = "picker" /\ used.asks < used.mix.asks /\ used.acts < used.mix.acts
    /\ IF Offered(entry) = <<>>
       THEN screen' = "home" /\ UNCHANGED <<form, asks, used>>
       ELSE /\ screen' = "form"
            /\ form' = [Form(entry, db.entries, 0, Defaults(Offered(entry))) EXCEPT !.loading = TRUE]
            /\ asks' = asks \cup {Ask(entry, Head(Offered(entry)))}
            /\ used' = [used EXCEPT !.asks = @ + 1, !.acts = @ + 1]
    /\ UNCHANGED <<db, saving>>

EditProfile(p) ==
    /\ screen = "home" /\ used.acts < used.mix.acts /\ p.model \in Ids(db.entries)
    /\ LET entry == Entry(db.entries, p.model) IN
       /\ Offered(entry) # <<>>
       /\ form' = EditForm(p, entry, db.entries)
    /\ screen' = "form" /\ used' = [used EXCEPT !.acts = @ + 1]
    /\ UNCHANGED <<db, asks, saving>>

DeleteProfile(p) ==
    /\ screen = "home" /\ used.acts < used.mix.acts
    /\ db' = [db EXCEPT !.profiles = @ \ {p}] /\ used' = [used EXCEPT !.acts = @ + 1]
    /\ UNCHANGED <<screen, form, asks, saving>>

----------------------------------------------------------------------------
(* Keys.  Whatever changes the engine of a new profile asks for another       *)
(* suggestion; the dialog over unsaved edits takes every key.                *)
Asking == screen = "form" /\ ~form.discard
Field == Fields[form.focus]
Editing(new) ==
    /\ Asking /\ used.acts < used.mix.acts /\ Field \in used.mix.fields /\ new # form
    /\ IF form.editing = 0 /\ new.values.engine # form.values.engine
       THEN /\ used.asks < used.mix.asks
            /\ form' = [new EXCEPT !.loading = TRUE]
            /\ asks' = asks \cup {Ask(form.entry, new.values.engine)}
            /\ used' = [used EXCEPT !.acts = @ + 1, !.asks = @ + 1]
       ELSE form' = new /\ used' = [used EXCEPT !.acts = @ + 1] /\ UNCHANGED asks
    /\ UNCHANGED <<db, screen, saving>>

Disabled == Field = "mmproj" /\ ~form.entry.vision

(* Up and down, over the fields that are hidden, until the one to edit.       *)
MoveFocus(to) ==
    /\ Asking /\ used.acts < used.mix.acts /\ Fields[to] \in used.mix.fields
    /\ FieldVisible(Fields[to], form.values, KindOf(form.values), form.advanced)
    /\ form' = [form EXCEPT !.focus = to]
    /\ UNCHANGED <<db, screen, asks, saving, used>>

ShowAdvanced ==
    /\ Asking /\ used.acts < used.mix.acts
    /\ form' = [form EXCEPT !.advanced = ~@]
    /\ UNCHANGED <<db, screen, asks, saving, used>>

Type(text) == Field \notin Selects \cup Flags /\ Editing([form EXCEPT !.values[Field] = text])
Flip == Field \in Flags /\ ~Disabled /\ Editing([form EXCEPT !.values[Field] = ~@])

OptionsOf(field) ==
    CASE field = "engine" -> Offered(form.entry)
      [] field = "unit" -> <<1, K, M>>
      [] field = "cache" -> <<None, "f32", "f16", "q8_0", "q4_0", "q5_0">>
      [] field = "mode" -> <<"off", "native", "draft", "assistant">>
      [] field = "draft" -> <<None>> \o SetToSeq(DraftOptions(form.entry, form.entries, form.entry.kind))

Turn(delta) ==
    /\ Field \in Selects
    /\ LET options == OptionsOf(Field)
           at == CHOOSE i \in DOMAIN options : options[i] = form.values[Field]
       IN Editing([form EXCEPT !.values[Field] =
                      options[((at - 1 + Len(options) + delta) % Len(options)) + 1]])

Leaves == screen' = "home" /\ form' = None
Esc ==
    /\ Asking
    /\ IF form.values # form.initial
       THEN form' = [form EXCEPT !.discard = TRUE] /\ UNCHANGED screen
       ELSE Leaves
    /\ UNCHANGED <<db, asks, saving, used>>

Discard(yes) ==
    /\ screen = "form" /\ form.discard
    /\ IF yes THEN Leaves ELSE form' = [form EXCEPT !.discard = FALSE] /\ UNCHANGED screen
    /\ UNCHANGED <<db, asks, saving, used>>

Review ==
    /\ form.advice # None /\ NeedsReview(form.advice.fit) /\ ~form.acknowledged

CtrlS ==
    /\ Asking /\ ~form.loading
    /\ IF Review
       THEN /\ form' = [form EXCEPT !.acknowledged = TRUE]
            /\ UNCHANGED saving
       ELSE /\ Complete(form.values, KindOf(form.values))
            /\ saving' = saving \cup
                 {ToProfile(form.values, form.editing, form.entry.id, KindOf(form.values))}
            /\ UNCHANGED form
    /\ UNCHANGED <<db, screen, asks, used>>

----------------------------------------------------------------------------
(* Messages.                                                                 *)
Advised(a, s, hw) ==
    [EditForm(s.draft, a.entry, form.entries) EXCEPT
        !.advice = [n |-> a.n, engine |-> a.engine, fit |-> s.fit, context |-> s.draft.context, hw |-> hw]]

Unadvised == [form EXCEPT !.loading = FALSE]

(* Of every request there can be: what the entry sees with is not asked.      *)
Suggestions ==
    [id \in Ids(Library) |-> [engine \in DOMAIN EngineKind |-> [hw \in Hardware |->
        SuggestProfile(Entry(Library, id), engine, EngineKind[engine], hw, Overhead)]]]

Awaits(a) == screen = "form" /\ form.entry.id = a.entry.id /\ form.values.engine = a.engine

SuggestionAnswer(n) ==
    \E a \in asks, hw \in Hardware :
        /\ a.n = n /\ asks' = asks \ {a}
        /\ IF Awaits(a)
           THEN LET s == Suggestions[a.entry.id][a.engine][hw] IN
                form' = IF s = None THEN Unadvised ELSE Advised(a, s, hw)
           ELSE form' = form
        /\ UNCHANGED <<db, screen, saving, used>>

Upserted(p) ==
    LET same == {q \in db.profiles : q.model = p.model /\ q.name = p.name} IN
    IF same # {}
    THEN [db EXCEPT !.profiles = (@ \ same) \cup {[p EXCEPT !.id = q.id] : q \in same}]
    ELSE [db EXCEPT !.profiles = @ \cup {[p EXCEPT !.id = db.next]}, !.next = @ + 1]

(* SaveProfile: a refusal stays on the form, a saved profile ends it.         *)
Save(p) ==
    /\ p \in saving /\ saving' = saving \ {p}
    /\ IF /\ ValidateProfile(p, Entry(db.entries, p.model), Entry(db.entries, p.draft), EngineKind[p.engine]) = {}
          /\ p.model \in Ids(db.entries)
       THEN db' = Upserted(p) /\ Leaves
       ELSE UNCHANGED <<db, screen, form>>
    /\ UNCHANGED <<asks, used>>

EditorNext ==
    \/ \E entry \in db.entries : LibraryChanges(entry) \/ Pick(entry)
    \/ \E p \in db.profiles : EditProfile(p) \/ DeleteProfile(p)
    \/ \E n \in 1 .. used.asks : SuggestionAnswer(n)
    \/ \E p \in saving : Save(p)
    \/ NewProfile \/ LeavePicker
    \/ /\ form # None
       /\ \/ \E to \in DOMAIN Fields : MoveFocus(to)
          \/ \E delta \in {1, -1} : Turn(delta)
          \/ Field \in DOMAIN Typed /\ \E text \in Typed[Field] : Type(text)
          \/ ShowAdvanced \/ Flip \/ Esc \/ CtrlS
          \/ \E yes \in BOOLEAN : Discard(yes)

(* The goroutine of every suggestion ends, and its message is handled.        *)
MaxAsks == Max({mix.asks : mix \in Mixes})
EditorSpec ==
    /\ EditorInit /\ [][EditorNext]_editorVars
    /\ \A n \in 1 .. MaxAsks : WF_editorVars(SuggestionAnswer(n))

----------------------------------------------------------------------------
(* BuildRunSpec: the profile is checked again before its command is made.      *)
EntryOf(p) == Entry(db.entries, p.model)
Launched(p) ==
    LET draft == IF UsesDraft(p.mode) THEN Entry(db.entries, p.draft) ELSE None
        kind == EngineKind[p.engine]
    IN IF ValidateProfile(p, EntryOf(p), draft, kind) # {} THEN <<>>
       ELSE BuildSpec(p, EntryOf(p), draft, kind)

(* A profile that is opened and saved untouched is saved as it was, unless    *)
(* the file it is to see with is gone: every field of the form says what      *)
(* the profile says, and is read back so.                                    *)
UntouchedSavesSame ==
    \A p \in db.profiles : p.model \in Ids(db.entries) /\ (p.mmproj => EntryOf(p).vision) =>
        LET opened == EditForm(p, EntryOf(p), db.entries) IN
        /\ Complete(opened.values, KindOf(opened.values))
        /\ ToProfile(opened.values, opened.editing, p.model, KindOf(opened.values)) = p

(* What could be saved can be launched as long as no model was removed: only   *)
(* its extra flags are checked no earlier than then.                         *)
Parses(p) == p.extra = None \/ (p.extra.closed /\ ~RejectManagedFlags(p.extra.words, EngineKind[p.engine]))
SavedLaunches ==
    Ids(db.entries) = Ids(Library) => \A p \in db.profiles : Parses(p) => Launched(p) # <<>>

(* Whatever was typed into a profile, its command line names no option that   *)
(* the profile manages twice.                                                *)
ManagedOnce ==
    \A p \in db.profiles :
        \A flag \in Managed(EngineKind[p.engine]) :
            Cardinality({i \in DOMAIN Launched(p) : Launched(p)[i] = flag}) <= 1

(* A saved profile comes back as it is from the form and from the launcher.   *)
ProfilesHold == UntouchedSavesSame /\ SavedLaunches /\ ManagedOnce

(* A suggestion shown is the largest of the contexts that fit what the         *)
(* machine had at the time, and when none fits the one that asks for least.    *)
BestContext ==
    form # None /\ form.advice # None =>
        LET kind == form.entry.kind
            best == form.advice.context
            fit == [c \in SuggestionContexts(form.entry) |->
                       Estimate(form.entry, kind, Suggested(form.entry, form.advice.engine, kind, c),
                                form.advice.hw, Overhead).fit]
        IN IF fit[best] = "does_not_fit"
           THEN \A c \in DOMAIN fit : fit[c] = "does_not_fit" /\ c >= best
           ELSE \A c \in DOMAIN fit : c > best => fit[c] = "does_not_fit"

=============================================================================
