-------------------------- MODULE ProfileRules --------------------------
(* What infai computes about a profile, without any state: the estimate of *)
(* the memory it takes (internal/memoryfit), the profile it suggests and    *)
(* the checks of one that is saved or launched (internal/backend), the      *)
(* command line of a launch (internal/launcher), and the way of a profile    *)
(* into the editor's fields and back (internal/tui/profileedit.go).          *)
(* One field stands for the fields handled alike: "batch" for the optional   *)
(* numbers of llama.cpp, "cache" for its two cache types, "mmproj" for its   *)
(* flags, "util" for the numbers of vLLM, "prefix" for its flags.  Numbers   *)
(* are tokens, bytes and hundredths; the sizes of a model are small.         *)
EXTENDS Naturals, Sequences, FiniteSets, FiniteSetsExt, SequencesExt

CONSTANTS Automatic, Bad, None, \* "auto"; a text that is no number; an empty text, an absent value
          K                \* tokens of a unit of context: 1024, or a smaller power of two

M == K * K
Digits(t) == t \notin {None, Bad, Automatic}

----------------------------------------------------------------------------
(* An entry of the model list is [id, kind, vision, meta]; meta is None or *)
(* [context, layers, full, shared, window, kv, size, params, experts,       *)
(* active, expertBytes, mtp, vocab]: full layers see the whole context, kv    *)
(* is the elements of one token in one layer, size the bytes of the file,     *)
(* params the bytes its parameters take by their quantization.                *)
Hundredths == 100
Ceil(n, d) == (n + d - 1) \div d
Least(a, b) == IF a <= b THEN a ELSE b
Less(a, b) == IF a <= b THEN 0 ELSE a - b

Fails == [fit |-> "unknown", required |-> 0, available |-> 0, confidence |-> "none"]

Some(bytes) == IF bytes = 0 THEN None ELSE bytes

(* The pool of memory: none is chosen of several accelerators.              *)
SelectPool(hw, kind, ngl, util) ==
    CASE hw.count > 1 -> None
      [] hw.count = 1 /\ hw.unified -> Some(hw.ram)
      [] hw.count = 1 /\ ~hw.unified /\ hw.free = 0 -> None
      [] hw.count = 1 /\ ~hw.unified /\ hw.free > 0 /\ kind = "llamacpp" ->
            IF ngl = Automatic THEN hw.free + hw.ram ELSE hw.free
      [] hw.count = 1 /\ ~hw.unified /\ hw.free > 0 /\ kind = "vllm" ->
            LET share == IF util = None THEN 90 ELSE util IN
            IF share > 0 /\ share <= Hundredths THEN Least((hw.vram * share) \div Hundredths, hw.free) ELSE None
      [] hw.count = 0 -> IF kind = "llamacpp" THEN Some(hw.ram) ELSE None

(* With "auto" the experts that are idle stay outside the pool.             *)
WeightBytes(meta, kind, ngl) ==
    IF meta.size = 0 THEN meta.params
    ELSE IF kind = "llamacpp" /\ ngl = Automatic /\ meta.active > 0 /\ meta.active < meta.experts
            /\ meta.expertBytes < meta.size
    THEN meta.size - (meta.expertBytes - ((meta.expertBytes * meta.active) \div meta.experts))
    ELSE meta.size

Eighths(cache) ==
    CASE cache \in {None, "f16"} -> 16 [] cache = "f32" -> 32 [] cache = "q8_0" -> 8
      [] cache = "q4_0" -> 4 [] cache = "q5_0" -> 5

(* A layer with a sliding window keeps no more tokens than the window.      *)
KVCacheBytes(meta, context, eighths) ==
    LET own == Less(meta.layers, meta.shared)
        full == Least(meta.full, own)
        cells == IF meta.window = 0 THEN meta.layers * context
                 ELSE full * context + (own - full) * Least(context, meta.window)
    IN Ceil(meta.kv * cells * eighths, 8)

(* Estimate: 15 hundredths of headroom over everything, tight above 85      *)
(* hundredths of what is available.                                         *)
Estimate(entry, kind, p, hw, overhead) ==
    LET meta == entry.meta
        available == SelectPool(hw, kind, p.ngl, p.util)
        context == IF p.context <= 0 THEN meta.context ELSE Least(p.context, meta.context)
        base == WeightBytes(meta, kind, p.ngl) + overhead
                + KVCacheBytes(meta, context, IF kind = "llamacpp" THEN Eighths(p.cache) ELSE 16)
        required == base + Ceil(base * 15, Hundredths)
    IN IF meta = None THEN Fails
       ELSE IF \/ entry.kind # kind \/ available = None \/ meta.context = 0
               \/ meta.layers = 0 \/ meta.kv = 0 \/ (meta.size = 0 /\ meta.params = 0)
       THEN Fails
       ELSE [fit |-> IF required > available THEN "does_not_fit"
                     ELSE IF required * Hundredths > 85 * available THEN "tight" ELSE "fits",
             required |-> required, available |-> available,
             confidence |-> IF meta.size > 0 THEN "high" ELSE "medium"]

----------------------------------------------------------------------------
(* A profile is [id, model, engine, name, port, context, ngl, batch, cache, *)
(* mmproj, mode, tokens, draft, extra, util, prefix]; extra is the text of  *)
(* the extra flags, read as [words, closed]: words as [flag, joined], with   *)
(* joined for "--flag=value", closed if no quote is left open.               *)
Drafts(mode) == mode \in {"draft", "assistant"}

UsesDraftAlone(mode) == mode = "draft"

UsesDraft(mode) == mode \in {"draft", "assistant"}

Entry(entries, id) == IF \E e \in entries : e.id = id THEN CHOOSE e \in entries : e.id = id ELSE None

Meta(entry) == IF entry = None THEN None ELSE entry.meta
SameVocabulary(a, b) ==
    Meta(a) # None /\ Meta(b) # None =>
        Meta(a).vocab = 0 \/ Meta(b).vocab = 0 \/ Meta(a).vocab = Meta(b).vocab

Issues(field, holds) == IF holds THEN {} ELSE {field}

(* Native decoding asks for layers of the model itself, the other modes for *)
(* another model that runs on the same engine and reads the same vocabulary: *)
(* target and draft are the entries, or None.                                *)
ValidateSpeculative(p, target, draft, kind) ==
    Issues("speculative_tokens", (p.tokens # None => p.tokens > 0) /\ (p.mode = "off" \/ p.tokens # None))
    \cup Issues("speculative_mode", p.mode = "native" => Meta(target) # None /\ Meta(target).mtp > 0)
    \cup Issues("draft_model_id",
             Drafts(p.mode) => p.draft # p.model /\ draft # None /\ draft.kind = kind /\ SameVocabulary(target, draft))

(* ValidateProfile: the errors.  Its warnings stop nothing.                 *)
ValidateProfile(p, target, draft, kind) ==
    ValidateSpeculative(p, target, draft, kind)
    \cup Issues("name", p.name # None)
    \cup Issues("inference_engine", target # None => target.kind = kind)
    \cup Issues("port", p.port >= 1 /\ p.port <= 65535)
    \cup Issues("context_size", p.context > 0)
    \cup Issues("ngl", kind = "llamacpp" => p.ngl # Bad)
    \cup Issues("batch_size", kind = "llamacpp" /\ p.batch # None => p.batch > 0)
    \cup Issues("gpu_memory_utilization",
            kind = "vllm" /\ p.util # None => p.util > 0 /\ p.util <= Hundredths)

Suggested(entry, engine, kind, context) ==
    [id |-> 0, model |-> entry.id, engine |-> engine, name |-> "suggested", port |-> 8000,
     context |-> context, ngl |-> IF kind = "llamacpp" THEN Automatic ELSE None,
     batch |-> IF kind = "llamacpp" THEN 512 ELSE None,
     cache |-> IF kind = "llamacpp" THEN "f16" ELSE None, mmproj |-> FALSE,
     mode |-> "off", tokens |-> None, draft |-> None, extra |-> None,
     util |-> IF kind = "vllm" THEN 85 ELSE None, prefix |-> FALSE]

(* The whole context of the model, and the powers of two from 2K below it.  *)
Powers == {n \in {2 ^ k : k \in 1 .. 24} : n >= 2 * K}
SuggestionContexts(entry) ==
    IF entry.meta = None THEN {}
    ELSE {n \in 1 .. entry.meta.context : n = entry.meta.context \/ n \in Powers}

SuggestFirstFit(of) ==
    LET fitting == {c \in DOMAIN of : of[c].fit = "fits"} IN
    IF fitting # {} THEN Max(fitting) ELSE Min(DOMAIN of)

(* The largest context that fits, if only just; else the least demanding.   *)
Select(of) ==
    LET fitting == {c \in DOMAIN of : of[c].fit # "does_not_fit"} IN
    IF fitting # {} THEN Max(fitting) ELSE Min(DOMAIN of)

(* SuggestProfile: None is an error.                                        *)
SuggestProfile(entry, engine, kind, hw, overhead) ==
    LET Draft(c) == Suggested(entry, engine, kind, c)
        of == [c \in SuggestionContexts(entry) |-> Estimate(entry, kind, Draft(c), hw, overhead)]
        usable == {c \in DOMAIN of : of[c] # Fails /\ ValidateProfile(Draft(c), entry, None, kind) = {}}
        context == Select([c \in usable |-> of[c]])
    IN IF usable = {} THEN None ELSE [draft |-> Draft(context), fit |-> of[context]]

NeedsReview(fit) == fit.confidence = "medium" \/ fit.fit \in {"tight", "does_not_fit"}

----------------------------------------------------------------------------
(* The command line, as the flags in their order.                           *)
Managed(kind) ==
    IF kind = "llamacpp" THEN {"--port", "-c", "-ngl", "-b", "--cache-type-k", "--mmproj", "--metrics",
                               "--spec-type", "--spec-draft-model", "--spec-draft-n-max"}
    ELSE {"--port", "--max-model-len", "--gpu-memory-utilization", "--enable-prefix-caching",
          "--speculative-config"}

When(condition, flag) == IF condition THEN <<flag>> ELSE <<>>

OwnFlags(p, entry, kind) ==
    IF kind = "llamacpp"
    THEN When(p.mmproj /\ entry.vision, "--mmproj") \o <<"--port", "-c", "-ngl", "--metrics">>
         \o When(p.batch # None, "-b") \o When(p.cache # None, "--cache-type-k")
         \o When(p.mode # "off", "--spec-type") \o When(Drafts(p.mode), "--spec-draft-model")
         \o When(p.mode # "off" /\ p.tokens # None, "--spec-draft-n-max")
    ELSE <<"--port", "--max-model-len">> \o When(p.util # None, "--gpu-memory-utilization")
         \o When(p.prefix, "--enable-prefix-caching") \o When(p.mode # "off", "--speculative-config")

RejectManagedFlags(words, kind) == \E w \in ToSet(words) : w.flag \in Managed(kind)

Words(p) == IF p.extra = None THEN <<>> ELSE p.extra.words

(* BuildSpec: no command line is an error.                                   *)
BuildSpec(p, entry, draft, kind) ==
    IF \/ entry.kind # kind \/ (Drafts(p.mode) /\ draft = None)
       \/ p.extra # None /\ (~p.extra.closed \/ RejectManagedFlags(p.extra.words, kind))
    THEN <<>>
    ELSE OwnFlags(p, entry, kind) \o [i \in DOMAIN Words(p) |-> Words(p)[i].flag]

----------------------------------------------------------------------------
(* The editor.  Its fields in their order, and the option of the catalog     *)
(* each one is: the first with its key, of whatever engine.                  *)
Fields == <<"name", "engine", "port", "context", "unit", "ngl", "batch", "cache", "mmproj",
            "mode", "tokens", "draft", "extra", "util", "prefix">>
Selects == {"engine", "unit", "cache", "mode", "draft"}
Flags == {"mmproj", "prefix"}
Options == << [key |-> "port", engine |-> None, common |-> TRUE],
              [key |-> "context", engine |-> None, common |-> TRUE],
              [key |-> "extra", engine |-> None, common |-> FALSE],
              [key |-> "mode", engine |-> None, common |-> FALSE],
              [key |-> "tokens", engine |-> None, common |-> FALSE],
              [key |-> "draft", engine |-> None, common |-> FALSE],
              [key |-> "ngl", engine |-> "llamacpp", common |-> TRUE],
              [key |-> "batch", engine |-> "llamacpp", common |-> FALSE],
              [key |-> "cache", engine |-> "llamacpp", common |-> FALSE],
              [key |-> "mmproj", engine |-> "llamacpp", common |-> FALSE],
              [key |-> "prefix", engine |-> "llamacpp", common |-> FALSE],
              [key |-> "util", engine |-> "vllm", common |-> TRUE],
              [key |-> "prefix", engine |-> "vllm", common |-> FALSE] >>
OptionOf(field) ==
    LET at == {i \in DOMAIN Options : Options[i].key = field} IN
    IF at = {} THEN None ELSE Options[Min(at)]

FieldVisible(field, v, kind, advanced) ==
    LET option == OptionOf(field) IN
    /\ field = "tokens" => v.mode # "off"
    /\ field = "draft" => Drafts(v.mode)
    /\ option # None => (option.engine \in {None, kind}) /\ (option.common \/ advanced)

DraftOptions(entry, entries, kind) == {e.id : e \in {x \in entries : x.id # entry.id /\ x.kind = kind}}

Defaults(engines) ==
    [name |-> None, engine |-> Head(engines), port |-> 8000, context |-> 64, unit |-> K, ngl |-> Automatic,
     batch |-> None, cache |-> None, mmproj |-> FALSE, mode |-> "off", tokens |-> 1, draft |-> None,
     extra |-> None, util |-> 85, prefix |-> FALSE]

(* NewProfileEditModel on a profile: the context in its largest unit; an     *)
(* engine or a draft that is not offered is replaced by the first one.       *)
Opened(p, entry, engines, drafts) ==
    LET unit == CASE p.context % M = 0 -> M [] p.context % M # 0 /\ p.context % K = 0 -> K
                  [] p.context % K # 0 -> 1
    IN [name |-> p.name, engine |-> IF p.engine \in ToSet(engines) THEN p.engine ELSE Head(engines),
        port |-> p.port, context |-> p.context \div unit, unit |-> unit, ngl |-> p.ngl,
        batch |-> p.batch, cache |-> p.cache, mmproj |-> p.mmproj /\ entry.vision, mode |-> p.mode,
        tokens |-> IF p.tokens = None /\ p.mode # "off" THEN 1 ELSE p.tokens,
        draft |-> IF p.draft \in drafts THEN p.draft ELSE None,
        extra |-> p.extra, util |-> p.util, prefix |-> p.prefix]

(* ToProfile: what it refuses, and what it makes of the rest.               *)
Complete(v, kind) ==
    /\ v.name # None
    /\ v.mode # "off" => v.tokens # Bad
    /\ Digits(v.port) /\ v.port >= 1 /\ v.port <= 65535
    /\ Digits(v.context) /\ v.context > 0
    /\ v.batch # Bad
    /\ kind = "vllm" => v.util # Bad /\ (v.util # None => v.util > 0 /\ v.util <= Hundredths)

ToProfile(v, id, model, kind) ==
    [id |-> id, model |-> model, engine |-> v.engine, name |-> v.name, port |-> v.port,
     context |-> v.context * v.unit, ngl |-> IF v.ngl = None THEN Automatic ELSE v.ngl,
     batch |-> v.batch, cache |-> v.cache, mmproj |-> v.mmproj, mode |-> v.mode,
     tokens |-> IF v.mode = "off" THEN None ELSE v.tokens,
     draft |-> IF Drafts(v.mode) THEN v.draft ELSE None, extra |-> v.extra,
     util |-> IF kind = "vllm" THEN v.util ELSE None, prefix |-> kind = "vllm" /\ v.prefix]
=============================================================================
