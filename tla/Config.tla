---------------------------- MODULE Config ----------------------------
(* What the engine is configured with, and who changes it: the providers *)
(* with their credentials (models.json, engine/provider.go,              *)
(* engine/autostart.go, and the refresh in engine.go), the MCP servers   *)
(* and approval policies (tools.json, engine/mcp.go, engine/policy.go).  *)
(* Requests run on goroutines of the server and meet at the engine's     *)
(* locks.  A credential is a number: the codex provider issues a new one *)
(* at each login and each refresh, and refreshes from each only once.    *)
EXTENDS Naturals

CONSTANTS Provider, Codex, \* managed providers; the one with OAuth tokens
          Session,         \* sessions with a model of Codex
          Server, Policy,  \* names in tools.json
          Client,          \* requests at a time
          MaxCalls,        \* bound: requests in a life
          MaxTokens,       \* bound: tokens issued
          MaxFaults,       \* bound: kills, failed writes and lost answers
          Ops,             \* bound: sets of requests that are made together
          None, Torn

\* The requests that read or change what the engine is configured with.
Op == {"login", "logout", "load", "chat", "manage", "create policy", "delete policy",
       "add", "edit", "remove", "authorize"}

\* What the engine keeps of a managed provider that is logged in.
Credential == [token : Nat, catalog : {1, 2}]

ASSUME ConfigAssumption ==
    /\ Codex \in Provider
    /\ {MaxCalls, MaxTokens, MaxFaults} \subseteq Nat
    /\ None \notin Provider \cup Client \cup Nat \cup Credential /\ Torn # None
    /\ Ops \subseteq SUBSET Op

VARIABLES up,       \* "up", "stopping" (stopCh closed), "down"
          memory,   \* e.providers: None or [token, catalog] of each
          file,     \* models.json: the credentials, or Torn
          web,      \* what is served: tokens [issued, spent, due, lost], catalog
          session,  \* None, or the model client of a session: [token, busy]
          policies, \* e.hitlPolicies, the built-in one left out
          tools,    \* tools.json: [servers, policies]
          told,     \* ghost: what successful answers made of tools.json
          lock,     \* holders of providerMu, toolsConfigMu and e.mu
          call,     \* requests being served
          watch,    \* watchManagedProviderCatalogs: [at, seen, got]
          used      \* [calls, faults, ops] of the bounds
vars == <<up, memory, file, web, session, policies, tools, told, lock, call, watch, used>>
providerVars == <<memory, file, web, session>>
toolVars == <<policies, tools, told>>
restVars == <<up, watch, used>>

Resting == [op |-> "none", of |-> None, at |-> "none", next |-> None]
Asleep == [at |-> "asleep", seen |-> {}, got |-> {}]
Unlocked == [l \in {"providers", "tools", "engine"} |-> None]
Tokens(m) == [p \in Provider |-> IF m[p] = None THEN None ELSE m[p].token]

Free(l) == lock[l] = None
At(c, op, at) == call[c].op = op /\ call[c].at = at
GoTo(c, at, next) == call' = [call EXCEPT ![c].at = at, ![c].next = next]
Take(c, l) == lock' = [lock EXCEPT ![l] = c]
Released(c) == [l \in DOMAIN lock |-> IF lock[l] = c THEN None ELSE lock[l]]
Answered(c) == call' = [call EXCEPT ![c] = Resting] /\ lock' = Released(c)
Fault == used.faults < MaxFaults /\ used' = [used EXCEPT !.faults = @ + 1]

(* Nobody is logged in, and tools.json does not exist.                   *)
Init ==
    /\ up = "up" /\ memory = [p \in Provider |-> None]
    /\ file = [p \in Provider |-> None]
    /\ web = [issued |-> 0, spent |-> {}, due |-> 0, lost |-> FALSE, catalog |-> 1]
    /\ session = [s \in Session |-> None]
    /\ policies = {}
    /\ tools = [servers |-> [n \in Server |-> None], policies |-> {}]
    /\ told = tools
    /\ lock = Unlocked /\ call = [c \in Client |-> Resting] /\ watch = Asleep
    /\ used \in [calls : {0}, faults : {0}, ops : Ops]

Names(op) ==
    CASE op \in {"login", "logout"} -> Provider
      [] op \in {"load", "chat"} -> Session
      [] op \in {"create policy", "delete policy"} -> Policy
      [] op \in {"add", "edit", "remove", "authorize"} -> Server
      [] op = "manage" -> {None}

Request(c) ==
    /\ up # "down" /\ call[c] = Resting /\ used.calls < MaxCalls
    /\ \E op \in used.ops : \E n \in Names(op) :
          call' = [call EXCEPT ![c] = [op |-> op, of |-> n, at |-> "start", next |-> None]]
    /\ used' = [used EXCEPT !.calls = @ + 1]
    /\ UNCHANGED <<up, lock, watch, providerVars, toolVars>>

(* LoginProvider: refused while another operation has the lock, while    *)
(* stopping and when logged in; it keeps the lock until the browser      *)
(* comes back.                                                           *)
Login(c) ==
    /\ At(c, "login", "start")
    /\ \/ Answered(c)
       \/ /\ Free("providers") /\ up = "up" /\ memory[call[c].of] = None
          /\ Take(c, "providers") /\ GoTo(c, "browser", None)
    /\ UNCHANGED <<providerVars, toolVars, restVars>>

(* The authorization fails or runs out of time, or the catalog cannot be *)
(* fetched.                                                              *)
LoginFailsLocked(c) ==
    /\ call[c].op = "login" /\ call[c].at \in {"browser", "catalog"}
    /\ call' = [call EXCEPT ![c] = Resting]
    /\ UNCHANGED <<lock, providerVars, toolVars, restVars>>

LoginFails(c) ==
    /\ call[c].op = "login" /\ call[c].at \in {"browser", "catalog"} /\ Answered(c)
    /\ UNCHANGED <<providerVars, toolVars, restVars>>

Authenticated(c) ==
    /\ At(c, "login", "browser")
    /\ IF call[c].of = Codex
       THEN /\ web.issued < MaxTokens
            /\ web' = [web EXCEPT !.issued = @ + 1]
            /\ GoTo(c, "catalog", web.issued + 1)
       ELSE UNCHANGED web /\ GoTo(c, "catalog", 0)
    /\ UNCHANGED <<memory, file, session, lock, toolVars, restVars>>

(* persistManagedProvider up to the write.                               *)
WithCatalog(c) ==
    /\ At(c, "login", "catalog") /\ up = "up"
    /\ GoTo(c, "save", [memory EXCEPT ![call[c].of] = [token |-> call[c].next, catalog |-> web.catalog]])
    /\ UNCHANGED <<lock, providerVars, toolVars, restVars>>

Logout(c) ==
    /\ At(c, "logout", "start") /\ Free("providers")
    /\ IF memory[call[c].of] = None
       THEN Answered(c)
       ELSE Take(c, "providers") /\ GoTo(c, "save", [memory EXCEPT ![call[c].of] = None])
    /\ UNCHANGED <<providerVars, toolVars, restVars>>

(* PersistProviders, with os.WriteFile: the file is empty before it is   *)
(* written.  A failure leaves e.providers as they were; a refresh has    *)
(* used up the old token by then.                                        *)
OpenFile(c) ==
    /\ call[c].at = "save" /\ file' = Torn /\ GoTo(c, "write", call[c].next)
    /\ UNCHANGED <<memory, web, session, lock, toolVars, restVars>>

NotSavedAdopted(c) ==
    /\ call[c].at \in {"save", "write"} /\ Fault /\ Answered(c)
    /\ web' = [web EXCEPT !.lost = @ \/ call[c].op = "chat"]
    /\ memory' = call[c].next
    /\ UNCHANGED <<up, file, session, watch, toolVars>>

NotSaved(c) ==
    /\ call[c].at \in {"save", "write"} /\ Fault /\ Answered(c)
    /\ web' = [web EXCEPT !.lost = @ \/ call[c].op = "chat"]
    /\ UNCHANGED <<up, memory, file, session, watch, toolVars>>

Saved(c) ==
    /\ call[c].at = "write" /\ call[c].op # "chat" /\ Answered(c)
    /\ file' = Tokens(call[c].next) /\ memory' = call[c].next
    /\ web' = [web EXCEPT !.lost = @ /\ call[c].of # Codex]
    /\ UNCHANGED <<session, toolVars, restVars>>

(* LoadSession: under e.mu, and LLMProvider waits for providerMu.        *)
Load(c) ==
    /\ At(c, "load", "start")
    /\ IF up = "stopping" THEN Answered(c)
       ELSE Free("engine") /\ Take(c, "engine") /\ GoTo(c, "lookup", None)
    /\ UNCHANGED <<providerVars, toolVars, restVars>>

Lookup(c) ==
    /\ At(c, "load", "lookup") /\ Free("providers") /\ Answered(c)
    /\ session' = IF memory[Codex] = None \/ session[call[c].of] # None \/ up = "stopping"
                  THEN session
                  ELSE [session EXCEPT ![call[c].of] = [token |-> memory[Codex].token, busy |-> FALSE]]
    /\ UNCHANGED <<memory, file, web, toolVars, restVars>>

(* Any other call that takes e.mu: CancelTurn, CloseSession, Session.    *)
Manage(c) ==
    /\ At(c, "manage", "start") /\ Free("engine") /\ Answered(c)
    /\ UNCHANGED <<providerVars, toolVars, restVars>>

(* Chat: a session whose token is about to expire gets the engine's.     *)
Due(t) == t <= web.due

Chat(c) ==
    /\ At(c, "chat", "start")
    /\ LET s == session[call[c].of] IN
         IF s = None \/ up = "stopping" THEN Answered(c)
         ELSE GoTo(c, IF Due(s.token) THEN "stale" ELSE "send", None) /\ UNCHANGED lock
    /\ UNCHANGED <<providerVars, toolVars, restVars>>

(* SetProviderAuth wants an idle session.                                *)
Given(c, t) == session' = [session EXCEPT ![call[c].of].token = t]
Idle(c) == ~session[call[c].of].busy

Refreshed(c) ==
    /\ At(c, "chat", "stale") /\ Free("providers")
    /\ IF memory[Codex] = None THEN Answered(c) /\ UNCHANGED session
       ELSE /\ ~Due(memory[Codex].token)
            /\ IF Idle(c)
               THEN Given(c, memory[Codex].token) /\ GoTo(c, "send", None) /\ UNCHANGED lock
               ELSE Answered(c) /\ UNCHANGED session
    /\ UNCHANGED <<memory, file, web, toolVars, restVars>>

(* RefreshProviderAuth: providerMu is held over the request.             *)
AskProviderUnlocked(c) ==
    /\ At(c, "chat", "stale") /\ Free("providers")
    /\ memory[Codex] # None /\ Due(memory[Codex].token)
    /\ GoTo(c, "ask", memory[Codex].token)
    /\ UNCHANGED <<lock, providerVars, toolVars, restVars>>

AskProvider(c) ==
    /\ At(c, "chat", "stale") /\ Free("providers")
    /\ memory[Codex] # None /\ Due(memory[Codex].token)
    /\ Take(c, "providers") /\ GoTo(c, "ask", memory[Codex].token)
    /\ UNCHANGED <<providerVars, toolVars, restVars>>

Rotated(c) ==
    web' = [web EXCEPT !.issued = @ + 1, !.spent = @ \cup {call[c].next}]

TokenIssued(c) ==
    /\ At(c, "chat", "ask") /\ call[c].next \notin web.spent /\ Rotated(c)
    /\ GoTo(c, "save", [memory EXCEPT ![Codex].token = web.issued + 1])
    /\ UNCHANGED <<memory, file, session, lock, toolVars, restVars>>

(* Refused, or the request or its answer lost.                           *)
TokenRefused(c) ==
    /\ At(c, "chat", "ask") /\ call[c].next \in web.spent /\ Answered(c)
    /\ UNCHANGED <<providerVars, toolVars, restVars>>

AnswerLost(c) ==
    /\ At(c, "chat", "ask") /\ call[c].next \notin web.spent /\ Fault /\ Answered(c)
    /\ web' = [web EXCEPT !.spent = @ \cup {call[c].next}, !.lost = TRUE]
    /\ UNCHANGED <<up, memory, file, session, watch, toolVars>>

RefreshSaved(c) ==
    /\ At(c, "chat", "write")
    /\ file' = Tokens(call[c].next) /\ memory' = call[c].next
    /\ lock' = Released(c)
    /\ IF Idle(c)
       THEN Given(c, call[c].next[Codex].token) /\ GoTo(c, "send", None)
       ELSE UNCHANGED session /\ call' = [call EXCEPT ![c] = Resting]
    /\ UNCHANGED <<web, toolVars, restVars>>

Send(c) ==
    /\ At(c, "chat", "send") /\ Answered(c)
    /\ session' = [session EXCEPT ![call[c].of].busy = TRUE]
    /\ UNCHANGED <<memory, file, web, toolVars, restVars>>

TurnEnds(s) ==
    /\ session[s] # None /\ session[s].busy
    /\ session' = [session EXCEPT ![s].busy = FALSE]
    /\ UNCHANGED <<memory, file, web, lock, call, toolVars, restVars>>

(* The access token of codex comes within five minutes of its expiry;    *)
(* the last one the bound allows does not.                               *)
Expire ==
    /\ web.due < web.issued /\ web.issued < MaxTokens
    /\ web' = [web EXCEPT !.due = web.issued]
    /\ UNCHANGED <<memory, file, session, lock, call, toolVars, restVars>>

(* A new catalog: other endpoints or models for the managed providers.   *)
Publish ==
    /\ web.catalog = 1 /\ web' = [web EXCEPT !.catalog = 2]
    /\ UNCHANGED <<memory, file, session, lock, call, toolVars, restVars>>

(* refreshManagedProviderCatalogs: the catalogs are fetched without the  *)
(* lock, those that do not answer are left out, and one that does not    *)
(* validate ends the refresh.                                            *)
LookAtProviders ==
    /\ up # "down" /\ watch = Asleep /\ Free("providers")
    /\ \E p \in Provider : memory[p] # None
    /\ watch' = [Asleep EXCEPT !.at = "fetch", !.seen = {p \in Provider : memory[p] # None}]
    /\ UNCHANGED <<up, lock, call, used, providerVars, toolVars>>

FetchCatalogs ==
    /\ watch.at = "fetch"
    /\ \E got \in SUBSET watch.seen : watch' = [at |-> "merge", seen |-> {}, got |-> [p \in got |-> web.catalog]]
    /\ UNCHANGED <<up, lock, call, used, providerVars, toolVars>>

MergedBare ==
    [p \in Provider |-> IF p \in DOMAIN watch.got
                        THEN [token |-> IF memory[p] = None THEN 0 ELSE memory[p].token,
                              catalog |-> watch.got[p]]
                        ELSE memory[p]]

Merged ==
    [p \in Provider |-> IF p \in DOMAIN watch.got /\ memory[p] # None
                        THEN [memory[p] EXCEPT !.catalog = watch.got[p]] ELSE memory[p]]

\* validateProvider: with one catalog that is no use all are kept as they are.
CatalogRefused == UNCHANGED memory

MergeCatalogs ==
    /\ watch.at = "merge" /\ Free("providers")
    /\ CatalogRefused \/ memory' = Merged
    /\ watch' = Asleep
    /\ UNCHANGED <<up, file, web, session, lock, call, used, toolVars>>

(* CreatePolicy, DeletePolicy: the running policies change first.        *)
ChangePolicies(c) ==
    /\ call[c].op \in {"create policy", "delete policy"} /\ call[c].at = "start" /\ Free("tools")
    /\ LET n == call[c].of IN
         IF (n \in policies) = (call[c].op = "create policy")
         THEN Answered(c) /\ UNCHANGED policies
         ELSE /\ Take(c, "tools") /\ GoTo(c, "persist", None)
              /\ policies' = IF n \in policies THEN policies \ {n} ELSE policies \cup {n}
    /\ UNCHANGED <<tools, told, providerVars, restVars>>

(* persistPolicies: read tools.json, change the one name, replace it.    *)
Changed(c, names) ==
    IF call[c].op = "create policy" THEN names \cup {call[c].of} ELSE names \ {call[c].of}

PersistPolicies(c) ==
    /\ call[c].op \in {"create policy", "delete policy"} /\ call[c].at = "persist" /\ Answered(c)
    /\ tools' = [tools EXCEPT !.policies = Changed(c, @)]
    /\ told' = [told EXCEPT !.policies = Changed(c, @)]
    /\ UNCHANGED <<policies, providerVars, restVars>>

(* AddMCPServer, EditMCPServer, RemoveMCPServer: refused while another   *)
(* operation has the lock.  An entry is an endpoint and the endpoint its *)
(* token was minted for; an edit that names no credential keeps the      *)
(* token (mergeMCPCredentials), one that names the client keeps it only  *)
(* at the same endpoint.                                                 *)
Entry(e, t) == [endpoint |-> e, token |-> t]

Edits(op, entry) ==
    CASE op = "add" /\ entry = None -> {Entry(1, None)}
      [] op = "remove" /\ entry # None -> {None}
      [] op = "edit" /\ entry # None ->
            {Entry(e, entry.token) : e \in 1..2}
              \cup {Entry(e, IF e = entry.endpoint THEN entry.token ELSE None) : e \in 1..2}
      [] OTHER -> {}

\* ValidateMCPServer: an entry no server could have is refused before the
\* file is touched, as is the request of one who finds the lock taken.
EntryRefused(c) == Answered(c)

EditServers(c) ==
    /\ call[c].op \in {"add", "edit", "remove"} /\ call[c].at = "start"
    /\ \/ EntryRefused(c)
       \/ /\ Free("tools") /\ Take(c, "tools")
          /\ \E e \in Edits(call[c].op, tools.servers[call[c].of]) :
                GoTo(c, "edited", [tools EXCEPT !.servers[call[c].of] = e])
    /\ UNCHANGED <<providerVars, toolVars, restVars>>

(* LoginMCPServer: tools.json is read under the lock, which is held      *)
(* until the browser comes back with a token for the entry's endpoint,   *)
(* the server refuses, nobody answers in time or the engine stops.       *)
Authorize(c) ==
    /\ At(c, "authorize", "start")
    /\ \/ Answered(c)
       \/ /\ Free("tools") /\ up = "up" /\ tools.servers[call[c].of] # None
          /\ Take(c, "tools") /\ GoTo(c, "authorizing", tools)
    /\ UNCHANGED <<providerVars, toolVars, restVars>>

Authorized(c) ==
    /\ At(c, "authorize", "authorizing")
    /\ LET at == call[c].next.servers[call[c].of].endpoint IN
          GoTo(c, "edited", [call[c].next EXCEPT !.servers[call[c].of] = Entry(at, at)])
    /\ UNCHANGED <<lock, providerVars, toolVars, restVars>>

NotAuthorized(c) ==
    /\ At(c, "authorize", "authorizing") /\ Answered(c)
    /\ UNCHANGED <<providerVars, toolVars, restVars>>

(* SaveToolConfig of what was read when the lock was taken.              *)
SaveServers(c) ==
    /\ call[c].at = "edited" /\ Answered(c)
    /\ tools' = call[c].next
    /\ told' = [told EXCEPT !.servers[call[c].of] = call[c].next.servers[call[c].of]]
    /\ UNCHANGED <<policies, providerVars, restVars>>

(* tools.json is replaced by a rename: a write that fails leaves it.     *)
ToolsNotSaved(c) ==
    /\ call[c].at \in {"persist", "edited"} /\ Fault /\ Answered(c)
    /\ UNCHANGED <<up, watch, providerVars, toolVars>>

Shutdown ==
    /\ up = "up" /\ up' = "stopping"
    /\ UNCHANGED <<lock, call, watch, used, providerVars, toolVars>>

(* The process ends.  A refresh that was not saved has cost the token.   *)
Kill ==
    /\ up # "down" /\ up' = "down" /\ Fault
    /\ memory' = [p \in Provider |-> None] /\ session' = [s \in Session |-> None] /\ policies' = {}
    /\ web' = [web EXCEPT !.lost = @ \/ \E c \in Client : call[c].op = "chat" /\ call[c].at \in {"save", "write"}]
    /\ lock' = Unlocked /\ call' = [c \in Client |-> Resting] /\ watch' = Asleep
    /\ UNCHANGED <<file, tools, told>>

(* The engine starts with the providers models.json names, each with the *)
(* catalog served today, and with the policies of tools.json.  A torn    *)
(* models.json does not parse.                                           *)
StartProviders ==
    memory' = [p \in Provider |-> IF file[p] = None THEN None
                                  ELSE [token |-> file[p], catalog |-> web.catalog]]

LoadToolConfig == policies' = tools.policies

Start ==
    /\ up = "down" /\ file # Torn /\ up' = "up"
    /\ StartProviders /\ LoadToolConfig
    /\ UNCHANGED <<file, web, session, tools, told, lock, call, watch, used>>

Serve(c) ==
    \/ Login(c) \/ LoginFails(c) \/ Authenticated(c) \/ WithCatalog(c) \/ Logout(c)
    \/ OpenFile(c) \/ Saved(c)
    \/ Load(c) \/ Lookup(c) \/ Manage(c)
    \/ Chat(c) \/ Refreshed(c) \/ AskProvider(c) \/ TokenIssued(c) \/ TokenRefused(c)
    \/ RefreshSaved(c) \/ Send(c)
    \/ ChangePolicies(c) \/ PersistPolicies(c)
    \/ EditServers(c) \/ Authorize(c) \/ Authorized(c) \/ NotAuthorized(c) \/ SaveServers(c)

Fails(c) == NotSaved(c) \/ AnswerLost(c) \/ ToolsNotSaved(c)

Next ==
    \/ \E c \in Client : Request(c) \/ Serve(c) \/ Fails(c)
    \/ \E s \in Session : TurnEnds(s)
    \/ Expire \/ Publish \/ LookAtProviders \/ FetchCatalogs \/ MergeCatalogs
    \/ Shutdown \/ Kill \/ Start

(* Requests are goroutines, every wait of theirs on the network has a    *)
(* deadline, and Go's mutexes are fair.                                  *)
Spec == Init /\ [][Next]_vars /\ \A c \in Client : WF_vars(Serve(c))

(* When nobody is changing them, the credentials on disk are the ones in *)
(* use: a restart neither forgets a login, nor undoes a logout, nor goes *)
(* back to a token that was rotated (unless models.json itself is torn). *)
LoginsDurable == up # "down" /\ Free("providers") => file = Torn \/ file = Tokens(memory)

(* What a request was told it changed in tools.json is there, however    *)
(* the edits, the policies and an authorization waiting for a browser    *)
(* overlapped; the running policies differ from it only after a failure. *)
ToolsKept ==
    Free("tools") => /\ tools = told
                     /\ up # "down" /\ used.faults = 0 => policies = tools.policies

(* Both files say what the engine works with.                            *)
ConfigDurable == LoginsDurable /\ ToolsKept

(* Two chats with an expired token refresh once: the refresh token is    *)
(* never sent a second time, unless its successor was lost on the way    *)
(* or could not be saved.                                                *)
RefreshedOnce ==
    \A c \in Client : At(c, "chat", "ask") /\ call[c].next \in web.spent => web.lost

(* A provider appears only by a login or by a restart: a refresh of the  *)
(* catalogs begun before a logout does not bring it back.                *)
LogoutSticks ==
    [][\A p \in Provider : memory[p] = None /\ memory'[p] # None
          => \/ up = "down"
             \/ \E c \in Client : call[c].op = "login" /\ call[c].of = p /\ call'[c] = Resting]_vars

(* The credentials of a provider are used as the provider and the user   *)
(* allow: no token twice, and none after a logout.                       *)
CredentialsKept == []RefreshedOnce /\ LogoutSticks

(* Every request is answered, those included that wait for a lock held   *)
(* over a browser login, unless the process ends.                        *)
CallsReturn == \A c \in Client : call[c] # Resting ~> call[c] = Resting
=======================================================================
