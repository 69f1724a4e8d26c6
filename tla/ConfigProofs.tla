------------------------- MODULE ConfigProofs -------------------------
(***********************************************************************)
(* For any number of providers, servers, policies and requests: the    *)
(* files say what the engine works with, a refresh token is used once, *)
(* and a provider that is logged out stays so.  For any number of MCP  *)
(* servers with any tools: those of a session are as it reports them.  *)
(***********************************************************************)
EXTENDS Config, Connections, TLAPS

-----------------------------------------------------------------------
(* The inductive invariant *)

Memory == [Provider -> {None} \cup Credential]
Endpoints == [endpoint : {1, 2}, token : {None, 1, 2}]
Tooling == [servers : [Server -> {None} \cup Endpoints], policies : SUBSET Policy]
Lock == {"providers", "tools", "engine"}
Toolers == {"create policy", "delete policy"}

Typed ==
    /\ up \in {"up", "stopping", "down"}
    /\ memory \in Memory
    /\ file = Torn \/ file \in [Provider -> {None} \cup Nat]
    /\ web \in [issued : Nat, spent : SUBSET Nat, due : Nat, lost : BOOLEAN, catalog : {1, 2}]
    /\ policies \subseteq Policy /\ tools \in Tooling
    /\ lock \in [Lock -> Client \cup {None}]
    /\ watch.at = "merge" => \A p \in DOMAIN watch.got : watch.got[p] \in {1, 2}
    /\ used \in [calls : Nat, faults : Nat, ops : Ops]
    /\ DOMAIN call = Client
    /\ \A c \in Client : call[c] = [op |-> call[c].op, of |-> call[c].of,
                                    at |-> call[c].at, next |-> call[c].next]

\* A credential of codex that was issued and is not used up.
Unspent(x) == x # None => x.token <= web.issued /\ x.token \notin web.spent

\* The request c is changing the providers: it has their lock, works on what
\* the engine has, and what it will put in place is one that codex accepts.
Logging(c) == call[c].op \in {"login", "logout"} => call[c].of \in Provider
Browsing(c) ==
    call[c].op = "login" /\ call[c].at \in {"browser", "catalog"} =>
        /\ lock["providers"] = c
        /\ call[c].at = "catalog" =>
              /\ call[c].next \in Nat
              /\ call[c].of = Codex => call[c].next <= web.issued /\ call[c].next \notin web.spent
Asking(c) ==
    call[c].op = "chat" /\ call[c].at = "ask" =>
        /\ lock["providers"] = c
        /\ memory[Codex] # None /\ call[c].next = memory[Codex].token
Target(c) == IF call[c].op = "chat" THEN Codex ELSE call[c].of
Saving(c) == call[c].at \in {"save", "write"}
Putting(c) ==
    Saving(c) =>
        /\ lock["providers"] = c /\ call[c].op \in {"login", "logout", "chat"}
        /\ call[c].next \in Memory
        /\ call[c].op = "chat" => memory[Codex] # None /\ call[c].next[Codex] # None
        /\ call[c].op = "logout" => call[c].next[call[c].of] = None
        /\ Target(c) = Codex => Unspent(call[c].next[Codex])
        /\ \A p \in Provider : p # Target(c) => call[c].next[p] = memory[p]

\* The request c is changing tools.json: it has the lock, and writes what was
\* read but for the one entry it is about.
Editing(c) ==
    call[c].at \in {"edited", "authorizing"} =>
        /\ lock["tools"] = c /\ call[c].of \in Server /\ call[c].next \in Tooling
        /\ call[c].next = [tools EXCEPT !.servers[call[c].of] = call[c].next.servers[call[c].of]]
        /\ call[c].at = "authorizing" => call[c].next.servers[call[c].of] # None
Persisting(c) ==
    call[c].at = "persist" =>
        /\ lock["tools"] = c /\ call[c].op \in Toolers /\ call[c].of \in Policy
        /\ up # "down" /\ used.faults = 0 => policies = Changed(c, tools.policies)
Naming(c) == call[c].op \in Toolers => call[c].of \in Policy
Serving(c) == call[c].op \in {"add", "edit", "remove", "authorize"} => call[c].of \in Server

Own(c) ==
    /\ Logging(c) /\ Browsing(c) /\ Asking(c) /\ Putting(c)
    /\ Naming(c) /\ Serving(c) /\ Editing(c) /\ Persisting(c)

Refreshing == \E c \in Client : call[c].op = "chat" /\ Saving(c)

\* The token in use, and the one a restart will find, is unspent, but while
\* its successor is being saved or after that was lost.
TokenGood ==
    /\ \A t \in web.spent : t <= web.issued
    /\ up # "down" => /\ memory[Codex] # None => memory[Codex].token <= web.issued
                      /\ web.lost \/ Refreshing \/ Unspent(memory[Codex])
    /\ up = "down" /\ file # Torn /\ file[Codex] # None =>
           file[Codex] <= web.issued /\ (web.lost \/ file[Codex] \notin web.spent)

Durable == up # "down" => file = Torn \/ file = Tokens(memory)
Down == up = "down" => \A c \in Client : call[c] = Resting
ToolsTold ==
    /\ tools = told
    /\ up # "down" /\ used.faults = 0 /\ (\A c \in Client : call[c].at # "persist")
           => policies = tools.policies

IInv == Typed /\ (\A c \in Client : Own(c)) /\ TokenGood /\ Durable /\ Down /\ ToolsTold
-----------------------------------------------------------------------
(* Requests and locks *)

Bounds == [calls : Nat, faults : Nat, ops : Ops]
NoFault == UNCHANGED used
Shaped(r) == r = [op |-> r.op, of |-> r.of, at |-> r.at, next |-> r.next]
Calm == {"none", "start", "lookup", "stale", "send"}

LEMMA Replaced ==
    ASSUME Typed, NEW c \in Client, NEW r, call' = [call EXCEPT ![c] = r]
    PROVE  /\ DOMAIN call' = Client /\ call'[c] = r
           /\ \A d \in Client : d # c => call'[d] = call[d]
  BY DEF Typed

LEMMA WentTo ==
    ASSUME Typed, NEW c \in Client, NEW a, NEW n, GoTo(c, a, n)
    PROVE  /\ DOMAIN call' = Client
           /\ call'[c] = [op |-> call[c].op, of |-> call[c].of, at |-> a, next |-> n]
           /\ \A d \in Client : d # c => call'[d] = call[d]
<1>1. call[c] = [op |-> call[c].op, of |-> call[c].of, at |-> call[c].at, next |-> call[c].next]
      /\ c \in DOMAIN call
  BY DEF Typed
<1>2. call'[c] = [[call[c] EXCEPT !.at = a] EXCEPT !.next = n]
  BY <1>1 DEF GoTo
<1>3. call'[c] = [op |-> call[c].op, of |-> call[c].of, at |-> a, next |-> n]
  BY <1>1, <1>2
<1>4. DOMAIN call' = Client /\ \A d \in Client : d # c => call'[d] = call[d]
  BY DEF GoTo, Typed
<1> QED BY <1>3, <1>4

\* A lock that another request has stays with it.
Kept(c) ==
    /\ lock' \in [Lock -> Client \cup {None}]
    /\ \A d \in Client : \A l \in Lock : d # c /\ lock[l] = d => lock'[l] = d

LEMMA WasAnswered ==
    ASSUME Typed, NEW c \in Client, Answered(c)
    PROVE  /\ DOMAIN call' = Client /\ call'[c] = Resting
           /\ \A d \in Client : d # c => call'[d] = call[d]
           /\ Kept(c)
  BY DEF Typed, Answered, Released, Kept

LEMMA Took ==
    ASSUME Typed, NEW c \in Client, NEW l \in Lock, Free(l), Take(c, l)
    PROVE  Kept(c) /\ lock'[l] = c
  BY ConfigAssumption DEF Typed, Take, Free, Kept

LEMMA KeptAll ==
    ASSUME Typed, NEW c \in Client, UNCHANGED lock
    PROVE  Kept(c)
  BY DEF Typed, Kept

LEMMA RestingOwn ==
    ASSUME NEW c \in Client, call'[c] = Resting
    PROVE  Own(c)' /\ Shaped(call'[c]) /\ call'[c].at = "none"
  BY SMTT(30) DEF Resting, Own, Logging, Browsing, Asking, Putting, Saving, Naming, Serving, Editing,
         Persisting, Toolers, Shaped

\* A request that waits holds nothing that others could disturb.
LEMMA CalmOwn ==
    ASSUME NEW c \in Client, Own(c), NEW a \in Calm, NEW n,
           call'[c] = [op |-> call[c].op, of |-> call[c].of, at |-> a, next |-> n]
    PROVE  Own(c)' /\ Shaped(call'[c]) /\ call'[c].at = a
<1>1. call'[c].op = call[c].op /\ call'[c].of = call[c].of /\ call'[c].at = a /\ Shaped(call'[c])
  BY DEF Shaped
<1>2. /\ call'[c].at \notin {"browser", "catalog", "ask", "save", "write", "edited", "authorizing", "persist"}
      /\ Logging(c) /\ Naming(c) /\ Serving(c)
  BY <1>1 DEF Calm, Own
<1> QED BY <1>1, <1>2 DEF Own, Logging, Browsing, Asking, Putting, Saving, Naming, Serving,
                          Editing, Persisting

LEMMA FaultStep ==
    ASSUME Typed, Fault \/ NoFault
    PROVE  used' \in Bounds /\ (used'.faults = 0 => used.faults = 0) /\ (Fault => used'.faults # 0)
<1>1. used \in Bounds
  BY DEF Typed, Bounds
<1>2. CASE Fault
  <2>1. used' = [used EXCEPT !.faults = used.faults + 1] /\ used.faults + 1 \in Nat /\ used.faults + 1 # 0
    BY <1>1, <1>2 DEF Fault, Bounds
  <2> QED BY <1>1, <2>1 DEF Bounds
<1> QED BY <1>1, <1>2 DEF NoFault

\* The request c moves, and what the others work with stays.
LEMMA CallStep ==
    ASSUME IInv, NEW c \in Client, Kept(c), DOMAIN call' = Client, Shaped(call'[c]),
           \A d \in Client : d # c => call'[d] = call[d],
           UNCHANGED <<up, memory, file, web, policies, tools, told, watch>>,
           used' \in Bounds, used'.faults = 0 => used.faults = 0,
           up # "down" \/ call'[c] = Resting,
           call[c].op = "chat" /\ Saving(c) => FALSE,
           call[c].at = "persist" => used'.faults # 0,
           Own(c)'
    PROVE  IInv'
<1>1. Typed'
  BY DEF IInv, Typed, Kept, Bounds, Shaped
<1>2. \A d \in Client : Own(d)'
  <2> SUFFICES ASSUME NEW d \in Client, d # c PROVE Own(d)'
    OBVIOUS
  <2>1. call'[d] = call[d] /\ Own(d) /\ \A l \in Lock : lock[l] = d => lock'[l] = d
    BY SMTT(30) DEF IInv, Kept
  <2>2. Logging(d)' /\ Browsing(d)' /\ Asking(d)' /\ Putting(d)'
    BY <2>1, SMTT(30) DEF Own, Logging, Browsing, Asking, Putting, Saving, Target, Unspent, Lock
  <2>3. Naming(d)' /\ Serving(d)' /\ Editing(d)'
    BY <2>1 DEF Own, Naming, Serving, Editing, Lock
  <2>4. Persisting(d)'
    BY <2>1 DEF Own, Persisting, Changed, Lock
  <2> QED BY <2>2, <2>3, <2>4 DEF Own
<1>3. Refreshing => Refreshing'
  BY DEF Refreshing, Saving
<1>4. TokenGood'
  BY <1>3 DEF IInv, TokenGood, Unspent
<1>5. Durable'
  BY DEF IInv, Durable, Tokens
<1>6. Down'
  BY DEF IInv, Down
<1>7. ToolsTold'
  <2>1. used'.faults = 0 /\ (\A d \in Client : call'[d].at # "persist")
           => used.faults = 0 /\ \A d \in Client : call[d].at # "persist"
    OBVIOUS
  <2> QED BY <2>1 DEF IInv, ToolsTold
<1> QED BY <1>1, <1>2, <1>4, <1>5, <1>6, <1>7 DEF IInv

\* The request c moves while it has the lock of the providers.
LEMMA ProviderStep ==
    ASSUME IInv, NEW c \in Client, lock["providers"] = c, Kept(c),
           DOMAIN call' = Client, Shaped(call'[c]), \A d \in Client : d # c => call'[d] = call[d],
           UNCHANGED <<up, policies, tools, told, watch>>, up # "down",
           memory' \in Memory, file' = Torn \/ file' \in [Provider -> {None} \cup Nat],
           web' \in [issued : Nat, spent : SUBSET Nat, due : Nat, lost : BOOLEAN, catalog : {1, 2}],
           used' \in Bounds, used'.faults = 0 => used.faults = 0,
           call[c].at # "persist", Own(c)', TokenGood', Durable'
    PROVE  IInv'
<1>1. Typed'
  BY DEF IInv, Typed, Kept, Bounds, Shaped
<1>2. \A d \in Client : Own(d)'
  <2> SUFFICES ASSUME NEW d \in Client, d # c PROVE Own(d)'
    OBVIOUS
  <2>1. call'[d] = call[d] /\ Own(d) /\ lock["providers"] # d
        /\ \A l \in Lock : lock[l] = d => lock'[l] = d
    BY SMTT(30) DEF IInv, Kept
  <2>2. Logging(d)' /\ Browsing(d)' /\ Asking(d)' /\ Putting(d)'
    BY <2>1, SMTT(30) DEF Own, Logging, Browsing, Asking, Putting, Saving, Lock
  <2>3. Naming(d)' /\ Serving(d)' /\ Editing(d)'
    BY <2>1 DEF Own, Naming, Serving, Editing, Lock, Toolers
  <2>4. Persisting(d)'
    BY <2>1 DEF Own, Persisting, Changed, Lock
  <2> QED BY <2>2, <2>3, <2>4 DEF Own
<1>3. Down'
  BY DEF IInv, Down
<1>4. ToolsTold'
  <2>1. used'.faults = 0 /\ (\A d \in Client : call'[d].at # "persist")
           => used.faults = 0 /\ \A d \in Client : call[d].at # "persist"
    OBVIOUS
  <2> QED BY <2>1 DEF IInv, ToolsTold
<1> QED BY <1>1, <1>2, <1>3, <1>4 DEF IInv

\* The request c moves while it has the lock of tools.json.
LEMMA ToolStep ==
    ASSUME IInv, NEW c \in Client, lock["tools"] = c \/ Free("tools"), Kept(c),
           DOMAIN call' = Client, Shaped(call'[c]), \A d \in Client : d # c => call'[d] = call[d],
           UNCHANGED <<up, memory, file, web, watch, used>>, up # "down", ~Saving(c),
           policies' \subseteq Policy, tools' \in Tooling, Own(c)', ToolsTold'
    PROVE  IInv'
<1>1. Typed'
  BY DEF IInv, Typed, Kept, Shaped
<1>2. \A d \in Client : Own(d)'
  <2> SUFFICES ASSUME NEW d \in Client, d # c PROVE Own(d)'
    OBVIOUS
  <2>1. call'[d] = call[d] /\ Own(d) /\ lock["tools"] # d
        /\ \A l \in Lock : lock[l] = d => lock'[l] = d
    BY ConfigAssumption, SMTT(30) DEF IInv, Kept, Free
  <2>2. Logging(d)' /\ Browsing(d)' /\ Asking(d)' /\ Putting(d)'
    BY <2>1, SMTT(30) DEF Own, Logging, Browsing, Asking, Putting, Saving, Target, Unspent, Lock
  <2>3. Naming(d)' /\ Serving(d)' /\ Editing(d)'
    BY <2>1 DEF Own, Naming, Serving, Editing, Lock, Toolers
  <2>4. Persisting(d)'
    BY <2>1 DEF Own, Persisting, Lock
  <2> QED BY <2>2, <2>3, <2>4 DEF Own
<1>3. Refreshing => Refreshing'
  BY DEF Refreshing, Saving
<1>4. TokenGood' /\ Durable' /\ Down'
  BY <1>3 DEF IInv, TokenGood, Unspent, Durable, Tokens, Down
<1> QED BY <1>1, <1>2, <1>4 DEF IInv

-----------------------------------------------------------------------
(* Requests that change neither what is configured nor the files *)

LEMMA Busy ==
    ASSUME IInv, NEW c \in Client, call[c].at # "none"
    PROVE  up # "down"
  BY DEF IInv, Down, Resting

LEMMA SameUsed ==
    ASSUME Typed, UNCHANGED used
    PROVE  used' \in Bounds /\ (used'.faults = 0 => used.faults = 0)
  BY DEF Typed, Bounds

LEMMA AnsweredStep ==
    ASSUME IInv, NEW c \in Client, Answered(c),
           UNCHANGED <<up, memory, file, web, policies, tools, told, watch>>, Fault \/ NoFault,
           ~Saving(c), call[c].at = "persist" => Fault
    PROVE  IInv'
<1>1. /\ DOMAIN call' = Client /\ call'[c] = Resting /\ Kept(c)
      /\ \A d \in Client : d # c => call'[d] = call[d]
  BY WasAnswered DEF IInv
<1>2. Own(c)' /\ Shaped(call'[c])
  BY <1>1, RestingOwn
<1>3. used' \in Bounds /\ (used'.faults = 0 => used.faults = 0) /\ (Fault => used'.faults # 0)
  BY FaultStep DEF IInv
<1> QED BY <1>1, <1>2, <1>3, CallStep

LEMMA CalmStep ==
    ASSUME IInv, NEW c \in Client, NEW a \in Calm, NEW n, GoTo(c, a, n), Kept(c),
           UNCHANGED <<up, memory, file, web, policies, tools, told, watch, used>>,
           ~Saving(c), call[c].at \notin {"none", "persist"}
    PROVE  IInv'
<1>1. /\ DOMAIN call' = Client
      /\ call'[c] = [op |-> call[c].op, of |-> call[c].of, at |-> a, next |-> n]
      /\ \A d \in Client : d # c => call'[d] = call[d]
  BY WentTo DEF IInv
<1>2. Own(c)' /\ Shaped(call'[c])
  BY <1>1, CalmOwn DEF IInv
<1>3. used' \in Bounds /\ (used'.faults = 0 => used.faults = 0) /\ up # "down"
  BY SameUsed, Busy DEF IInv
<1> QED BY <1>1, <1>2, <1>3, CallStep

LEMMA RequestStep ==
    ASSUME IInv, NEW c \in Client, Request(c)
    PROVE  IInv'
<1>1. PICK op \in used.ops : \E n \in Names(op) :
          call' = [call EXCEPT ![c] = [op |-> op, of |-> n, at |-> "start", next |-> None]]
  BY DEF Request
<1>2. PICK n \in Names(op) :
          call' = [call EXCEPT ![c] = [op |-> op, of |-> n, at |-> "start", next |-> None]]
  BY <1>1
<1> DEFINE r == [op |-> op, of |-> n, at |-> "start", next |-> None]
<1>3. /\ op \in {"login", "logout"} => n \in Provider
      /\ op \in Toolers => n \in Policy
      /\ op \in {"add", "edit", "remove", "authorize"} => n \in Server
  BY <1>1, <1>2, ConfigAssumption DEF IInv, Typed, Names, Toolers
<1>4. call[c] = Resting /\ up # "down" /\ used' = [used EXCEPT !.calls = @ + 1]
      /\ UNCHANGED <<up, memory, file, web, policies, tools, told, watch, lock>>
  BY DEF Request, providerVars, toolVars
<1>5. call' = [call EXCEPT ![c] = r] /\ r.op = op /\ r.of = n /\ r.at = "start" /\ Shaped(r)
  BY <1>2 DEF Shaped
<1> HIDE DEF r
<1>6. DOMAIN call' = Client /\ call'[c] = r /\ \A d \in Client : d # c => call'[d] = call[d]
  BY <1>5, Replaced DEF IInv
<1>7. Own(c)'
  BY <1>3, <1>5, <1>6 DEF Own, Logging, Browsing, Asking, Putting, Saving, Naming, Serving, Editing,
                          Persisting
<1>8. used' \in Bounds /\ used'.faults = used.faults
  BY <1>4 DEF IInv, Typed, Bounds
<1>9. ~Saving(c) /\ call[c].at # "persist" /\ Kept(c)
  BY <1>4, KeptAll DEF IInv, Resting, Saving
<1> QED BY <1>4, <1>5, <1>6, <1>7, <1>8, <1>9, CallStep

LEMMA CalmSteps ==
    ASSUME IInv, NEW c \in Client,
           \/ LoginFails(c) \/ Load(c) \/ Lookup(c) \/ Manage(c) \/ Chat(c) \/ Refreshed(c)
           \/ TokenRefused(c) \/ Send(c)
    PROVE  IInv'
<1>1. /\ UNCHANGED <<up, memory, file, web, policies, tools, told, watch, used>>
      /\ call[c].at \in {"browser", "catalog", "start", "lookup", "stale", "ask", "send"}
  BY DEF LoginFails, Load, Lookup, Manage, Chat, Refreshed, TokenRefused, Send, At, providerVars,
         toolVars, restVars
<1>2. ~Saving(c) /\ call[c].at \notin {"none", "persist"}
  BY <1>1 DEF Saving
<1>3. CASE Answered(c)
  BY <1>1, <1>2, <1>3, AnsweredStep DEF NoFault
<1>4. CASE \E a \in {"lookup", "stale", "send"} : GoTo(c, a, None) /\ (UNCHANGED lock \/ (Free("engine") /\ Take(c, "engine")))
  <2>1. PICK a \in Calm : GoTo(c, a, None)
    BY <1>4 DEF Calm
  <2>2. Kept(c)
    BY <1>4, KeptAll, Took DEF IInv, Lock
  <2> QED BY <1>1, <1>2, <2>1, <2>2, CalmStep
<1> QED BY <1>3, <1>4 DEF LoginFails, Load, Lookup, Manage, Chat, Refreshed, TokenRefused, Send

-----------------------------------------------------------------------
(* Requests that log in, log out and refresh *)

LEMMA MemoryType ==
    ASSUME NEW m \in Memory
    PROVE  /\ \A p \in Provider : m[p] # None => m[p] \in Credential /\ m[p].token \in Nat
           /\ \A p \in Provider : \A x \in {None} \cup Credential : [m EXCEPT ![p] = x] \in Memory
           /\ Tokens(m) \in [Provider -> {None} \cup Nat]
           /\ Tokens(m)[Codex] = IF m[Codex] = None THEN None ELSE m[Codex].token
<1>1. \A p \in Provider : m[p] # None => m[p] \in Credential /\ m[p].token \in Nat
  BY DEF Memory, Credential
<1>2. \A p \in Provider : \A x \in {None} \cup Credential : [m EXCEPT ![p] = x] \in Memory
  BY DEF Memory
<1>3. Tokens(m) \in [Provider -> {None} \cup Nat]
  BY <1>1 DEF Tokens
<1>4. Tokens(m)[Codex] = IF m[Codex] = None THEN None ELSE m[Codex].token
  BY ConfigAssumption DEF Tokens
<1> QED BY <1>1, <1>2, <1>3, <1>4

\* The request takes the lock of the providers, or keeps it.
LEMMA ChangingStep ==
    ASSUME IInv, NEW c \in Client, NEW a, NEW n, GoTo(c, a, n), Kept(c), call[c].at # "none",
           UNCHANGED <<up, memory, file, web, policies, tools, told, watch, used>>,
           ~Saving(c), call[c].at # "persist", Own(c)'
    PROVE  IInv'
<1>1. /\ DOMAIN call' = Client
      /\ call'[c] = [op |-> call[c].op, of |-> call[c].of, at |-> a, next |-> n]
      /\ \A d \in Client : d # c => call'[d] = call[d]
  BY WentTo DEF IInv
<1>2. Shaped(call'[c])
  BY <1>1 DEF Shaped
<1>3. used' \in Bounds /\ (used'.faults = 0 => used.faults = 0) /\ up # "down"
  BY SameUsed, Busy DEF IInv
<1> QED BY <1>1, <1>2, <1>3, CallStep

LEMMA LoginSteps ==
    ASSUME IInv, NEW c \in Client, Login(c) \/ WithCatalog(c) \/ Logout(c) \/ AskProvider(c)
    PROVE  IInv'
<1>1. /\ UNCHANGED <<up, memory, file, web, policies, tools, told, watch, used>>
      /\ call[c].at \in {"start", "catalog", "stale"}
  BY DEF Login, WithCatalog, Logout, AskProvider, At, providerVars, toolVars, restVars
<1>2. ~Saving(c) /\ call[c].at \notin {"none", "persist"}
  BY <1>1 DEF Saving
<1>3. memory \in Memory /\ \A p \in Provider : memory[p] # None => memory[p] \in Credential
  BY MemoryType DEF IInv, Typed
<1>4. Own(c)
  BY DEF IInv
<1>5. CASE Answered(c)
  BY <1>1, <1>2, <1>5, AnsweredStep DEF NoFault
<1>6. CASE Login(c) /\ ~Answered(c)
  <2>1. GoTo(c, "browser", None) /\ Take(c, "providers") /\ Free("providers") /\ call[c].op = "login"
    BY <1>6 DEF Login, At
  <2>2. Kept(c) /\ lock'["providers"] = c
    BY <2>1, Took DEF IInv, Lock
  <2>3. call'[c] = [op |-> "login", of |-> call[c].of, at |-> "browser", next |-> None]
    BY <2>1, WentTo DEF IInv
  <2>4. Own(c)'
    BY <1>4, <2>1, <2>2, <2>3 DEF Own, Logging, Browsing, Asking, Putting, Saving, Naming, Serving,
                                  Editing, Persisting, Toolers
  <2> QED BY <1>1, <1>2, <2>1, <2>2, <2>4, ChangingStep
<1>7. CASE AskProvider(c)
  <2>1. /\ GoTo(c, "ask", memory[Codex].token) /\ Take(c, "providers") /\ Free("providers")
        /\ call[c].op = "chat" /\ memory[Codex] # None
    BY <1>7 DEF AskProvider, At
  <2>2. Kept(c) /\ lock'["providers"] = c
    BY <2>1, Took DEF IInv, Lock
  <2>3. call'[c] = [op |-> "chat", of |-> call[c].of, at |-> "ask", next |-> memory[Codex].token]
    BY <2>1, WentTo DEF IInv
  <2>4. Own(c)'
    BY <1>1, <1>4, <2>1, <2>2, <2>3 DEF Own, Logging, Browsing, Asking, Putting, Saving, Naming,
                                  Serving, Editing, Persisting, Toolers
  <2> QED BY <1>1, <1>2, <2>1, <2>2, <2>4, ChangingStep
<1>8. CASE (WithCatalog(c) \/ Logout(c)) /\ ~Answered(c)
  <2> DEFINE p == call[c].of
  <2>0. call[c].op \in {"login", "logout"} /\ p \in Provider
    BY <1>4, <1>8 DEF WithCatalog, Logout, At, Own, Logging
  <2>1. PICK x \in {None} \cup Credential :
            /\ GoTo(c, "save", [memory EXCEPT ![p] = x])
            /\ call[c].op = "logout" => x = None
            /\ p = Codex => Unspent(x)
    <3>1. CASE WithCatalog(c)
      <4> DEFINE x == [token |-> call[c].next, catalog |-> web.catalog]
      <4>1. call[c].op = "login" /\ call[c].at = "catalog" /\ GoTo(c, "save", [memory EXCEPT ![p] = x])
        BY <3>1 DEF WithCatalog, At
      <4>2. call[c].next \in Nat /\ (p = Codex => call[c].next <= web.issued /\ call[c].next \notin web.spent)
        BY <1>4, <4>1 DEF Own, Browsing
      <4>3. x \in Credential /\ (p = Codex => Unspent(x))
        BY <4>2 DEF IInv, Typed, Credential, Unspent
      <4> HIDE DEF x
      <4> QED BY <4>1, <4>3
    <3>2. CASE Logout(c)
      BY <1>8, <3>2 DEF Logout, At, Unspent
    <3> QED BY <1>8, <3>1, <3>2
  <2>2. Kept(c) /\ lock'["providers"] = c
    <3>1. CASE WithCatalog(c)
      BY <1>4, <3>1, KeptAll DEF WithCatalog, At, Own, Browsing, IInv
    <3>2. CASE Logout(c)
      BY <1>8, <3>2, Took DEF Logout, IInv, Lock
    <3> QED BY <1>8, <3>1, <3>2
  <2> DEFINE m == [memory EXCEPT ![p] = x]
  <2>3. /\ m \in Memory /\ m[p] = x /\ \A q \in Provider : q # p => m[q] = memory[q]
    BY <1>3, <2>0, MemoryType DEF Memory
  <2>4. call'[c] = [op |-> call[c].op, of |-> p, at |-> "save", next |-> m]
    BY <2>1, WentTo DEF IInv
  <2> HIDE DEF m, p
  <2>5. Own(c)'
    <3>1. call'[c].op = call[c].op /\ call'[c].of = p /\ call'[c].at = "save" /\ call'[c].next = m
      BY <2>4
    <3>2. Putting(c)'
      BY <1>1, <2>0, <2>1, <2>2, <2>3, <3>1 DEF Putting, Saving, Target, Unspent
    <3> QED BY <2>0, <3>1, <3>2 DEF Own, Logging, Browsing, Asking, Naming, Serving, Editing,
                                    Persisting, Toolers
  <2>6. GoTo(c, "save", m)
    BY <2>1 DEF m, p
  <2> QED BY <1>1, <1>2, <2>2, <2>5, <2>6, ChangingStep
<1> QED BY <1>5, <1>6, <1>7, <1>8

LEMMA AuthenticatedStep ==
    ASSUME IInv, NEW c \in Client, Authenticated(c)
    PROVE  IInv'
<1>1. /\ call[c].op = "login" /\ call[c].at = "browser" /\ UNCHANGED <<up, policies, tools, told, watch, used, memory, file, lock>>
      /\ Own(c) /\ lock["providers"] = c
  BY DEF Authenticated, At, toolVars, restVars, IInv, Own, Browsing
<1>2. PICK n \in Nat :
        /\ GoTo(c, "catalog", n)
        /\ \/ web' = web /\ call[c].of # Codex
           \/ web' = [web EXCEPT !.issued = web.issued + 1] /\ n = web.issued + 1
  BY DEF Authenticated, IInv, Typed
<1>3. /\ DOMAIN call' = Client
      /\ call'[c] = [op |-> "login", of |-> call[c].of, at |-> "catalog", next |-> n]
      /\ \A d \in Client : d # c => call'[d] = call[d]
  BY <1>1, <1>2, WentTo DEF IInv
<1>4. /\ web' \in [issued : Nat, spent : SUBSET Nat, due : Nat, lost : BOOLEAN, catalog : {1, 2}]
      /\ web'.spent = web.spent /\ web'.lost = web.lost /\ web'.issued >= web.issued
      /\ call[c].of = Codex => n <= web'.issued /\ n > web.issued
  BY <1>2 DEF IInv, Typed
<1>5. web.issued \in Nat /\ web'.issued \in Nat /\ web.spent \subseteq Nat /\ \A t \in web.spent : t <= web.issued
  BY <1>4 DEF IInv, Typed, TokenGood
<1>6. Own(c)'
  <2>1. call'[c].op = "login" /\ call'[c].of = call[c].of /\ call'[c].at = "catalog" /\ call'[c].next = n
    BY <1>3
  <2>2. call[c].of = Codex => n \notin web'.spent
    BY <1>4, <1>5
  <2> QED BY <1>1, <1>4, <2>1, <2>2 DEF Own, Logging, Browsing, Asking, Putting, Saving, Naming, Serving,
                                        Editing, Persisting, Toolers
<1>7. TokenGood'
  <2>1. Refreshing => Refreshing'
    BY <1>1, <1>3 DEF Refreshing, Saving
  <2>2. memory[Codex] # None => memory[Codex].token \in Nat
    BY MemoryType, ConfigAssumption DEF IInv, Typed
  <2>3. up # "down"
    BY <1>1, Busy
  <2> QED BY <1>1, <1>4, <1>5, <2>1, <2>2, <2>3 DEF IInv, TokenGood, Unspent
<1>8. Durable' /\ Kept(c) /\ used' \in Bounds /\ Shaped(call'[c]) /\ up # "down"
  BY <1>1, <1>3, KeptAll, SameUsed, Busy DEF IInv, Durable, Tokens, Shaped
<1> QED BY <1>1, <1>3, <1>4, <1>6, <1>7, <1>8, ProviderStep DEF IInv, Typed

\* What every request knows that is about to write models.json.
LEMMA Writing ==
    ASSUME IInv, NEW c \in Client, Saving(c)
    PROVE  /\ lock["providers"] = c /\ call[c].op \in {"login", "logout", "chat"} /\ up # "down"
           /\ call[c].next \in Memory /\ memory \in Memory
           /\ call[c].op = "chat" => call[c].next[Codex] # None
           /\ call[c].op # "chat" /\ call[c].of # Codex => call[c].next[Codex] = memory[Codex]
           /\ call[c].op = "chat" \/ call[c].of = Codex => Unspent(call[c].next[Codex])
           /\ Own(c)
<1>1. Putting(c) /\ Own(c) /\ memory \in Memory
  BY DEF IInv, Own, Typed
<1>2. up # "down"
  BY Busy, SMTT(30) DEF Saving
<1> QED BY <1>1, <1>2, ConfigAssumption DEF Putting, Target

LEMMA OpenFileStep ==
    ASSUME IInv, NEW c \in Client, OpenFile(c)
    PROVE  IInv'
<1>1. /\ call[c].at = "save" /\ file' = Torn /\ GoTo(c, "write", call[c].next)
      /\ UNCHANGED <<up, policies, tools, told, watch, used, memory, web, lock>>
  BY DEF OpenFile, toolVars, restVars
<1>2. Saving(c)
  BY <1>1 DEF Saving
<1>3. lock["providers"] = c /\ up # "down" /\ Own(c)
  BY <1>2, Writing
<1>4. /\ DOMAIN call' = Client
      /\ call'[c] = [op |-> call[c].op, of |-> call[c].of, at |-> "write", next |-> call[c].next]
      /\ \A d \in Client : d # c => call'[d] = call[d]
  BY <1>1, WentTo DEF IInv
<1>5. call'[c].op = call[c].op /\ call'[c].of = call[c].of /\ call'[c].at = "write" /\ call'[c].next = call[c].next
  BY <1>4
<1>6. Own(c)'
  <2>1. Putting(c)'
    BY <1>1, <1>2, <1>3, <1>5 DEF Own, Putting, Saving, Target, Unspent
  <2> QED BY <1>3, <1>5, <2>1 DEF Own, Logging, Browsing, Asking, Naming, Serving, Editing,
                                  Persisting, Toolers
<1>7. TokenGood'
  <2>1. Refreshing => Refreshing'
    BY <1>1, <1>4 DEF Refreshing, Saving
  <2> QED BY <1>1, <1>3, <2>1 DEF IInv, TokenGood, Unspent
<1>8. Durable' /\ Kept(c) /\ used' \in Bounds /\ Shaped(call'[c])
  BY <1>1, <1>4, KeptAll, SameUsed DEF IInv, Durable, Shaped
<1> QED BY <1>1, <1>3, <1>4, <1>6, <1>7, <1>8, ProviderStep DEF IInv, Typed

\* The write fails, or the answer of the provider is lost: what the engine has
\* stays, and a token that was used up for it is known to be lost.
LEMMA FailureStep ==
    ASSUME IInv, NEW c \in Client, NotSaved(c) \/ AnswerLost(c)
    PROVE  IInv'
<1>1. /\ call[c].at \in {"save", "write", "ask"} /\ Fault /\ Answered(c)
      /\ UNCHANGED <<up, policies, tools, told, watch, memory, file>>
      /\ call[c].at = "ask" => call[c].op = "chat"
  BY DEF NotSaved, AnswerLost, At, toolVars
<1>2. lock["providers"] = c /\ up # "down"
  <2>1. Own(c)
    BY DEF IInv
  <2> QED BY <1>1, <2>1, Busy DEF Own, Putting, Asking, Saving
<1>3. /\ web' \in [issued : Nat, spent : SUBSET Nat, due : Nat, lost : BOOLEAN, catalog : {1, 2}]
      /\ web'.issued = web.issued /\ web.issued \in Nat
      /\ web'.spent = web.spent \/ (web'.lost /\ web'.spent = web.spent \cup {memory[Codex].token}
                                      /\ memory[Codex] # None)
      /\ web.lost => web'.lost
      /\ call[c].op = "chat" => web'.lost
  <2>1. CASE NotSaved(c)
    BY <2>1 DEF NotSaved, IInv, Typed
  <2>2. CASE AnswerLost(c)
    <3>1. call[c].next = memory[Codex].token /\ memory[Codex] # None /\ memory[Codex].token \in Nat
      BY <2>2, MemoryType, ConfigAssumption DEF AnswerLost, At, IInv, Own, Asking, Typed
    <3>2. web' = [web EXCEPT !.spent = web.spent \cup {call[c].next}, !.lost = TRUE]
      BY <2>2 DEF AnswerLost
    <3> QED BY <3>1, <3>2, ZenonT(30) DEF IInv, Typed
  <2> QED BY <2>1, <2>2
<1>4. /\ DOMAIN call' = Client /\ call'[c] = Resting /\ Kept(c)
      /\ \A d \in Client : d # c => call'[d] = call[d]
  BY <1>1, WasAnswered DEF IInv
<1>5. Own(c)' /\ Shaped(call'[c])
  BY <1>4, RestingOwn
<1>6. TokenGood'
  <2>1. Refreshing => Refreshing' \/ web'.lost
    BY <1>3, <1>4 DEF Refreshing, Saving
  <2>2. memory'[Codex] # None => memory'[Codex].token <= web'.issued
    BY <1>1, <1>2, <1>3 DEF IInv, TokenGood
  <2>3. \A t \in web'.spent : t <= web'.issued
    BY <1>1, <1>2, <1>3 DEF IInv, TokenGood
  <2>4. web'.lost \/ Refreshing' \/ Unspent(memory[Codex])'
    BY <1>1, <1>2, <1>3, <2>1, <2>2 DEF IInv, TokenGood, Unspent
  <2> QED BY <1>1, <1>2, <2>2, <2>3, <2>4 DEF TokenGood
<1>7. Durable' /\ used' \in Bounds /\ (used'.faults = 0 => used.faults = 0)
  BY <1>1, FaultStep DEF IInv, Durable, Tokens
<1> QED BY <1>1, <1>2, <1>3, <1>4, <1>5, <1>6, <1>7, ProviderStep DEF IInv, Typed

\* The file is written and the engine adopts what it says.
LEMMA SavedStep ==
    ASSUME IInv, NEW c \in Client, Saved(c) \/ RefreshSaved(c)
    PROVE  IInv'
<1>1. /\ call[c].at = "write" /\ file' = Tokens(call[c].next) /\ memory' = call[c].next
      /\ UNCHANGED <<up, policies, tools, told, watch, used>>
  BY DEF Saved, RefreshSaved, At, toolVars, restVars
<1>2. Saving(c)
  BY <1>1 DEF Saving
<1>3. /\ lock["providers"] = c /\ call[c].op \in {"login", "logout", "chat"} /\ up # "down"
      /\ call[c].next \in Memory /\ Own(c)
      /\ call[c].op # "chat" /\ call[c].of # Codex => call[c].next[Codex] = memory[Codex]
      /\ call[c].op = "chat" \/ call[c].of = Codex => Unspent(call[c].next[Codex])
  BY <1>2, Writing
<1>4. /\ DOMAIN call' = Client /\ Kept(c) /\ Own(c)' /\ Shaped(call'[c])
      /\ \A d \in Client : d # c => call'[d] = call[d]
  <2>1. CASE Answered(c)
    BY <2>1, WasAnswered, RestingOwn DEF IInv
  <2>2. CASE RefreshSaved(c) /\ GoTo(c, "send", None)
    <3>1. Kept(c)
      BY <2>2 DEF IInv, Typed, RefreshSaved, Released, Kept
    <3>2. "send" \in Calm
      BY DEF Calm
    <3>3. /\ DOMAIN call' = Client /\ \A d \in Client : d # c => call'[d] = call[d]
          /\ call'[c] = [op |-> call[c].op, of |-> call[c].of, at |-> "send", next |-> None]
      BY <2>2, WentTo DEF IInv
    <3> QED BY <1>3, <3>1, <3>2, <3>3, CalmOwn
  <2>3. CASE RefreshSaved(c) /\ call' = [call EXCEPT ![c] = Resting]
    <3>1. Kept(c)
      BY <2>3 DEF IInv, Typed, RefreshSaved, Released, Kept
    <3>2. /\ DOMAIN call' = Client /\ \A d \in Client : d # c => call'[d] = call[d]
          /\ call'[c] = Resting
      BY <2>3, Replaced DEF IInv
    <3> QED BY <3>1, <3>2, RestingOwn
  <2> QED BY <2>1, <2>2, <2>3 DEF Saved, RefreshSaved
<1>5. /\ web' \in [issued : Nat, spent : SUBSET Nat, due : Nat, lost : BOOLEAN, catalog : {1, 2}]
      /\ web'.issued = web.issued /\ web'.spent = web.spent
      /\ web'.lost = web.lost \/ (call[c].op # "chat" /\ call[c].of = Codex)
  BY ZenonT(60) DEF IInv, Typed, Saved, RefreshSaved
<1>6. TokenGood'
  <2>1. CASE call[c].op = "chat" \/ call[c].of = Codex
    BY <1>1, <1>3, <1>5, <2>1 DEF IInv, TokenGood, Unspent
  <2>2. CASE call[c].op # "chat" /\ call[c].of # Codex
    <3>1. Refreshing => Refreshing'
      BY <1>4, <2>2 DEF Refreshing, Saving
    <3>2. memory'[Codex] = memory[Codex] /\ web'.lost = web.lost
      BY <1>1, <1>3, <1>5, <2>2
    <3> QED BY <1>1, <1>3, <1>5, <3>1, <3>2 DEF IInv, TokenGood, Unspent
  <2> QED BY <2>1, <2>2
<1>7. Durable'
  BY <1>1 DEF Durable, Tokens
<1>8. used' \in Bounds /\ file' \in [Provider -> {None} \cup Nat]
  BY <1>1, <1>3, SameUsed, MemoryType, SMTT(30) DEF IInv
<1> QED BY <1>1, <1>3, <1>4, <1>5, <1>6, <1>7, <1>8, ProviderStep

\* The provider takes the refresh token and issues its successor.
LEMMA TokenIssuedStep ==
    ASSUME IInv, NEW c \in Client, TokenIssued(c)
    PROVE  IInv'
<1> DEFINE old == memory[Codex]
           new == [old EXCEPT !.token = web.issued + 1]
           next == [memory EXCEPT ![Codex] = new]
<1>1. /\ call[c].op = "chat" /\ call[c].at = "ask"
      /\ UNCHANGED <<up, policies, tools, told, watch, used, memory, file, lock>>
      /\ GoTo(c, "save", [memory EXCEPT ![Codex].token = web.issued + 1])
      /\ web' = [web EXCEPT !.issued = web.issued + 1, !.spent = web.spent \cup {call[c].next}]
  BY DEF TokenIssued, Rotated, At, toolVars, restVars
<1>2. /\ lock["providers"] = c /\ old # None /\ call[c].next = old.token /\ Own(c) /\ up # "down"
      /\ memory \in Memory
  <2>1. Own(c) /\ memory \in Memory
    BY DEF IInv, Typed
  <2> QED BY <1>1, <2>1, Busy DEF Own, Asking
<1>3. old \in Credential /\ old.token \in Nat /\ old.token <= web.issued /\ web.issued \in Nat
      /\ web.spent \subseteq Nat /\ \A t \in web.spent : t <= web.issued
  BY <1>2, MemoryType, ConfigAssumption DEF IInv, TokenGood, Typed
<1>4. /\ web' \in [issued : Nat, spent : SUBSET Nat, due : Nat, lost : BOOLEAN, catalog : {1, 2}]
      /\ web'.issued = web.issued + 1 /\ web'.spent = web.spent \cup {old.token}
  <2> DEFINE n == web.issued + 1
             spent == web.spent \cup {old.token}
  <2>1. n \in Nat /\ spent \in SUBSET Nat /\ web' = [web EXCEPT !.issued = n, !.spent = spent]
    BY <1>1, <1>2, <1>3
  <2> HIDE DEF n, spent
  <2>2. /\ web' \in [issued : Nat, spent : SUBSET Nat, due : Nat, lost : BOOLEAN, catalog : {1, 2}]
        /\ web'.issued = n /\ web'.spent = spent
    BY <2>1 DEF IInv, Typed
  <2> QED BY <2>2 DEF n, spent
<1>5. new \in Credential /\ new # None /\ new.token = web.issued + 1
  <2>1. web.issued + 1 \in Nat
    BY <1>3
  <2>2. new \in Credential /\ new.token = web.issued + 1
    BY <1>3, <2>1 DEF Credential
  <2> QED BY <2>2, ConfigAssumption
<1>6. next \in Memory /\ next[Codex] = new /\ \A q \in Provider : q # Codex => next[q] = memory[q]
  BY <1>2, <1>5, ConfigAssumption DEF Memory
<1>7. GoTo(c, "save", next)
  BY <1>1, <1>2, ConfigAssumption DEF Memory
<1> HIDE DEF next, new
<1>8. /\ DOMAIN call' = Client
      /\ call'[c] = [op |-> call[c].op, of |-> call[c].of, at |-> "save", next |-> next]
      /\ \A d \in Client : d # c => call'[d] = call[d]
  BY <1>7, WentTo DEF IInv
<1>9. call'[c].op = "chat" /\ call'[c].at = "save" /\ call'[c].next = next /\ Shaped(call'[c])
  BY <1>1, <1>8 DEF Shaped
<1>10. Own(c)'
  <2>1. new.token <= web'.issued /\ new.token \notin web'.spent
    BY <1>3, <1>4, <1>5
  <2>2. Putting(c)'
    BY <1>1, <1>2, <1>5, <1>6, <1>9, <2>1 DEF Putting, Saving, Target, Unspent
  <2> QED BY <1>9, <2>2 DEF Own, Logging, Browsing, Asking, Naming, Serving, Editing, Persisting,
                            Toolers
<1>11. TokenGood'
  <2>1. Refreshing'
    BY <1>9 DEF Refreshing, Saving
  <2> QED BY <1>1, <1>2, <1>3, <1>4, <2>1 DEF TokenGood
<1>12. Durable' /\ Kept(c) /\ used' \in Bounds
  BY <1>1, KeptAll, SameUsed DEF IInv, Durable, Tokens
<1> QED BY <1>1, <1>2, <1>4, <1>8, <1>9, <1>10, <1>11, <1>12, ProviderStep DEF IInv, Typed

-----------------------------------------------------------------------
(* Requests that change tools.json *)

LEMMA ToolsNotSavedStep ==
    ASSUME IInv, NEW c \in Client, ToolsNotSaved(c)
    PROVE  IInv'
<1>1. /\ call[c].at \in {"persist", "edited"} /\ Answered(c) /\ Fault
      /\ UNCHANGED <<up, memory, file, web, policies, tools, told, watch>>
  BY DEF ToolsNotSaved, At, providerVars, toolVars
<1> QED BY <1>1, AnsweredStep DEF Saving

LEMMA ChangePoliciesStep ==
    ASSUME IInv, NEW c \in Client, ChangePolicies(c)
    PROVE  IInv'
<1> DEFINE n == call[c].of
<1>1. /\ call[c].op \in Toolers /\ call[c].at = "start" /\ Free("tools") /\ Own(c) /\ n \in Policy
      /\ UNCHANGED <<up, memory, file, web, tools, told, watch, used>>
      /\ up # "down" /\ ~Saving(c)
  BY Busy DEF ChangePolicies, Toolers, providerVars, restVars, IInv, Own, Naming, Saving
<1>2. CASE Answered(c) /\ UNCHANGED policies
  BY <1>1, <1>2, AnsweredStep DEF NoFault
<1>3. CASE /\ n \in policies <=> call[c].op # "create policy"
           /\ Take(c, "tools") /\ GoTo(c, "persist", None)
           /\ policies' = IF n \in policies THEN policies \ {n} ELSE policies \cup {n}
  <2>1. Kept(c) /\ lock'["tools"] = c
    BY <1>1, <1>3, Took DEF IInv, Lock
  <2>2. /\ DOMAIN call' = Client /\ \A d \in Client : d # c => call'[d] = call[d]
        /\ call'[c] = [op |-> call[c].op, of |-> n, at |-> "persist", next |-> None]
    BY <1>3, WentTo, ZenonT(30) DEF IInv
  <2>3. call'[c].op = call[c].op /\ call'[c].of = n /\ call'[c].at = "persist" /\ Shaped(call'[c])
    BY <2>2 DEF Shaped
  <2> HIDE DEF n
  <2>4. \A d \in Client : call[d].at # "persist"
    BY <1>1, ConfigAssumption DEF IInv, Own, Persisting, Free
  <2>5. up # "down" /\ used.faults = 0 => policies = tools.policies
    BY <2>4 DEF IInv, ToolsTold
  <2>6. policies' \subseteq Policy
    BY <1>1, <1>3 DEF IInv, Typed
  <2>7. up # "down" /\ used.faults = 0 => policies' = Changed(c, tools.policies)'
    <3>1. CASE call[c].op = "create policy"
      BY <1>1, <1>3, <2>3, <2>5, <3>1 DEF Changed
    <3>2. CASE call[c].op # "create policy"
      <4>1. policies' = policies \ {n} /\ tools' = tools /\ up' = up /\ used' = used
        BY <1>1, <1>3, <3>2
      <4> QED BY <2>3, <2>5, <3>2, <4>1 DEF Changed
    <3> QED BY <3>1, <3>2
  <2>8. Own(c)'
    <3>1. Persisting(c)'
      BY <1>1, <2>1, <2>3, <2>7 DEF Persisting
    <3> QED BY <1>1, <2>3, <3>1 DEF Own, Logging, Browsing, Asking, Putting, Saving, Naming, Serving,
                                    Editing, Toolers
  <2>9. ToolsTold'
    BY <1>1, <2>3 DEF IInv, ToolsTold
  <2> QED BY <1>1, <2>1, <2>2, <2>3, <2>6, <2>8, <2>9, ToolStep DEF IInv, Typed
<1>4. (n \in policies) = (call[c].op = "create policy") \/ (n \in policies <=> call[c].op # "create policy")
  <2>1. (n \in policies) \in BOOLEAN /\ (call[c].op = "create policy") \in BOOLEAN
    OBVIOUS
  <2> QED BY <2>1
<1> QED BY <1>2, <1>3, <1>4 DEF ChangePolicies

LEMMA PersistPoliciesStep ==
    ASSUME IInv, NEW c \in Client, PersistPolicies(c)
    PROVE  IInv'
<1>1. /\ call[c].op \in Toolers /\ call[c].at = "persist" /\ Answered(c) /\ Own(c)
      /\ tools' = [tools EXCEPT !.policies = Changed(c, tools.policies)]
      /\ told' = [told EXCEPT !.policies = Changed(c, told.policies)]
      /\ UNCHANGED <<up, memory, file, web, policies, watch, used>>
      /\ up # "down" /\ ~Saving(c) /\ tools = told /\ tools \in Tooling
  BY Busy DEF PersistPolicies, Toolers, providerVars, restVars, IInv, Saving, ToolsTold, Typed
<1>2. /\ lock["tools"] = c /\ call[c].of \in Policy
      /\ up # "down" /\ used.faults = 0 => policies = Changed(c, tools.policies)
  BY <1>1 DEF Own, Persisting
<1>3. /\ DOMAIN call' = Client /\ call'[c] = Resting /\ Kept(c)
      /\ \A d \in Client : d # c => call'[d] = call[d]
  BY <1>1, WasAnswered DEF IInv
<1>4. Own(c)' /\ Shaped(call'[c])
  BY <1>3, RestingOwn
<1>5. tools' \in Tooling /\ tools'.policies = Changed(c, tools.policies)
  <2>1. Changed(c, tools.policies) \subseteq Policy
    BY <1>1, <1>2 DEF Changed, Tooling
  <2> QED BY <1>1, <2>1 DEF Tooling
<1>6. ToolsTold'
  BY <1>1, <1>2, <1>5 DEF ToolsTold
<1> QED BY <1>1, <1>2, <1>3, <1>4, <1>5, <1>6, ToolStep DEF IInv, Typed

\* A request takes the lock of tools.json with what it has read, or changed.
LEMMA ServersTakenStep ==
    ASSUME IInv, NEW c \in Client, NEW a \in {"edited", "authorizing"}, NEW m \in Tooling,
           call[c].op \in {"add", "edit", "remove", "authorize"}, call[c].at = "start",
           m = [tools EXCEPT !.servers[call[c].of] = m.servers[call[c].of]],
           a = "authorizing" => m.servers[call[c].of] # None,
           Free("tools"), Take(c, "tools"), GoTo(c, a, m),
           UNCHANGED <<up, memory, file, web, policies, tools, told, watch, used>>
    PROVE  IInv'
<1> DEFINE n == call[c].of
<1>1. Own(c) /\ n \in Server /\ up # "down" /\ ~Saving(c) /\ tools \in Tooling
  BY Busy DEF IInv, Own, Serving, Saving, Typed
<1>2. Kept(c) /\ lock'["tools"] = c
  BY Took DEF IInv, Lock
<1>3. /\ DOMAIN call' = Client /\ \A d \in Client : d # c => call'[d] = call[d]
      /\ call'[c] = [op |-> call[c].op, of |-> n, at |-> a, next |-> m]
  BY WentTo DEF IInv
<1>4. call'[c].op = call[c].op /\ call'[c].of = n /\ call'[c].at = a /\ call'[c].next = m
  BY <1>3
<1>5. Own(c)'
  <2>1. Editing(c)'
    BY <1>1, <1>2, <1>4 DEF Editing
  <2> QED BY <1>1, <1>4, <2>1 DEF Own, Logging, Browsing, Asking, Putting, Saving, Naming, Serving,
                                  Persisting, Toolers
<1> QED BY <1>1, <1>2, <1>5, ChangingStep

LEMMA EditServersStep ==
    ASSUME IInv, NEW c \in Client, EditServers(c)
    PROVE  IInv'
<1> DEFINE n == call[c].of
<1>1. /\ call[c].op \in {"add", "edit", "remove"} /\ call[c].at = "start" /\ n \in Server
      /\ UNCHANGED <<up, memory, file, web, policies, tools, told, watch, used>>
      /\ ~Saving(c) /\ tools \in Tooling
  BY DEF EditServers, providerVars, toolVars, restVars, IInv, Own, Serving, Saving, Typed
<1>2. CASE Answered(c)
  BY <1>1, <1>2, AnsweredStep DEF NoFault
<1>3. ASSUME Free("tools"), Take(c, "tools"), NEW e \in Edits(call[c].op, tools.servers[n]),
             GoTo(c, "edited", [tools EXCEPT !.servers[n] = e])
      PROVE  IInv'
  <2>1. e \in {None} \cup Endpoints
    <3>1. tools.servers[n] \in {None} \cup Endpoints
      BY <1>1 DEF Tooling
    <3> QED BY <1>1, <1>3, <3>1 DEF Edits, Entry, Endpoints
  <2> DEFINE m == [tools EXCEPT !.servers[n] = e]
  <2>2. m \in Tooling /\ m = [tools EXCEPT !.servers[n] = m.servers[n]] /\ GoTo(c, "edited", m)
    BY <1>1, <1>3, <2>1 DEF Tooling
  <2> HIDE DEF m
  <2> QED BY <1>1, <1>3, <2>2, ServersTakenStep, SMTT(30)
<1> QED BY <1>2, <1>3 DEF EditServers, EntryRefused

LEMMA AuthorizeStep ==
    ASSUME IInv, NEW c \in Client, Authorize(c)
    PROVE  IInv'
<1>1. /\ call[c].op = "authorize" /\ call[c].at = "start" /\ ~Saving(c)
      /\ UNCHANGED <<up, memory, file, web, policies, tools, told, watch, used>>
      /\ call[c].of \in Server /\ tools \in Tooling
  BY DEF Authorize, At, providerVars, toolVars, restVars, IInv, Own, Serving, Saving, Typed
<1>2. CASE Answered(c)
  BY <1>1, <1>2, AnsweredStep DEF NoFault
<1>3. CASE /\ Free("tools") /\ tools.servers[call[c].of] # None
           /\ Take(c, "tools") /\ GoTo(c, "authorizing", tools)
  <2>1. tools = [tools EXCEPT !.servers[call[c].of] = tools.servers[call[c].of]]
    BY <1>1 DEF Tooling
  <2> QED BY <1>1, <1>3, <2>1, ServersTakenStep
<1> QED BY <1>2, <1>3 DEF Authorize

LEMMA NotAuthorizedStep ==
    ASSUME IInv, NEW c \in Client, NotAuthorized(c)
    PROVE  IInv'
<1>1. /\ call[c].at = "authorizing" /\ ~Saving(c) /\ Answered(c)
      /\ UNCHANGED <<up, memory, file, web, policies, tools, told, watch, used>>
  BY DEF NotAuthorized, At, providerVars, toolVars, restVars, Saving
<1> QED BY <1>1, AnsweredStep DEF NoFault

LEMMA AuthorizedStep ==
    ASSUME IInv, NEW c \in Client, Authorized(c)
    PROVE  IInv'
<1> DEFINE n == call[c].of
           x == call[c].next
           e == Entry(x.servers[n].endpoint, x.servers[n].endpoint)
           m == [x EXCEPT !.servers[n] = e]
<1>1. /\ call[c].op = "authorize" /\ call[c].at = "authorizing" /\ GoTo(c, "edited", m)
      /\ UNCHANGED <<up, memory, file, web, policies, tools, told, lock, watch, used>>
      /\ Own(c) /\ ~Saving(c) /\ tools \in Tooling
  BY SMTT(30) DEF Authorized, At, providerVars, toolVars, restVars, IInv, Saving, Typed
<1>2. /\ lock["tools"] = c /\ n \in Server /\ x \in Tooling /\ x.servers[n] # None
      /\ x = [tools EXCEPT !.servers[n] = x.servers[n]]
  BY <1>1, SMTT(30) DEF Own, Editing
<1>3. e \in Endpoints
  <2>1. x.servers[n] \in Endpoints
    BY <1>2 DEF Tooling
  <2> QED BY <2>1 DEF Entry, Endpoints
<1>4. m \in Tooling /\ m = [tools EXCEPT !.servers[n] = m.servers[n]]
  <2> HIDE DEF e
  <2>1. m \in Tooling /\ m.servers[n] = e
    BY <1>2, <1>3 DEF Tooling
  <2>2. m = [tools EXCEPT !.servers[n] = e]
    BY <1>1, <1>2 DEF Tooling
  <2> QED BY <2>1, <2>2
<1> HIDE DEF m
<1>5. /\ DOMAIN call' = Client /\ \A d \in Client : d # c => call'[d] = call[d]
      /\ call'[c] = [op |-> call[c].op, of |-> n, at |-> "edited", next |-> m]
  BY <1>1, WentTo DEF IInv
<1>6. call'[c].op = call[c].op /\ call'[c].of = n /\ call'[c].at = "edited" /\ call'[c].next = m
  BY <1>5
<1>7. Own(c)'
  <2>1. Editing(c)'
    BY <1>1, <1>2, <1>4, <1>6 DEF Editing
  <2> QED BY <1>1, <1>2, <1>6, <2>1 DEF Own, Logging, Browsing, Asking, Putting, Saving, Naming, Serving,
                                  Persisting, Toolers
<1> QED BY <1>1, <1>7, KeptAll, ChangingStep, SMTT(30) DEF IInv

LEMMA SaveServersStep ==
    ASSUME IInv, NEW c \in Client, SaveServers(c)
    PROVE  IInv'
<1> DEFINE n == call[c].of
           m == call[c].next
<1>1. /\ call[c].at = "edited" /\ Answered(c) /\ Own(c) /\ tools' = m
      /\ told' = [told EXCEPT !.servers[n] = m.servers[n]]
      /\ UNCHANGED <<up, memory, file, web, policies, watch, used>>
      /\ up # "down" /\ ~Saving(c) /\ tools = told /\ tools \in Tooling
  BY Busy DEF SaveServers, providerVars, restVars, IInv, Saving, ToolsTold, Typed
<1>2. /\ lock["tools"] = c /\ n \in Server /\ m \in Tooling
      /\ m = [tools EXCEPT !.servers[n] = m.servers[n]]
  BY <1>1 DEF Own, Editing
<1>3. /\ DOMAIN call' = Client /\ call'[c] = Resting /\ Kept(c)
      /\ \A d \in Client : d # c => call'[d] = call[d]
  BY <1>1, WasAnswered DEF IInv
<1>4. Own(c)' /\ Shaped(call'[c])
  BY <1>3, RestingOwn
<1> HIDE DEF n, m
<1>5. tools' = told'
  BY <1>1, <1>2
<1>6. tools'.policies = tools.policies
  BY <1>1, <1>2 DEF Tooling
<1>7. \A d \in Client : d # c => call[d].at # "persist"
  BY <1>2 DEF IInv, Own, Persisting
<1>8. ToolsTold'
  BY <1>1, <1>5, <1>6, <1>7 DEF IInv, ToolsTold
<1> QED BY <1>1, <1>2, <1>3, <1>4, <1>8, ToolStep DEF IInv, Typed

-----------------------------------------------------------------------
(* The environment, the catalogs, and the life of the engine *)

LEMMA QuietStep ==
    ASSUME IInv, UNCHANGED <<memory, file, policies, tools, told, lock, call, used>>,
           up' = up \/ (up # "down" /\ up' = "stopping"),
           watch'.at = "merge" => \A p \in DOMAIN watch'.got : watch'.got[p] \in {1, 2},
           web' \in [issued : Nat, spent : SUBSET Nat, due : Nat, lost : BOOLEAN, catalog : {1, 2}],
           web'.issued = web.issued, web'.spent = web.spent, web'.lost = web.lost
    PROVE  IInv'
<1>1. Typed'
  BY DEF IInv, Typed
<1>2. \A d \in Client : Own(d)'
  <2> SUFFICES ASSUME NEW d \in Client PROVE Own(d)'
    OBVIOUS
  <2>1. Own(d) /\ call'[d] = call[d]
    BY SMTT(30) DEF IInv
  <2>2. Logging(d)' /\ Browsing(d)' /\ Asking(d)' /\ Putting(d)'
    BY <2>1 DEF Own, Logging, Browsing, Asking, Putting, Saving, Target, Unspent
  <2>3. Naming(d)' /\ Serving(d)' /\ Editing(d)'
    BY <2>1 DEF Own, Naming, Serving, Editing
  <2>4. Persisting(d)'
    BY <2>1 DEF Own, Persisting, Changed
  <2> QED BY <2>2, <2>3, <2>4 DEF Own
<1>3. TokenGood'
  BY DEF IInv, TokenGood, Refreshing, Saving, Unspent
<1>4. Durable' /\ Down' /\ ToolsTold'
  BY DEF IInv, Durable, Tokens, Down, ToolsTold
<1> QED BY <1>1, <1>2, <1>3, <1>4 DEF IInv

LEMMA QuietSteps ==
    ASSUME IInv, \/ \E s \in Session : TurnEnds(s)
                 \/ Expire \/ Publish \/ LookAtProviders \/ FetchCatalogs \/ Shutdown
    PROVE  IInv'
<1>1. CASE \E s \in Session : TurnEnds(s)
  BY <1>1, QuietStep DEF TurnEnds, toolVars, restVars, IInv, Typed
<1>2. CASE Expire
  <2>1. web' = [web EXCEPT !.due = web.issued]
    BY <1>2 DEF Expire
  <2> QED BY <1>2, <2>1, QuietStep DEF Expire, toolVars, restVars, IInv, Typed
<1>3. CASE Publish
  <2>1. web' = [web EXCEPT !.catalog = 2]
    BY <1>3 DEF Publish
  <2> QED BY <1>3, <2>1, QuietStep, SMTT(30) DEF Publish, toolVars, restVars, IInv, Typed
<1>4. CASE LookAtProviders
  <2>1. watch'.at = "fetch"
    BY <1>4 DEF LookAtProviders, Asleep
  <2> QED BY <1>4, <2>1, QuietStep DEF LookAtProviders, toolVars, providerVars, IInv, Typed
<1>5. CASE FetchCatalogs
  <2>1. PICK got \in SUBSET watch.seen :
            watch' = [at |-> "merge", seen |-> {}, got |-> [p \in got |-> web.catalog]]
    BY <1>5 DEF FetchCatalogs
  <2>2. \A p \in DOMAIN watch'.got : watch'.got[p] \in {1, 2}
    BY <2>1 DEF IInv, Typed
  <2> QED BY <1>5, <2>2, QuietStep DEF FetchCatalogs, toolVars, providerVars, IInv, Typed
<1>6. CASE Shutdown
  BY <1>6, QuietStep DEF Shutdown, toolVars, providerVars, IInv, Typed
<1> QED BY <1>1, <1>2, <1>3, <1>4, <1>5, <1>6

\* A catalog replaces a catalog: who is logged in, and with what, stays.
LEMMA MergedType ==
    ASSUME Typed, watch.at = "merge"
    PROVE  /\ Merged \in Memory
           /\ \A p \in Provider : Merged[p] = None <=> memory[p] = None
           /\ \A p \in Provider : memory[p] # None => Merged[p].token = memory[p].token
<1> SUFFICES ASSUME NEW p \in Provider
             PROVE  /\ Merged[p] \in {None} \cup Credential
                    /\ Merged[p] = None <=> memory[p] = None
                    /\ memory[p] # None => Merged[p].token = memory[p].token
  BY DEF Merged, Memory
<1>1. CASE p \in DOMAIN watch.got /\ memory[p] # None
  <2>1. memory[p] \in Credential /\ watch.got[p] \in {1, 2}
    BY <1>1 DEF Typed, Memory
  <2>2. Merged[p] = [memory[p] EXCEPT !.catalog = watch.got[p]]
    BY <1>1 DEF Merged
  <2>3. Merged[p] \in Credential /\ Merged[p].token = memory[p].token
    BY <2>1, <2>2 DEF Credential
  <2> QED BY <1>1, <2>3, ConfigAssumption
<1>2. CASE ~(p \in DOMAIN watch.got /\ memory[p] # None)
  BY <1>2 DEF Merged, Typed, Memory
<1> QED BY <1>1, <1>2

LEMMA MergeStep ==
    ASSUME IInv, MergeCatalogs
    PROVE  IInv'
<1>1. /\ watch.at = "merge" /\ Free("providers") /\ watch' = Asleep
      /\ UNCHANGED <<up, file, web, lock, call, used, policies, tools, told>>
      /\ memory' = memory \/ memory' = Merged
  BY DEF MergeCatalogs, CatalogRefused, toolVars
<1>2. /\ memory' \in Memory /\ memory \in Memory
      /\ \A p \in Provider : memory'[p] = None <=> memory[p] = None
      /\ \A p \in Provider : memory[p] # None => memory'[p].token = memory[p].token
  BY <1>1, MergedType DEF IInv, Typed
<1>3. Typed'
  BY <1>1, <1>2, SMTT(30) DEF IInv, Typed, Asleep
<1>4. \A d \in Client : Own(d)'
  <2> SUFFICES ASSUME NEW d \in Client PROVE Own(d)'
    OBVIOUS
  <2>1. Own(d) /\ lock["providers"] # d
    BY <1>1, ConfigAssumption DEF IInv, Free
  <2> QED BY <1>1, <2>1 DEF Own, Logging, Browsing, Asking, Putting, Saving, Naming, Serving,
                            Editing, Persisting, Changed, Toolers
<1>5. TokenGood'
  BY <1>1, <1>2, ConfigAssumption DEF IInv, TokenGood, Refreshing, Saving, Unspent
<1>6. Durable'
  <2>1. Tokens(memory)' = Tokens(memory)
    BY <1>2 DEF Tokens
  <2> QED BY <1>1, <2>1 DEF IInv, Durable
<1>7. Down' /\ ToolsTold'
  BY <1>1 DEF IInv, Down, ToolsTold
<1> QED BY <1>3, <1>4, <1>5, <1>6, <1>7 DEF IInv

LEMMA AllResting ==
    ASSUME call' = [c \in Client |-> Resting]
    PROVE  \A d \in Client : Own(d)' /\ Shaped(call'[d]) /\ call'[d].at = "none"
  BY RestingOwn

LEMMA KillStep ==
    ASSUME IInv, Kill
    PROVE  IInv'
<1>1. /\ up # "down" /\ up' = "down" /\ memory' = [p \in Provider |-> None] /\ policies' = {}
      /\ web' = [web EXCEPT !.lost = @ \/ \E c \in Client : call[c].op = "chat" /\ call[c].at \in {"save", "write"}]
      /\ lock' = Unlocked /\ call' = [c \in Client |-> Resting] /\ watch' = Asleep
      /\ UNCHANGED <<file, tools, told>> /\ Fault
  BY DEF Kill
<1>2. /\ web' \in [issued : Nat, spent : SUBSET Nat, due : Nat, lost : BOOLEAN, catalog : {1, 2}]
      /\ web'.issued = web.issued /\ web'.spent = web.spent
      /\ web'.lost <=> web.lost \/ Refreshing
  <2> DEFINE lost == web.lost \/ \E c \in Client : call[c].op = "chat" /\ call[c].at \in {"save", "write"}
  <2>1. lost \in BOOLEAN /\ (lost <=> web.lost \/ Refreshing) /\ web' = [web EXCEPT !.lost = lost]
    BY <1>1 DEF IInv, Typed, Refreshing, Saving
  <2> HIDE DEF lost
  <2> QED BY <2>1 DEF IInv, Typed
<1>3. used' \in Bounds
  BY <1>1, FaultStep DEF IInv
<1>4. (\A d \in Client : Own(d)') /\ (\A d \in Client : Shaped(call'[d]))
  BY <1>1, AllResting, SMTT(30)
<1>5. Typed'
  <2>1. memory' \in Memory /\ lock' \in [Lock -> Client \cup {None}] /\ DOMAIN call' = Client
    BY <1>1 DEF Memory, Unlocked, Lock
  <2> QED BY <1>1, <1>2, <1>3, <1>4, <2>1 DEF IInv, Typed, Bounds, Asleep, Shaped
<1>6. TokenGood'
  <2>1. file # Torn /\ file[Codex] # None =>
            file[Codex] <= web.issued /\ (web.lost \/ Refreshing \/ file[Codex] \notin web.spent)
    <3> SUFFICES ASSUME file # Torn, file[Codex] # None
                 PROVE  file[Codex] <= web.issued /\ (web.lost \/ Refreshing \/ file[Codex] \notin web.spent)
      OBVIOUS
    <3>1. file[Codex] = IF memory[Codex] = None THEN None ELSE memory[Codex].token
      BY <1>1, MemoryType DEF IInv, Durable, Typed
    <3> QED BY <1>1, <3>1 DEF IInv, TokenGood, Unspent
  <2> QED BY <1>1, <1>2, <2>1 DEF IInv, TokenGood
<1>7. Durable' /\ Down' /\ ToolsTold'
  BY <1>1 DEF IInv, Durable, Down, ToolsTold
<1> QED BY <1>4, <1>5, <1>6, <1>7 DEF IInv

LEMMA StartStep ==
    ASSUME IInv, Start
    PROVE  IInv'
<1>1. /\ up = "down" /\ file # Torn /\ up' = "up" /\ policies' = tools.policies
      /\ memory' = [p \in Provider |-> IF file[p] = None THEN None
                                       ELSE [token |-> file[p], catalog |-> web.catalog]]
      /\ UNCHANGED <<file, web, tools, told, lock, call, watch, used>>
  BY DEF Start, StartProviders, LoadToolConfig
<1>2. file \in [Provider -> {None} \cup Nat] /\ web.catalog \in {1, 2}
  BY <1>1 DEF IInv, Typed
<1>3. \A p \in Provider : file[p] # None => memory'[p] \in Credential /\ memory'[p] # None /\ memory'[p].token = file[p]
  BY <1>1, <1>2, ConfigAssumption DEF Credential
<1>4. \A p \in Provider : file[p] = None => memory'[p] = None
  BY <1>1
<1>5. memory' \in Memory
  BY <1>1, <1>3, <1>4 DEF Memory
<1>6. \A d \in Client : call[d] = Resting /\ call'[d] = Resting
  BY <1>1 DEF IInv, Down
<1>7. \A d \in Client : Own(d)'
  BY <1>6, RestingOwn
<1>8. Typed'
  BY <1>1, <1>5 DEF IInv, Typed, Tooling
<1>9. TokenGood'
  BY <1>1, <1>2, <1>3, <1>4, ConfigAssumption DEF IInv, TokenGood, Unspent
<1>10. Durable'
  <2>1. Tokens(memory)' = file
    BY <1>2, <1>3, <1>4 DEF Tokens
  <2> QED BY <1>1, <2>1 DEF Durable
<1>11. Down' /\ ToolsTold'
  BY <1>1 DEF IInv, Down, ToolsTold
<1> QED BY <1>7, <1>8, <1>9, <1>10, <1>11 DEF IInv

-----------------------------------------------------------------------
(* The invariant and the theorems *)

LEMMA Initially == Init => IInv
<1> SUFFICES ASSUME Init PROVE IInv
  OBVIOUS
<1>1. /\ up = "up" /\ memory = [p \in Provider |-> None] /\ file = [p \in Provider |-> None]
      /\ web = [issued |-> 0, spent |-> {}, due |-> 0, lost |-> FALSE, catalog |-> 1]
      /\ policies = {} /\ tools = [servers |-> [n \in Server |-> None], policies |-> {}]
      /\ told = tools /\ lock = Unlocked /\ call = [c \in Client |-> Resting] /\ watch = Asleep
      /\ used \in [calls : {0}, faults : {0}, ops : Ops]
  BY DEF Init
<1>2. \A c \in Client : Own(c) /\ Shaped(call[c])
  BY <1>1 DEF Resting, Own, Logging, Browsing, Asking, Putting, Saving, Naming, Serving, Editing,
         Persisting, Toolers, Shaped
<1>3. Typed
  <2>1. memory \in Memory /\ lock \in [Lock -> Client \cup {None}] /\ DOMAIN call = Client
        /\ tools \in Tooling /\ watch.at # "merge"
    BY <1>1 DEF Memory, Unlocked, Lock, Tooling, Asleep
  <2>2. used \in [calls : Nat, faults : Nat, ops : Ops]
    BY <1>1
  <2>3. web \in [issued : Nat, spent : SUBSET Nat, due : Nat, lost : BOOLEAN, catalog : {1, 2}]
    BY <1>1
  <2>4. file \in [Provider -> {None} \cup Nat] /\ policies \subseteq Policy /\ up \in {"up", "stopping", "down"}
    BY <1>1
  <2> QED BY <1>2, <2>1, <2>2, <2>3, <2>4 DEF Typed, Shaped
<1>4. TokenGood /\ Durable /\ Down /\ ToolsTold
  BY <1>1, ConfigAssumption DEF TokenGood, Unspent, Durable, Tokens, Down, ToolsTold
<1> QED BY <1>2, <1>3, <1>4 DEF IInv

LEMMA Preserved == IInv /\ [Next]_vars => IInv'
<1> SUFFICES ASSUME IInv, [Next]_vars PROVE IInv'
  OBVIOUS
<1>1. ASSUME NEW c \in Client, Request(c) \/ Serve(c) \/ Fails(c) PROVE IInv'
  BY <1>1, RequestStep, CalmSteps, LoginSteps, AuthenticatedStep, OpenFileStep, FailureStep, SavedStep,
     TokenIssuedStep, ToolsNotSavedStep, ChangePoliciesStep, PersistPoliciesStep, EditServersStep,
     AuthorizeStep, AuthorizedStep, NotAuthorizedStep, SaveServersStep, SMTT(30) DEF Serve, Fails
<1>2. CASE UNCHANGED vars
  BY <1>2, QuietStep DEF vars, IInv, Typed
<1> QED BY <1>1, <1>2, QuietSteps, MergeStep, KillStep, StartStep DEF Next

LEMMA Invariant == Spec => []IInv
  BY Initially, Preserved, PTL DEF Spec

\* models.json holds the credentials that the engine uses, and tools.json what
\* every request was told, whatever overlaps, fails or is killed (engine/
\* provider.go, engine/mcp.go, engine/policy.go).
THEOREM ConfigurationIsDurable == Spec => []ConfigDurable
<1>1. IInv => ConfigDurable
  <2> SUFFICES ASSUME IInv PROVE ConfigDurable
    OBVIOUS
  <2>1. LoginsDurable
    BY DEF IInv, Durable, LoginsDurable
  <2>2. ToolsKept
    <3>1. Free("tools") => \A c \in Client : call[c].at # "persist"
      BY ConfigAssumption DEF IInv, Own, Persisting, Free
    <3> QED BY <3>1 DEF IInv, ToolsTold, ToolsKept
  <2> QED BY <2>1, <2>2 DEF ConfigDurable
<1> QED BY <1>1, Invariant, PTL

\* A refresh token of codex is sent twice only after its successor was lost
\* (RefreshProviderAuth holds providerMu over the request and the save).
THEOREM TokensAreUsedOnce == Spec => []RefreshedOnce
<1>1. IInv => RefreshedOnce
  <2> SUFFICES ASSUME IInv, NEW c \in Client, At(c, "chat", "ask"), call[c].next \in web.spent
               PROVE  web.lost
    BY DEF RefreshedOnce
  <2>1. /\ lock["providers"] = c /\ memory[Codex] # None /\ call[c].next = memory[Codex].token
        /\ up # "down" /\ call[c].at = "ask"
    BY Busy DEF IInv, Own, Asking, At
  <2>2. ~Refreshing
    BY <2>1 DEF IInv, Own, Putting, Refreshing, Saving
  <2> QED BY <2>1, <2>2 DEF IInv, TokenGood, Unspent
<1> QED BY <1>1, Invariant, PTL

\* Only a login or a restart makes a provider appear: a refresh of the
\* catalogs or of a token does not undo a logout (refreshManagedProviderCatalogs).
THEOREM LogoutsStick == Spec => LogoutSticks
<1>1. IInv /\ [Next]_vars =>
        [\A p \in Provider : memory[p] = None /\ memory'[p] # None
          => \/ up = "down"
             \/ \E c \in Client : call[c].op = "login" /\ call[c].of = p /\ call'[c] = Resting]_vars
  <2> SUFFICES ASSUME IInv, Next, NEW p \in Provider, memory[p] = None, memory'[p] # None, up # "down"
               PROVE  \E c \in Client : call[c].op = "login" /\ call[c].of = p /\ call'[c] = Resting
    BY DEF vars
  <2>1. ASSUME NEW c \in Client, Saved(c) \/ RefreshSaved(c)
        PROVE  call[c].op = "login" /\ call[c].of = p /\ call'[c] = Resting
    <3>1. call[c].at = "write" /\ memory' = call[c].next
      BY <2>1 DEF Saved, RefreshSaved, At
    <3>2. /\ call[c].op \in {"login", "logout", "chat"}
          /\ call[c].op = "chat" => memory[Codex] # None
          /\ call[c].op = "logout" => call[c].next[call[c].of] = None
          /\ \A q \in Provider : q # Target(c) => call[c].next[q] = memory[q]
      BY <3>1 DEF IInv, Own, Putting, Saving
    <3>3. call[c].op = "login" /\ call[c].of = p
      BY <3>1, <3>2 DEF Target
    <3>4. Saved(c)
      BY <2>1, <3>3 DEF RefreshSaved, At
    <3> QED BY <3>3, <3>4, WasAnswered DEF Saved, IInv
  <2>2. CASE MergeCatalogs
    BY <2>2, MergedType DEF MergeCatalogs, CatalogRefused, IInv
  <2>3. CASE Kill \/ Start
    BY <2>3 DEF Kill, Start, StartProviders
  <2>4. CASE \/ \E s \in Session : TurnEnds(s)
             \/ Expire \/ Publish \/ LookAtProviders \/ FetchCatalogs \/ Shutdown
    BY <2>4 DEF TurnEnds, Expire, Publish, LookAtProviders, FetchCatalogs, Shutdown, providerVars
  <2>5. ASSUME NEW c \in Client, Request(c) \/ (Serve(c) /\ ~Saved(c) /\ ~RefreshSaved(c)) \/ Fails(c)
        PROVE  FALSE
    <3>1. UNCHANGED memory
      BY <2>5 DEF Request, Serve, Fails, Login, LoginFails, Authenticated, WithCatalog, Logout, OpenFile,
             Load, Lookup, Manage, Chat, Refreshed, AskProvider, TokenIssued, TokenRefused, Send,
             ChangePolicies, PersistPolicies, EditServers, Authorize, Authorized, NotAuthorized,
             SaveServers, NotSaved, AnswerLost,
             ToolsNotSaved, providerVars
    <3> QED BY <3>1, SMTT(100)
  <2> QED BY <2>1, <2>2, <2>3, <2>4, <2>5 DEF Next
<1> QED BY <1>1, Invariant, PTL DEF Spec, LogoutSticks

\* No refresh token is used twice and no logout undone, whatever requests and
\* refreshes of the catalogs overlap (engine.go, provider.go, autostart.go).
THEOREM CredentialsAreKept == Spec => CredentialsKept
  BY TokensAreUsedOnce, LogoutsStick, PTL DEF CredentialsKept

-----------------------------------------------------------------------
(* The connections to the MCP servers *)

Found == [todo : SUBSET (Listing \cup {"connection"}), failed : BOOLEAN,
          tools : SUBSET Tool, uris : SUBSET Uri]
Linked == {"merging", "starting", "live"}

ConnectionsTyped ==
    /\ owner \in {"session", "probe"} /\ over \in BOOLEAN
    /\ offers \in [McpServer -> Offer] /\ asked \subseteq McpServer
    /\ link \in [McpServer -> {"none", "open", "closed"}]
    /\ found \in [McpServer -> Found]
    /\ routes \in [Tool -> McpServer \cup {Nobody}]
    /\ readers \in [Uri -> McpServer \cup {Nobody}]
    /\ kept \subseteq asked /\ absent \subseteq asked /\ kept \cap absent = {}
    /\ mcpCall \in [Caller -> [refs : SUBSET Uri, asks : Tool \cup Uri \cup {Nobody},
                               to : McpServer \cup {Nobody}]]

\* What the listing of a server holds, by how far it is: a listing of the
\* tools that is over and has no error is complete.
Listings ==
    \A s \in McpServer :
        LET f == found[s] IN
          /\ f.uris \subseteq offers[s].uris
          /\ f.todo \subseteq Listing \/ f.todo = {"connection"}
          /\ link[s] = "none" => f.todo = {"connection"} \/ (f.todo = {} /\ f.failed)
          /\ f.todo = {"connection"} => link[s] = "none"
          /\ f.todo \subseteq Listing \ {"tools"} /\ ~f.failed => f.tools = offers[s].tools
          /\ manager # "connecting" /\ s \in asked => f.todo = {}

\* The connections that are open, by how far the manager is.
Links ==
    /\ manager = "connecting" => kept = {} /\ absent = {}
    /\ manager \in {"connecting", "merging"} =>
          \A s \in McpServer : link[s] = "closed" => s \in absent
    /\ manager \in {"starting", "live", "closing", "closed"} => asked = kept \cup absent
    /\ manager \in Linked => \A s \in kept : link[s] = "open"
    /\ \A s \in McpServer : link[s] = "open" => s \in asked \ absent
    /\ manager = "closed" => \A s \in kept : link[s] # "open"

\* What is bound is offered by a server that was kept, and all it offers is.
Bindings ==
    /\ \A t \in Tool : routes[t] # Nobody => routes[t] \in kept /\ t \in offers[routes[t]].tools
    /\ \A u \in Uri : readers[u] # Nobody => readers[u] \in kept /\ u \in offers[readers[u]].uris
    /\ \A s \in kept : \A t \in offers[s].tools : routes[t] = s

ConnectionsInv == ConnectionsTyped /\ Listings /\ Links /\ Bindings /\ CallsAreRouted

LEMMA ConnectionsInitially == ConnectionsInit => ConnectionsInv
<1> SUFFICES ASSUME ConnectionsInit PROVE ConnectionsInv
  OBVIOUS
<1>1. ConnectionsTyped
  BY DEF ConnectionsInit, ConnectionsTyped, Found, Unlisted, Quiet, Listing
<1>2. \A s \in McpServer : found[s] = Unlisted /\ link[s] = "none"
  BY DEF ConnectionsInit
<1>3. Unlisted.todo = {"connection"} /\ Unlisted.uris = {} /\ ~({"connection"} \subseteq Listing \ {"tools"})
  BY DEF Unlisted, Listing
<1>4. Listings
  BY <1>2, <1>3 DEF Listings, ConnectionsInit
<1>5. Links /\ Bindings
  BY <1>2, ConnectionsAssumption DEF ConnectionsInit, Links, Bindings, Linked
<1>6. CallsAreRouted
  BY DEF ConnectionsInit, CallsAreRouted, Asks, Quiet
<1> QED BY <1>1, <1>4, <1>5, <1>6 DEF ConnectionsInv

\* The calls are as they were, and so is what they rest on.
LEMMA CallsKept ==
    ASSUME ConnectionsInv, UNCHANGED <<mcpCall, offers>>, kept \subseteq kept'
    PROVE  CallsAreRouted'
  BY DEF ConnectionsInv, CallsAreRouted, Asks

\* One goroutine of the discovery takes a step with one server.
LEMMA DiscoveryStep ==
    ASSUME ConnectionsInv, NEW s \in McpServer, NEW f \in Found, NEW l \in Listing \cup {"connection"},
           Connecting(s, l), found' = [found EXCEPT ![s] = f],
           UNCHANGED <<setup, manager, over, bindings, mcpCall>>,
           \/ UNCHANGED link
           \/ l = "connection" /\ link' = [link EXCEPT ![s] = "open"],
           f.uris \subseteq offers[s].uris, f.todo \subseteq Listing,
           link'[s] = "none" => f.todo = {} /\ f.failed,
           "tools" \notin f.todo /\ ~f.failed => f.tools = offers[s].tools
    PROVE  ConnectionsInv'
<1>1. ConnectionsTyped'
  BY DEF ConnectionsInv, ConnectionsTyped, setup, bindings
<1>2. manager = "connecting" /\ s \in asked /\ found'[s] = f
      /\ \A r \in McpServer : r # s => found'[r] = found[r] /\ link'[r] = link[r]
      /\ kept = {} /\ absent = {}
  BY DEF ConnectionsInv, ConnectionsTyped, Connecting, Links
<1>3. Listings'
  <2> SUFFICES ASSUME NEW r \in McpServer
               PROVE  /\ found[r]'.uris \subseteq offers[r]'.uris
                      /\ found[r]'.todo \subseteq Listing \/ found[r]'.todo = {"connection"}
                      /\ link[r]' = "none" =>
                            found[r]'.todo = {"connection"} \/ (found[r]'.todo = {} /\ found[r]'.failed)
                      /\ found[r]'.todo = {"connection"} => link[r]' = "none"
                      /\ found[r]'.todo \subseteq Listing \ {"tools"} /\ ~found[r]'.failed
                            => found[r]'.tools = offers[r]'.tools
    BY <1>2 DEF Listings, setup
  <2>1. CASE r = s
    <3>1. f.todo # {"connection"}
      <4>1. "connection" \notin Listing /\ "connection" \in {"connection"}
        BY DEF Listing
      <4> QED BY <4>1
    <3>2. found'[r] = f /\ offers' = offers
      BY <1>2, <2>1 DEF setup
    <3> QED BY <3>1, <3>2, <2>1
  <2>2. CASE r # s
    BY <1>2, <2>2 DEF ConnectionsInv, Listings, setup
  <2> QED BY <2>1, <2>2
<1>4. Links'
  BY <1>2, <1>1 DEF ConnectionsInv, Links, ConnectionsTyped, setup, bindings, Linked
<1>5. Bindings'
  BY DEF ConnectionsInv, Bindings, setup, bindings
<1> QED BY <1>1, <1>3, <1>4, <1>5, CallsKept DEF ConnectionsInv, setup, bindings

LEMMA DiscoverySteps ==
    ASSUME ConnectionsInv, NEW s \in McpServer,
           \/ Connected(s) \/ NotConnected(s) \/ ToolsListed(s) \/ ToolsNotListed(s)
           \/ PromptsListed(s) \/ ResourcesListed(s) \/ ResourcesNotListed(s)
    PROVE  ConnectionsInv'
<1> DEFINE f == found[s]
<1>1. /\ f \in Found /\ f.uris \subseteq offers[s].uris /\ offers[s] \in Offer
      /\ f.todo \subseteq Listing \/ f.todo = {"connection"}
      /\ link[s] = "none" => f.todo = {"connection"} \/ (f.todo = {} /\ f.failed)
      /\ f.todo \subseteq Listing \ {"tools"} /\ ~f.failed => f.tools = offers[s].tools
      /\ s \in DOMAIN link
  BY DEF ConnectionsInv, ConnectionsTyped, Listings
<1> HIDE DEF f
<1>2. ASSUME NEW g \in Found, NEW l \in Listing, Listed(s, l, g),
             g.uris \subseteq offers[s].uris, g.todo = f.todo,
             l # "tools" => g.tools = f.tools /\ (f.failed => g.failed),
             l = "tools" /\ ~g.failed => g.tools = offers[s].tools
      PROVE  ConnectionsInv'
  <2> DEFINE h == [g EXCEPT !.todo = @ \ {l}]
  <2>1. /\ h \in Found /\ h.uris = g.uris /\ h.failed = g.failed /\ h.tools = g.tools
        /\ h.todo = g.todo \ {l}
    BY <1>2 DEF Found
  <2>2. found' = [found EXCEPT ![s] = h] /\ Connecting(s, l)
        /\ UNCHANGED <<setup, manager, over, link, bindings, mcpCall>>
    BY <1>2 DEF Listed
  <2> HIDE DEF h
  <2>3. l \in f.todo /\ f.todo \subseteq Listing /\ link'[s] # "none"
    BY <1>1, <1>2, <2>2 DEF Connecting, Listing, f
  <2>4. "tools" \notin h.todo /\ ~h.failed => h.tools = offers[s].tools
    BY <1>1, <1>2, <2>1, <2>3, SMTT(30)
  <2> QED BY <1>2, <2>1, <2>2, <2>3, <2>4, DiscoveryStep
<1>3. CASE Connected(s)
  <2> DEFINE g == [f EXCEPT !.todo = Listing]
  <2>1. /\ g \in Found /\ g.uris = f.uris /\ g.todo = Listing
        /\ found' = [found EXCEPT ![s] = g]
    BY <1>1, <1>3 DEF Connected, Found, f, ConnectionsInv, ConnectionsTyped
  <2> HIDE DEF g
  <2>2. /\ Connecting(s, "connection") /\ link' = [link EXCEPT ![s] = "open"]
        /\ UNCHANGED <<setup, manager, over, bindings, mcpCall>>
    BY <1>3 DEF Connected
  <2>3. link'[s] = "open"
    BY <1>1, <2>2
  <2> QED BY <1>1, <2>1, <2>2, <2>3, DiscoveryStep DEF Listing
<1>4. CASE NotConnected(s)
  <2> DEFINE g == [f EXCEPT !.todo = {}, !.failed = TRUE]
  <2>1. /\ g \in Found /\ g.uris = f.uris /\ g.todo = {} /\ g.failed
        /\ found' = [found EXCEPT ![s] = g]
    BY <1>1, <1>4 DEF NotConnected, Found, f, ConnectionsInv, ConnectionsTyped
  <2> HIDE DEF g
  <2>2. /\ Connecting(s, "connection")
        /\ UNCHANGED <<setup, manager, over, link, bindings, mcpCall>>
    BY <1>4 DEF NotConnected
  <2> QED BY <1>1, <2>1, <2>2, DiscoveryStep
<1>5. CASE ToolsListed(s)
  <2> DEFINE g == [f EXCEPT !.tools = offers[s].tools, !.failed = FALSE]
  <2>1. /\ g \in Found /\ g.uris = f.uris /\ g.todo = f.todo /\ g.tools = offers[s].tools
        /\ Listed(s, "tools", g)
    BY <1>1, <1>5 DEF ToolsListed, Found, Offer, f
  <2> HIDE DEF g
  <2> QED BY <1>1, <1>2, <2>1 DEF Listing
<1>6. CASE ToolsNotListed(s)
  <2>1. PICK part \in SUBSET offers[s].tools :
            Listed(s, "tools", [f EXCEPT !.tools = part, !.failed = TRUE])
    BY <1>6 DEF ToolsNotListed, f
  <2> DEFINE g == [f EXCEPT !.tools = part, !.failed = TRUE]
  <2>2. g \in Found /\ g.uris = f.uris /\ g.todo = f.todo /\ g.failed /\ Listed(s, "tools", g)
    BY <1>1, <2>1 DEF Found, Offer
  <2> HIDE DEF g
  <2> QED BY <1>1, <1>2, <2>2 DEF Listing
<1>7. CASE PromptsListed(s)
  <2>1. PICK err \in BOOLEAN : Listed(s, "prompts", [f EXCEPT !.failed = @ \/ err])
    BY <1>7 DEF PromptsListed, f
  <2> DEFINE g == [f EXCEPT !.failed = @ \/ err]
  <2>2. /\ g \in Found /\ g.uris = f.uris /\ g.todo = f.todo /\ g.tools = f.tools
        /\ Listed(s, "prompts", g)
    BY <1>1, <2>1 DEF Found
  <2>3. f.failed => g.failed
    BY <1>1 DEF Found
  <2> HIDE DEF g
  <2> QED BY <1>1, <1>2, <2>2, <2>3 DEF Listing
<1>8. CASE ResourcesListed(s)
  <2> DEFINE g == [f EXCEPT !.uris = offers[s].uris]
  <2>1. /\ g \in Found /\ g.uris = offers[s].uris /\ g.todo = f.todo /\ g.tools = f.tools
        /\ g.failed = f.failed /\ Listed(s, "resources", g)
    BY <1>1, <1>8 DEF ResourcesListed, Found, Offer, f
  <2> HIDE DEF g
  <2> QED BY <1>1, <1>2, <2>1 DEF Listing
<1>9. CASE ResourcesNotListed(s)
  <2>1. PICK part \in SUBSET offers[s].uris :
            Listed(s, "resources", [f EXCEPT !.uris = part, !.failed = TRUE])
    BY <1>9 DEF ResourcesNotListed, f
  <2> DEFINE g == [f EXCEPT !.uris = part, !.failed = TRUE]
  <2>2. /\ g \in Found /\ g.uris = part /\ g.todo = f.todo /\ g.tools = f.tools
        /\ g.failed /\ Listed(s, "resources", g)
    BY <1>1, <2>1 DEF Found, Offer
  <2> HIDE DEF g
  <2> QED BY <1>1, <1>2, <2>2, SMTT(30) DEF Listing
<1> QED BY <1>3, <1>4, <1>5, <1>6, <1>7, <1>8, <1>9

LEMMA LeaveOutStep ==
    ASSUME ConnectionsInv, NEW s \in McpServer, LeaveOut(s)
    PROVE  ConnectionsInv'
<1>1. /\ manager = "merging" /\ s \in asked /\ s \notin kept /\ absent' = absent \cup {s}
      /\ UNCHANGED <<setup, manager, over, found, routes, readers, kept, mcpCall>>
      /\ link'[s] = IF link[s] = "open" THEN "closed" ELSE link[s]
      /\ \A r \in McpServer : r # s => link'[r] = link[r]
      /\ link' \in [McpServer -> {"none", "open", "closed"}]
  BY DEF LeaveOut, Merging, ConnectionsInv, ConnectionsTyped
<1>2. ConnectionsTyped'
  BY <1>1 DEF ConnectionsInv, ConnectionsTyped, setup
<1>3. Listings'
  <2>1. \A r \in McpServer : (link'[r] = "none") <=> (link[r] = "none")
    BY <1>1
  <2> QED BY <1>1, <2>1 DEF ConnectionsInv, Listings, setup
<1>4. Links'
  BY <1>1 DEF ConnectionsInv, ConnectionsTyped, Links, Linked, setup
<1>5. Bindings'
  BY <1>1 DEF ConnectionsInv, Bindings, setup
<1> QED BY <1>1, <1>2, <1>3, <1>4, <1>5, CallsKept DEF ConnectionsInv, setup

LEMMA MergeServerStep ==
    ASSUME ConnectionsInv, NEW s \in McpServer, Merge(s)
    PROVE  ConnectionsInv'
<1>1. /\ manager = "merging" /\ s \in asked /\ s \notin kept /\ s \notin absent
      /\ ~found[s].failed /\ ~Claimed(s) /\ kept' = kept \cup {s}
      /\ routes' = Bound(routes, found[s].tools, s)
      /\ readers' = Bound(readers, found[s].uris, s)
      /\ UNCHANGED <<setup, manager, over, link, found, absent, mcpCall>>
  BY DEF Merge, Merging
<1>2. found[s].todo = {} /\ found[s].tools = offers[s].tools /\ found[s].uris \subseteq offers[s].uris
      /\ link[s] = "open"
  <2>1. found[s].todo = {}
    BY <1>1 DEF ConnectionsInv, Listings
  <2> QED BY <1>1, <2>1, ZenonT(30) DEF ConnectionsInv, Listings, Links, ConnectionsTyped
<1>3. /\ DOMAIN routes = Tool /\ DOMAIN readers = Uri
      /\ routes' \in [Tool -> McpServer \cup {Nobody}] /\ readers' \in [Uri -> McpServer \cup {Nobody}]
  BY <1>1 DEF ConnectionsInv, ConnectionsTyped, Bound
<1>4. ConnectionsTyped'
  BY <1>1, <1>3 DEF ConnectionsInv, ConnectionsTyped, setup
<1>5. Listings' /\ Links'
  BY <1>1, <1>2, SMTT(30) DEF ConnectionsInv, Listings, Links, Linked, setup
<1>6. Bindings'
  <2>1. \A t \in Tool : routes'[t] = IF t \in offers[s].tools /\ routes[t] = Nobody THEN s ELSE routes[t]
    BY <1>1, <1>2, <1>3 DEF Bound
  <2>2. \A u \in Uri : readers'[u] = IF u \in found[s].uris /\ readers[u] = Nobody THEN s ELSE readers[u]
    BY <1>1, <1>3 DEF Bound
  <2>3. \A t \in offers[s].tools : routes[t] = Nobody /\ t \in Tool
    BY <1>1, <1>2 DEF Claimed, ConnectionsInv, ConnectionsTyped, Offer
  <2>4. \A r \in kept : \A t \in offers[r].tools : routes[t] = r /\ r # Nobody /\ t \in Tool
    BY ConnectionsAssumption DEF ConnectionsInv, Bindings, ConnectionsTyped, Offer
  <2>5. offers' = offers
    BY <1>1 DEF setup
  <2> QED BY <1>1, <1>2, <2>1, <2>2, <2>3, <2>4, <2>5 DEF ConnectionsInv, Bindings
<1> QED BY <1>1, <1>4, <1>5, <1>6, CallsKept DEF ConnectionsInv, setup

\* The manager, and nothing it holds, changes.
LEMMA ManagerStep ==
    ASSUME ConnectionsInv,
           \/ AllConnected \/ AllMerged \/ SessionStarts \/ SessionFails
           \/ Interrupted \/ BeginClose \/ CloseEnds
    PROVE  ConnectionsInv'
<1>1. UNCHANGED <<setup, link, found, bindings, mcpCall>> /\ over' \in BOOLEAN
  BY DEF AllConnected, AllMerged, SessionStarts, SessionFails, Interrupted, BeginClose, CloseEnds,
         ConnectionsInv, ConnectionsTyped
<1>2. ConnectionsTyped' /\ Bindings'
  BY <1>1 DEF ConnectionsInv, ConnectionsTyped, Bindings, setup, bindings
<1>3. Listings'
  BY <1>1 DEF ConnectionsInv, Listings, setup, AllConnected, AllMerged, SessionStarts, SessionFails,
              Interrupted, BeginClose, CloseEnds
<1>4. Links'
  BY <1>1 DEF ConnectionsInv, ConnectionsTyped, Links, Linked, setup, bindings, AllConnected, AllMerged,
              SessionStarts, SessionFails, Interrupted, BeginClose, CloseEnds
<1> QED BY <1>1, <1>2, <1>3, <1>4, CallsKept DEF ConnectionsInv, setup, bindings

LEMMA CloseLinkStep ==
    ASSUME ConnectionsInv, NEW s \in McpServer, CloseLink(s)
    PROVE  ConnectionsInv'
<1>1. /\ manager = "closing" /\ link[s] = "open" /\ link'[s] = "closed"
      /\ \A r \in McpServer : r # s => link'[r] = link[r]
      /\ link' \in [McpServer -> {"none", "open", "closed"}]
      /\ UNCHANGED <<setup, manager, over, found, bindings, mcpCall>>
  BY DEF CloseLink, ConnectionsInv, ConnectionsTyped
<1>2. ConnectionsTyped' /\ Bindings'
  BY <1>1 DEF ConnectionsInv, ConnectionsTyped, Bindings, setup, bindings
<1>3. Listings'
  <2>1. \A r \in McpServer : (link'[r] = "none") <=> (link[r] = "none")
    BY <1>1
  <2> QED BY <1>1, <2>1 DEF ConnectionsInv, Listings, setup
<1>4. Links'
  BY <1>1 DEF ConnectionsInv, ConnectionsTyped, Links, Linked, setup, bindings
<1> QED BY <1>1, <1>2, <1>3, <1>4, CallsKept DEF ConnectionsInv, setup, bindings

LEMMA CallerStep ==
    ASSUME ConnectionsInv, NEW k \in Caller, CallTool(k) \/ RenderPrompt(k) \/ Refer(k) \/ Read(k) \/ Return(k)
    PROVE  ConnectionsInv'
<1>1. UNCHANGED <<setup, manager, over, link, found, bindings>>
  BY DEF CallTool, RenderPrompt, Refer, Read, Return
<1>2. Listings' /\ Links' /\ Bindings'
  BY <1>1 DEF ConnectionsInv, Listings, Links, Bindings, Linked, setup, bindings
<1>3. mcpCall[k] \in [refs : SUBSET Uri, asks : Tool \cup Uri \cup {Nobody}, to : McpServer \cup {Nobody}]
      /\ k \in DOMAIN mcpCall
  BY DEF ConnectionsInv, ConnectionsTyped
<1> DEFINE Call == [refs : SUBSET Uri, asks : Tool \cup Uri \cup {Nobody}, to : McpServer \cup {Nobody}]
<1>4. PICK c \in Call :
        /\ mcpCall' = [mcpCall EXCEPT ![k] = c]
        /\ c.to # Nobody => \/ c.to = mcpCall[k].to /\ c.asks = mcpCall[k].asks
                            \/ c.asks = Nobody /\ c.to \in kept
                            \/ c.asks \in Tool /\ c.to = routes[c.asks]
                            \/ c.asks \in Uri /\ c.to = readers[c.asks]
  <2>1. CASE CallTool(k)
    <3>1. PICK t \in Tool : routes[t] # Nobody /\ Ask(k, t, routes[t])
      BY <2>1 DEF CallTool
    <3> DEFINE c == [mcpCall[k] EXCEPT !.asks = t, !.to = routes[t]]
    <3>2. c \in Call /\ c.asks = t /\ c.to = routes[t]
      BY <1>3, <3>1 DEF ConnectionsInv, ConnectionsTyped
    <3>3. mcpCall' = [mcpCall EXCEPT ![k] = c]
      BY <1>3, <3>1 DEF Ask
    <3> QED BY <3>2, <3>3
  <2>2. CASE Refer(k)
    <3>1. PICK refs \in SUBSET Uri : mcpCall' = [mcpCall EXCEPT ![k].refs = refs]
      BY <2>2 DEF Refer
    <3> DEFINE c == [mcpCall[k] EXCEPT !.refs = refs]
    <3>2. c \in Call /\ c.asks = mcpCall[k].asks /\ c.to = mcpCall[k].to
      BY <1>3
    <3>3. mcpCall' = [mcpCall EXCEPT ![k] = c]
      BY <1>3, <3>1
    <3> QED BY <3>2, <3>3
  <2>3. CASE Read(k)
    <3>1. PICK u \in mcpCall[k].refs :
              \/ mcpCall' = [mcpCall EXCEPT ![k].refs = @ \ {u}]
              \/ Ask(k, u, readers[u])
      BY <2>3 DEF Read
    <3>2. u \in Uri
      BY <1>3
    <3>3. CASE mcpCall' = [mcpCall EXCEPT ![k].refs = @ \ {u}]
      <4> DEFINE c == [mcpCall[k] EXCEPT !.refs = @ \ {u}]
      <4>1. c \in Call /\ c.asks = mcpCall[k].asks /\ c.to = mcpCall[k].to
        BY <1>3
      <4>2. mcpCall' = [mcpCall EXCEPT ![k] = c]
        BY <1>3, <3>3
      <4> QED BY <4>1, <4>2
    <3>4. CASE Ask(k, u, readers[u])
      <4> DEFINE c == [mcpCall[k] EXCEPT !.asks = u, !.to = readers[u]]
      <4>1. c \in Call /\ c.asks = u /\ c.to = readers[u]
        BY <1>3, <3>2 DEF ConnectionsInv, ConnectionsTyped
      <4>2. mcpCall' = [mcpCall EXCEPT ![k] = c]
        BY <1>3, <3>4 DEF Ask
      <4> QED BY <3>2, <4>1, <4>2
    <3> QED BY <3>1, <3>3, <3>4
  <2>4. CASE Return(k)
    <3> DEFINE c == [Quiet EXCEPT !.refs = mcpCall[k].refs \ {mcpCall[k].asks}]
    <3>1. c \in Call /\ c.to = Nobody
      BY <1>3 DEF Quiet
    <3>2. mcpCall' = [mcpCall EXCEPT ![k] = c]
      BY <2>4 DEF Return
    <3> QED BY <3>1, <3>2
  <2>5. CASE RenderPrompt(k)
    <3>1. PICK s \in kept : Ask(k, Nobody, s)
      BY <2>5 DEF RenderPrompt
    <3> DEFINE c == [mcpCall[k] EXCEPT !.asks = Nobody, !.to = s]
    <3>2. c \in Call /\ c.asks = Nobody /\ c.to = s
      BY <1>3, <3>1 DEF ConnectionsInv, ConnectionsTyped
    <3>3. mcpCall' = [mcpCall EXCEPT ![k] = c]
      BY <1>3, <3>1 DEF Ask
    <3> QED BY <3>2, <3>3
  <2> QED BY <2>1, <2>2, <2>3, <2>4, <2>5
<1>5. ConnectionsTyped'
  BY <1>1, <1>4 DEF ConnectionsInv, ConnectionsTyped, setup, bindings
<1>6. CallsAreRouted'
  <2> SUFFICES ASSUME NEW j \in Caller, mcpCall'[j].to # Nobody
               PROVE  /\ mcpCall'[j].to \in kept
                      /\ \/ mcpCall'[j].asks = Nobody
                         \/ mcpCall'[j].asks \in offers[mcpCall'[j].to].tools \cup offers[mcpCall'[j].to].uris
    BY <1>1 DEF CallsAreRouted, Asks, setup, bindings
  <2>1. CASE j # k
    BY <1>4, <2>1 DEF ConnectionsInv, CallsAreRouted, Asks
  <2>2. CASE j = k
    <3>1. mcpCall'[k] = c
      BY <1>3, <1>4
    <3> QED BY <1>4, <2>2, <3>1 DEF ConnectionsInv, CallsAreRouted, Asks, Bindings
  <2> QED BY <2>1, <2>2
<1> QED BY <1>2, <1>5, <1>6 DEF ConnectionsInv

LEMMA ConnectionsPreserved ==
    ConnectionsInv /\ [ConnectionsNext]_connectionVars => ConnectionsInv'
<1> SUFFICES ASSUME ConnectionsInv, [ConnectionsNext]_connectionVars PROVE ConnectionsInv'
  OBVIOUS
<1>1. CASE UNCHANGED connectionVars
  BY <1>1 DEF connectionVars, setup, bindings, ConnectionsInv, ConnectionsTyped, Listings, Links, Linked,
              Bindings, CallsAreRouted, Asks
<1>2. CASE ConnectionsNext
  BY <1>2, DiscoverySteps, LeaveOutStep, MergeServerStep, CloseLinkStep, ManagerStep, CallerStep
     DEF ConnectionsNext
<1> QED BY <1>1, <1>2, SMTT(30)

\* However the goroutines that connect overlap, whatever fails and whenever the
\* session ends: after a discovery that was not interrupted a server is
\* unavailable or every tool it offers is bound to it and to no other, a call
\* reaches a server that offers what it asks for, and the Close of a session that
\* started, or of a probe, leaves no connection (NewMCPManager, merge, Execute,
\* Close).
THEOREM ServersAreHeld == ConnectionsSpec => []ServersHeld
<1>1. ConnectionsInv => ServersHeld
  <2> SUFFICES ASSUME ConnectionsInv PROVE ServersHeld
    OBVIOUS
  <2>1. Discovered
    <3> SUFFICES ASSUME manager \in {"starting", "live"}, NEW s \in asked
                 PROVE  IF s \in absent
                        THEN /\ link[s] # "open"
                             /\ (\A t \in Tool : routes[t] # s) /\ (\A u \in Uri : readers[u] # s)
                        ELSE link[s] = "open" /\ {t \in Tool : routes[t] = s} = offers[s].tools
      BY DEF Discovered
    <3>1. s \in McpServer /\ s # Nobody /\ offers[s].tools \subseteq Tool /\ kept \cap absent = {}
      BY ConnectionsAssumption DEF ConnectionsInv, ConnectionsTyped, Offer
    <3>2. CASE s \in absent
      BY <3>1, <3>2 DEF ConnectionsInv, Links, Bindings
    <3>3. CASE s \notin absent
      BY <3>1, <3>3 DEF ConnectionsInv, Links, Linked, Bindings
    <3> QED BY <3>2, <3>3
  <2>2. NoneLeftOpen
    BY DEF ConnectionsInv, Links, NoneLeftOpen
  <2> QED BY <2>1, <2>2 DEF ServersHeld, ConnectionsInv
<1> QED BY <1>1, ConnectionsInitially, ConnectionsPreserved, PTL DEF ConnectionsSpec
=======================================================================
