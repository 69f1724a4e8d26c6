-------------------------- MODULE Connections --------------------------
(* The connections of a session to the MCP servers it is configured     *)
(* with, or of a probe to one of them: actuators/mcp.go connects to all *)
(* at once, lists what each offers and binds it in one goroutine, and   *)
(* session/tools.go gives the tools to the session and closes the       *)
(* manager with it.  A tool is the name the model sees: two servers may *)
(* produce the same one, but no tool of the session's own, which lack   *)
(* the mcp_ prefix.  A resource is a URI, which two servers may offer.  *)
EXTENDS Naturals

CONSTANTS McpServer,   \* servers of tools.json
          Tool, Uri,   \* what they may offer
          Caller,      \* the agent's tool call and the requests of clients
          Nobody

Listing == {"tools", "prompts", "resources"}
Offer == [tools : SUBSET Tool, uris : SUBSET Uri]

ASSUME ConnectionsAssumption == Nobody \notin McpServer

VARIABLES owner,     \* "session" or "probe": what the manager is made for
          offers,    \* the tools and resources of each server
          asked,     \* m.configured
          manager,   \* "connecting", "merging", "starting", "live",
                     \*   "closing", "closed"; "discarded" when NewMCPManager
                     \*   closed it and returned an error, "dropped" when
                     \*   the session failed to start with it
          over,      \* m.ctx is done
          link,      \* the connection to each server: "none", "open", "closed"
          found,     \* mcpServerListing of each: [todo, failed, tools, uris]
          routes,    \* m.bindings: the server of a tool
          readers,   \* m.resourceBinding: the server of a resource
          kept,      \* m.sessions
          absent,    \* m.unavailable
          mcpCall    \* calls of each caller: [refs, asks, to]
setup == <<owner, offers, asked>>
bindings == <<routes, readers, kept, absent>>
connectionVars == <<setup, manager, over, link, found, bindings, mcpCall>>

Unlisted == [todo |-> {"connection"}, failed |-> FALSE, tools |-> {}, uris |-> {}]
Quiet == [refs |-> {}, asks |-> Nobody, to |-> Nobody]

ConnectionsInit ==
    /\ offers \in [McpServer -> Offer] /\ owner \in {"session", "probe"}
    /\ asked \in SUBSET McpServer /\ (owner = "probe" => \E s \in McpServer : asked = {s})
    /\ manager = "connecting" /\ over = FALSE
    /\ link = [s \in McpServer |-> "none"]
    /\ found = [s \in McpServer |-> Unlisted]
    /\ routes = [t \in Tool |-> Nobody] /\ readers = [u \in Uri |-> Nobody]
    /\ kept = {} /\ absent = {}
    /\ mcpCall = [k \in Caller |-> Quiet]

(* connect: one goroutine for each server.  A connection may be made    *)
(* even though the session is over by then.                             *)
Connecting(s, l) == manager = "connecting" /\ s \in asked /\ l \in found[s].todo

Connected(s) ==
    /\ Connecting(s, "connection")
    /\ link' = [link EXCEPT ![s] = "open"]
    /\ found' = [found EXCEPT ![s].todo = Listing]
    /\ UNCHANGED <<setup, manager, over, bindings, mcpCall>>

NotConnected(s) ==
    /\ Connecting(s, "connection")
    /\ found' = [found EXCEPT ![s].todo = {}, ![s].failed = TRUE]
    /\ UNCHANGED <<setup, manager, over, link, bindings, mcpCall>>

(* Three goroutines list what the server offers.  Each stores its error *)
(* in the one err of the listing, the tools' one even when it is nil:   *)
(* an error of the other two may be forgotten.                          *)
Listed(s, l, r) ==
    /\ Connecting(s, l)
    /\ found' = [found EXCEPT ![s] = [r EXCEPT !.todo = @ \ {l}]]
    /\ UNCHANGED <<setup, manager, over, link, bindings, mcpCall>>

ToolsListed(s) ==
    Listed(s, "tools", [found[s] EXCEPT !.tools = offers[s].tools, !.failed = FALSE])

ToolsNotListed(s) ==
    \E part \in SUBSET offers[s].tools :
        Listed(s, "tools", [found[s] EXCEPT !.tools = part, !.failed = TRUE])

PromptsListed(s) ==
    \E err \in BOOLEAN : Listed(s, "prompts", [found[s] EXCEPT !.failed = @ \/ err])

ResourcesListed(s) == Listed(s, "resources", [found[s] EXCEPT !.uris = offers[s].uris])

ResourcesNotListed(s) ==
    \E part \in SUBSET offers[s].uris :
        Listed(s, "resources", [found[s] EXCEPT !.uris = part, !.failed = TRUE])

(* NewMCPManager.  If the session or the probe is over by then it calls *)
(* Close, which goes through m.sessions, and those are none before the  *)
(* merge: every connection made stays open.                             *)
AllConnected ==
    /\ manager = "connecting" /\ \A s \in asked : found[s].todo = {}
    /\ manager' = IF over THEN "discarded" ELSE "merging"
    /\ UNCHANGED <<setup, over, link, found, bindings, mcpCall>>

(* merge: one server after the other, in no order.  A server that       *)
(* failed, or has a tool another one has, is left out and closed.       *)
Merging(s) == manager = "merging" /\ s \in asked \ (kept \cup absent)
Claimed(s) == \E t \in found[s].tools : routes[t] # Nobody

LeaveOutOpen(s) ==
    /\ Merging(s) /\ (found[s].failed \/ Claimed(s))
    /\ absent' = absent \cup {s}
    /\ link' = [link EXCEPT ![s] = IF @ = "open" /\ found[s].failed THEN "closed" ELSE @]
    /\ UNCHANGED <<setup, manager, over, found, routes, readers, kept, mcpCall>>

LeaveOut(s) ==
    /\ Merging(s) /\ (found[s].failed \/ Claimed(s))
    /\ absent' = absent \cup {s}
    /\ link' = [link EXCEPT ![s] = IF @ = "open" THEN "closed" ELSE @]
    /\ UNCHANGED <<setup, manager, over, found, routes, readers, kept, mcpCall>>

Bound(owners, names, s) ==
    [n \in DOMAIN owners |-> IF n \in names /\ owners[n] = Nobody THEN s ELSE owners[n]]

Merge(s) ==
    /\ Merging(s) /\ ~found[s].failed /\ ~Claimed(s)
    /\ kept' = kept \cup {s}
    /\ routes' = Bound(routes, found[s].tools, s)
    /\ readers' = Bound(readers, found[s].uris, s)
    /\ UNCHANGED <<setup, manager, over, link, found, absent, mcpCall>>

AllMerged ==
    /\ manager = "merging" /\ asked = kept \cup absent
    /\ manager' = "starting"
    /\ UNCHANGED <<setup, over, link, found, bindings, mcpCall>>

(* The rest of newRuntimeSession: when it fails nobody calls Close.     *)
SessionStarts ==
    /\ manager = "starting" /\ owner = "session" /\ manager' = "live"
    /\ UNCHANGED <<setup, over, link, found, bindings, mcpCall>>

SessionFails ==
    /\ manager = "starting" /\ owner = "session" /\ manager' = "dropped" /\ over' = TRUE
    /\ UNCHANGED <<setup, link, found, bindings, mcpCall>>

(* The engine shuts down, or the client that asked for a probe is gone. *)
Interrupted ==
    /\ manager \notin {"closed", "discarded", "dropped"} /\ ~over /\ over' = TRUE
    /\ UNCHANGED <<setup, manager, link, found, bindings, mcpCall>>

(* Close: at the end of a probe, at a fatal error of the session or     *)
(* when it is closed.  The context ends before the connections do.      *)
BeginClose ==
    /\ manager = IF owner = "probe" THEN "starting" ELSE "live"
    /\ manager' = "closing" /\ over' = TRUE
    /\ UNCHANGED <<setup, link, found, bindings, mcpCall>>

CloseLink(s) ==
    /\ manager = "closing" /\ s \in kept /\ link[s] = "open"
    /\ link' = [link EXCEPT ![s] = "closed"]
    /\ UNCHANGED <<setup, manager, over, found, bindings, mcpCall>>

CloseEnds ==
    /\ manager = "closing" /\ \A s \in kept : link[s] # "open"
    /\ manager' = "closed"
    /\ UNCHANGED <<setup, over, link, found, bindings, mcpCall>>

(* Execute, and ReadResource for the references of a user's message,    *)
(* each of which is read once: one that cannot be read is left, so that *)
(* the message is sent all the same.                                    *)
Usable == manager \in {"live", "closing", "closed"} /\ owner = "session"

Ask(k, n, s) == mcpCall' = [mcpCall EXCEPT ![k].asks = n, ![k].to = s]
Asks(k) == mcpCall[k].to # Nobody

CallTool(k) ==
    /\ Usable /\ mcpCall[k] = Quiet /\ ~over
    /\ \E t \in Tool : routes[t] # Nobody /\ Ask(k, t, routes[t])
    /\ UNCHANGED <<setup, manager, over, link, found, bindings>>

\* The prompt is known by its server.
RenderPrompt(k) ==
    /\ Usable /\ mcpCall[k] = Quiet /\ ~over
    /\ \E s \in kept : Ask(k, Nobody, s)
    /\ UNCHANGED <<setup, manager, over, link, found, bindings>>

Refer(k) ==
    /\ Usable /\ mcpCall[k] = Quiet
    /\ \E refs \in SUBSET Uri \ {{}} : mcpCall' = [mcpCall EXCEPT ![k].refs = refs]
    /\ UNCHANGED <<setup, manager, over, link, found, bindings>>

Read(k) ==
    /\ ~Asks(k)
    /\ \E u \in mcpCall[k].refs :
          IF readers[u] = Nobody \/ over
          THEN mcpCall' = [mcpCall EXCEPT ![k].refs = @ \ {u}]
          ELSE Ask(k, u, readers[u])
    /\ UNCHANGED <<setup, manager, over, link, found, bindings>>

(* The server answers; or it refuses, its time is over, the session     *)
(* ends, or the connection does.                                        *)
Return(k) ==
    /\ Asks(k)
    /\ mcpCall' = [mcpCall EXCEPT ![k] = [Quiet EXCEPT !.refs = mcpCall[k].refs \ {mcpCall[k].asks}]]
    /\ UNCHANGED <<setup, manager, over, link, found, bindings>>

ConnectionsNext ==
    \/ \E s \in McpServer :
          \/ Connected(s) \/ NotConnected(s)
          \/ ToolsListed(s) \/ ToolsNotListed(s) \/ PromptsListed(s)
          \/ ResourcesListed(s) \/ ResourcesNotListed(s)
          \/ LeaveOut(s) \/ Merge(s) \/ CloseLink(s)
    \/ AllConnected \/ AllMerged \/ SessionStarts \/ SessionFails
    \/ Interrupted \/ BeginClose \/ CloseEnds
    \/ \E k \in Caller : CallTool(k) \/ RenderPrompt(k) \/ Refer(k) \/ Read(k) \/ Return(k)

ConnectionsSpec == ConnectionsInit /\ [][ConnectionsNext]_connectionVars

(* What discovery leaves: a server is reported as unavailable, with no  *)
(* connection and nothing bound to it, or it is connected and every     *)
(* tool it offers, and no other, is bound to it, whatever failed and    *)
(* however the goroutines overlapped.                                   *)
Discovered ==
    manager \in {"starting", "live"} =>
        \A s \in asked :
            IF s \in absent
            THEN /\ link[s] # "open"
                 /\ (\A t \in Tool : routes[t] # s) /\ (\A u \in Uri : readers[u] # s)
            ELSE link[s] = "open" /\ {t \in Tool : routes[t] = s} = offers[s].tools

(* A call reaches a server that offers what it asks for.                *)
CallsAreRouted ==
    \A k \in Caller :
        Asks(k) => /\ mcpCall[k].to \in kept
                   /\ \/ mcpCall[k].asks = Nobody
                      \/ mcpCall[k].asks \in offers[mcpCall[k].to].tools \cup offers[mcpCall[k].to].uris

(* Once the discovery is over a connection that is open is one that     *)
(* Close will close, and after the Close of a session or a probe none   *)
(* is, those to the servers that were left out included.  A discovery   *)
(* that was interrupted and a session that failed to start are excepted *)
(* ("discarded" and "dropped"): what they connected stays open.         *)
NoneLeftOpen ==
    /\ manager = "closed" => \A s \in McpServer : link[s] # "open"
    /\ manager \in {"starting", "live", "closing"} => {s \in McpServer : link[s] = "open"} \subseteq kept

(* The servers of a session are as it reports them, from the discovery  *)
(* to the end.                                                          *)
ServersHeld == Discovered /\ CallsAreRouted /\ NoneLeftOpen
=========================================================================
