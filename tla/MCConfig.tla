---- MODULE MCConfig ----
(* Requests that change what is configured, and, where nothing else is   *)
(* asked for, the connections of one session or probe.                   *)
EXTENDS Config, Connections

RequestsOrConnections ==
    {{"login", "logout", "load", "chat", "manage"},
     {"create policy", "delete policy", "add", "edit", "remove", "authorize"},
     {}}

OnlyConnections == {{}}

EngineInit ==
    /\ Init /\ ConnectionsInit
    /\ used.ops # {} => /\ owner = "session" /\ asked = {}
                        /\ offers = [s \in McpServer |-> [tools |-> {}, uris |-> {}]]

EngineNext ==
    \/ used.ops # {} /\ Next /\ UNCHANGED connectionVars
    \/ used.ops = {} /\ ConnectionsNext /\ UNCHANGED vars

EngineSpec ==
    /\ EngineInit /\ [][EngineNext]_<<vars, connectionVars>>
    /\ \A c \in Client : WF_vars(Serve(c))
====
