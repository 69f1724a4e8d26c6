------------------------- MODULE MCLineClient -------------------------
(* The line client, an engine and one other client, in scenarios: which   *)
(* requests the other client makes and how many, how much the turns do,   *)
(* which commands are typed, and whether the server stops.                *)
EXTENDS LineClient

Mix(others, requests, work, line, ends) ==
    [others |-> others, requests |-> requests, work |-> work, line |-> line, ends |-> ends]
MCMixes == {Mix({"chat", "cancel"}, 1, 2, {"join"}, FALSE),
            Mix({"chat", "approve"}, 1, 2, {"join"}, FALSE),
            Mix({"compact"}, 1, 1, {"join", "compact"}, FALSE),
            Mix({"load", "close"}, 2, 0, {"join", "load"}, FALSE),
            Mix({"close"}, 1, 1, {"join"}, TRUE),
            Mix({"create", "load"}, 1, 0, {"create", "load"}, TRUE),
            Mix({"delete", "load"}, 1, 0, {"join", "delete", "load"}, FALSE),
            Mix({"rename", "records", "report", "branch"}, 2, 0,
                {"rename", "model", "timeline"}, FALSE)}
=======================================================================
