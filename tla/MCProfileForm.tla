------------------------- MODULE MCProfileForm -------------------------
EXTENDS ProfileForm
MetaOf(context, window, mtp) ==
    [context |-> context, layers |-> 4, full |-> 1, shared |-> 1, window |-> window, kv |-> 1,
     size |-> 1000, params |-> 0, experts |-> 4, active |-> 1, expertBytes |-> 400, mtp |-> mtp, vocab |-> 7]
Model(id, kind, meta) == [id |-> id, kind |-> kind, vision |-> id = "seer", meta |-> meta]
TestLibrary ==
    { Model("seer", "llamacpp", MetaOf(192, 0, 0)), Model("small", "llamacpp", MetaOf(50, 16, 1)),
      Model("tensor", "vllm", [MetaOf(128, 0, 0) EXCEPT !.size = 0, !.params = 1000]) }
TestEngines == [llamacpp |-> <<"first", "second">>, vllm |-> <<"vllm">>]
TestKind == [e \in {"first", "second", "vllm"} |-> IF e = "vllm" THEN "vllm" ELSE "llamacpp"]
Profile(id, model, engine, kind) ==
    [Suggested([id |-> model], engine, kind, 4 * K * K) EXCEPT !.id = id, !.name = "own", !.ngl = Automatic]
TestSaved ==
    { {}, {[Profile(1, "seer", "second", "llamacpp") EXCEPT !.mmproj = TRUE, !.mode = "draft",
               !.tokens = 2, !.draft = "small"]}, {Profile(1, "tensor", "vllm", "vllm")} }
Machine(count, unified, free, ram) ==
    [count |-> count, unified |-> unified, vram |-> 4000, free |-> free, ram |-> ram]
TestHardware ==
    { Machine(0, FALSE, 0, 900), Machine(1, FALSE, 1900, 600), Machine(2, FALSE, 9000, 9000) }
Flag(name, joined) == [flag |-> name, joined |-> joined]
Extra(words, closed) == [words |-> words, closed |-> closed]
TestTyped ==
    [name |-> {None, "own", "other"}, port |-> {Bad, 0}, context |-> {1, 9}, ngl |-> {None, Bad},
     batch |-> {None, 0}, tokens |-> {None, 0, 3}, util |-> {None, 0, 70},
     extra |-> {None, Extra(<<Flag("--verbose", FALSE)>>, FALSE), Extra(<<Flag("--port", TRUE)>>, TRUE),
                Extra(<<Flag("--metrics", FALSE)>>, TRUE)}]
Mix(fields, a, e, c) == [fields |-> fields, asks |-> a, acts |-> e, changes |-> c]
TestMixes ==
    { Mix({"engine", "name"}, 2, 3, 0), Mix({"mode", "tokens", "draft"}, 1, 3, 1),
      Mix({"context", "unit", "ngl", "util", "port", "batch", "cache", "mmproj", "prefix"}, 1, 2, 0),
      Mix({"extra", "name"}, 1, 3, 0) }
=============================================================================
