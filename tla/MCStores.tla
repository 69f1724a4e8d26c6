------------------------------ MODULE MCStores ------------------------------
(* The two stores: the files of a session's timeline, and the database of *)
(* models with the folders it lists.  A behaviour uses one of them.       *)
EXTENDS Timeline, Library, TLC

CONSTANTS r1, r2, f1, f2, f3, e1
TwoFolders == (f1 :> r1) @@ (f2 :> r1) @@ (f3 :> r2)
FileKinds == [x \in {f1, f2, f3, e1} |-> IF x = f3 THEN "safetensors" ELSE "gguf"]
Mix(ops, edits, syncs, changes) == [ops |-> ops, edits |-> edits, syncs |-> syncs, changes |-> changes]
MCMixes == {Mix({}, 0, 2, 3), Mix({"profile", "run"}, 3, 1, 1), Mix({"import", "kill"}, 3, 1, 1),
            Mix({"profile", "engine"}, 4, 1, 0), Mix({"folder", "import"}, 2, 2, 1),
            Mix({"profile", "run", "folder", "import"}, 5, 0, 0)}

VARIABLE store
storeVars == <<store, vars, libraryVars>>

StoresInit ==
    /\ Init /\ LibraryInit /\ store \in {"timeline", "database"}
    /\ store = "timeline" => used.mix = Mix({}, 0, 2, 3)

StoresNext ==
    \/ store = "timeline" /\ Next /\ UNCHANGED <<store, libraryVars>>
    \/ store = "database" /\ LibraryNext /\ UNCHANGED <<store, vars>>

StoresSpec == StoresInit /\ [][StoresNext]_storeVars
=============================================================================
