----------------------------- MODULE MCSession ------------------------------
(* A small instance of Session for TLC: a turn with tools that is canceled  *)
(* and closed, one with a second message behind it that is canceled, two    *)
(* messages against a close, and compactions of both kinds and branch       *)
(* selections, two at a time, with failing appends.                         *)
EXTENDS Session

Together(ops, calls, messages, toolReplies) ==
    [ops |-> ops, calls |-> calls, messages |-> messages, toolReplies |-> toolReplies]

TurnsAndHistory ==
    {Together({"cancel", "close"}, {"human", "cancelable"}, 1, 1),
     Together({"cancel"}, {"human", "cancelable"}, 2, 1),
     Together({"close", "cancel"}, {}, 2, 0),
     Together({"compact", "autocompact", "storagefault"}, {}, 1, 0),
     Together({"compact", "branch", "storagefault"}, {}, 1, 0),
     Together({"branch", "autocompact", "storagefault"}, {}, 1, 0)}
=============================================================================
