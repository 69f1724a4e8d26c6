---------------------------- MODULE SessionProofs ----------------------------
(***************************************************************************)
(* Proofs about a session, for any clients' calls, tools, bounds and       *)
(* capacities: a tool call that waits can be answered, a tool that asks    *)
(* for approval runs only with it, and the model is asked to continue the  *)
(* timeline.  The last part is about the terminal that shows it,           *)
(* Terminal.tla.                                                           *)
(*                                                                         *)
(* The inductive invariant says where the one question a session may have  *)
(* is: with the session, with a client that took it, or, answered, in the  *)
(* channel of the tool call that waits.                                    *)
(***************************************************************************)
EXTENDS Session, Terminal, SequenceTheorems, FiniteSetTheorems, TLAPS

Entry == [kind : {"user", "reply", "tool"}, message : Nat]
InCall == {"request", "publish", "wait", "withdrawn", "await", "tool"}
Loop == [pc : AgentPcs, unread : Seq(Nat), had : BOOLEAN, calls : Seq(Call), canceled : BOOLEAN,
         batch : Seq(Entry), ids : Seq(Nat), parent : Nat, then : {"consume", "poll", "usage"},
         request : Nat]
Verdict == {"none", "approve", "deny", "cancel"}
Deciding == [pc : {"off", "publish", "send"}, verdict : Verdict]
Calls == [enqueue : [pc : ClientPcs], close : [pc : ClientPcs], cancel : Deciding,
          resolve : Deciding, branch : [pc : ClientPcs, event : Nat]]
Seen == [mix : Mix, sent : Nat, cancels : Nat, toolReplies : Nat, compactions : Nat,
         branches : Nat, approved : SUBSET Nat]

\* The loop has a call to answer, and messages to commit, where it needs them.
Full == /\ agent.pc \in InCall => agent.calls # <<>>
        /\ agent.pc \in InCall \cup {"call", "commit", "append"} => agent.batch # <<>>

\* The parts of the state that the questions and their answers depend on.
Types ==
    /\ mailbox \in Seq(Nat) /\ timeline \in Seq(Event) /\ head \in Nat /\ branch \in Nat
    /\ approval \in Nat /\ decision \in Verdict
    /\ agent \in Loop /\ Full /\ client \in Calls /\ seen \in Seen

\* A client has taken the question, and is on its way to answer it.
Taken(c) == client[c].pc \in {"publish", "send"}

\* The tool call has put its question, and has no answer.
Waits == At("publish") \/ At("wait") \/ At("await")

\* A tool call waits exactly while its question is in one place.
Asked ==
    /\ approval \in {0, agent.request}
    /\ approval # 0 => ~Taken("cancel") /\ ~Taken("resolve") /\ decision = "none"
    /\ Taken("cancel") => ~Taken("resolve") /\ decision = "none"
    /\ Taken("resolve") => decision = "none"
    /\ Waits => agent.request # 0
    /\ Waits <=> \/ approval # 0 \/ Taken("cancel") \/ Taken("resolve") \/ decision # "none"
    /\ At("await") => approval = 0

\* An approval on its way is one of the question there is.
Granted ==
    /\ client.cancel.verdict \notin {"approve", "deny"}
    /\ \A c \in {"cancel", "resolve"} : Taken(c) => client[c].verdict # "none"
    /\ Taken("resolve") /\ client.resolve.verdict = "approve" => agent.request \in seen.approved
    /\ decision = "approve" => agent.request \in seen.approved
    /\ ApprovedOnly

IInv == Types /\ Asked /\ Granted
-----------------------------------------------------------------------------
(* What the steps have in common *)

\* A step elsewhere, which touches neither the question nor the tool call.
LEMMA NotWaiting ==
    ASSUME IInv, Types', agent' = agent, UNCHANGED approvals,
           client'.cancel = client.cancel, client'.resolve = client.resolve,
           seen'.approved = seen.approved
    PROVE  IInv'
<1>1. /\ Taken("cancel")' <=> Taken("cancel")
      /\ Taken("resolve")' <=> Taken("resolve")
      /\ approval' = approval /\ decision' = decision
  BY DEF Taken, approvals
<1>2. Asked'
  BY <1>1 DEF IInv, Asked, Waits, At
<1>3. Granted'
  <2>1. \A c \in {"cancel", "resolve"} : client'[c] = client[c]
    OBVIOUS
  <2> QED BY <1>1, <2>1 DEF IInv, Granted, ApprovedOnly, At, NextCall, Taken
<1> QED BY <1>2, <1>3 DEF IInv

\* The loop moves where no tool call waits or runs.
LEMMA LoopMoves ==
    ASSUME IInv, Types', UNCHANGED <<approvals, client>>, seen'.approved = seen.approved,
           agent.pc \notin {"publish", "wait", "await"},
           agent'.pc \notin {"publish", "wait", "await", "tool"},
           agent'.request = agent.request
    PROVE  IInv'
<1>1. /\ Taken("cancel")' <=> Taken("cancel")
      /\ Taken("resolve")' <=> Taken("resolve")
      /\ approval' = approval /\ decision' = decision /\ client' = client
  BY DEF Taken, approvals
<1>2. Asked'
  BY <1>1 DEF IInv, Asked, Waits, At
<1>3. Granted'
  BY <1>1 DEF IInv, Granted, ApprovedOnly, At, Taken
<1> QED BY <1>2, <1>3 DEF IInv

\* Where the loop goes next.
LEMMA Going ==
    ASSUME Types, NEW pc \in AgentPcs, Goto(pc),
           pc \in InCall => agent.calls # <<>>,
           pc \in InCall \cup {"call", "commit", "append"} => agent.batch # <<>>
    PROVE  /\ agent' \in Loop /\ Full' /\ agent'.pc = pc /\ agent'.request = agent.request
           /\ agent'.calls = agent.calls
  BY DEF Types, Full, Loop, Goto

\* A tool call has its result.
LEMMA Answering ==
    ASSUME Types, NEW canceled \in BOOLEAN, Answered(canceled),
           agent.pc \in InCall \/ (agent.pc = "call" /\ agent.calls # <<>>)
    PROVE  agent' \in Loop /\ Full' /\ agent'.pc = "call" /\ agent'.request = agent.request
<1> DEFINE entry == [kind |-> "tool", message |-> 0]
           made == Tail(agent.calls)
           batch == Append(agent.batch, entry)
<1>1. made \in Seq(Call) /\ "call" \in AgentPcs /\ "call" \notin InCall
  BY DEF Types, Full, Loop, AgentPcs, InCall
<1>2. batch \in Seq(Entry) /\ batch # <<>>
  <2>1. entry \in Entry /\ agent.batch \in Seq(Entry)
    BY DEF Entry, Types, Loop
  <2> HIDE DEF entry
  <2>2. batch \in Seq(Entry) /\ Len(batch) = Len(agent.batch) + 1 /\ Len(agent.batch) \in Nat
    BY <2>1
  <2>3. Len(batch) # 0
    BY <2>2
  <2> QED BY <2>2, <2>3
<1>3. agent' = [agent EXCEPT !.calls = made, !.canceled = canceled, !.pc = "call",
                             !.batch = batch]
  BY DEF Answered
<1> HIDE DEF made, batch
<1> QED BY <1>1, <1>2, <1>3 DEF Types, Full, Loop

\* The types of what is not the loop's position.
LEMMA Kept ==
    ASSUME Types, UNCHANGED <<mailbox, timeline, head, branch, approvals, client>>,
           seen' \in Seen, agent' \in Loop /\ Full'
    PROVE  Types'
  BY DEF Types, approvals

-----------------------------------------------------------------------------
(* The steps of the loop *)

\* The loop takes messages from its mailbox, and says whether it works.
LEMMA MailSteps ==
    ASSUME IInv, \/ Consume \/ Drain \/ ReportIdle \/ Listen \/ Wake \/ StopParked \/ ReportBusy
    PROVE  IInv'
<1>1. /\ UNCHANGED <<timeline, head, branch, approvals, client, seen>>
      /\ agent \in Loop /\ Full /\ mailbox \in Seq(Nat) /\ Types
  BY DEF IInv, Types, Consume, Drain, ReportIdle, Listen, Wake, StopParked, ReportBusy, rest,
         history, inbox
<1>2. agent.pc \notin {"publish", "wait", "await"}
  BY DEF Consume, Drain, ReportIdle, Listen, Wake, StopParked, ReportBusy, At
<1>3. CASE \E pc \in {"drain", "listen", "park", "done"} : Goto(pc) /\ mailbox' = mailbox
  <2>1. PICK pc \in {"drain", "listen", "park", "done"} : Goto(pc) /\ mailbox' = mailbox
    BY <1>3
  <2>2. agent' \in Loop /\ Full' /\ agent'.pc = pc /\ agent'.request = agent.request
    BY <1>1, <2>1, Going DEF AgentPcs, InCall
  <2>3. Types'
    BY <1>1, <2>1, <2>2 DEF Types, approvals
  <2> QED BY <1>1, <1>2, <2>2, <2>3, LoopMoves
<1>4. CASE Drain \/ Wake
  <2>1. PICK unread \in Seq(Nat), pc \in {"busy", "idle"} :
            agent' = [agent EXCEPT !.unread = unread, !.pc = pc]
    <3>1. CASE Drain
      BY <1>1, <3>1 DEF Drain
    <3>2. CASE Wake
      <4>1. <<Head(mailbox)>> \in Seq(Nat)
        BY <1>1, <3>2 DEF Wake
      <4> QED BY <3>2, <4>1 DEF Wake
    <3> QED BY <1>4, <3>1, <3>2
  <2>2. agent' \in Loop /\ agent'.pc = pc /\ agent'.request = agent.request
    BY <1>1, <2>1 DEF Loop, AgentPcs
  <2>3. Full'
    BY <2>1, <2>2 DEF Full, InCall
  <2>4. mailbox' \in Seq(Nat)
    <3>1. CASE Drain
      BY <3>1 DEF Drain
    <3>2. CASE Wake
      <4>1. mailbox \in Seq(Nat) /\ mailbox # <<>> /\ mailbox' = Tail(mailbox)
        BY <1>1, <3>2 DEF Wake
      <4> QED BY <4>1
    <3> QED BY <1>4, <3>1, <3>2
  <2>5. Types'
    BY <1>1, <2>2, <2>3, <2>4 DEF Types, approvals
  <2> QED BY <1>1, <1>2, <2>2, <2>5, LoopMoves, SMTT(60)
<1>5. CASE ReportBusy /\ ~Goto("done")
  <2> DEFINE batch == [i \in DOMAIN agent.unread |-> [kind |-> "user", message |-> agent.unread[i]]]
  <2>1. batch \in Seq(Entry) /\ (agent.unread # <<>> => batch # <<>>)
    <3>1. agent.unread \in Seq(Nat)
      BY <1>1 DEF Full, Loop
    <3>2. \A i \in 1..Len(agent.unread) : [kind |-> "user", message |-> agent.unread[i]] \in Entry
      BY <3>1 DEF Entry
    <3> QED BY <3>1, <3>2, SMTT(30)
  <2>2. /\ agent' \in Loop /\ Full' /\ agent'.pc \in {"generate", "commit"}
        /\ agent'.request = agent.request
    <3>1. \/ agent' = [agent EXCEPT !.pc = "generate"]
          \/ /\ agent' = [agent EXCEPT !.pc = "commit", !.then = "poll", !.batch = batch]
             /\ batch # <<>>
      BY <1>5, <2>1 DEF ReportBusy
    <3> HIDE DEF batch
    <3>2. agent' \in Loop /\ agent'.pc \in {"generate", "commit"} /\ agent'.request = agent.request
          /\ (agent'.pc = "commit" => agent'.batch # <<>>)
      BY <1>1, <2>1, <3>1, ZenonT(60) DEF Loop, AgentPcs
    <3> QED BY <3>2 DEF Full, InCall
  <2>3. mailbox' = mailbox
    BY <1>5 DEF ReportBusy, rest, inbox
  <2>4. Types'
    BY <1>1, <2>2, <2>3 DEF Types, approvals
  <2> QED BY <1>1, <1>2, <2>2, <2>4, LoopMoves
<1> QED BY <1>3, <1>4, <1>5 DEF Consume, ReportIdle, Listen, StopParked, ReportBusy, Report, rest,
                                inbox

\* The loop commits the messages of a turn.
LEMMA CommitSteps ==
    ASSUME IInv, \/ BeginCommit \/ AppendMessage \/ AppendFails \/ ReportFatal \/ ApplyCommit
                 \/ ExtendHistory
    PROVE  IInv'
<1>1. /\ UNCHANGED <<mailbox, approvals, client, seen>>
      /\ agent \in Loop /\ Full /\ Types
      /\ timeline \in Seq(Event) /\ head \in Nat /\ branch \in Nat
  BY DEF IInv, Types, BeginCommit, AppendMessage, AppendFails, ReportFatal, ApplyCommit,
         ExtendHistory, rest, inbox
<1>2. agent.pc \notin {"publish", "wait", "await"}
  BY DEF BeginCommit, AppendMessage, AppendFails, ReportFatal, ApplyCommit, ExtendHistory, At
<1>3. /\ agent' \in Loop /\ Full' /\ agent'.pc \notin {"publish", "wait", "await", "tool"}
      /\ agent'.request = agent.request
  <2>1. CASE \E pc \in {"fatal", "done", "extend"} : Goto(pc)
    BY <1>1, <2>1, Going DEF AgentPcs, InCall
  <2>2. CASE BeginCommit
    <3>1. agent' = [agent EXCEPT !.pc = "append", !.parent = branch] /\ agent.batch # <<>>
      BY <1>1, <2>2 DEF BeginCommit, At, Full
    <3>2. agent' \in Loop /\ agent'.pc = "append" /\ agent'.request = agent.request
          /\ agent'.batch = agent.batch
      BY <1>1, <3>1 DEF Loop, AgentPcs
    <3> QED BY <3>1, <3>2 DEF Full, InCall
  <2>3. CASE AppendMessage
    <3> DEFINE ids == Append(agent.ids, head')
               batch == Tail(agent.batch)
    <3>1. PICK pc \in {"apply", "append"} :
             /\ agent' = [agent EXCEPT !.ids = ids, !.batch = batch, !.pc = pc]
             /\ pc = "append" <=> Len(agent.batch) # 1
      BY <2>3 DEF AppendMessage
    <3>2. head' \in Nat
      BY <1>1, <2>3 DEF AppendMessage, Store
    <3>3. ids \in Seq(Nat) /\ batch \in Seq(Entry) /\ (pc = "append" => batch # <<>>)
      <4>1. agent.batch # <<>> /\ agent.batch \in Seq(Entry) /\ agent.ids \in Seq(Nat)
        BY <1>1, <2>3 DEF AppendMessage, At, Full, Loop
      <4>2. Len(batch) = Len(agent.batch) - 1 /\ batch \in Seq(Entry) /\ Len(agent.batch) \in Nat
        BY <4>1
      <4>3. ids \in Seq(Nat)
        BY <3>2, <4>1
      <4>4. pc = "append" => batch # <<>>
        <5>1. pc = "append" => Len(batch) # 0
          BY <3>1, <4>2
        <5> HIDE DEF batch
        <5> QED BY <5>1
      <4> QED BY <4>2, <4>3, <4>4
    <3> HIDE DEF ids, batch
    <3>4. agent' \in Loop /\ agent'.pc = pc /\ agent'.request = agent.request
          /\ agent'.batch = batch
      BY <1>1, <3>1, <3>3 DEF Loop, AgentPcs
    <3> QED BY <3>3, <3>4 DEF Full, InCall
  <2>4. CASE ExtendHistory
    <3>1. agent' = [agent EXCEPT !.pc = agent.then, !.ids = <<>>] /\ <<>> \in Seq(Nat)
      BY <2>4 DEF ExtendHistory
    <3>2. agent' \in Loop /\ agent'.pc \in {"consume", "poll", "usage"}
          /\ agent'.request = agent.request
      BY <1>1, <3>1 DEF Loop, AgentPcs
    <3> QED BY <3>2 DEF Full, InCall
  <2> QED BY <2>1, <2>2, <2>3, <2>4 DEF AppendFails, ReportFatal, ApplyCommit
<1>4. timeline' \in Seq(Event) /\ head' \in Nat /\ branch' \in Nat
  <2>1. CASE AppendMessage
    <3> DEFINE e == [parent |-> IF agent.ids = <<>> /\ agent.parent # 0 THEN agent.parent ELSE head,
                     kind |-> Head(agent.batch).kind, message |-> Head(agent.batch).message]
    <3>1. Head(agent.batch) \in Entry
      BY <1>1, <2>1 DEF AppendMessage, At, Full, Loop
    <3>2. e \in Event
      BY <1>1, <3>1 DEF Event, Entry, Loop
    <3>3. timeline' = Append(timeline, e) /\ head' = Len(timeline) + 1 /\ branch' = branch
      BY <2>1 DEF AppendMessage, Store
    <3> HIDE DEF e
    <3> QED BY <1>1, <3>2, <3>3
  <2>2. CASE ~AppendMessage
    BY <1>1, <2>2 DEF BeginCommit, AppendFails, ReportFatal, ApplyCommit, ExtendHistory, rest,
                        history
  <2> QED BY <2>1, <2>2
<1>5. Types'
  BY <1>1, <1>3, <1>4 DEF Types, approvals
<1> QED BY <1>1, <1>2, <1>3, <1>5, LoopMoves

\* A turn: the model is called, replies or fails.
LEMMA TurnSteps ==
    ASSUME IInv, PollCancellation \/ Generate \/ Reply \/ ReplyFails \/ ContinueTurn
    PROVE  IInv'
<1>1. /\ UNCHANGED <<mailbox, timeline, head, branch, approvals, client>>
      /\ agent \in Loop /\ Full /\ seen \in Seen /\ Types
  BY DEF IInv, Types, PollCancellation, Generate, Reply, ReplyFails, ContinueTurn, rest, inbox,
         history
<1>2. agent.pc \notin {"publish", "wait", "await"}
  BY DEF PollCancellation, Generate, Reply, ReplyFails, ContinueTurn, At
<1>3. /\ agent' \in Loop /\ Full' /\ agent'.pc \notin {"publish", "wait", "await", "tool"}
      /\ agent'.request = agent.request
  <2>1. CASE \E pc \in {"generate", "consume", "trigger"} : Goto(pc)
    BY <1>1, <2>1, Going DEF AgentPcs, InCall
  <2>2. CASE \/ agent' = [agent EXCEPT !.pc = "consume", !.had = FALSE]
             \/ agent' = [agent EXCEPT !.pc = "generating", !.unread = <<>>]
             \/ \E pc \in {"done", "consume"} : agent' = [agent EXCEPT !.had = FALSE, !.pc = pc]
    <3>1. <<>> \in Seq(Nat)
      OBVIOUS
    <3>2. agent' \in Loop /\ agent'.pc \in {"consume", "generating", "done"}
          /\ agent'.request = agent.request
      BY <1>1, <2>2, <3>1, ZenonT(60) DEF Loop, AgentPcs
    <3> QED BY <3>2 DEF Full, InCall
  <2>3. CASE Reply
    <3> DEFINE entry == [kind |-> "reply", message |-> 0]
               batch == <<entry>>
    <3>1. PICK n \in 0..MaxCalls :
             \E made \in [1..n -> seen.mix.calls], pc \in {"call", "commit"} :
             agent' = [agent EXCEPT !.calls = made, !.had = (n > 0), !.canceled = FALSE,
                                    !.batch = batch, !.then = "usage", !.pc = pc]
      BY <2>3 DEF Reply
    <3>2. PICK made \in [1..n -> seen.mix.calls], pc \in {"call", "commit"} :
             agent' = [agent EXCEPT !.calls = made, !.had = (n > 0), !.canceled = FALSE,
                                    !.batch = batch, !.then = "usage", !.pc = pc]
      BY <3>1
    <3>3. made \in Seq(Call)
      <4>1. seen.mix.calls \subseteq Call /\ n \in Nat
        BY <1>1, SessionAssumption DEF Seen, Mix
      <4>2. made \in [1..n -> Call]
        BY <3>2, <4>1
      <4> QED BY <4>1, <4>2
    <3>4. batch \in Seq(Entry) /\ batch # <<>>
      <4>1. entry \in Entry
        BY DEF Entry
      <4> HIDE DEF entry
      <4> QED BY <4>1
    <3> DEFINE had == n > 0
    <3>5. had \in BOOLEAN
      OBVIOUS
    <3>6. agent' = [agent EXCEPT !.calls = made, !.had = had, !.canceled = FALSE,
                                 !.batch = batch, !.then = "usage", !.pc = pc]
      BY <3>2
    <3> HIDE DEF batch, had
    <3>7. agent' \in Loop /\ agent'.pc = pc /\ agent'.request = agent.request
          /\ agent'.batch = batch
      BY <1>1, <3>2, <3>3, <3>4, <3>5, <3>6, ZenonT(60) DEF Loop, AgentPcs
    <3> QED BY <3>2, <3>4, <3>7 DEF Full, InCall
  <2> QED BY <2>1, <2>2, <2>3 DEF PollCancellation, Generate, ReplyFails, ContinueTurn
<1>4. seen' \in Seen /\ seen'.approved = seen.approved
  <2>1. CASE Reply
    <3>1. PICK n \in 0..MaxCalls :
             seen' = [seen EXCEPT !.toolReplies = IF n > 0 THEN @ + 1 ELSE @]
      BY <2>1 DEF Reply
    <3> QED BY <1>1, <3>1 DEF Seen
  <2>2. CASE ~Reply
    BY <1>1, <2>2 DEF PollCancellation, Generate, ReplyFails, ContinueTurn, rest
  <2> QED BY <2>1, <2>2
<1>5. Types'
  BY <1>1, <1>3, <1>4, Kept
<1> QED BY <1>1, <1>2, <1>3, <1>4, <1>5, LoopMoves DEF approvals

\* The loop's part of a compaction.
LEMMA AutoSteps ==
    ASSUME IInv, TriggerAuto \/ ReportAuto \/ InstallAuto
    PROVE  IInv'
<1>1. /\ UNCHANGED <<mailbox, timeline, head, branch, approvals, client>>
      /\ agent \in Loop /\ Full /\ seen \in Seen /\ Types
  BY DEF IInv, Types, TriggerAuto, ReportAuto, InstallAuto, rest, inbox, history
<1>2. agent.pc \notin {"publish", "wait", "await"}
  BY DEF TriggerAuto, ReportAuto, InstallAuto, At
<1>3. /\ agent' \in Loop /\ Full' /\ agent'.pc \notin {"publish", "wait", "await", "tool"}
      /\ agent'.request = agent.request
  <2>1. CASE \E pc \in {"compacting", "done", "install", "consume"} : Goto(pc)
    BY <1>1, <2>1, Going DEF AgentPcs, InCall
  <2>2. CASE agent' = [agent EXCEPT !.had = FALSE, !.pc = "consume"]
    <3>1. agent' \in Loop /\ agent'.pc = "consume" /\ agent'.request = agent.request
      BY <1>1, <2>2 DEF Loop, AgentPcs
    <3> QED BY <3>1 DEF Full, InCall
  <2> QED BY <2>1, <2>2 DEF TriggerAuto, ReportAuto, InstallAuto
<1>4. seen' \in Seen /\ seen'.approved = seen.approved
  <2>1. CASE TriggerAuto
    BY <1>1, <2>1 DEF TriggerAuto, Seen
  <2>2. CASE ~TriggerAuto
    BY <1>1, <2>2 DEF ReportAuto, InstallAuto, rest
  <2> QED BY <2>1, <2>2
<1>5. Types'
  BY <1>1, <1>3, <1>4, Kept
<1> QED BY <1>1, <1>2, <1>3, <1>4, <1>5, LoopMoves

-----------------------------------------------------------------------------
(* The steps of a tool call *)

\* A call that is skipped, refused, given up or finished.
LEMMA EndsOfCalls ==
    ASSUME IInv, AllAnswered \/ SkipCall \/ PublishWithdrawal \/ FinishTool
    PROVE  IInv'
<1>1. /\ UNCHANGED <<mailbox, timeline, head, branch, approvals, client, seen>>
      /\ agent \in Loop /\ Full /\ seen \in Seen /\ Types
  BY DEF IInv, Types, AllAnswered, SkipCall, PublishWithdrawal, FinishTool, rest, inbox, history
<1>2. agent.pc \notin {"publish", "wait", "await"}
  BY DEF AllAnswered, SkipCall, PublishWithdrawal, FinishTool, At
<1>3. /\ agent' \in Loop /\ Full' /\ agent'.pc \notin {"publish", "wait", "await", "tool"}
      /\ agent'.request = agent.request
  <2>1. CASE AllAnswered
    <3>1. PICK had \in BOOLEAN, then \in {"consume", "usage"} :
             agent' = [agent EXCEPT !.pc = "commit", !.had = had, !.then = then]
      BY <1>1, <2>1 DEF AllAnswered, Loop
    <3>2. agent' \in Loop /\ agent'.pc = "commit" /\ agent'.request = agent.request
          /\ agent'.batch = agent.batch
      BY <1>1, <3>1 DEF Loop, AgentPcs
    <3>3. agent.batch # <<>>
      BY <1>1, <2>1 DEF AllAnswered, At, Full
    <3> QED BY <3>2, <3>3 DEF Full, InCall
  <2>2. CASE \E canceled \in BOOLEAN : Answered(canceled)
    <3>1. agent.pc \in InCall \/ (agent.pc = "call" /\ agent.calls # <<>>)
      <4>1. CASE AllAnswered
        <5>1. PICK canceled \in BOOLEAN : Answered(canceled)
          BY <2>2
        <5>2. agent'.pc = "call" /\ agent'.pc = "commit"
          BY <1>1, <4>1, <5>1 DEF Answered, AllAnswered, Loop
        <5> QED BY <5>2
      <4>2. CASE ~AllAnswered
        BY <4>2 DEF SkipCall, PublishWithdrawal, FinishTool, At, InCall
      <4> QED BY <4>1, <4>2
    <3> QED BY <1>1, <2>2, <3>1, Answering
  <2>3. CASE ~AllAnswered
    BY <2>2, <2>3 DEF SkipCall, PublishWithdrawal, FinishTool
  <2> QED BY <2>1, <2>3
<1>4. Types'
  BY <1>1, <1>3, Kept
<1> QED BY <1>1, <1>2, <1>3, <1>4, LoopMoves

\* A tool call starts.
LEMMA StartSteps ==
    ASSUME IInv, StartCall
    PROVE  IInv'
<1>1. /\ UNCHANGED <<mailbox, timeline, head, branch, approvals, client, seen>>
      /\ agent \in Loop /\ Full /\ seen \in Seen /\ Types /\ agent.pc = "call"
      /\ agent.calls # <<>> /\ agent.batch # <<>>
  BY DEF IInv, Types, StartCall, inbox, history, At, Full
<1>2. CASE Goto("request")
  <2>1. agent' \in Loop /\ Full' /\ agent'.pc = "request" /\ agent'.request = agent.request
    BY <1>1, <1>2, Going DEF AgentPcs
  <2>2. Types'
    BY <1>1, <2>1, Kept
  <2> QED BY <1>1, <2>1, <2>2, LoopMoves
<1>3. CASE NextCall \notin {"human", "both"} /\ Goto("tool")
  <2>1. agent' \in Loop /\ Full' /\ agent'.pc = "tool" /\ agent'.request = agent.request
        /\ agent'.calls = agent.calls
    BY <1>1, <1>3, Going DEF AgentPcs
  <2>2. Types'
    BY <1>1, <2>1, Kept
  <2>3. approval' = approval /\ decision' = decision /\ client' = client
    BY <1>1 DEF approvals
  <2>4. Asked'
    BY <1>1, <2>1, <2>3 DEF IInv, Asked, Waits, At, Taken
  <2>5. Granted'
    BY <1>1, <1>3, <2>1, <2>3 DEF IInv, Granted, ApprovedOnly, At, NextCall, Taken
  <2> QED BY <2>2, <2>4, <2>5 DEF IInv
<1> QED BY <1>2, <1>3 DEF StartCall, StartTool

\* A tool call asks for approval.
LEMMA RequestSteps ==
    ASSUME IInv, RequestApproval
    PROVE  IInv'
<1>1. /\ UNCHANGED <<mailbox, timeline, head, branch, decision, client, seen>>
      /\ agent \in Loop /\ Full /\ seen \in Seen /\ Types /\ agent.pc = "request"
      /\ agent.calls # <<>> /\ agent.batch # <<>>
  BY DEF IInv, Types, RequestApproval, inbox, history, At, Full, InCall
<1>2. CASE \E canceled \in BOOLEAN : Answered(canceled) /\ UNCHANGED approval
  <2>1. agent' \in Loop /\ Full' /\ agent'.pc = "call" /\ agent'.request = agent.request
    BY <1>1, <1>2, Answering DEF InCall
  <2>2. UNCHANGED approvals
    BY <1>1, <1>2 DEF approvals
  <2>3. Types'
    BY <1>1, <2>1, <2>2, Kept
  <2> QED BY <1>1, <2>1, <2>2, <2>3, LoopMoves
<1>3. CASE /\ agent' = [agent EXCEPT !.request = @ + 1, !.pc = "publish"]
           /\ approval' = agent.request + 1
  <2>1. /\ agent' \in Loop /\ agent'.pc = "publish" /\ agent'.request = agent.request + 1
        /\ agent'.calls = agent.calls /\ agent'.batch = agent.batch /\ agent.request \in Nat
    <3> DEFINE request == agent.request + 1
    <3>1. agent.request \in Nat /\ request \in Nat
      BY <1>1 DEF Loop
    <3>2. agent' = [agent EXCEPT !.request = request, !.pc = "publish"]
      BY <1>3
    <3> HIDE DEF request
    <3>3. agent' \in Loop /\ agent'.pc = "publish" /\ agent'.request = request
          /\ agent'.calls = agent.calls /\ agent'.batch = agent.batch
      BY <1>1, <3>1, <3>2 DEF Loop, AgentPcs
    <3> QED BY <3>1, <3>3 DEF request
  <2>2. Full'
    BY <1>1, <2>1 DEF Full
  <2>3. Types'
    BY <1>1, <1>3, <2>1, <2>2 DEF Types
  <2>4. ~Taken("cancel") /\ ~Taken("resolve") /\ decision = "none"
    BY <1>1 DEF IInv, Asked, Waits, At
  <2>5. ~Taken("cancel")' /\ ~Taken("resolve")' /\ decision' = "none"
    BY <1>1, <2>4 DEF Taken
  <2>6. Asked'
    BY <1>3, <2>1, <2>5 DEF Asked, Waits, At
  <2>7. Granted'
    BY <1>1, <2>1, <2>5 DEF IInv, Granted, ApprovedOnly, At, Taken
  <2> QED BY <2>3, <2>6, <2>7 DEF IInv
<1> QED BY <1>2, <1>3 DEF RequestApproval

\* The question is put to the clients, or withdrawn.
LEMMA WaitSteps ==
    ASSUME IInv, PublishRequest \/ Withdraw
    PROVE  IInv'
<1>1. /\ UNCHANGED <<mailbox, timeline, head, branch, decision, client, seen>>
      /\ agent \in Loop /\ Full /\ seen \in Seen /\ Types /\ agent.pc \in {"publish", "wait"}
      /\ agent.calls # <<>> /\ agent.batch # <<>> /\ approval \in {0, agent.request}
      /\ Waits /\ agent.request # 0
  BY DEF IInv, Types, PublishRequest, Withdraw, rest, approvals, inbox, history, At, Full, InCall,
         Asked, Waits
<1>2. /\ Taken("cancel")' <=> Taken("cancel")
      /\ Taken("resolve")' <=> Taken("resolve")
      /\ client' = client /\ decision' = decision /\ seen' = seen
  BY <1>1 DEF Taken
<1>3. PICK pc \in {"wait", "withdrawn", "await"} :
         /\ Goto(pc)
         /\ pc = "wait" => agent.pc = "publish" /\ approval' = approval
         /\ pc = "withdrawn" => approval # 0 /\ approval' = 0
         /\ pc = "await" => approval = 0 /\ approval' = approval
  <2>1. CASE PublishRequest
    BY <2>1 DEF PublishRequest, rest, approvals, At
  <2>2. CASE Withdraw
    BY <1>1, <2>2 DEF Withdraw
  <2> QED BY <2>1, <2>2
<1>4. agent' \in Loop /\ Full' /\ agent'.pc = pc /\ agent'.request = agent.request
  BY <1>1, <1>3, Going DEF AgentPcs
<1>5. approval' \in {0, agent.request} /\ approval' \in Nat
  BY <1>1, <1>3 DEF Loop
<1>6. Types'
  BY <1>1, <1>4, <1>5 DEF Types
<1>7. Asked'
  BY <1>1, <1>2, <1>3, <1>4, <1>5 DEF IInv, Asked, Waits, At
<1>8. Granted'
  BY <1>1, <1>2, <1>3, <1>4 DEF IInv, Granted, ApprovedOnly, At
<1> QED BY <1>6, <1>7, <1>8 DEF IInv

\* A tool call takes its decision.
LEMMA DecisionSteps ==
    ASSUME IInv, TakeDecision
    PROVE  IInv'
<1>1. /\ UNCHANGED <<mailbox, timeline, head, branch, approval, client, seen>>
      /\ agent \in Loop /\ Full /\ seen \in Seen /\ Types /\ agent.pc \in {"wait", "await"}
      /\ agent.calls # <<>> /\ agent.batch # <<>> /\ decision # "none" /\ decision' = "none"
  BY DEF IInv, Types, TakeDecision, inbox, history, At, Full, InCall
<1>2. ~Taken("cancel") /\ ~Taken("resolve") /\ approval = 0
  BY <1>1 DEF IInv, Asked
<1>3. ~Taken("cancel")' /\ ~Taken("resolve")' /\ approval' = 0
  BY <1>1, <1>2 DEF Taken
<1>4. /\ agent' \in Loop /\ Full' /\ agent'.pc \in {"tool", "call"}
      /\ agent'.request = agent.request
      /\ agent'.pc = "tool" => decision = "approve"
  <2>1. CASE Goto("tool") /\ decision = "approve"
    BY <1>1, <2>1, Going DEF AgentPcs
  <2>2. CASE \E canceled \in BOOLEAN : Answered(canceled)
    BY <1>1, <2>2, Answering DEF InCall
  <2> QED BY <2>1, <2>2 DEF TakeDecision, StartTool
<1>5. Types'
  BY <1>1, <1>4 DEF Types, Verdict
<1>6. Asked'
  BY <1>1, <1>3, <1>4 DEF Asked, Waits, At
<1>7. Granted'
  BY <1>1, <1>3, <1>4 DEF IInv, Granted, ApprovedOnly, At, Taken
<1> QED BY <1>5, <1>6, <1>7 DEF IInv

-----------------------------------------------------------------------------
(* The clients' answers *)

\* What the client that took the question does leaves the tool call waiting.
LEMMA Resolving ==
    ASSUME IInv, NEW c \in {"cancel", "resolve"}, Resolver(c)
    PROVE  IInv'
<1>1. /\ UNCHANGED <<mailbox, timeline, head, branch, approval, agent, seen>>
      /\ client \in Calls /\ Types /\ Full /\ Verdict = {"none", "approve", "deny", "cancel"}
  BY DEF IInv, Types, Resolver, PublishResolution, SendDecision, approvals, inbox, history, Verdict
<1>2. Full'
  BY <1>1 DEF Full
<1>3. CASE PublishResolution(c)
  <2>1. /\ client' = [client EXCEPT ![c].pc = "send"] /\ client[c].pc = "publish"
        /\ decision' = decision
    BY <1>3 DEF PublishResolution, Calling, ClientGoto, approvals
  <2>2. /\ client' \in Calls /\ Taken(c) /\ Taken(c)'
        /\ client'.cancel.verdict = client.cancel.verdict
        /\ client'.resolve.verdict = client.resolve.verdict
        /\ Taken("cancel")' <=> Taken("cancel")
        /\ Taken("resolve")' <=> Taken("resolve")
    <3>1. CASE c = "cancel"
      BY <1>1, <2>1, <3>1 DEF Calls, Deciding, Taken
    <3>2. CASE c = "resolve"
      BY <1>1, <2>1, <3>2 DEF Calls, Deciding, Taken
    <3> QED BY <3>1, <3>2
  <2>3. Types'
    BY <1>1, <1>2, <2>1, <2>2 DEF Types
  <2>4. Asked'
    BY <1>1, <2>1, <2>2 DEF IInv, Asked, Waits, At
  <2>5. \A d \in {"cancel", "resolve"} : Taken(d)' => client'[d].verdict # "none"
    BY <1>1, <2>1, <2>2 DEF IInv, Granted
  <2>6. Granted'
    BY <1>1, <2>1, <2>2, <2>5 DEF IInv, Granted, ApprovedOnly, At, NextCall
  <2> QED BY <2>3, <2>4, <2>6 DEF IInv
<1>4. CASE SendDecision(c)
  <2> DEFINE free == [pc |-> "off", verdict |-> "none"]
  <2>1. /\ client' = [client EXCEPT ![c] = free] /\ client[c].pc = "send"
        /\ decision' = client[c].verdict
    BY <1>4 DEF SendDecision, Calling
  <2>2. /\ free \in Deciding /\ free.pc = "off" /\ free.verdict = "none"
    BY DEF Deciding, Verdict
  <2> HIDE DEF free
  <2>3. client' \in Calls /\ client[c] \in Deciding /\ client'[c] = free
        /\ \A d \in {"cancel", "resolve"} \ {c} : client'[d] = client[d]
    <3>1. CASE c = "cancel"
      BY <1>1, <2>1, <2>2, <3>1 DEF Calls
    <3>2. CASE c = "resolve"
      BY <1>1, <2>1, <2>2, <3>2 DEF Calls
    <3> QED BY <3>1, <3>2
  <2>4. Taken(c) /\ ~Taken(c)' /\ client[c].verdict # "none" /\ decision' \in Verdict
        /\ \A d \in {"cancel", "resolve"} \ {c} : ~Taken(d) /\ ~Taken(d)'
    <3>1. Taken(c) /\ ~Taken(c)'
      BY <2>1, <2>2, <2>3 DEF Taken
    <3>2. client[c].verdict # "none" /\ client[c].verdict \in Verdict
      BY <2>3, <3>1 DEF IInv, Granted, Deciding
    <3>3. \A d \in {"cancel", "resolve"} \ {c} : ~Taken(d)
      BY <3>1 DEF IInv, Asked
    <3> QED BY <2>1, <2>3, <3>1, <3>2, <3>3 DEF Taken
  <2>5. Types'
    BY <1>1, <1>2, <2>3, <2>4 DEF Types
  <2>6. ~Taken("cancel")' /\ ~Taken("resolve")' /\ decision' # "none" /\ approval = 0 /\ Waits
    BY <2>1, <2>4 DEF IInv, Asked
  <2>7. Asked'
    BY <1>1, <2>6 DEF IInv, Asked, Waits, At
  <2>8. client'.cancel.verdict \notin {"approve", "deny"}
    BY <2>2, <2>3 DEF IInv, Granted
  <2>9. decision' = "approve" => agent.request \in seen.approved
    BY <2>1, <2>4 DEF IInv, Granted
  <2>10. Granted'
    BY <1>1, <2>6, <2>8, <2>9 DEF IInv, Granted, ApprovedOnly, At, NextCall
  <2> QED BY <2>5, <2>7, <2>10 DEF IInv
<1> QED BY <1>3, <1>4 DEF Resolver

\* A client cancels the turn.
LEMMA CancelSteps ==
    ASSUME IInv, CancelTurn
    PROVE  IInv'
<1>1. /\ UNCHANGED <<mailbox, timeline, head, branch, agent, decision>>
      /\ client \in Calls /\ seen \in Seen /\ Types /\ Full
      /\ approval' = 0 /\ client.cancel.pc = "off"
  BY DEF IInv, Types, CancelTurn, inbox, history, Calling
<1>2. seen' \in Seen /\ seen'.approved = seen.approved
  <2>1. seen' = [seen EXCEPT !.cancels = @ + 1]
    BY DEF CancelTurn
  <2> QED BY <1>1, <2>1 DEF Seen
<1>3. Full' /\ 0 \in Nat
  BY <1>1 DEF Full
<1>4. CASE approval = 0
  <2>1. client' = client /\ UNCHANGED approvals
    BY <1>1, <1>4 DEF CancelTurn, approvals
  <2>2. Types'
    BY <1>1, <1>2, <1>3, <2>1 DEF Types
  <2> QED BY <1>1, <1>2, <2>1, <2>2, NotWaiting
<1>5. CASE approval # 0
  <2> DEFINE taken == [pc |-> "publish", verdict |-> "cancel"]
  <2>1. client' = [client EXCEPT !.cancel = taken]
    BY <1>5 DEF CancelTurn
  <2>2. taken \in Deciding /\ taken.pc = "publish" /\ taken.verdict = "cancel"
    BY DEF Deciding, Verdict
  <2> HIDE DEF taken
  <2>3. client' \in Calls /\ client'.cancel = taken /\ client'.resolve = client.resolve
    BY <1>1, <2>1, <2>2 DEF Calls
  <2>4. Types'
    BY <1>1, <1>2, <1>3, <2>3 DEF Types
  <2>5. ~Taken("resolve") /\ decision = "none" /\ Waits
    BY <1>5 DEF IInv, Asked
  <2>6. Taken("cancel")' /\ ~Taken("resolve")' /\ client'["cancel"].verdict = "cancel"
    BY <2>2, <2>3, <2>5 DEF Taken
  <2>7. Asked'
    BY <1>1, <2>5, <2>6 DEF IInv, Asked, Waits, At
  <2>8. Granted'
    BY <1>1, <1>2, <2>5, <2>6 DEF IInv, Granted, ApprovedOnly, At, NextCall
  <2> QED BY <2>4, <2>7, <2>8 DEF IInv
<1> QED BY <1>4, <1>5

\* A client resolves the approval.
LEMMA ResolveSteps ==
    ASSUME IInv, NEW verdict \in {"approve", "deny"}, ResolveApproval(verdict)
    PROVE  IInv'
<1>1. /\ UNCHANGED <<mailbox, timeline, head, branch, agent, decision>>
      /\ client \in Calls /\ seen \in Seen /\ Types /\ Full
      /\ approval # 0 /\ approval' = 0
  BY DEF IInv, Types, ResolveApproval, inbox, history
<1>2. approval \in Nat /\ approval = agent.request
  BY <1>1 DEF IInv, Types, Asked
<1>3. seen' \in Seen /\ seen.approved \subseteq seen'.approved
      /\ (verdict = "approve" => approval \in seen'.approved)
  <2>1. seen' = [seen EXCEPT !.approved = IF verdict = "approve" THEN @ \cup {approval} ELSE @]
    BY DEF ResolveApproval
  <2> QED BY <1>1, <1>2, <2>1 DEF Seen
<1>4. Full' /\ 0 \in Nat
  BY <1>1 DEF Full
<1> DEFINE taken == [pc |-> "publish", verdict |-> verdict]
<1>5. client' = [client EXCEPT !.resolve = taken]
  BY DEF ResolveApproval
<1>6. taken \in Deciding /\ taken.pc = "publish" /\ taken.verdict = verdict
  BY DEF Deciding, Verdict
<1> HIDE DEF taken
<1>7. client' \in Calls /\ client'.resolve = taken /\ client'.cancel = client.cancel
  BY <1>1, <1>5, <1>6 DEF Calls
<1>8. Types'
  BY <1>1, <1>3, <1>4, <1>7 DEF Types
<1>9. ~Taken("cancel") /\ decision = "none" /\ Waits
  BY <1>1 DEF IInv, Asked
<1>10. Taken("resolve")' /\ ~Taken("cancel")' /\ client'["resolve"].verdict = verdict
  BY <1>6, <1>7, <1>9 DEF Taken
<1>11. Asked'
  BY <1>1, <1>9, <1>10 DEF IInv, Asked, Waits, At
<1>12. Granted'
  BY <1>1, <1>2, <1>3, <1>7, <1>9, <1>10 DEF IInv, Granted, ApprovedOnly, At, NextCall
<1> QED BY <1>8, <1>11, <1>12 DEF IInv

-----------------------------------------------------------------------------
(* The steps elsewhere *)

\* Compactions, the hub and its watchers.
LEMMA SideSteps ==
    ASSUME IInv, \/ Compact("auto") \/ Compact("manual") \/ Watchers \/ Hub
                 \/ TriggerManual \/ InstallManual \/ AllowDraining \/ ReportManual
                 \/ ManualCompact \/ UNCHANGED vars
    PROVE  IInv'
<1>1. /\ UNCHANGED <<mailbox, branch, approvals, agent, client>> /\ Types /\ Full
      /\ seen \in Seen /\ timeline \in Seq(Event) /\ head \in Nat
  BY DEF IInv, Types, Compact, Snapshot, SummaryFails, StoreSummary, ApplySummary, Watchers,
         WatchFires, StaleWatchSelects, Hub, HandleEvent, StopHub, TriggerManual, InstallManual,
         AllowDraining, ReportManual, ManualCompact, inbox, history, vars
<1>2. Full'
  BY <1>1 DEF Full
<1>3. seen' \in Seen /\ seen'.approved = seen.approved
  <2>1. CASE ManualCompact
    <3>1. seen' = [seen EXCEPT !.compactions = @ + 1]
      BY <2>1 DEF ManualCompact
    <3> QED BY <1>1, <3>1, SMTT(30) DEF Seen
  <2>2. CASE ~ManualCompact
    BY <1>1, <2>2 DEF Compact, Snapshot, SummaryFails, StoreSummary, ApplySummary, Watchers,
         WatchFires, StaleWatchSelects, Hub, HandleEvent, StopHub, TriggerManual, InstallManual,
         AllowDraining, ReportManual, vars
  <2> QED BY <2>1, <2>2
<1>4. timeline' \in Seq(Event) /\ head' \in Nat
  <2>1. CASE \E c \in {"auto", "manual"} : StoreSummary(c)
    <3> DEFINE e == [parent |-> head, kind |-> "compaction", message |-> 0]
    <3>1. timeline' = Append(timeline, e) /\ head' = Len(timeline) + 1
      BY <2>1 DEF StoreSummary, Store
    <3>2. e \in Event
      BY <1>1 DEF Event
    <3> HIDE DEF e
    <3> QED BY <1>1, <3>1, <3>2
  <2>2. CASE UNCHANGED <<timeline, head>>
    BY <1>1, <2>2
  <2> QED BY <2>1, <2>2 DEF Compact, Snapshot, SummaryFails, ApplySummary, Watchers,
         WatchFires, StaleWatchSelects, Hub, HandleEvent, StopHub, TriggerManual, InstallManual,
         AllowDraining, ReportManual, ManualCompact, history, vars
<1>5. Types'
  BY <1>1, <1>2, <1>3, <1>4 DEF Types, approvals
<1> QED BY <1>1, <1>3, <1>5, NotWaiting

\* The clients' calls, together.
LEMMA ClientSteps ==
    ASSUME IInv, \/ EnqueueUserMessage \/ Enqueuer \/ Brancher \/ Closer \/ Close
                 \/ \E e \in DOMAIN timeline : SelectBranch(e)
    PROVE  IInv'
<1>1. /\ UNCHANGED <<timeline, head, approvals, agent>> /\ Types /\ Full
      /\ seen \in Seen /\ client \in Calls /\ mailbox \in Seq(Nat) /\ branch \in Nat
      /\ timeline \in Seq(Event)
  BY DEF IInv, Types, EnqueueUserMessage, Enqueuer, SendMessage, SendGivesUp, Brancher,
         SwitchHistory, FinishSelect, Closer, CancelSession, FinishClose, Close, SelectBranch,
         history
<1>2. Full'
  BY <1>1 DEF Full
<1>3. client' \in Calls /\ client'.cancel = client.cancel /\ client'.resolve = client.resolve
  <2>1. CASE \E c \in {"enqueue", "close", "branch"}, pc \in ClientPcs : ClientGoto(c, pc)
    <3>1. PICK c \in {"enqueue", "close", "branch"}, pc \in ClientPcs : ClientGoto(c, pc)
      BY <2>1
    <3>2. client' = [client EXCEPT ![c].pc = pc]
      BY <3>1 DEF ClientGoto
    <3>3. CASE c = "enqueue"
      BY <1>1, <3>2, <3>3 DEF Calls
    <3>4. CASE c = "close"
      BY <1>1, <3>2, <3>4 DEF Calls
    <3>5. CASE c = "branch"
      BY <1>1, <3>2, <3>5 DEF Calls
    <3> QED BY <3>3, <3>4, <3>5
  <2>2. CASE \E pc \in ClientPcs, e \in Nat :
                client' = [client EXCEPT !.branch = [pc |-> pc, event |-> e]]
    <3>1. PICK pc \in ClientPcs, e \in Nat :
             client' = [client EXCEPT !.branch = [pc |-> pc, event |-> e]]
      BY <2>2
    <3> QED BY <1>1, <3>1 DEF Calls
  <2>3. DOMAIN timeline \subseteq Nat
    BY <1>1
  <2>4. {"off", "send", "switch", "select", "cancelctx", "wait", "closed"} \subseteq ClientPcs
    BY DEF ClientPcs
  <2> QED BY <2>1, <2>2, <2>3, <2>4 DEF EnqueueUserMessage, Enqueuer, SendMessage, SendGivesUp,
         Brancher, SwitchHistory, FinishSelect, EndSelect, Closer, CancelSession, FinishClose,
         Close, SelectBranch
<1>4. seen' \in Seen /\ seen'.approved = seen.approved
  <2>1. CASE SendMessage
    <3>1. seen' = [seen EXCEPT !.sent = @ + 1]
      BY <2>1 DEF SendMessage
    <3>2. seen \in Seen
      BY <1>1
    <3> QED BY <3>1, <3>2 DEF Seen
  <2>2. CASE \E e \in DOMAIN timeline : SelectBranch(e)
    <3>1. PICK e \in DOMAIN timeline : SelectBranch(e)
      BY <2>2
    <3>2. seen' = [seen EXCEPT !.branches = @ + 1]
      BY <3>1 DEF SelectBranch
    <3>3. seen \in Seen
      BY <1>1
    <3> QED BY <3>2, <3>3 DEF Seen
  <2>3. CASE UNCHANGED seen
    BY <1>1, <2>3
  <2> QED BY <2>1, <2>2, <2>3 DEF EnqueueUserMessage, Enqueuer, SendGivesUp, Brancher,
         SwitchHistory, FinishSelect, Closer, CancelSession, FinishClose, Close
<1>5. mailbox' \in Seq(Nat)
  <2>1. CASE SendMessage
    <3>1. mailbox' = Append(mailbox, seen.sent + 1) /\ seen.sent + 1 \in Nat
      BY <1>1, <2>1 DEF SendMessage, Seen
    <3> QED BY <1>1, <3>1
  <2>2. CASE UNCHANGED mailbox
    BY <1>1, <2>2
  <2> QED BY <2>1, <2>2 DEF EnqueueUserMessage, Enqueuer, SendGivesUp, Brancher,
         SwitchHistory, FinishSelect, Closer, CancelSession, FinishClose, Close, SelectBranch, inbox
<1>6. branch' \in Nat
  <2>1. CASE FinishSelect
    BY <1>1, <2>1 DEF FinishSelect, Calls
  <2>2. CASE UNCHANGED branch
    BY <1>1, <2>2
  <2> QED BY <2>1, <2>2 DEF EnqueueUserMessage, Enqueuer, SendMessage, SendGivesUp, Brancher,
         SwitchHistory, Closer, CancelSession, FinishClose, Close, SelectBranch, history
<1>7. Types'
  BY <1>1, <1>2, <1>3, <1>4, <1>5, <1>6 DEF Types, approvals
<1> QED BY <1>1, <1>3, <1>4, <1>7, NotWaiting

-----------------------------------------------------------------------------
(* The theorems *)

\* The invariant holds at first,
LEMMA Initially == Init => IInv
<1> SUFFICES ASSUME Init PROVE IInv
  OBVIOUS
<1>1. agent \in Loop /\ agent.pc = "consume" /\ agent.request = 0
  <2>1. <<>> \in Seq(Nat) /\ <<>> \in Seq(Call) /\ <<>> \in Seq(Entry)
    OBVIOUS
  <2> QED BY <2>1 DEF Init, Loop, AgentPcs
<1>2. /\ client \in Calls /\ client.cancel.pc = "off" /\ client.resolve.pc = "off"
      /\ client.cancel.verdict = "none"
  BY DEF Init, Calls, Deciding, Verdict, ClientPcs
<1>3. seen \in Seen
  BY SessionAssumption DEF Init, Seen
<1>4. timeline \in Seq(Event) /\ head \in Nat
  <2> DEFINE asked == [parent |-> 0, kind |-> "user", message |-> 0]
             replied == [parent |-> 1, kind |-> "reply", message |-> 0]
  <2>1. asked \in Event /\ replied \in Event
    BY DEF Event
  <2>2. timeline \in {<<>>, <<asked, replied>>} /\ head = Len(timeline)
    BY DEF Init
  <2> HIDE DEF asked, replied
  <2>3. <<>> \in Seq(Event) /\ <<asked, replied>> \in Seq(Event)
    BY <2>1
  <2>4. timeline \in Seq(Event)
    BY <2>2, <2>3
  <2> QED BY <2>2, <2>4
<1>5. Full
  BY <1>1 DEF Full, InCall
<1>6. Types
  BY <1>1, <1>2, <1>3, <1>4, <1>5 DEF Types, Init, Verdict
<1>7. Asked
  BY <1>1, <1>2 DEF Asked, Init, Taken, Waits, At
<1>8. Granted
  BY <1>1, <1>2 DEF Granted, Init, Taken, ApprovedOnly, At
<1> QED BY <1>6, <1>7, <1>8 DEF IInv

\* and after every step,
LEMMA Inductive == IInv /\ [Next]_vars => IInv'
<1> SUFFICES ASSUME IInv, [Next]_vars PROVE IInv'
  OBVIOUS
<1>1. CASE Turn
  BY <1>1, MailSteps, CommitSteps, TurnSteps DEF Turn
<1>2. CASE ToolCalls
  BY <1>2, EndsOfCalls, StartSteps, RequestSteps, WaitSteps, DecisionSteps DEF ToolCalls
<1>3. CASE TriggerAuto \/ ReportAuto \/ InstallAuto
  BY <1>3, AutoSteps
<1>4. CASE \E c \in {"cancel", "resolve"} : Resolver(c)
  BY <1>4, Resolving
<1>5. CASE CancelTurn
  BY <1>5, CancelSteps
<1>6. CASE \E verdict \in {"approve", "deny"} : ResolveApproval(verdict)
  BY <1>6, ResolveSteps
<1>7. CASE \/ Compact("auto") \/ Compact("manual") \/ Watchers \/ Hub
           \/ TriggerManual \/ InstallManual \/ AllowDraining \/ ReportManual
           \/ ManualCompact \/ UNCHANGED vars
  BY <1>7, SideSteps
<1>8. CASE \/ EnqueueUserMessage \/ Enqueuer \/ Brancher \/ Closer \/ Close
           \/ \E e \in DOMAIN timeline : SelectBranch(e)
  BY <1>8, ClientSteps
<1> QED BY <1>1, <1>2, <1>3, <1>4, <1>5, <1>6, <1>7, <1>8 DEF Next, Agent, Compactor, Clients

\* so it holds always.
LEMMA Invariant == Spec => []IInv
<1>1. Init => IInv
  BY Initially
<1>2. IInv /\ [Next]_vars => IInv'
  BY Inductive
<1> QED BY <1>1, <1>2, PTL DEF Spec

\* A tool call that waits for a decision can always be given one: its request
\* is there to be answered, or a client has taken it and is on its way to
\* answer it, or the answer is there (performHITL, CancelTurn, ResolveApproval).
THEOREM CallsAreAnswerable == Spec => []Answerable
<1>1. IInv => Answerable
  BY DEF IInv, Asked, Waits, Taken, Answerable, At
<1> QED BY <1>1, Invariant, PTL

\* A tool that asks for approval runs only if its own request was approved,
\* however cancellations, decisions and the session's end race (performHITL).
THEOREM ToolsAreApproved == Spec => []ApprovedOnly
<1>1. IInv => ApprovedOnly
  BY DEF IInv, Granted
<1> QED BY <1>1, Invariant, PTL

-----------------------------------------------------------------------------
(***************************************************************************)
(* What the model is asked to continue.  Until a branch is selected or a   *)
(* history compacted the timeline is one line of events, and its context   *)
(* all of them.                                                            *)
(***************************************************************************)

\* Every set of numbers has a least one.
LEMMA Least ==
  ASSUME NEW T, T \subseteq Nat, T # {}
  PROVE \E x \in T : \A y \in T : ~(y < x)
<1> DEFINE R == StrictSubsetOrdering(Nat)
           S == FiniteSubsetsOf(Nat)
           U == {1 .. n : n \in T}
<1>1. IsWellFoundedOn(R, S)
  BY FS_StrictSubsetOrderingWellFounded
<1>2. U \subseteq S
  <2>1. \A n \in Nat : 1 .. n \in SUBSET Nat /\ IsFiniteSet(1 .. n)
    BY FS_Interval
  <2> QED BY <2>1 DEF FiniteSubsetsOf
<1>3. U # {}
  OBVIOUS
<1>4. PICK x \in U : \A y \in U : ~(<<y, x>> \in R)
  <2> HIDE DEF R, S, U
  <2> QED BY <1>1, <1>2, <1>3, WFMin
<1>5. PICK n \in T : x = 1 .. n
  BY <1>4
<1>6. ASSUME NEW m \in T, m < n PROVE FALSE
  <2>1. 1 .. m \subseteq 1 .. n /\ n \in 1 .. n /\ n \notin 1 .. m
    BY <1>6
  <2>2. <<1 .. m, 1 .. n>> \in (SUBSET Nat) \X (SUBSET Nat)
    BY <1>6
  <2>3. <<1 .. m, 1 .. n>> \in R
    BY <2>1, <2>2, SMTT(30) DEF StrictSubsetOrdering
  <2> QED BY <2>3, <1>4, <1>5, <1>6
<1> QED BY <1>6

\* The events up to the n-th.
Line(n) == [i \in 1 .. n |-> i]

\* The context of a timeline that is one line of events is that line: the least
\* event of which this would not hold follows one of which it does.
LEMMA ContextIsLine ==
  ASSUME timeline \in Seq(Event),
         \A i \in DOMAIN timeline : timeline[i].parent = i - 1 /\ timeline[i].kind # "compaction"
  PROVE  Context(Len(timeline)) = Line(Len(timeline))
<1> DEFINE n == Len(timeline)
           Step(f) == [x \in 0 .. n |-> CASE x = 0 -> <<>>
                          [] x # 0 /\ timeline[x].kind = "compaction" -> <<x>>
                          [] OTHER -> Append(f[timeline[x].parent], x)]
           path == CHOOSE f : f = Step(f)
           lines == [x \in 0 .. n |-> Line(x)]
<1>1. Context(n) = path[n]
  BY DEF Context
<1>2. n \in Nat /\ DOMAIN timeline = 1 .. n
  OBVIOUS
<1>3. \A x \in 1 .. n : Line(x) = Append(Line(x - 1), x)
  <2> TAKE x \in 1 .. n
  <2>1. Line(x) \in Seq(Nat) /\ Line(x - 1) \in Seq(Nat) /\ Len(Line(x)) = x /\ Len(Line(x - 1)) = x - 1
    BY DEF Line
  <2> QED BY <2>1 DEF Line
<1>4. lines = Step(lines)
  BY <1>2, <1>3 DEF Line
<1>5. path = Step(path)
  <2> HIDE DEF Step, lines
  <2> QED BY <1>4
<1>6. \A x \in 0 .. n : path[x] = Line(x)
  <2> DEFINE T == {x \in 0 .. n : path[x] # Line(x)}
  <2> SUFFICES ASSUME T # {} PROVE FALSE
    OBVIOUS
  <2>1. PICK x \in T : \A y \in T : ~(y < x)
    <3>1. T \subseteq Nat
      BY <1>2, SMTT(30)
    <3> HIDE DEF T
    <3> QED BY Least, <3>1
  <2>2. path[x] = Step(path)[x]
    BY <1>5
  <2> HIDE DEF path
  <2>3. x # 0
    <3>1. Line(0) = <<>>
      BY DEF Line
    <3>2. x = 0 => path[x] = <<>>
      BY <2>2
    <3> QED BY <3>1, <3>2
  <2>4. path[x - 1] = Line(x - 1)
    BY <2>1, <2>3, <1>2
  <2>5. x \in 1 .. n /\ timeline[x].parent = x - 1 /\ timeline[x].kind # "compaction"
    BY <2>1, <2>3, <1>2
  <2>6. path[x] = Append(path[x - 1], x)
    <3>1. path[x] = Append(path[timeline[x].parent], x)
      BY <2>2, <2>3, <2>5
    <3> QED BY <3>1, <2>5
  <2>7. Line(x) = Append(Line(x - 1), x)
    BY <2>5, <1>3
  <2> QED BY <2>1, <2>4, <2>6, <2>7
<1> QED BY <1>1, <1>2, <1>6, SMTT(30)

Plain == seen.branches = 0 /\ seen.compactions = 0

\* Where the loop is when no commit is in progress.
Settled == AgentPcs \ {"append", "apply", "extend", "fatal", "done", "compacting", "install"}

\* Every event follows the one before it, nothing else changes the histories,
\* and what they lack are the events of the commit in progress.
Chain ==
    /\ fold.auto.pc = "off" /\ fold.manual.pc = "off" /\ client.branch.pc = "off"
    /\ agent.pc \notin {"compacting", "install"}
    /\ branch = 0 /\ agent.parent = 0 /\ head = Len(timeline)
    /\ \A i \in DOMAIN timeline : timeline[i].parent = i - 1 /\ timeline[i].kind # "compaction"
    /\ agent.pc \in Settled => working = Line(head) /\ active = working /\ agent.ids = <<>>
    /\ agent.pc \in {"append", "apply"} => active = working /\ active \o agent.ids = Line(head)
    /\ agent.pc = "extend" => active = Line(head) /\ working \o agent.ids = Line(head)
    /\ agent.pc \in {"append", "apply", "extend"} =>
          active \in Seq(Nat) /\ working \in Seq(Nat) /\ agent.ids \in Seq(Nat)

ChainInv == Plain => Chain

\* Concatenation and Append associate.
LEMMA Appended ==
    ASSUME NEW s \in Seq(Nat), NEW t \in Seq(Nat), NEW x \in Nat
    PROVE  s \o Append(t, x) = Append(s \o t, x)
<1>1. <<x>> \in Seq(Nat) /\ s \o t \in Seq(Nat)
  OBVIOUS
<1>2. (s \o t) \o <<x>> = s \o (t \o <<x>>)
  BY <1>1, ConcatAssociative, SMTT(30)
<1>3. Append(t, x) = t \o <<x>> /\ Append(s \o t, x) = (s \o t) \o <<x>>
  BY <1>1, AppendIsConcat
<1> QED BY <1>2, <1>3

\* A line, and the next one.
LEMMA LineGrows ==
    \A n \in Nat : Line(n) \in Seq(Nat) /\ Line(n + 1) = Append(Line(n), n + 1)
<1> TAKE n \in Nat
<1>1. Line(n) \in Seq(Nat) /\ Len(Line(n)) = n /\ Line(n + 1) \in Seq(Nat) /\ Len(Line(n + 1)) = n + 1
  BY DEF Line
<1> QED BY <1>1 DEF Line

\* No step undoes a selection or a compaction.
LEMMA PlainBefore ==
    ASSUME Types, Next, Plain'
    PROVE  Plain
<1> DEFINE Marked == seen'.branches = seen.branches /\ seen'.compactions = seen.compactions
<1>1. seen \in Seen
  BY DEF Types
<1>2. SUFFICES ASSUME ~Plain PROVE Marked
  BY DEF Plain
<1>3. CASE Turn
  <2>1. CASE Reply
    BY <1>1, <2>1 DEF Reply, Seen
  <2> QED BY <1>3, <2>1 DEF Turn, Consume, Drain, ReportIdle, Listen, Wake, StopParked, ReportBusy,
             BeginCommit, AppendMessage, AppendFails, ReportFatal, ApplyCommit, ExtendHistory,
             PollCancellation, Generate, ReplyFails, ContinueTurn, rest
<1>4. CASE ToolCalls
  BY <1>4 DEF ToolCalls, AllAnswered, SkipCall, StartCall, RequestApproval, PublishRequest,
              TakeDecision, Withdraw, PublishWithdrawal, FinishTool, rest
<1>5. CASE TriggerAuto
  BY <1>1, <1>5 DEF TriggerAuto, Seen, Plain, history
<1>6. CASE Compact("auto") \/ Compact("manual") \/ ReportAuto \/ InstallAuto
  BY <1>6 DEF Compact, Snapshot, SummaryFails, StoreSummary, ApplySummary, ReportAuto, InstallAuto,
              rest
<1>7. CASE TriggerManual \/ InstallManual \/ AllowDraining \/ ReportManual
  BY <1>7 DEF TriggerManual, InstallManual, AllowDraining, ReportManual
<1>8. CASE Watchers \/ Hub \/ SendGivesUp \/ Brancher \/ Closer \/ EnqueueUserMessage \/ Close
  BY <1>8 DEF Watchers, WatchFires, StaleWatchSelects, Hub, HandleEvent, StopHub, SendGivesUp,
              Brancher, SwitchHistory, FinishSelect, Closer, CancelSession, FinishClose,
              EnqueueUserMessage, Close
<1>9. CASE SendMessage \/ CancelTurn
  BY <1>1, <1>9 DEF SendMessage, CancelTurn, Seen
<1>10. CASE \E verdict \in {"approve", "deny"} : ResolveApproval(verdict)
  BY <1>1, <1>10 DEF ResolveApproval, Seen
<1>11. CASE \E c \in {"cancel", "resolve"} : Resolver(c)
  BY <1>11 DEF Resolver, PublishResolution, SendDecision
<1>12. CASE ManualCompact
  BY <1>1, <1>12 DEF ManualCompact, Seen, Plain
<1>13. CASE \E e \in DOMAIN timeline : SelectBranch(e)
  BY <1>1, <1>13 DEF SelectBranch, Seen, Plain
<1> QED BY <1>2, <1>3, <1>4, <1>5, <1>6, <1>7, <1>8, <1>9, <1>10, <1>11, <1>12, <1>13
        DEF Next, Agent, Compactor, Clients, Enqueuer

\* A step that commits nothing.
LEMMA ChainKept ==
    ASSUME Chain, UNCHANGED <<fold, history>>, client'.branch = client.branch,
           agent'.ids = agent.ids, agent'.parent = agent.parent,
           \/ agent'.pc = agent.pc
           \/ agent.pc \in Settled /\ agent'.pc \in Settled
           \/ agent'.pc \in {"done", "fatal"}
    PROVE  Chain'
<1>1. /\ fold' = fold /\ timeline' = timeline /\ head' = head /\ branch' = branch
      /\ active' = active /\ working' = working
  BY DEF history
<1> QED BY <1>1 DEF Chain, Settled, Line

\* A commit, step by step.
LEMMA ChainCommits ==
    ASSUME Types, Chain, BeginCommit \/ AppendMessage \/ ApplyCommit \/ ExtendHistory
    PROVE  Chain'
<1>1. agent \in Loop /\ agent.batch \in Seq(Entry) /\ timeline \in Seq(Event) /\ head \in Nat
  BY DEF Types, Loop
<1>2. CASE BeginCommit
  <2>1. /\ agent.pc = "commit" /\ agent' = [agent EXCEPT !.pc = "append", !.parent = branch]
        /\ UNCHANGED <<fold, history, client>>
    BY <1>2 DEF BeginCommit, At, rest
  <2>2. agent'.pc = "append" /\ agent'.parent = 0 /\ agent'.ids = <<>> /\ agent.ids = <<>>
    BY <1>1, <2>1 DEF Loop, Chain, Settled, AgentPcs
  <2>3. active = Line(head) /\ working = active /\ active \o <<>> = Line(head)
    BY <1>1, <2>1, LineGrows DEF Chain, Settled, AgentPcs
  <2>4. active \in Seq(Nat) /\ <<>> \in Seq(Nat)
    BY <1>1, <2>3, LineGrows
  <2> QED BY <2>1, <2>2, <2>3, <2>4 DEF Chain, Settled, history, Line
<1>3. CASE AppendMessage
  <2> DEFINE entry == Head(agent.batch)
             event == [parent |-> head, kind |-> entry.kind, message |-> entry.message]
  <2>1. agent.pc = "append" /\ agent.parent = 0 /\ agent.batch # <<>>
    BY <1>3 DEF AppendMessage, At, Chain, Types, Full
  <2>2. entry \in Entry
    BY <1>1, <2>1
  <2>3. event \in Event /\ event.kind # "compaction" /\ event.parent = head
    BY <1>1, <2>2 DEF Event, Entry
  <2>4. timeline' = Append(timeline, event) /\ head' = Len(timeline) + 1
    BY <1>3, <2>1 DEF AppendMessage, Store
  <2>5. head' = head + 1 /\ head' = Len(timeline')
    <3> HIDE DEF event
    <3> QED BY <1>1, <2>3, <2>4 DEF Chain
  <2>6. \A i \in DOMAIN timeline' : timeline'[i].parent = i - 1 /\ timeline'[i].kind # "compaction"
    <3> HIDE DEF event
    <3> QED BY <1>1, <2>3, <2>4 DEF Chain
  <2>7. /\ agent'.ids = Append(agent.ids, head') /\ agent'.pc \in {"append", "apply"}
        /\ agent'.parent = agent.parent
    BY <1>1, <1>3 DEF AppendMessage, Loop
  <2>8. active \in Seq(Nat) /\ agent.ids \in Seq(Nat) /\ active \o agent.ids = Line(head)
    BY <2>1 DEF Chain
  <2>9. active \o agent'.ids = Line(head')
    <3>1. active \o Append(agent.ids, head + 1) = Append(active \o agent.ids, head + 1)
      <4>1. head + 1 \in Nat
        BY <1>1
      <4> QED BY <2>8, <4>1, Appended
    <3> QED BY <1>1, <2>5, <2>7, <2>8, <3>1, LineGrows
  <2>10. agent'.ids \in Seq(Nat)
    BY <1>1, <2>5, <2>7, <2>8
  <2>11. UNCHANGED <<fold, branch, active, working, client>>
    BY <1>3 DEF AppendMessage
  <2> QED BY <2>1, <2>5, <2>6, <2>7, <2>8, <2>9, <2>10, <2>11 DEF Chain, Settled
<1>4. CASE ApplyCommit
  <2>1. /\ agent.pc = "apply" /\ active' = active \o agent.ids /\ branch' = 0
        /\ agent' = [agent EXCEPT !.pc = "extend"]
        /\ UNCHANGED <<fold, timeline, head, working, client>>
    BY <1>4 DEF ApplyCommit, At, Goto, Chain
  <2>2. agent'.pc = "extend" /\ agent'.ids = agent.ids /\ agent'.parent = agent.parent
    BY <1>1, <2>1 DEF Loop
  <2>3. active \in Seq(Nat) /\ working = active /\ active \o agent.ids = Line(head)
        /\ agent.ids \in Seq(Nat)
    BY <2>1 DEF Chain
  <2> QED BY <1>1, <2>1, <2>2, <2>3, LineGrows DEF Chain, Settled, Line
<1>5. CASE ExtendHistory
  <2>1. /\ agent.pc = "extend" /\ working' = working \o agent.ids
        /\ agent' = [agent EXCEPT !.pc = agent.then, !.ids = <<>>]
        /\ UNCHANGED <<fold, timeline, head, branch, active, client>>
    BY <1>5 DEF ExtendHistory, At
  <2>2. agent'.pc \in {"consume", "poll", "usage"} /\ agent'.ids = <<>> /\ agent'.parent = agent.parent
    BY <1>1, <2>1 DEF Loop
  <2> QED BY <2>1, <2>2 DEF Chain, Settled, AgentPcs, Line
<1> QED BY <1>2, <1>3, <1>4, <1>5

\* Nothing is folded and no branch is switched to.
LEMMA Quiet ==
    ASSUME Chain
    PROVE  /\ \A c \in {"auto", "manual"} : ~Compact(c)
           /\ ~ReportAuto /\ ~InstallAuto
           /\ ~(TriggerManual \/ InstallManual \/ AllowDraining \/ ReportManual) /\ ~Brancher
  BY DEF Chain, Compact, Snapshot, SummaryFails, StoreSummary, ApplySummary, ReportAuto,
         InstallAuto, TriggerManual, InstallManual, Folded, AllowDraining, ReportManual, Brancher,
         SwitchHistory, FinishSelect, Calling, At

\* Every step of a plain session keeps the chain.
LEMMA ChainSteps ==
    ASSUME Types, Types', Chain, Next, Plain, Plain'
    PROVE  Chain'
<1>1. agent \in Loop /\ agent' \in Loop /\ client \in Calls /\ client' \in Calls /\ seen \in Seen
  BY DEF Types
<1>2. CASE Turn
  <2>1. CASE BeginCommit \/ AppendMessage \/ ApplyCommit \/ ExtendHistory
    BY <2>1, ChainCommits
  <2>2. CASE Consume \/ Drain \/ ReportIdle \/ Listen \/ Wake \/ StopParked
    <3>1. /\ UNCHANGED <<fold, history, client>> /\ agent'.ids = agent.ids
          /\ agent'.parent = agent.parent
          /\ agent.pc \in Settled /\ agent'.pc \in Settled \cup {"done"}
      BY <1>1, <2>2, ZenonT(100) DEF Consume, Drain, ReportIdle, Listen, Wake, StopParked, rest, At, Goto,
                        Report, Loop, Settled, AgentPcs
    <3> QED BY <3>1, ChainKept
  <2>3. CASE PollCancellation \/ Generate \/ ReplyFails \/ ContinueTurn
    <3>1. /\ UNCHANGED <<fold, history, client>>
          /\ agent.pc \in {"poll", "generate", "generating", "usage"}
      BY <2>3, Zenon DEF PollCancellation, Generate, ReplyFails, ContinueTurn, rest, At
    <3>2. /\ agent'.ids = agent.ids /\ agent'.parent = agent.parent
          /\ agent'.pc \in {"consume", "generate", "generating", "trigger", "done"}
      BY <1>1, <2>3, ZenonT(30) DEF PollCancellation, Generate, ReplyFails, ContinueTurn, Goto, Loop
    <3> QED BY <3>1, <3>2, ChainKept DEF Settled, AgentPcs
  <2>4. CASE ReportBusy
    <3>1. UNCHANGED <<fold, history, client>> /\ agent.pc = "busy"
      BY <2>4 DEF ReportBusy, rest, At
    <3> DEFINE batch == [i \in DOMAIN agent.unread |->
                            [kind |-> "user", message |-> agent.unread[i]]]
    <3>2. \/ agent' = [agent EXCEPT !.pc = "generate"]
          \/ agent' = [agent EXCEPT !.pc = "commit", !.then = "poll", !.batch = batch]
          \/ agent' = [agent EXCEPT !.pc = "done"]
      BY <2>4, Zenon DEF ReportBusy, Goto
    <3> HIDE DEF batch
    <3>3. /\ agent'.ids = agent.ids /\ agent'.parent = agent.parent
          /\ agent.pc \in Settled /\ agent'.pc \in Settled \cup {"done"}
      BY <1>1, <3>1, <3>2, ZenonT(60) DEF Loop, Settled, AgentPcs
    <3> QED BY <3>1, <3>3, ChainKept
  <2>5. CASE Reply
    <3>1. UNCHANGED <<fold, history, client>> /\ agent.pc = "generating"
      BY <2>5 DEF Reply, At
    <3> DEFINE batch == <<[kind |-> "reply", message |-> 0]>>
    <3>2. PICK n, made :
             agent' = [agent EXCEPT !.calls = made, !.had = (n > 0), !.canceled = FALSE,
                                    !.batch = batch, !.then = "usage",
                                    !.pc = IF n > 0 THEN "call" ELSE "commit"]
      BY <2>5, Zenon DEF Reply
    <3> HIDE DEF batch
    <3>3. /\ agent'.ids = agent.ids /\ agent'.parent = agent.parent
          /\ agent.pc \in Settled /\ agent'.pc \in Settled
      BY <1>1, <3>1, <3>2 DEF Loop, Settled, AgentPcs
    <3> QED BY <3>1, <3>3, ChainKept
  <2>6. CASE AppendFails \/ ReportFatal
    <3>1. /\ UNCHANGED <<fold, history, client>> /\ agent'.ids = agent.ids
          /\ agent'.parent = agent.parent /\ agent'.pc \in {"done", "fatal"}
      BY <1>1, <2>6, SMTT(30) DEF AppendFails, ReportFatal, rest, Goto, Loop
    <3> QED BY <3>1, ChainKept
  <2> QED BY <1>2, <2>1, <2>2, <2>3, <2>4, <2>5, <2>6 DEF Turn
<1>3. CASE ToolCalls
  <2>1. /\ UNCHANGED <<fold, history, client>>
        /\ agent.pc \in {"call", "request", "publish", "wait", "await", "withdrawn", "tool"}
    BY <1>3 DEF ToolCalls, AllAnswered, SkipCall, StartCall, RequestApproval, PublishRequest,
                TakeDecision, Withdraw, PublishWithdrawal, FinishTool, rest, At
  <2>2. ASSUME NEW canceled, Answered(canceled)
        PROVE  agent'.ids = agent.ids /\ agent'.parent = agent.parent /\ agent'.pc = "call"
    <3> DEFINE batch == Append(agent.batch, [kind |-> "tool", message |-> 0])
               made == Tail(agent.calls)
    <3>1. agent' = [agent EXCEPT !.calls = made, !.canceled = canceled, !.pc = "call",
                                 !.batch = batch]
      BY <2>2 DEF Answered
    <3> HIDE DEF batch, made
    <3> QED BY <1>1, <3>1 DEF Loop
  <2>3. CASE AllAnswered \/ StartCall \/ PublishRequest \/ Withdraw
    <3>1. /\ agent'.ids = agent.ids /\ agent'.parent = agent.parent
          /\ agent'.pc \in {"commit", "request", "tool", "wait", "withdrawn", "await"}
      BY <1>1, <2>3 DEF AllAnswered, StartCall, StartTool, PublishRequest, Withdraw, Goto, Loop
    <3> QED BY <2>1, <3>1, ChainKept DEF Settled, AgentPcs
  <2>4. CASE SkipCall \/ PublishWithdrawal \/ FinishTool
    <3>1. \E canceled : Answered(canceled)
      BY <2>4, Zenon DEF SkipCall, PublishWithdrawal, FinishTool
    <3> QED BY <2>1, <2>2, <3>1, ChainKept DEF Settled, AgentPcs
  <2>5. CASE RequestApproval
    <3>1. \/ \E canceled : Answered(canceled)
          \/ agent' = [agent EXCEPT !.request = @ + 1, !.pc = "publish"]
      BY <2>5, Zenon DEF RequestApproval
    <3>2. /\ agent'.ids = agent.ids /\ agent'.parent = agent.parent
          /\ agent'.pc \in {"call", "publish"}
      BY <1>1, <2>2, <3>1 DEF Loop
    <3> QED BY <2>1, <3>2, ChainKept DEF Settled, AgentPcs
  <2>6. CASE TakeDecision
    <3>1. (\E canceled : Answered(canceled)) \/ Goto("tool")
      BY <2>6, Zenon DEF TakeDecision, StartTool
    <3>2. /\ agent'.ids = agent.ids /\ agent'.parent = agent.parent
          /\ agent'.pc \in {"call", "tool"}
      BY <1>1, <2>2, <3>1 DEF Goto, Loop
    <3> QED BY <2>1, <3>2, ChainKept DEF Settled, AgentPcs
  <2> QED BY <1>3, <2>3, <2>4, <2>5, <2>6 DEF ToolCalls
<1>4. CASE TriggerAuto
  <2>1. /\ UNCHANGED <<fold, history, client>> /\ agent'.ids = agent.ids
        /\ agent'.parent = agent.parent /\ agent'.pc = "done"
    BY <1>1, <1>4, SMTT(30) DEF TriggerAuto, Goto, Loop, Plain, Seen
  <2> QED BY <2>1, ChainKept
<1>5. CASE Watchers \/ Hub \/ Enqueuer \/ Closer \/ EnqueueUserMessage \/ CancelTurn \/ Close
  <2>1. UNCHANGED <<fold, history, agent>> /\ client'.branch = client.branch
    BY <1>1, <1>5 DEF Watchers, WatchFires, StaleWatchSelects, Hub, HandleEvent, StopHub, Enqueuer,
                      SendMessage, SendGivesUp, Closer, CancelSession, FinishClose,
                      EnqueueUserMessage, CancelTurn, Close, ClientGoto, Calls
  <2> QED BY <2>1, ChainKept
<1>6. CASE \E verdict \in {"approve", "deny"} : ResolveApproval(verdict)
  <2>1. UNCHANGED <<fold, history, agent>> /\ client'.branch = client.branch
    BY <1>1, <1>6 DEF ResolveApproval, Calls
  <2> QED BY <2>1, ChainKept
<1>7. CASE \E c \in {"cancel", "resolve"} : Resolver(c)
  <2>1. UNCHANGED <<fold, history, agent>> /\ client'.branch = client.branch
    BY <1>1, <1>7 DEF Resolver, PublishResolution, SendDecision, ClientGoto, Calls
  <2> QED BY <2>1, ChainKept
<1>8. ~ManualCompact
  BY <1>1 DEF ManualCompact, Plain, Seen
<1>9. ~(\E e \in DOMAIN timeline : SelectBranch(e))
  BY <1>1 DEF SelectBranch, Plain, Seen
<1> QED BY <1>2, <1>3, <1>4, <1>5, <1>6, <1>7, <1>8, <1>9, Quiet
        DEF Next, Agent, Compactor, Clients

\* A session starts with its timeline's line, if it has one.
LEMMA ChainInitially == Init => ChainInv
<1> SUFFICES ASSUME Init PROVE Chain
  BY DEF ChainInv
<1>1. /\ agent.pc = "consume" /\ agent.ids = <<>> /\ agent.parent = 0
      /\ fold.auto.pc = "off" /\ fold.manual.pc = "off" /\ client.branch.pc = "off" /\ branch = 0
  BY DEF Init
<1>2. /\ head = Len(timeline) /\ timeline \in Seq(Event)
      /\ \A i \in DOMAIN timeline : timeline[i].parent = i - 1 /\ timeline[i].kind # "compaction"
  <2>1. CASE Resumed
    <3>1. timeline = <<[parent |-> 0, kind |-> "user", message |-> 0],
                       [parent |-> 1, kind |-> "reply", message |-> 0]>>
      BY <2>1 DEF Init
    <3>2. /\ [parent |-> 0, kind |-> "user", message |-> 0] \in Event
          /\ [parent |-> 1, kind |-> "reply", message |-> 0] \in Event
      BY DEF Event
    <3>3. timeline \in Seq(Event) /\ DOMAIN timeline = {1, 2}
      BY <3>1, <3>2
    <3>4. /\ timeline[1].parent = 0 /\ timeline[1].kind = "user"
          /\ timeline[2].parent = 1 /\ timeline[2].kind = "reply"
      BY <3>1
    <3>5. head = Len(timeline)
      BY DEF Init
    <3> QED BY <3>3, <3>4, <3>5
  <2>2. CASE ~Resumed
    BY <2>2 DEF Init
  <2> QED BY <2>1, <2>2
<1>3. active = Line(head) /\ working = active
  BY <1>2 DEF Init, Line
<1> QED BY <1>1, <1>2, <1>3 DEF Chain, Settled, AgentPcs

\* Until a branch is selected or a history compacted, the model is asked to
\* continue exactly the committed chain that ends at the timeline's HEAD, in
\* the session's memory and in the agent's (commitMessages, StartLoop).
THEOREM HistoryContinuesHead == Spec => []ContinuesHead
<1>1. Init => ChainInv
  BY ChainInitially
<1>2. IInv /\ IInv' /\ ChainInv /\ [Next]_vars => ChainInv'
  <2> SUFFICES ASSUME IInv, IInv', ChainInv, [Next]_vars, Plain' PROVE Chain'
    BY DEF ChainInv
  <2>1. CASE Next
    <3>1. Plain
      BY <2>1, PlainBefore DEF IInv
    <3> QED BY <2>1, <3>1, ChainSteps DEF IInv, ChainInv
  <2>2. CASE UNCHANGED vars
    <3>1. Chain /\ UNCHANGED <<fold, history, client, agent>>
      BY <2>2 DEF vars, Plain, ChainInv
    <3> QED BY <3>1, ChainKept
  <2> QED BY <2>1, <2>2
<1>3. IInv /\ ChainInv => ContinuesHead
  <2> SUFFICES ASSUME IInv, ChainInv, At("generate"), seen.branches = 0, seen.compactions = 0
               PROVE  working = active /\ active = Context(head)
    BY DEF ContinuesHead
  <2>1. Chain /\ timeline \in Seq(Event)
    BY DEF ChainInv, Plain, IInv, Types
  <2>2. working = active /\ active = Line(head) /\ head = Len(timeline)
    BY <2>1 DEF Chain, At, Settled, AgentPcs
  <2>3. Context(Len(timeline)) = Line(Len(timeline))
    BY <2>1, ContextIsLine DEF Chain
  <2> QED BY <2>2, <2>3
<1> QED BY <1>1, <1>2, <1>3, Invariant, PTL DEF Spec

-----------------------------------------------------------------------------
(***************************************************************************)
(* What the terminal shows of a session (Terminal.tla): its screen and its *)
(* forms against the sessions behind it, whatever the user opens meanwhile. *)
(***************************************************************************)
\* What sessions ask, what an observer hands over, and the client's calls.
Requests == [kind : {"none", "approval", "question"}, of : Session \cup {None}, n : Nat]
AskedBy(s) == {r \in Requests : r.kind \in {"approval", "question"} /\ r.of = s}
Messages == [kind : {"none", "view busy", "view idle", "busy", "idle", "asked", "resolved", "gap"},
             of : Session \cup {None}, asks : Requests, stale : BOOLEAN]
ClientCalls == [kind : {"list", "load", "providers", "model", "compact", "prompt", "send", "answer", "close", "delete"},
          of : Session \cup {None}, asks : Requests, owns : BOOLEAN]
Watches == [on : BOOLEAN, of : Session \cup {None}, phase : {"joining", "live", "ended"},
            queue : Seq(Messages), waiting : BOOLEAN]
States == [busy : BOOLEAN, asks : Requests]
Screens == [status : {"busy", "idle"}, working : BOOLEAN, approval : Requests]
Modals == [kind : {"none", "loading", "sessions", "notice", "models", "form"}, asks : Requests]

\* What the observer of s is sent.
SentBy(s) ==
    {m \in Messages : /\ m.kind # "none" /\ m.of = s /\ ~m.stale
                      /\ m.asks = NoRequest \/ m.asks \in AskedBy(s)
                      /\ m.kind = "asked" => m.asks # NoRequest}

GlassTypes ==
    /\ srv \in [Session -> States]
    /\ \A s \in Session : srv[s].asks = NoRequest \/ srv[s].asks \in AskedBy(s)
    /\ session \in Session \cup {None} /\ target \in Session \cup {None}
    /\ screen \in Screens /\ modal \in Modals
    /\ calls \subseteq ClientCalls
    /\ \A c \in calls : c.kind \in {"load", "send"} => c.of \in Session
    /\ strayed \in BOOLEAN
    /\ used \in [commands : Nat, turns : Nat, failures : Nat]

\* A message of an earlier observer is known by its generation.
Observing ==
    /\ observer \in Watches /\ late \in Messages
    /\ observer.on => observer.of \in Session
    /\ observer.phase \in {"joining", "live"} => observer.on
    /\ \A i \in 1..Len(observer.queue) : observer.queue[i] \in SentBy(observer.of)
    /\ late # NoMessage => late.stale

\* The session shown is followed, unless another one is being asked for.
Follows ==
    ~strayed =>
        /\ session = target
        /\ session # None /\ observer.on => observer.of = session
        /\ session # None /\ ~observer.on =>
              \/ modal.kind \in {"sessions", "notice"}
              \/ modal.kind = "loading" /\ \E c \in calls : c.kind \in {"list", "load"}
        /\ modal.kind = "form" => modal.asks.of = session /\ modal.asks.kind = "question"

\* The last of the messages K in the queue is in A, and x if there is none.
Says(q, K, A, x) ==
    /\ \A i \in 1..Len(q) : q[i] \in K /\ (\A j \in 1..Len(q) : j > i => q[j] \notin K) => q[i] \in A
    /\ (\A i \in 1..Len(q) : q[i] \notin K) => x

\* The status: shown is b's, or that of a prompt not yet answered for.
StatusName(b) == IF b THEN "busy" ELSE "idle"
OnStatus == {m \in Messages : m.kind \in {"view busy", "view idle", "busy", "idle"}}
StatusIs(b) == {m \in Messages : m.kind \in (IF b THEN {"view busy", "busy"} ELSE {"view idle", "idle"})}
StatusShown(b, shown, cs, s) ==
    \/ shown = StatusName(b)
    \/ shown = "busy" /\ \E c \in cs : c.kind = "send" /\ c.owns /\ c.of = s

\* The decision: shown is the one asked for, or it has just been made.
ApprovalOf(r) == IF r.kind = "approval" THEN r ELSE NoRequest
OnApproval == {m \in Messages : m.kind \in Views \/ (m.kind \in {"asked", "resolved"} /\ m.asks.kind = "approval")}
ApprovalSaid(m) == IF m.kind = "resolved" THEN NoRequest ELSE ApprovalOf(m.asks)
ApprovalIs(r) == {m \in Messages : ApprovalSaid(m) = ApprovalOf(r)}
ApprovalShown(r, shown, cs, s) ==
    \/ shown = ApprovalOf(r)
    \/ shown = NoRequest /\ \E c \in cs : c.kind = "answer" /\ c.of = s /\ c.asks = r

\* A form, shown or to be shown, is of the question asked or will be taken down.
Puts(m) == m.kind \in {"view busy", "view idle", "asked"} /\ m.asks.kind = "question"
Removes(m, r) == m.kind \in Views \/ Puts(m) \/ (m.kind = "resolved" /\ m.asks = r)
Pending(q, page, r) ==
    /\ page.kind = "form" => page.asks = r \/ \E i \in 1..Len(q) : Removes(q[i], page.asks)
    /\ \A i \in 1..Len(q) :
          Puts(q[i]) => q[i].asks = r \/ \E j \in 1..Len(q) : j > i /\ Removes(q[j], q[i].asks)

\* What the screen of s will show once the messages of q are handled is sv.
Caught(q, sv, scr, page, cs, s) ==
    /\ Says(q, OnStatus, StatusIs(sv.busy), StatusShown(sv.busy, scr.status, cs, s))
    /\ Says(q, OnApproval, ApprovalIs(sv.asks), ApprovalShown(sv.asks, scr.approval, cs, s))
    /\ Pending(q, page, sv.asks)

Live == ~strayed /\ observer.phase = "live" /\ session = observer.of
Catching == Live => Caught(observer.queue, srv[session], screen, modal, calls, session)

GlassInv == GlassTypes /\ Observing /\ Follows /\ Catching

-----------------------------------------------------------------------------
\* What queues say, as they grow and are handled.
LEMMA SaysWeaker ==
    ASSUME NEW q, NEW K, NEW A, NEW x, NEW y, Says(q, K, A, x), x => y
    PROVE  Says(q, K, A, y)
  BY DEF Says

LEMMA QueueAppended ==
    ASSUME NEW q \in Seq(Messages), NEW m \in Messages
    PROVE  /\ Append(q, m) \in Seq(Messages) /\ Len(Append(q, m)) = Len(q) + 1 /\ Len(q) \in Nat
           /\ \A i \in 1..Len(q) : Append(q, m)[i] = q[i]
           /\ Append(q, m)[Len(q) + 1] = m
  OBVIOUS

LEMMA Tailed ==
    ASSUME NEW q \in Seq(Messages), q # <<>>
    PROVE  /\ Tail(q) \in Seq(Messages) /\ Len(Tail(q)) = Len(q) - 1 /\ Len(q) \in Nat \ {0}
           /\ \A i \in 1..(Len(q) - 1) : Tail(q)[i] = q[i + 1]
           /\ Head(q) = q[1] /\ q[1] \in Messages
  OBVIOUS

LEMMA SaysMore ==
    ASSUME NEW q \in Seq(Messages), NEW m \in Messages, NEW K, NEW A, NEW x, NEW y,
           Says(q, K, A, x), m \notin K, x => y
    PROVE  Says(Append(q, m), K, A, y)
<1> DEFINE p == Append(q, m)
           n == Len(q)
<1>1. n \in Nat /\ Len(p) = n + 1 /\ (\A i \in 1..n : p[i] = q[i]) /\ p[n + 1] = m
  BY QueueAppended
<1> HIDE DEF p, n
<1>2. Says(q, K, A, x) <=> /\ \A i \in 1..n : q[i] \in K /\ (\A j \in 1..n : j > i => q[j] \notin K) => q[i] \in A
                           /\ (\A i \in 1..n : q[i] \notin K) => x
  BY DEF Says, n
<1>3. ASSUME NEW i \in 1..(n + 1), p[i] \in K, \A j \in 1..(n + 1) : j > i => p[j] \notin K
      PROVE  p[i] \in A
  <2>1. i \in 1..n
    BY <1>1, <1>3
  <2>2. \A j \in 1..n : j \in 1..(n + 1) /\ p[j] = q[j]
    BY <1>1
  <2> QED BY <1>1, <1>2, <1>3, <2>1, <2>2
<1>4. (\A i \in 1..(n + 1) : p[i] \notin K) => y
  <2>1. \A j \in 1..n : j \in 1..(n + 1) /\ p[j] = q[j]
    BY <1>1
  <2> QED BY <1>2, <2>1
<1>5. Says(p, K, A, y)
  BY <1>1, <1>3, <1>4 DEF Says
<1> QED BY <1>5 DEF p

LEMMA SaysNow ==
    ASSUME NEW q \in Seq(Messages), NEW m \in Messages, NEW K, NEW A, NEW y, m \in K, m \in A
    PROVE  Says(Append(q, m), K, A, y)
<1> DEFINE p == Append(q, m)
           n == Len(q)
<1>1. n \in Nat /\ Len(p) = n + 1 /\ p[n + 1] = m
  BY QueueAppended
<1> HIDE DEF p, n
<1>2. \A i \in 1..(n + 1) : i = n + 1 \/ n + 1 > i
  BY <1>1
<1>3. n + 1 \in 1..(n + 1)
  BY <1>1
<1>4. Says(p, K, A, y)
  BY <1>1, <1>2, <1>3 DEF Says
<1> QED BY <1>4 DEF p

LEMMA SaysOne ==
    ASSUME NEW m \in Messages, NEW K, NEW A, NEW y, m \in K, m \in A
    PROVE  Says(<<m>>, K, A, y)
<1>1. Len(<<m>>) = 1 /\ <<m>>[1] = m
  OBVIOUS
<1>2. \A i \in 1..1 : i = 1
  OBVIOUS
<1> QED BY <1>1, <1>2 DEF Says

LEMMA SaysTail ==
    ASSUME NEW q \in Seq(Messages), q # <<>>, NEW K, NEW A, NEW x, NEW y, Says(q, K, A, x),
           Head(q) \notin K /\ x => y, Head(q) \in K /\ Head(q) \in A => y
    PROVE  Says(Tail(q), K, A, y)
<1> DEFINE p == Tail(q)
           n == Len(q)
<1>1. n \in Nat \ {0} /\ Len(p) = n - 1 /\ (\A i \in 1..(n - 1) : p[i] = q[i + 1]) /\ Head(q) = q[1]
  BY Tailed
<1> HIDE DEF p, n
<1>2. Says(q, K, A, x) <=> /\ \A i \in 1..n : q[i] \in K /\ (\A j \in 1..n : j > i => q[j] \notin K) => q[i] \in A
                           /\ (\A i \in 1..n : q[i] \notin K) => x
  BY DEF Says, n
<1>3. ASSUME NEW i \in 1..(n - 1), p[i] \in K, \A j \in 1..(n - 1) : j > i => p[j] \notin K
      PROVE  p[i] \in A
  <2>1. i + 1 \in 1..n /\ q[i + 1] = p[i]
    BY <1>1
  <2>2. ASSUME NEW j \in 1..n, j > i + 1 PROVE q[j] \notin K
    <3>1. j - 1 \in 1..(n - 1) /\ j - 1 > i /\ (j - 1) + 1 = j
      BY <1>1, <2>2
    <3>2. p[j - 1] \notin K
      BY <1>3, <3>1
    <3> QED BY <1>1, <3>1, <3>2
  <2> QED BY <1>2, <1>3, <2>1, <2>2
<1>4. ASSUME \A i \in 1..(n - 1) : p[i] \notin K PROVE y
  <2>1. ASSUME NEW j \in 1..n, j > 1 PROVE q[j] \notin K
    <3>1. j - 1 \in 1..(n - 1) /\ (j - 1) + 1 = j
      BY <1>1, <2>1
    <3> QED BY <1>1, <1>4, <3>1
  <2>2. 1 \in 1..n /\ \A j \in 1..n : j = 1 \/ j > 1
    BY <1>1
  <2>3. CASE q[1] \in K
    BY <1>1, <1>2, <2>1, <2>2, <2>3
  <2>4. CASE q[1] \notin K
    <3>1. \A j \in 1..n : q[j] \notin K
      BY <2>1, <2>2, <2>4
    <3> QED BY <1>1, <1>2, <2>4, <3>1
  <2> QED BY <2>3, <2>4
<1>5. Says(p, K, A, y)
  BY <1>1, <1>3, <1>4 DEF Says
<1> QED BY <1>5 DEF p

LEMMA PendingMore ==
    ASSUME NEW q \in Seq(Messages), NEW m \in Messages, NEW page, NEW r, NEW t,
           Pending(q, page, r), Puts(m) => m.asks = t,
           \A a \in Requests : a = r /\ a.kind = "question" => a = t \/ Removes(m, a),
           page.kind = "form" => page.asks \in Requests /\ page.asks.kind = "question"
    PROVE  Pending(Append(q, m), page, t)
<1> DEFINE p == Append(q, m)
           n == Len(q)
<1>1. n \in Nat /\ Len(p) = n + 1 /\ (\A i \in 1..n : p[i] = q[i]) /\ p[n + 1] = m
  BY QueueAppended
<1>2. \A i \in 1..n : q[i] \in Messages
  OBVIOUS
<1> HIDE DEF p, n
<1>3. \A j \in 1..n : j \in 1..(n + 1) /\ n + 1 > j /\ p[j] = q[j]
  BY <1>1
<1>4. n + 1 \in 1..(n + 1) /\ \A j \in 1..(n + 1) : j \in 1..n \/ j = n + 1
  BY <1>1
<1>5. page.kind = "form" => page.asks = t \/ \E i \in 1..(n + 1) : Removes(p[i], page.asks)
  <2>1. page.kind = "form" => page.asks = r \/ \E i \in 1..n : Removes(q[i], page.asks)
    BY DEF Pending, n
  <2>2. ASSUME NEW i \in 1..n, Removes(q[i], page.asks)
        PROVE  \E j \in 1..(n + 1) : Removes(p[j], page.asks)
    BY <1>3, <2>2
  <2>3. Removes(m, page.asks) => \E j \in 1..(n + 1) : Removes(p[j], page.asks)
    BY <1>1, <1>4
  <2> QED BY <2>1, <2>2, <2>3
<1>6. ASSUME NEW i \in 1..(n + 1), Puts(p[i])
      PROVE  p[i].asks = t \/ \E j \in 1..(n + 1) : j > i /\ Removes(p[j], p[i].asks)
  <2>1. CASE i = n + 1
    BY <1>1, <1>6, <2>1
  <2>2. CASE i \in 1..n
    <3>1. p[i] = q[i] /\ Puts(q[i])
      BY <1>3, <1>6, <2>2
    <3>2. q[i].asks \in Requests /\ q[i].asks.kind = "question"
      BY <1>2, <2>2, <3>1 DEF Puts, Messages
    <3>3. q[i].asks = r \/ \E j \in 1..n : j > i /\ Removes(q[j], q[i].asks)
      BY <2>2, <3>1 DEF Pending, n
    <3>4. ASSUME NEW j \in 1..n, j > i, Removes(q[j], q[i].asks)
          PROVE  \E k \in 1..(n + 1) : k > i /\ Removes(p[k], p[i].asks)
      BY <1>3, <3>1, <3>4
    <3>5. CASE q[i].asks = r
      <4>1. q[i].asks = t \/ Removes(m, q[i].asks)
        BY <3>2, <3>5
      <4>2. Removes(m, q[i].asks) => \E k \in 1..(n + 1) : k > i /\ Removes(p[k], p[i].asks)
        BY <1>1, <1>3, <1>4, <2>2, <3>1
      <4> QED BY <3>1, <4>1, <4>2
    <3> QED BY <3>3, <3>4, <3>5
  <2> QED BY <1>4, <2>1, <2>2
<1>7. Pending(p, page, t)
  BY <1>1, <1>5, <1>6 DEF Pending
<1> QED BY <1>7 DEF p

LEMMA PendingOne ==
    ASSUME NEW m \in Messages, NEW page, NEW r, m.kind \in Views, Puts(m) => m.asks = r
    PROVE  Pending(<<m>>, page, r)
<1>1. Len(<<m>>) = 1 /\ <<m>>[1] = m /\ 1 \in 1..1 /\ \A i \in 1..1 : i = 1
  OBVIOUS
<1>2. Removes(m, page.asks)
  BY DEF Removes
<1> QED BY <1>1, <1>2 DEF Pending

\* A page that is not a form, or the form shown before, leaves what is pending.
LEMMA PendingPage ==
    ASSUME NEW q, NEW page, NEW other, NEW r, Pending(q, page, r), other.kind = "form" => other = page
    PROVE  Pending(q, other, r)
  BY DEF Pending

\* The first message has been handled: it put up its question, or took one down.
LEMMA PendingTail ==
    ASSUME NEW q \in Seq(Messages), q # <<>>, NEW page, NEW other, NEW r, Pending(q, page, r),
           other.kind = "form" => \/ Puts(Head(q)) /\ other.asks = Head(q).asks
                                  \/ other = page /\ ~Removes(Head(q), page.asks)
    PROVE  Pending(Tail(q), other, r)
<1> DEFINE p == Tail(q)
           n == Len(q)
<1>1. n \in Nat \ {0} /\ Len(p) = n - 1 /\ (\A i \in 1..(n - 1) : p[i] = q[i + 1]) /\ Head(q) = q[1]
  BY Tailed
<1> HIDE DEF p, n
<1>2. 1 \in 1..n
  BY <1>1
<1>3. ASSUME NEW j \in 1..n, j > 1
      PROVE  j - 1 \in 1..(n - 1) /\ p[j - 1] = q[j]
  <2>1. j - 1 \in 1..(n - 1) /\ (j - 1) + 1 = j
    BY <1>1, <1>3
  <2> QED BY <1>1, <2>1
<1>4. ASSUME NEW i \in 1..n, Puts(q[i])
      PROVE  q[i].asks = r \/ \E j \in 1..n : j > i /\ Removes(q[j], q[i].asks)
  BY <1>4 DEF Pending, n
<1>5. ASSUME other.kind = "form"
      PROVE  other.asks = r \/ \E i \in 1..(n - 1) : Removes(p[i], other.asks)
  <2>1. CASE Puts(q[1]) /\ other.asks = q[1].asks
    <3>1. other.asks = r \/ \E j \in 1..n : j > 1 /\ Removes(q[j], other.asks)
      BY <1>2, <1>4, <2>1
    <3> QED BY <1>3, <3>1
  <2>2. CASE other = page /\ ~Removes(q[1], page.asks)
    <3>1. page.asks = r \/ \E j \in 1..n : Removes(q[j], page.asks)
      BY <1>5, <2>2 DEF Pending, n
    <3>2. ASSUME NEW j \in 1..n, Removes(q[j], page.asks)
          PROVE  \E i \in 1..(n - 1) : Removes(p[i], page.asks)
      <4>1. j > 1
        <5>1. j # 1
          BY <2>2, <3>2
        <5> QED BY <1>1, <5>1
      <4> QED BY <1>3, <3>2, <4>1
    <3> QED BY <2>2, <3>1, <3>2
  <2> QED BY <1>1, <1>5, <2>1, <2>2
<1>6. ASSUME NEW i \in 1..(n - 1), Puts(p[i])
      PROVE  p[i].asks = r \/ \E j \in 1..(n - 1) : j > i /\ Removes(p[j], p[i].asks)
  <2>1. i + 1 \in 1..n /\ p[i] = q[i + 1]
    BY <1>1
  <2>2. p[i].asks = r \/ \E j \in 1..n : j > i + 1 /\ Removes(q[j], p[i].asks)
    BY <1>4, <1>6, <2>1
  <2>3. ASSUME NEW j \in 1..n, j > i + 1, Removes(q[j], p[i].asks)
        PROVE  \E k \in 1..(n - 1) : k > i /\ Removes(p[k], p[i].asks)
    <3>1. j > 1 /\ j - 1 > i
      BY <1>1, <2>3
    <3> QED BY <1>3, <2>3, <3>1
  <2> QED BY <2>2, <2>3
<1>7. Pending(p, other, r)
  BY <1>1, <1>5, <1>6 DEF Pending
<1> QED BY <1>7 DEF p

-----------------------------------------------------------------------------
\* What is shown or asked for changes, but not what the session is.
LEMMA CaughtKept ==
    ASSUME NEW q, NEW sv, NEW scr, NEW other, NEW page, NEW next, NEW cs, NEW ds, NEW s,
           Caught(q, sv, scr, page, cs, s), next.kind = "form" => next = page,
           StatusShown(sv.busy, scr.status, cs, s) => StatusShown(sv.busy, other.status, ds, s),
           ApprovalShown(sv.asks, scr.approval, cs, s) => ApprovalShown(sv.asks, other.approval, ds, s)
    PROVE  Caught(q, sv, other, next, ds, s)
  BY SaysWeaker, PendingPage DEF Caught

\* A turn begins or ends.
LEMMA CaughtTurn ==
    ASSUME NEW q \in Seq(Messages), NEW m \in Messages, NEW sv \in States, NEW tv \in States, NEW scr,
           NEW page, NEW cs, NEW ds, NEW s, Caught(q, sv, scr, page, cs, s),
           page.kind = "form" => page.asks \in Requests /\ page.asks.kind = "question",
           m.kind = StatusName(tv.busy), tv.asks = sv.asks,
           \A c \in cs : c.kind = "answer" => c \in ds
    PROVE  Caught(Append(q, m), tv, scr, page, ds, s)
<1>1. m \in OnStatus /\ m \in StatusIs(tv.busy)
  BY DEF OnStatus, StatusIs, StatusName, States
<1>2. m \notin OnApproval /\ ~Puts(m)
  BY DEF OnApproval, Puts, Views, StatusName
<1>3. Says(Append(q, m), OnStatus, StatusIs(tv.busy), StatusShown(tv.busy, scr.status, ds, s))
  BY <1>1, SaysNow
<1>4. ApprovalShown(sv.asks, scr.approval, cs, s) => ApprovalShown(tv.asks, scr.approval, ds, s)
  BY DEF ApprovalShown
<1>5. Says(Append(q, m), OnApproval, ApprovalIs(tv.asks), ApprovalShown(tv.asks, scr.approval, ds, s))
  BY <1>2, <1>4, SaysMore DEF Caught
<1>6. Pending(Append(q, m), page, tv.asks)
  BY <1>2, PendingMore DEF Caught
<1> QED BY <1>3, <1>5, <1>6 DEF Caught

\* A decision or a question is asked for.
LEMMA CaughtAsks ==
    ASSUME NEW q \in Seq(Messages), NEW m \in Messages, NEW sv \in States, NEW tv \in States, NEW scr,
           NEW page, NEW cs, NEW s, Caught(q, sv, scr, page, cs, s),
           page.kind = "form" => page.asks \in Requests /\ page.asks.kind = "question",
           m.kind = "asked", m.asks = tv.asks, tv.busy = sv.busy,
           sv.asks = NoRequest, tv.asks.kind \in {"approval", "question"}
    PROVE  Caught(Append(q, m), tv, scr, page, cs, s)
<1>1. m \notin OnStatus
  BY DEF OnStatus
<1>2. Says(Append(q, m), OnStatus, StatusIs(tv.busy), StatusShown(tv.busy, scr.status, cs, s))
  BY <1>1, SaysMore DEF Caught
<1>3. Says(Append(q, m), OnApproval, ApprovalIs(tv.asks), ApprovalShown(tv.asks, scr.approval, cs, s))
  <2>1. CASE tv.asks.kind = "approval"
    <3>1. m \in OnApproval /\ m \in ApprovalIs(tv.asks)
      BY <2>1 DEF OnApproval, ApprovalIs, ApprovalSaid
    <3> QED BY <3>1, SaysNow
  <2>2. CASE tv.asks.kind = "question"
    <3>1. m \notin OnApproval
      BY <2>2 DEF OnApproval, Views
    <3>2. ApprovalOf(tv.asks) = ApprovalOf(sv.asks) /\ ApprovalOf(sv.asks) = NoRequest
      BY <2>2 DEF ApprovalOf, NoRequest, Request
    <3>3. ApprovalIs(tv.asks) = ApprovalIs(sv.asks)
      BY <3>2 DEF ApprovalIs
    <3>4. ApprovalShown(sv.asks, scr.approval, cs, s) => ApprovalShown(tv.asks, scr.approval, cs, s)
      BY <3>2 DEF ApprovalShown
    <3> QED BY <3>1, <3>3, <3>4, SaysMore DEF Caught
  <2> QED BY <2>1, <2>2
<1>4. Pending(Append(q, m), page, tv.asks)
  <2>1. NoRequest.kind # "question"
    BY DEF NoRequest, Request
  <2> QED BY <2>1, PendingMore DEF Caught
<1> QED BY <1>2, <1>3, <1>4 DEF Caught

\* What was asked for is settled, by this client or another.
LEMMA CaughtSettles ==
    ASSUME NEW q \in Seq(Messages), NEW m \in Messages, NEW sv \in States, NEW tv \in States, NEW scr,
           NEW page, NEW cs, NEW ds, NEW s, Caught(q, sv, scr, page, cs, s),
           page.kind = "form" => page.asks \in Requests /\ page.asks.kind = "question",
           m.kind = "resolved", m.asks = sv.asks, tv.busy = sv.busy, tv.asks = NoRequest,
           \A c \in cs : c.kind = "send" => c \in ds
    PROVE  Caught(Append(q, m), tv, scr, page, ds, s)
<1>1. m \notin OnStatus /\ ~Puts(m)
  BY DEF OnStatus, Puts
<1>2. Says(Append(q, m), OnStatus, StatusIs(tv.busy), StatusShown(tv.busy, scr.status, ds, s))
  <2>1. StatusShown(sv.busy, scr.status, cs, s) => StatusShown(tv.busy, scr.status, ds, s)
    BY DEF StatusShown
  <2> QED BY <1>1, <2>1, SaysMore DEF Caught
<1>3. Says(Append(q, m), OnApproval, ApprovalIs(tv.asks), ApprovalShown(tv.asks, scr.approval, ds, s))
  <2>1. ApprovalOf(tv.asks) = NoRequest
    BY DEF ApprovalOf, NoRequest, Request
  <2>2. CASE sv.asks.kind = "approval"
    <3>1. m \in OnApproval /\ m \in ApprovalIs(tv.asks)
      BY <2>1, <2>2 DEF OnApproval, ApprovalIs, ApprovalSaid
    <3> QED BY <3>1, SaysNow
  <2>3. CASE sv.asks.kind # "approval"
    <3>1. m \notin OnApproval
      BY <2>3 DEF OnApproval, Views
    <3>2. ApprovalOf(sv.asks) = NoRequest
      BY <2>3 DEF ApprovalOf
    <3>3. ApprovalIs(tv.asks) = ApprovalIs(sv.asks)
      BY <2>1, <3>2 DEF ApprovalIs
    <3>4. ApprovalShown(sv.asks, scr.approval, cs, s) => ApprovalShown(tv.asks, scr.approval, ds, s)
      BY <2>1, <3>2 DEF ApprovalShown
    <3> QED BY <3>1, <3>3, <3>4, SaysMore DEF Caught
  <2> QED BY <2>2, <2>3
<1>4. Pending(Append(q, m), page, tv.asks)
  <2>1. \A a \in Requests : a = sv.asks /\ a.kind = "question" => Removes(m, a)
    BY DEF Removes
  <2> QED BY <1>1, <2>1, PendingMore DEF Caught
<1> QED BY <1>2, <1>3, <1>4 DEF Caught

\* The view a join begins with says it all.
LEMMA CaughtJoin ==
    ASSUME NEW m \in Messages, NEW sv \in States, NEW scr, NEW page, NEW cs, NEW s,
           m.kind = (IF sv.busy THEN "view busy" ELSE "view idle"), m.asks = sv.asks
    PROVE  Caught(<<m>>, sv, scr, page, cs, s)
<1>1. m \in OnStatus /\ m \in StatusIs(sv.busy)
  BY DEF OnStatus, StatusIs, States
<1>2. m \in OnApproval /\ m \in ApprovalIs(sv.asks)
  BY DEF OnApproval, ApprovalIs, ApprovalSaid, Views
<1>3. m.kind \in Views
  BY DEF Views
<1>4. Pending(<<m>>, page, sv.asks)
  BY <1>3, PendingOne
<1> QED BY <1>1, <1>2, <1>4, SaysOne DEF Caught

\* The first message has been handled.
LEMMA CaughtTail ==
    ASSUME NEW q \in Seq(Messages), q # <<>>, NEW sv \in States, NEW scr, NEW other, NEW page, NEW next,
           NEW cs, NEW s, Caught(q, sv, scr, page, cs, s),
           Head(q) \notin OnStatus => other.status = scr.status,
           Head(q) \in OnStatus /\ Head(q) \in StatusIs(sv.busy) => other.status = StatusName(sv.busy),
           Head(q) \notin OnApproval => other.approval = scr.approval,
           Head(q) \in OnApproval => other.approval = ApprovalSaid(Head(q)),
           next.kind = "form" => \/ Puts(Head(q)) /\ next.asks = Head(q).asks
                                 \/ next = page /\ ~Removes(Head(q), page.asks)
    PROVE  Caught(Tail(q), sv, other, next, cs, s)
<1>1. Head(q) \in Messages
  BY Tailed
<1>2. Says(Tail(q), OnStatus, StatusIs(sv.busy), StatusShown(sv.busy, other.status, cs, s))
  <2>1. Head(q) \notin OnStatus /\ StatusShown(sv.busy, scr.status, cs, s)
        => StatusShown(sv.busy, other.status, cs, s)
    OBVIOUS
  <2>2. Head(q) \in OnStatus /\ Head(q) \in StatusIs(sv.busy) => StatusShown(sv.busy, other.status, cs, s)
    BY DEF StatusShown
  <2> QED BY <2>1, <2>2, SaysTail DEF Caught
<1>3. Says(Tail(q), OnApproval, ApprovalIs(sv.asks), ApprovalShown(sv.asks, other.approval, cs, s))
  <2>1. Head(q) \notin OnApproval /\ ApprovalShown(sv.asks, scr.approval, cs, s)
        => ApprovalShown(sv.asks, other.approval, cs, s)
    OBVIOUS
  <2>2. Head(q) \in OnApproval /\ Head(q) \in ApprovalIs(sv.asks) => ApprovalShown(sv.asks, other.approval, cs, s)
    BY DEF ApprovalShown, ApprovalIs
  <2> QED BY <2>1, <2>2, SaysTail DEF Caught
<1>4. Pending(Tail(q), next, sv.asks)
  BY PendingTail DEF Caught
<1> QED BY <1>2, <1>3, <1>4 DEF Caught

-----------------------------------------------------------------------------
\* The observer: joined again, given up, and sent what a session does.
LEMMA SentMessages ==
    ASSUME NEW s \in Session, NEW m \in SentBy(s)
    PROVE  m \in Messages
  BY DEF SentBy

LEMMA NoMessages == NoRequest \in Requests /\ NoMessage \in Messages
  BY DEF NoRequest, Request, Requests, NoMessage, Message, Messages

LEMMA LatesAreStale ==
    ASSUME Observing, late' \in Lates
    PROVE  late' \in Messages /\ (late' # NoMessage => late'.stale)
<1>1. CASE late' = late
  BY <1>1 DEF Observing
<1>2. CASE observer.queue # <<>> /\ late' = [Head(observer.queue) EXCEPT !.stale = TRUE]
  <2>1. Head(observer.queue) \in Messages
    BY <1>2, Tailed DEF Observing, Watches
  <2> QED BY <1>2, <2>1 DEF Messages
<1> QED BY <1>1, <1>2 DEF Lates

LEMMA Observes ==
    ASSUME Observing, NEW s \in Session, Observe(s)
    PROVE  Observing' /\ observer'.on /\ observer'.of = s /\ observer'.phase = "joining"
<1>1. late' \in Messages /\ (late' # NoMessage => late'.stale)
  BY LatesAreStale DEF Observe
<1>2. observer' = [on |-> TRUE, of |-> s, phase |-> "joining", queue |-> <<>>, waiting |-> TRUE]
  BY DEF Observe
<1>3. observer' \in Watches
  BY <1>2 DEF Watches
<1>4. \A i \in 1..Len(observer'.queue) : FALSE
  BY <1>2
<1> QED BY <1>1, <1>2, <1>3, <1>4 DEF Observing

LEMMA Unwatches ==
    ASSUME Observing, Unwatch
    PROVE  Observing' /\ ~observer'.on /\ observer'.phase = "ended"
<1>1. late' \in Messages /\ (late' # NoMessage => late'.stale)
  BY LatesAreStale DEF Unwatch
<1>2. observer' = [on |-> FALSE, of |-> None, phase |-> "ended", queue |-> <<>>, waiting |-> FALSE]
  BY DEF Unwatch, Unwatched
<1>3. observer' \in Watches
  BY <1>2 DEF Watches
<1>4. \A i \in 1..Len(observer'.queue) : FALSE
  BY <1>2
<1> QED BY <1>1, <1>2, <1>3, <1>4 DEF Observing

LEMMA SentKeeps ==
    ASSUME Observing, NEW s \in Session, NEW m \in SentBy(s), observer' \in Heard(observer, s, m), late' = late
    PROVE  /\ Observing' /\ observer'.on = observer.on /\ observer'.of = observer.of
           /\ observer'.phase = "live" =>
                 /\ observer.phase = "live"
                 /\ observer.of = s => observer'.queue = Append(observer.queue, m)
                 /\ observer.of # s => observer'.queue = observer.queue
<1> DEFINE q == observer.queue
<1>1. observer \in Watches /\ q \in Seq(Messages) /\ m \in Messages
  BY SentMessages DEF Observing, Watches
<1>2. CASE observer' = observer /\ (observer.phase = "live" => observer.of # s)
  <2>1. Observing'
    BY <1>2 DEF Observing
  <2> QED BY <1>2, <2>1
<1>3. CASE observer.on /\ observer.of = s /\ observer.phase = "live" /\ observer' = [observer EXCEPT !.queue = Append(@, m)]
  <2>1. /\ observer' \in Watches /\ observer'.on = observer.on /\ observer'.of = observer.of /\ observer'.phase = "live"
        /\ observer'.queue = Append(q, m)
    <3> DEFINE p == Append(q, m)
    <3>1. p \in Seq(Messages) /\ observer' = [observer EXCEPT !.queue = p]
      BY <1>1, <1>3
    <3> HIDE DEF p
    <3>2. /\ observer' \in Watches /\ observer'.on = observer.on /\ observer'.of = observer.of /\ observer'.phase = observer.phase
          /\ observer'.queue = p
      BY <1>1, <3>1 DEF Watches
    <3> QED BY <1>3, <3>2 DEF p
  <2>2. \A i \in 1..Len(Append(q, m)) : Append(q, m)[i] \in SentBy(observer.of)
    <3>1. \A i \in 1..Len(q) : q[i] \in SentBy(observer.of)
      BY DEF Observing
    <3> HIDE DEF q
    <3> QED BY <1>1, <1>3, <3>1, QueueAppended
  <2>3. Observing'
    BY <1>3, <2>1, <2>2 DEF Observing
  <2> QED BY <1>3, <2>1, <2>3
<1>4. CASE observer.on /\ observer.of = s /\ observer.phase = "live" /\ observer' \in Behind(observer)
  <2>1. PICK n \in 0..Len(q) : observer' = [observer EXCEPT !.queue = Append(SubSeq(@, 1, n), Message("gap", observer.of, NoRequest)),
                                                      !.phase = "ended"]
    BY <1>4 DEF Behind
  <2> DEFINE g == Message("gap", observer.of, NoRequest)
             h == SubSeq(q, 1, n)
  <2>2. g \in SentBy(s) /\ g \in Messages
    BY <1>4, NoMessages DEF SentBy, Message, Messages
  <2>3. h \in Seq(Messages) /\ Len(h) = n /\ \A i \in 1..n : h[i] = q[i] /\ i \in 1..Len(q)
    <3> HIDE DEF q
    <3> QED BY <1>1
  <2>4. /\ observer'.on = observer.on /\ observer'.of = observer.of /\ observer'.phase = "ended"
        /\ observer'.queue = Append(h, g) /\ observer'.waiting = observer.waiting
    BY <1>1, <2>1 DEF Watches
  <2>5. observer' \in Watches
    <3>1. Append(h, g) \in Seq(Messages)
      BY <2>2, <2>3, QueueAppended
    <3> HIDE DEF h, g
    <3> QED BY <1>1, <2>1, <3>1 DEF Watches, h, g
  <2>6. \A i \in 1..Len(Append(h, g)) : Append(h, g)[i] \in SentBy(observer.of)
    <3>1. \A i \in 1..Len(h) : h[i] \in SentBy(observer.of)
      BY <2>3 DEF Observing
    <3> HIDE DEF h, g
    <3> QED BY <1>4, <2>2, <2>3, <3>1, QueueAppended
  <2>7. Observing'
    <3> HIDE DEF h, g
    <3> QED BY <2>4, <2>5, <2>6, <1>4 DEF Observing
  <2> QED BY <2>4, <2>7
<1>5. \/ observer' = observer /\ (observer.phase = "live" => observer.of # s)
      \/ /\ observer.on /\ observer.of = s /\ observer.phase = "live"
         /\ observer' = [observer EXCEPT !.queue = Append(@, m)] \/ observer' \in Behind(observer)
  BY DEF Heard, Observing
<1> QED BY <1>2, <1>3, <1>4, <1>5

-----------------------------------------------------------------------------
\* A session moves, while what the terminal shows of it stays.
LEMMA SessionMoves ==
    ASSUME GlassInv, NEW s \in Session, NEW now \in States, NEW m \in SentBy(s), Becomes(s, now, m),
           now.asks = NoRequest \/ now.asks \in AskedBy(s),
           UNCHANGED <<session, screen, modal, late, strayed>>,
           \A c \in calls : c.of # s => c \in calls',
           \A q \in Seq(Messages) : ~strayed /\ Caught(q, srv[s], screen, modal, calls, s)
                                    => Caught(Append(q, m), now, screen, modal, calls', s)
    PROVE  /\ srv' \in [Session -> States]
           /\ \A t \in Session : srv'[t].asks = NoRequest \/ srv'[t].asks \in AskedBy(t)
           /\ Observing' /\ observer'.on = observer.on /\ observer'.of = observer.of
           /\ Catching'
<1>1. srv \in [Session -> States] /\ srv' = [srv EXCEPT ![s] = now]
  BY DEF GlassInv, GlassTypes, Becomes
<1>2. srv' \in [Session -> States] /\ srv'[s] = now /\ \A t \in Session : t # s => srv'[t] = srv[t]
  BY <1>1
<1>3. \A t \in Session : srv'[t].asks = NoRequest \/ srv'[t].asks \in AskedBy(t)
  BY <1>2 DEF GlassInv, GlassTypes
<1>4. /\ Observing' /\ observer'.on = observer.on /\ observer'.of = observer.of
      /\ observer'.phase = "live" =>
                 /\ observer.phase = "live"
                 /\ observer.of = s => observer'.queue = Append(observer.queue, m)
                 /\ observer.of # s => observer'.queue = observer.queue
  BY SentKeeps DEF Becomes, GlassInv
<1>5. Catching'
  <2> SUFFICES ASSUME Live' PROVE Caught(observer'.queue, srv'[session'], screen', modal', calls', session')
    BY DEF Catching
  <2>1. ~strayed /\ observer.phase = "live" /\ session = observer.of /\ observer.queue \in Seq(Messages)
    BY <1>4 DEF Live, GlassInv, Observing, Watches
  <2>2. session \in Session
    BY <2>1 DEF GlassInv, Observing
  <2>3. Caught(observer.queue, srv[session], screen, modal, calls, session)
    BY <2>1 DEF GlassInv, Catching, Live
  <2>4. CASE session = s
    <3>1. Caught(Append(observer.queue, m), now, screen, modal, calls', s)
      BY <2>1, <2>3, <2>4
    <3>2. observer'.queue = Append(observer.queue, m)
      BY <1>4, <2>1, <2>4 DEF Live
    <3> QED BY <1>2, <2>4, <3>1, <3>2
  <2>5. CASE session # s
    <3>1. observer'.queue = observer.queue /\ srv'[session] = srv[session]
      BY <1>2, <1>4, <2>1, <2>2, <2>5 DEF Live
    <3>2. StatusShown(srv[session].busy, screen.status, calls, session)
          => StatusShown(srv[session].busy, screen.status, calls', session)
      BY <2>5 DEF StatusShown
    <3>3. ApprovalShown(srv[session].asks, screen.approval, calls, session)
          => ApprovalShown(srv[session].asks, screen.approval, calls', session)
      BY <2>5 DEF ApprovalShown
    <3>4. Caught(observer.queue, srv[session], screen, modal, calls', session)
      BY <2>3, <3>2, <3>3, CaughtKept
    <3> QED BY <3>1, <3>4
  <2> QED BY <2>4, <2>5
<1> QED BY <1>2, <1>3, <1>4, <1>5

\* The sessions, the observer and its queue are left alone.
LEMMA Stays ==
    ASSUME GlassInv, UNCHANGED <<srv, observer>>, ~strayed' => ~strayed /\ session' = session,
           modal'.kind = "form" => modal' = modal,
           Live => (StatusShown(srv[session].busy, screen.status, calls, session)
                    => StatusShown(srv[session].busy, screen'.status, calls', session)),
           Live => (ApprovalShown(srv[session].asks, screen.approval, calls, session)
                    => ApprovalShown(srv[session].asks, screen'.approval, calls', session))
    PROVE  Catching'
<1> SUFFICES ASSUME Live' PROVE Caught(observer'.queue, srv'[session'], screen', modal', calls', session')
  BY DEF Catching
<1>1. Live /\ session' = session
  BY DEF Live
<1>2. Caught(observer.queue, srv[session], screen, modal, calls, session)
  BY <1>1 DEF GlassInv, Catching
<1>3. Caught(observer.queue, srv[session], screen', modal', calls', session)
  BY <1>1, <1>2, CaughtKept
<1> QED BY <1>1, <1>3

\* The screen's status and decision stay too, and the prompts and the answers
\* under way.
LEMMA StaysShown ==
    ASSUME GlassInv, UNCHANGED <<srv, observer, screen>>, ~strayed' => ~strayed /\ session' = session,
           modal'.kind = "form" => modal' = modal,
           \A c \in calls : c.kind \in {"send", "answer"} => c \in calls'
    PROVE  Catching'
<1>1. Live => (StatusShown(srv[session].busy, screen.status, calls, session)
               => StatusShown(srv[session].busy, screen'.status, calls', session))
  BY DEF StatusShown
<1>2. Live => (ApprovalShown(srv[session].asks, screen.approval, calls, session)
               => ApprovalShown(srv[session].asks, screen'.approval, calls', session))
  BY DEF ApprovalShown
<1> QED BY <1>1, <1>2, Stays

\* Nothing is claimed of an observer that has not joined or has ended.
LEMMA NotLive ==
    ASSUME observer'.phase # "live"
    PROVE  Catching'
  BY DEF Catching, Live

LEMMA CallIs ==
    ASSUME NEW kind \in {"list", "load", "providers", "model", "compact", "prompt", "send", "answer", "close", "delete"},
           NEW of \in Session \cup {None}
    PROVE  /\ CallFor(kind, of) \in ClientCalls /\ CallFor(kind, of).kind = kind /\ CallFor(kind, of).of = of
           /\ ~CallFor(kind, of).owns
  BY NoMessages DEF CallFor, ClientCalls

LEMMA PageIs ==
    ASSUME NEW kind \in {"none", "loading", "sessions", "notice", "models"}
    PROVE  Page(kind) \in Modals /\ Page(kind).kind = kind /\ Page(kind).kind # "form"
  BY NoMessages DEF Page, Modals

LEMMA BlankIs == Blank \in Screens /\ NoPage \in Modals /\ NoPage.kind = "none"
  BY NoMessages, PageIs DEF Blank, Screens, NoPage

LEMMA Made ==
    ASSUME GlassTypes, NEW c \in ClientCalls, Makes(c), c.kind \in {"load", "send"} => c.of \in Session
    PROVE  /\ calls' \subseteq ClientCalls /\ (\A d \in calls' : d.kind \in {"load", "send"} => d.of \in Session)
           /\ calls \subseteq calls' /\ c \in calls'
  BY DEF GlassTypes, Makes

LEMMA AnsweredOff ==
    ASSUME GlassTypes, NEW c, Arrives(c)
    PROVE  /\ c \in calls /\ c \in ClientCalls
           /\ calls' \subseteq ClientCalls /\ (\A d \in calls' : d.kind \in {"load", "send"} => d.of \in Session)
           /\ \A d \in calls : d.kind # c.kind => d \in calls'
           /\ calls' = calls \ {c} /\ (c.kind \in {"load", "send"} => c.of \in Session)
  BY DEF GlassTypes, Arrives

LEMMA Counted ==
    ASSUME GlassTypes
    PROVE  /\ Fails => used' \in [commands : Nat, turns : Nat, failures : Nat]
           /\ Turns => used' \in [commands : Nat, turns : Nat, failures : Nat]
           /\ \A k : Gives(k) => used' \in [commands : Nat, turns : Nat, failures : Nat]
  BY DEF GlassTypes, Fails, Turns, Gives

LEMMA Straying ==
    ASSUME GlassInv, NEW pages, Strays(pages)
    PROVE  /\ strayed' \in BOOLEAN
           /\ ~strayed' => /\ ~strayed /\ session' = session /\ session' = target /\ modal.kind \in pages
                           /\ \A c \in calls' : c.kind \notin {"list", "load"}
  BY DEF GlassInv, GlassTypes, Follows, Strays, Elsewhere

\* The types of a step that leaves the sessions and the observer alone.
LEMMA TypesKept ==
    ASSUME GlassTypes, UNCHANGED srv, session' \in Session \cup {None}, target' \in Session \cup {None},
           screen' \in Screens, modal' \in Modals, calls' \subseteq ClientCalls,
           \A c \in calls' : c.kind \in {"load", "send"} => c.of \in Session,
           strayed' \in BOOLEAN, used' \in [commands : Nat, turns : Nat, failures : Nat]
    PROVE  GlassTypes'
  BY DEF GlassTypes

-----------------------------------------------------------------------------
\* The sessions and the observer.
LEMMA OneMessage ==
    ASSUME NEW m \in Messages
    PROVE  <<m>> \in Seq(Messages)
  OBVIOUS

LEMMA ObserverJoins ==
    ASSUME GlassInv, Join
    PROVE  GlassInv'
<1> USE DEF Join
<1> DEFINE s == observer.of
           v == View(s)
<1>1. observer \in Watches /\ observer.on /\ s \in Session
  BY DEF GlassInv, Observing
<1>2. srv[s] \in States /\ (srv[s].asks = NoRequest \/ srv[s].asks \in AskedBy(s))
  BY <1>1 DEF GlassInv, GlassTypes
<1>3. /\ v \in Messages /\ v.kind = (IF srv[s].busy THEN "view busy" ELSE "view idle")
      /\ v.asks = srv[s].asks /\ v \in SentBy(s)
  <2> DEFINE m == Message("view", s, srv[s].asks)
             k == IF srv[s].busy THEN "view busy" ELSE "view idle"
             W == [kind : {"view"}, of : Session \cup {None}, asks : Requests, stale : BOOLEAN]
  <2>1. srv[s].asks \in Requests
    BY <1>2 DEF States
  <2>2. m \in W /\ m.of = s /\ m.asks = srv[s].asks /\ ~m.stale
    BY <1>1, <2>1 DEF Message
  <2>3. k \in {"view busy", "view idle"} /\ v = [m EXCEPT !.kind = k]
    BY DEF View
  <2> HIDE DEF v, m, k, s
  <2>4. v \in Messages /\ v.kind = k /\ v.of = s /\ v.asks = srv[s].asks /\ ~v.stale
    BY <2>2, <2>3 DEF Messages
  <2>5. v.kind = (IF srv[s].busy THEN "view busy" ELSE "view idle")
    BY <2>4 DEF k
  <2> QED BY <1>2, <2>3, <2>4, <2>5 DEF SentBy
<1> HIDE DEF v
<1>4. /\ observer'.on = observer.on /\ observer'.of = s /\ observer'.phase = "live" /\ observer'.queue = <<v>>
      /\ observer' \in Watches
  <2>1. observer' = [observer EXCEPT !.phase = "live", !.queue = <<v>>]
    BY DEF v
  <2> DEFINE q == <<v>>
  <2>2. q \in Seq(Messages)
    BY <1>3, OneMessage
  <2>4. observer' = [observer EXCEPT !.phase = "live", !.queue = q]
    BY <2>1
  <2> HIDE DEF q
  <2>3. /\ observer'.on = observer.on /\ observer'.of = s /\ observer'.phase = "live" /\ observer'.queue = q
        /\ observer' \in Watches
    BY <1>1, <2>2, <2>4 DEF Watches
  <2> QED BY <2>3 DEF q
<1>5. Observing'
  <2>1. \A i \in 1..Len(<<v>>) : <<v>>[i] = v
    OBVIOUS
  <2> QED BY <1>1, <1>3, <1>4, <2>1 DEF GlassInv, Observing
<1>6. Catching'
  <2> SUFFICES ASSUME Live' PROVE Caught(observer'.queue, srv'[session'], screen', modal', calls', session')
    BY DEF Catching
  <2>1. session = s
    BY <1>4 DEF Live
  <2> QED BY <1>2, <1>3, <1>4, <2>1, CaughtJoin
<1>7. GlassTypes' /\ Follows'
  BY <1>4 DEF GlassInv, GlassTypes, Follows
<1> QED BY <1>5, <1>6, <1>7 DEF GlassInv

LEMMA JoinEnds ==
    ASSUME GlassInv, JoinFails \/ StopWaiting
    PROVE  GlassInv'
<1>1. observer \in Watches
  BY DEF GlassInv, Observing
<1>2. /\ observer' \in Watches /\ observer'.on = observer.on /\ observer'.of = observer.of /\ observer'.phase = "ended"
      /\ observer'.queue = observer.queue \/ observer'.queue = <<>>
  <2>1. CASE observer' = [observer EXCEPT !.phase = "ended"]
    BY <1>1, <2>1 DEF Watches
  <2>2. CASE observer.phase = "ended" /\ observer' = [observer EXCEPT !.waiting = FALSE, !.queue = <<>>]
    <3> DEFINE q == <<>>
    <3>1. q \in Seq(Messages) /\ observer' = [observer EXCEPT !.waiting = FALSE, !.queue = q]
      BY <2>2
    <3> HIDE DEF q
    <3>2. /\ observer' \in Watches /\ observer'.on = observer.on /\ observer'.of = observer.of /\ observer'.phase = observer.phase
          /\ observer'.queue = q
      BY <1>1, <3>1 DEF Watches
    <3> QED BY <2>2, <3>2 DEF q
  <2> QED BY <2>1, <2>2 DEF JoinFails, StopWaiting
<1>3. UNCHANGED <<srv, session, target, screen, modal, late, calls, strayed>>
  BY DEF JoinFails, StopWaiting
<1>4. Observing'
  BY <1>2, <1>3 DEF GlassInv, Observing
<1>5. used' \in [commands : Nat, turns : Nat, failures : Nat]
  BY Counted DEF GlassInv, GlassTypes, JoinFails, StopWaiting
<1>6. GlassTypes' /\ Follows'
  BY <1>2, <1>3, <1>5 DEF GlassInv, GlassTypes, Follows
<1> QED BY <1>2, <1>4, <1>6, NotLive DEF GlassInv

LEMMA ServerKeeps ==
    ASSUME GlassInv, NEW s \in Session, Server(s)
    PROVE  GlassInv'
<1>1. UNCHANGED <<session, target, screen, modal, late, calls, strayed>>
  BY DEF Server
<1>2. srv[s] \in States /\ (srv[s].asks = NoRequest \/ srv[s].asks \in AskedBy(s))
  BY DEF GlassInv, GlassTypes
<1>3. used' \in [commands : Nat, turns : Nat, failures : Nat]
  BY Counted DEF GlassInv, GlassTypes, Server
<1>4. ~strayed => (modal.kind = "form" => modal.asks \in Requests /\ modal.asks.kind = "question")
  BY DEF GlassInv, GlassTypes, Follows, Modals
<1>5. /\ srv' \in [Session -> States]
      /\ \A t \in Session : srv'[t].asks = NoRequest \/ srv'[t].asks \in AskedBy(t)
      /\ Observing' /\ observer'.on = observer.on /\ observer'.of = observer.of
      /\ Catching'
  <2>1. CASE Begins(s)
    <3> DEFINE m == Message("busy", s, NoRequest)
               now == [srv[s] EXCEPT !.busy = TRUE]
    <3>1. m \in SentBy(s) /\ m \in Messages /\ m.kind = "busy"
      BY NoMessages DEF SentBy, Message, Messages
    <3>2. now \in States /\ now.busy = TRUE /\ now.asks = srv[s].asks
      BY <1>2 DEF States
    <3>3. Becomes(s, now, m)
      BY <2>1 DEF Begins
    <3> HIDE DEF m, now
    <3>4. \A q \in Seq(Messages) : ~strayed /\ Caught(q, srv[s], screen, modal, calls, s)
                                   => Caught(Append(q, m), now, screen, modal, calls', s)
      BY <1>1, <1>2, <1>4, <3>1, <3>2, CaughtTurn DEF StatusName
    <3> QED BY <1>1, <1>2, <3>1, <3>2, <3>3, <3>4, SessionMoves
  <2>2. CASE Ends(s)
    <3> DEFINE m == Message("idle", s, NoRequest)
               now == [srv[s] EXCEPT !.busy = FALSE]
    <3>1. m \in SentBy(s) /\ m \in Messages /\ m.kind = "idle"
      BY NoMessages DEF SentBy, Message, Messages
    <3>2. now \in States /\ now.busy = FALSE /\ now.asks = srv[s].asks
      BY <1>2 DEF States
    <3>3. Becomes(s, now, m)
      BY <2>2 DEF Ends
    <3> HIDE DEF m, now
    <3>4. \A q \in Seq(Messages) : ~strayed /\ Caught(q, srv[s], screen, modal, calls, s)
                                   => Caught(Append(q, m), now, screen, modal, calls', s)
      BY <1>1, <1>2, <1>4, <3>1, <3>2, CaughtTurn DEF StatusName
    <3> QED BY <1>1, <1>2, <3>1, <3>2, <3>3, <3>4, SessionMoves
  <2>3. CASE srv[s].asks = NoRequest /\ \E k \in {"approval", "question"} : Asks(s, k)
    <3>1. PICK k \in {"approval", "question"} : Asks(s, k)
      BY <2>3
    <3> DEFINE r == Request(k, s, used.turns)
               m == Message("asked", s, r)
               now == [srv[s] EXCEPT !.asks = r]
    <3>2. r \in AskedBy(s) /\ r \in Requests /\ r.kind \in {"approval", "question"}
      BY DEF AskedBy, Request, Requests, GlassInv, GlassTypes
    <3>3. Becomes(s, now, m)
      BY <3>1 DEF Asks
    <3> HIDE DEF r
    <3>4. m \in SentBy(s) /\ m \in Messages /\ m.kind = "asked" /\ m.asks = r
      <4>1. r # NoRequest
        BY <3>2 DEF NoRequest, Request
      <4>2. m \in Messages /\ m.kind = "asked" /\ m.asks = r /\ m.of = s /\ ~m.stale
        BY <3>2 DEF Message, Messages
      <4> HIDE DEF m
      <4> QED BY <3>2, <4>1, <4>2 DEF SentBy
    <3>5. now \in States /\ now.busy = srv[s].busy /\ now.asks = r
      BY <1>2, <3>2 DEF States
    <3> HIDE DEF m, now
    <3>6. \A q \in Seq(Messages) : ~strayed /\ Caught(q, srv[s], screen, modal, calls, s)
                                   => Caught(Append(q, m), now, screen, modal, calls', s)
      BY <1>1, <1>2, <1>4, <2>3, <3>2, <3>4, <3>5, CaughtAsks
    <3> QED BY <1>1, <3>2, <3>3, <3>4, <3>5, <3>6, SessionMoves
  <2>4. CASE Settles(s)
    <3> DEFINE m == Message("resolved", s, srv[s].asks)
               now == [srv[s] EXCEPT !.asks = NoRequest]
    <3>1. m \in SentBy(s) /\ m \in Messages /\ m.kind = "resolved" /\ m.asks = srv[s].asks
      BY <1>2 DEF SentBy, Message, Messages, States
    <3>2. now \in States /\ now.busy = srv[s].busy /\ now.asks = NoRequest
      BY <1>2, NoMessages DEF States
    <3>3. Becomes(s, now, m)
      BY <2>4 DEF Settles
    <3> HIDE DEF m, now
    <3>4. \A q \in Seq(Messages) : ~strayed /\ Caught(q, srv[s], screen, modal, calls, s)
                                   => Caught(Append(q, m), now, screen, modal, calls', s)
      BY <1>1, <1>2, <1>4, <3>1, <3>2, CaughtSettles
    <3> QED BY <1>1, <3>1, <3>2, <3>3, <3>4, SessionMoves
  <2> QED BY <2>1, <2>2, <2>3, <2>4 DEF Server
<1>6. GlassTypes' /\ Follows'
  BY <1>1, <1>3, <1>5 DEF GlassInv, GlassTypes, Follows
<1> QED BY <1>5, <1>6 DEF GlassInv

\* What a message makes of the screen and of the page over it.
LEMMA ShownIs ==
    ASSUME NEW s \in Session, NEW m \in SentBy(s), Shown(m), screen \in Screens, modal \in Modals,
           modal.kind = "form" => modal.asks.kind = "question"
    PROVE  /\ screen' \in Screens /\ modal' \in Modals
           /\ m \notin OnStatus => screen'.status = screen.status
           /\ \A b \in BOOLEAN : m \in OnStatus /\ m \in StatusIs(b) => screen'.status = StatusName(b)
           /\ m \notin OnApproval => screen'.approval = screen.approval
           /\ m \in OnApproval => screen'.approval = ApprovalSaid(m)
           /\ modal'.kind = "form" => \/ Puts(m) /\ modal'.asks = m.asks
                                      \/ modal' = modal /\ ~Removes(m, modal.asks)
<1> DEFINE P == /\ screen' \in Screens /\ modal' \in Modals
                /\ m \notin OnStatus => screen'.status = screen.status
                /\ \A b \in BOOLEAN : m \in OnStatus /\ m \in StatusIs(b) => screen'.status = StatusName(b)
                /\ m \notin OnApproval => screen'.approval = screen.approval
                /\ m \in OnApproval => screen'.approval = ApprovalSaid(m)
                /\ modal'.kind = "form" => \/ Puts(m) /\ modal'.asks = m.asks
                                           \/ modal' = modal /\ ~Removes(m, modal.asks)
<1> SUFFICES P
  OBVIOUS
<1>1. /\ m \in Messages /\ m.asks \in Requests /\ (m.asks = NoRequest \/ m.asks \in AskedBy(s))
      /\ m.kind = "asked" => m.asks.kind \in {"approval", "question"}
      /\ m.kind \in {"view busy", "view idle", "busy", "idle", "asked", "resolved", "gap"}
  BY DEF SentBy, Messages, AskedBy
<1>2. /\ NoRequest \in Requests /\ NoRequest.kind = "none" /\ NoPage \in Modals /\ NoPage.kind = "none"
      /\ Form(m.asks) \in Modals /\ Form(m.asks).kind = "form" /\ Form(m.asks).asks = m.asks
  BY <1>1, NoMessages, BlankIs DEF NoRequest, Request, Form, Modals
<1>3. /\ FormClosed \in Modals /\ FormClosed.kind # "form"
  BY <1>2 DEF FormClosed
<1>4. ASSUME NEW v \in {"busy", "idle"}, m.kind = (IF v = "busy" THEN "view busy" ELSE "view idle"), ShownView(m, v)
      PROVE  P
  <2>1. /\ screen' = [status |-> v, working |-> v = "busy",
                      approval |-> IF m.asks.kind = "approval" THEN m.asks ELSE NoRequest]
        /\ modal' = IF m.asks.kind = "question" THEN Form(m.asks) ELSE FormClosed
    BY <1>4 DEF ShownView
  <2>2. screen' \in Screens /\ screen'.status = v /\ screen'.approval = ApprovalOf(m.asks)
    BY <1>1, <1>2, <2>1 DEF Screens, ApprovalOf
  <2>3. modal' \in Modals /\ (modal'.kind = "form" => Puts(m) /\ modal'.asks = m.asks)
    BY <1>2, <1>3, <1>4, <2>1 DEF Puts
  <2>4. m \in OnStatus /\ m \in OnApproval /\ ApprovalSaid(m) = ApprovalOf(m.asks)
    BY <1>1, <1>4 DEF OnStatus, OnApproval, Views, ApprovalSaid
  <2>5. \A b \in BOOLEAN : m \in StatusIs(b) => v = StatusName(b)
    BY <1>4 DEF StatusIs, StatusName
  <2> QED BY <2>2, <2>3, <2>4, <2>5
<1>5. CASE m.kind \in {"busy", "idle"} /\ ShownStatus(m.kind)
  <2>1. screen' \in Screens /\ screen'.status = m.kind /\ screen'.approval = screen.approval /\ modal' = modal
    BY <1>5 DEF ShownStatus, Screens
  <2>2. m \in OnStatus /\ m \notin OnApproval /\ ~Removes(m, modal.asks)
    BY <1>1, <1>5 DEF OnStatus, OnApproval, Views, Removes, Puts
  <2>3. \A b \in BOOLEAN : m \in StatusIs(b) => m.kind = StatusName(b)
    BY <1>5 DEF StatusIs, StatusName
  <2> QED BY <2>1, <2>2, <2>3
<1>6. CASE m.kind = "asked" /\ ShownRequest(m.asks)
  <2>1. m \notin OnStatus /\ (m \in OnApproval <=> m.asks.kind = "approval")
    BY <1>1, <1>6 DEF OnStatus, OnApproval, Views
  <2>2. CASE m.asks.kind = "approval"
    <3>1. screen' \in Screens /\ screen'.status = screen.status /\ screen'.approval = m.asks /\ modal' = modal
      BY <1>1, <1>6, <2>2 DEF ShownRequest, Screens
    <3>2. ApprovalSaid(m) = m.asks /\ ~Removes(m, modal.asks)
      BY <1>6, <2>2 DEF ApprovalSaid, ApprovalOf, Removes, Puts, Views
    <3> QED BY <2>1, <2>2, <3>1, <3>2
  <2>3. CASE m.asks.kind # "approval"
    <3>1. screen' = screen /\ modal' = Form(m.asks)
      BY <1>6, <2>3 DEF ShownRequest
    <3>2. Puts(m)
      BY <1>1, <1>6, <2>3 DEF Puts
    <3> QED BY <1>2, <2>1, <2>3, <3>1, <3>2
  <2> QED BY <2>2, <2>3
<1>7. CASE m.kind = "resolved" /\ ShownAnswer(m.asks)
  <2>1. m \notin OnStatus /\ (m \in OnApproval <=> m.asks.kind = "approval")
    BY <1>1, <1>7 DEF OnStatus, OnApproval, Views
  <2>2. CASE m.asks.kind = "approval"
    <3>1. screen' \in Screens /\ screen'.status = screen.status /\ screen'.approval = NoRequest /\ modal' = modal
      BY <1>1, <1>2, <1>7, <2>2 DEF ShownAnswer, Screens
    <3>2. ApprovalSaid(m) = NoRequest
      BY <1>7 DEF ApprovalSaid
    <3>3. modal.kind = "form" => ~Removes(m, modal.asks)
      BY <1>7, <2>2 DEF Removes, Puts, Views
    <3> QED BY <2>1, <2>2, <3>1, <3>2, <3>3
  <2>3. CASE m.asks.kind # "approval"
    <3>1. screen' = screen /\ modal' = (IF modal.asks = m.asks THEN FormClosed ELSE modal)
      BY <1>7, <2>3 DEF ShownAnswer
    <3>2. modal.asks # m.asks => ~Removes(m, modal.asks)
      BY <1>7 DEF Removes, Puts, Views
    <3> QED BY <1>3, <2>1, <2>3, <3>1, <3>2
  <2> QED BY <2>2, <2>3
<1>8. CASE m.kind = "gap" /\ UNCHANGED <<screen, modal>>
  <2>1. m \notin OnStatus /\ m \notin OnApproval /\ ~Removes(m, modal.asks)
    BY <1>8 DEF OnStatus, OnApproval, Views, Removes, Puts
  <2> QED BY <1>8, <2>1
<1>9. \/ m.kind = "view busy" /\ ShownView(m, "busy")
      \/ m.kind = "view idle" /\ ShownView(m, "idle")
      \/ m.kind \in {"busy", "idle"} /\ ShownStatus(m.kind)
      \/ m.kind = "asked" /\ ShownRequest(m.asks)
      \/ m.kind = "resolved" /\ ShownAnswer(m.asks)
      \/ m.kind = "gap" /\ UNCHANGED <<screen, modal>>
  BY <1>1 DEF Shown
<1>10. m.kind = "view busy" /\ ShownView(m, "busy") => P
  <2> HIDE DEF P
  <2> QED BY <1>4
<1>11. m.kind = "view idle" /\ ShownView(m, "idle") => P
  <2> HIDE DEF P
  <2> QED BY <1>4
<1> HIDE DEF P
<1> QED BY <1>5, <1>6, <1>7, <1>8, <1>9, <1>10, <1>11

LEMMA ShownTyped ==
    ASSUME NEW s \in Session, NEW m \in SentBy(s), Shown(m), screen \in Screens, modal \in Modals
    PROVE  screen' \in Screens /\ modal' \in Modals
<1>1. m.asks \in Requests /\ m.kind \in {"view busy", "view idle", "busy", "idle", "asked", "resolved", "gap"}
  BY DEF SentBy, Messages
<1>2. NoRequest \in Requests /\ NoPage \in Modals /\ Form(m.asks) \in Modals
  BY <1>1, NoMessages, BlankIs DEF Form, Modals
<1>3. FormClosed \in Modals
  BY <1>2 DEF FormClosed
<1>4. ASSUME NEW v \in {"busy", "idle"}, ShownView(m, v)
      PROVE  screen' \in Screens /\ modal' \in Modals
  <2>1. screen' = [status |-> v, working |-> v = "busy", approval |-> IF m.asks.kind = "approval" THEN m.asks ELSE NoRequest]
    BY <1>4 DEF ShownView
  <2>2. modal' = IF m.asks.kind = "question" THEN Form(m.asks) ELSE FormClosed
    BY <1>4 DEF ShownView
  <2>3. screen' \in Screens
    BY <1>1, <1>2, <2>1 DEF Screens
  <2> QED BY <1>2, <1>3, <2>2, <2>3
<1>5. CASE m.kind \in {"busy", "idle"} /\ ShownStatus(m.kind)
  BY <1>5 DEF ShownStatus, Screens
<1>6. CASE ShownRequest(m.asks) \/ ShownAnswer(m.asks)
  BY <1>1, <1>2, <1>3, <1>6 DEF ShownRequest, ShownAnswer, Screens
<1>7. CASE UNCHANGED <<screen, modal>>
  BY <1>7
<1> QED BY <1>1, <1>4, <1>5, <1>6, <1>7 DEF Shown

LEMMA ObservedKeeps ==
    ASSUME GlassInv, Observed
    PROVE  GlassInv'
<1> DEFINE q == observer.queue
           m == Head(q)
<1>1. /\ observer \in Watches /\ q \in Seq(Messages) /\ q # <<>>
      /\ UNCHANGED <<srv, session, target, calls, strayed, used>>
  BY DEF Observed, GlassInv, Observing, Watches
<1>2. m \in SentBy(observer.of) /\ m.of = observer.of /\ ~m.stale
  <2>1. 1 \in 1..Len(q) /\ m = q[1]
    BY <1>1, Tailed
  <2> QED BY <2>1 DEF GlassInv, Observing, SentBy
<1>3. CASE ~Current(m)
  <2> DEFINE e == <<>>
  <2>1. ~Live
    BY <1>2, <1>3 DEF Current, Live, GlassInv, Observing
  <2>2. observer' = [[observer EXCEPT !.queue = Tail(q)] EXCEPT !.waiting = FALSE, !.queue = e] /\ UNCHANGED <<screen, modal, late>>
    BY <1>3 DEF Observed
  <2>3. e \in Seq(Messages)
    OBVIOUS
  <2> HIDE DEF e
  <2>4. /\ observer' \in Watches /\ observer'.on = observer.on /\ observer'.of = observer.of /\ observer'.phase = observer.phase
        /\ observer'.queue = e
    BY <1>1, <2>2, <2>3 DEF Watches
  <2>5. Observing'
    BY <2>2, <2>4 DEF GlassInv, Observing, e
  <2>6. Catching'
    BY <1>1, <2>1, <2>4 DEF Catching, Live
  <2>7. GlassTypes' /\ Follows'
    BY <1>1, <2>2, <2>4 DEF GlassInv, GlassTypes, Follows
  <2> QED BY <2>5, <2>6, <2>7 DEF GlassInv
<1>4. CASE Current(m)
  <2>1. Shown(m) /\ observer.on /\ observer.of \in Session /\ session = observer.of
    BY <1>2, <1>4 DEF Observed, Current, GlassInv, Observing
  <2>2. /\ strayed = FALSE => (modal.kind = "form" => modal.asks.kind = "question")
        /\ screen \in Screens /\ modal \in Modals
    BY DEF GlassInv, Follows, GlassTypes
  <2>3. CASE m.kind = "gap"
    <3>1. Observe(session) /\ UNCHANGED <<screen, modal>>
      BY <1>4, <2>1, <2>3 DEF Observed, Shown
    <3>2. Observing' /\ observer'.on /\ observer'.of = session /\ observer'.phase = "joining"
      BY <2>1, <3>1, Observes DEF GlassInv
    <3>3. GlassTypes' /\ Follows'
      BY <1>1, <3>1, <3>2 DEF GlassInv, GlassTypes, Follows
    <3> QED BY <3>2, <3>3, NotLive DEF GlassInv
  <2>4. CASE m.kind # "gap"
    <3>1. observer' = [observer EXCEPT !.queue = Tail(q)] /\ late' = late
      BY <1>4, <2>4 DEF Observed
    <3>2. Tail(q) \in Seq(Messages) /\ \A i \in 1..Len(Tail(q)) : Tail(q)[i] \in SentBy(observer.of)
      <4>1. \A i \in 1..Len(q) : q[i] \in SentBy(observer.of)
        BY DEF GlassInv, Observing
      <4> HIDE DEF q, m
      <4> QED BY <1>1, <4>1, Tailed
    <3> DEFINE t == Tail(q)
    <3>3. observer' = [observer EXCEPT !.queue = t] /\ t \in Seq(Messages)
      BY <3>1, <3>2
    <3> HIDE DEF t
    <3>4. /\ observer' \in Watches /\ observer'.on = observer.on /\ observer'.of = observer.of /\ observer'.phase = observer.phase
          /\ observer'.queue = t
      BY <1>1, <3>3 DEF Watches
    <3>5. Observing'
      BY <3>1, <3>2, <3>4 DEF GlassInv, Observing, t
    <3>6. CASE strayed
      <4>1. screen' \in Screens /\ modal' \in Modals
        BY <1>2, <2>1, <2>2, ShownTyped
      <4>2. GlassTypes' /\ Follows' /\ Catching'
        BY <1>1, <3>6, <4>1 DEF GlassInv, GlassTypes, Follows, Catching, Live
      <4> QED BY <3>5, <4>2 DEF GlassInv
    <3>7. CASE ~strayed
      <4>1. /\ screen' \in Screens /\ modal' \in Modals
            /\ m \notin OnStatus => screen'.status = screen.status
            /\ \A b \in BOOLEAN : m \in OnStatus /\ m \in StatusIs(b) => screen'.status = StatusName(b)
            /\ m \notin OnApproval => screen'.approval = screen.approval
            /\ m \in OnApproval => screen'.approval = ApprovalSaid(m)
            /\ modal'.kind = "form" => \/ Puts(m) /\ modal'.asks = m.asks
                                       \/ modal' = modal /\ ~Removes(m, modal.asks)
        <5> HIDE DEF m
        <5> QED BY <1>2, <2>1, <2>2, <3>7, ShownIs DEF GlassTypes
      <4>2. GlassTypes'
        BY <1>1, <4>1 DEF GlassInv, GlassTypes
      <4>3. modal'.kind = "form" => modal'.asks.of = session /\ modal'.asks.kind = "question"
        <5>1. Puts(m) => m.asks.of = session /\ m.asks.kind = "question"
          <6> HIDE DEF m
          <6>1. m.asks = NoRequest \/ m.asks \in AskedBy(session)
            BY <1>2, <2>1 DEF SentBy
          <6>2. NoRequest.kind # "question"
            BY DEF NoRequest, Request
          <6> QED BY <6>1, <6>2 DEF AskedBy, Puts
        <5> HIDE DEF m
        <5> QED BY <3>7, <4>1, <5>1 DEF GlassInv, Follows
      <4>4. Follows'
        BY <1>1, <2>1, <3>4, <4>3 DEF GlassInv, Follows
      <4>5. Catching'
        <5> SUFFICES ASSUME Live' PROVE Caught(observer'.queue, srv'[session'], screen', modal', calls', session')
          BY DEF Catching
        <5>1. Caught(q, srv[session], screen, modal, calls, session)
          BY <1>1, <3>4 DEF Live, GlassInv, Catching
        <5>2. srv[session] \in States /\ srv[session].busy \in BOOLEAN
          BY <2>1 DEF GlassInv, GlassTypes, States
        <5> HIDE DEF q
        <5>3. Caught(Tail(q), srv[session], screen', modal', calls, session)
          BY <1>1, <4>1, <5>1, <5>2, CaughtTail
        <5> QED BY <1>1, <3>4, <5>3 DEF t
      <4> QED BY <3>5, <4>2, <4>4, <4>5 DEF GlassInv
    <3> QED BY <3>6, <3>7
  <2> QED BY <2>3, <2>4
<1> QED BY <1>3, <1>4

LEMMA LateKeeps ==
    ASSUME GlassInv, ObservedLate
    PROVE  GlassInv'
<1>1. ~Current(late)
  BY DEF ObservedLate, Current, GlassInv, Observing
<1>2. UNCHANGED <<srv, session, target, screen, modal, observer, calls, strayed, used>> /\ late' = NoMessage
  BY <1>1 DEF ObservedLate
<1>3. GlassTypes' /\ Follows' /\ Catching'
  BY <1>2 DEF GlassInv, GlassTypes, Follows, Catching, Live
<1>4. Observing'
  BY <1>2, NoMessages DEF GlassInv, Observing
<1> QED BY <1>3, <1>4 DEF GlassInv

-----------------------------------------------------------------------------
\* Keys and commands.
LEMMA OpenListKeeps ==
    ASSUME GlassInv, OpenSessionList \/ \E s \in Session : OpenRelated(s)
    PROVE  GlassInv'
<1>1. PICK c \in ClientCalls : /\ c.kind \in {"list", "load"} /\ (c.kind \in {"load", "send"} => c.of \in Session)
                         /\ Makes(c)
  <2>1. CASE OpenSessionList
    BY <2>1, CallIs DEF OpenSessionList
  <2>2. CASE \E s \in Session : OpenRelated(s)
    BY <2>2, CallIs DEF OpenRelated
  <2> QED BY <2>1, <2>2
<1>2. /\ Unwatch /\ modal' = Page("loading") /\ \E k : Gives(k)
      /\ UNCHANGED <<srv, session, target, screen, strayed>>
  BY DEF OpenSessionList, OpenRelated
<1>3. Observing' /\ ~observer'.on /\ observer'.phase = "ended"
  BY <1>2, Unwatches DEF GlassInv
<1>4. GlassTypes'
  BY <1>1, <1>2, Made, Counted, PageIs, TypesKept DEF GlassInv, GlassTypes
<1>5. Follows'
  BY <1>1, <1>2, <1>3, Made, PageIs DEF GlassInv, Follows
<1> QED BY <1>3, <1>4, <1>5, NotLive DEF GlassInv

LEMMA ChooseKeeps ==
    ASSUME GlassInv, NEW s \in Session, Choose(s)
    PROVE  GlassInv'
<1>1. UNCHANGED <<srv, session, target, screen, strayed, used>> /\ modal.kind = "sessions"
  BY DEF Choose
<1>2. CASE s = session
  <2>1. modal' = NoPage /\ Observe(session) /\ UNCHANGED calls
    BY <1>2 DEF Choose
  <2>2. Observing' /\ observer'.on /\ observer'.of = session /\ observer'.phase = "joining"
    BY <1>2, <2>1, Observes DEF GlassInv
  <2>3. GlassTypes' /\ Follows'
    BY <1>1, <2>1, <2>2, BlankIs DEF GlassInv, GlassTypes, Follows
  <2> QED BY <2>2, <2>3, NotLive DEF GlassInv
<1>3. CASE s # session
  <2> DEFINE c == CallFor("load", s)
  <2>1. modal' = Page("loading") /\ Makes(c) /\ UNCHANGED <<observer, late>>
    BY <1>3 DEF Choose
  <2>2. c \in ClientCalls /\ c.kind = "load" /\ c.of \in Session
    BY CallIs
  <2> HIDE DEF c
  <2>3. GlassTypes'
    BY <1>1, <2>1, <2>2, Made, PageIs, TypesKept DEF GlassInv, GlassTypes
  <2>4. Follows'
    BY <1>1, <2>1, <2>2, Made, PageIs DEF GlassInv, Follows
  <2>5. Observing'
    BY <2>1 DEF GlassInv, Observing
  <2>6. Catching'
    BY <1>1, <2>1, <2>2, Made, PageIs, StaysShown DEF GlassInv
  <2> QED BY <2>3, <2>4, <2>5, <2>6 DEF GlassInv
<1> QED BY <1>2, <1>3

LEMMA CloseRowKeeps ==
    ASSUME GlassInv, NEW s \in Session, NEW key \in {"close", "delete"}, CloseRow(s, key)
    PROVE  GlassInv'
<1> DEFINE c == CallFor(key, s)
<1>1. UNCHANGED <<srv, session, target, screen, modal, observer, late, strayed>> /\ Makes(c) /\ Gives(key)
  BY DEF CloseRow
<1>2. c \in ClientCalls /\ c.kind = key
  BY CallIs
<1> HIDE DEF c
<1>3. GlassTypes'
  BY <1>1, <1>2, Made, Counted, TypesKept DEF GlassInv, GlassTypes
<1>4. Follows'
  BY <1>1, <1>2, Made DEF GlassInv, Follows
<1>5. Observing'
  BY <1>1 DEF GlassInv, Observing
<1>6. Catching'
  BY <1>1, <1>2, Made, StaysShown DEF GlassInv
<1> QED BY <1>3, <1>4, <1>5, <1>6 DEF GlassInv

LEMMA DismissKeeps ==
    ASSUME GlassInv, ResumeFromList \/ ClosePage
    PROVE  GlassInv'
<1>1. UNCHANGED <<srv, session, target, screen, calls, strayed, used>> /\ modal' = NoPage
  BY DEF ResumeFromList, ClosePage, Dismiss
<1>2. CASE session # None /\ Observe(session)
  <2>1. session \in Session
    BY <1>2 DEF GlassInv, GlassTypes
  <2>2. Observing' /\ observer'.on /\ observer'.of = session /\ observer'.phase = "joining"
    BY <1>2, <2>1, Observes DEF GlassInv
  <2>3. GlassTypes' /\ Follows'
    BY <1>1, <2>2, BlankIs DEF GlassInv, GlassTypes, Follows
  <2> QED BY <2>2, <2>3, NotLive DEF GlassInv
<1>3. CASE UNCHANGED <<observer, late>> /\ (session = None \/ observer.on)
  <2>1. GlassTypes' /\ Follows'
    BY <1>1, <1>3, BlankIs DEF GlassInv, GlassTypes, Follows
  <2>2. Observing'
    BY <1>3 DEF GlassInv, Observing
  <2>3. Catching'
    BY <1>1, <1>3, BlankIs, StaysShown DEF GlassInv
  <2> QED BY <2>1, <2>2, <2>3 DEF GlassInv
<1> QED BY <1>2, <1>3 DEF ResumeFromList, ClosePage, Dismiss, ObserveIfNone

\* A page that waits for the answer to another call: the session is followed,
\* or none is shown.
LEMMA WaitKeeps ==
    ASSUME GlassInv, OpenModels \/ ChooseModel
    PROVE  GlassInv'
<1>1. PICK c \in ClientCalls : c.kind \in {"providers", "model"} /\ Makes(c)
  BY CallIs DEF OpenModels, ChooseModel, GlassInv, GlassTypes
<1>2. /\ UNCHANGED <<srv, session, target, screen, observer, late, strayed>> /\ modal' = Page("loading")
      /\ modal.kind \in {"none", "models"}
  BY BlankIs DEF OpenModels, ChooseModel, Typing
<1>3. used' \in [commands : Nat, turns : Nat, failures : Nat]
  BY Counted DEF OpenModels, ChooseModel, GlassInv, GlassTypes
<1>4. GlassTypes'
  BY <1>1, <1>2, <1>3, Made, PageIs, TypesKept DEF GlassInv, GlassTypes
<1>5. Follows'
  BY <1>1, <1>2, PageIs DEF GlassInv, Follows
<1>6. Observing'
  BY <1>2 DEF GlassInv, Observing
<1>7. Catching'
  BY <1>1, <1>2, Made, PageIs, StaysShown DEF GlassInv
<1> QED BY <1>4, <1>5, <1>6, <1>7 DEF GlassInv

LEMMA CommandKeeps ==
    ASSUME GlassInv, CompactTarget \/ RenderPrompt
    PROVE  GlassInv'
<1>1. PICK c \in ClientCalls : c.kind \in {"compact", "prompt"} /\ Makes(c)
  BY CallIs, SMTT(30) DEF CompactTarget, RenderPrompt, GlassInv, GlassTypes
<1>2. /\ UNCHANGED <<srv, session, target, modal, observer, late, strayed>> /\ \E k : Gives(k)
      /\ screen' \in Screens /\ screen'.status = screen.status /\ screen'.approval = screen.approval
  BY DEF CompactTarget, RenderPrompt, GlassInv, GlassTypes, Screens
<1>3. GlassTypes'
  BY <1>1, <1>2, Made, Counted, TypesKept DEF GlassInv, GlassTypes
<1>4. Follows'
  BY <1>1, <1>2, Made DEF GlassInv, Follows
<1>5. Observing'
  BY <1>2 DEF GlassInv, Observing
<1>6. calls \subseteq calls'
  BY <1>1, Made DEF GlassInv
<1>7. Catching'
  <2>1. StatusShown(srv[session].busy, screen.status, calls, session)
        => StatusShown(srv[session].busy, screen'.status, calls', session)
    BY <1>2, <1>6 DEF StatusShown
  <2>2. ApprovalShown(srv[session].asks, screen.approval, calls, session)
        => ApprovalShown(srv[session].asks, screen'.approval, calls', session)
    BY <1>2, <1>6 DEF ApprovalShown
  <2> QED BY <1>2, <2>1, <2>2, Stays
<1> QED BY <1>3, <1>4, <1>5, <1>7 DEF GlassInv

LEMMA SubmitKeeps ==
    ASSUME GlassInv, Submit
    PROVE  GlassInv'
<1> DEFINE d == CallFor("send", target)
           c == [d EXCEPT !.owns = ~screen.working]
<1>1. /\ UNCHANGED <<srv, session, target, modal, observer, late, strayed>> /\ Gives("submit") /\ Makes(c)
      /\ target \in Session \cup {None} /\ screen \in Screens /\ screen.working \in BOOLEAN
  BY DEF Submit, GlassInv, GlassTypes, Screens
<1>2. d \in ClientCalls /\ d.kind = "send" /\ d.of = target
  BY <1>1, CallIs
<1> HIDE DEF d
<1>3. c \in ClientCalls /\ c.kind = "send" /\ c.of = target /\ c.owns = ~screen.working /\ c.of \in Session
  BY <1>1, <1>2 DEF ClientCalls, Submit
<1> HIDE DEF c
<1>4. /\ screen' \in Screens /\ screen'.approval = screen.approval
      /\ screen.working => screen'.status = screen.status
      /\ ~screen.working => screen'.status = "busy"
  BY <1>1 DEF Submit, Screens
<1>5. GlassTypes'
  BY <1>1, <1>3, <1>4, Made, Counted, TypesKept DEF GlassInv, GlassTypes
<1>6. Follows'
  BY <1>1, <1>3, Made DEF GlassInv, Follows
<1>7. Observing'
  BY <1>1 DEF GlassInv, Observing
<1>8. calls \subseteq calls' /\ c \in calls'
  BY <1>1, <1>3, Made DEF GlassInv
<1>9. Catching'
  <2>1. Live => (StatusShown(srv[session].busy, screen.status, calls, session)
                 => StatusShown(srv[session].busy, screen'.status, calls', session))
    BY <1>3, <1>4, <1>8 DEF StatusShown, Live, GlassInv, Follows
  <2>2. ApprovalShown(srv[session].asks, screen.approval, calls, session)
        => ApprovalShown(srv[session].asks, screen'.approval, calls', session)
    BY <1>4, <1>8 DEF ApprovalShown
  <2> QED BY <1>1, <2>1, <2>2, Stays
<1> QED BY <1>5, <1>6, <1>7, <1>9 DEF GlassInv

LEMMA AnswerApprovalKeeps ==
    ASSUME GlassInv, AnswerApproval
    PROVE  GlassInv'
<1> DEFINE d == CallFor("answer", screen.approval.of)
           c == [d EXCEPT !.asks = screen.approval]
<1>1. /\ UNCHANGED <<srv, session, target, modal, observer, late, strayed, used>> /\ Makes(c)
      /\ screen' = [screen EXCEPT !.approval = NoRequest] /\ screen.approval # NoRequest
      /\ screen \in Screens /\ screen.approval \in Requests /\ screen.approval.of \in Session \cup {None}
  BY DEF AnswerApproval, GlassInv, GlassTypes, Screens, Requests
<1>2. d \in ClientCalls /\ d.kind = "answer" /\ d.of = screen.approval.of
  BY <1>1, CallIs
<1> HIDE DEF d
<1>3. c \in ClientCalls /\ c.kind = "answer" /\ c.of = screen.approval.of /\ c.asks = screen.approval
  BY <1>1, <1>2 DEF ClientCalls
<1> HIDE DEF c
<1>4. screen' \in Screens /\ screen'.status = screen.status /\ screen'.approval = NoRequest
  BY <1>1, NoMessages DEF Screens
<1>5. calls \subseteq calls' /\ c \in calls'
  BY <1>1, <1>3, Made DEF GlassInv
<1>6. GlassTypes'
  BY <1>1, <1>3, <1>4, Made, TypesKept DEF GlassInv, GlassTypes
<1>7. Follows'
  BY <1>1, <1>3, Made DEF GlassInv, Follows
<1>8. Observing'
  BY <1>1 DEF GlassInv, Observing
<1>9. Catching'
  <2>1. StatusShown(srv[session].busy, screen.status, calls, session)
        => StatusShown(srv[session].busy, screen'.status, calls', session)
    BY <1>4, <1>5 DEF StatusShown
  <2>2. ASSUME Live, ApprovalShown(srv[session].asks, screen.approval, calls, session)
        PROVE  ApprovalShown(srv[session].asks, screen'.approval, calls', session)
    <3>1. session \in Session
      BY <2>2 DEF Live, GlassInv, Observing
    <3>2. screen.approval = ApprovalOf(srv[session].asks)
      BY <1>1, <2>2 DEF ApprovalShown
    <3>3. screen.approval = srv[session].asks
      BY <1>1, <3>2 DEF ApprovalOf
    <3>4. screen.approval.of = session
      BY <1>1, <3>1, <3>3 DEF GlassInv, GlassTypes, AskedBy
    <3> QED BY <1>3, <1>4, <1>5, <3>3, <3>4 DEF ApprovalShown
  <2> QED BY <1>1, <2>1, <2>2, Stays
<1> QED BY <1>6, <1>7, <1>8, <1>9 DEF GlassInv

LEMMA AnswerFormKeeps ==
    ASSUME GlassInv, AnswerForm
    PROVE  GlassInv'
<1> DEFINE d == CallFor("answer", session)
           c == [d EXCEPT !.asks = modal.asks]
<1>1. /\ UNCHANGED <<srv, session, target, screen, observer, late, strayed, used>> /\ Makes(c)
      /\ modal' = NoPage /\ modal.kind = "form"
      /\ session \in Session \cup {None} /\ modal.asks \in Requests
  BY DEF AnswerForm, GlassInv, GlassTypes, Modals
<1>2. d \in ClientCalls /\ d.kind = "answer"
  BY <1>1, CallIs
<1> HIDE DEF d
<1>3. c \in ClientCalls /\ c.kind = "answer"
  BY <1>1, <1>2 DEF ClientCalls
<1> HIDE DEF c
<1>4. GlassTypes'
  BY <1>1, <1>3, Made, BlankIs, TypesKept DEF GlassInv, GlassTypes
<1>5. Follows'
  BY <1>1, <1>3, Made, BlankIs DEF GlassInv, Follows
<1>6. Observing'
  BY <1>1 DEF GlassInv, Observing
<1>7. Catching'
  BY <1>1, <1>3, Made, BlankIs, StaysShown DEF GlassInv
<1> QED BY <1>4, <1>5, <1>6, <1>7 DEF GlassInv

-----------------------------------------------------------------------------
\* Answers.
LEMMA PagePutUpKeeps ==
    ASSUME GlassInv, NEW c, Arrives(c), Listed(c) \/ CallFails(c) \/ Providers(c)
    PROVE  GlassInv'
<1>1. PICK kind \in {"sessions", "notice", "models"} : modal' = Page(kind) /\ (kind = "models" => Providers(c))
  BY DEF Listed, CallFails, Providers
<1>2. /\ UNCHANGED <<srv, session, target, screen, observer, late>>
      /\ c.kind \notin {"send", "answer"}
      /\ used' \in [commands : Nat, turns : Nat, failures : Nat]
  BY Counted DEF Listed, CallFails, Providers, GlassInv, GlassTypes
<1>3. PICK pages : Strays(pages) /\ (kind = "models" => pages = {"loading"})
  BY <1>1 DEF Listed, CallFails, Providers
<1>4. /\ strayed' \in BOOLEAN
      /\ ~strayed' => /\ ~strayed /\ session' = session /\ modal.kind \in pages
                      /\ \A d \in calls' : d.kind \notin {"list", "load"}
  BY <1>3, Straying
<1>5. c \in calls /\ calls' = calls \ {c} /\ calls' \subseteq ClientCalls /\ \A d \in calls' : d.kind \in {"load", "send"} => d.of \in Session
  BY AnsweredOff DEF GlassInv
<1>6. Page(kind) \in Modals /\ Page(kind).kind = kind /\ kind # "form"
  BY PageIs
<1>7. GlassTypes'
  BY <1>1, <1>2, <1>4, <1>5, <1>6, TypesKept DEF GlassInv, GlassTypes
<1>8. Follows'
  <2> SUFFICES ASSUME ~strayed' PROVE Follows'
    BY DEF Follows
  <2>1. CASE kind \in {"sessions", "notice"}
    BY <1>1, <1>2, <1>4, <1>6, <2>1 DEF GlassInv, Follows
  <2>2. CASE kind = "models"
    <3>1. modal.kind = "loading" /\ ~\E d \in calls : d.kind \in {"list", "load"}
      BY <1>1, <1>3, <1>4, <1>5, <2>2 DEF Providers
    <3>2. session = None \/ observer.on
      BY <1>4, <3>1 DEF GlassInv, Follows
    <3> QED BY <1>1, <1>2, <1>4, <1>6, <3>2 DEF GlassInv, Follows
  <2> QED BY <2>1, <2>2
<1>9. Observing'
  BY <1>2 DEF GlassInv, Observing
<1>10. Catching'
  BY <1>1, <1>2, <1>4, <1>5, <1>6, StaysShown
<1> QED BY <1>7, <1>8, <1>9, <1>10 DEF GlassInv

LEMMA LoadedKeeps ==
    ASSUME GlassInv, NEW c, Arrives(c), Loaded(c)
    PROVE  GlassInv'
<1>1. /\ session' = c.of /\ target' = c.of /\ strayed' = FALSE /\ screen' = Blank /\ modal' = NoPage
      /\ Observe(c.of) /\ UNCHANGED <<srv, used>>
  BY DEF Loaded, ShowLoaded
<1>2. c.of \in Session /\ calls' \subseteq ClientCalls /\ \A d \in calls' : d.kind \in {"load", "send"} => d.of \in Session
  BY AnsweredOff DEF GlassInv, Loaded
<1>3. Observing' /\ observer'.on /\ observer'.of = c.of /\ observer'.phase = "joining"
  BY <1>1, <1>2, Observes DEF GlassInv
<1>4. GlassTypes'
  BY <1>1, <1>2, BlankIs, TypesKept DEF GlassInv, GlassTypes
<1>5. Follows'
  BY <1>1, <1>3, BlankIs DEF Follows
<1> QED BY <1>3, <1>4, <1>5, NotLive DEF GlassInv

LEMMA ShowsKeeps ==
    ASSUME GlassInv, NEW c, Arrives(c), ModelSet(c) \/ Compacted(c) \/ PromptRendered(c)
    PROVE  GlassInv'
<1>1. /\ UNCHANGED <<srv, target, observer, late>>
      /\ c.kind \notin {"send", "answer", "list", "load"}
  BY DEF ModelSet, Compacted, PromptRendered
<1>2. PICK pages : Strays(pages) /\ (~Compacted(c) => pages \subseteq {"loading", "none"})
  BY DEF ModelSet, Compacted, PromptRendered
<1>3. /\ strayed' \in BOOLEAN
      /\ ~strayed' => /\ ~strayed /\ session' = session /\ session' = target /\ modal.kind \in pages
                      /\ \A d \in calls' : d.kind \notin {"list", "load"}
  BY <1>2, Straying
<1>4. /\ c \in calls /\ c \in ClientCalls /\ calls' = calls \ {c} /\ calls' \subseteq ClientCalls
      /\ \A d \in calls' : d.kind \in {"load", "send"} => d.of \in Session
  BY AnsweredOff DEF GlassInv
<1>5. session' \in Session \cup {None} /\ used' \in [commands : Nat, turns : Nat, failures : Nat]
  BY <1>4, Counted DEF ModelSet, Compacted, PromptRendered, Shows, GlassInv, GlassTypes, ClientCalls
<1>6. screen' \in Screens /\ screen'.status = screen.status /\ screen'.approval = screen.approval
  BY DEF ModelSet, Compacted, PromptRendered, GlassInv, GlassTypes, Screens
<1>7. modal' = modal \/ (modal' = NoPage /\ ~Compacted(c)) \/ (Compacted(c) /\ modal' = modal)
  BY DEF ModelSet, Compacted, PromptRendered
<1>8. modal' = modal \/ (modal' = NoPage /\ (~strayed' => modal.kind \in {"loading", "none"}))
  BY <1>2, <1>3, <1>7
<1>9. GlassTypes'
  BY <1>1, <1>3, <1>4, <1>5, <1>6, <1>8, BlankIs, TypesKept DEF GlassInv, GlassTypes
<1>10. Follows'
  <2> SUFFICES ASSUME ~strayed' PROVE Follows'
    BY DEF Follows
  <2>1. ~\E d \in calls : d.kind \in {"list", "load"}
    BY <1>1, <1>3, <1>4
  <2>2. CASE modal' = modal
    BY <1>1, <1>3, <2>1, <2>2 DEF GlassInv, Follows
  <2>3. CASE modal' = NoPage /\ modal.kind \in {"loading", "none"}
    <3>1. session = None \/ observer.on
      BY <1>3, <2>1, <2>3 DEF GlassInv, Follows
    <3> QED BY <1>1, <1>3, <2>3, <3>1, BlankIs DEF GlassInv, Follows
  <2> QED BY <1>8, <2>2, <2>3
<1>11. Observing'
  BY <1>1 DEF GlassInv, Observing
<1>12. \A d \in calls : d.kind \in {"send", "answer"} => d \in calls'
  BY <1>1, <1>4
<1>13. Catching'
  <2>1. StatusShown(srv[session].busy, screen.status, calls, session)
        => StatusShown(srv[session].busy, screen'.status, calls', session)
    BY <1>6, <1>12 DEF StatusShown
  <2>2. ApprovalShown(srv[session].asks, screen.approval, calls, session)
        => ApprovalShown(srv[session].asks, screen'.approval, calls', session)
    BY <1>6, <1>12 DEF ApprovalShown
  <2> QED BY <1>1, <1>3, <1>8, <2>1, <2>2, BlankIs, Stays
<1> QED BY <1>9, <1>10, <1>11, <1>13 DEF GlassInv

LEMMA RowClosedKeeps ==
    ASSUME GlassInv, NEW c, RowClosed(c)
    PROVE  GlassInv'
<1>1. UNCHANGED <<srv, screen, modal, observer, late, strayed, used>> /\ c.kind \in {"close", "delete"}
  BY DEF RowClosed
<1>2. \/ session' = None /\ target' = None /\ modal.kind = "sessions"
      \/ UNCHANGED <<session, target>>
  BY DEF RowClosed
<1>3. \A d \in calls : d # c => d \in calls'
  BY DEF RowClosed
<1>4. calls' \subseteq ClientCalls /\ \A d \in calls' : d.kind \in {"load", "send"} => d.of \in Session
  BY CallIs DEF RowClosed, GlassInv, GlassTypes
<1>5. GlassTypes'
  BY <1>1, <1>2, <1>4, TypesKept DEF GlassInv, GlassTypes
<1>6. Follows'
  BY <1>1, <1>2, <1>3 DEF GlassInv, Follows
<1>7. Observing'
  BY <1>1 DEF GlassInv, Observing
<1>8. Catching'
  <2> SUFFICES ASSUME Live' PROVE Catching'
    BY DEF Catching
  <2>1. observer.on /\ observer.of \in Session /\ session' = observer.of /\ ~strayed
    BY <1>1 DEF Live, GlassInv, Observing
  <2>2. CASE UNCHANGED <<session, target>>
    BY <1>1, <1>3, <2>2, StaysShown
  <2>3. CASE session' = None /\ session # None
    BY <2>1, <2>3, <1>1 DEF GlassInv, Follows
  <2>4. CASE session' = None /\ session = None
    BY <1>1, <1>3, <2>1, <2>4, StaysShown
  <2> QED BY <1>2, <2>2, <2>3, <2>4
<1> QED BY <1>5, <1>6, <1>7, <1>8 DEF GlassInv

LEMMA MessageSentKeeps ==
    ASSUME GlassInv, NEW c, Arrives(c), MessageSent(c)
    PROVE  GlassInv'
<1> DEFINE s == c.of
<1>1. UNCHANGED <<session, target, screen, modal, late, strayed, used>> /\ c.kind = "send"
  BY DEF MessageSent
<1>2. /\ c \in calls /\ calls' = calls \ {c} /\ calls' \subseteq ClientCalls /\ s \in Session
      /\ \A d \in calls' : d.kind \in {"load", "send"} => d.of \in Session
  BY <1>1, AnsweredOff DEF GlassInv
<1>3. srv[s] \in States /\ (srv[s].asks = NoRequest \/ srv[s].asks \in AskedBy(s))
  BY <1>2 DEF GlassInv, GlassTypes
<1>4. CASE srv[s].busy
  <2>1. UNCHANGED <<srv, observer>>
    BY <1>4 DEF MessageSent
  <2>2. GlassTypes' /\ Follows' /\ Observing'
    BY <1>1, <1>2, <2>1 DEF GlassInv, GlassTypes, Follows, Observing
  <2>3. StatusShown(srv[session].busy, screen.status, calls, session)
        => StatusShown(srv[session].busy, screen'.status, calls', session)
    <3>1. \A d \in calls : d.of # s => d \in calls'
      BY <1>2
    <3>2. CASE session = s
      BY <1>1, <1>4, <3>2 DEF StatusShown, StatusName
    <3>3. CASE session # s
      BY <1>1, <3>1, <3>3 DEF StatusShown
    <3> QED BY <3>2, <3>3
  <2>4. ApprovalShown(srv[session].asks, screen.approval, calls, session)
        => ApprovalShown(srv[session].asks, screen'.approval, calls', session)
    BY <1>1, <1>2 DEF ApprovalShown
  <2>5. Catching'
    BY <1>1, <2>1, <2>3, <2>4, Stays
  <2> QED BY <2>2, <2>5 DEF GlassInv
<1>5. CASE ~srv[s].busy
  <2> DEFINE m == Message("busy", s, NoRequest)
             now == [srv[s] EXCEPT !.busy = TRUE]
  <2>1. m \in SentBy(s) /\ m \in Messages /\ m.kind = "busy"
    BY <1>2, NoMessages DEF SentBy, Message, Messages
  <2>2. now \in States /\ now.busy = TRUE /\ now.asks = srv[s].asks
    BY <1>3 DEF States
  <2>3. Becomes(s, now, m)
    BY <1>5 DEF MessageSent, Begins
  <2> HIDE DEF m, now
  <2>4. ~strayed => (modal.kind = "form" => modal.asks \in Requests /\ modal.asks.kind = "question")
    BY DEF GlassInv, GlassTypes, Follows, Modals
  <2>5. \A q \in Seq(Messages) : ~strayed /\ Caught(q, srv[s], screen, modal, calls, s)
                                 => Caught(Append(q, m), now, screen, modal, calls', s)
    BY <1>1, <1>2, <1>3, <2>1, <2>2, <2>4, CaughtTurn DEF StatusName
  <2>6. \A d \in calls : d.of # s => d \in calls'
    BY <1>2
  <2>7. /\ srv' \in [Session -> States]
        /\ \A t \in Session : srv'[t].asks = NoRequest \/ srv'[t].asks \in AskedBy(t)
        /\ Observing' /\ observer'.on = observer.on /\ observer'.of = observer.of
        /\ Catching'
    BY <1>1, <1>2, <1>3, <2>1, <2>2, <2>3, <2>5, <2>6, SessionMoves
  <2>8. GlassTypes'
    BY <1>1, <1>2, <2>7 DEF GlassInv, GlassTypes
  <2>9. Follows'
    BY <1>1, <1>2, <2>7 DEF GlassInv, Follows
  <2> QED BY <2>7, <2>8, <2>9 DEF GlassInv
<1> QED BY <1>4, <1>5

LEMMA MessageRefusedKeeps ==
    ASSUME GlassInv, NEW c, Arrives(c), MessageRefused(c)
    PROVE  GlassInv'
<1>1. UNCHANGED <<srv, session, target, modal, strayed>> /\ c.kind = "send"
  BY DEF MessageRefused
<1>2. /\ c \in calls /\ calls' = calls \ {c} /\ calls' \subseteq ClientCalls
      /\ \A d \in calls' : d.kind \in {"load", "send"} => d.of \in Session
  BY AnsweredOff DEF GlassInv
<1>3. used' \in [commands : Nat, turns : Nat, failures : Nat]
  BY Counted DEF MessageRefused, GlassInv, GlassTypes
<1>4. screen' \in Screens
  BY DEF MessageRefused, Released, GlassInv, GlassTypes, Screens
<1>5. GlassTypes'
  BY <1>1, <1>2, <1>3, <1>4, TypesKept DEF GlassInv, GlassTypes
<1>6. CASE session # None /\ Observe(session)
  <2>1. session \in Session
    BY <1>6 DEF GlassInv, GlassTypes
  <2>2. Observing' /\ observer'.on /\ observer'.of = session /\ observer'.phase = "joining"
    BY <1>6, <2>1, Observes DEF GlassInv
  <2>3. Follows'
    BY <1>1, <2>2 DEF GlassInv, Follows
  <2> QED BY <1>5, <2>2, <2>3, NotLive DEF GlassInv
<1>7. CASE UNCHANGED <<observer, late>> /\ (session = None \/ (~c.owns /\ UNCHANGED screen))
  <2>1. Observing' /\ Follows'
    BY <1>1, <1>2, <1>7 DEF GlassInv, Observing, Follows
  <2>2. CASE ~c.owns /\ UNCHANGED screen
    <3>1. StatusShown(srv[session].busy, screen.status, calls, session)
          => StatusShown(srv[session].busy, screen'.status, calls', session)
      BY <1>2, <2>2 DEF StatusShown
    <3>2. ApprovalShown(srv[session].asks, screen.approval, calls, session)
          => ApprovalShown(srv[session].asks, screen'.approval, calls', session)
      BY <1>1, <1>2, <2>2 DEF ApprovalShown
    <3>3. Catching'
      BY <1>1, <1>7, <3>1, <3>2, Stays
    <3> QED BY <1>5, <2>1, <3>3 DEF GlassInv
  <2>3. CASE session = None
    <3>1. ~Live \/ None \in Session
      BY <2>3 DEF Live, GlassInv, Observing
    <3>2. Catching'
      BY <1>1, <1>7, <2>3, <3>1, TerminalAssumption DEF Catching, Live
    <3> QED BY <1>5, <2>1, <3>2 DEF GlassInv
  <2> QED BY <1>7, <2>2, <2>3
<1> QED BY <1>6, <1>7 DEF MessageRefused

LEMMA RequestAnsweredKeeps ==
    ASSUME GlassInv, NEW c, Arrives(c), RequestAnswered(c)
    PROVE  GlassInv'
<1> DEFINE s == c.of
<1>1. UNCHANGED <<session, target, screen, modal, late, strayed, used>> /\ c.kind = "answer"
  BY DEF RequestAnswered
<1>2. /\ c \in calls /\ calls' = calls \ {c} /\ calls' \subseteq ClientCalls /\ s \in Session \cup {None}
      /\ \A d \in calls' : d.kind \in {"load", "send"} => d.of \in Session
  BY AnsweredOff DEF GlassInv, ClientCalls
<1>3. CASE ~(s # None /\ srv[s].asks = c.asks)
  <2>1. UNCHANGED <<srv, observer>>
    BY <1>3 DEF RequestAnswered
  <2>2. GlassTypes' /\ Follows' /\ Observing'
    BY <1>1, <1>2, <2>1 DEF GlassInv, GlassTypes, Follows, Observing
  <2>3. StatusShown(srv[session].busy, screen.status, calls, session)
        => StatusShown(srv[session].busy, screen'.status, calls', session)
    BY <1>1, <1>2 DEF StatusShown
  <2>4. Live => (ApprovalShown(srv[session].asks, screen.approval, calls, session)
                 => ApprovalShown(srv[session].asks, screen'.approval, calls', session))
    <3>1. Live => session # None
      BY TerminalAssumption DEF Live, GlassInv, Observing
    <3>2. Live => \A d \in calls : d.of = session /\ d.asks = srv[session].asks => d \in calls'
      BY <1>2, <1>3, <3>1
    <3> QED BY <1>1, <3>2 DEF ApprovalShown
  <2>5. Catching'
    BY <1>1, <2>1, <2>3, <2>4, Stays
  <2> QED BY <2>2, <2>5 DEF GlassInv
<1>4. CASE s # None /\ srv[s].asks = c.asks
  <2>0. s \in Session /\ Settles(s)
    BY <1>2, <1>4 DEF RequestAnswered
  <2>1. srv[s] \in States /\ (srv[s].asks = NoRequest \/ srv[s].asks \in AskedBy(s))
    BY <2>0 DEF GlassInv, GlassTypes
  <2> DEFINE m == Message("resolved", s, srv[s].asks)
             now == [srv[s] EXCEPT !.asks = NoRequest]
  <2>2. m \in SentBy(s) /\ m \in Messages /\ m.kind = "resolved" /\ m.asks = srv[s].asks
    BY <2>0, <2>1 DEF SentBy, Message, Messages, States
  <2>3. now \in States /\ now.busy = srv[s].busy /\ now.asks = NoRequest
    BY <2>1, NoMessages DEF States
  <2>4. Becomes(s, now, m)
    BY <2>0 DEF Settles
  <2> HIDE DEF m, now
  <2>5. ~strayed => (modal.kind = "form" => modal.asks \in Requests /\ modal.asks.kind = "question")
    BY DEF GlassInv, GlassTypes, Follows, Modals
  <2>6. \A q \in Seq(Messages) : ~strayed /\ Caught(q, srv[s], screen, modal, calls, s)
                                 => Caught(Append(q, m), now, screen, modal, calls', s)
    BY <1>1, <1>2, <2>1, <2>2, <2>3, <2>5, CaughtSettles
  <2>7. \A d \in calls : d.of # s => d \in calls'
    BY <1>2
  <2>8. /\ srv' \in [Session -> States]
        /\ \A t \in Session : srv'[t].asks = NoRequest \/ srv'[t].asks \in AskedBy(t)
        /\ Observing' /\ observer'.on = observer.on /\ observer'.of = observer.of
        /\ Catching'
    BY <1>1, <2>0, <2>1, <2>2, <2>3, <2>4, <2>6, <2>7, SessionMoves
  <2>9. GlassTypes'
    BY <1>1, <1>2, <2>8 DEF GlassInv, GlassTypes
  <2>10. Follows'
    BY <1>1, <1>2, <2>8 DEF GlassInv, Follows
  <2> QED BY <2>8, <2>9, <2>10 DEF GlassInv
<1> QED BY <1>3, <1>4

-----------------------------------------------------------------------------
LEMMA GlassInitially == TerminalInit => GlassInv
<1> SUFFICES ASSUME TerminalInit PROVE GlassInv
  OBVIOUS
<1> USE DEF TerminalInit
<1>1. NoRequest \in Requests /\ NoMessage \in Messages
  BY NoMessages
<1>2. srv \in [Session -> States] /\ \A s \in Session : srv[s].asks = NoRequest
  BY <1>1 DEF States
<1>3. calls \subseteq ClientCalls /\ \A c \in calls : c.kind \in {"load", "send"} => c.of \in Session
  BY CallIs
<1>4. modal \in Modals /\ modal.kind # "form"
  BY PageIs
<1>5. GlassTypes
  BY <1>2, <1>3, <1>4, BlankIs DEF GlassTypes
<1>6. Observing
  <2>1. observer \in Watches
    BY DEF Unwatched, Watches
  <2>2. \A i \in 1..Len(observer.queue) : FALSE
    BY DEF Unwatched
  <2> QED BY <1>1, <2>1, <2>2 DEF Observing, Unwatched
<1>7. Follows
  BY <1>4 DEF Follows
<1>8. Catching
  BY DEF Catching, Live, Unwatched
<1> QED BY <1>5, <1>6, <1>7, <1>8 DEF GlassInv

LEMMA AnswersKeep ==
    ASSUME GlassInv, Answer
    PROVE  GlassInv'
  BY PagePutUpKeeps, LoadedKeeps, ShowsKeeps, RowClosedKeeps, MessageSentKeeps, MessageRefusedKeeps,
     RequestAnsweredKeeps DEF Answer

LEMMA UserKeeps ==
    ASSUME GlassInv, User
    PROVE  GlassInv'
  BY OpenListKeeps, ChooseKeeps, CloseRowKeeps, DismissKeeps, WaitKeeps, CommandKeeps, SubmitKeeps,
     AnswerApprovalKeeps, AnswerFormKeeps DEF User

LEMMA ObserverKeeps ==
    ASSUME GlassInv, Observer
    PROVE  GlassInv'
  BY ObserverJoins, JoinEnds, ObservedKeeps, LateKeeps DEF Observer

LEMMA GlassInductive == GlassInv /\ [TerminalNext]_terminalVars => GlassInv'
<1> SUFFICES ASSUME GlassInv, [TerminalNext]_terminalVars PROVE GlassInv'
  OBVIOUS
<1>1. CASE UNCHANGED terminalVars
  BY <1>1 DEF terminalVars, GlassInv, GlassTypes, Observing, Follows, Catching, Live
<1>2. CASE TerminalNext
  BY <1>2, UserKeeps, ObserverKeeps, AnswersKeep, ServerKeeps DEF TerminalNext
<1> QED BY <1>1, <1>2

\* The inductive invariant: the session shown is followed unless another one is
\* being asked for, and what the queue of its observer says last, or the screen
\* where it says nothing, is what the session is.
THEOREM GlassInvariant == TerminalSpec => []GlassInv
<1>1. TerminalInit => GlassInv
  BY GlassInitially
<1>2. GlassInv /\ [TerminalNext]_terminalVars => GlassInv'
  BY GlassInductive
<1> QED BY <1>1, <1>2, PTL DEF TerminalSpec

LEMMA NothingUnsaid ==
    ASSUME NEW K, NEW A, NEW x, Says(<<>>, K, A, x)
    PROVE  x
  BY DEF Says

\* While its session's stream is up and all of it is handled, and neither a message
\* nor an answer of the user is on its way, the status and the decision the terminal
\* shows are its session's, until an answer is taken for a session or a page it was
\* not for (strayed) and again after the next load (chat.go applySessionView,
\* applySessionEvent, startSessionObserver, messageSentMsg, sessionLoadedMsg).
THEOREM TheScreenIsTrue == TerminalSpec => []ScreenIsTrue
<1>1. GlassInv => ScreenIsTrue
  <2> SUFFICES ASSUME GlassInv, CaughtUp, ~strayed, ~\E c \in calls : c.kind \in {"send", "answer"}
               PROVE  /\ screen.status = (IF srv[session].busy THEN "busy" ELSE "idle")
                      /\ screen.approval = ApprovalOf(srv[session].asks)
    BY DEF ScreenIsTrue, ApprovalOf
  <2>1. Live /\ observer.queue = <<>>
    BY DEF CaughtUp, Live
  <2>2. StatusShown(srv[session].busy, screen.status, calls, session)
    BY <2>1, NothingUnsaid DEF GlassInv, Catching, Caught
  <2>3. ApprovalShown(srv[session].asks, screen.approval, calls, session)
    BY <2>1, NothingUnsaid DEF GlassInv, Catching, Caught
  <2> QED BY <2>2, <2>3 DEF StatusShown, StatusName, ApprovalShown
<1>2. TerminalSpec => []GlassInv
  BY GlassInvariant
<1> QED BY <1>1, <1>2, PTL

\* Unless an answer was taken for a session or a page it was not for (strayed), a
\* form on the screen is of the session shown, and once its stream is handled it is
\* of the question that session waits with, so that an answer goes where it was
\* asked (chat.go openElicitation, closeElicitation, submitElicit).
THEOREM FormsAreTheSessions == TerminalSpec => []FormsAreOwn
<1>1. GlassInv => FormsAreOwn
  <2> SUFFICES ASSUME GlassInv, modal.kind = "form", ~strayed
               PROVE  modal.asks.of = session /\ (CaughtUp => modal.asks = srv[session].asks)
    BY DEF FormsAreOwn
  <2>1. modal.asks.of = session
    BY DEF GlassInv, Follows
  <2>2. ASSUME CaughtUp PROVE modal.asks = srv[session].asks
    <3>1. Live /\ observer.queue = <<>>
      BY <2>2 DEF CaughtUp, Live
    <3>2. Pending(<<>>, modal, srv[session].asks)
      BY <3>1 DEF GlassInv, Catching, Caught
    <3> QED BY <3>2 DEF Pending
  <2> QED BY <2>1, <2>2
<1>2. TerminalSpec => []GlassInv
  BY GlassInvariant
<1> QED BY <1>1, <1>2, PTL
=============================================================================
