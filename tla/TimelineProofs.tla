--------------------------- MODULE TimelineProofs ---------------------------
(***************************************************************************)
(* What a session timeline keeps, for any number of events, faults of every *)
(* kind and any chunk size; and, in the last part, what the clients are    *)
(* shown that watch the session (Stream.tla).                              *)
(***************************************************************************)
EXTENDS Timeline, Stream, SequenceTheorems, FiniteSetTheorems, TLAPS

USE TimelineAssumption

-----------------------------------------------------------------------------
(* Type correctness *)

\* The append in progress is that of the newest event, and from the moment
\* HEAD.tmp is prepared until it is renamed it names that event.
PcInv ==
    /\ pc # "idle" => status = "open" /\ ~broken /\ Len(event) > 0
    /\ pc \in {"index", "rename"} => vis.tmp = Len(event)

TypeInv == TypeOK /\ PcInv

LEMMA WrittenType ==
    ASSUME NEW log \in Seq(Line), NEW c \in Nat, NEW e \in Id \cup {Torn}, NEW nl \in BOOLEAN
    PROVE  Written(log, c, e, nl) \in Seq(Line)
<1>1. [id |-> e, chunk |-> c, nl |-> nl] \in Line
  BY DEF Line
<1>2. [id |-> Torn, chunk |-> c, nl |-> nl] \in Line
  BY DEF Line
<1>3. CASE log # <<>> /\ ~log[Len(log)].nl /\ log[Len(log)].chunk = c
  BY <1>2, <1>3 DEF Written
<1>4. CASE ~(log # <<>> /\ ~log[Len(log)].nl /\ log[Len(log)].chunk = c)
  BY <1>1, <1>4 DEF Written
<1> QED BY <1>3, <1>4

LEMMA PartlyWrittenType ==
    ASSUME NEW log \in Seq(Line), NEW c \in Nat, NEW e \in Id,
           NEW l \in PartlyWritten(log, c, e)
    PROVE  l \in Seq(Line)
<1>1. /\ Written(log, c, Torn, FALSE) \in Seq(Line)
      /\ Written(log, c, e, TRUE) \in Seq(Line)
      /\ Written(log, c, e, FALSE) \in Seq(Line)
  BY WrittenType
<1> QED BY <1>1 DEF PartlyWritten

LEMMA DiskIndexType ==
    ASSUME NEW d \in Disk, NEW ix \in SUBSET Id, NEW t \in Int
    PROVE  /\ [d EXCEPT !.index = ix, !.tail = t] \in Disk
           /\ [d EXCEPT !.tail = t, !.index = ix] \in Disk
  BY DEF Disk

LEMMA IndexedType ==
    ASSUME NEW d \in Disk, NEW e \in Id
    PROVE  /\ Indexed(d, e) \in Disk
           /\ Indexed(d, e).tail = 0
           /\ Indexed(d, e).log = d.log
           /\ Indexed(d, e).head = d.head
           /\ Indexed(d, e).tmp = d.tmp
           /\ Indexed(d, e).blobs = d.blobs
<1>1. PICK ix \in SUBSET Id : ix = IF d.tail = 0 THEN d.index \cup {e} ELSE d.index \ {d.tail}
  BY DEF Disk
<1>2. Indexed(d, e) = [d EXCEPT !.index = ix, !.tail = 0]
  BY <1>1 DEF Indexed
<1>3. Indexed(d, e) \in Disk
  <2>1. PICK t \in Int : t = 0
    OBVIOUS
  <2>2. [d EXCEPT !.index = ix, !.tail = t] \in Disk
    BY DEF Disk
  <2> QED BY <1>2, <2>1, <2>2
<1> QED BY <1>2, <1>3 DEF Disk

LEMMA PartlyIndexedType ==
    ASSUME NEW d \in Disk, NEW e \in Id, NEW x \in PartlyIndexed(d, e)
    PROVE  /\ x \in Disk
           /\ x.log = d.log /\ x.head = d.head /\ x.tmp = d.tmp /\ x.blobs = d.blobs
<1>1. CASE x = d
  BY <1>1
<1>2. CASE x = [d EXCEPT !.tail = Torn, !.index = @ \ {d.tail}]
  <2>1. d.index \ {d.tail} \in SUBSET Id /\ Torn \in Int
    BY DEF Disk, Torn
  <2>2. x \in Disk
    BY <1>2, <2>1, DiskIndexType
  <2> QED BY <1>2, <2>2, SMTT(30) DEF Disk
<1>3. CASE x = Indexed(d, e)
  BY <1>3, IndexedType
<1>4. CASE x = [d EXCEPT !.index = @ \cup {e}, !.tail = e]
  <2>1. d.index \cup {e} \in SUBSET Id /\ e \in Int
    BY DEF Disk, Id
  <2>2. x \in Disk
    BY <1>4, <2>1, DiskIndexType
  <2> QED BY <1>4, <2>2, SMTT(30) DEF Disk
<1> QED BY <1>1, <1>2, <1>3, <1>4 DEF PartlyIndexed

LEMMA LogsAfterPowerLossType ==
    ASSUME vis \in Disk, dur \in Disk, NEW log \in LogsAfterPowerLoss
    PROVE  log \in Seq(Line)
<1> DEFINE Upto(n) == SubSeq(vis.log, 1, n)
           Cut(n, e) == [Upto(n) EXCEPT ![n] = [id |-> e, chunk |-> @.chunk, nl |-> FALSE]]
<1>0. vis.log \in Seq(Line) /\ dur.log \in Seq(Line)
  BY DEF Disk
<1>1. \A n \in 0..Len(vis.log) : Upto(n) \in Seq(Line) /\ Len(Upto(n)) = n
  BY <1>0
<1>2. ASSUME NEW n \in 1..Len(vis.log), NEW e \in Id \cup {Torn}
      PROVE  Cut(n, e) \in Seq(Line)
  <2>1. Upto(n) \in Seq(Line) /\ Len(Upto(n)) = n /\ n \in 1..n
    BY <1>1, <1>0
  <2>2. Upto(n)[n] \in Line
    BY <2>1
  <2>3. [id |-> e, chunk |-> Upto(n)[n].chunk, nl |-> FALSE] \in Line
    BY <2>2 DEF Line
  <2> QED BY <2>1, <2>3
<1>3. ASSUME NEW n \in 1..Len(vis.log)
      PROVE  vis.log[n].id \in Id \cup {Torn}
  <2>1. vis.log[n] \in Line
    BY <1>0
  <2> QED BY <2>1 DEF Line
<1>4. \/ log = dur.log
      \/ \E n \in 0..Len(vis.log) : log = Upto(n)
      \/ \E n \in 1..Len(vis.log) : log = Cut(n, Torn)
      \/ \E n \in 1..Len(vis.log) : log = Cut(n, vis.log[n].id)
  BY DEF LogsAfterPowerLoss
<1>5. Torn \in Id \cup {Torn}
  OBVIOUS
<1>6. CASE \E n \in 1..Len(vis.log) : log = Cut(n, Torn) \/ log = Cut(n, vis.log[n].id)
  <2> PICK n \in 1..Len(vis.log) : log = Cut(n, Torn) \/ log = Cut(n, vis.log[n].id)
    BY <1>6
  <2> HIDE DEF Cut
  <2> QED BY <1>2, <1>3, <1>5
<1> HIDE DEF Cut
<1> QED BY <1>0, <1>1, <1>4, <1>6

LEMMA IndexesAfterPowerLossType ==
    ASSUME vis \in Disk, dur \in Disk, NEW ix \in IndexesAfterPowerLoss
    PROVE  ix.index \subseteq Id /\ ix.tail \in Int
  BY SMTT(30) DEF IndexesAfterPowerLoss, Disk, Torn

LEMMA HeadsAfterPowerLossType ==
    ASSUME vis \in Disk, dur \in Disk, NEW h \in HeadsAfterPowerLoss
    PROVE  h.head \in Nat /\ h.tmp \in Int
  BY SMTT(30) DEF HeadsAfterPowerLoss, Disk, Torn

LEMMA TruncatedType ==
    ASSUME NEW log \in Seq(Line)
    PROVE  Truncated(log) \in Seq(Line)
  BY DEF Truncated

LEMMA InitType == Init => TypeInv
<1> SUFFICES ASSUME Init PROVE TypeInv
  OBVIOUS
<1>1. vis.log \in Seq(Line)
  BY DEF Init, Line, Id
<1>2. vis \in Disk
  <2>1. 1..Preloaded \subseteq Id /\ Preloaded \in Nat
    BY DEF Id
  <2> QED BY <1>1, <2>1 DEF Init, Disk, RootEvent
<1>3. event \in Seq(Event)
  BY DEF Init, Event, RootEvent, Kinds
<1>4. acked \subseteq Id /\ index = {} /\ missing = {}
  BY DEF Init, Id
<1>5. dur \in Disk
  BY <1>2 DEF Init
<1>6. TypeOK
  BY <1>2, <1>3, <1>4, <1>5 DEF Init, TypeOK, RootEvent
<1>7. PcInv
  BY DEF Init, PcInv
<1> QED BY <1>6, <1>7 DEF TypeInv

LEMMA DiskFields ==
    ASSUME NEW d \in Disk
    PROVE  /\ \A l \in Seq(Line) : [d EXCEPT !.log = l] \in Disk
           /\ \A c \in Nat : [d EXCEPT !.chunk = c] \in Disk
           /\ \A l \in Seq(Line), c \in Nat : [d EXCEPT !.log = l, !.chunk = c] \in Disk
           /\ \A t \in Int : [d EXCEPT !.tmp = t] \in Disk
           /\ \A h \in Nat, t \in Int : [d EXCEPT !.head = h, !.tmp = t] \in Disk
           /\ \A b \in SUBSET Id : [d EXCEPT !.blobs = b] \in Disk
  BY DEF Disk

LEMMA DiskParts ==
    ASSUME NEW d \in Disk
    PROVE  /\ d.log \in Seq(Line) /\ d.chunk \in Nat /\ d.index \in SUBSET Id
           /\ d.tail \in Int /\ d.head \in Nat /\ d.tmp \in Int /\ d.blobs \in SUBSET Id
  BY DEF Disk

LEMMA StartAppendType == TypeInv /\ StartAppend => TypeInv'
<1> SUFFICES ASSUME TypeInv, StartAppend PROVE TypeInv'
  OBVIOUS
<1> SUFFICES ASSUME NEW p \in Nat, NEW br \in BOOLEAN, NEW k \in Kinds,
                    NEW g \in BOOLEAN, Submit(p, br, k, g)
             PROVE  TypeInv'
  <2>1. head \in Nat /\ \A i \in index : i \in Nat
    <3>1. head \in Nat /\ index \subseteq Id
      BY DEF TypeInv, TypeOK
    <3> QED BY <3>1 DEF Id
  <2>2. \A p \in Nat : HasChild(p) \in BOOLEAN
    BY DEF HasChild
  <2>3. "message" \in Kinds
    BY DEF Kinds
  <2> QED BY <2>1, <2>2, <2>3 DEF StartAppend, AppendToHead, BranchFromEventID
<1> DEFINE x == [parent |-> p, branch |-> br, kind |-> k, big |-> g]
<1>1. x \in Event /\ event \in Seq(Event)
  BY DEF Event, TypeInv, TypeOK
<1>2. event' = Append(event, x)
  BY DEF Submit
<1> HIDE DEF x
<1>3. event' \in Seq(Event) /\ Len(event') = Len(event) + 1
  BY <1>1, <1>2
<1>4. TypeOK'
  BY <1>3 DEF TypeInv, TypeOK, Submit, memory, Steps
<1>5. PcInv'
  BY <1>1, <1>3 DEF TypeInv, PcInv, Submit, memory
<1> QED BY <1>4, <1>5 DEF TypeInv

LEMMA StepAppendType == TypeInv /\ StepAppend => TypeInv'
<1> SUFFICES ASSUME TypeInv, StepAppend PROVE TypeInv'
  OBVIOUS
<1> USE DEF TypeInv, Current
<1>0. vis \in Disk /\ dur \in Disk /\ event \in Seq(Event) /\ Len(event) \in Nat
  BY DEF TypeOK
<1>p. pc # "idle"
  BY DEF StepAppend, WriteBlob, SyncBlob, RotateChunk, WriteLine, SyncLine, PrepareHead,
         AppendIndex, RenameHead, FinishAppend
<1>e. Len(event) \in Id /\ status = "open" /\ ~broken
  BY <1>0, <1>p DEF PcInv, Id
<1>v. /\ vis.log \in Seq(Line) /\ vis.chunk \in Nat /\ vis.index \in SUBSET Id
      /\ vis.head \in Nat /\ vis.tmp \in Int /\ vis.blobs \in SUBSET Id
  BY <1>0, DiskParts
<1>r. RootEvent \in Nat /\ RootEvent \in Int
  BY DEF RootEvent
<1>1. CASE WriteBlob
  <2>1. PICK b \in SUBSET Id : b = vis.blobs \cup {Len(event)}
    BY <1>v, <1>e
  <2>2. vis' = [vis EXCEPT !.blobs = b]
    BY <1>1, <2>1 DEF WriteBlob
  <2>3. vis' \in Disk
    BY <1>0, <2>2, DiskFields
  <2> QED BY <1>1, <2>3, <1>e DEF WriteBlob, TypeOK, PcInv, Steps, memory
<1>2. CASE SyncBlob
  <2>1. dur' \in Disk
    BY <1>0, <1>v, <1>2, DiskFields DEF SyncBlob
  <2> QED BY <1>2, <2>1, <1>e DEF SyncBlob, TypeOK, PcInv, Steps, memory
<1>3. CASE RotateChunk
  <2>1. PICK c \in Nat : c = vis.chunk + 1
    BY <1>v
  <2>2. vis' \in Disk /\ dur' \in Disk
    <3>1. CASE FullChunk(vis)
      <4>1. /\ vis' = [vis EXCEPT !.chunk = c]
            /\ dur' = [dur EXCEPT !.log = vis.log, !.chunk = c]
        BY <1>3, <2>1, <3>1 DEF RotateChunk
      <4> QED BY <4>1, <1>0, <1>v, DiskFields
    <3>2. CASE ~FullChunk(vis)
      BY <1>3, <3>2, <1>0 DEF RotateChunk, files
    <3> QED BY <3>1, <3>2
  <2> QED BY <1>3, <2>2, <1>e DEF RotateChunk, TypeOK, PcInv, Steps, memory
<1>4. CASE WriteLine
  <2>1. Written(vis.log, vis.chunk, Len(event), TRUE) \in Seq(Line)
    BY <1>v, <1>e, WrittenType
  <2>2. vis' \in Disk
    BY <1>0, <2>1, <1>4, DiskFields DEF WriteLine
  <2> QED BY <1>4, <2>2, <1>e DEF WriteLine, TypeOK, PcInv, Steps, memory
<1>5. CASE SyncLine
  <2>1. dur' \in Disk
    BY <1>0, <1>v, <1>5, DiskFields DEF SyncLine
  <2> QED BY <1>5, <2>1, <1>e DEF SyncLine, TypeOK, PcInv, Steps, memory
<1>6. CASE PrepareHead
  <2>1. vis' \in Disk /\ vis'.tmp = Len(event)
    <3>1. vis' = [vis EXCEPT !.tmp = Len(event)]
      BY <1>6 DEF PrepareHead
    <3>2. vis' \in Disk
      <4>1. Len(event) \in Int
        BY <1>0
      <4> QED BY <1>0, <4>1, <3>1, DiskFields
    <3> QED BY <1>0, <3>1, <3>2 DEF Disk
  <2> QED BY <1>6, <2>1, <1>e DEF PrepareHead, TypeOK, PcInv, Steps, memory
<1>7. CASE AppendIndex
  <2>1. vis' \in Disk /\ vis'.tmp = vis.tmp
    BY <1>0, <1>7, <1>e, IndexedType DEF AppendIndex
  <2>2. PICK ix \in SUBSET Id, u \in Int : ix = vis'.index /\ u = 0
    BY <2>1, DiskParts
  <2>3. dur' = [dur EXCEPT !.index = ix, !.tail = u]
    BY <1>7, <2>2, SMTT(30) DEF AppendIndex
  <2>4. dur' \in Disk
    BY <1>0, <2>3, DiskIndexType
  <2> QED BY <1>7, <2>1, <2>4, <1>e DEF AppendIndex, TypeOK, PcInv, Steps, memory
<1>8. CASE RenameHead
  <2>1. vis' = [vis EXCEPT !.head = Len(event), !.tmp = RootEvent]
    BY <1>8, <1>e DEF RenameHead, PcInv
  <2>2. vis' \in Disk
    BY <1>0, <1>r, <2>1, DiskFields
  <2> QED BY <1>8, <2>2, <1>e DEF RenameHead, TypeOK, PcInv, Steps, memory
<1>9. CASE FinishAppend
  <2>1. dur' \in Disk
    BY <1>0, <1>v, <1>9, DiskFields DEF FinishAppend
  <2>2. index' \subseteq Id /\ acked' \subseteq Id
    BY <1>9, <1>e DEF FinishAppend, TypeOK
  <2> QED BY <1>9, <2>1, <2>2, <1>e DEF FinishAppend, TypeOK, PcInv, Steps
<1> QED BY <1>1, <1>2, <1>3, <1>4, <1>5, <1>6, <1>7, <1>8, <1>9 DEF StepAppend

LEMMA FailAppendType == TypeInv /\ FailAppend => TypeInv'
<1> SUFFICES ASSUME TypeInv, FailAppend PROVE TypeInv'
  OBVIOUS
<1>0. vis \in Disk /\ vis.log \in Seq(Line) /\ vis.chunk \in Nat /\ vis.tmp \in Int
  BY DiskParts DEF TypeInv, TypeOK
<1>1. Current \in Id /\ Current \in Int /\ Torn \in Int
  BY DEF TypeInv, TypeOK, PcInv, FailAppend, Current, Id, Torn
<1>2. \A l \in PartlyWritten(vis.log, vis.chunk, Current) : [vis EXCEPT !.log = l] \in Disk
  BY <1>0, <1>1, PartlyWrittenType, DiskFields
<1>3. \A t \in {vis.tmp, Torn, Current} : [vis EXCEPT !.tmp = t] \in Disk
  BY <1>0, <1>1, DiskFields
<1>4. \A d \in PartlyIndexed(vis, Current) : d \in Disk
  BY <1>0, <1>1, PartlyIndexedType
<1>5. [vis EXCEPT !.chunk = vis.chunk + 1] \in Disk
  <2>1. vis.chunk + 1 \in Nat
    BY <1>0
  <2> QED BY <1>0, <2>1, DiskFields
<1>6. vis' \in FailedAt(pc)
  BY DEF FailAppend
<1>7. vis' \in Disk
  BY <1>0, <1>2, <1>3, <1>4, <1>5, <1>6 DEF FailedAt
<1> QED BY <1>7 DEF FailAppend, TypeInv, TypeOK, PcInv

LEMMA EndType == TypeInv /\ (Close \/ Kill \/ PowerLoss) => TypeInv'
<1> SUFFICES ASSUME TypeInv, Close \/ Kill \/ PowerLoss PROVE TypeInv'
  OBVIOUS
<1> USE DEF TypeInv
<1>0. vis \in Disk /\ dur \in Disk
  BY DEF TypeOK
<1>1. CASE Close
  <2>1. dur' \in Disk
    BY <1>0, <1>1, DiskParts, DiskFields DEF Close
  <2> QED BY <1>1, <2>1 DEF Close, Forget, TypeOK, PcInv, RootEvent
<1>2. CASE Kill
  <2>1. Torn \in Int
    BY DEF Torn
  <2>2. [vis EXCEPT !.tmp = Torn] \in Disk
    BY <1>0, <2>1, DiskFields
  <2>3. vis' \in Disk
    BY <1>0, <1>2, <2>2 DEF Kill
  <2>4. faults' \in Nat
    BY <1>2 DEF Kill, TypeOK
  <2> QED BY <1>2, <2>3, <2>4 DEF Kill, Forget, TypeOK, PcInv, RootEvent
<1>3. CASE PowerLoss
  <2>1. PICK log \in LogsAfterPowerLoss, ix \in IndexesAfterPowerLoss,
             h \in HeadsAfterPowerLoss, b \in {dur.blobs, vis.blobs},
             c \in {dur.chunk, vis.chunk} :
          vis' = [log |-> log, chunk |-> c, index |-> ix.index, tail |-> ix.tail,
                  head |-> h.head, tmp |-> h.tmp, blobs |-> b]
    BY <1>3 DEF PowerLoss
  <2>2. log \in Seq(Line) /\ ix.index \in SUBSET Id /\ ix.tail \in Int
        /\ h.head \in Nat /\ h.tmp \in Int
    BY <1>0, LogsAfterPowerLossType, IndexesAfterPowerLossType, HeadsAfterPowerLossType
  <2>3. b \in SUBSET Id /\ c \in Nat
    BY <1>0, DiskParts
  <2>4. vis' \in Disk
    BY <2>1, <2>2, <2>3 DEF Disk
  <2>5. dur' \in Disk /\ faults' \in Nat
    BY <1>3, <2>4 DEF PowerLoss, TypeOK
  <2> QED BY <1>3, <2>4, <2>5 DEF PowerLoss, Forget, TypeOK, PcInv, RootEvent
<1> QED BY <1>1, <1>2, <1>3

LEMMA OpenType == TypeInv /\ Open => TypeInv'
<1> SUFFICES ASSUME TypeInv, Open PROVE TypeInv'
  OBVIOUS
<1> USE DEF TypeInv
<1>0. vis \in Disk /\ dur \in Disk
  BY DEF TypeOK
<1>v. /\ vis.log \in Seq(Line) /\ vis.chunk \in Nat /\ vis.index \in SUBSET Id
      /\ vis.head \in Nat /\ vis.tmp \in Int
  BY <1>0, DiskParts
<1>r. RootEvent \in Nat /\ RootEvent \in Int
  BY DEF RootEvent
<1>i. RootEvent \notin index
  BY DEF TypeOK, Id, RootEvent
<1>1. CASE LoadIndex
  BY <1>1, <1>v DEF LoadIndex, TypeOK, PcInv, Opening
<1>2. CASE ReconcileChunks
  <2>1. Truncated(vis.log) \in Seq(Line)
    BY <1>v, TruncatedType
  <2>2. [vis EXCEPT !.log = Truncated(vis.log)] \in Disk
    BY <1>0, <2>1, DiskFields
  <2>3. vis' \in Disk /\ status' \in {"failed"} \cup Opening
    BY <1>0, <1>2, <2>2, SMTT(30) DEF ReconcileChunks, Opening
  <2>4. Ids(vis.log) \subseteq Id
    <3>1. \A i \in DOMAIN vis.log : vis.log[i] \in Line
      BY <1>v
    <3> QED BY <3>1 DEF Ids, Line
  <2>5. index' \subseteq Id /\ missing' \subseteq Id
    BY <1>2, <2>4 DEF ReconcileChunks, TypeOK
  <2> QED BY <1>2, <2>3, <2>5 DEF ReconcileChunks, TypeOK, PcInv
<1>3. CASE ReindexOne
  <2>2. PICK e \in missing : vis' = Indexed(vis, e) /\ missing' = missing \ {e}
    BY <1>3 DEF ReindexOne
  <2>3. e \in Id
    BY DEF TypeOK
  <2>4. vis' \in Disk
    BY <1>0, <2>2, <2>3, IndexedType
  <2>5. PICK ix \in SUBSET Id, u \in Int : ix = vis'.index /\ u = 0
    BY <2>4, DiskParts
  <2>6. dur' = [dur EXCEPT !.index = ix, !.tail = u]
    BY <1>3, <2>5, SMTT(30) DEF ReindexOne
  <2>7. dur' \in Disk
    BY <1>0, <2>6, DiskIndexType
  <2> QED BY <1>3, <2>2, <2>4, <2>7 DEF ReindexOne, TypeOK, PcInv
<1>4. CASE RecoverHead
  <2>1. CASE vis.tmp = RootEvent
    <3>1. vis' = vis /\ dur' = dur
      BY <1>4, <2>1, <1>i DEF RecoverHead
    <3> QED BY <1>4, <3>1, <1>0 DEF RecoverHead, TypeOK, PcInv, Opening, memory
  <2>2. CASE vis.tmp # RootEvent /\ vis.tmp \in index
    <3>1. vis.tmp \in Nat
      BY <2>2 DEF TypeOK, Id
    <3>2. vis' = [vis EXCEPT !.head = vis.tmp, !.tmp = RootEvent]
      BY <1>4, <2>2, <1>i DEF RecoverHead
    <3>3. vis' \in Disk /\ vis'.head \in Nat
      BY <1>0, <1>r, <3>1, <3>2, DiskFields, DiskParts
    <3>4. dur' \in Disk
      BY <1>4, <2>2, <1>0, <1>r, <3>3, DiskFields DEF RecoverHead
    <3> QED BY <1>4, <3>3, <3>4 DEF RecoverHead, TypeOK, PcInv, Opening, memory
  <2>3. CASE vis.tmp # RootEvent /\ vis.tmp \notin index
    <3>1. vis' = [vis EXCEPT !.tmp = RootEvent]
      BY <1>4, <2>3 DEF RecoverHead
    <3>2. vis' \in Disk /\ vis'.head \in Nat
      BY <1>0, <1>r, <3>1, DiskFields, DiskParts
    <3>3. dur' \in Disk
      BY <1>4, <2>3, <1>0, <1>r, <3>2, DiskFields DEF RecoverHead
    <3> QED BY <1>4, <3>2, <3>3 DEF RecoverHead, TypeOK, PcInv, Opening, memory
  <2> QED BY <2>1, <2>2, <2>3
<1>5. CASE LoadHead
  <2>1. dur' \in Disk /\ head' \in Nat
    BY <1>5, <1>0, <1>v, DiskFields DEF LoadHead, TypeOK
  <2> QED BY <1>5, <2>1 DEF LoadHead, TypeOK, PcInv
<1> QED BY <1>1, <1>2, <1>3, <1>4, <1>5 DEF Open

LEMMA StutterType == TypeInv /\ UNCHANGED vars => TypeInv'
  BY DEF TypeInv, TypeOK, PcInv, vars

LEMMA TypeInvStep == TypeInv /\ [Next]_vars => TypeInv'
  BY StartAppendType, StepAppendType, FailAppendType, EndType, OpenType, StutterType DEF Next

\* Every variable of a timeline keeps its type.
THEOREM TypeCorrect == Spec => []TypeOK
<1>1. TypeInv => TypeOK
  BY DEF TypeInv
<1> QED BY InitType, TypeInvStep, <1>1, PTL DEF Spec

-----------------------------------------------------------------------------
(* Durability. An acknowledged event stays on the disk, whatever fails      *)
(* afterwards, until an append is glued to a line that lacks only its       *)
(* newline (`glued`), which the code does and nothing here excludes. The    *)
(* argument: a line that parses and on which the page cache and the disk    *)
(* agree is not touched before that, because bytes are otherwise only glued *)
(* to a torn line, truncation only takes a line that does not parse, and a  *)
(* power loss takes no line both agree on. An append is acknowledged only   *)
(* after the sync that makes them agree on its line.                        *)
HIDE TimelineAssumption

\* The disk and the page cache hold the same line of event e.
Safe(e) ==
    \E i \in DOMAIN vis.log \cap DOMAIN dur.log :
        vis.log[i] = dur.log[i] /\ vis.log[i].id = e

\* Every line parses; the last one of a chunk may still lack its newline.
Parses(log) == \A i \in DOMAIN log : log[i].id # Torn

Writable == status \in {"reindex", "loadhead"} \/ (status = "open" /\ ~broken)

LogInv ==
    /\ Writable => Parses(vis.log)
    /\ pc = "sync" => \E i \in DOMAIN vis.log : vis.log[i].id = Len(event)
    /\ pc \in {"prepare", "index", "rename", "syncdir"} => Safe(Len(event))
    /\ \A e \in acked : Safe(e)

\* What a step does to the lines that are already safe: nothing.
Stable ==
    \A i \in DOMAIN vis.log \cap DOMAIN dur.log :
        vis.log[i] = dur.log[i] /\ vis.log[i].id # Torn
          => /\ i \in DOMAIN vis'.log \cap DOMAIN dur'.log
             /\ vis'.log[i] = vis.log[i] /\ dur'.log[i] = vis.log[i]

\* What is glued stays so.
LEMMA GluedStays == [Next]_vars /\ ~glued' => ~glued
  BY DEF Next, StartAppend, AppendToHead, BranchFromEventID, Submit, StepAppend, WriteBlob,
         SyncBlob, RotateChunk, WriteLine, SyncLine, PrepareHead, AppendIndex, RenameHead,
         FinishAppend, FailAppend, Close, Kill, PowerLoss, Open, LoadIndex, ReconcileChunks,
         ReindexOne, RecoverHead, LoadHead, vars

LEMMA StableSafe ==
    ASSUME Stable, NEW e \in Id, Safe(e)
    PROVE  Safe(e)'
  BY DEF Stable, Safe, Id, Torn

LEMMA WrittenKeeps ==
    ASSUME NEW log \in Seq(Line), NEW c \in Nat, NEW e \in Id \cup {Torn}, NEW nl \in BOOLEAN,
           ~Glues(log, c)
    PROVE  /\ \A i \in DOMAIN log : log[i].id # Torn =>
                 i \in DOMAIN Written(log, c, e, nl) /\ Written(log, c, e, nl)[i] = log[i]
           /\ Parses(log) => /\ Written(log, c, e, nl) = Append(log, [id |-> e, chunk |-> c, nl |-> nl])
                             /\ e # Torn => Parses(Written(log, c, e, nl))
<1> DEFINE new == [id |-> e, chunk |-> c, nl |-> nl]
           bad == [id |-> Torn, chunk |-> c, nl |-> nl]
<1>1. new \in Line /\ bad \in Line
  BY DEF Line
<1>2. new.id = e
  OBVIOUS
<1> HIDE DEF new, bad
<1>3. CASE log # <<>> /\ ~log[Len(log)].nl /\ log[Len(log)].chunk = c
  <2>1. Written(log, c, e, nl) = [log EXCEPT ![Len(log)] = bad]
    BY <1>3 DEF Written, bad
  <2>2. Len(log) \in DOMAIN log /\ log[Len(log)].id = Torn
    BY <1>3 DEF Glues
  <2> QED BY <2>1, <2>2 DEF Parses
<1>4. CASE ~(log # <<>> /\ ~log[Len(log)].nl /\ log[Len(log)].chunk = c)
  <2>1. Written(log, c, e, nl) = Append(log, new)
    BY <1>4 DEF Written, new
  <2>2. \A i \in DOMAIN Append(log, new) :
           (i \in DOMAIN log /\ Append(log, new)[i] = log[i]) \/ Append(log, new)[i] = new
    BY <1>1
  <2>3. \A i \in DOMAIN log : i \in DOMAIN Append(log, new) /\ Append(log, new)[i] = log[i]
    BY <1>1
  <2> QED BY <1>2, <2>1, <2>2, <2>3 DEF Parses, new
<1> QED BY <1>3, <1>4

LEMMA PartlyWrittenKeeps ==
    ASSUME NEW log \in Seq(Line), NEW c \in Nat, NEW e \in Id, NEW l \in PartlyWritten(log, c, e),
           l # log => ~Glues(log, c)
    PROVE  \A i \in DOMAIN log : log[i].id # Torn => i \in DOMAIN l /\ l[i] = log[i]
<1>1. \/ l = log
      \/ \E d \in {Torn, e}, nl \in BOOLEAN : l = Written(log, c, d, nl)
  BY DEF PartlyWritten
<1>2. CASE l = log
  BY <1>2
<1>3. CASE l # log /\ \E d \in {Torn, e}, nl \in BOOLEAN : l = Written(log, c, d, nl)
  <2> PICK d \in {Torn, e}, nl \in BOOLEAN : l = Written(log, c, d, nl)
    BY <1>3
  <2>1. d \in Id \cup {Torn} /\ ~Glues(log, c)
    BY <1>3
  <2>2. \A i \in DOMAIN log : log[i].id # Torn =>
           i \in DOMAIN Written(log, c, d, nl) /\ Written(log, c, d, nl)[i] = log[i]
    BY <2>1, WrittenKeeps, Zenon
  <2> QED BY <2>2
<1> QED BY <1>1, <1>2, <1>3

LEMMA TruncatedKeeps ==
    ASSUME NEW log \in Seq(Line)
    PROVE  /\ \A i \in DOMAIN log : log[i].id # Torn =>
                 i \in DOMAIN Truncated(log) /\ Truncated(log)[i] = log[i]
           /\ ~Corrupt(log) => Parses(Truncated(log))
<1>1. CASE log # <<>> /\ log[Len(log)].id = Torn
  <2>1. Truncated(log) = SubSeq(log, 1, Len(log) - 1)
    BY <1>1 DEF Truncated
  <2>2. DOMAIN Truncated(log) = 1..(Len(log) - 1)
        /\ \A i \in 1..(Len(log) - 1) : Truncated(log)[i] = log[i]
    BY <1>1, <2>1
  <2>3. DOMAIN log = 1..Len(log) /\ Len(log) \in Nat
    OBVIOUS
  <2> QED BY <1>1, <2>2, <2>3 DEF Parses, Corrupt
<1>2. CASE ~(log # <<>> /\ log[Len(log)].id = Torn)
  <2>1. Truncated(log) = log
    BY <1>2 DEF Truncated
  <2>2. \A i \in DOMAIN log : log # <<>> /\ i \in 1..Len(log)
    OBVIOUS
  <2> QED BY <1>2, <2>1, <2>2 DEF Parses, Corrupt
<1> QED BY <1>1, <1>2

\* A power loss leaves every line on which the cache and the disk agree.
LEMMA PowerLossKeeps ==
    ASSUME vis \in Disk, dur \in Disk, NEW log \in LogsAfterPowerLoss
    PROVE  \A i \in DOMAIN vis.log \cap DOMAIN dur.log :
              vis.log[i] = dur.log[i] => i \in DOMAIN log /\ log[i] = vis.log[i]
<1> DEFINE Kept(n) == \A i \in DOMAIN vis.log \cap DOMAIN dur.log :
                         vis.log[i] = dur.log[i] => i <= n
           Upto(n) == SubSeq(vis.log, 1, n)
           Cut(n, e) == [Upto(n) EXCEPT ![n] = [id |-> e, chunk |-> @.chunk, nl |-> FALSE]]
<1>0. vis.log \in Seq(Line) /\ dur.log \in Seq(Line) /\ Len(vis.log) \in Nat
      /\ DOMAIN vis.log = 1..Len(vis.log)
  BY DiskParts
<1>1. \A n \in 0..Len(vis.log) :
         DOMAIN Upto(n) = 1..n /\ \A i \in 1..n : Upto(n)[i] = vis.log[i]
  BY <1>0
<1>2. \/ log = dur.log
      \/ \E n \in 0..Len(vis.log) : Kept(n) /\ log = Upto(n)
      \/ \E n \in 1..Len(vis.log) : Kept(n - 1) /\ \E e \in {Torn, vis.log[n].id} : log = Cut(n, e)
  BY DEF LogsAfterPowerLoss
<1>3. CASE log = dur.log
  BY <1>3
<1>4. CASE \E n \in 0..Len(vis.log) : Kept(n) /\ log = Upto(n)
  <2> PICK n \in 0..Len(vis.log) : Kept(n) /\ log = Upto(n)
    BY <1>4
  <2> QED BY <1>0, <1>1
<1>5. CASE \E n \in 1..Len(vis.log) :
              Kept(n - 1) /\ \E e \in {Torn, vis.log[n].id} : log = Cut(n, e)
  <2> PICK n \in 1..Len(vis.log) :
         Kept(n - 1) /\ \E e \in {Torn, vis.log[n].id} : log = Cut(n, e)
    BY <1>5
  <2> PICK e : log = Cut(n, e)
    OBVIOUS
  <2>1. DOMAIN log = 1..n /\ \A i \in 1..(n - 1) : log[i] = vis.log[i]
    <3>1. n \in 0..Len(vis.log) /\ n \in 1..n
      BY <1>0
    <3>2. DOMAIN Upto(n) = 1..n /\ \A i \in 1..n : Upto(n)[i] = vis.log[i]
      BY <1>1, <3>1
    <3>3. log = [Upto(n) EXCEPT ![n] = [id |-> e, chunk |-> Upto(n)[n].chunk, nl |-> FALSE]]
      OBVIOUS
    <3> HIDE DEF Upto, Cut
    <3>4. DOMAIN log = 1..n /\ \A i \in 1..(n - 1) : log[i] = Upto(n)[i]
      BY <3>2, <3>3
    <3> QED BY <3>2, <3>4
  <2> QED BY <1>0, <2>1, SMTT(30)
<1> QED BY <1>2, <1>3, <1>4, <1>5

-----------------------------------------------------------------------------
(* The steps *)

Quiet == StartAppend \/ WriteBlob \/ SyncBlob \/ PrepareHead \/ AppendIndex \/ RenameHead
         \/ FinishAppend \/ Kill \/ LoadIndex \/ ReindexOne \/ RecoverHead \/ LoadHead

\* These steps write no chunk file.
LEMMA QuietLogs == TypeInv /\ Quiet => vis'.log = vis.log /\ dur'.log = dur.log
<1> SUFFICES ASSUME TypeInv, Quiet PROVE vis'.log = vis.log /\ dur'.log = dur.log
  OBVIOUS
<1>0. vis \in Disk /\ dur \in Disk
  BY DEF TypeInv, TypeOK
<1>1. CASE StartAppend
  BY <1>1 DEF StartAppend, AppendToHead, BranchFromEventID, Submit
<1>2. CASE WriteBlob \/ SyncBlob \/ PrepareHead \/ RenameHead \/ FinishAppend
  BY <1>0, <1>2 DEF WriteBlob, SyncBlob, PrepareHead, RenameHead, FinishAppend, Disk
<1>3. CASE AppendIndex
  <2>1. Len(event) \in Id
    BY <1>3 DEF AppendIndex, TypeInv, TypeOK, PcInv, Id
  <2> QED BY <1>0, <1>3, <2>1, IndexedType DEF AppendIndex, Current, Disk
<1>4. CASE Kill
  BY <1>0, <1>4 DEF Kill, Disk
<1>5. CASE LoadIndex
  BY <1>5 DEF LoadIndex
<1>6. CASE ReindexOne
  <2>1. PICK e \in missing : vis' = Indexed(vis, e)
    BY <1>6 DEF ReindexOne
  <2>2. e \in Id
    BY DEF TypeInv, TypeOK
  <2> QED BY <1>0, <1>6, <2>1, <2>2, IndexedType DEF ReindexOne, Disk
<1>7. CASE RecoverHead
  <2>1. RootEvent \notin index
    BY DEF TypeInv, TypeOK, Id, RootEvent
  <2>2. \/ vis' = vis
        \/ vis' = [vis EXCEPT !.head = vis.tmp, !.tmp = RootEvent]
        \/ vis' = [vis EXCEPT !.tmp = RootEvent]
    BY <1>7, <2>1 DEF RecoverHead
  <2>3. dur' = dur \/ dur' = [dur EXCEPT !.head = vis'.head, !.tmp = RootEvent]
    BY <1>7 DEF RecoverHead
  <2> QED BY <1>0, <2>2, <2>3 DEF Disk
<1>8. CASE LoadHead
  BY <1>0, <1>8 DEF LoadHead, Disk
<1> QED BY <1>1, <1>2, <1>3, <1>4, <1>5, <1>6, <1>7, <1>8 DEF Quiet

LEMMA QuietLogInv == TypeInv /\ LogInv /\ Quiet => LogInv'
<1> SUFFICES ASSUME TypeInv, LogInv, Quiet PROVE LogInv'
  OBVIOUS
<1>1. vis'.log = vis.log /\ dur'.log = dur.log
  BY QuietLogs
<1>2. \A e : Safe(e)' <=> Safe(e)
  BY <1>1 DEF Safe
<1>4. Writable' => Writable
  BY DEF Quiet, StartAppend, AppendToHead, BranchFromEventID, Submit, WriteBlob, SyncBlob,
         PrepareHead, AppendIndex, RenameHead, FinishAppend, Kill, Forget, LoadIndex,
         ReindexOne, RecoverHead, LoadHead, memory, Writable
<1>5. Writable' => Parses(vis'.log)
  BY <1>1, <1>4 DEF LogInv
<1>6. pc' # "sync"
  BY DEF Quiet, StartAppend, AppendToHead, BranchFromEventID, Submit, WriteBlob, SyncBlob,
         PrepareHead, AppendIndex, RenameHead, FinishAppend, Kill, Forget, LoadIndex,
         ReindexOne, RecoverHead, LoadHead, TypeInv, PcInv
<1>7. pc' \in {"prepare", "index", "rename", "syncdir"} => Safe(Len(event))'
  <2>1. pc' \in {"prepare", "index", "rename", "syncdir"} =>
           event' = event /\ pc \in {"prepare", "index", "rename", "syncdir"}
    BY DEF Quiet, StartAppend, AppendToHead, BranchFromEventID, Submit, WriteBlob, SyncBlob,
           PrepareHead, AppendIndex, RenameHead, FinishAppend, Kill, Forget, LoadIndex,
           ReindexOne, RecoverHead, LoadHead, TypeInv, PcInv, memory
  <2> QED BY <1>2, <2>1 DEF LogInv
<1>8. \A e \in acked' : Safe(e)'
  <2>1. \A e \in acked' : e \in acked \/ (pc = "syncdir" /\ e = Len(event))
    BY DEF Quiet, StartAppend, AppendToHead, BranchFromEventID, Submit, WriteBlob, SyncBlob,
           PrepareHead, AppendIndex, RenameHead, FinishAppend, Kill, LoadIndex,
           ReindexOne, RecoverHead, LoadHead, Current, memory
  <2> QED BY <1>2, <2>1 DEF LogInv
<1> QED BY <1>5, <1>6, <1>7, <1>8 DEF LogInv

LEMMA LoudLogInv ==
    ~glued' /\ TypeInv /\ LogInv
      /\ (RotateChunk \/ WriteLine \/ SyncLine \/ FailAppend \/ Close \/ PowerLoss \/ ReconcileChunks)
    => LogInv'
<1> SUFFICES ASSUME ~glued', TypeInv, LogInv,
                    RotateChunk \/ WriteLine \/ SyncLine \/ FailAppend \/ Close
                      \/ PowerLoss \/ ReconcileChunks
             PROVE  LogInv'
  OBVIOUS
<1>0. /\ vis \in Disk /\ dur \in Disk /\ acked \subseteq Id
      /\ vis.log \in Seq(Line) /\ dur.log \in Seq(Line) /\ vis.chunk \in Nat
  BY DiskParts DEF TypeInv, TypeOK
<1>c. pc # "idle" => Len(event) \in Id
  BY DEF TypeInv, TypeOK, PcInv, Id
<1>s. ASSUME Stable, acked' = acked PROVE \A e \in acked' : Safe(e)'
  BY <1>0, <1>s, StableSafe DEF LogInv
<1>1. CASE RotateChunk
  <2>1. vis'.log = vis.log /\ (dur'.log = dur.log \/ dur'.log = vis.log)
    BY <1>0, <1>1 DEF RotateChunk, files, Disk
  <2>2. Stable
    BY <2>1 DEF Stable
  <2>3. \A e \in acked' : Safe(e)'
    BY <1>s, <1>1, <2>2 DEF RotateChunk
  <2>4. Writable' => Parses(vis'.log)
    BY <1>1, <2>1 DEF LogInv, Writable, RotateChunk, memory
  <2> QED BY <1>1, <2>3, <2>4 DEF LogInv, RotateChunk
<1>2. CASE WriteLine
  <2> DEFINE new == [id |-> Len(event), chunk |-> vis.chunk, nl |-> TRUE]
  <2>1. vis'.log = Written(vis.log, vis.chunk, Len(event), TRUE) /\ dur'.log = dur.log
    BY <1>0, <1>2 DEF WriteLine, Current, Disk
  <2>2. Len(event) \in Id
    BY <1>c, <1>2 DEF WriteLine
  <2>3. ~Glues(vis.log, vis.chunk) /\ Parses(vis.log)
    BY <1>2 DEF WriteLine, LogInv, Writable, TypeInv, PcInv
  <2>4. /\ \A i \in DOMAIN vis.log : vis.log[i].id # Torn =>
              i \in DOMAIN vis'.log /\ vis'.log[i] = vis.log[i]
        /\ vis'.log = Append(vis.log, new) /\ Parses(vis'.log)
    <3> DEFINE w == Written(vis.log, vis.chunk, Len(event), TRUE)
    <3>1. TRUE \in BOOLEAN /\ Len(event) \in Id \cup {Torn} /\ Len(event) # Torn
      BY <2>2 DEF Id, Torn
    <3>2. \A i \in DOMAIN vis.log : vis.log[i].id # Torn => i \in DOMAIN w /\ w[i] = vis.log[i]
      BY <1>0, <2>3, <3>1, WrittenKeeps, ZenonT(60)
    <3>3. w = Append(vis.log, new) /\ Parses(w)
      BY <1>0, <2>3, <3>1, WrittenKeeps, ZenonT(60)
    <3> QED BY <2>1, <3>2, <3>3
  <2>5. Stable
    BY <2>1, <2>4 DEF Stable
  <2>6. new \in Line /\ new.id = Len(event)
    BY <1>0, <2>2 DEF Line
  <2> HIDE DEF new
  <2>7. Len(vis.log) + 1 \in DOMAIN vis'.log /\ vis'.log[Len(vis.log) + 1] = new
    BY <1>0, <2>4, <2>6
  <2>8. \A e \in acked' : Safe(e)'
    BY <1>s, <1>2, <2>5 DEF WriteLine
  <2>10. event' = event /\ pc' = "sync"
    BY <1>2 DEF WriteLine
  <2> QED BY <2>4, <2>6, <2>7, <2>8, <2>10 DEF LogInv
<1>3. CASE SyncLine
  <2>1. vis'.log = vis.log /\ dur'.log = vis.log /\ event' = event
    BY <1>0, <1>3 DEF SyncLine, Disk
  <2>2. Stable
    BY <2>1 DEF Stable
  <2>3. \A e \in acked' : Safe(e)'
    BY <1>s, <1>3, <2>2 DEF SyncLine
  <2>4. PICK i \in DOMAIN vis.log : vis.log[i].id = Len(event)
    BY <1>3 DEF SyncLine, LogInv
  <2>5. Safe(Len(event))'
    BY <2>1, <2>4 DEF Safe
  <2>6. Writable' => Parses(vis'.log)
    BY <1>3, <2>1 DEF LogInv, Writable, SyncLine, memory
  <2> QED BY <1>3, <2>3, <2>5, <2>6 DEF LogInv, SyncLine
<1>4. CASE FailAppend
  <2>1. Len(event) \in Id /\ dur' = dur /\ acked' = acked /\ pc' = "idle"
    BY <1>c, <1>4 DEF FailAppend
  <2>2. \/ vis'.log = vis.log
        \/ pc = "write" /\ vis'.log \in PartlyWritten(vis.log, vis.chunk, Len(event))
    BY <1>0, <1>4, <2>1, PartlyIndexedType, SMTT(30) DEF FailAppend, FailedAt, Current, Disk
  <2>3. vis'.log # vis.log => ~Glues(vis.log, vis.chunk)
    BY <1>4 DEF FailAppend
  <2>4. Stable
    <3>1. \A i \in DOMAIN vis.log :
             vis.log[i].id # Torn => i \in DOMAIN vis'.log /\ vis'.log[i] = vis.log[i]
      BY <1>0, <2>1, <2>2, <2>3, PartlyWrittenKeeps
    <3> QED BY <2>1, <3>1 DEF Stable
  <2>5. Writable' => vis'.log = vis.log /\ Writable
    BY <1>4, <2>2 DEF FailAppend, Writable, TypeInv, PcInv
  <2>6. \A e \in acked' : Safe(e)'
    BY <1>s, <2>1, <2>4
  <2> QED BY <2>1, <2>5, <2>6 DEF LogInv
<1>5. CASE Close
  <2>1. vis'.log = vis.log /\ dur'.log = vis.log /\ acked' = acked
        /\ pc' = "idle" /\ status' = "closed"
    BY <1>0, <1>5 DEF Close, Forget, Disk
  <2>2. Stable
    BY <2>1 DEF Stable
  <2>3. \A e \in acked' : Safe(e)'
    BY <1>s, <2>1, <2>2
  <2> QED BY <2>1, <2>3 DEF LogInv, Writable
<1>6. CASE PowerLoss
  <2>1. acked' = acked /\ pc' = "idle" /\ status' = "closed" /\ dur' = vis'
    BY <1>6 DEF PowerLoss, Forget
  <2>2. PICK log \in LogsAfterPowerLoss : vis'.log = log
    BY <1>6 DEF PowerLoss
  <2>3. Stable
    BY <1>0, <2>1, <2>2, PowerLossKeeps DEF Stable
  <2>5. \A e \in acked' : Safe(e)'
    BY <1>s, <2>1, <2>3
  <2> QED BY <2>1, <2>5 DEF LogInv, Writable
<1>7. CASE ReconcileChunks
  <2>1. dur' = dur /\ acked' = acked /\ pc' = pc /\ pc = "idle" /\ status = "reconcile"
    BY <1>7 DEF ReconcileChunks, TypeInv, PcInv
  <2>2. \/ vis'.log = vis.log /\ status' = "failed"
        \/ vis'.log = Truncated(vis.log) /\ ~Corrupt(vis.log)
    BY <1>0, <1>7 DEF ReconcileChunks, Disk
  <2>3. Stable
    BY <1>0, <2>1, <2>2, TruncatedKeeps DEF Stable
  <2>5. Writable' => Parses(vis'.log)
    BY <1>0, <2>1, <2>2, TruncatedKeeps DEF LogInv, Writable
  <2>6. \A e \in acked' : Safe(e)'
    BY <1>s, <2>1, <2>3
  <2> QED BY <2>1, <2>5, <2>6 DEF LogInv
<1> QED BY <1>1, <1>2, <1>3, <1>4, <1>5, <1>6, <1>7

LEMMA StutterLogInv == LogInv /\ UNCHANGED vars => LogInv'
  BY DEF LogInv, Safe, Parses, Writable, vars

LEMMA InitLogInv == Init => LogInv
<1> SUFFICES ASSUME Init PROVE LogInv
  OBVIOUS
<1>1. DOMAIN vis.log = 1..Preloaded /\ dur.log = vis.log
  BY DEF Init
<1>2. \A i \in 1..Preloaded : vis.log[i].id = i
  BY DEF Init
<1>3. \A e \in acked : Safe(e)
  BY <1>1, <1>2 DEF Safe, Init
<1> QED BY <1>3 DEF LogInv, Writable, Init

LEMMA SafeIsDurable == LogInv /\ TypeInv => AckedDurable
<1> SUFFICES ASSUME LogInv, TypeInv, NEW e \in acked PROVE e \in Ids(dur.log)
  BY DEF AckedDurable
<1>1. e \in Id /\ Safe(e)
  BY DEF LogInv, TypeInv, TypeOK
<1> QED BY <1>1 DEF Safe, Ids, Id, Torn

LEMMA AllSteps ==
    Next => \/ Quiet
            \/ RotateChunk \/ WriteLine \/ SyncLine \/ FailAppend
            \/ Close \/ PowerLoss \/ ReconcileChunks
  BY DEF Next, StepAppend, Open, Quiet

\* An event whose append returned without an error is in a chunk file on the
\* disk for good, until an append is glued to a line that lacks only its newline.
THEOREM AckedStaysDurable == Spec => []AckedDurable
<1> DEFINE I == TypeInv /\ LogInv
<1>1. Init => glued \/ I
  BY InitType, InitLogInv
<1>2. (glued \/ I) /\ [Next]_vars => (glued \/ I)'
  BY GluedStays, TypeInvStep, AllSteps, QuietLogInv, LoudLogInv, StutterLogInv
<1>3. glued \/ I => AckedDurable
  BY SafeIsDurable DEF AckedDurable
<1> QED BY <1>1, <1>2, <1>3, PTL DEF Spec

-----------------------------------------------------------------------------
(* Blobs *)

BlobInv ==
    /\ dur.blobs \subseteq vis.blobs
    /\ \A e \in acked : e <= Len(event)
    /\ BlobsDurable
    /\ pc = "syncblob" => Len(event) \in vis.blobs
    /\ pc \notin {"idle", "blob", "syncblob"} /\ event[Len(event)].big => Len(event) \in dur.blobs

LEMMA InitBlobInv == Init => BlobInv
<1> SUFFICES ASSUME Init PROVE BlobInv
  OBVIOUS
<1>1. Len(event) = Preloaded /\ acked = 1..Preloaded
  <2>1. DOMAIN event = 1..Preloaded /\ Preloaded \in Nat /\ acked = 1..Preloaded
    BY TimelineAssumption DEF Init
  <2>2. event \in Seq(Event)
    BY InitType DEF TypeInv, TypeOK
  <2> QED BY <2>1, <2>2
<1>2. \A e \in acked : event[e].big = FALSE
  BY DEF Init
<1>3. dur.blobs = vis.blobs /\ pc = "idle"
  BY DEF Init
<1>4. \A e \in acked : e <= Len(event)
  BY <1>1
<1> QED BY <1>2, <1>3, <1>4 DEF BlobInv, BlobsDurable

\* These steps neither write a blob nor start an append.
BlobQuiet == (StepAppend /\ ~WriteBlob /\ ~SyncBlob) \/ FailAppend \/ Close \/ Kill \/ Open

LEMMA BlobQuietFiles ==
    TypeInv /\ BlobQuiet => vis'.blobs = vis.blobs /\ dur'.blobs = dur.blobs /\ event' = event
<1> SUFFICES ASSUME TypeInv, BlobQuiet
             PROVE  vis'.blobs = vis.blobs /\ dur'.blobs = dur.blobs /\ event' = event
  OBVIOUS
<1>0. vis \in Disk /\ dur \in Disk
  BY DEF TypeInv, TypeOK
<1>c. pc # "idle" => Current \in Id
  BY DEF TypeInv, TypeOK, PcInv, Id, Current
<1>1. CASE StepAppend /\ ~WriteBlob /\ ~SyncBlob
  <2>1. CASE AppendIndex
    BY <1>0, <1>c, <2>1, IndexedType DEF AppendIndex, Disk
  <2>2. CASE RotateChunk \/ WriteLine \/ SyncLine \/ PrepareHead \/ RenameHead \/ FinishAppend
    BY <1>0, <2>2 DEF RotateChunk, files, WriteLine, SyncLine, PrepareHead, RenameHead,
                      FinishAppend, Disk
  <2> QED BY <1>1, <2>1, <2>2 DEF StepAppend
<1>2. CASE FailAppend
  <2>1. \A x \in PartlyIndexed(vis, Current) : pc # "idle" => x.blobs = vis.blobs
    BY <1>0, <1>c, PartlyIndexedType
  <2> QED BY <1>0, <1>2, <2>1 DEF FailAppend, FailedAt, Disk
<1>3. CASE Close \/ Kill
  BY <1>0, <1>3 DEF Close, Kill, Disk
<1>4. CASE LoadIndex \/ ReconcileChunks \/ LoadHead
  BY <1>0, <1>4 DEF LoadIndex, ReconcileChunks, LoadHead, Disk
<1>5. CASE ReindexOne
  <2>1. PICK e \in missing : vis' = Indexed(vis, e)
    BY <1>5 DEF ReindexOne
  <2>2. e \in Id
    BY DEF TypeInv, TypeOK
  <2> QED BY <1>0, <1>5, <2>1, <2>2, IndexedType DEF ReindexOne, Disk
<1>6. CASE RecoverHead
  <2>1. RootEvent \notin index
    BY DEF TypeInv, TypeOK, Id, RootEvent
  <2>2. \/ vis' = vis
        \/ vis' = [vis EXCEPT !.head = vis.tmp, !.tmp = RootEvent]
        \/ vis' = [vis EXCEPT !.tmp = RootEvent]
    BY <1>6, <2>1 DEF RecoverHead
  <2>3. dur' = dur \/ dur' = [dur EXCEPT !.head = vis'.head, !.tmp = RootEvent]
    BY <1>6 DEF RecoverHead
  <2> QED BY <1>0, <1>6, <2>2, <2>3 DEF RecoverHead, Disk
<1> QED BY <1>1, <1>2, <1>3, <1>4, <1>5, <1>6 DEF BlobQuiet, Open

LEMMA BlobQuietInv == TypeInv /\ BlobInv /\ BlobQuiet => BlobInv'
<1> SUFFICES ASSUME TypeInv, BlobInv, BlobQuiet PROVE BlobInv'
  OBVIOUS
<1>1. vis'.blobs = vis.blobs /\ dur'.blobs = dur.blobs /\ event' = event
  BY BlobQuietFiles
<1>2. acked' = acked \/ (acked' = acked \cup {Len(event)} /\ pc = "syncdir")
  BY DEF BlobQuiet, StepAppend, RotateChunk, WriteLine, SyncLine, PrepareHead, AppendIndex,
         RenameHead, FinishAppend, FailAppend, Close, Kill, Open, LoadIndex, ReconcileChunks,
         ReindexOne, RecoverHead, LoadHead, Current
<1>3. pc' # "syncblob"
      /\ (pc' \notin {"idle", "blob", "syncblob"} => pc \notin {"idle", "blob", "syncblob"})
  BY DEF BlobQuiet, StepAppend, RotateChunk, WriteLine, SyncLine, PrepareHead, AppendIndex,
         RenameHead, FinishAppend, FailAppend, Close, Kill, Forget, Open, LoadIndex,
         ReconcileChunks, ReindexOne, RecoverHead, LoadHead, TypeInv, PcInv
<1>4. Len(event) <= Len(event)
  BY DEF TypeInv, TypeOK
<1>5. \A e \in acked' : e <= Len(event) /\ (event[e].big => e \in dur.blobs)
  BY <1>2, <1>4 DEF BlobInv, BlobsDurable
<1> QED BY <1>1, <1>3, <1>5 DEF BlobInv, BlobsDurable

LEMMA BlobLoudInv ==
    TypeInv /\ BlobInv /\ (StartAppend \/ WriteBlob \/ SyncBlob \/ PowerLoss) => BlobInv'
<1> SUFFICES ASSUME TypeInv, BlobInv, StartAppend \/ WriteBlob \/ SyncBlob \/ PowerLoss
             PROVE  BlobInv'
  OBVIOUS
<1>0. vis \in Disk /\ dur \in Disk /\ event \in Seq(Event) /\ Len(event) \in Nat
  BY DEF TypeInv, TypeOK
<1>1. CASE StartAppend
  <2>1. PICK p, br, k, g : Submit(p, br, k, g)
    BY <1>1 DEF StartAppend, AppendToHead, BranchFromEventID
  <2> DEFINE x == [parent |-> p, branch |-> br, kind |-> k, big |-> g]
  <2>2. /\ event' = Append(event, x)
        /\ pc' = (IF g THEN "blob" ELSE "rotate")
        /\ vis' = vis /\ dur' = dur /\ acked' = acked
    BY <2>1 DEF Submit
  <2>3. x.big = g
    OBVIOUS
  <2> HIDE DEF x
  <2>4. Len(event') = Len(event) + 1 /\ event'[Len(event) + 1] = x
        /\ \A e \in 1..Len(event) : event'[e] = event[e]
    BY <1>0, <2>2
  <2>5. \A e \in acked : e \in 1..Len(event)
    <3>1. \A e \in acked : e \in Id /\ e <= Len(event)
      BY DEF BlobInv, TypeInv, TypeOK
    <3> QED BY <1>0, <3>1 DEF Id
  <2>6. \A e \in acked' : e <= Len(event')
    BY <1>0, <2>2, <2>4, <2>5
  <2>7. BlobsDurable'
    BY <2>2, <2>4, <2>5 DEF BlobInv, BlobsDurable
  <2> QED BY <2>2, <2>3, <2>4, <2>6, <2>7 DEF BlobInv
<1>2. CASE WriteBlob
  <2>1. vis'.blobs = vis.blobs \cup {Len(event)} /\ dur' = dur /\ event' = event
        /\ acked' = acked /\ pc' = "syncblob"
    BY <1>0, <1>2 DEF WriteBlob, Current, Disk
  <2> QED BY <2>1 DEF BlobInv, BlobsDurable
<1>3. CASE SyncBlob
  <2>1. vis' = vis /\ dur'.blobs = vis.blobs /\ event' = event /\ acked' = acked
        /\ pc = "syncblob" /\ pc' = "rotate"
    BY <1>0, <1>3 DEF SyncBlob, Disk
  <2> QED BY <2>1 DEF BlobInv, BlobsDurable
<1>4. CASE PowerLoss
  <2>1. PICK b \in {dur.blobs, vis.blobs} : vis'.blobs = b
    BY <1>4 DEF PowerLoss
  <2>2. dur' = vis' /\ event' = event /\ acked' = acked /\ pc' = "idle"
    BY <1>4 DEF PowerLoss, Forget
  <2> QED BY <2>1, <2>2 DEF BlobInv, BlobsDurable
<1> QED BY <1>1, <1>2, <1>3, <1>4

LEMMA StutterBlobInv == BlobInv /\ UNCHANGED vars => BlobInv'
  BY DEF BlobInv, BlobsDurable, vars

\* The blob of an acknowledged event is on the disk for good: the blob and its
\* directory are synced before the line that names the blob is written.
THEOREM BlobsStayDurable == Spec => []BlobsDurable
<1>1. Init => TypeInv /\ BlobInv
  BY InitType, InitBlobInv
<1>2. Next => StartAppend \/ WriteBlob \/ SyncBlob \/ PowerLoss \/ BlobQuiet
  BY DEF Next, BlobQuiet, StepAppend
<1>3. TypeInv /\ BlobInv /\ [Next]_vars => (TypeInv /\ BlobInv)'
  BY <1>2, TypeInvStep, BlobQuietInv, BlobLoudInv, StutterBlobInv
<1>4. BlobInv => BlobsDurable
  BY DEF BlobInv
<1> QED BY <1>1, <1>3, <1>4, PTL DEF Spec

-----------------------------------------------------------------------------
(* HEAD: a HEAD or HEAD.tmp that parses, in the page cache or on the disk,  *)
(* never names an event older than the newest one acknowledged, so it does  *)
(* not matter which of them a crash leaves and which of them the reopening  *)
(* picks; and the index it rebuilds covers every complete line.             *)

\* No acknowledged event is newer than n.
Reaches(n) == \A e \in acked : e <= n

HeadInv ==
    /\ Reaches(Len(event))
    /\ Reaches(vis.head) /\ Reaches(dur.head)
    /\ vis.tmp > 0 => Reaches(vis.tmp)
    /\ dur.tmp > 0 => Reaches(dur.tmp)
    /\ pc = "syncdir" => vis.head = Len(event) /\ vis.tmp = RootEvent
    /\ status = "open" => Reaches(head)

\* From the reconciliation on the writer knows every acknowledged event.
IndexInv == status \in {"reindex", "loadhead", "open"} => acked \subseteq index

-----------------------------------------------------------------------------
(* The steps of HEAD *)

LEMMA InitHeadInv == Init => HeadInv
<1> SUFFICES ASSUME Init PROVE HeadInv
  OBVIOUS
<1>1. Len(event) = Preloaded /\ acked = 1..Preloaded /\ Preloaded \in Nat
  BY TimelineAssumption DEF Init
<1>2. /\ vis.head = Preloaded /\ dur.head = Preloaded
      /\ vis.tmp = 0 /\ dur.tmp = 0
  BY DEF Init, RootEvent
<1> QED BY <1>1, <1>2 DEF HeadInv, Reaches, Init

HeadQuiet == StartAppend \/ WriteBlob \/ SyncBlob \/ RotateChunk \/ WriteLine \/ SyncLine
             \/ AppendIndex \/ Close \/ LoadIndex \/ ReconcileChunks \/ ReindexOne \/ LoadHead

\* These steps leave HEAD and HEAD.tmp alone.
LEMMA HeadQuietFiles ==
    TypeInv /\ HeadQuiet => /\ vis'.head = vis.head /\ vis'.tmp = vis.tmp
                            /\ dur'.head = dur.head /\ dur'.tmp = dur.tmp
<1> SUFFICES ASSUME TypeInv, HeadQuiet
             PROVE  /\ vis'.head = vis.head /\ vis'.tmp = vis.tmp
                    /\ dur'.head = dur.head /\ dur'.tmp = dur.tmp
  OBVIOUS
<1>0. vis \in Disk /\ dur \in Disk
  BY DEF TypeInv, TypeOK
<1>1. CASE StartAppend
  BY <1>1 DEF StartAppend, AppendToHead, BranchFromEventID, Submit
<1>2. CASE WriteBlob \/ SyncBlob \/ WriteLine \/ SyncLine
  BY <1>0, <1>2 DEF WriteBlob, SyncBlob, WriteLine, SyncLine, Disk
<1>3. CASE RotateChunk
  BY <1>0, <1>3 DEF RotateChunk, files, Disk
<1>4. CASE AppendIndex
  <2>1. Len(event) \in Id
    BY <1>4 DEF AppendIndex, TypeInv, TypeOK, PcInv, Id
  <2> QED BY <1>0, <1>4, <2>1, IndexedType DEF AppendIndex, Current, Disk
<1>5. CASE Close \/ LoadIndex \/ LoadHead
  BY <1>0, <1>5 DEF Close, LoadIndex, LoadHead, Disk
<1>6. CASE ReconcileChunks
  BY <1>0, <1>6 DEF ReconcileChunks, Disk
<1>7. CASE ReindexOne
  <2>1. PICK e \in missing : vis' = Indexed(vis, e)
    BY <1>7 DEF ReindexOne
  <2>2. e \in Id
    BY DEF TypeInv, TypeOK
  <2> QED BY <1>0, <1>7, <2>1, <2>2, IndexedType DEF ReindexOne, Disk
<1> QED BY <1>1, <1>2, <1>3, <1>4, <1>5, <1>6, <1>7 DEF HeadQuiet

LEMMA HeadQuietInv == TypeInv /\ HeadInv /\ HeadQuiet => HeadInv'
<1> SUFFICES ASSUME TypeInv, HeadInv, HeadQuiet PROVE HeadInv'
  OBVIOUS
<1>1. /\ vis'.head = vis.head /\ vis'.tmp = vis.tmp
      /\ dur'.head = dur.head /\ dur'.tmp = dur.tmp
  BY HeadQuietFiles
<1>2. acked' = acked
  BY DEF HeadQuiet, StartAppend, AppendToHead, BranchFromEventID, Submit, WriteBlob, SyncBlob,
         RotateChunk, WriteLine, SyncLine, AppendIndex, Close, LoadIndex, ReconcileChunks,
         ReindexOne, LoadHead
<1>3. Len(event') \in Nat /\ Len(event) \in Nat /\ Len(event') >= Len(event)
  <2>1. event' = event \/ \E x : event' = Append(event, x)
    BY DEF HeadQuiet, StartAppend, AppendToHead, BranchFromEventID, Submit, WriteBlob, SyncBlob,
           RotateChunk, WriteLine, SyncLine, AppendIndex, Close, LoadIndex, ReconcileChunks,
           ReindexOne, LoadHead
  <2>2. event \in Seq(Event)
    BY DEF TypeInv, TypeOK
  <2> QED BY <2>1, <2>2
<1>4. pc' # "syncdir"
  BY DEF HeadQuiet, StartAppend, AppendToHead, BranchFromEventID, Submit, WriteBlob, SyncBlob,
         RotateChunk, WriteLine, SyncLine, AppendIndex, Close, Forget, LoadIndex,
         ReconcileChunks, ReindexOne, LoadHead, TypeInv, PcInv
<1>5. status' = "open" => (status = "open" /\ head' = head) \/ head' = vis.head
  BY DEF HeadQuiet, StartAppend, AppendToHead, BranchFromEventID, Submit, WriteBlob, SyncBlob,
         RotateChunk, WriteLine, SyncLine, AppendIndex, Close, Forget, LoadIndex,
         ReconcileChunks, ReindexOne, LoadHead, memory
<1>6. Reaches(Len(event))'
  <2>1. \A e \in acked : e <= Len(event) /\ e \in Nat
    BY DEF HeadInv, Reaches, TypeInv, TypeOK, Id
  <2> QED BY <1>2, <1>3, <2>1 DEF Reaches
<1>7. status' = "open" => Reaches(head)'
  BY <1>2, <1>5 DEF HeadInv, Reaches
<1> QED BY <1>1, <1>2, <1>4, <1>6, <1>7 DEF HeadInv, Reaches

\* The append moves HEAD: through HEAD.tmp, a rename and a directory sync.
LEMMA HeadStepInv ==
    TypeInv /\ HeadInv /\ (PrepareHead \/ RenameHead \/ FinishAppend) => HeadInv'
<1> SUFFICES ASSUME TypeInv, HeadInv, PrepareHead \/ RenameHead \/ FinishAppend PROVE HeadInv'
  OBVIOUS
<1>0. vis \in Disk /\ dur \in Disk
  BY DEF TypeInv, TypeOK
<1>1. CASE PrepareHead
  <2>1. /\ vis'.head = vis.head /\ vis'.tmp = Len(event) /\ dur' = dur
        /\ acked' = acked /\ event' = event /\ pc' = "index" /\ head' = head /\ status' = status
    BY <1>0, <1>1 DEF PrepareHead, Current, memory, Disk
  <2> QED BY <2>1 DEF HeadInv, Reaches
<1>2. CASE RenameHead
  <2>1. /\ vis'.head = Len(event) /\ vis'.tmp = RootEvent /\ dur' = dur
        /\ acked' = acked /\ event' = event /\ head' = head /\ status' = status
    BY <1>0, <1>2 DEF RenameHead, memory, Disk, TypeInv, PcInv
  <2> QED BY <2>1 DEF HeadInv, Reaches, RootEvent
<1>3. CASE FinishAppend
  <2>1. /\ vis' = vis /\ vis.head = Len(event) /\ vis.tmp = RootEvent
        /\ dur'.head = vis.head /\ dur'.tmp = vis.tmp
        /\ acked' = acked \cup {Len(event)} /\ event' = event
        /\ pc' = "idle" /\ head' = Len(event)
    BY <1>0, <1>3 DEF FinishAppend, Current, Disk, HeadInv
  <2>2. \A e \in acked' : e <= Len(event)
    <3>1. Len(event) \in Nat
      BY DEF TypeInv, TypeOK
    <3> QED BY <2>1, <3>1 DEF HeadInv, Reaches
  <2> QED BY <2>1, <2>2 DEF HeadInv, Reaches, RootEvent
<1> QED BY <1>1, <1>2, <1>3

LEMMA FailedAtHead ==
    ASSUME TypeInv, pc # "idle", NEW d \in FailedAt(pc)
    PROVE  d.head = vis.head /\ d.tmp \in {vis.tmp, Torn, Len(event)}
<1>0. vis \in Disk /\ Len(event) \in Id
  BY DEF TypeInv, TypeOK, PcInv, Id
<1>1. CASE pc = "write"
  BY <1>0, <1>1 DEF FailedAt, Disk
<1>2. CASE pc = "prepare"
  BY <1>0, <1>2 DEF FailedAt, Current, Disk
<1>3. CASE pc = "index"
  <2>1. d \in PartlyIndexed(vis, Len(event))
    BY <1>3 DEF FailedAt, Current
  <2> QED BY <1>0, <2>1, IndexedType, ZenonT(60) DEF PartlyIndexed, Disk
<1>4. CASE pc = "rotate"
  BY <1>0, <1>4 DEF FailedAt, Disk
<1>5. CASE pc \notin {"write", "prepare", "index", "rotate"}
  BY <1>5 DEF FailedAt
<1> QED BY <1>1, <1>2, <1>3, <1>4, <1>5

\* Faults leave one of the heads there were, and a reopening picks one.
LEMMA HeadFaultInv ==
    TypeInv /\ HeadInv /\ (FailAppend \/ Kill \/ PowerLoss \/ RecoverHead) => HeadInv'
<1> SUFFICES ASSUME TypeInv, HeadInv, FailAppend \/ Kill \/ PowerLoss \/ RecoverHead
             PROVE  HeadInv'
  OBVIOUS
<1>0. vis \in Disk /\ dur \in Disk
  BY DEF TypeInv, TypeOK
<1>1. CASE FailAppend
  <2>1. vis'.head = vis.head /\ vis'.tmp \in {vis.tmp, Torn, Len(event)}
    BY <1>1, FailedAtHead DEF FailAppend
  <2> QED BY <1>1, <2>1 DEF FailAppend, HeadInv, Reaches, Torn
<1>2. CASE Kill
  <2>1. vis'.head = vis.head /\ vis'.tmp \in {vis.tmp, Torn}
    BY <1>0, <1>2 DEF Kill, Disk
  <2> QED BY <1>2, <2>1 DEF Kill, Forget, HeadInv, Reaches, Torn
<1>3. CASE PowerLoss
  <2>1. PICK h \in HeadsAfterPowerLoss : vis'.head = h.head /\ vis'.tmp = h.tmp
    BY <1>3 DEF PowerLoss
  <2>2. /\ vis'.head \in {dur.head, vis.head}
        /\ vis'.tmp \in {dur.tmp, vis.tmp, vis.head, Torn}
    BY <2>1 DEF HeadsAfterPowerLoss
  <2>3. /\ dur' = vis' /\ acked' = acked /\ event' = event
        /\ status' = "closed" /\ pc' = "idle"
    BY <1>3 DEF PowerLoss, Forget
  <2>4. vis'.tmp > 0 => Reaches(vis'.tmp)
    BY <2>2 DEF HeadInv, Torn
  <2> QED BY <2>2, <2>3, <2>4 DEF HeadInv, Reaches
<1>4. CASE RecoverHead
  <2>1. /\ acked' = acked /\ event' = event /\ pc' = "idle" /\ status' = "loadhead"
    BY <1>4 DEF RecoverHead, TypeInv, PcInv
  <2>2. CASE vis.tmp = RootEvent
    <3>1. vis' = vis /\ dur' = dur
      <4>1. vis.tmp \notin index
        BY <2>2 DEF TypeInv, TypeOK, Id, RootEvent
      <4> QED BY <1>4, <2>2, <4>1 DEF RecoverHead
    <3> QED BY <2>1, <3>1 DEF HeadInv, Reaches
  <2>3. CASE vis.tmp # RootEvent /\ vis.tmp \in index
    <3>1. vis' = [vis EXCEPT !.head = vis.tmp, !.tmp = RootEvent]
      BY <1>4, <2>3 DEF RecoverHead
    <3>2. dur' = [dur EXCEPT !.head = vis'.head, !.tmp = RootEvent]
      BY <1>4, <2>3 DEF RecoverHead
    <3>3. /\ vis'.head = vis.tmp /\ vis'.tmp = RootEvent
          /\ dur'.head = vis.tmp /\ dur'.tmp = RootEvent
      BY <1>0, <3>1, <3>2 DEF Disk
    <3>4. vis.tmp > 0
      <4>1. vis.tmp \in Id /\ vis.tmp \in Int
        BY <1>0, <2>3, DiskParts DEF TypeInv, TypeOK
      <4>2. \A n \in Id : n > 0
        BY DEF Id
      <4> QED BY <4>1, <4>2
    <3> QED BY <2>1, <3>3, <3>4 DEF HeadInv, Reaches, RootEvent
  <2>4. CASE vis.tmp # RootEvent /\ vis.tmp \notin index
    <3>1. vis' = [vis EXCEPT !.tmp = RootEvent]
      BY <1>4, <2>4 DEF RecoverHead
    <3>2. dur' = [dur EXCEPT !.head = vis'.head, !.tmp = RootEvent]
      BY <1>4, <2>4 DEF RecoverHead
    <3>3. /\ vis'.head = vis.head /\ vis'.tmp = RootEvent
          /\ dur'.head = vis.head /\ dur'.tmp = RootEvent
      BY <1>0, <3>1, <3>2 DEF Disk
    <3> QED BY <2>1, <3>3 DEF HeadInv, Reaches, RootEvent
  <2> QED BY <2>2, <2>3, <2>4
<1> QED BY <1>1, <1>2, <1>3, <1>4

LEMMA HeadInvStep == TypeInv /\ HeadInv /\ [Next]_vars => HeadInv'
<1>1. Next => HeadQuiet \/ (PrepareHead \/ RenameHead \/ FinishAppend)
              \/ (FailAppend \/ Kill \/ PowerLoss \/ RecoverHead)
  BY DEF Next, StepAppend, Open, HeadQuiet
<1>2. HeadInv /\ UNCHANGED vars => HeadInv'
  BY DEF HeadInv, Reaches, vars
<1> QED BY <1>1, <1>2, HeadQuietInv, HeadStepInv, HeadFaultInv

-----------------------------------------------------------------------------
(* The index *)

LEMMA InitIndexInv == Init => IndexInv
  BY DEF Init, IndexInv

LEMMA IndexInvStep ==
    TypeInv /\ LogInv /\ IndexInv /\ [Next]_vars => IndexInv'
<1> SUFFICES ASSUME TypeInv, LogInv, IndexInv, [Next]_vars PROVE IndexInv'
  OBVIOUS
<1>1. CASE FinishAppend
  BY <1>1 DEF FinishAppend, IndexInv, TypeInv, PcInv
<1>2. CASE ReconcileChunks
  <2>1. acked' = acked
    BY <1>2 DEF ReconcileChunks
  <2>2. acked \subseteq Ids(vis.log)
    <3>1. \A e \in acked : e # Torn /\ Safe(e)
      BY DEF LogInv, TypeInv, TypeOK, Id, Torn
    <3> QED BY <3>1 DEF Safe, Ids
  <2>3. status' = "failed" \/ index' = index \cup Ids(vis.log)
    BY <1>2 DEF ReconcileChunks
  <2> QED BY <2>1, <2>2, <2>3 DEF IndexInv
<1>3. CASE Close \/ Kill \/ PowerLoss \/ LoadIndex
  BY <1>3 DEF Close, Kill, PowerLoss, Forget, LoadIndex, IndexInv
<1>4. CASE StartAppend \/ FailAppend
  BY <1>4 DEF StartAppend, AppendToHead, BranchFromEventID, Submit, FailAppend, memory, IndexInv
<1>5. CASE WriteBlob \/ SyncBlob \/ RotateChunk \/ WriteLine \/ SyncLine
           \/ PrepareHead \/ AppendIndex \/ RenameHead
  BY <1>5 DEF WriteBlob, SyncBlob, RotateChunk, WriteLine, SyncLine, PrepareHead, AppendIndex,
              RenameHead, memory, IndexInv
<1>6. CASE ReindexOne \/ RecoverHead \/ LoadHead
  BY <1>6 DEF ReindexOne, RecoverHead, LoadHead, memory, IndexInv
<1>7. CASE UNCHANGED vars
  BY <1>7 DEF vars, IndexInv
<1> QED BY <1>1, <1>2, <1>3, <1>4, <1>5, <1>6, <1>7 DEF Next, StepAppend, Open

-----------------------------------------------------------------------------

\* A timeline that can be read knows every acknowledged event and its HEAD is
\* not older than any of them, whatever faults came before (NewTimeline,
\* recoverHead, loadHead), until an append is glued to a line that lacks only
\* its newline.
THEOREM HeadStaysAhead == Spec => []HeadNotBehind
<1> DEFINE I == TypeInv /\ LogInv /\ HeadInv /\ IndexInv
<1>1. Init => glued \/ I
  BY InitType, InitLogInv, InitHeadInv, InitIndexInv
<1>2. (glued \/ I) /\ [Next]_vars => (glued \/ I)'
  BY GluedStays, TypeInvStep, AllSteps, QuietLogInv, LoudLogInv, StutterLogInv, HeadInvStep,
     IndexInvStep
<1>3. glued \/ I => HeadNotBehind
  BY DEF HeadInv, IndexInv, HeadNotBehind, Readers, Reaches
<1> QED BY <1>1, <1>2, <1>3, PTL DEF Spec

\* So nothing acknowledged is lost, on the disk or to a reader, with the same
\* exception (appendFromParentLocked, NewTimeline).
THEOREM AckedIsKept == Spec => []AckedKept
<1>1. Spec => []AckedDurable /\ []HeadNotBehind BY AckedStaysDurable, HeadStaysAhead
<1>2. AckedDurable /\ HeadNotBehind => AckedKept BY DEF AckedKept
<1> QED BY <1>1, <1>2, PTL

-----------------------------------------------------------------------------
(* Refinement. A session timeline implements the abstract event log until  *)
(* an append is glued to a line that lacks only its newline. The argument:  *)
(* a line on the disk that parses is in the page cache too and stays, so no *)
(* step loses an event; and a HEAD or HEAD.tmp that parses, wherever it is, *)
(* is the HEAD on the disk or names a newer event whose line is on the      *)
(* disk, so whichever of them the disk gets next, its HEAD only moves       *)
(* forward.                                                                 *)
(*                                                                          *)
(* With the same exception one fault costs at most the append it hits: what *)
(* the index, the memory and HEAD name then still has a line that parses,   *)
(* so the directory opens again and every event it knows can be read.       *)

\* Every line that parses and is on the disk is in the page cache.
Contained ==
    \A i \in DOMAIN dur.log :
        dur.log[i].id # Torn => i \in DOMAIN vis.log /\ vis.log[i] = dur.log[i]

\* h is the event old, or a newer one whose line is on the disk.
Newer(h, old) == h = old \/ (h > old /\ h \in Ids(dur.log))

ForwardInv ==
    /\ Newer(vis.head, dur.head)
    /\ vis.tmp > 0 => Newer(vis.tmp, vis.head)
    /\ dur.tmp > 0 => vis.tmp = dur.tmp
    /\ status \in {"loadhead", "open"} => dur.tmp <= 0
    /\ vis.head <= Len(event) /\ vis.tmp <= Len(event)
    /\ pc \notin {"idle", "syncdir"} => vis.head < Len(event)

-----------------------------------------------------------------------------
(* The lines *)

\* No step touches a line that is safe, and the chunk files on the
\* disk change only by becoming what the page cache holds.
LEMMA LogSteps ==
    ~glued' /\ TypeInv /\ LogInv /\ [Next]_vars
      => Stable /\ (dur'.log = dur.log \/ dur'.log = vis'.log)
<1> SUFFICES ASSUME ~glued', TypeInv, LogInv, [Next]_vars
             PROVE  Stable /\ (dur'.log = dur.log \/ dur'.log = vis'.log)
  OBVIOUS
<1>0. /\ vis \in Disk /\ dur \in Disk
      /\ vis.log \in Seq(Line) /\ dur.log \in Seq(Line) /\ vis.chunk \in Nat
  BY DiskParts DEF TypeInv, TypeOK
<1>c. pc # "idle" => Len(event) \in Id
  BY DEF TypeInv, TypeOK, PcInv, Id
<1>1. CASE vis'.log = vis.log /\ (dur'.log = dur.log \/ dur'.log = vis.log)
  BY <1>1 DEF Stable
<1>2. CASE Quiet
  BY <1>1, <1>2, QuietLogs
<1>3. CASE RotateChunk
  <2>1. vis'.log = vis.log /\ (dur'.log = dur.log \/ dur'.log = vis.log)
    BY <1>0, <1>3 DEF RotateChunk, files, Disk
  <2> QED BY <1>1, <2>1
<1>4. CASE SyncLine \/ Close
  <2>1. vis'.log = vis.log /\ dur'.log = vis.log
    BY <1>0, <1>4 DEF SyncLine, Close, Disk
  <2> QED BY <1>1, <2>1
<1>5. CASE WriteLine
  <2>1. vis'.log = Written(vis.log, vis.chunk, Len(event), TRUE) /\ dur'.log = dur.log
    BY <1>0, <1>5 DEF WriteLine, Current, Disk
  <2>2. Len(event) \in Id
    BY <1>c, <1>5 DEF WriteLine
  <2> DEFINE w == Written(vis.log, vis.chunk, Len(event), TRUE)
  <2>3. ~Glues(vis.log, vis.chunk)
    BY <1>5 DEF WriteLine
  <2>4. TRUE \in BOOLEAN /\ Len(event) \in Id \cup {Torn}
    BY <2>2
  <2>5. \A i \in DOMAIN vis.log : vis.log[i].id # Torn => i \in DOMAIN w /\ w[i] = vis.log[i]
    BY <1>0, <2>3, <2>4, WrittenKeeps, ZenonT(60)
  <2> QED BY <2>1, <2>5 DEF Stable
<1>6. CASE FailAppend
  <2>1. Len(event) \in Id /\ dur' = dur
    BY <1>c, <1>6 DEF FailAppend
  <2>2. \/ vis'.log = vis.log
        \/ pc = "write" /\ vis'.log \in PartlyWritten(vis.log, vis.chunk, Len(event))
    BY <1>0, <1>6, <2>1, PartlyIndexedType, SMTT(60) DEF FailAppend, FailedAt, Current, Disk
  <2>3. vis'.log # vis.log => ~Glues(vis.log, vis.chunk)
    BY <1>6 DEF FailAppend
  <2>4. \A i \in DOMAIN vis.log :
           vis.log[i].id # Torn => i \in DOMAIN vis'.log /\ vis'.log[i] = vis.log[i]
    BY <1>0, <2>1, <2>2, <2>3, PartlyWrittenKeeps
  <2> QED BY <2>1, <2>4 DEF Stable
<1>7. CASE PowerLoss
  <2>1. dur' = vis'
    BY <1>7 DEF PowerLoss
  <2>2. PICK log \in LogsAfterPowerLoss : vis'.log = log
    BY <1>7 DEF PowerLoss
  <2> QED BY <1>0, <2>1, <2>2, PowerLossKeeps DEF Stable
<1>8. CASE ReconcileChunks
  <2>1. dur' = dur
    BY <1>8 DEF ReconcileChunks
  <2>2. vis'.log = vis.log \/ vis'.log = Truncated(vis.log)
    BY <1>0, <1>8 DEF ReconcileChunks, Disk
  <2> QED BY <1>0, <2>1, <2>2, TruncatedKeeps DEF Stable
<1>9. CASE UNCHANGED vars
  BY <1>1, <1>9 DEF vars
<1> QED BY <1>2, <1>3, <1>4, <1>5, <1>6, <1>7, <1>8, <1>9, AllSteps

LEMMA ContainedStep ==
    ~glued' /\ TypeInv /\ LogInv /\ Contained /\ [Next]_vars => Contained'
<1> SUFFICES ASSUME ~glued', TypeInv, LogInv, Contained, [Next]_vars
             PROVE  Contained'
  OBVIOUS
<1>1. Stable /\ (dur'.log = dur.log \/ dur'.log = vis'.log)
  BY LogSteps
<1>2. CASE dur'.log = vis'.log
  BY <1>2 DEF Contained
<1>3. CASE dur'.log = dur.log
  <2> SUFFICES ASSUME NEW i \in DOMAIN dur.log, dur.log[i].id # Torn
               PROVE  i \in DOMAIN vis'.log /\ vis'.log[i] = dur.log[i]
    BY <1>3 DEF Contained
  <2>1. i \in DOMAIN vis.log /\ vis.log[i] = dur.log[i]
    BY DEF Contained
  <2> QED BY <1>1, <2>1 DEF Stable
<1> QED BY <1>1, <1>2, <1>3

\* No step loses an event.
LEMMA EventsStay ==
    ~glued' /\ TypeInv /\ LogInv /\ Contained /\ [Next]_vars
      => Ids(dur.log) \subseteq Ids(dur'.log)
<1> SUFFICES ASSUME ~glued', TypeInv, LogInv, Contained, [Next]_vars,
                    NEW e \in Ids(dur.log)
             PROVE  e \in Ids(dur'.log)
  OBVIOUS
<1>1. PICK i \in DOMAIN dur.log : dur.log[i].id = e /\ e # Torn
  BY DEF Ids
<1>2. i \in DOMAIN vis.log /\ vis.log[i] = dur.log[i]
  BY <1>1 DEF Contained
<1>3. i \in DOMAIN dur'.log /\ dur'.log[i] = vis.log[i]
  BY <1>1, <1>2, LogSteps DEF Stable
<1> QED BY <1>1, <1>2, <1>3 DEF Ids

-----------------------------------------------------------------------------
(* HEAD *)

\* What moves no file's HEAD leaves each of them where it may be.
LEMMA ForwardQuiet ==
    TypeInv /\ ForwardInv /\ HeadQuiet /\ Ids(dur.log) \subseteq Ids(dur'.log) => ForwardInv'
<1> SUFFICES ASSUME TypeInv, ForwardInv, HeadQuiet, Ids(dur.log) \subseteq Ids(dur'.log)
             PROVE  ForwardInv'
  OBVIOUS
<1>1. /\ vis'.head = vis.head /\ vis'.tmp = vis.tmp
      /\ dur'.head = dur.head /\ dur'.tmp = dur.tmp
  BY HeadQuietFiles
<1>2. vis.head \in Nat /\ vis.tmp \in Int /\ event \in Seq(Event) /\ Len(event) \in Nat
  BY DiskParts DEF TypeInv, TypeOK
<1>3. Len(event') \in Nat /\ Len(event') >= Len(event)
      /\ (StartAppend => Len(event') = Len(event) + 1)
  <2>1. CASE StartAppend
    <3>1. \E x : event' = Append(event, x)
      BY <2>1 DEF StartAppend, AppendToHead, BranchFromEventID, Submit
    <3> QED BY <1>2, <3>1
  <2>2. CASE ~StartAppend
    <3>1. event' = event
      BY <2>2 DEF HeadQuiet, WriteBlob, SyncBlob, RotateChunk, WriteLine, SyncLine, AppendIndex,
                  Close, LoadIndex, ReconcileChunks, ReindexOne, LoadHead
    <3> QED BY <1>2, <2>2, <3>1
  <2> QED BY <2>1, <2>2
<1>4. status' \in {"loadhead", "open"} => status \in {"loadhead", "open"}
  BY DEF HeadQuiet, StartAppend, AppendToHead, BranchFromEventID, Submit, WriteBlob, SyncBlob,
         RotateChunk, WriteLine, SyncLine, AppendIndex, Close, Forget, LoadIndex,
         ReconcileChunks, ReindexOne, LoadHead
<1>5. pc' \notin {"idle", "syncdir"} => StartAppend \/ pc \notin {"idle", "syncdir"}
  BY DEF HeadQuiet, WriteBlob, SyncBlob, RotateChunk, WriteLine, SyncLine, AppendIndex, Close,
         Forget, LoadIndex, ReconcileChunks, ReindexOne, LoadHead
<1>6. pc' \notin {"idle", "syncdir"} => vis.head < Len(event')
  BY <1>2, <1>3, <1>5 DEF ForwardInv
<1>7. vis.head <= Len(event') /\ vis.tmp <= Len(event')
  BY <1>2, <1>3 DEF ForwardInv
<1> QED BY <1>1, <1>4, <1>6, <1>7 DEF ForwardInv, Newer

\* The append prepares HEAD.tmp once its line is on the disk, and renames it.
LEMMA ForwardAppend ==
    TypeInv /\ LogInv /\ HeadInv /\ ForwardInv /\ Ids(dur.log) \subseteq Ids(dur'.log)
      /\ (PrepareHead \/ RenameHead \/ FinishAppend) => ForwardInv'
<1> SUFFICES ASSUME TypeInv, LogInv, HeadInv, ForwardInv, Ids(dur.log) \subseteq Ids(dur'.log),
                    PrepareHead \/ RenameHead \/ FinishAppend
             PROVE  ForwardInv'
  OBVIOUS
<1>0. /\ vis \in Disk /\ dur \in Disk /\ status = "open" /\ dur.tmp <= 0
      /\ vis.head \in Nat /\ dur.head \in Nat /\ vis.tmp \in Int /\ dur.tmp \in Int
      /\ Len(event) \in Id /\ Len(event) \in Nat
  BY DiskParts DEF TypeInv, TypeOK, PcInv, Id, PrepareHead, RenameHead, FinishAppend, ForwardInv
<1>1. Len(event) \in Ids(dur.log)
  <2>1. Safe(Len(event)) /\ Len(event) # Torn
    BY <1>0 DEF LogInv, PrepareHead, RenameHead, FinishAppend, Torn
  <2> QED BY <2>1 DEF Safe, Ids
<1>2. CASE PrepareHead
  <2>1. /\ vis'.head = vis.head /\ vis'.tmp = Len(event) /\ dur' = dur
        /\ event' = event /\ status' = status
    BY <1>0, <1>2 DEF PrepareHead, Current, Disk
  <2>2. vis.head < Len(event)
    BY <1>2 DEF PrepareHead, ForwardInv
  <2> QED BY <1>0, <1>1, <2>1, <2>2 DEF ForwardInv, Newer
<1>3. CASE RenameHead
  <2>1. /\ vis'.head = Len(event) /\ vis'.tmp = RootEvent /\ dur' = dur
        /\ event' = event /\ status' = status /\ pc' = "syncdir"
    BY <1>0, <1>3 DEF RenameHead, Disk, TypeInv, PcInv
  <2>2. dur.head < Len(event)
    BY <1>0, <1>3 DEF RenameHead, ForwardInv, Newer
  <2> QED BY <1>0, <1>1, <2>1, <2>2 DEF ForwardInv, Newer, RootEvent
<1>4. CASE FinishAppend
  <2>1. /\ vis' = vis /\ vis.head = Len(event) /\ vis.tmp = RootEvent
        /\ dur'.head = vis.head /\ dur'.tmp = vis.tmp
        /\ event' = event /\ status' = status /\ pc' = "idle"
    BY <1>0, <1>4 DEF FinishAppend, Disk, HeadInv
  <2> QED BY <1>0, <2>1 DEF ForwardInv, Newer, RootEvent
<1> QED BY <1>2, <1>3, <1>4

\* Only the failure to prepare HEAD.tmp changes it.
LEMMA FailedAtTmp ==
    ASSUME TypeInv, pc # "idle", NEW d \in FailedAt(pc)
    PROVE  d.tmp = vis.tmp \/ (pc = "prepare" /\ d.tmp \in {Torn, Len(event)})
<1>0. vis \in Disk /\ Len(event) \in Id
  BY DEF TypeInv, TypeOK, PcInv, Id
<1>1. CASE pc = "write"
  BY <1>0, <1>1 DEF FailedAt, Disk
<1>2. CASE pc = "prepare"
  BY <1>0, <1>2 DEF FailedAt, Current, Disk
<1>3. CASE pc = "index"
  <2>1. d \in PartlyIndexed(vis, Len(event))
    BY <1>3 DEF FailedAt, Current
  <2> QED BY <1>0, <2>1, IndexedType, ZenonT(30) DEF PartlyIndexed, Disk
<1>4. CASE pc = "rotate"
  BY <1>0, <1>4 DEF FailedAt, Disk
<1>5. CASE pc \notin {"write", "prepare", "index", "rotate"}
  BY <1>5 DEF FailedAt
<1> QED BY <1>1, <1>2, <1>3, <1>4, <1>5

\* Faults leave one of the heads there were, and a reopening picks one.
LEMMA ForwardFaults ==
    TypeInv /\ LogInv /\ ForwardInv /\ Ids(dur.log) \subseteq Ids(dur'.log)
      /\ (FailAppend \/ Kill \/ PowerLoss \/ RecoverHead) => ForwardInv'
<1> SUFFICES ASSUME TypeInv, LogInv, ForwardInv, Ids(dur.log) \subseteq Ids(dur'.log),
                    FailAppend \/ Kill \/ PowerLoss \/ RecoverHead
             PROVE  ForwardInv'
  OBVIOUS
<1>0. /\ vis \in Disk /\ dur \in Disk
      /\ vis.head \in Nat /\ dur.head \in Nat /\ vis.tmp \in Int /\ dur.tmp \in Int
      /\ Len(event) \in Nat
  BY DiskParts DEF TypeInv, TypeOK
<1>1. CASE FailAppend
  <2>1. /\ vis'.head = vis.head /\ dur' = dur /\ event' = event /\ status' = status
        /\ pc' = "idle" /\ pc # "idle" /\ status = "open"
    BY <1>1, FailedAtHead DEF FailAppend
  <2>2. \/ vis'.tmp \in {vis.tmp, Torn}
        \/ vis'.tmp = Len(event) /\ pc = "prepare"
        \/ vis'.tmp = vis.tmp
    BY <1>0, <1>1, FailedAtTmp DEF FailAppend
  <2>3. pc = "prepare" => Len(event) \in Ids(dur.log) /\ vis.head < Len(event)
    <3>1. pc = "prepare" => Safe(Len(event)) /\ Len(event) # Torn
      BY <1>0 DEF LogInv, Torn
    <3> QED BY <3>1 DEF Safe, Ids, ForwardInv
  <2> QED BY <1>0, <2>1, <2>2, <2>3 DEF ForwardInv, Newer, Torn
<1>2. CASE Kill
  <2>1. /\ vis'.head = vis.head /\ dur' = dur /\ event' = event
        /\ status' = "closed" /\ pc' = "idle"
        /\ vis'.tmp = vis.tmp \/ (vis'.tmp = Torn /\ pc = "prepare")
    BY <1>0, <1>2 DEF Kill, Forget, Disk
  <2>2. pc = "prepare" => dur.tmp <= 0
    BY DEF TypeInv, PcInv, ForwardInv
  <2> QED BY <1>0, <2>1, <2>2 DEF ForwardInv, Newer, Torn
<1>3. CASE PowerLoss
  <2>1. PICK h \in HeadsAfterPowerLoss : vis'.head = h.head /\ vis'.tmp = h.tmp
    BY <1>3 DEF PowerLoss
  <2>2. /\ vis'.head \in {dur.head, vis.head}
        /\ \/ vis'.tmp \in {dur.tmp, vis.tmp, Torn}
           \/ vis'.tmp = vis.head /\ vis.head # dur.head
    BY <2>1 DEF HeadsAfterPowerLoss
  <2>3. dur' = vis' /\ event' = event /\ status' = "closed" /\ pc' = "idle"
    BY <1>3 DEF PowerLoss, Forget
  <2>4. vis'.tmp > 0 => Newer(vis'.tmp, vis'.head)
    BY <1>0, <2>2, SMTT(30) DEF ForwardInv, Newer, Torn
  <2>5. vis'.head <= Len(event) /\ vis'.tmp <= Len(event)
    BY <1>0, <2>2 DEF ForwardInv, Newer, Torn
  <2> QED BY <1>0, <2>3, <2>4, <2>5 DEF ForwardInv, Newer
<1>4. CASE RecoverHead
  <2>1. event' = event /\ pc' = "idle" /\ status' = "loadhead"
    BY <1>4 DEF RecoverHead, TypeInv, PcInv
  <2>2. CASE vis.tmp = RootEvent
    <3>1. vis' = vis /\ dur' = dur
      <4>1. vis.tmp \notin index
        BY <2>2 DEF TypeInv, TypeOK, Id, RootEvent
      <4> QED BY <1>4, <2>2, <4>1 DEF RecoverHead
    <3> QED BY <1>0, <2>1, <2>2, <3>1 DEF ForwardInv, Newer, RootEvent
  <2>3. CASE vis.tmp # RootEvent /\ vis.tmp \in index
    <3>1. vis' = [vis EXCEPT !.head = vis.tmp, !.tmp = RootEvent]
      BY <1>4, <2>3 DEF RecoverHead
    <3>2. dur' = [dur EXCEPT !.head = vis'.head, !.tmp = RootEvent]
      BY <1>4, <2>3 DEF RecoverHead
    <3>3. /\ vis'.head = vis.tmp /\ vis'.tmp = RootEvent
          /\ dur'.head = vis.tmp /\ dur'.tmp = RootEvent
      BY <1>0, <3>1, <3>2 DEF Disk
    <3> QED BY <1>0, <2>1, <3>3 DEF ForwardInv, Newer, RootEvent
  <2>4. CASE vis.tmp # RootEvent /\ vis.tmp \notin index
    <3>1. vis' = [vis EXCEPT !.tmp = RootEvent]
      BY <1>4, <2>4 DEF RecoverHead
    <3>2. dur' = [dur EXCEPT !.head = vis'.head, !.tmp = RootEvent]
      BY <1>4, <2>4 DEF RecoverHead
    <3>3. /\ vis'.head = vis.head /\ vis'.tmp = RootEvent
          /\ dur'.head = vis.head /\ dur'.tmp = RootEvent
      BY <1>0, <3>1, <3>2 DEF Disk
    <3> QED BY <1>0, <2>1, <3>3 DEF ForwardInv, Newer, RootEvent
  <2> QED BY <2>2, <2>3, <2>4
<1> QED BY <1>1, <1>2, <1>3, <1>4

-----------------------------------------------------------------------------
(* The steps of the event log *)

RefineInv == TypeInv /\ LogInv /\ HeadInv /\ Contained /\ ForwardInv

LEMMA RefineInit == Init => RefineInv /\ EventLogImpl!Init
<1> SUFFICES ASSUME Init PROVE RefineInv /\ EventLogImpl!Init
  OBVIOUS
<1>1. /\ vis.log = [i \in 1..Preloaded |-> [id |-> i, chunk |-> 0, nl |-> TRUE]]
      /\ dur.log = vis.log
      /\ vis.head = Preloaded /\ dur.head = Preloaded /\ vis.tmp = RootEvent /\ dur.tmp = RootEvent
      /\ Preloaded \in Nat /\ Len(event) = Preloaded /\ pc = "idle" /\ status = "closed"
  BY TimelineAssumption DEF Init, RootEvent
<1>2. Contained /\ ForwardInv
  BY <1>1 DEF Contained, ForwardInv, Newer, RootEvent
<1>3. Ids(dur.log) = 1..Preloaded
  <2>1. DOMAIN dur.log = 1..Preloaded /\ \A i \in 1..Preloaded : dur.log[i].id = i
    BY <1>1
  <2>2. Torn \notin 1..Preloaded
    BY <1>1 DEF Torn
  <2> QED BY <2>1, <2>2 DEF Ids
<1>4. acked = 1..Preloaded
  BY DEF Init
<1> QED BY <1>1, <1>2, <1>3, <1>4, InitType, InitLogInv, InitHeadInv
        DEF RefineInv, EventLogImpl!Init

LEMMA RefineInvStep == ~glued' /\ RefineInv /\ [Next]_vars => RefineInv'
<1> SUFFICES ASSUME ~glued', RefineInv, [Next]_vars PROVE RefineInv'
  OBVIOUS
<1>1. TypeInv' /\ LogInv' /\ HeadInv' /\ Contained'
  BY TypeInvStep, AllSteps, QuietLogInv, LoudLogInv, StutterLogInv, HeadInvStep, ContainedStep
     DEF RefineInv
<1>2. Ids(dur.log) \subseteq Ids(dur'.log)
  BY EventsStay DEF RefineInv
<1>3. Next => HeadQuiet \/ (PrepareHead \/ RenameHead \/ FinishAppend)
              \/ (FailAppend \/ Kill \/ PowerLoss \/ RecoverHead)
  BY DEF Next, StepAppend, Open, HeadQuiet
<1>4. UNCHANGED vars => ForwardInv'
  BY DEF RefineInv, ForwardInv, Newer, vars
<1>5. ForwardInv'
  BY <1>2, <1>3, <1>4, ForwardQuiet, ForwardAppend, ForwardFaults DEF RefineInv
<1> QED BY <1>1, <1>5 DEF RefineInv

\* Every step of the timeline is a step of the event log, or none.
LEMMA RefineStep ==
    ~glued' /\ RefineInv /\ [Next]_vars => [EventLogImpl!Next]_EventLogImpl!vars
<1> SUFFICES ASSUME ~glued', RefineInv, [Next]_vars
             PROVE  EventLogImpl!Next \/ UNCHANGED EventLogImpl!vars
  BY DEF EventLogImpl!vars
<1>0. /\ vis \in Disk /\ dur \in Disk /\ vis.head \in Nat /\ dur.head \in Nat
      /\ vis.tmp \in Int
  BY DiskParts DEF RefineInv, TypeInv, TypeOK
<1>1. EventLogImpl!Store
  BY EventsStay DEF RefineInv, EventLogImpl!Store
<1>2. dur'.head = dur.head \/ (dur'.head > dur.head /\ dur'.head \in Ids(dur'.log))
  <2>1. Ids(dur.log) \subseteq Ids(dur'.log)
    BY EventsStay DEF RefineInv
  <2>2. dur'.head \in {dur.head, vis.head} \/ (dur'.head = vis.tmp /\ vis.tmp > 0)
    <3>1. CASE HeadQuiet
      BY <3>1, HeadQuietFiles DEF RefineInv
    <3>2. CASE PrepareHead \/ RenameHead \/ FailAppend \/ Kill \/ UNCHANGED vars
      BY <3>2 DEF PrepareHead, RenameHead, FailAppend, Kill, vars
    <3>3. CASE FinishAppend
      BY <1>0, <3>3 DEF FinishAppend, Disk
    <3>4. CASE PowerLoss
      <4>1. PICK h \in HeadsAfterPowerLoss : vis'.head = h.head
        BY <3>4 DEF PowerLoss
      <4> QED BY <3>4, <4>1 DEF PowerLoss, HeadsAfterPowerLoss
    <3>5. CASE RecoverHead
      <4>1. \/ dur' = dur
            \/ dur' = [dur EXCEPT !.head = vis'.head, !.tmp = RootEvent]
        BY <3>5 DEF RecoverHead
      <4>2. CASE vis.tmp \in index /\ vis.tmp # RootEvent
        <5>1. vis' = [vis EXCEPT !.head = vis.tmp, !.tmp = RootEvent]
          BY <3>5, <4>2 DEF RecoverHead
        <5>2. vis'.head = vis.tmp
          BY <1>0, <5>1 DEF Disk
        <5>3. vis.tmp > 0
          <6>1. vis.tmp \in Id
            BY <4>2 DEF RefineInv, TypeInv, TypeOK
          <6> QED BY <1>0, <6>1 DEF Id
        <5> QED BY <1>0, <4>1, <5>2, <5>3 DEF Disk
      <4>3. CASE ~(vis.tmp \in index /\ vis.tmp # RootEvent)
        <5>1. vis' = vis \/ vis' = [vis EXCEPT !.tmp = RootEvent]
          <6>1. RootEvent \notin index
            BY DEF RefineInv, TypeInv, TypeOK, Id, RootEvent
          <6> QED BY <3>5, <4>3, <6>1 DEF RecoverHead
        <5>2. vis'.head = vis.head
          BY <1>0, <5>1 DEF Disk
        <5> QED BY <1>0, <4>1, <5>2 DEF Disk
      <4> QED BY <4>2, <4>3
    <3> QED BY <3>1, <3>2, <3>3, <3>4, <3>5 DEF Next, StepAppend, Open, HeadQuiet
  <2>3. Newer(vis.head, dur.head)
    BY DEF RefineInv, ForwardInv
  <2>4. vis.tmp > 0 => Newer(vis.tmp, vis.head)
    BY DEF RefineInv, ForwardInv
  <2>5. CASE dur'.head \in {dur.head, vis.head}
    BY <2>1, <2>3, <2>5 DEF Newer
  <2>6. CASE dur'.head = vis.tmp /\ vis.tmp > 0
    BY <1>0, <2>1, <2>3, <2>4, <2>6 DEF Newer
  <2> QED BY <2>2, <2>5, <2>6
<1>3. EventLogImpl!MoveHead
  BY <1>2 DEF EventLogImpl!MoveHead
<1>4. EventLogImpl!Acknowledge
  <2>1. CASE FinishAppend
    <3>1. Len(event) \in Id /\ Safe(Len(event))
      BY <2>1 DEF FinishAppend, RefineInv, LogInv, TypeInv, TypeOK, PcInv, Id
    <3>2. Len(event) \in Ids(dur.log)
      BY <3>1 DEF Safe, Ids, Id, Torn
    <3>3. dur'.head = Len(event) /\ acked' = acked \cup {Len(event)}
      BY <1>0, <2>1 DEF FinishAppend, RefineInv, HeadInv, Disk, Current
    <3>4. Len(event) \in Ids(dur'.log)
      BY <3>2, EventsStay DEF RefineInv
    <3> QED BY <3>3, <3>4 DEF EventLogImpl!Acknowledge
  <2>2. CASE ~FinishAppend
    <3>1. acked' = acked
      BY <2>2 DEF Next, StartAppend, AppendToHead, BranchFromEventID, Submit, StepAppend,
             WriteBlob, SyncBlob, RotateChunk, WriteLine, SyncLine, PrepareHead, AppendIndex,
             RenameHead, FailAppend, Close, Kill, PowerLoss, Open, LoadIndex, ReconcileChunks,
             ReindexOne, RecoverHead, LoadHead, vars
    <3> QED BY <3>1 DEF EventLogImpl!Acknowledge
  <2> QED BY <2>1, <2>2
<1> QED BY <1>1, <1>3, <1>4 DEF EventLogImpl!Next

\* A session timeline implements the event log, whatever faults come, until an
\* append is glued to a line that lacks only its newline: an event on the disk
\* is never lost, the HEAD on the disk only moves forward, to an event on the
\* disk, and an append succeeds only when both have happened
\* (appendFromParentLocked, commitHead, NewTimeline).
THEOREM TimelineImplementsLog == Spec => Refines
<1> DEFINE I == glued \/ RefineInv
<1>1. Init => I /\ EventLogImpl!Init
  BY RefineInit
<1>2. I /\ [Next]_vars => I'
  BY GluedStays, RefineInvStep
<1>3. I /\ [Next]_vars => [EventLogImpl!Next \/ glued']_(EventLogImpl!vars)
  BY GluedStays, RefineStep
<1> HIDE DEF I
<1> QED BY <1>1, <1>2, <1>3, PTL DEF Spec, Refines

-----------------------------------------------------------------------------
(* One fault *)

\* The event whose line, or whose index entry, an append in progress has written.
InLog == IF pc \in {"sync", "prepare", "index", "rename", "syncdir"} THEN {Len(event)} ELSE {}
InIndex == IF pc \in {"rename", "syncdir"} THEN {Len(event)} ELSE {}

\* Only the last line of all may be one that was cut short, and the blob of an
\* event is on the disk before its line is anywhere.
Sound ==
    /\ ~Corrupt(vis.log) /\ ~Corrupt(dur.log)
    /\ \A e \in Ids(vis.log) : e \in 1..Len(event) /\ (event[e].big => e \in dur.blobs)

\* Before any fault the files hold what was acknowledged and the append in progress.
Clean ==
    faults = 0 =>
        /\ Ids(vis.log) \subseteq acked \cup InLog
        /\ vis.index \cup dur.index \subseteq acked \cup InIndex
        /\ vis.head \in acked \cup InIndex \/ acked = {}
        /\ dur.head \in acked \/ acked = {}

\* With one, what index.jsonl, the memory and HEAD name has a line that parses.
Known ==
    faults <= 1 =>
        /\ vis.index \cup index \cup missing \subseteq Ids(vis.log)
        /\ status \in {"reindex", "loadhead"} => Ids(vis.log) \subseteq index
        /\ acked # {} => vis.head \in Ids(vis.log) /\ status # "failed"

LEMMA AppendedLine ==
    ASSUME NEW log \in Seq(Line), NEW c \in Nat, NEW e \in Id \cup {Torn}, NEW nl \in BOOLEAN,
           Parses(log), ~Glues(log, c), e = Torn => ~nl
    PROVE  /\ Ids(Written(log, c, e, nl)) = Ids(log) \cup ({e} \ {Torn})
           /\ ~Corrupt(Written(log, c, e, nl))
<1> DEFINE new == [id |-> e, chunk |-> c, nl |-> nl]
           w == Append(log, new)
<1>1. new \in Line /\ new.id = e /\ new.nl = nl
  BY DEF Line
<1>2. Written(log, c, e, nl) = w
  BY WrittenKeeps
<1> HIDE DEF new
<1>3. /\ Len(log) \in Nat /\ DOMAIN log = 1..Len(log)
      /\ Len(w) = Len(log) + 1 /\ DOMAIN w = 1..(Len(log) + 1)
      /\ w[Len(log) + 1] = new /\ \A i \in 1..Len(log) : w[i] = log[i]
  BY <1>1
<1> HIDE DEF w
<1>4. Ids(w) = Ids(log) \cup ({e} \ {Torn})
  <2>1. \A i \in DOMAIN w : i \in DOMAIN log \/ i = Len(log) + 1
    BY <1>3
  <2>2. Len(log) + 1 \in DOMAIN w /\ \A i \in DOMAIN log : i \in DOMAIN w
    BY <1>3
  <2> QED BY <1>1, <1>3, <2>1, <2>2 DEF Ids
<1>5. \A i \in DOMAIN log : log[i].id # Torn
  BY DEF Parses
<1>6. ~Corrupt(w)
  <2> SUFFICES ASSUME NEW i \in DOMAIN w, w[i].id = Torn PROVE ~w[i].nl /\ i = Len(w)
    BY <1>3 DEF Corrupt
  <2>1. i = Len(log) + 1
    BY <1>3, <1>5
  <2> QED BY <1>1, <1>3, <2>1
<1> QED BY <1>2, <1>4, <1>6

LEMMA WholeLine ==
    ASSUME NEW log \in Seq(Line), NEW c \in Nat, NEW e \in Id, NEW nl \in BOOLEAN,
           Parses(log), ~Glues(log, c)
    PROVE  /\ Ids(Written(log, c, e, nl)) = Ids(log) \cup {e}
           /\ ~Corrupt(Written(log, c, e, nl))
<1>1. e \in Id \cup {Torn} /\ e # Torn
  BY DEF Id, Torn
<1>2. e = Torn => ~nl
  BY <1>1
<1>3. /\ Ids(Written(log, c, e, nl)) = Ids(log) \cup ({e} \ {Torn})
      /\ ~Corrupt(Written(log, c, e, nl))
  BY <1>1, <1>2, AppendedLine
<1> QED BY <1>1, <1>3

LEMMA TornLine ==
    ASSUME NEW log \in Seq(Line), NEW c \in Nat, Parses(log), ~Glues(log, c)
    PROVE  /\ Ids(Written(log, c, Torn, FALSE)) = Ids(log)
           /\ ~Corrupt(Written(log, c, Torn, FALSE))
<1>1. Torn \in Id \cup {Torn} /\ FALSE \in BOOLEAN /\ ~FALSE
  OBVIOUS
<1>2. /\ Ids(Written(log, c, Torn, FALSE)) = Ids(log) \cup ({Torn} \ {Torn})
      /\ ~Corrupt(Written(log, c, Torn, FALSE))
  BY <1>1, AppendedLine, Zenon
<1> QED BY <1>2

LEMMA TruncatedLines ==
    ASSUME NEW log \in Seq(Line), ~Corrupt(log)
    PROVE  Ids(Truncated(log)) = Ids(log) /\ ~Corrupt(Truncated(log))
<1>1. CASE log # <<>> /\ log[Len(log)].id = Torn
  <2>1. Truncated(log) = SubSeq(log, 1, Len(log) - 1)
    BY <1>1 DEF Truncated
  <2>2. /\ Len(log) \in Nat /\ DOMAIN log = 1..Len(log) /\ Len(log) > 0
        /\ DOMAIN Truncated(log) = 1..(Len(log) - 1)
        /\ \A i \in 1..(Len(log) - 1) : Truncated(log)[i] = log[i]
    BY <1>1, <2>1
  <2>3. \A i \in DOMAIN Truncated(log) : i \in DOMAIN log /\ i < Len(log)
    BY <2>2
  <2>4. \A i \in DOMAIN Truncated(log) : Truncated(log)[i].id # Torn
    BY <2>2, <2>3 DEF Corrupt
  <2>5. \A i \in DOMAIN log : log[i].id # Torn => i \in DOMAIN Truncated(log)
    BY <1>1, <2>2
  <2> QED BY <2>2, <2>3, <2>4, <2>5 DEF Ids, Corrupt
<1>2. CASE ~(log # <<>> /\ log[Len(log)].id = Torn)
  BY <1>2 DEF Truncated
<1> QED BY <1>1, <1>2

LEMMA SameLength ==
    ASSUME NEW a \in Nat, NEW b \in Nat, 1..a = 1..b
    PROVE  a = b
<1>1. a # 0 => a \in 1..a
  OBVIOUS
<1>2. b # 0 => b \in 1..b
  OBVIOUS
<1>3. (a # 0 => a \in 1..b) /\ (b # 0 => b \in 1..a)
  BY <1>1, <1>2
<1> QED BY <1>3

LEMMA PowerLossLines ==
    ASSUME vis \in Disk, dur \in Disk, NEW log \in LogsAfterPowerLoss,
           ~Corrupt(vis.log), ~Corrupt(dur.log)
    PROVE  Ids(log) \subseteq Ids(vis.log) \cup Ids(dur.log) /\ ~Corrupt(log)
<1> DEFINE Kept(n) == \A i \in DOMAIN vis.log \cap DOMAIN dur.log :
                         vis.log[i] = dur.log[i] => i <= n
           Upto(n) == SubSeq(vis.log, 1, n)
           Cut(n, e) == [Upto(n) EXCEPT ![n] = [id |-> e, chunk |-> @.chunk, nl |-> FALSE]]
<1>0. vis.log \in Seq(Line) /\ dur.log \in Seq(Line) /\ Len(vis.log) \in Nat
      /\ DOMAIN vis.log = 1..Len(vis.log)
  BY DiskParts
<1>1. \A n \in 0..Len(vis.log) :
         Len(Upto(n)) = n /\ DOMAIN Upto(n) = 1..n /\ \A i \in 1..n : Upto(n)[i] = vis.log[i]
  BY <1>0
<1>2. \/ log = dur.log
      \/ \E n \in 0..Len(vis.log) : Kept(n) /\ log = Upto(n)
      \/ \E n \in 1..Len(vis.log) : Kept(n - 1) /\ \E e \in {Torn, vis.log[n].id} : log = Cut(n, e)
  BY DEF LogsAfterPowerLoss
<1>3. CASE log = dur.log
  BY <1>3
<1>4. CASE \E n \in 0..Len(vis.log) : Kept(n) /\ log = Upto(n)
  <2> PICK n \in 0..Len(vis.log) : Kept(n) /\ log = Upto(n)
    BY <1>4
  <2>1. Len(log) = n /\ DOMAIN log = 1..n /\ \A i \in 1..n : i \in DOMAIN vis.log /\ log[i] = vis.log[i]
    BY <1>0, <1>1
  <2>2. \A i \in 1..n : i < n => i < Len(vis.log)
    BY <1>0
  <2>3. Ids(log) \subseteq Ids(vis.log)
    BY <2>1 DEF Ids
  <2> HIDE DEF Upto, Kept
  <2>4. ~Corrupt(log)
    <3> SUFFICES ASSUME NEW i \in DOMAIN log, log[i].id = Torn, log[i].nl \/ i < n PROVE FALSE
      BY <2>1 DEF Corrupt
    <3>1. i \in DOMAIN vis.log /\ vis.log[i] = log[i] /\ (i < n => i < Len(vis.log))
      BY <2>1, <2>2
    <3> QED BY <3>1 DEF Corrupt
  <2> QED BY <2>3, <2>4
<1>5. CASE \E n \in 1..Len(vis.log) :
              Kept(n - 1) /\ \E e \in {Torn, vis.log[n].id} : log = Cut(n, e)
  <2> PICK n \in 1..Len(vis.log) :
         Kept(n - 1) /\ \E e \in {Torn, vis.log[n].id} : log = Cut(n, e)
    BY <1>5
  <2> PICK e \in {Torn, vis.log[n].id} : log = Cut(n, e)
    OBVIOUS
  <2>1. /\ DOMAIN log = 1..n /\ Len(log) = n
        /\ \A i \in 1..(n - 1) : log[i] = vis.log[i]
        /\ log[n].id \in {Torn, vis.log[n].id} /\ ~log[n].nl
    <3>1. n \in 0..Len(vis.log) /\ n \in 1..n
      BY <1>0
    <3>2. DOMAIN Upto(n) = 1..n /\ Len(Upto(n)) = n /\ \A i \in 1..n : Upto(n)[i] = vis.log[i]
      BY <1>1, <3>1
    <3>3. log = [Upto(n) EXCEPT ![n] =
                    [id |-> e, chunk |-> Upto(n)[n].chunk, nl |-> FALSE]]
      OBVIOUS
    <3> HIDE DEF Upto, Cut
    <3>4. DOMAIN log = 1..n /\ \A i \in 1..(n - 1) : log[i] = Upto(n)[i]
      BY <3>2, <3>3
    <3>5. log[n] = [id |-> e, chunk |-> Upto(n)[n].chunk, nl |-> FALSE]
      BY <3>1, <3>2, <3>3
    <3>6. Len(log) = n
      <4>1. log \in Seq(Line)
        BY LogsAfterPowerLossType
      <4>2. Len(log) \in Nat /\ DOMAIN log = 1..Len(log)
        BY <4>1
      <4>3. n \in Nat
        BY <1>0, SMTT(60)
      <4>4. 1..Len(log) = 1..n
        BY <4>2, <3>4
      <4> QED BY <4>2, <4>3, <4>4, SameLength
    <3> QED BY <3>2, <3>4, <3>5, <3>6
  <2>2. \A i \in 1..n : i \in 1..(n - 1) \/ i = n
    BY <1>0
  <2>3. n \in DOMAIN vis.log /\ \A i \in 1..(n - 1) : i \in DOMAIN vis.log /\ i < Len(vis.log)
    BY <1>0
  <2>4. \A i \in 1..(n - 1) : vis.log[i].id # Torn
    BY <2>3 DEF Corrupt
  <2>5. Ids(log) \subseteq Ids(vis.log)
    <3> SUFFICES ASSUME NEW i \in 1..n, log[i].id # Torn
                 PROVE  \E k \in DOMAIN vis.log : vis.log[k].id = log[i].id
      BY <2>1 DEF Ids
    <3>1. CASE i = n
      BY <2>1, <2>3, <3>1
    <3>2. CASE i \in 1..(n - 1)
      BY <2>1, <2>3, <3>2
    <3> QED BY <2>2, <3>1, <3>2
  <2>6. ~Corrupt(log)
    <3> SUFFICES ASSUME NEW i \in 1..n, log[i].id = Torn, log[i].nl \/ i < n PROVE FALSE
      BY <2>1 DEF Corrupt
    <3>1. i \in 1..(n - 1)
      BY <2>1, <2>2
    <3> QED BY <2>1, <2>4, <3>1
  <2> QED BY <2>5, <2>6
<1> QED BY <1>2, <1>3, <1>4, <1>5

\* A step adds at most the line of the append in progress, and only a power
\* loss takes away lines that parse.
LEMMA NewLines ==
    ASSUME ~glued', TypeInv, LogInv, Contained, Sound, [Next]_vars
    PROVE  /\ Ids(vis'.log) \subseteq Ids(vis.log) \cup (IF pc = "write" THEN {Len(event)} ELSE {})
           /\ ~Corrupt(vis'.log) /\ ~Corrupt(dur'.log)
           /\ Ids(vis.log) \subseteq Ids(vis'.log) \/ PowerLoss
<1>0. /\ vis \in Disk /\ dur \in Disk
      /\ vis.log \in Seq(Line) /\ dur.log \in Seq(Line) /\ vis.chunk \in Nat
  BY DiskParts DEF TypeInv, TypeOK
<1>c. pc # "idle" => Len(event) \in Id /\ Len(event) # Torn
  BY DEF TypeInv, TypeOK, PcInv, Id, Torn
<1>s. ~Corrupt(vis.log) /\ ~Corrupt(dur.log)
  BY DEF Sound
<1>d. dur'.log = dur.log \/ dur'.log = vis'.log
  BY LogSteps
<1> SUFFICES /\ Ids(vis'.log) \subseteq Ids(vis.log) \cup (IF pc = "write" THEN {Len(event)} ELSE {})
             /\ ~Corrupt(vis'.log)
             /\ Ids(vis.log) \subseteq Ids(vis'.log) \/ PowerLoss
  BY <1>s, <1>d
<1>1. CASE vis'.log = vis.log
  BY <1>1, <1>s
<1>2. CASE Quiet
  BY <1>1, <1>2, QuietLogs
<1>3. CASE RotateChunk \/ SyncLine \/ Close \/ UNCHANGED vars
  <2>1. vis'.log = vis.log
    BY <1>0, <1>3 DEF RotateChunk, SyncLine, Close, files, vars, Disk
  <2> QED BY <1>1, <2>1
<1>4. CASE WriteLine
  <2>1. vis'.log = Written(vis.log, vis.chunk, Len(event), TRUE) /\ pc = "write" /\ status = "open"
    BY <1>0, <1>4 DEF WriteLine, Current, Disk
  <2>2. Parses(vis.log) /\ ~Glues(vis.log, vis.chunk)
    BY <1>4, <2>1 DEF WriteLine, LogInv, Writable, TypeInv, PcInv
  <2> DEFINE w == Written(vis.log, vis.chunk, Len(event), TRUE)
  <2>3. Ids(w) = Ids(vis.log) \cup {Len(event)} /\ ~Corrupt(w)
    BY <1>0, <1>c, <2>1, <2>2, WholeLine
  <2> HIDE DEF w
  <2>4. vis'.log = w
    BY <2>1 DEF w
  <2> QED BY <2>1, <2>3, <2>4
<1>5. CASE FailAppend
  <2>1. pc # "idle" /\ status = "open"
    BY <1>5 DEF FailAppend
  <2>2. \/ vis'.log = vis.log
        \/ pc = "write" /\ vis'.log \in PartlyWritten(vis.log, vis.chunk, Len(event))
    BY <1>0, <1>c, <1>5, <2>1, PartlyIndexedType, SMTT(30) DEF FailAppend, FailedAt, Current, Disk
  <2>3. CASE pc = "write" /\ vis'.log \in PartlyWritten(vis.log, vis.chunk, Len(event))
    <3>1. \/ vis'.log = vis.log
          \/ vis'.log = Written(vis.log, vis.chunk, Torn, FALSE)
          \/ \E nl \in BOOLEAN : vis'.log = Written(vis.log, vis.chunk, Len(event), nl)
      BY <2>3 DEF PartlyWritten
    <3>2. Parses(vis.log) /\ (vis'.log # vis.log => ~Glues(vis.log, vis.chunk))
      BY <1>5, <2>1 DEF FailAppend, LogInv, Writable, TypeInv, PcInv
    <3>3. CASE vis'.log # vis.log /\ vis'.log = Written(vis.log, vis.chunk, Torn, FALSE)
      <4>1. Ids(vis'.log) = Ids(vis.log) /\ ~Corrupt(vis'.log)
        BY <1>0, <3>2, <3>3, TornLine
      <4> QED BY <4>1
    <3>4. CASE vis'.log # vis.log
               /\ \E nl \in BOOLEAN : vis'.log = Written(vis.log, vis.chunk, Len(event), nl)
      <4> PICK nl \in BOOLEAN : vis'.log = Written(vis.log, vis.chunk, Len(event), nl)
        BY <3>4
      <4> DEFINE w == Written(vis.log, vis.chunk, Len(event), nl)
      <4>1. Ids(w) = Ids(vis.log) \cup {Len(event)} /\ ~Corrupt(w)
        BY <1>0, <1>c, <2>1, <3>2, <3>4, WholeLine
      <4>2. vis'.log = w
        OBVIOUS
      <4> HIDE DEF w
      <4> QED BY <2>3, <4>1, <4>2
    <3> QED BY <1>1, <3>1, <3>3, <3>4
  <2> QED BY <1>1, <2>2, <2>3
<1>6. CASE PowerLoss
  <2>1. PICK log \in LogsAfterPowerLoss : vis'.log = log
    BY <1>6 DEF PowerLoss
  <2>2. Ids(log) \subseteq Ids(vis.log) \cup Ids(dur.log) /\ ~Corrupt(log)
    BY <1>0, <1>s, PowerLossLines
  <2>3. Ids(dur.log) \subseteq Ids(vis.log)
    BY DEF Contained, Ids
  <2> QED BY <1>6, <2>1, <2>2, <2>3
<1>7. CASE ReconcileChunks
  <2>1. vis'.log = vis.log \/ vis'.log = Truncated(vis.log)
    BY <1>0, <1>7 DEF ReconcileChunks, Disk
  <2>2. Ids(Truncated(vis.log)) = Ids(vis.log) /\ ~Corrupt(Truncated(vis.log))
    BY <1>0, <1>s, TruncatedLines
  <2> QED BY <1>1, <2>1, <2>2
<1> QED BY <1>2, <1>3, <1>4, <1>5, <1>6, <1>7, AllSteps

LEMMA SoundStep ==
    ASSUME ~glued', TypeInv, LogInv, BlobInv, Contained, Sound, [Next]_vars
    PROVE  Sound'
<1>0. event \in Seq(Event) /\ Len(event) \in Nat /\ vis \in Disk /\ dur \in Disk
  BY DEF TypeInv, TypeOK
<1>1. /\ Ids(vis'.log) \subseteq Ids(vis.log) \cup (IF pc = "write" THEN {Len(event)} ELSE {})
      /\ ~Corrupt(vis'.log) /\ ~Corrupt(dur'.log)
  BY NewLines
<1>2. \A e \in Ids(vis'.log) : e \in 1..Len(event) /\ (event[e].big => e \in dur.blobs)
  <2>1. pc = "write" => Len(event) \in 1..Len(event)
                        /\ (event[Len(event)].big => Len(event) \in dur.blobs)
    BY <1>0 DEF BlobInv, TypeInv, PcInv
  <2> QED BY <1>1, <2>1 DEF Sound
<1>3. dur.blobs \subseteq dur'.blobs
  <2>1. CASE BlobQuiet
    BY <2>1, BlobQuietFiles
  <2>2. CASE StartAppend \/ WriteBlob \/ UNCHANGED vars
    BY <2>2 DEF StartAppend, AppendToHead, BranchFromEventID, Submit, WriteBlob, vars
  <2>3. CASE SyncBlob
    BY <1>0, <2>3 DEF SyncBlob, BlobInv, Disk
  <2>4. CASE PowerLoss
    <3>1. PICK b \in {dur.blobs, vis.blobs} : vis'.blobs = b
      BY <2>4 DEF PowerLoss
    <3>2. dur' = vis'
      BY <2>4 DEF PowerLoss
    <3> QED BY <3>1, <3>2 DEF BlobInv
  <2> QED BY <2>1, <2>2, <2>3, <2>4 DEF Next, BlobQuiet
<1>4. \A e \in 1..Len(event) : e \in 1..Len(event') /\ event'[e] = event[e]
  <2>1. CASE StartAppend
    <3>1. PICK p, br, k, g : Submit(p, br, k, g)
      BY <2>1 DEF StartAppend, AppendToHead, BranchFromEventID
    <3> DEFINE x == [parent |-> p, branch |-> br, kind |-> k, big |-> g]
    <3>2. event' = Append(event, x)
      BY <3>1 DEF Submit
    <3> HIDE DEF x
    <3> QED BY <1>0, <3>2
  <2>2. CASE ~StartAppend
    <3>1. event' = event
      BY <2>2 DEF Next, StepAppend, Open, vars, WriteBlob, SyncBlob, RotateChunk, WriteLine,
             SyncLine, PrepareHead, AppendIndex, RenameHead, FinishAppend, FailAppend, Close,
             Kill, PowerLoss, LoadIndex, ReconcileChunks, ReindexOne, RecoverHead, LoadHead
    <3> QED BY <3>1
  <2> QED BY <2>1, <2>2
<1> QED BY <1>1, <1>2, <1>3, <1>4 DEF Sound

\* A line that is safe is in the page cache, and stays there.
LEMMA SafeKnown ==
    ASSUME ~glued', TypeInv, LogInv, [Next]_vars, NEW e \in Id, Safe(e)
    PROVE  e \in Ids(vis.log) /\ e \in Ids(vis'.log)
<1>1. PICK i \in DOMAIN vis.log \cap DOMAIN dur.log :
         vis.log[i] = dur.log[i] /\ vis.log[i].id = e
  BY DEF Safe
<1>2. e # Torn
  BY DEF Id, Torn
<1>3. i \in DOMAIN vis'.log /\ vis'.log[i] = vis.log[i]
  BY <1>1, <1>2, LogSteps DEF Stable
<1> QED BY <1>1, <1>2, <1>3 DEF Ids

LEMMA IndexedNames ==
    ASSUME NEW d \in Disk, NEW e \in Id
    PROVE  /\ Indexed(d, e).index \subseteq d.index \cup {e}
           /\ \A x \in PartlyIndexed(d, e) : x.index \subseteq d.index \cup {e}
<1>1. Indexed(d, e).index \subseteq d.index \cup {e}
  BY DEF Indexed, Disk
<1>2. ASSUME NEW x \in PartlyIndexed(d, e) PROVE x.index \subseteq d.index \cup {e}
  BY <1>1 DEF PartlyIndexed, Disk
<1> QED BY <1>1, <1>2

FaultInv == TypeInv /\ LogInv /\ BlobInv /\ HeadInv /\ Contained /\ Sound /\ Clean /\ Known

\* The steps that write neither index.jsonl nor HEAD.
LEMMA KnownQuiet ==
    ASSUME ~glued', FaultInv,
           StartAppend \/ WriteBlob \/ SyncBlob \/ RotateChunk \/ WriteLine \/ SyncLine
             \/ PrepareHead \/ Close
    PROVE  Clean' /\ Known'
<1> USE DEF FaultInv
<1>0. vis \in Disk /\ dur \in Disk
  BY DEF TypeInv, TypeOK
<1>1. /\ vis'.index = vis.index /\ dur'.index = dur.index
      /\ vis'.head = vis.head /\ dur'.head = dur.head
  <2>1. CASE StartAppend
    BY <2>1 DEF StartAppend, AppendToHead, BranchFromEventID, Submit
  <2>2. CASE WriteBlob \/ SyncBlob \/ WriteLine \/ SyncLine \/ PrepareHead \/ Close
    BY <1>0, <2>2 DEF WriteBlob, SyncBlob, WriteLine, SyncLine, PrepareHead, Close, Disk
  <2>3. CASE RotateChunk
    BY <1>0, <2>3 DEF RotateChunk, files, Disk
  <2> QED BY <2>1, <2>2, <2>3
<1>2. /\ acked' = acked /\ faults' = faults /\ status' \in {"open", "closed"}
      /\ index' \subseteq index /\ missing' \subseteq missing
  BY DEF StartAppend, AppendToHead, BranchFromEventID, Submit, WriteBlob, SyncBlob, RotateChunk,
         WriteLine, SyncLine, PrepareHead, Close, Forget, memory
<1>3. Next
  BY DEF Next, StepAppend
<1>4. /\ Ids(vis'.log) \subseteq Ids(vis.log) \cup (IF pc = "write" THEN {Len(event)} ELSE {})
      /\ Ids(vis.log) \subseteq Ids(vis'.log)
  <2>1. ~PowerLoss
    <3>1. faults' # faults + 1
      BY <1>2 DEF TypeInv, TypeOK
    <3> QED BY <3>1 DEF PowerLoss
  <2> QED BY <1>3, <2>1, NewLines
<1>5. InIndex = {} /\ InIndex' = {}
  BY DEF InIndex, StartAppend, AppendToHead, BranchFromEventID, Submit, WriteBlob, SyncBlob,
         RotateChunk, WriteLine, SyncLine, PrepareHead, Close, Forget
<1>6. InLog \cup (IF pc = "write" THEN {Len(event)} ELSE {}) \subseteq InLog'
  <2>1. CASE StartAppend \/ Close
    BY <2>1 DEF InLog, StartAppend, AppendToHead, BranchFromEventID, Submit, Close
  <2>2. CASE WriteBlob \/ SyncBlob \/ RotateChunk \/ WriteLine \/ SyncLine \/ PrepareHead
    BY <2>2 DEF InLog, WriteBlob, SyncBlob, RotateChunk, WriteLine, SyncLine, PrepareHead
  <2> QED BY <2>1, <2>2
<1>7. Clean'
  BY <1>1, <1>2, <1>4, <1>5, <1>6 DEF Clean
<1>8. Known'
  BY <1>1, <1>2, <1>4 DEF Known
<1> QED BY <1>7, <1>8

\* The end of an append, whose line is on the disk by now.
LEMMA KnownAppend ==
    ASSUME ~glued', FaultInv, AppendIndex \/ RenameHead \/ FinishAppend
    PROVE  Clean' /\ Known'
<1> USE DEF FaultInv
<1>0. /\ vis \in Disk /\ dur \in Disk /\ Len(event) \in Id
  BY DEF TypeInv, TypeOK, PcInv, AppendIndex, RenameHead, FinishAppend, Id
<1>1. Len(event) \in Ids(vis.log)
  <2>1. Safe(Len(event)) /\ [Next]_vars
    BY DEF LogInv, AppendIndex, RenameHead, FinishAppend, Next, StepAppend
  <2> QED BY <1>0, <2>1, SafeKnown
<1>2. /\ vis'.log = vis.log /\ Ids(vis'.log) = Ids(vis.log)
      /\ status' = "open" /\ faults' = faults /\ event' = event /\ missing' = missing
  <2>1. vis'.log = vis.log
    BY QuietLogs DEF Quiet
  <2> QED BY <2>1 DEF Ids, AppendIndex, RenameHead, FinishAppend, memory
<1>3. CASE AppendIndex
  <2>1. /\ vis'.index \subseteq vis.index \cup {Len(event)} /\ vis'.head = vis.head
        /\ dur'.index = vis'.index /\ dur'.head = dur.head
    BY <1>0, <1>3, IndexedNames, IndexedType DEF AppendIndex, Current, Disk
  <2>2. acked' = acked /\ index' = index /\ pc = "index" /\ pc' = "rename"
    BY <1>3 DEF AppendIndex, memory
  <2>3. InLog' = InLog /\ InIndex = {} /\ InIndex' = {Len(event)}
    BY <1>2, <2>2 DEF InLog, InIndex
  <2> QED BY <1>1, <1>2, <2>1, <2>2, <2>3 DEF Clean, Known
<1>4. CASE RenameHead
  <2>1. /\ vis'.index = vis.index /\ vis'.head = Len(event) /\ dur' = dur
    BY <1>0, <1>4 DEF RenameHead, Disk, TypeInv, PcInv
  <2>2. acked' = acked /\ index' = index /\ pc = "rename" /\ pc' = "syncdir"
    BY <1>4 DEF RenameHead, memory
  <2>3. InLog' = InLog /\ InIndex' = InIndex /\ InIndex' = {Len(event)}
    BY <1>2, <2>2 DEF InLog, InIndex
  <2> QED BY <1>1, <1>2, <2>1, <2>2, <2>3 DEF Clean, Known
<1>5. CASE FinishAppend
  <2>1. /\ vis' = vis /\ vis.head = Len(event) /\ dur'.index = dur.index
        /\ dur'.head = vis.head
    BY <1>0, <1>5 DEF FinishAppend, Disk, HeadInv
  <2>2. /\ acked' = acked \cup {Len(event)} /\ index' = index \cup {Len(event)}
        /\ pc = "syncdir"
    BY <1>5 DEF FinishAppend, Current
  <2>3. InLog = {Len(event)} /\ InIndex = {Len(event)}
    BY <2>2 DEF InLog, InIndex
  <2> QED BY <1>1, <1>2, <2>1, <2>2, <2>3 DEF Clean, Known
<1> QED BY <1>3, <1>4, <1>5

\* One fault: no line that the other files name is lost.
LEMMA KnownFaults ==
    ASSUME ~glued', FaultInv, FailAppend \/ Kill \/ PowerLoss
    PROVE  Clean' /\ Known'
<1> USE DEF FaultInv
<1>0. vis \in Disk /\ dur \in Disk /\ faults \in Nat /\ acked \subseteq Id
  BY DEF TypeInv, TypeOK
<1>1. /\ faults' = faults + 1 /\ acked' = acked /\ status' \in {"open", "closed"}
      /\ index' \subseteq index /\ missing' \subseteq missing
  BY DEF FailAppend, Kill, PowerLoss, Forget
<1>2. Clean'
  BY <1>0, <1>1 DEF Clean
<1>3. [Next]_vars
  BY DEF Next
<1>4. CASE FailAppend \/ Kill
  <2>1. Ids(vis.log) \subseteq Ids(vis'.log)
    <3>1. CASE PowerLoss /\ FailAppend
      BY <3>1 DEF PowerLoss, Forget, FailAppend
    <3>2. CASE Kill
      <4>1. vis'.log = vis.log
        BY <3>2, QuietLogs DEF Quiet
      <4> QED BY <4>1 DEF Ids
    <3> QED BY <1>3, <1>4, <3>1, <3>2, NewLines
  <2>2. /\ vis'.head = vis.head
        /\ vis'.index \subseteq vis.index \cup (IF pc = "index" THEN {Len(event)} ELSE {})
    <3>1. CASE Kill
      BY <1>0, <3>1 DEF Kill, Disk
    <3>2. CASE FailAppend
      <4>1. pc # "idle" /\ vis' \in FailedAt(pc) /\ Len(event) \in Id
        BY <3>2 DEF FailAppend, TypeInv, TypeOK, PcInv, Id
      <4>2. vis'.head = vis.head
        BY <4>1, FailedAtHead
      <4>3. vis'.index = vis.index \/ (pc = "index" /\ vis' \in PartlyIndexed(vis, Len(event)))
        BY <1>0, <4>1 DEF FailedAt, Current, Disk
      <4> QED BY <1>0, <4>1, <4>2, <4>3, IndexedNames
    <3> QED BY <1>4, <3>1, <3>2
  <2>3. pc = "index" => Len(event) \in Ids(vis'.log)
    <3>1. pc = "index" => Safe(Len(event)) /\ Len(event) \in Id
      BY DEF LogInv, TypeInv, TypeOK, PcInv, Id
    <3> QED BY <1>3, <3>1, SafeKnown
  <2> QED BY <1>0, <1>1, <1>2, <2>1, <2>2, <2>3 DEF Known
<1>5. CASE PowerLoss
  <2>1. PICK ix \in IndexesAfterPowerLoss : vis'.index = ix.index
    BY <1>5 DEF PowerLoss
  <2>2. PICK h \in HeadsAfterPowerLoss : vis'.head = h.head
    BY <1>5 DEF PowerLoss
  <2>3. vis'.index \subseteq vis.index \cup dur.index /\ vis'.head \in {dur.head, vis.head}
    BY <2>1, <2>2 DEF IndexesAfterPowerLoss, HeadsAfterPowerLoss
  <2>4. index' = {} /\ missing' = {} /\ status' = "closed"
    BY <1>5 DEF PowerLoss, Forget
  <2>5. \A e \in acked \cup InIndex : e \in Ids(vis'.log)
    <3>1. \A e \in acked \cup InIndex : e \in Id /\ Safe(e)
      BY <1>0 DEF InIndex, LogInv, TypeInv, TypeOK, PcInv, Id
    <3> QED BY <1>3, <3>1, SafeKnown
  <2>6. faults' <= 1 => faults = 0
    BY <1>0, <1>1
  <2> QED BY <1>1, <1>2, <2>3, <2>4, <2>5, <2>6 DEF Clean, Known
<1> QED BY <1>4, <1>5

\* The reopening picks among what the files name.
LEMMA KnownOpen ==
    ASSUME ~glued', FaultInv, Open
    PROVE  Clean' /\ Known'
<1> USE DEF FaultInv
<1>0. vis \in Disk /\ dur \in Disk /\ vis.log \in Seq(Line)
  BY DiskParts DEF TypeInv, TypeOK
<1>1. /\ pc = "idle" /\ pc' = "idle" /\ acked' = acked /\ faults' = faults /\ event' = event
  BY DEF Open, LoadIndex, ReconcileChunks, ReindexOne, RecoverHead, LoadHead, TypeInv, PcInv
<1>2. InLog = {} /\ InIndex = {} /\ InLog' = {} /\ InIndex' = {}
  BY <1>1 DEF InLog, InIndex
<1>3. Ids(vis'.log) = Ids(vis.log)
  <2>1. CASE ReconcileChunks
    <3>1. vis'.log = Truncated(vis.log)
      BY <1>0, <2>1 DEF ReconcileChunks, Sound, Disk
    <3>2. Ids(Truncated(vis.log)) = Ids(vis.log)
      BY <1>0, TruncatedLines DEF Sound
    <3> QED BY <3>1, <3>2
  <2>2. CASE ~ReconcileChunks
    <3>1. vis'.log = vis.log
      BY <2>2, QuietLogs DEF Open, Quiet
    <3> QED BY <3>1
  <2> QED BY <2>1, <2>2
<1>4. CASE LoadIndex
  <2>1. vis' = vis /\ dur' = dur /\ index' = vis.index /\ missing' = {} /\ status' = "reconcile"
    BY <1>4 DEF LoadIndex
  <2> QED BY <1>1, <1>2, <1>3, <2>1 DEF Clean, Known
<1>5. CASE ReconcileChunks
  <2>1. /\ status' = "reindex" /\ vis'.index = vis.index /\ vis'.head = vis.head /\ dur' = dur
        /\ missing' = Ids(vis.log) \ index /\ index' = index \cup Ids(vis.log)
    BY <1>0, <1>5 DEF ReconcileChunks, Sound, Disk
  <2> QED BY <1>1, <1>2, <1>3, <2>1 DEF Clean, Known
<1>6. CASE ReindexOne
  <2>1. PICK e \in missing : vis' = Indexed(vis, e) /\ missing' = missing \ {e}
    BY <1>6 DEF ReindexOne
  <2>2. e \in Id
    BY DEF TypeInv, TypeOK
  <2>3. /\ vis'.index \subseteq vis.index \cup {e} /\ vis'.head = vis.head
        /\ dur'.index = vis'.index /\ dur'.head = dur.head
    BY <1>0, <1>6, <2>1, <2>2, IndexedNames, IndexedType DEF ReindexOne, Disk
  <2>4. status' = status /\ index' = index
    BY <1>6 DEF ReindexOne
  <2>5. faults <= 1 => e \in Ids(vis.log)
    BY DEF Known
  <2>6. faults = 0 => e \in acked
    BY <1>2, <2>5 DEF Clean
  <2>7. Clean'
    BY <1>1, <1>2, <1>3, <2>3, <2>6 DEF Clean
  <2>8. Known'
    BY <1>1, <1>3, <2>1, <2>3, <2>4, <2>5 DEF Known
  <2> QED BY <2>7, <2>8
<1>7. CASE RecoverHead
  <2>1. index' = index /\ missing' = missing /\ status = "reindex" /\ status' = "loadhead"
    BY <1>7 DEF RecoverHead, memory
  <2>2. /\ vis'.index = vis.index /\ dur'.index = dur.index
        /\ vis'.head = vis.head \/ vis'.head \in index
        /\ dur'.head \in {dur.head, vis'.head}
    <3>1. \/ vis' = vis
          \/ vis.tmp \in index /\ vis' = [vis EXCEPT !.head = vis.tmp, !.tmp = RootEvent]
          \/ vis' = [vis EXCEPT !.tmp = RootEvent]
      <4>1. RootEvent \notin index
        BY DEF TypeInv, TypeOK, Id, RootEvent
      <4> QED BY <1>7, <4>1 DEF RecoverHead
    <3>2. dur' = dur \/ dur' = [dur EXCEPT !.head = vis'.head, !.tmp = RootEvent]
      BY <1>7 DEF RecoverHead
    <3> QED BY <1>0, <3>1, <3>2 DEF Disk
  <2>3. faults <= 1 => index \subseteq Ids(vis.log)
    BY DEF Known
  <2>4. faults = 0 => index \subseteq acked
    BY <1>2, <2>3 DEF Clean
  <2>5. Clean'
    BY <1>1, <1>2, <1>3, <2>2, <2>4 DEF Clean
  <2>6. Known'
    BY <1>1, <1>3, <2>1, <2>2, <2>3 DEF Known
  <2> QED BY <2>5, <2>6
<1>8. CASE LoadHead
  <2>1. /\ vis' = vis /\ dur'.index = dur.index /\ dur'.head = dur.head
        /\ index' = index /\ missing' = missing /\ status = "loadhead"
        /\ status' = "open" \/ (status' = "failed" /\ vis.head \notin index)
    BY <1>0, <1>8 DEF LoadHead, Disk
  <2> QED BY <1>1, <1>2, <1>3, <2>1 DEF Clean, Known
<1> QED BY <1>4, <1>5, <1>6, <1>7, <1>8 DEF Open

LEMMA FaultInvInit == Init => FaultInv
<1> SUFFICES ASSUME Init PROVE FaultInv
  OBVIOUS
<1>1. Contained
  BY DEF Init, Contained
<1>2. /\ vis.log = [i \in 1..Preloaded |-> [id |-> i, chunk |-> 0, nl |-> TRUE]]
      /\ vis.index = 1..Preloaded /\ vis.head = Preloaded
      /\ Preloaded \in Nat /\ acked = 1..Preloaded
      /\ index = {} /\ missing = {} /\ status = "closed"
  BY TimelineAssumption DEF Init
<1>3. Len(event) = Preloaded /\ \A e \in 1..Preloaded : ~event[e].big
  BY TimelineAssumption DEF Init
<1>4. Ids(vis.log) = 1..Preloaded /\ ~Corrupt(vis.log)
  <2>1. DOMAIN vis.log = 1..Preloaded
        /\ \A i \in 1..Preloaded : vis.log[i].id = i /\ vis.log[i].nl /\ i # Torn
    BY <1>2 DEF Torn
  <2> QED BY <2>1 DEF Ids, Corrupt
<1>5. dur = vis
  BY DEF Init
<1>6. acked # {} => Preloaded \in 1..Preloaded
  BY <1>2
<1>7. Sound
  <2>1. ~Corrupt(dur.log)
    BY <1>4, <1>5
  <2> QED BY <1>3, <1>4, <2>1 DEF Sound
<1>8. Clean /\ Known
  BY <1>2, <1>4, <1>5, <1>6 DEF Clean, Known
<1> QED BY <1>1, <1>7, <1>8, InitType, InitLogInv, InitBlobInv, InitHeadInv DEF FaultInv

LEMMA FaultInvStep ==
    ASSUME ~glued', FaultInv, [Next]_vars
    PROVE  FaultInv'
<1> USE DEF FaultInv
<1>1. TypeInv' /\ LogInv' /\ BlobInv' /\ HeadInv'
  <2>1. Next => StartAppend \/ WriteBlob \/ SyncBlob \/ PowerLoss \/ BlobQuiet
    BY DEF Next, BlobQuiet, StepAppend
  <2> QED BY <2>1, TypeInvStep, AllSteps, QuietLogInv, LoudLogInv, StutterLogInv,
             BlobQuietInv, BlobLoudInv, StutterBlobInv, HeadInvStep
<1>2. Contained' /\ Sound'
  BY ContainedStep, SoundStep
<1>3. Clean' /\ Known'
  <2>1. CASE UNCHANGED vars
    BY <2>1 DEF vars, Clean, Known, InLog, InIndex, Ids
  <2> QED BY <2>1, KnownQuiet, KnownAppend, KnownFaults, KnownOpen DEF Next, StepAppend
<1> QED BY <1>1, <1>2, <1>3

LEMMA FaultInvReopens ==
    ASSUME FaultInv
    PROVE  Reopens
<1> USE DEF FaultInv
<1>1. Accepted
  BY DEF Known, Accepted
<1>2. IndexReadable
  <2> SUFFICES ASSUME faults <= 1, NEW e \in index PROVE ReadableEvent(e)
    BY DEF IndexReadable
  <2>1. e \in Ids(vis.log)
    BY DEF Known
  <2>2. event[e].big => e \in dur.blobs
    BY <2>1 DEF Sound
  <2>3. dur.blobs \subseteq vis.blobs
    BY DEF BlobInv
  <2> QED BY <2>1, <2>2, <2>3 DEF ReadableEvent
<1> QED BY <1>1, <1>2 DEF Reopens

\* One fault of any kind at any point of an append, or of an opening, costs at
\* most that append: NewTimeline accepts the directory again (reconcileChunks,
\* recoverHead and loadHead return no error) and every event its index knows
\* can be read with its blob (readAt, resolveRecord), until an append is glued
\* to a line that lacks only its newline.
THEOREM ReopensAfterOneFault == Spec => []Reopens
<1> DEFINE I == glued \/ FaultInv
<1>1. Init => I
  BY FaultInvInit
<1>2. I /\ [Next]_vars => I'
  BY GluedStays, FaultInvStep
<1>3. I => Reopens
  BY FaultInvReopens DEF Reopens, Accepted, IndexReadable
<1> HIDE DEF I
<1> QED BY <1>1, <1>2, <1>3, PTL DEF Spec

-----------------------------------------------------------------------------
(***************************************************************************)
(* How the session is watched and asks (Stream.tla): what a client that    *)
(* joins sees, and which answer a question has.                            *)
(***************************************************************************)
\* What an event is of, and what clients are told.
Subject == Nat \cup Question \cup {None}
Notices == {e \in [kind : {"message", "asked", "answered", "gap", "fatal"}, of : Subject] :
            e.kind = "message" => e.of \in Nat}

\* Lists of events.
LEMMA TellOne ==
    ASSUME NEW q \in Seq(Notices), NEW e \in Notices
    PROVE  /\ Append(q, e) \in Seq(Notices)
           /\ DOMAIN Append(q, e) = 1 .. (Len(q) + 1) /\ DOMAIN q = 1 .. Len(q) /\ Len(q) \in Nat
           /\ Append(q, e)[Len(q) + 1] = e /\ \A i \in 1 .. Len(q) : Append(q, e)[i] = q[i]
           /\ Announced(Append(q, e)) = Announced(q) \cup (IF e.kind = "message" THEN {e.of} ELSE {})
<1> DEFINE r == Append(q, e)
<1>1. /\ r \in Seq(Notices) /\ DOMAIN r = 1 .. (Len(q) + 1) /\ DOMAIN q = 1 .. Len(q) /\ Len(q) \in Nat
      /\ r[Len(q) + 1] = e /\ \A i \in 1 .. Len(q) : r[i] = q[i]
  OBVIOUS
<1> HIDE DEF r
<1>2. Announced(r) = Announced(q) \cup (IF e.kind = "message" THEN {e.of} ELSE {})
  <2>1. ASSUME NEW m \in Announced(r)
        PROVE  m \in Announced(q) \/ (e.kind = "message" /\ m = e.of)
    <3>1. PICK i \in DOMAIN r : r[i].kind = "message" /\ m = r[i].of
      BY <2>1 DEF Announced
    <3>2. CASE i = Len(q) + 1
      BY <1>1, <3>1, <3>2
    <3>3. CASE i # Len(q) + 1
      <4>1. i \in DOMAIN q /\ q[i] = r[i]
        BY <1>1, <3>3
      <4> QED BY <3>1, <4>1 DEF Announced
    <3> QED BY <3>2, <3>3
  <2>2. ASSUME NEW m \in Announced(q)
        PROVE  m \in Announced(r)
    <3>1. PICK i \in DOMAIN q : q[i].kind = "message" /\ m = q[i].of
      BY <2>2 DEF Announced
    <3>2. i \in DOMAIN r /\ r[i] = q[i]
      BY <1>1
    <3> QED BY <3>1, <3>2 DEF Announced
  <2>3. e.kind = "message" => e.of \in Announced(r)
    <3>1. Len(q) + 1 \in DOMAIN r
      BY <1>1
    <3> QED BY <1>1, <3>1 DEF Announced
  <2> QED BY <2>1, <2>2, <2>3
<1> QED BY <1>1, <1>2 DEF r

\* The first event of a list that is read.
LEMMA ReadOne ==
    ASSUME NEW q \in Seq(Notices), q # <<>>, NEW e, e = Head(q)
    PROVE  /\ Tail(q) \in Seq(Notices) /\ e \in Notices
           /\ DOMAIN Tail(q) = 1 .. (Len(q) - 1) /\ DOMAIN q = 1 .. Len(q) /\ Len(q) \in Nat \ {0}
           /\ q[1] = e /\ \A i \in 1 .. (Len(q) - 1) : Tail(q)[i] = q[i + 1]
           /\ Announced(q) = Announced(Tail(q)) \cup (IF e.kind = "message" THEN {e.of} ELSE {})
<1> DEFINE t == Tail(q)
<1>1. /\ t \in Seq(Notices) /\ e \in Notices
      /\ DOMAIN t = 1 .. (Len(q) - 1) /\ DOMAIN q = 1 .. Len(q) /\ Len(q) \in Nat \ {0}
      /\ q[1] = e /\ \A i \in 1 .. (Len(q) - 1) : t[i] = q[i + 1]
  OBVIOUS
<1> HIDE DEF t
<1>2. Announced(q) = Announced(t) \cup (IF e.kind = "message" THEN {e.of} ELSE {})
  <2>1. ASSUME NEW m \in Announced(q)
        PROVE  m \in Announced(t) \/ (e.kind = "message" /\ m = e.of)
    <3>1. PICK i \in DOMAIN q : q[i].kind = "message" /\ m = q[i].of
      BY <2>1 DEF Announced
    <3>2. CASE i = 1
      BY <1>1, <3>1, <3>2
    <3>3. CASE i # 1
      <4>1. i - 1 \in DOMAIN t /\ t[i - 1] = q[i]
        BY <1>1, <3>3
      <4> QED BY <3>1, <4>1 DEF Announced
    <3> QED BY <3>2, <3>3
  <2>2. ASSUME NEW m \in Announced(t)
        PROVE  m \in Announced(q)
    <3>1. PICK i \in DOMAIN t : t[i].kind = "message" /\ m = t[i].of
      BY <2>2 DEF Announced
    <3>2. i + 1 \in DOMAIN q /\ q[i + 1] = t[i]
      BY <1>1
    <3> QED BY <3>1, <3>2 DEF Announced
  <2>3. e.kind = "message" => e.of \in Announced(q)
    <3>1. 1 \in DOMAIN q
      BY <1>1
    <3> QED BY <1>1, <3>1 DEF Announced
  <2> QED BY <2>1, <2>2, <2>3
<1> QED BY <1>1, <1>2 DEF t

\* What is queued and what is on the bus, when an event moves.
LEMMA Moves ==
    ASSUME NEW q \in Seq(Notices), NEW b \in Seq(Notices)
    PROVE  /\ q \o b \in Seq(Notices) /\ <<>> \o b = b
           /\ \A e \in Notices : q \o Append(b, e) = Append(q \o b, e)
           /\ b # <<>> => Append(q, Head(b)) \o Tail(b) = q \o b
           /\ q # <<>> => /\ Tail(q) \o b = Tail(q \o b) /\ Head(q) = Head(q \o b)
                          /\ q \o b # <<>>
<1>1. q \o b \in Seq(Notices) /\ <<>> \o b = b
  BY ConcatProperties, ConcatEmptySeq
<1>2. ASSUME NEW e \in Notices PROVE q \o Append(b, e) = Append(q \o b, e)
  <2> DEFINE x == q \o Append(b, e)
             y == Append(q \o b, e)
  <2>1. x \in Seq(Notices) /\ y \in Seq(Notices) /\ Len(x) = Len(q) + Len(b) + 1 /\ Len(y) = Len(x)
    BY <1>1
  <2>2. \A i \in 1 .. Len(x) : x[i] = y[i]
    BY <1>1
  <2> HIDE DEF x, y
  <2> QED BY <2>1, <2>2, SeqEqual DEF x, y
<1>3. ASSUME b # <<>> PROVE Append(q, Head(b)) \o Tail(b) = q \o b
  <2> DEFINE x == Append(q, Head(b)) \o Tail(b)
             y == q \o b
  <2>1. x \in Seq(Notices) /\ y \in Seq(Notices) /\ Len(x) = Len(q) + Len(b) /\ Len(y) = Len(x)
    BY <1>1, <1>3
  <2>2. \A i \in 1 .. Len(x) : x[i] = y[i]
    BY <1>1, <1>3
  <2> HIDE DEF x, y
  <2> QED BY <2>1, <2>2, SeqEqual DEF x, y
<1>4. ASSUME q # <<>>
      PROVE  Tail(q) \o b = Tail(q \o b) /\ Head(q) = Head(q \o b) /\ q \o b # <<>>
  <2> DEFINE x == Tail(q) \o b
             y == Tail(q \o b)
  <2>1. Len(q \o b) = Len(q) + Len(b) /\ Len(q) \in Nat \ {0} /\ Len(b) \in Nat
    BY <1>4
  <2>2. q \o b # <<>>
    BY <1>1, <2>1
  <2>3. x \in Seq(Notices) /\ y \in Seq(Notices) /\ Len(x) = Len(q) + Len(b) - 1 /\ Len(y) = Len(x)
    BY <1>1, <1>4, <2>1, <2>2
  <2>4. \A i \in 1 .. Len(x) : x[i] = y[i]
    BY <1>1, <1>4, <2>1, <2>2
  <2>5. Head(q) = Head(q \o b)
    BY <1>1, <1>4, <2>1, <2>2
  <2> HIDE DEF x, y
  <2> QED BY <2>2, <2>3, <2>4, <2>5, SeqEqual DEF x, y
<1> QED BY <1>1, <1>2, <1>3, <1>4

\* A message is published.
LEMMA CompleteMore ==
    ASSUME NEW n \in Nat, NEW h, NEW s \in Seq(Nat), NEW q \in Seq(Notices), Complete(n, h, s, q),
           NEW e \in Notices, e.kind = "message", e.of = n + 1
    PROVE  Complete(n + 1, h, s, Append(q, e))
<1> DEFINE r == Append(q, e)
<1>1. /\ DOMAIN r = 1 .. (Len(q) + 1) /\ DOMAIN q = 1 .. Len(q) /\ Len(q) \in Nat
      /\ r[Len(q) + 1] = e /\ \A i \in 1 .. Len(q) : r[i] = q[i]
      /\ Announced(r) = Announced(q) \cup {n + 1}
  BY TellOne
<1> HIDE DEF r
<1>2. 1 .. (n + 1) = 1 .. n \cup {n + 1} /\ \A m \in 1 .. n : m < n + 1
  OBVIOUS
<1>3. (\A i \in DOMAIN s : s[i] \in 1 .. n) /\ (\A m \in Announced(q) : m \in 1 .. n)
  BY DEF Complete
<1>4. h \cup {s[i] : i \in DOMAIN s} \cup Announced(r) = 1 .. (n + 1)
  BY <1>1, <1>2 DEF Complete
<1>5. \A i \in DOMAIN s : \A m \in Announced(r) : s[i] < m
  BY <1>1, <1>2, <1>3 DEF Complete
<1>6. ASSUME NEW i \in DOMAIN r, NEW j \in DOMAIN r, i < j, r[i].kind = "message", r[j].kind = "message"
      PROVE  r[i].of < r[j].of
  <2>1. i \in DOMAIN q /\ r[i] = q[i]
    BY <1>1, <1>6
  <2>2. CASE j = Len(q) + 1
    <3>1. q[i].of \in Announced(q)
      BY <1>6, <2>1 DEF Announced
    <3> QED BY <1>1, <1>2, <1>3, <2>1, <2>2, <3>1
  <2>3. CASE j # Len(q) + 1
    BY <1>1, <1>6, <2>1, <2>3, SMTT(30) DEF Complete
  <2> QED BY <2>2, <2>3
<1> QED BY <1>4, <1>5, <1>6 DEF Complete, r

\* Something else is published.
LEMMA CompleteElse ==
    ASSUME NEW n \in Nat, NEW h, NEW s \in Seq(Nat), NEW q \in Seq(Notices), Complete(n, h, s, q),
           NEW e \in Notices, e.kind # "message"
    PROVE  Complete(n, h, s, Append(q, e))
<1> DEFINE r == Append(q, e)
<1>1. /\ DOMAIN r = 1 .. (Len(q) + 1) /\ DOMAIN q = 1 .. Len(q) /\ Len(q) \in Nat
      /\ r[Len(q) + 1] = e /\ \A i \in 1 .. Len(q) : r[i] = q[i]
      /\ Announced(r) = Announced(q) \cup (IF e.kind = "message" THEN {e.of} ELSE {})
  BY TellOne
<1> HIDE DEF r
<1>0. Announced(r) = Announced(q)
  BY <1>1
<1>2. ASSUME NEW i \in DOMAIN r, NEW j \in DOMAIN r, i < j, r[i].kind = "message", r[j].kind = "message"
      PROVE  r[i].of < r[j].of
  <2>1. i \in DOMAIN q /\ r[i] = q[i] /\ j \in DOMAIN q /\ r[j] = q[j]
    BY <1>1, <1>2
  <2> QED BY <1>2, <2>1 DEF Complete
<1> QED BY <1>0, <1>2 DEF Complete, r

\* The next event is shown.
LEMMA CompleteShown ==
    ASSUME NEW n \in Nat, NEW h, NEW s \in Seq(Nat), NEW q \in Seq(Notices), Complete(n, h, s, q),
           q # <<>>, NEW e, e = Head(q)
    PROVE  Complete(n, h, IF e.kind = "message" THEN Append(s, e.of) ELSE s, Tail(q))
<1> DEFINE t == Tail(q)
<1>1. /\ DOMAIN t = 1 .. (Len(q) - 1) /\ DOMAIN q = 1 .. Len(q) /\ Len(q) \in Nat \ {0}
      /\ q[1] = e /\ e \in Notices /\ \A i \in 1 .. (Len(q) - 1) : t[i] = q[i + 1]
      /\ Announced(q) = Announced(t) \cup (IF e.kind = "message" THEN {e.of} ELSE {})
  BY ReadOne
<1> HIDE DEF t
<1>2. ASSUME NEW i \in DOMAIN t, NEW j \in DOMAIN t, i < j, t[i].kind = "message", t[j].kind = "message"
      PROVE  t[i].of < t[j].of
  <2>1. i + 1 \in DOMAIN q /\ q[i + 1] = t[i] /\ j + 1 \in DOMAIN q /\ q[j + 1] = t[j] /\ i + 1 < j + 1
    BY <1>1, <1>2
  <2> QED BY <1>2, <2>1 DEF Complete
<1>3. CASE e.kind # "message"
  BY <1>1, <1>2, <1>3 DEF Complete, t
<1>4. CASE e.kind = "message"
  <2> DEFINE u == Append(s, e.of)
  <2>1. /\ DOMAIN u = 1 .. (Len(s) + 1) /\ DOMAIN s = 1 .. Len(s) /\ Len(s) \in Nat
        /\ u[Len(s) + 1] = e.of /\ \A i \in 1 .. Len(s) : u[i] = s[i] /\ e.of \in Nat
    BY <1>1, <1>4 DEF Notices
  <2> HIDE DEF u
  <2>2. \A i \in DOMAIN u : (i \in DOMAIN s /\ u[i] = s[i]) \/ (i = Len(s) + 1 /\ u[i] = e.of)
    BY <2>1
  <2>3. {u[i] : i \in DOMAIN u} = {s[i] : i \in DOMAIN s} \cup {e.of}
    <3>1. \A i \in DOMAIN s : i \in DOMAIN u /\ u[i] = s[i]
      BY <2>1
    <3>2. Len(s) + 1 \in DOMAIN u
      BY <2>1
    <3> QED BY <2>1, <2>2, <3>1, <3>2
  <2>4. \A m \in Announced(t) : e.of < m
    <3> SUFFICES ASSUME NEW i \in DOMAIN t, t[i].kind = "message" PROVE e.of < t[i].of
      BY DEF Announced
    <3>1. i + 1 \in DOMAIN q /\ q[i + 1] = t[i] /\ 1 < i + 1 /\ 1 \in DOMAIN q
      BY <1>1
    <3> QED BY <1>1, <1>4, <3>1, SMTT(30) DEF Complete
  <2>5. \A i \in DOMAIN s : s[i] < e.of
    BY <1>1, <1>4 DEF Complete
  <2>6. \A i, j \in DOMAIN u : i < j => u[i] < u[j]
    BY <2>1, <2>2, <2>5 DEF Complete
  <2>7. \A i \in DOMAIN u : \A m \in Announced(t) : u[i] < m
    BY <1>1, <2>2, <2>4 DEF Complete
  <2>8. h \cup {u[i] : i \in DOMAIN u} \cup Announced(t) = 1 .. n
    BY <1>1, <1>4, <2>3 DEF Complete
  <2> QED BY <1>2, <1>4, <2>6, <2>7, <2>8, ZenonT(60) DEF Complete, t, u
<1> QED BY <1>3, <1>4

\* What was published is committed, and the log of it is emptied.
LEMMA CompleteHistory ==
    ASSUME NEW n \in Nat, NEW h, NEW s \in Seq(Nat), NEW q \in Seq(Notices), Complete(n, h, s, q)
    PROVE  Complete(n, 1 .. n, <<>>, q)
<1>1. DOMAIN <<>> = {}
  OBVIOUS
<1> QED BY <1>1 DEF Complete

-----------------------------------------------------------------------------
(* The inductive invariant *)

\* A client, a call that asks, and the loop.
Screen == [handler : {"out", "joined", "left", "returning"}, history : SUBSET Nat,
           shown : Seq(Nat), form : Subject]
Outcome == {None, "accept", "cancel"}
Elicitation == [pc : {"new", "refused", "publishing", "waiting", "committed", "concluded", "returned"},
         given : Outcome, result : Outcome]

LoopState == [pc : {"running", "failed", "ended"}, published : Nat, committed : Nat, failures : Nat]

Typed ==
    /\ loop \in LoopState
    /\ eventBus \in Seq(Notices) /\ inFlight \in Seq(Nat)
    /\ queue \in [Client -> Seq(Notices)]
    /\ client \in [Client -> Screen]
    /\ pending \in Question \cup {None}
    /\ ask \in [Question -> Elicitation]
    /\ subs \subseteq Client

\* What a client that joins now will see is complete, as is what the attached
\* clients see, until the session's context ends.
Watching ==
    ~ctxDone =>
        /\ Complete(loop.published, History, inFlight, eventBus)
        /\ \A c \in subs : client[c].handler = "joined" =>
              Complete(loop.published, client[c].history, client[c].shown, queue[c] \o eventBus)

\* A question has no conclusion before it is outstanding, or while it is.
Elicited ==
    /\ \A q \in Question : ask[q].pc = "new" => ask[q].given = None
    /\ pending # None => ask[pending].pc \in {"publishing", "waiting"} /\ ask[pending].given = None
    /\ AnswerReaches

WatchInv == Typed /\ Watching /\ Elicited

-----------------------------------------------------------------------------
(* What the steps do to what is watched *)

\* Nothing is published, or taken from the bus or a queue.
LEMMA Unwatched ==
    ASSUME Typed, Watching, loop'.published = loop.published,
           ctxDone => ctxDone',
           ctxDone' \/ (eventBus' = eventBus /\ inFlight' = inFlight /\ loop'.committed = loop.committed),
           \A c \in subs' : client'[c].handler = "joined" =>
              /\ c \in subs /\ client[c].handler = "joined" /\ queue'[c] = queue[c]
              /\ client'[c].history = client[c].history /\ client'[c].shown = client[c].shown
    PROVE  Watching'
  BY DEF Watching, History

\* An event is published on the bus.
LEMMA PublishKeeps ==
    ASSUME Typed, Watching, NEW e \in Notices, eventBus' = Append(eventBus, e),
           UNCHANGED <<queue, subs, client, inFlight, cause>>, loop'.committed = loop.committed,
           loop'.published = IF e.kind = "message" THEN loop.published + 1 ELSE loop.published,
           e.kind = "message" => e.of = loop.published + 1
    PROVE  Watching'
<1> SUFFICES ASSUME ~ctxDone
             PROVE  /\ Complete(loop'.published, History, inFlight, eventBus')
                    /\ \A c \in subs : client[c].handler = "joined" =>
                          Complete(loop'.published, client[c].history, client[c].shown, queue[c] \o eventBus')
  BY DEF Watching, History, ctxDone
<1>1. ASSUME NEW h, NEW s \in Seq(Nat), NEW q \in Seq(Notices), Complete(loop.published, h, s, q)
      PROVE  Complete(loop'.published, h, s, Append(q, e))
  <2>1. loop.published \in Nat
    BY DEF Typed, LoopState
  <2>2. CASE e.kind = "message"
    BY <1>1, <2>1, <2>2, CompleteMore
  <2>3. CASE e.kind # "message"
    BY <1>1, <2>1, <2>3, CompleteElse
  <2> QED BY <2>2, <2>3
<1>2. Complete(loop'.published, History, inFlight, eventBus')
  BY <1>1 DEF Watching, Typed
<1>3. ASSUME NEW c \in subs, client[c].handler = "joined"
      PROVE  Complete(loop'.published, client[c].history, client[c].shown, queue[c] \o eventBus')
  <2>1. queue[c] \in Seq(Notices) /\ eventBus \in Seq(Notices) /\ client[c].shown \in Seq(Nat)
    BY DEF Typed, Screen
  <2>2. queue[c] \o eventBus \in Seq(Notices) /\ queue[c] \o eventBus' = Append(queue[c] \o eventBus, e)
    BY <2>1, Moves
  <2>3. Complete(loop.published, client[c].history, client[c].shown, queue[c] \o eventBus)
    BY <1>3 DEF Watching
  <2> QED BY <1>1, <2>1, <2>2, <2>3
<1> QED BY <1>2, <1>3

\* The events there are.
LEMMA EventTypes ==
    /\ \A n \in Nat : Notice("message", n) \in Notices /\ Notice("message", n).kind = "message"
                      /\ Notice("message", n).of = n
    /\ \A q \in Question : /\ Notice("asked", q) \in Notices /\ Notice("asked", q).kind = "asked"
                           /\ Notice("answered", q) \in Notices /\ Notice("answered", q).kind = "answered"
    /\ Fatal \in Notices /\ Fatal.kind = "fatal" /\ Gap \in Notices /\ Gap.kind = "gap"
  BY DEF Notice, Notices, Subject, Fatal, Gap

\* The agent's loop publishes a message, commits, fails or ends.
LEMMA LoopKeeps ==
    ASSUME WatchInv, Loop
    PROVE  WatchInv'
<1> USE DEF WatchInv
<1>0. loop \in LoopState
  BY DEF Typed
<1>1. Elicited' /\ UNCHANGED <<queue, subs, client, cause, ask, pending>>
  BY DEF Loop, PublishMessage, Commit, CommitFails, PublishFatal,
         LoopEnds, hubVars, clientVars, Elicited, AnswerReaches
<1>2. CASE PublishMessage
  <2> DEFINE e == Notice("message", loop.published + 1)
  <2>1. loop.published \in Nat /\ e \in Notices /\ e.kind = "message" /\ e.of = loop.published + 1
    BY <1>0, EventTypes DEF LoopState
  <2> HIDE DEF e
  <2>2. CASE Publish(e) /\ loop' = [loop EXCEPT !.published = @ + 1]
    <3>1. /\ loop'.published = loop.published + 1 /\ loop'.committed = loop.committed
          /\ loop' \in LoopState
      BY <1>0, <2>2 DEF LoopState
    <3>2. eventBus' = Append(eventBus, e) /\ eventBus' \in Seq(Notices) /\ inFlight' = inFlight
      BY <1>2, <2>1, <2>2 DEF Publish, Typed, PublishMessage, hubVars
    <3>3. Watching'
      BY <1>1, <2>1, <3>1, <3>2, PublishKeeps
    <3> QED BY <1>1, <3>1, <3>2, <3>3 DEF Typed
  <2>3. CASE GiveUp /\ loop' = [loop EXCEPT !.pc = "ended"]
    <3>1. /\ loop'.published = loop.published /\ loop'.committed = loop.committed
          /\ loop' \in LoopState
      BY <1>0, <2>3 DEF LoopState
    <3>2. eventBus' = eventBus /\ inFlight' = inFlight /\ ctxDone' = ctxDone
      BY <1>1, <1>2, <2>3 DEF GiveUp, PublishMessage, hubVars, ctxDone
    <3>3. Watching'
      BY <1>1, <3>1, <3>2, Unwatched
    <3> QED BY <1>1, <3>1, <3>2, <3>3 DEF Typed
  <2> QED BY <1>2, <2>2, <2>3 DEF PublishMessage, e
<1>3. CASE Commit
  <2>1. /\ loop'.published = loop.published /\ loop'.committed = loop.published
        /\ loop' \in LoopState
    BY <1>0, <1>3 DEF LoopState, Commit
  <2>2. eventBus' = eventBus /\ inFlight' = <<>> /\ inFlight' \in Seq(Nat) /\ ctxDone' = ctxDone
    BY <1>1, <1>3 DEF Commit, ctxDone
  <2>3. ~ctxDone => Complete(loop.published, 1 .. loop.published, <<>>, eventBus)
    BY CompleteHistory DEF Watching, Typed, LoopState
  <2>4. Watching'
    BY <1>1, <2>1, <2>2, <2>3 DEF Watching, History
  <2> QED BY <1>1, <2>1, <2>2, <2>4 DEF Typed
<1>4. CASE CommitFails \/ LoopEnds
  <2>1. /\ loop'.published = loop.published /\ loop'.committed = loop.committed
        /\ loop' \in LoopState
    <3>1. CASE loop' = [loop EXCEPT !.pc = "failed", !.failures = @ + 1]
      <4>1. loop.failures + 1 \in Nat
        BY <1>0 DEF LoopState
      <4>2. \A n \in Nat : LET l == [loop EXCEPT !.pc = "failed", !.failures = n] IN
                l \in LoopState /\ l.published = loop.published /\ l.committed = loop.committed
        BY <1>0 DEF LoopState
      <4> QED BY <3>1, <4>1, <4>2
    <3>2. CASE loop' = [loop EXCEPT !.pc = "ended"]
      BY <1>0, <3>2 DEF LoopState
    <3> QED BY <1>4, <3>1, <3>2 DEF CommitFails, LoopEnds
  <2>2. eventBus' = eventBus /\ inFlight' = inFlight /\ ctxDone' = ctxDone
    BY <1>1, <1>4 DEF CommitFails, LoopEnds, ctxDone, hubVars
  <2>3. Watching'
    BY <1>1, <2>1, <2>2, Unwatched
  <2> QED BY <1>1, <2>1, <2>2, <2>3 DEF Typed
<1>5. CASE PublishFatal
  <2>1. /\ loop'.published = loop.published /\ loop'.committed = loop.committed
        /\ loop' \in LoopState
    BY <1>0, <1>5 DEF LoopState, PublishFatal
  <2>2. inFlight' = inFlight /\ ctxDone' = ctxDone
    BY <1>1, <1>5 DEF PublishFatal, ctxDone, hubVars
  <2>3. CASE Publish(Fatal)
    <3>1. /\ eventBus' = Append(eventBus, Fatal) /\ eventBus' \in Seq(Notices)
          /\ Fatal \in Notices /\ Fatal.kind = "fatal"
      BY <2>3, EventTypes DEF Publish, Typed
    <3>2. Watching'
      BY <1>1, <2>1, <2>2, <3>1, PublishKeeps
    <3> QED BY <1>1, <2>1, <2>2, <3>1, <3>2 DEF Typed
  <2>4. CASE GiveUp
    <3>1. eventBus' = eventBus
      BY <2>4 DEF GiveUp
    <3>2. Watching'
      BY <1>1, <2>1, <2>2, <3>1, Unwatched
    <3> QED BY <1>1, <2>1, <2>2, <3>1, <3>2 DEF Typed
  <2> QED BY <1>5, <2>3, <2>4 DEF PublishFatal
<1> QED BY <1>2, <1>3, <1>4, <1>5 DEF Loop

\* The hub takes an event off the bus and sends it to the subscribers.
LEMMA HandleKeeps ==
    ASSUME WatchInv, Handle
    PROVE  WatchInv'
<1> USE DEF WatchInv
<1> DEFINE e == Head(eventBus)
           kept == {c \in subs : Offer(c, e)}
<1>1. /\ UNCHANGED <<loop, pending, ask, client, cause>> /\ eventBus' = Tail(eventBus)
      /\ inFlight' = IF e.kind = "message" THEN Append(inFlight, e.of) ELSE inFlight
      /\ queue' = [c \in Client |-> IF c \in kept THEN Append(queue[c], e)
                                     ELSE IF c \in subs THEN <<Gap>> ELSE queue[c]]
      /\ subs' = kept /\ eventBus # <<>>
  BY DEF Handle, NotifySubscribers
<1>2. /\ eventBus \in Seq(Notices) /\ e \in Notices /\ Tail(eventBus) \in Seq(Notices)
      /\ inFlight \in Seq(Nat) /\ inFlight' \in Seq(Nat) /\ kept \subseteq subs /\ subs \subseteq Client
      /\ \A c \in Client : queue[c] \in Seq(Notices)
  BY <1>1 DEF Typed, Notices
<1> HIDE DEF e, kept
<1>3. queue' \in [Client -> Seq(Notices)]
  <2>1. <<Gap>> \in Seq(Notices)
    BY EventTypes
  <2>2. \A c \in Client : Append(queue[c], e) \in Seq(Notices)
    BY <1>2
  <2> QED BY <1>1, <1>2, <2>1, <2>2
<1>4. Typed'
  BY <1>1, <1>2, <1>3 DEF Typed
<1>5. Elicited'
  BY <1>1 DEF Elicited, AnswerReaches
<1>6. Watching'
  <2> SUFFICES ASSUME ~ctxDone
               PROVE  /\ Complete(loop.published, History, inFlight', eventBus')
                      /\ \A c \in kept : client[c].handler = "joined" =>
                            Complete(loop.published, client[c].history, client[c].shown, queue'[c] \o eventBus')
    BY <1>1 DEF Watching, History, ctxDone
  <2>1. Complete(loop.published, History, inFlight', eventBus')
    <3>1. Complete(loop.published, History, inFlight, eventBus) /\ loop.published \in Nat
      BY DEF Watching, Typed, LoopState
    <3> QED BY <1>1, <1>2, <3>1, CompleteShown DEF e
  <2>2. ASSUME NEW c \in kept, client[c].handler = "joined"
        PROVE  Complete(loop.published, client[c].history, client[c].shown, queue'[c] \o eventBus')
    <3>1. queue'[c] = Append(queue[c], e) /\ queue[c] \in Seq(Notices)
      BY <1>1, <1>2, SMTT(30)
    <3>2. queue'[c] \o eventBus' = queue[c] \o eventBus
      BY <1>1, <1>2, <3>1, Moves DEF e
    <3> QED BY <1>2, <2>2, <3>2 DEF Watching
  <2> QED BY <2>1, <2>2
<1> QED BY <1>4, <1>5, <1>6

\* The hub ends the session, or itself.
LEMMA HubKeeps ==
    ASSUME WatchInv, CancelFatal \/ HubEnds
    PROVE  WatchInv'
<1> USE DEF WatchInv
<1>1. /\ UNCHANGED <<loop, inFlight, pending, ask, queue, subs, client>> /\ (ctxDone => ctxDone')
      /\ eventBus' = eventBus \/ (ctxDone' /\ eventBus' = <<>>)
  BY DEF CancelFatal, HubEnds, clientVars, ctxDone
<1>2. Watching'
  BY <1>1, Unwatched
<1>3. Typed'
  <2>1. <<>> \in Seq(Notices) /\ eventBus \in Seq(Notices)
    BY DEF Typed
  <2>2. eventBus' \in Seq(Notices)
    BY <1>1, <2>1
  <2> QED BY <1>1, <2>2 DEF Typed
<1>4. Elicited'
  BY <1>1 DEF Elicited, AnswerReaches
<1> QED BY <1>2, <1>3, <1>4

-----------------------------------------------------------------------------
(* Clients *)

\* A client joins: it is given the view, and what is in flight.
LEMMA JoinKeeps ==
    ASSUME WatchInv, NEW c \in Client, Join(c)
    PROVE  WatchInv'
<1> USE DEF WatchInv
<1> DEFINE s == [handler |-> "joined", history |-> History, shown |-> inFlight, form |-> pending]
<1>1. /\ UNCHANGED <<loop, eventBus, hub, inFlight, pending, ask, cause>>
      /\ subs' = subs \cup {c} /\ queue' = [queue EXCEPT ![c] = <<>>] /\ client' = [client EXCEPT ![c] = s]
  BY DEF Join, hubVars
<1>2. s \in Screen
  BY DEF Screen, Typed, LoopState, History, Subject
<1>3. s.history = History /\ s.shown = inFlight
  OBVIOUS
<1> HIDE DEF s
<1>4. /\ queue'[c] = <<>> /\ client'[c] = s /\ <<>> \in Seq(Notices)
      /\ \A d \in Client \ {c} : queue'[d] = queue[d] /\ client'[d] = client[d]
  BY <1>1 DEF Typed
<1>5. Typed'
  BY <1>1, <1>2, <1>4 DEF Typed
<1>6. Watching'
  <2>1. queue'[c] \o eventBus = eventBus
    BY <1>4, Moves DEF Typed
  <2> QED BY <1>1, <1>3, <1>4, <2>1 DEF Watching, History, ctxDone, Typed
<1>7. Elicited'
  BY <1>1 DEF Elicited, AnswerReaches
<1> QED BY <1>5, <1>6, <1>7

\* What an event does to a screen.
LEMMA AppliedType ==
    ASSUME NEW s \in Screen, NEW e \in Notices
    PROVE  /\ Applied(s, e) \in Screen /\ Applied(s, e).history = s.history
           /\ Applied(s, e).shown = IF e.kind = "message" THEN Append(s.shown, e.of) ELSE s.shown
           /\ Applied(s, e).handler = s.handler
<1>1. /\ s.shown \in Seq(Nat) /\ e.of \in Subject /\ None \in Subject /\ s.form \in Subject
      /\ e.kind = "message" => Append(s.shown, e.of) \in Seq(Nat)
  BY DEF Screen, Notices, Subject
<1> QED BY <1>1 DEF Applied, Screen

\* The screens of clients that are out.
LEMMA OutType == Out \in Screen /\ Returning \in Screen /\ Returning.handler = "returning"
                 /\ [Out EXCEPT !.handler = "left"] \in Screen
                 /\ [Out EXCEPT !.handler = "left"].handler = "left" /\ Out.handler = "out"
<1>1. <<>> \in Seq(Nat) /\ None \in Subject /\ {} \in SUBSET Nat
  BY DEF Subject
<1> QED BY <1>1 DEF Out, Returning, Screen

\* One client's screen or queue changes.
LEMMA OneClient ==
    ASSUME WatchInv, NEW c \in Client, NEW s \in Screen, client' = [client EXCEPT ![c] = s],
           NEW q \in Seq(Notices), queue' = [queue EXCEPT ![c] = q],
           UNCHANGED <<loop, eventBus, inFlight, cause>>, subs' \subseteq subs,
           pending' \in Question \cup {None}, ask' \in [Question -> Elicitation], Elicited',
           c \in subs' /\ s.handler = "joined" /\ ~ctxDone =>
              Complete(loop.published, s.history, s.shown, q \o eventBus)
    PROVE  WatchInv'
<1> USE DEF WatchInv
<1>1. /\ queue'[c] = q /\ client'[c] = s
      /\ \A d \in Client \ {c} : queue'[d] = queue[d] /\ client'[d] = client[d]
      /\ queue' \in [Client -> Seq(Notices)] /\ client' \in [Client -> Screen]
  BY DEF Typed
<1>2. Typed'
  BY <1>1 DEF Typed
<1>3. Watching'
  BY <1>1 DEF Watching, History, ctxDone, Typed
<1> QED BY <1>2, <1>3

\* A client takes the next event of its stream.
LEMMA ReceiveKeeps ==
    ASSUME WatchInv, NEW c \in Client, Receive(c)
    PROVE  WatchInv'
<1> USE DEF WatchInv
<1> DEFINE q == queue[c]
           e == Head(q)
           s == IF e = Gap THEN Returning
                ELSE IF client[c].handler = "joined" THEN Applied(client[c], e) ELSE client[c]
<1>1. /\ q # <<>> /\ client' = [client EXCEPT ![c] = s] /\ queue' = [queue EXCEPT ![c] = Tail(q)]
      /\ UNCHANGED <<loop, eventBus, inFlight, pending, ask, subs, cause>>
  BY DEF Receive, hubVars
<1>2. q \in Seq(Notices) /\ client[c] \in Screen /\ eventBus \in Seq(Notices) /\ inFlight \in Seq(Nat)
      /\ loop.published \in Nat /\ pending \in Question \cup {None} /\ ask \in [Question -> Elicitation]
  BY DEF Typed, LoopState
<1>3. e \in Notices /\ Tail(q) \in Seq(Notices)
  BY <1>1, <1>2
<1> HIDE DEF q, e
<1>4. s \in Screen
  BY <1>2, <1>3, AppliedType, OutType
<1>5. Elicited'
  BY <1>1 DEF Elicited, AnswerReaches
<1>6. ASSUME c \in subs', s.handler = "joined", ~ctxDone
      PROVE  Complete(loop.published, s.history, s.shown, Tail(q) \o eventBus)
  <2>1. client[c].handler = "joined" /\ s = Applied(client[c], e)
    BY <1>6, OutType
  <2>2. /\ s.history = client[c].history
        /\ s.shown = IF e.kind = "message" THEN Append(client[c].shown, e.of) ELSE client[c].shown
    BY <1>2, <1>3, <2>1, AppliedType, ZenonT(100)
  <2>3. Complete(loop.published, client[c].history, client[c].shown, q \o eventBus)
    BY <1>1, <1>6, <2>1 DEF Watching, q
  <2>4. /\ q \o eventBus \in Seq(Notices) /\ q \o eventBus # <<>>
        /\ Tail(q) \o eventBus = Tail(q \o eventBus) /\ e = Head(q \o eventBus)
    BY <1>1, <1>2, Moves DEF e
  <2>5. client[c].shown \in Seq(Nat)
    BY <1>2 DEF Screen
  <2> HIDE DEF s
  <2> QED BY <1>2, <2>2, <2>3, <2>4, <2>5, CompleteShown
<1> HIDE DEF s
<1> QED BY <1>1, <1>2, <1>3, <1>4, <1>5, <1>6, OneClient

\* A client is disconnected, or its stream ends.
LEMMA LeavingKeeps ==
    ASSUME WatchInv, NEW c \in Client,
           StreamEnds(c) \/ Disconnect(c) \/ NoticeDisconnect(c) \/ Unsubscribe(c)
    PROVE  WatchInv'
<1> USE DEF WatchInv
<1>1. PICK s \in {Returning, Out, [Out EXCEPT !.handler = "left"]}, q \in {queue[c], <<>>} :
         /\ client' = [client EXCEPT ![c] = s] /\ queue' = [queue EXCEPT ![c] = q]
  BY DEF Typed, StreamEnds, Disconnect, NoticeDisconnect, Unsubscribe
<1>2. UNCHANGED <<loop, eventBus, inFlight, pending, ask, cause>> /\ subs' \subseteq subs
  BY DEF StreamEnds, Disconnect, NoticeDisconnect, Unsubscribe, hubVars
<1>3. s \in Screen /\ s.handler # "joined"
  BY OutType
<1>4. /\ <<>> \in Seq(Notices) /\ queue[c] \in Seq(Notices)
      /\ pending \in Question \cup {None} /\ ask \in [Question -> Elicitation]
  BY DEF Typed
<1>5. Elicited'
  BY <1>2 DEF Elicited, AnswerReaches
<1> QED BY <1>1, <1>2, <1>3, <1>4, <1>5, OneClient

-----------------------------------------------------------------------------
(* Questions *)

\* A call moves on, and the question that is outstanding with it.
LEMMA OneCall ==
    ASSUME Typed, Elicited, NEW q \in Question, NEW r \in Elicitation, ask' = [ask EXCEPT ![q] = r],
           pending' \in {pending, None} \/ (pending' = q /\ pending = None),
           r.pc = "new" => r.given = None,
           pending' = q => r.pc \in {"publishing", "waiting"} /\ r.given = None,
           r.pc = "concluded" => r.result = IF r.given # None THEN r.given ELSE "cancel"
    PROVE  ask' \in [Question -> Elicitation] /\ pending' \in Question \cup {None} /\ Elicited'
<1>1. /\ ask'[q] = r /\ \A p \in Question \ {q} : ask'[p] = ask[p]
      /\ ask' \in [Question -> Elicitation] /\ pending \in Question \cup {None}
  BY DEF Typed
<1>2. \A p \in Question : ask'[p].pc = "new" => ask'[p].given = None
  BY <1>1 DEF Elicited
<1>3. pending' # None => ask'[pending'].pc \in {"publishing", "waiting"} /\ ask'[pending'].given = None
  BY <1>1 DEF Elicited
<1>4. AnswerReaches'
  BY <1>1 DEF Elicited, AnswerReaches
<1> QED BY <1>1, <1>2, <1>3, <1>4 DEF Elicited

\* Nothing that is watched changes.
LEMMA Untouched ==
    ASSUME WatchInv, UNCHANGED <<loop, eventBus, inFlight, queue, subs, client, cause>>,
           ask' \in [Question -> Elicitation] /\ pending' \in Question \cup {None} /\ Elicited'
    PROVE  WatchInv'
  BY DEF WatchInv, Typed, Watching, History, ctxDone

\* An elicitation's call is put, withdrawn or concluded.
LEMMA QuestionKeeps ==
    ASSUME WatchInv, NEW q \in Question,
           Ask(q) \/ Withdraw(q) \/ TakeConclusion(q) \/ CancelTurn(q)
    PROVE  WatchInv'
<1> USE DEF WatchInv
<1>1. UNCHANGED <<loop, eventBus, inFlight, queue, subs, client, cause>>
  BY DEF Ask, Withdraw, TakeConclusion, CancelTurn, hubVars, clientVars
<1>2. ask[q] \in Elicitation /\ q # None /\ pending \in Question \cup {None}
  BY StreamAssumption DEF Typed
<1>3. CASE Ask(q)
  <2>1. ask[q].pc = "new" /\ ask[q].given = None
    BY <1>3 DEF Ask, Elicited
  <2>2. CASE pending = None
    <3> DEFINE r == [ask[q] EXCEPT !.pc = "publishing"]
    <3>1. r \in Elicitation /\ r.pc = "publishing" /\ r.given = None
      BY <1>2, <2>1 DEF Elicitation
    <3>2. ask' = [ask EXCEPT ![q] = r] /\ pending' = q
      BY <1>3, <2>2 DEF Ask
    <3> HIDE DEF r
    <3> QED BY <1>1, <2>2, <3>1, <3>2, OneCall, Untouched
  <2>3. CASE pending # None
    <3> DEFINE r == [ask[q] EXCEPT !.pc = "refused"]
    <3>1. r \in Elicitation /\ r.pc = "refused"
      BY <1>2 DEF Elicitation
    <3>2. ask' = [ask EXCEPT ![q] = r] /\ pending' = pending
      BY <1>3, <2>3 DEF Ask
    <3>3. pending # q
      BY <1>2, <2>1 DEF Elicited
    <3> HIDE DEF r
    <3> QED BY <1>1, <3>1, <3>2, <3>3, OneCall, Untouched
  <2> QED BY <2>2, <2>3
<1>4. CASE Withdraw(q)
  <2>1. CASE pending = q
    <3> DEFINE r == [[ask[q] EXCEPT !.pc = "concluded"] EXCEPT !.result = "cancel"]
    <3>1. ask[q].given = None
      BY <1>2, <2>1 DEF Elicited
    <3>2. r \in Elicitation /\ r.pc = "concluded" /\ r.given = None /\ r.result = "cancel"
      BY <1>2, <3>1 DEF Elicitation, Outcome
    <3>3. ask' = [ask EXCEPT ![q] = r] /\ pending' = None
      BY <1>2, <1>4, <2>1 DEF Withdraw, Typed, Elicitation
    <3> HIDE DEF r
    <3> QED BY <1>1, <1>2, <3>2, <3>3, OneCall, Untouched
  <2>2. CASE pending # q
    <3> DEFINE r == [ask[q] EXCEPT !.pc = "committed"]
    <3>1. r \in Elicitation /\ r.pc = "committed"
      BY <1>2 DEF Elicitation
    <3>2. ask' = [ask EXCEPT ![q] = r] /\ pending' = pending
      BY <1>4, <2>2 DEF Withdraw
    <3> HIDE DEF r
    <3> QED BY <1>1, <2>2, <3>1, <3>2, OneCall, Untouched
  <2> QED BY <2>1, <2>2
<1>5. CASE TakeConclusion(q)
  <2> DEFINE r == [[ask[q] EXCEPT !.pc = "concluded"] EXCEPT !.result = ask[q].given]
  <2>1. ask[q].given # None
    BY <1>5 DEF TakeConclusion
  <2>2. r \in Elicitation /\ r.pc = "concluded" /\ r.given = ask[q].given /\ r.result = ask[q].given
    BY <1>2 DEF Elicitation
  <2>3. ask' = [ask EXCEPT ![q] = r] /\ pending' = pending
    BY <1>5, <1>2 DEF TakeConclusion, Typed, Elicitation
  <2>4. pending # q
    BY <1>2, <2>1 DEF Elicited
  <2> HIDE DEF r
  <2> QED BY <1>1, <2>1, <2>2, <2>3, <2>4, OneCall, Untouched
<1>6. CASE CancelTurn(q)
  <2> DEFINE r == [ask[q] EXCEPT !.given = "cancel"]
  <2>1. r \in Elicitation /\ r.pc \in {"publishing", "waiting"}
    BY <1>2, <1>6 DEF Elicitation, Outcome, Elicited, CancelTurn
  <2>2. ask' = [ask EXCEPT ![q] = r] /\ pending' = None
    BY <1>6 DEF CancelTurn
  <2> HIDE DEF r
  <2> QED BY <1>1, <1>2, <2>1, <2>2, OneCall, Untouched
<1> QED BY <1>3, <1>4, <1>5, <1>6

\* A client answers the outstanding question.
LEMMA AnswerKeeps ==
    ASSUME WatchInv, NEW q \in Question, NEW c \in Client, Answer(c, q)
    PROVE  WatchInv'
<1> USE DEF WatchInv
<1> DEFINE s == [client[c] EXCEPT !.form = None]
<1>1. /\ client[c] \in Screen /\ client' = [client EXCEPT ![c] = s] /\ queue[c] \in Seq(Notices)
      /\ queue' = [queue EXCEPT ![c] = queue[c]]
      /\ UNCHANGED <<loop, eventBus, inFlight, subs, cause>>
  BY DEF Typed, Answer, hubVars
<1>2. /\ s \in Screen /\ s.history = client[c].history /\ s.shown = client[c].shown
      /\ s.handler = client[c].handler
  BY <1>1 DEF Screen, Subject
<1> HIDE DEF s
<1>3. ask' \in [Question -> Elicitation] /\ pending' \in Question \cup {None} /\ Elicited'
  <2>1. CASE pending = q
    <3> DEFINE r == [ask[q] EXCEPT !.given = "accept"]
    <3>1. ask[q] \in Elicitation /\ q # None
      BY StreamAssumption DEF Typed
    <3>2. r \in Elicitation /\ r.pc \in {"publishing", "waiting"}
      BY <2>1, <3>1 DEF Elicitation, Outcome, Elicited
    <3>3. ask' = [ask EXCEPT ![q] = r] /\ pending' = None
      BY <2>1 DEF Answer
    <3> HIDE DEF r
    <3> QED BY <3>1, <3>2, <3>3, OneCall
  <2>2. CASE pending # q
    BY <2>2 DEF Answer, Typed, Elicited, AnswerReaches
  <2> QED BY <2>1, <2>2
<1>4. c \in subs' /\ s.handler = "joined" /\ ~ctxDone =>
          Complete(loop.published, s.history, s.shown, queue[c] \o eventBus)
  BY <1>1, <1>2 DEF Watching
<1> QED BY <1>1, <1>2, <1>3, <1>4, OneClient

\* An elicitation's call tells the clients of its question.
LEMMA PublishesKeep ==
    ASSUME WatchInv, NEW q \in Question, PublishAsked(q) \/ PublishAnswered(q)
    PROVE  WatchInv'
<1> USE DEF WatchInv
<1>1. UNCHANGED <<loop, inFlight, pending, queue, subs, client, cause>> /\ ask[q] \in Elicitation /\ q # None
  BY StreamAssumption DEF PublishAsked, PublishAnswered, hubVars, clientVars, Typed
<1>2. eventBus' \in Seq(Notices) /\ Watching'
  <2>1. CASE GiveUp
    <3>1. eventBus' = eventBus /\ ctxDone' = ctxDone
      BY <1>1, <2>1 DEF GiveUp, ctxDone
    <3> QED BY <1>1, <3>1, Unwatched DEF Typed
  <2>2. ASSUME NEW e \in Notices, e.kind # "message", Publish(e)
        PROVE  eventBus' \in Seq(Notices) /\ Watching'
    <3>1. eventBus' = Append(eventBus, e) /\ eventBus' \in Seq(Notices)
      BY <2>2 DEF Publish, Typed
    <3> QED BY <1>1, <2>2, <3>1, PublishKeeps
  <2>3. /\ Notice("asked", q) \in Notices /\ Notice("asked", q).kind # "message"
        /\ Notice("answered", q) \in Notices /\ Notice("answered", q).kind # "message"
    BY EventTypes
  <2> QED BY <2>1, <2>2, <2>3 DEF PublishAsked, PublishAnswered
<1>3. ask' \in [Question -> Elicitation] /\ Elicited'
  <2>1. CASE PublishAsked(q)
    <3> DEFINE r == [ask[q] EXCEPT !.pc = "waiting"]
    <3>1. r \in Elicitation /\ r.pc = "waiting" /\ r.given = ask[q].given
      BY <1>1 DEF Elicitation
    <3>2. ask' = [ask EXCEPT ![q] = r] /\ (pending = q => ask[q].given = None)
      BY <1>1, <2>1 DEF PublishAsked, Elicited
    <3> HIDE DEF r
    <3> QED BY <1>1, <3>1, <3>2, OneCall
  <2>2. CASE PublishAnswered(q)
    <3> DEFINE r == [pc |-> "returned", given |-> None, result |-> None]
    <3>1. r \in Elicitation /\ r.pc = "returned"
      BY DEF Elicitation, Outcome
    <3>2. ask' = [ask EXCEPT ![q] = r] /\ pending # q
      BY <1>1, <2>2 DEF PublishAnswered, Elicited
    <3> HIDE DEF r
    <3> QED BY <1>1, <3>1, <3>2, OneCall
  <2> QED BY <2>1, <2>2
<1> QED BY <1>1, <1>2, <1>3 DEF Typed

-----------------------------------------------------------------------------
(* The end of the session, and the theorems *)

\* The session is closed.
LEMMA ClosingKeeps ==
    ASSUME WatchInv, Closing \/ CloseSession \/ Done
    PROVE  WatchInv'
<1> USE DEF WatchInv
<1>1. /\ UNCHANGED <<loop, eventBus, inFlight, pending, ask, queue, client>> /\ subs' \subseteq subs
      /\ (ctxDone => ctxDone')
  BY DEF Closing, ReleaseAtEnd, CloseCancels, CloseReleases,
         ReleaseSubscribers, CloseSession, Done, streamVars, hubVars, clientVars, ctxDone
<1>2. Watching'
  BY <1>1, Unwatched
<1>3. Typed' /\ Elicited'
  BY <1>1 DEF Typed, Elicited, AnswerReaches
<1> QED BY <1>2, <1>3

\* The invariant holds at first,
LEMMA WatchInitially == StreamInit => WatchInv
<1> SUFFICES ASSUME StreamInit PROVE WatchInv
  OBVIOUS
<1>1. <<>> \in Seq(Notices) /\ <<>> \in Seq(Nat) /\ Out \in Screen
  BY OutType
<1>2. Typed
  BY <1>1 DEF StreamInit, Typed, LoopState, Elicitation, Outcome
<1>3. Complete(0, 1 .. 0, <<>>, <<>>)
  BY DEF Complete, Announced
<1>4. Watching
  BY <1>3 DEF StreamInit, Watching, History
<1>5. Elicited
  BY DEF StreamInit, Elicited, AnswerReaches
<1> QED BY <1>2, <1>4, <1>5 DEF WatchInv

\* and after every step,
LEMMA WatchPreserved == WatchInv /\ [StreamNext]_streamVars => WatchInv'
<1> SUFFICES ASSUME WatchInv, [StreamNext]_streamVars PROVE WatchInv'
  OBVIOUS
<1>1. CASE Loop
  BY <1>1, LoopKeeps
<1>2. CASE Hub
  BY <1>2, HandleKeeps, HubKeeps DEF Hub
<1>3. CASE Closing \/ CloseSession \/ Done
  BY <1>3, ClosingKeeps
<1>4. ASSUME NEW c \in Client, Join(c) \/ Stream(c) \/ Disconnect(c) PROVE WatchInv'
  BY <1>4, JoinKeeps, ReceiveKeeps, LeavingKeeps DEF Stream
<1>5. ASSUME NEW q \in Question,
             Ask(q) \/ Elicit(q) \/ Withdraw(q) \/ CancelTurn(q)
      PROVE  WatchInv'
  BY <1>5, QuestionKeeps, PublishesKeep DEF Elicit
<1>6. ASSUME NEW q \in Question, NEW c \in Client, Answer(c, q) PROVE WatchInv'
  BY <1>6, AnswerKeeps
<1>7. CASE UNCHANGED streamVars
  BY <1>7 DEF streamVars, WatchInv, Typed, Watching, History, ctxDone, Elicited, AnswerReaches
<1> QED BY <1>1, <1>2, <1>3, <1>4, <1>5, <1>6, <1>7 DEF StreamNext

\* so it holds always.
LEMMA Watched == StreamSpec => []WatchInv
<1>1. StreamInit => WatchInv
  BY WatchInitially
<1>2. WatchInv /\ [StreamNext]_streamVars => WatchInv'
  BY WatchPreserved
<1> QED BY <1>1, <1>2, PTL DEF StreamSpec

\* A client attached to a running session finds each message in its view or is
\* sent it ("never neither", runtime.go:185-187), and what it is sent comes in
\* order, however its queue fills, others come and go and messages are committed
\* meanwhile.  A message may do both, so that it is shown twice (JoinSessionEvents,
\* handlerForSessionEvents, commitMessages).
THEOREM ClientsMissNothing == StreamSpec => []MissesNothing
<1>1. WatchInv => MissesNothing
  BY DEF WatchInv, Watching, MissesNothing
<1>2. StreamSpec => []WatchInv
  BY Watched
<1> QED BY <1>1, <1>2, PTL

\* An answer that was accepted is the one the MCP server gets, and without one
\* it is told that its question was canceled (elicitation.go MCPElicit and
\* ResolveElicitation, session.go CancelTurn).
THEOREM AnswersAreTheServers == StreamSpec => []AnswerReaches
<1>1. WatchInv => AnswerReaches
  BY DEF WatchInv, Elicited
<1>2. StreamSpec => []WatchInv
  BY Watched
<1> QED BY <1>1, <1>2, PTL
=============================================================================
