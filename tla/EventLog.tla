------------------------------ MODULE EventLog ------------------------------
(***************************************************************************)
(* What a session timeline promises its session, whatever happens to the   *)
(* process that writes it: events are never lost once they are stored, the *)
(* head only ever moves forward to a stored event, and an event is         *)
(* acknowledged only when it is stored and the head has reached it.        *)
(***************************************************************************)
EXTENDS Naturals

CONSTANT Preloaded   \* events acknowledged before the behaviour starts

VARIABLES events,    \* the stored events; a later event is a larger number
          head,      \* the event the next conversation turn continues from
          acked      \* the events whose append was reported successful

vars == <<events, head, acked>>

Init ==
    /\ events = 1..Preloaded
    /\ head = Preloaded
    /\ acked = 1..Preloaded

\* Events reach the store, possibly without anybody being told.
Store ==
    /\ events \subseteq events'

\* The head stays, or moves to a stored event newer than itself.
MoveHead ==
    \/ head' = head
    \/ head' \in events' /\ head' > head

\* The event just reached by the head may be acknowledged.
Acknowledge ==
    \/ acked' = acked
    \/ acked' = acked \cup {head'} /\ head' \in events'

Next == Store /\ MoveHead /\ Acknowledge

Spec == Init /\ [][Next]_vars

\* Everything acknowledged is stored, and the head is not behind it.
Kept == acked \subseteq events /\ \A e \in acked : e <= head
=============================================================================
