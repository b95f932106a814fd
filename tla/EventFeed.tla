------------------------------ MODULE EventFeed ------------------------------
(***************************************************************************)
(* What the outbox and the inbox together promise to a consumer: a log of  *)
(* events that only grows, and each event takes effect at most once at     *)
(* each consumer, after it was published.  Nothing is promised about order *)
(* or about an event taking effect at all.  EventDelivery implements this. *)
(***************************************************************************)
EXTENDS Naturals

CONSTANTS Consumers, EventIds

VARIABLES
    published,   \* the number of events in the log
    effects      \* effects[c][e]: how often e took effect at c

vars == <<published, effects>>

Init ==
    /\ published = 0
    /\ effects = [c \in Consumers |-> [e \in EventIds |-> 0]]

Publish ==
    /\ published' \in EventIds
    /\ published' > published
    /\ UNCHANGED effects

TakeEffect(c, e) ==
    /\ e <= published
    /\ effects[c][e] = 0
    /\ effects' = [effects EXCEPT ![c][e] = 1]
    /\ UNCHANGED published

Next ==
    \/ Publish
    \/ \E c \in Consumers, e \in EventIds : TakeEffect(c, e)

Spec == Init /\ [][Next]_vars
=============================================================================
