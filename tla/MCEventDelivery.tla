--------------------------- MODULE MCEventDelivery ---------------------------
(***************************************************************************)
(* An instance of EventDelivery for TLC.  Entries of the outbox do not     *)
(* influence each other but through the order and the limit of a lease     *)
(* and, if they are of one event, through its inboxes; the audit log       *)
(* stands alone.  So one event with one entry is followed through          *)
(* everything that two workers and two consumers can do with it; beside    *)
(* that, one event enqueued twice, within the limits of TwoEntries,        *)
(* several events and writers with untouched inboxes and first attempts,   *)
(* and the audit log with the rest at rest.                                *)
(***************************************************************************)
EXTENDS EventDelivery

UntouchedBy(c) == inbox[c] = [e \in EventIds |-> "None"]

AttemptsBelow(n) == \A i \in DOMAIN outbox : outbox[i].attempts < n

(* One event, and its entry.                                               *)
OneEntry == Len(events) = 1 /\ Len(outbox) = 1

Idle(w) == \A i \in OutboxIds : lease[w][i] = "None"

OneInTime ==
    /\ late = {}
    /\ \E w \in Workers : Idle(w) /\ \A i \in DOMAIN outbox : outbox[i].holder # w

(* One event in the outbox twice: with two workers and late answers until  *)
(* an entry is leased again, or one worker at a time, not late, until one  *)
(* is leased a third time.  The consumers take it one after the other.     *)
TwoEntries ==
    /\ Len(events) = 1 /\ Len(outbox) = 2
    /\ AttemptsBelow(2) \/ (AttemptsBelow(3) /\ OneInTime)
    /\ \E c \in Consumers :
         \A d \in Consumers \ {c} : inbox[d][1] \in {"None", "Processed"}

(* Several events, with an entry each, that no consumer has begun.         *)
FirstAttempts ==
    /\ Len(outbox) = Len(events)
    /\ \A c \in Consumers : UntouchedBy(c)
    /\ AttemptsBelow(IF Len(events) < 3 THEN 2 ELSE 1)

OneFocus ==
    \/ OneEntry /\ audit = <<>> /\ \A w \in Writers : seen[w] = 0
    \/ TwoEntries /\ audit = <<>> /\ \A w \in Writers : seen[w] = 0
    \/ FirstAttempts /\ audit = <<>>
    \/ events = <<>>
=============================================================================
