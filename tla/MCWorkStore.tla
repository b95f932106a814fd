---------------------------- MODULE MCWorkStore ----------------------------
(* Checks WorkStore.                                                       *)
EXTENDS WorkStore

Plain(t) ==
    /\ tasks[t].case = 0 /\ tasks[t].queue = Nobody
    /\ tasks[t].principal = Nobody /\ tasks[t].group = Nobody
    /\ tasks[t].kind = "review"

(* Three parts of the store that share no state are explored apart:        *)
(* participants of cases, dependencies and checklists, queues and SLAs.    *)
OneConcern ==
    \/ tasks = <<>> /\ queues = {} /\ slaTargets = <<>>
    \/ /\ Len(participants) = 0 /\ cases = <<>> /\ queues = {}
       /\ Len(slaTargets) = 0 /\ workClock = 1
       /\ \A t \in DOMAIN tasks : Plain(t)
    \/ /\ Len(participants) = 0 /\ dependencies = {} /\ Len(checklist) = 0
       /\ Len(tasks) <= 1

MCAcceptedKinds == [q \in Queues |-> IF q = "fast" THEN {"review"} ELSE {}]
=============================================================================
