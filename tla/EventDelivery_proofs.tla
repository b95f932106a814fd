------------------------ MODULE EventDelivery_proofs ------------------------
(***************************************************************************)
(* For any writers, workers, consumers, organizations and bounds: the      *)
(* event store is of its type, leases overlap only after a late answer,    *)
(* appends extend what is there, and the store implements EventFeed.       *)
(***************************************************************************)
EXTENDS EventDelivery, WellFoundedInduction, TLAPS

(* A lease is of an entry that exists; the entry of a running lease is     *)
(* leased by its holder, until an answer comes late.                       *)
LeasesAreHeld ==
    \A w \in Workers, i \in OutboxIds :
      /\ lease[w][i] # "None" => i \in DOMAIN outbox
      /\ lease[w][i] = "Running" /\ i \notin late =>
           outbox[i].state = "Leased" /\ outbox[i].holder = w

(* Who is at work on an event has begun it and not ended it, and it has    *)
(* taken effect once where it was processed, and nowhere else.             *)
EffectIsProcessed(c, e) ==
    /\ <<c, e>> \in working => inbox[c][e] = "Processing"
    /\ effects[c][e] = IF inbox[c][e] = "Processed" THEN 1 ELSE 0

EffectsAreProcessed == \A c \in Consumers, e \in EventIds : EffectIsProcessed(c, e)

DeliveryInv == TypeOK /\ LeasesAreHeld /\ EffectsAreProcessed

-----------------------------------------------------------------------------
(* The type invariant, in the parts that actions change together.          *)

StreamOK ==
    /\ events \in Seq(Event) /\ Len(events) <= MaxEvents
    /\ stream \in Seq(DOMAIN events) /\ seen \in [Writers -> Nat]

OutboxOK ==
    /\ outbox \in Seq(OutboxItem) /\ Len(outbox) <= MaxOutbox
    /\ \A i \in DOMAIN outbox : outbox[i].event \in DOMAIN events

LeaseOK ==
    /\ lease \in [Workers -> [OutboxIds -> {"None", "Running", "Over"}]]
    /\ late \subseteq DOMAIN outbox

InboxOK ==
    /\ inbox \in [Consumers -> [EventIds -> InboxState]]
    /\ working \subseteq Consumers \X DOMAIN events
    /\ effects \in [Consumers -> [EventIds -> Nat]]

AuditOK == audit \in Seq(AuditEntry)

LEMMA TypeInParts ==
    TypeOK <=> StreamOK /\ OutboxOK /\ LeaseOK /\ InboxOK /\ AuditOK
BY DEF TypeOK, StreamOK, OutboxOK, LeaseOK, InboxOK, AuditOK

LEMMA PartsMakeType ==
    StreamOK' /\ OutboxOK' /\ LeaseOK' /\ InboxOK' /\ AuditOK' => TypeOK'
BY DEF TypeOK, StreamOK, OutboxOK, LeaseOK, InboxOK, AuditOK

LEMMA Positions ==
    ASSUME StreamOK, OutboxOK
    PROVE  /\ Len(events) \in Nat /\ DOMAIN events = 1..Len(events)
           /\ Len(outbox) \in Nat /\ DOMAIN outbox = 1..Len(outbox)
           /\ DOMAIN events \subseteq EventIds /\ DOMAIN outbox \subseteq OutboxIds
BY EventDeliveryAssumption DEF StreamOK, OutboxOK, EventIds, OutboxIds

LEMMA MaxIsMember ==
    ASSUME NEW n \in Nat, NEW S \in SUBSET (1..n), S # {}
    PROVE  Max(S) \in S
<1> DEFINE T == {n - x : x \in S}
           R == {pair \in Nat \X Nat : pair[1] < pair[2]}
<1>1. \A x \in S : x \in Nat /\ n - x \in Nat
  OBVIOUS
<1>2. IsWellFoundedOn(R, Nat)
  BY NatLessThanWellFounded, Zenon DEF OpToRel
<1>3. T \subseteq Nat /\ T # {}
  BY <1>1
<1> HIDE DEF R
<1>4. PICK t \in T : \A u \in T : ~(<<u, t>> \in R)
  BY <1>2, <1>3, WFMin
<1>5. ASSUME NEW u \in T PROVE t <= u
  <2>1. u \in Nat /\ t \in Nat /\ <<u, t>> \notin R
    BY <1>3, <1>4
  <2> QED
    BY <2>1 DEF R
<1>6. PICK x \in S : t = n - x
  OBVIOUS
<1>7. \A y \in S : x >= y
  BY <1>1, <1>5, <1>6
<1> QED
  BY <1>7 DEF Max

-----------------------------------------------------------------------------
(* Writers.                                                                *)

LEMMA Concatenated ==
    ASSUME NEW S, NEW s \in Seq(S), NEW t \in Seq(S)
    PROVE  /\ s \o t \in Seq(S) /\ Len(s \o t) = Len(s) + Len(t)
           /\ \A i \in DOMAIN s : (s \o t)[i] = s[i]
           /\ \A i \in DOMAIN t : (s \o t)[Len(s) + i] = t[i]
OBVIOUS

LEMMA Extension ==
    ASSUME StreamOK, NEW new \in Seq(Event), Len(events) + Len(new) <= MaxEvents,
           events' = events \o new
    PROVE  /\ events' \in Seq(Event) /\ Len(events') = Len(events) + Len(new)
           /\ Len(events') <= MaxEvents /\ DOMAIN events' = 1..Len(events) + Len(new)
           /\ \A i \in DOMAIN events : events'[i] = events[i]
           /\ \A i \in DOMAIN new : events'[Len(events) + i] = new[i]
           /\ DOMAIN events \subseteq DOMAIN events'
BY DEF StreamOK

(* Entries are put in for events that exist then.                          *)
LEMMA OutboxExtension ==
    ASSUME StreamOK, OutboxOK, events' \in Seq(Event), Len(events') <= MaxEvents,
           DOMAIN events \subseteq DOMAIN events', NEW ids \in Seq(DOMAIN events'),
           Len(outbox) + Len(ids) <= MaxOutbox, outbox' = outbox \o Enqueued(ids)
    PROVE  /\ OutboxOK' /\ DOMAIN outbox \subseteq DOMAIN outbox'
           /\ \A i \in DOMAIN outbox : outbox'[i] = outbox[i]
<1> DEFINE new == Enqueued(ids)
<1>1. /\ outbox \in Seq(OutboxItem) /\ Len(outbox) \in Nat /\ Len(ids) \in Nat
      /\ \A i \in DOMAIN outbox : outbox[i].event \in DOMAIN events
  BY DEF OutboxOK
<1>2. DOMAIN events' \subseteq EventIds
  BY EventDeliveryAssumption DEF EventIds
<1>3. \A k \in DOMAIN ids : new[k] \in OutboxItem /\ new[k].event = ids[k]
  BY <1>2 DEF Enqueued, OutboxItem, OutboxState, MaxAttempts
<1>4. new = [k \in 1..Len(ids) |-> new[k]] /\ DOMAIN ids = 1..Len(ids)
  BY DEF Enqueued
<1>5. \A k \in DOMAIN ids : ids[k] \in DOMAIN events'
  OBVIOUS
<1> HIDE DEF new
<1>6. new \in Seq(OutboxItem) /\ Len(new) = Len(ids)
  BY <1>1, <1>3, <1>4
<1>7. outbox' = outbox \o new
  BY DEF new
<1>8. /\ outbox' \in Seq(OutboxItem) /\ Len(outbox') = Len(outbox) + Len(ids)
      /\ \A i \in DOMAIN outbox : outbox'[i] = outbox[i]
      /\ \A i \in DOMAIN new : outbox'[Len(outbox) + i] = new[i]
  <2>1. /\ outbox \o new \in Seq(OutboxItem)
        /\ Len(outbox \o new) = Len(outbox) + Len(new)
    BY <1>1, <1>6, Concatenated, Zenon
  <2>2. \A i \in DOMAIN outbox : (outbox \o new)[i] = outbox[i]
    BY <1>1, <1>6
  <2>3. \A i \in DOMAIN new : (outbox \o new)[Len(outbox) + i] = new[i]
    BY <1>1, <1>6
  <2> QED
    BY <1>6, <1>7, <2>1, <2>2, <2>3
<1>9. ASSUME NEW i \in DOMAIN outbox' PROVE outbox'[i].event \in DOMAIN events'
  <2>1. i \in 1..Len(outbox) + Len(ids)
    BY <1>8
  <2>2. CASE i \in 1..Len(outbox)
    BY <1>1, <1>8, <2>2
  <2>3. CASE i \in Len(outbox) + 1..Len(outbox) + Len(ids)
    <3>1. i - Len(outbox) \in DOMAIN ids /\ Len(outbox) + (i - Len(outbox)) = i
      BY <1>1, <2>3
    <3>2. outbox'[i] = new[i - Len(outbox)]
      BY <1>4, <1>8, <3>1
    <3> QED
      BY <1>3, <1>5, <3>1, <3>2
  <2> QED
    BY <1>1, <2>1, <2>2, <2>3
<1> QED
  BY <1>1, <1>8, <1>9 DEF OutboxOK

(* Whatever grows, leases and effects are of what was there.               *)
LEMMA GrowthKeepsRest ==
    ASSUME DeliveryInv, DOMAIN events \subseteq DOMAIN events',
           DOMAIN outbox \subseteq DOMAIN outbox',
           \A i \in DOMAIN outbox : outbox'[i] = outbox[i],
           UNCHANGED <<workerVars, consumerVars>>
    PROVE  LeaseOK' /\ InboxOK' /\ LeasesAreHeld' /\ EffectsAreProcessed'
<1>1. LeaseOK /\ InboxOK
  BY TypeInParts DEF DeliveryInv
<1> QED
  BY <1>1 DEF DeliveryInv, LeaseOK, InboxOK, LeasesAreHeld, EffectsAreProcessed,
              EffectIsProcessed, workerVars, consumerVars

LEMMA Appended ==
    ASSUME NEW S, NEW s \in Seq(S), NEW x \in S
    PROVE  Append(s, x) = s \o <<x>>
OBVIOUS

LEMMA PublishIsExtension ==
    ASSUME StreamOK, NEW w \in Writers, Publish(w),
           NEW new, new = <<[version |-> 0, author |-> w, seen |-> 0]>>
    PROVE  /\ new \in Seq(Event) /\ Len(new) = 1 /\ new # <<>>
           /\ events' = events \o new /\ Len(events) + Len(new) <= MaxEvents
<1>1. [version |-> 0, author |-> w, seen |-> 0] \in Event
  BY DEF Event
<1>2. new \in Seq(Event) /\ Len(new) = 1 /\ new # <<>>
  BY <1>1
<1>3. /\ events \in Seq(Event) /\ Len(events) < MaxEvents
      /\ events' = Append(events, [version |-> 0, author |-> w, seen |-> 0])
  BY DEF StreamOK, Publish
<1>4. events' = events \o new
  <2>1. PICK e \in Event : e = [version |-> 0, author |-> w, seen |-> 0]
    BY <1>1
  <2>2. Append(events, e) = events \o <<e>>
    BY <1>3, Appended
  <2> QED
    BY <1>3, <2>1, <2>2
<1> QED
  BY <1>2, <1>3, <1>4, EventDeliveryAssumption

LEMMA PublishKeepsInv ==
    ASSUME DeliveryInv, NEW w \in Writers, Publish(w) PROVE DeliveryInv'
<1> DEFINE new == <<[version |-> 0, author |-> w, seen |-> 0]>>
           ids == <<Len(events) + 1>>
<1>1. StreamOK /\ OutboxOK /\ AuditOK /\ Len(events) \in Nat /\ Len(outbox) \in Nat
  BY TypeInParts, Positions DEF DeliveryInv
<1>2. /\ new \in Seq(Event) /\ Len(new) = 1 /\ events' = events \o new
      /\ Len(events) + Len(new) <= MaxEvents /\ outbox' = outbox \o Enqueued(ids)
      /\ Len(outbox) + 1 <= MaxOutbox
  <2>1. /\ new \in Seq(Event) /\ Len(new) = 1 /\ events' = events \o new
        /\ Len(events) + Len(new) <= MaxEvents
    BY <1>1, PublishIsExtension, Zenon
  <2> HIDE DEF new
  <2>2. outbox' = outbox \o Enqueued(ids) /\ Len(outbox) < MaxOutbox
    BY DEF Publish
  <2> QED
    BY <1>1, <2>1, <2>2, EventDeliveryAssumption
<1> HIDE DEF new
<1>3. /\ events' \in Seq(Event) /\ Len(events') <= MaxEvents
      /\ DOMAIN events \subseteq DOMAIN events' /\ DOMAIN events' = 1..Len(events) + 1
  BY <1>1, <1>2, Extension
<1>4. ids \in Seq(DOMAIN events') /\ Len(ids) = 1
  BY <1>1, <1>3
<1> HIDE DEF ids
<1>5. /\ OutboxOK' /\ DOMAIN outbox \subseteq DOMAIN outbox'
      /\ \A i \in DOMAIN outbox : outbox'[i] = outbox[i]
  BY <1>1, <1>2, <1>3, <1>4, OutboxExtension
<1>6. StreamOK' /\ AuditOK'
  BY <1>1, <1>3 DEF Publish, StreamOK, AuditOK
<1>7. UNCHANGED <<workerVars, consumerVars>>
  BY DEF Publish
<1> QED
  BY <1>3, <1>5, <1>6, <1>7, GrowthKeepsRest, PartsMakeType DEF DeliveryInv

LEMMA OutboxEnqueueKeepsInv ==
    ASSUME DeliveryInv, NEW e \in DOMAIN events, OutboxEnqueue(e) PROVE DeliveryInv'
<1>1. StreamOK /\ OutboxOK /\ AuditOK /\ Len(outbox) \in Nat
  BY TypeInParts, Positions DEF DeliveryInv
<1>2. /\ UNCHANGED <<events, stream, audit, seen, workerVars, consumerVars>>
      /\ outbox' = outbox \o Enqueued(<<e>>) /\ Len(outbox) < MaxOutbox
  BY DEF OutboxEnqueue
<1>3. /\ events' \in Seq(Event) /\ Len(events') <= MaxEvents
      /\ DOMAIN events \subseteq DOMAIN events'
      /\ <<e>> \in Seq(DOMAIN events') /\ Len(<<e>>) = 1
  BY <1>1, <1>2 DEF StreamOK
<1>4. Len(outbox) + Len(<<e>>) <= MaxOutbox
  BY <1>1, <1>2, EventDeliveryAssumption
<1>5. /\ OutboxOK' /\ DOMAIN outbox \subseteq DOMAIN outbox'
      /\ \A i \in DOMAIN outbox : outbox'[i] = outbox[i]
  BY <1>1, <1>2, <1>3, <1>4, OutboxExtension
<1>6. StreamOK' /\ AuditOK'
  BY <1>1, <1>2 DEF StreamOK, AuditOK
<1> QED
  BY <1>2, <1>3, <1>5, <1>6, GrowthKeepsRest, PartsMakeType DEF DeliveryInv

LEMMA StreamAppendKeepsInv ==
    ASSUME DeliveryInv, NEW w \in Writers, NEW n \in 1..MaxBatch, StreamAppend(w, n)
    PROVE  DeliveryInv'
<1> DEFINE new == [k \in 1..n |->
                     [version |-> Len(stream) + k, author |-> w, seen |-> seen[w]]]
           ids == [k \in 1..n |-> Len(events) + k]
<1>1. StreamOK /\ OutboxOK /\ AuditOK /\ n \in Nat
  BY TypeInParts, EventDeliveryAssumption DEF DeliveryInv
<1>2. Len(events) \in Nat /\ Len(stream) \in Nat /\ seen[w] \in Nat
  BY <1>1 DEF StreamOK
<1>3. /\ new \in Seq(Event) /\ Len(new) = n
      /\ ids \in Seq(1..Len(events) + n) /\ Len(ids) = n
  BY <1>1, <1>2 DEF Event
<1>4. /\ events' = events \o new /\ outbox' = outbox \o Enqueued(ids)
      /\ stream' = stream \o ids
      /\ Len(events) + n <= MaxEvents /\ Len(outbox) + n <= MaxOutbox
  BY DEF StreamAppend
<1> HIDE DEF new, ids
<1>5. /\ events' \in Seq(Event) /\ Len(events') <= MaxEvents
      /\ DOMAIN events' = 1..Len(events) + n
      /\ DOMAIN events \subseteq DOMAIN events'
  BY <1>1, <1>3, <1>4, Extension
<1>6. /\ OutboxOK' /\ DOMAIN outbox \subseteq DOMAIN outbox'
      /\ \A i \in DOMAIN outbox : outbox'[i] = outbox[i]
  <2>1. ids \in Seq(DOMAIN events') /\ Len(outbox) + Len(ids) <= MaxOutbox
    BY <1>3, <1>4, <1>5
  <2> QED
    BY <1>1, <1>4, <1>5, <2>1, OutboxExtension
<1>7. stream' \in Seq(DOMAIN events')
  <2>1. stream \in Seq(DOMAIN events') /\ ids \in Seq(DOMAIN events')
    BY <1>1, <1>3, <1>5 DEF StreamOK
  <2> QED
    BY <1>4, <2>1
<1>8. StreamOK' /\ AuditOK'
  BY <1>1, <1>5, <1>7 DEF StreamAppend, StreamOK, AuditOK
<1>9. UNCHANGED <<workerVars, consumerVars>>
  BY DEF StreamAppend
<1> QED
  BY <1>5, <1>6, <1>8, <1>9, GrowthKeepsRest, PartsMakeType DEF DeliveryInv

LEMMA WriteKeepsInv == DeliveryInv /\ Write => DeliveryInv'
<1>1. ASSUME DeliveryInv, NEW w \in Writers, ReadStream(w) PROVE DeliveryInv'
  <2>1. seen' \in [Writers -> Nat]
    BY <1>1 DEF DeliveryInv, TypeOK, ReadStream
  <2> QED
    BY <1>1, <2>1 DEF ReadStream, DeliveryInv, TypeOK, LeasesAreHeld,
                      EffectsAreProcessed, EffectIsProcessed, storeVars, workerVars,
                      consumerVars
<1> QED
  BY <1>1, PublishKeepsInv, StreamAppendKeepsInv DEF Write

-----------------------------------------------------------------------------
(* Workers and the outbox.                                                 *)

LEMMA RewrittenOutbox ==
    ASSUME OutboxOK, UNCHANGED events,
           outbox' = [i \in DOMAIN outbox |-> outbox'[i]],
           \A i \in DOMAIN outbox :
             outbox'[i] \in OutboxItem /\ outbox'[i].event = outbox[i].event
    PROVE  OutboxOK'
<1>1. DOMAIN outbox = 1..Len(outbox) /\ Len(outbox) \in Nat
  BY DEF OutboxOK
<1>2. /\ outbox' \in Seq(OutboxItem) /\ Len(outbox') = Len(outbox)
      /\ DOMAIN outbox' = DOMAIN outbox
  BY <1>1
<1> QED
  BY <1>2 DEF OutboxOK

LEMMA WorkerStep ==
    ASSUME DeliveryInv, UNCHANGED <<events, stream, audit, seen, consumerVars>>,
           OutboxOK', LeaseOK', LeasesAreHeld'
    PROVE  DeliveryInv'
<1>1. StreamOK /\ InboxOK /\ AuditOK
  BY TypeInParts DEF DeliveryInv
<1>2. StreamOK' /\ InboxOK' /\ AuditOK' /\ EffectsAreProcessed'
  BY <1>1 DEF StreamOK, InboxOK, AuditOK, DeliveryInv, EffectsAreProcessed,
              EffectIsProcessed, consumerVars
<1> QED
  BY <1>2, PartsMakeType DEF DeliveryInv

LEMMA LeasedItem ==
    ASSUME NEW item \in OutboxItem, NEW w \in Workers
    PROVE  /\ Leased(item, w) \in OutboxItem
           /\ Leased(item, w).event = item.event
           /\ Leased(item, w).state = "Leased" /\ Leased(item, w).holder = w
<1> DEFINE attempts == IF item.attempts < MaxAttempts THEN item.attempts + 1 ELSE item.attempts
<1>1. attempts \in 0..MaxAttempts
  BY DEF OutboxItem, MaxAttempts
<1>2. Leased(item, w) =
        [item EXCEPT !.state = "Leased", !.holder = w, !.attempts = attempts]
  BY DEF Leased, OutboxItem
<1> HIDE DEF attempts
<1> QED
  BY <1>1, <1>2 DEF OutboxItem, OutboxState

LEMMA LeaseKeepsInv ==
    ASSUME DeliveryInv, NEW w \in Workers, NEW limit \in OutboxIds, Lease(w, limit)
    PROVE  DeliveryInv'
<1> DEFINE taken == FirstLeasable(limit)
<1>1. StreamOK /\ OutboxOK /\ LeaseOK /\ DOMAIN outbox \subseteq OutboxIds
  BY TypeInParts, Positions DEF DeliveryInv
<1>2. /\ taken \subseteq DOMAIN outbox
      /\ \A i \in taken : outbox[i].state # "Leased"
  BY DEF FirstLeasable, Leasable
<1>3. \A i \in DOMAIN outbox : outbox[i] \in OutboxItem
  BY <1>1 DEF OutboxOK
<1>4. /\ outbox' = [i \in DOMAIN outbox |->
                      IF i \in taken THEN Leased(outbox[i], w) ELSE outbox[i]]
      /\ lease' = [lease EXCEPT ![w] = [i \in OutboxIds |->
                     IF i \in taken THEN "Running" ELSE lease[w][i]]]
      /\ UNCHANGED <<events, stream, audit, seen, consumerVars, late>>
  BY DEF Lease
<1> HIDE DEF taken
<1>5. OutboxOK'
  <2>1. \A i \in DOMAIN outbox :
          outbox'[i] \in OutboxItem /\ outbox'[i].event = outbox[i].event
    BY <1>3, <1>4, LeasedItem
  <2> QED
    BY <1>1, <1>4, <2>1, RewrittenOutbox
<1>6. /\ LeaseOK'
      /\ \A v \in Workers, i \in OutboxIds :
           lease'[v][i] = IF v = w /\ i \in taken THEN "Running" ELSE lease[v][i]
  BY <1>1, <1>4 DEF LeaseOK
<1>7. LeasesAreHeld'
  <2> SUFFICES ASSUME NEW v \in Workers, NEW i \in OutboxIds
               PROVE  /\ lease'[v][i] # "None" => i \in DOMAIN outbox'
                      /\ lease'[v][i] = "Running" /\ i \notin late' =>
                           outbox'[i].state = "Leased" /\ outbox'[i].holder = v
    BY DEF LeasesAreHeld
  <2>1. /\ lease[v][i] # "None" => i \in DOMAIN outbox
        /\ lease[v][i] = "Running" /\ i \notin late =>
             outbox[i].state = "Leased" /\ outbox[i].holder = v
    BY DEF DeliveryInv, LeasesAreHeld
  <2>2. CASE i \in taken
    <3>1. outbox'[i].state = "Leased" /\ outbox'[i].holder = w
      BY <1>2, <1>3, <1>4, <2>2, LeasedItem
    <3> QED
      BY <1>2, <1>4, <1>6, <2>1, <2>2, <3>1
  <2>3. CASE i \notin taken
    BY <1>4, <1>6, <2>1, <2>3
  <2> QED
    BY <2>2, <2>3
<1> QED
  BY <1>4, <1>5, <1>6, <1>7, WorkerStep

LEMMA LossOfLeasesKeepsInv ==
    ASSUME DeliveryInv, NEW w \in Workers
    PROVE  /\ \A i \in OutboxIds : LeaseEnds(w, i) => DeliveryInv'
           /\ Crash(w) => DeliveryInv'
<1>1. OutboxOK /\ LeaseOK
  BY TypeInParts DEF DeliveryInv
<1>2. ASSUME LeaseOK', UNCHANGED <<events, outbox, stream, audit, seen, consumerVars, late>>,
             \A v \in Workers, i \in OutboxIds :
               /\ lease'[v][i] # "None" => lease[v][i] # "None"
               /\ lease'[v][i] = "Running" => lease[v][i] = "Running"
      PROVE  DeliveryInv'
  <2>1. OutboxOK' /\ LeasesAreHeld'
    BY <1>1, <1>2 DEF OutboxOK, DeliveryInv, LeasesAreHeld
  <2> QED
    BY <1>2, <2>1, WorkerStep
<1>3. ASSUME NEW i \in OutboxIds, LeaseEnds(w, i) PROVE DeliveryInv'
  BY <1>1, <1>2, <1>3 DEF LeaseEnds, LeaseOK, storeVars
<1>4. ASSUME Crash(w) PROVE DeliveryInv'
  BY <1>1, <1>2, <1>4 DEF Crash, LeaseOK, storeVars
<1> QED
  BY <1>3, <1>4

(* An answer frees the entry, and nobody else's lease on it runs then      *)
(* unless it came late.                                                    *)
LEMMA AnswerKeepsInv ==
    ASSUME DeliveryInv, NEW w \in Workers, NEW i \in OutboxIds, Answers(w, i),
           NEW item \in OutboxItem, item.event = outbox[i].event,
           outbox' = [outbox EXCEPT ![i] = item]
    PROVE  DeliveryInv'
<1>1. StreamOK /\ OutboxOK /\ LeaseOK
  BY TypeInParts DEF DeliveryInv
<1>2. i \in DOMAIN outbox
  BY DEF Answers, DeliveryInv, LeasesAreHeld
<1>3. UNCHANGED <<events, stream, audit, seen, consumerVars>>
  BY DEF Answers
<1>4. OutboxOK'
  BY <1>1, <1>2, <1>3 DEF OutboxOK
<1>5. /\ LeaseOK'
      /\ \A v \in Workers, j \in OutboxIds :
           lease'[v][j] = IF v = w /\ j = i THEN "None" ELSE lease[v][j]
  BY <1>1, <1>2, <1>3 DEF Answers, LeaseOK
<1>6. LeasesAreHeld'
  <2> SUFFICES ASSUME NEW v \in Workers, NEW j \in OutboxIds
               PROVE  /\ lease'[v][j] # "None" => j \in DOMAIN outbox'
                      /\ lease'[v][j] = "Running" /\ j \notin late' =>
                           outbox'[j].state = "Leased" /\ outbox'[j].holder = v
    BY DEF LeasesAreHeld
  <2>1. /\ lease[v][j] # "None" => j \in DOMAIN outbox
        /\ lease[v][j] = "Running" /\ j \notin late =>
             outbox[j].state = "Leased" /\ outbox[j].holder = v
    BY DEF DeliveryInv, LeasesAreHeld
  <2>2. DOMAIN outbox' = DOMAIN outbox /\ (j # i => outbox'[j] = outbox[j])
    BY <1>1 DEF OutboxOK
  <2>3. late \subseteq late'
    BY DEF Answers
  <2>4. ASSUME j = i, lease'[v][i] = "Running", i \notin late' PROVE FALSE
    <3>1. v # w /\ lease[v][i] = "Running" /\ i \notin late
      BY <1>5, <2>3, <2>4
    <3>2. lease[w][i] = "Running"
      BY <1>1, <2>4 DEF Answers, LeaseOK
    <3> QED
      BY <3>1, <3>2 DEF DeliveryInv, LeasesAreHeld
  <2> QED
    BY <1>5, <2>1, <2>2, <2>3, <2>4
<1> QED
  BY <1>3, <1>4, <1>5, <1>6, WorkerStep

LEMMA AnswersKeepInv ==
    ASSUME DeliveryInv, NEW w \in Workers, NEW i \in OutboxIds
    PROVE  /\ Answer(w, i) => DeliveryInv'
           /\ NotDelivered(w, i) => DeliveryInv'
<1>1. Answers(w, i) => i \in DOMAIN outbox /\ outbox[i] \in OutboxItem
  BY DEF Answers, DeliveryInv, TypeOK, LeasesAreHeld
<1>2. ASSUME Delivered(w, i) PROVE DeliveryInv'
  <2> DEFINE item == [outbox[i] EXCEPT !.state = "Delivered", !.holder = Nobody]
  <2>1. item \in OutboxItem /\ item.event = outbox[i].event
    BY <1>1, <1>2 DEF Delivered, OutboxItem, OutboxState
  <2>2. outbox' = [outbox EXCEPT ![i] = item]
    BY <1>1, <1>2 DEF Delivered
  <2> QED
    BY <1>2, <2>1, <2>2, AnswerKeepsInv DEF Delivered
<1>3. ASSUME NotDelivered(w, i) PROVE DeliveryInv'
  <2> DEFINE item == [outbox[i] EXCEPT !.state = "Failed", !.holder = Nobody]
  <2>1. item \in OutboxItem /\ item.event = outbox[i].event
    BY <1>1, <1>3 DEF NotDelivered, OutboxItem, OutboxState
  <2>2. outbox' = [outbox EXCEPT ![i] = item]
    BY <1>1, <1>3 DEF NotDelivered
  <2> QED
    BY <1>3, <2>1, <2>2, AnswerKeepsInv DEF NotDelivered
<1>4. ASSUME NEW due \in BOOLEAN, Fail(w, i, due) PROVE DeliveryInv'
  <2> DEFINE item == [outbox[i] EXCEPT !.state = StateAfterFailure(outbox[i]),
                                       !.due = due, !.holder = Nobody]
  <2>1. item \in OutboxItem /\ item.event = outbox[i].event
    BY <1>1, <1>4 DEF Fail, OutboxItem, OutboxState, StateAfterFailure
  <2>2. outbox' = [outbox EXCEPT ![i] = item]
    BY <1>1, <1>4 DEF Fail
  <2> QED
    BY <1>4, <2>1, <2>2, AnswerKeepsInv DEF Fail
<1> QED
  BY <1>2, <1>3, <1>4 DEF Answer

LEMMA BecomesDueKeepsInv ==
    ASSUME DeliveryInv, NEW i \in OutboxIds, BecomesDue(i) PROVE DeliveryInv'
<1> DEFINE item == [outbox[i] EXCEPT !.due = TRUE]
<1>1. OutboxOK /\ LeaseOK /\ i \in DOMAIN outbox /\ outbox[i] \in OutboxItem
  BY TypeInParts DEF DeliveryInv, BecomesDue, OutboxOK
<1>2. /\ item \in OutboxItem /\ item.event = outbox[i].event
      /\ item.state = outbox[i].state /\ item.holder = outbox[i].holder
  BY <1>1 DEF OutboxItem
<1>3. /\ outbox' = [outbox EXCEPT ![i] = item]
      /\ UNCHANGED <<events, stream, audit, seen, consumerVars, lease, late>>
  BY <1>1 DEF BecomesDue, workerVars
<1> HIDE DEF item
<1>4. OutboxOK' /\ LeaseOK'
  BY <1>1, <1>2, <1>3 DEF OutboxOK, LeaseOK
<1>5. DOMAIN outbox' = DOMAIN outbox
      /\ \A j \in DOMAIN outbox : /\ outbox'[j].state = outbox[j].state
                                  /\ outbox'[j].holder = outbox[j].holder
  BY <1>1, <1>2, <1>3 DEF OutboxOK
<1>6. LeasesAreHeld'
  BY <1>3, <1>5 DEF DeliveryInv, LeasesAreHeld
<1> QED
  BY <1>3, <1>4, <1>6, WorkerStep

(* What is taken back is not what somebody has a running lease on.         *)
LEMMA RecoveryKeepsInv ==
    ASSUME DeliveryInv, RecoverExpiredLeases PROVE DeliveryInv'
<1> DEFINE freed(i) == [outbox[i] EXCEPT !.state = "Pending", !.holder = Nobody,
                                         !.due = TRUE]
<1>1. OutboxOK /\ LeaseOK /\ \A i \in DOMAIN outbox : outbox[i] \in OutboxItem
  BY TypeInParts DEF DeliveryInv, OutboxOK
<1>2. \A i \in DOMAIN outbox :
        freed(i) \in OutboxItem /\ freed(i).event = outbox[i].event
  BY <1>1 DEF OutboxItem, OutboxState
<1>3. /\ outbox' = [i \in DOMAIN outbox |-> IF LeaseExpired(i) THEN freed(i) ELSE outbox[i]]
      /\ UNCHANGED <<events, stream, audit, seen, consumerVars, lease, late>>
  BY DEF RecoverExpiredLeases, workerVars
<1> HIDE DEF freed
<1>4. OutboxOK' /\ LeaseOK'
  <2>1. \A i \in DOMAIN outbox :
          outbox'[i] \in OutboxItem /\ outbox'[i].event = outbox[i].event
    BY <1>1, <1>2, <1>3
  <2>2. OutboxOK'
    BY <1>1, <1>3, <2>1, RewrittenOutbox
  <2> QED
    BY <1>1, <1>3, <2>2 DEF LeaseOK
<1>5. \A w \in Workers, i \in OutboxIds :
        lease[w][i] = "Running" /\ i \notin late => ~LeaseExpired(i)
  BY DEF DeliveryInv, LeasesAreHeld, LeaseExpired
<1>6. LeasesAreHeld'
  BY <1>3, <1>5 DEF DeliveryInv, LeasesAreHeld
<1> QED
  BY <1>3, <1>4, <1>6, WorkerStep

-----------------------------------------------------------------------------
(* Consumers and the audit log.                                            *)

LEMMA ConsumerStep ==
    ASSUME DeliveryInv, UNCHANGED <<storeVars, seen, workerVars>>,
           InboxOK', EffectsAreProcessed'
    PROVE  DeliveryInv'
<1>1. StreamOK /\ OutboxOK /\ LeaseOK /\ AuditOK
  BY TypeInParts DEF DeliveryInv
<1>2. StreamOK' /\ OutboxOK' /\ LeaseOK' /\ AuditOK' /\ LeasesAreHeld'
  BY <1>1 DEF StreamOK, OutboxOK, LeaseOK, AuditOK, DeliveryInv, LeasesAreHeld,
              storeVars, workerVars
<1> QED
  BY <1>2, PartsMakeType DEF DeliveryInv

LEMMA BeginKeepsInv ==
    ASSUME DeliveryInv, NEW w \in Workers, NEW c \in Consumers, NEW e \in EventIds,
           InboxBegin(w, c, e)
    PROVE  DeliveryInv'
<1>1. InboxOK /\ e \in DOMAIN events
  BY TypeInParts DEF DeliveryInv, InboxBegin, OutboxOK
<1>2. /\ InboxOK'
      /\ \A d \in Consumers, f \in EventIds :
           /\ inbox'[d][f] = IF d = c /\ f = e THEN "Processing" ELSE inbox[d][f]
           /\ <<d, f>> \in working' <=> <<d, f>> \in working \/ (d = c /\ f = e)
  BY <1>1 DEF InboxBegin, InboxOK, InboxState, storeVars
<1>3. ASSUME NEW d \in Consumers, NEW f \in EventIds PROVE EffectIsProcessed(d, f)'
  <2>1. EffectIsProcessed(d, f) /\ effects' = effects /\ inbox[c][e] = "None"
    BY DEF InboxBegin, Accepts, DeliveryInv, EffectsAreProcessed
  <2>2. inbox'[d][f] = IF d = c /\ f = e THEN "Processing" ELSE inbox[d][f]
    BY <1>2
  <2>3. <<d, f>> \in working' <=> <<d, f>> \in working \/ (d = c /\ f = e)
    BY <1>2
  <2> QED
    BY <2>1, <2>2, <2>3 DEF EffectIsProcessed
<1>4. EffectsAreProcessed'
  BY <1>3 DEF EffectsAreProcessed
<1> QED
  BY <1>2, <1>4, ConsumerStep DEF InboxBegin

(* The work ends, and its event takes effect if it was completed.          *)
LEMMA EndOfWork ==
    ASSUME DeliveryInv, NEW c \in Consumers, NEW e \in EventIds
    PROVE  /\ InboxComplete(c, e) => DeliveryInv'
           /\ InboxFail(c, e) => DeliveryInv'
           /\ ConsumerCrash(c, e) => DeliveryInv'
<1>1. InboxOK
  BY TypeInParts DEF DeliveryInv
<1>2. ASSUME InboxComplete(c, e) PROVE DeliveryInv'
  <2>1. /\ InboxOK'
        /\ \A d \in Consumers, f \in EventIds :
             /\ inbox'[d][f] = IF d = c /\ f = e THEN "Processed" ELSE inbox[d][f]
             /\ effects'[d][f] = IF d = c /\ f = e THEN effects[d][f] + 1 ELSE effects[d][f]
             /\ <<d, f>> \in working' <=> <<d, f>> \in working /\ ~(d = c /\ f = e)
    BY <1>1, <1>2 DEF InboxComplete, InboxOK, InboxState, storeVars
  <2>2. inbox[c][e] = "Processing" /\ effects[c][e] = 0
    BY <1>2 DEF InboxComplete, DeliveryInv, EffectsAreProcessed, EffectIsProcessed
  <2>3. ASSUME NEW d \in Consumers, NEW f \in EventIds PROVE EffectIsProcessed(d, f)'
    <3>1. EffectIsProcessed(d, f)
      BY DEF DeliveryInv, EffectsAreProcessed
    <3>2. CASE d = c /\ f = e
      BY <2>1, <2>2, <3>2 DEF EffectIsProcessed
    <3>3. CASE ~(d = c /\ f = e)
      BY <2>1, <3>1, <3>3 DEF EffectIsProcessed
    <3> QED
      BY <3>2, <3>3
  <2>4. EffectsAreProcessed'
    BY <2>3 DEF EffectsAreProcessed
  <2> QED
    BY <1>2, <2>1, <2>4, ConsumerStep DEF InboxComplete
<1>3. ASSUME InboxFail(c, e) PROVE DeliveryInv'
  <2>1. /\ InboxOK'
        /\ \A d \in Consumers, f \in EventIds :
             /\ inbox'[d][f] = IF d = c /\ f = e THEN "Failed" ELSE inbox[d][f]
             /\ <<d, f>> \in working' <=> <<d, f>> \in working /\ ~(d = c /\ f = e)
    BY <1>1, <1>3 DEF InboxFail, InboxOK, InboxState, storeVars
  <2>2. ASSUME NEW d \in Consumers, NEW f \in EventIds PROVE EffectIsProcessed(d, f)'
    <3>1. EffectIsProcessed(d, f) /\ EffectIsProcessed(c, e) /\ effects' = effects
      BY <1>3 DEF DeliveryInv, EffectsAreProcessed, InboxFail
    <3>2. CASE d = c /\ f = e
      BY <1>3, <2>1, <3>1, <3>2 DEF EffectIsProcessed, InboxFail
    <3>3. CASE ~(d = c /\ f = e)
      BY <2>1, <3>1, <3>3 DEF EffectIsProcessed
    <3> QED
      BY <3>2, <3>3
  <2>3. EffectsAreProcessed'
    BY <2>2 DEF EffectsAreProcessed
  <2> QED
    BY <1>3, <2>1, <2>3, ConsumerStep DEF InboxFail
<1>4. ASSUME ConsumerCrash(c, e) PROVE DeliveryInv'
  <2>1. InboxOK' /\ EffectsAreProcessed'
    BY <1>1, <1>4 DEF ConsumerCrash, InboxOK, DeliveryInv, EffectsAreProcessed,
                      EffectIsProcessed, storeVars
  <2> QED
    BY <1>4, <2>1, ConsumerStep DEF ConsumerCrash
<1> QED
  BY <1>2, <1>3, <1>4

LEMMA AuditAppendKeepsInv ==
    ASSUME DeliveryInv, NEW org \in Organizations, AuditAppend(org) PROVE DeliveryInv'
<1>1. StreamOK /\ OutboxOK /\ LeaseOK /\ InboxOK /\ AuditOK
  BY TypeInParts DEF DeliveryInv
<1>2. LastHash(org) \in Nat
  <2>1. OwnEntries(org) \in SUBSET (1..Len(audit)) /\ Len(audit) \in Nat
    BY <1>1 DEF OwnEntries, AuditOK
  <2> QED
    BY <2>1, MaxIsMember DEF LastHash, LastOf
<1>3. [org |-> org, previous |-> LastHash(org)] \in AuditEntry
  BY <1>2 DEF AuditEntry
<1>4. AuditOK'
  BY <1>1, <1>3 DEF AuditAppend, AuditOK
<1>5. StreamOK' /\ OutboxOK' /\ LeaseOK' /\ InboxOK' /\ LeasesAreHeld' /\ EffectsAreProcessed'
  BY <1>1 DEF AuditAppend, StreamOK, OutboxOK, LeaseOK, InboxOK, DeliveryInv,
              LeasesAreHeld, EffectsAreProcessed, EffectIsProcessed, workerVars,
              consumerVars
<1> QED
  BY <1>4, <1>5, PartsMakeType DEF DeliveryInv

-----------------------------------------------------------------------------
LEMMA InitInv == Init => DeliveryInv
BY EventDeliveryAssumption
   DEF Init, DeliveryInv, TypeOK, LeasesAreHeld, EffectsAreProcessed, EffectIsProcessed,
       InboxState

LEMMA StepInv == DeliveryInv /\ [Next]_vars => DeliveryInv'
<1> SUFFICES ASSUME DeliveryInv, [Next]_vars PROVE DeliveryInv'
  OBVIOUS
<1>1. CASE UNCHANGED vars
  BY <1>1 DEF vars, DeliveryInv, TypeOK, LeasesAreHeld, EffectsAreProcessed,
              EffectIsProcessed
<1>2. CASE LeaseSome
  BY <1>2, LeaseKeepsInv DEF LeaseSome
<1>3. CASE Refuse
  BY <1>3, AnswersKeepInv DEF Refuse
<1>4. CASE TimePasses
  BY <1>4, LossOfLeasesKeepsInv, BecomesDueKeepsInv DEF TimePasses
<1>5. CASE Consume
  BY <1>5, BeginKeepsInv, EndOfWork DEF Consume
<1>6. CASE \E w \in Workers : Crash(w) \/ \E i \in OutboxIds : Answer(w, i)
  BY <1>6, LossOfLeasesKeepsInv, AnswersKeepInv
<1> QED
  BY <1>1, <1>2, <1>3, <1>4, <1>5, <1>6, WriteKeepsInv, OutboxEnqueueKeepsInv,
     RecoveryKeepsInv, AuditAppendKeepsInv DEF Next

LEMMA Invariance == Spec => []DeliveryInv
BY InitInv, StepInv, PTL DEF Spec

(* Of every behaviour of the store and its callers: it is well formed, and *)
(* two workers have a running lease on one entry only if a worker whose    *)
(* lease was over answered for that entry (outbox_acknowledge, outbox_fail).*)
THEOREM InvHolds == Spec => []Inv
<1>1. DeliveryInv => Inv
  BY DEF DeliveryInv, LeasesAreHeld, Inv, OverlapNeedsLateAnswer
<1> QED
  BY <1>1, Invariance, PTL

-----------------------------------------------------------------------------
(* Appends extend what was last then.  audit_verify looks for an entry     *)
(* whose previous_hash is not that of the entry before it; that there is   *)
(* none, entry by entry, is what audit_append keeps.                       *)

EntriesBefore(org, k) == {j \in OwnEntries(org) : j < k}

AuditIsChained ==
    \A org \in Organizations :
      \A k \in OwnEntries(org) : audit[k].previous = LastOf(EntriesBefore(org, k))

(* The event at position n of the stream.                                  *)
EventAt(n) == events[stream[n]]

SerialAt(n) ==
    /\ EventAt(n).version = n
    /\ EventAt(n).seen < n
    /\ \A k \in EventAt(n).seen + 1..n :
         EventAt(k).author = EventAt(n).author /\ EventAt(k).seen = EventAt(n).seen

LEMMA SerialEverywhere == StreamIsSerial <=> \A n \in DOMAIN stream : SerialAt(n)
BY DEF StreamIsSerial, SerialAt, EventAt

LEMMA PrefixStaysSerial ==
    ASSUME StreamOK, StreamIsSerial, NEW n \in DOMAIN stream,
           \A k \in DOMAIN stream : EventAt(k)' = EventAt(k)
    PROVE  SerialAt(n)'
<1>1. n \in Nat /\ Len(stream) \in Nat /\ n <= Len(stream) /\ DOMAIN stream = 1..Len(stream)
  BY DEF StreamOK
<1>2. stream[n] \in DOMAIN events
  BY <1>1 DEF StreamOK
<1>3. EventAt(n).seen \in Nat
  <2>1. events[stream[n]] \in Event
    BY <1>2 DEF StreamOK
  <2> QED
    BY <2>1 DEF EventAt, Event
<1>4. SerialAt(n)
  BY SerialEverywhere
<1>5. \A k \in EventAt(n).seen + 1..n : k \in DOMAIN stream
  BY <1>1, <1>3
<1> QED
  BY <1>4, <1>5 DEF SerialAt

LEMMA StreamAppendIsSerial ==
    ASSUME DeliveryInv, StreamIsSerial, NEW w \in Writers, NEW m \in 1..MaxBatch,
           StreamAppend(w, m)
    PROVE  StreamIsSerial'
<1> DEFINE new == [k \in 1..m |->
                     [version |-> Len(stream) + k, author |-> w, seen |-> seen[w]]]
           ids == [k \in 1..m |-> Len(events) + k]
           L == Len(stream)
<1>1. /\ StreamOK /\ OutboxOK /\ m \in Nat /\ m > 0 /\ seen[w] = L
      /\ Len(events) \in Nat /\ L \in Nat /\ DOMAIN events = 1..Len(events)
  BY TypeInParts, EventDeliveryAssumption
     DEF DeliveryInv, StreamAppend, VersionIsCurrent, StreamOK
<1>2. /\ new \in Seq(Event) /\ Len(new) = m /\ DOMAIN new = 1..m
      /\ ids \in Seq(Nat) /\ Len(ids) = m /\ DOMAIN ids = 1..m
  BY <1>1 DEF Event
<1>3. events' = events \o new /\ stream' = stream \o ids
  BY DEF StreamAppend
<1>4. /\ \A i \in DOMAIN events : events'[i] = events[i]
      /\ \A i \in DOMAIN new : events'[Len(events) + i] = new[i]
  <2> HIDE DEF new
  <2> QED
    BY <1>1, <1>2, <1>3, Concatenated DEF StreamOK
<1>5. /\ \A i \in DOMAIN stream : stream'[i] = stream[i]
      /\ \A i \in DOMAIN ids : stream'[L + i] = ids[i]
      /\ Len(stream') = L + m /\ stream' \in Seq(Nat)
  <2>1. stream \in Seq(Nat)
    BY <1>1 DEF StreamOK
  <2> HIDE DEF ids
  <2>2. ids \in Seq(Nat)
    BY <1>2
  <2>3. stream \o ids \in Seq(Nat) /\ Len(stream \o ids) = Len(stream) + Len(ids)
    BY <2>1, <2>2, Concatenated, Zenon
  <2>4. /\ \A i \in DOMAIN stream : (stream \o ids)[i] = stream[i]
        /\ \A i \in DOMAIN ids : (stream \o ids)[Len(stream) + i] = ids[i]
    BY <2>1, <2>2
  <2> QED
    BY <1>2, <1>3, <2>3, <2>4
<1>6. \A k \in DOMAIN stream : EventAt(k)' = EventAt(k)
  <2>1. \A k \in DOMAIN stream : stream[k] \in DOMAIN events
    BY <1>1 DEF StreamOK
  <2> QED
    BY <1>4, <1>5, <2>1 DEF EventAt
<1>7. ASSUME NEW k \in 1..m
      PROVE  events'[stream'[L + k]] = [version |-> L + k, author |-> w, seen |-> L]
  <2>1. stream'[L + k] = ids[k] /\ ids[k] = Len(events) + k
    BY <1>2, <1>5
  <2>2. events'[Len(events) + k] = new[k]
    BY <1>2, <1>4
  <2>3. new[k] = [version |-> L + k, author |-> w, seen |-> L]
    BY <1>1
  <2> HIDE DEF ids, new, L
  <2> QED
    BY <2>1, <2>2, <2>3
<1>8. ASSUME NEW n \in DOMAIN stream' PROVE SerialAt(n)'
  <2>1. n \in 1..L + m
    BY <1>1, <1>5
  <2>2. CASE n \in 1..L
    BY <1>1, <1>6, <2>2, PrefixStaysSerial DEF StreamOK
  <2>3. CASE n \in L + 1..L + m
    <3>1. ASSUME NEW k \in L + 1..L + m
          PROVE  EventAt(k)' = [version |-> k, author |-> w, seen |-> L]
      <4>1. k - L \in 1..m /\ L + (k - L) = k
        BY <1>1
      <4> HIDE DEF L
      <4> QED
        BY <1>7, <4>1 DEF EventAt
    <3>2. EventAt(n)' = [version |-> n, author |-> w, seen |-> L]
      BY <2>3, <3>1
    <3>3. L < n /\ L + 1..n \subseteq L + 1..L + m
      BY <1>1, <2>3
    <3> HIDE DEF L
    <3> QED
      BY <3>1, <3>2, <3>3 DEF SerialAt
  <2> QED
    BY <1>1, <2>1, <2>2, <2>3
<1> QED
  BY <1>8 DEF StreamIsSerial, SerialAt, EventAt

LEMMA WriteIsSerial == DeliveryInv /\ StreamIsSerial /\ Write => StreamIsSerial'
<1> SUFFICES ASSUME DeliveryInv, StreamIsSerial, Write PROVE StreamIsSerial'
  OBVIOUS
<1>1. StreamOK /\ OutboxOK
  BY TypeInParts DEF DeliveryInv
<1>2. ASSUME NEW w \in Writers, Publish(w) PROVE StreamIsSerial'
  <2>1. \A i \in DOMAIN events : events'[i] = events[i]
    BY <1>1, <1>2 DEF Publish, StreamOK, Event
  <2>2. stream' = stream /\ \A k \in DOMAIN stream : stream[k] \in DOMAIN events
    BY <1>1, <1>2 DEF Publish, StreamOK
  <2>3. \A k \in DOMAIN stream : EventAt(k)' = EventAt(k)
    BY <2>1, <2>2 DEF EventAt
  <2>4. \A n \in DOMAIN stream : SerialAt(n)'
    BY <1>1, <2>3, PrefixStaysSerial
  <2> QED
    BY <2>2, <2>4 DEF StreamIsSerial, SerialAt, EventAt
<1>3. ASSUME NEW w \in Writers, ReadStream(w) PROVE StreamIsSerial'
  BY <1>3 DEF ReadStream, storeVars, StreamIsSerial
<1> QED
  BY <1>2, <1>3, StreamAppendIsSerial DEF Write

LEMMA AuditAppendIsChained ==
    ASSUME DeliveryInv, AuditIsChained, NEW org \in Organizations, AuditAppend(org)
    PROVE  AuditIsChained'
<1> DEFINE N == Len(audit) + 1
<1>1. audit \in Seq(AuditEntry) /\ Len(audit) \in Nat /\ DOMAIN audit = 1..Len(audit)
  BY TypeInParts DEF DeliveryInv, AuditOK
<1>2. /\ DOMAIN audit' = 1..N
      /\ \A k \in DOMAIN audit : audit'[k] = audit[k]
      /\ audit'[N] = [org |-> org, previous |-> LastHash(org)]
  BY <1>1 DEF AuditAppend
<1>3. ASSUME NEW o \in Organizations, NEW k \in OwnEntries(o)', k \in DOMAIN audit
      PROVE  audit'[k].previous = LastOf(EntriesBefore(o, k)')
  <2>1. k \in OwnEntries(o) /\ EntriesBefore(o, k)' = EntriesBefore(o, k)
    BY <1>1, <1>2, <1>3 DEF OwnEntries, EntriesBefore
  <2> QED
    BY <1>2, <1>3, <2>1 DEF AuditIsChained
<1>4. ASSUME NEW o \in Organizations, NEW k \in OwnEntries(o)', k \notin DOMAIN audit
      PROVE  audit'[k].previous = LastOf(EntriesBefore(o, k)')
  <2>1. k = N /\ o = org
    BY <1>1, <1>2, <1>4 DEF OwnEntries
  <2>2. EntriesBefore(o, k)' = OwnEntries(org)
    BY <1>1, <1>2, <2>1 DEF OwnEntries, EntriesBefore
  <2> QED
    BY <1>2, <2>1, <2>2 DEF LastHash
<1>5. ASSUME NEW o \in Organizations, NEW k \in OwnEntries(o)'
      PROVE  audit'[k].previous = LastOf(EntriesBefore(o, k)')
  BY <1>3, <1>4
<1> QED
  BY <1>5 DEF AuditIsChained, LastOf, EntriesBefore, OwnEntries

LEMMA ChainVerifies == AuditIsChained => AuditVerifies
BY DEF AuditIsChained, AuditVerifies, AuditBrokenAt, EntriesBefore

AppendsInv == DeliveryInv /\ StreamIsSerial /\ AuditIsChained

(* No other action changes the events, the stream or the audit log.        *)
LEMMA OthersAppendNothing ==
    [Next]_vars =>
      \/ Write
      \/ \E org \in Organizations : AuditAppend(org)
      \/ UNCHANGED <<events, stream, audit>>
BY DEF Next, OutboxEnqueue, LeaseSome, Lease, Crash, Answer, Answers, Delivered, Fail, Refuse,
       NotDelivered, TimePasses, LeaseEnds, BecomesDue, RecoverExpiredLeases, Consume,
       InboxBegin, InboxComplete, InboxFail, ConsumerCrash, vars, storeVars

LEMMA AppendsStep == AppendsInv /\ [Next]_vars => AppendsInv'
<1> SUFFICES ASSUME AppendsInv, [Next]_vars PROVE AppendsInv'
  OBVIOUS
<1>1. DeliveryInv /\ DeliveryInv' /\ StreamIsSerial /\ AuditIsChained
  BY StepInv DEF AppendsInv
<1>2. CASE Write
  <2>1. UNCHANGED audit
    BY <1>2 DEF Write, Publish, ReadStream, StreamAppend, storeVars
  <2>2. AuditIsChained'
    BY <1>1, <2>1 DEF AuditIsChained, EntriesBefore, OwnEntries, LastOf
  <2> QED
    BY <1>1, <1>2, <2>2, WriteIsSerial DEF AppendsInv
<1>3. ASSUME NEW org \in Organizations, AuditAppend(org) PROVE AppendsInv'
  <2>1. StreamIsSerial'
    BY <1>1, <1>3 DEF AuditAppend, StreamIsSerial
  <2> QED
    BY <1>1, <1>3, <2>1, AuditAppendIsChained DEF AppendsInv
<1>4. CASE UNCHANGED <<events, stream, audit>>
  <2>1. StreamIsSerial'
    BY <1>1, <1>4 DEF StreamIsSerial
  <2>2. \A org : OwnEntries(org)' = OwnEntries(org)
    BY <1>4 DEF OwnEntries
  <2>3. \A org, k : EntriesBefore(org, k)' = EntriesBefore(org, k)
    BY <2>2 DEF EntriesBefore
  <2>4. AuditIsChained'
    BY <1>1, <1>4, <2>2, <2>3 DEF AuditIsChained, LastOf
  <2> QED
    BY <1>1, <2>1, <2>4 DEF AppendsInv
<1> QED
  BY <1>2, <1>3, <1>4, OthersAppendNothing

(* Of every behaviour: the events of a stream are numbered without a gap,  *)
(* each append extends what its writer had read, and audit_verify finds    *)
(* the chain of every organization whole, however the appends of several   *)
(* writers and organizations are interleaved.                              *)
THEOREM AppendsExtendHolds == Spec => []AppendsExtend
<1>1. Init => AppendsInv
  <2>1. Init => StreamIsSerial /\ AuditIsChained
    BY DEF Init, StreamIsSerial, AuditIsChained, OwnEntries
  <2> QED
    BY <2>1, InitInv DEF AppendsInv
<1>2. AppendsInv => AppendsExtend
  BY ChainVerifies DEF AppendsInv, AppendsExtend
<1> QED
  BY <1>1, <1>2, AppendsStep, PTL DEF Spec

-----------------------------------------------------------------------------
(* The refinement.  Publish and StreamAppend are a Publish of the feed,    *)
(* InboxComplete takes effect, and everything else is a stutter.           *)

LEMMA GrowthIsPublish ==
    ASSUME StreamOK, NEW new \in Seq(Event), new # <<>>,
           Len(events) + Len(new) <= MaxEvents, events' = events \o new, UNCHANGED effects
    PROVE  Feed!Publish
<1>1. Len(events') = Len(events) + Len(new) /\ Len(events') <= MaxEvents
  BY Extension
<1>2. Len(events) \in Nat /\ Len(new) \in Nat /\ Len(new) > 0
  BY DEF StreamOK
<1> QED
  BY <1>1, <1>2, EventDeliveryAssumption DEF Feed!Publish, EventIds

LEMMA WriteIsPublish ==
    DeliveryInv /\ Write => Feed!Publish \/ UNCHANGED Feed!vars
<1> SUFFICES ASSUME DeliveryInv, Write PROVE Feed!Publish \/ UNCHANGED Feed!vars
  OBVIOUS
<1>1. StreamOK /\ OutboxOK
  BY TypeInParts DEF DeliveryInv
<1>2. ASSUME NEW w \in Writers, Publish(w) PROVE Feed!Publish
  <2> DEFINE new == <<[version |-> 0, author |-> w, seen |-> 0]>>
  <2>1. /\ new \in Seq(Event) /\ Len(new) = 1 /\ new # <<>> /\ events' = events \o new
        /\ Len(events) + Len(new) <= MaxEvents
    BY <1>1, <1>2, PublishIsExtension
  <2>2. UNCHANGED effects
    BY <1>2 DEF Publish, consumerVars
  <2> QED
    BY <1>1, <2>1, <2>2, GrowthIsPublish
<1>3. ASSUME NEW w \in Writers, ReadStream(w) PROVE UNCHANGED Feed!vars
  BY <1>3 DEF ReadStream, storeVars, consumerVars, Feed!vars
<1>4. ASSUME NEW w \in Writers, NEW n \in 1..MaxBatch, StreamAppend(w, n)
      PROVE  Feed!Publish
  <2> DEFINE new == [k \in 1..n |->
                       [version |-> Len(stream) + k, author |-> w, seen |-> seen[w]]]
  <2>1. new \in Seq(Event) /\ Len(new) = n /\ n \in Nat /\ n > 0
    BY <1>1, EventDeliveryAssumption DEF Event, StreamOK
  <2>2. /\ events' = events \o new /\ Len(events) + n <= MaxEvents
        /\ UNCHANGED effects
    BY <1>4 DEF StreamAppend, consumerVars
  <2> HIDE DEF new
  <2>3. new # <<>> /\ Len(events) + Len(new) <= MaxEvents
    BY <2>1, <2>2
  <2> QED
    BY <1>1, <2>1, <2>2, <2>3, GrowthIsPublish
<1> QED
  BY <1>2, <1>3, <1>4 DEF Write

LEMMA CompletionTakesEffect ==
    ASSUME DeliveryInv, NEW c \in Consumers, NEW e \in EventIds, InboxComplete(c, e)
    PROVE  Feed!TakeEffect(c, e)
<1>1. StreamOK /\ InboxOK /\ <<c, e>> \in working
  BY TypeInParts DEF DeliveryInv, InboxComplete
<1>2. e <= Len(events)
  BY <1>1 DEF InboxOK, StreamOK
<1>3. effects[c][e] = 0
  BY <1>1 DEF DeliveryInv, EffectsAreProcessed, EffectIsProcessed
<1>4. effects' = [effects EXCEPT ![c][e] = 1]
  BY <1>1, <1>3 DEF InboxComplete, InboxOK
<1> QED
  BY <1>2, <1>3, <1>4 DEF Feed!TakeEffect, InboxComplete, storeVars

LEMMA StepRefines == DeliveryInv /\ [Next]_vars => [Feed!Next]_(Feed!vars)
<1> SUFFICES ASSUME DeliveryInv, [Next]_vars PROVE Feed!Next \/ UNCHANGED Feed!vars
  OBVIOUS
<1>1. CASE LeaseSome \/ Refuse \/ TimePasses \/ RecoverExpiredLeases \/ UNCHANGED vars
  BY <1>1 DEF LeaseSome, Lease, Refuse, NotDelivered, Answers, TimePasses, LeaseEnds,
              BecomesDue, RecoverExpiredLeases, vars, storeVars, consumerVars, Feed!vars
<1>2. CASE \E w \in Workers : Crash(w) \/ \E i \in OutboxIds : Answer(w, i)
  BY <1>2 DEF Crash, Answer, Delivered, Fail, Answers, storeVars, consumerVars, Feed!vars
<1>3. CASE Consume
  BY <1>3, CompletionTakesEffect
     DEF Consume, InboxBegin, InboxFail, ConsumerCrash, storeVars, Feed!vars, Feed!Next
<1>4. CASE \E org \in Organizations : AuditAppend(org)
  BY <1>4 DEF AuditAppend, consumerVars, Feed!vars
<1>5. CASE \E e \in DOMAIN events : OutboxEnqueue(e)
  BY <1>5 DEF OutboxEnqueue, consumerVars, Feed!vars
<1> QED
  BY <1>1, <1>2, <1>3, <1>4, <1>5, WriteIsPublish DEF Next, Feed!Next

(* The store and its callers implement the feed: what is published only    *)
(* grows, and an event takes effect at a consumer once at most and only    *)
(* when it is published, however often it is enqueued and its entries are  *)
(* leased, recovered, answered late or delivered again.                    *)
THEOREM FeedSpecHolds == Spec => FeedSpec
<1>1. Init => Feed!Init
  BY DEF Init, Feed!Init
<1> QED
  BY <1>1, Invariance, StepRefines, PTL DEF Spec, FeedSpec, Feed!Spec
=============================================================================
