---------------------------- MODULE EventDelivery ----------------------------
(***************************************************************************)
(* The event store of src/crates/foundation/event-audit/src/lib.rs:        *)
(* events, event streams, outbox, inbox and audit log.                     *)
(*                                                                         *)
(* The store is passive and each of its calls is atomic (RefCell).  What   *)
(* is concurrent is around it: writers that append to a stream at a        *)
(* version they read earlier, workers that lease entries of the outbox and *)
(* answer late or never, consumers that begin an event and may not come    *)
(* back.  The repository has the store and no worker; the discipline       *)
(* assumed of the callers is marked "caller:" below.                       *)
(*                                                                         *)
(* Time is abstracted: a lease runs or is over (LeaseEnds), an entry is    *)
(* due or not yet (BecomesDue), so entries need not end in the order they  *)
(* began.  attempts is only compared with 3 and saturates there.  Event    *)
(* ids and outbox ids are positions, each among its own.  A hash is taken to        *)
(* identify its entry; payloads, schemas and actors are left out.          *)
(*                                                                         *)
(* Definitions named Bug... are not the code: each is a mistake that a     *)
(* property below must notice when it replaces the definition after it.    *)
(***************************************************************************)
EXTENDS Naturals, Sequences, FiniteSetsExt

CONSTANTS
    Writers, Workers, Consumers, Organizations,
    Nobody,           \* an Option that is None
    MaxEvents,        \* bound on events
    MaxOutbox,        \* bound on outbox entries
    MaxBatch,         \* events in one append
    MaxAudit          \* bound on audit entries

ASSUME EventDeliveryAssumption ==
    /\ Nobody \notin Workers
    /\ {MaxEvents, MaxOutbox, MaxBatch, MaxAudit} \subseteq Nat

VARIABLES
    events,      \* the events, in the order of their ids
    stream,      \* the event stream: ids of events
    outbox,      \* the entries of the outbox, in the order of their ids
    inbox,       \* inbox[c][e]: state of the entry of e for consumer c
    audit,       \* the audit entries of all organizations
    seen,        \* seen[w]: the stream version writer w has read
    lease,       \* lease[w][i]: the lease that worker w was given for entry i
    working,     \* <<c, e>>: consumer c is at work on e
    effects,     \* effects[c][e]: how often c finished the work for e (history)
    late         \* entries answered by a worker whose lease was over (history)

vars == <<events, stream, outbox, inbox, audit, seen, lease, working, effects, late>>
storeVars == <<events, stream, outbox, audit>>
workerVars == <<lease, late>>
consumerVars == <<inbox, working, effects>>

EventIds == 1..MaxEvents
OutboxIds == 1..MaxOutbox
OutboxState == {"Pending", "Leased", "Delivered", "Failed", "DeadLetter"}
InboxState == {"None", "Processing", "Processed", "Failed"}
MaxAttempts == 3

(* version: the position in the stream, or 0; author and seen are history. *)
Event == [version : Nat, author : Writers, seen : Nat]

(* previous: the position of the entry whose hash is previous_hash, or 0.  *)
AuditEntry == [org : Organizations, previous : Nat]

(* due: available_at has passed; lease_until is that of the holder's lease. *)
OutboxItem == [event : EventIds, state : OutboxState, attempts : 0..MaxAttempts,
               due : BOOLEAN, holder : Workers \cup {Nobody}]

TypeOK ==
    /\ events \in Seq(Event)
    /\ Len(events) <= MaxEvents
    /\ stream \in Seq(DOMAIN events)
    /\ outbox \in Seq(OutboxItem) /\ Len(outbox) <= MaxOutbox
    /\ \A i \in DOMAIN outbox : outbox[i].event \in DOMAIN events
    /\ inbox \in [Consumers -> [EventIds -> InboxState]]
    /\ audit \in Seq(AuditEntry)
    /\ seen \in [Writers -> Nat]
    /\ lease \in [Workers -> [OutboxIds -> {"None", "Running", "Over"}]]
    /\ working \subseteq Consumers \X DOMAIN events
    /\ effects \in [Consumers -> [EventIds -> Nat]]
    /\ late \subseteq DOMAIN outbox

Init ==
    /\ events = <<>> /\ stream = <<>> /\ outbox = <<>> /\ audit = <<>>
    /\ inbox = [c \in Consumers |-> [e \in EventIds |-> "None"]]
    /\ seen = [w \in Writers |-> 0]
    /\ lease = [w \in Workers |-> [i \in OutboxIds |-> "None"]]
    /\ working = {}
    /\ effects = [c \in Consumers |-> [e \in EventIds |-> 0]]
    /\ late = {}

-----------------------------------------------------------------------------
(* Writers.                                                                *)

(* enqueue, for each event of ids.                                         *)
Enqueued(ids) ==
    [k \in DOMAIN ids |-> [event |-> ids[k], state |-> "Pending", attempts |-> 0,
                           due |-> TRUE, holder |-> Nobody]]

(* publish: an event that is in no stream has version 0.                   *)
Publish(w) ==
    /\ Len(events) < MaxEvents /\ Len(outbox) < MaxOutbox
    /\ events' = Append(events, [version |-> 0, author |-> w, seen |-> 0])
    /\ outbox' = outbox \o Enqueued(<<Len(events) + 1>>)
    /\ UNCHANGED <<stream, audit, seen, workerVars, consumerVars>>

(* outbox_enqueue: a further entry of an event, whatever became of the     *)
(* others.  caller: the event is one the store has published.              *)
OutboxEnqueue(e) ==
    /\ Len(outbox) < MaxOutbox
    /\ outbox' = outbox \o Enqueued(<<e>>)
    /\ UNCHANGED <<events, stream, audit, seen, workerVars, consumerVars>>

(* caller: a writer decides on the events to append having read the stream.*)
ReadStream(w) ==
    /\ seen' = [seen EXCEPT ![w] = Len(stream)]
    /\ UNCHANGED <<storeVars, workerVars, consumerVars>>

BugVersionIsCurrent(w) == Len(stream) >= seen[w]

VersionIsCurrent(w) == Len(stream) = seen[w]

StreamAppend(w, n) ==
    LET ids == [k \in 1..n |-> Len(events) + k]
    IN  /\ VersionIsCurrent(w)
        /\ Len(events) + n <= MaxEvents /\ Len(outbox) + n <= MaxOutbox
        /\ events' = events \o [k \in 1..n |->
                        [version |-> Len(stream) + k, author |-> w, seen |-> seen[w]]]
        /\ outbox' = outbox \o Enqueued(ids)
        /\ stream' = stream \o ids
        /\ UNCHANGED <<audit, seen, workerVars, consumerVars>>

-----------------------------------------------------------------------------
(* Workers and the outbox.                                                 *)

Leasable(i) == outbox[i].state \in {"Pending", "Failed"} /\ outbox[i].due

(* The first limit entries that may be leased.                             *)
FirstLeasable(limit) ==
    {i \in DOMAIN outbox :
       Leasable(i) /\ Cardinality({j \in 1..i : Leasable(j)}) <= limit}

Leased(item, w) ==
    [item EXCEPT !.state = "Leased", !.holder = w,
                 !.attempts = IF @ < MaxAttempts THEN @ + 1 ELSE @]

(* outbox_lease                                                            *)
Lease(w, limit) ==
    LET taken == FirstLeasable(limit)
    IN  /\ taken # {}
        /\ outbox' = [i \in DOMAIN outbox |->
                        IF i \in taken THEN Leased(outbox[i], w) ELSE outbox[i]]
        /\ lease' = [lease EXCEPT ![w] = [i \in OutboxIds |->
                        IF i \in taken THEN "Running" ELSE @[i]]]
        /\ UNCHANGED <<events, stream, audit, seen, consumerVars, late>>

LeaseEnds(w, i) ==
    /\ lease[w][i] = "Running"
    /\ lease' = [lease EXCEPT ![w][i] = "Over"]
    /\ UNCHANGED <<storeVars, seen, consumerVars, late>>

(* A worker that crashes forgets what it has leased.                       *)
Crash(w) ==
    /\ \E i \in OutboxIds : lease[w][i] # "None"
    /\ lease' = [lease EXCEPT ![w] = [i \in OutboxIds |-> "None"]]
    /\ UNCHANGED <<storeVars, seen, consumerVars, late>>

(* caller: a worker answers once for an entry it has leased.  Whether the  *)
(* lease is still its own is not looked at.                                *)
Answers(w, i) ==
    /\ lease[w][i] # "None"
    /\ late' = IF lease[w][i] = "Over" THEN late \cup {i} ELSE late
    /\ lease' = [lease EXCEPT ![w][i] = "None"]
    /\ UNCHANGED <<events, stream, audit, seen, consumerVars>>

(* outbox_acknowledge.  caller: Delivered is acknowledged of an event that *)
(* every consumer has processed, as inbox_begin and inbox_complete tell.   *)
Delivered(w, i) ==
    /\ Answers(w, i)
    /\ \A c \in Consumers : inbox[c][outbox[i].event] = "Processed"
    /\ outbox' = [outbox EXCEPT ![i].state = "Delivered", ![i].holder = Nobody]

(* A receipt that says Failed: there is no limit to these.                 *)
NotDelivered(w, i) ==
    /\ Answers(w, i)
    /\ outbox' = [outbox EXCEPT ![i].state = "Failed", ![i].holder = Nobody]

BugStateAfterFailure(item) ==
    IF item.attempts > MaxAttempts THEN "DeadLetter" ELSE "Failed"

StateAfterFailure(item) ==
    IF item.attempts >= MaxAttempts THEN "DeadLetter" ELSE "Failed"

(* outbox_fail, to be retried at once or later.                            *)
Fail(w, i, due) ==
    /\ Answers(w, i)
    /\ outbox' = [outbox EXCEPT ![i].state = StateAfterFailure(outbox[i]),
                                ![i].due = due, ![i].holder = Nobody]

BecomesDue(i) ==
    /\ i \in DOMAIN outbox
    /\ ~outbox[i].due
    /\ outbox' = [outbox EXCEPT ![i].due = TRUE]
    /\ UNCHANGED <<events, stream, audit, seen, workerVars, consumerVars>>

BugLeaseExpired(i) == outbox[i].state = "Leased"

(* lease_until has passed; a crashed holder's lease may have ended too.    *)
LeaseExpired(i) ==
    /\ outbox[i].state = "Leased" /\ outbox[i].holder # Nobody
    /\ lease[outbox[i].holder][i] # "Running"

(* outbox_recover_expired_leases, at the present time.                     *)
RecoverExpiredLeases ==
    /\ \E i \in DOMAIN outbox : LeaseExpired(i)
    /\ outbox' = [i \in DOMAIN outbox |->
                    IF LeaseExpired(i)
                    THEN [outbox[i] EXCEPT !.state = "Pending", !.holder = Nobody,
                                           !.due = TRUE]
                    ELSE outbox[i]]
    /\ UNCHANGED <<events, stream, audit, seen, workerVars, consumerVars>>

-----------------------------------------------------------------------------
(* Consumers and the inbox.                                                *)

BugAccepts(c, e) == inbox[c][e] # "Processing"

(* inbox_begin: an entry that exists is refused, whatever its state.       *)
Accepts(c, e) == inbox[c][e] = "None"

(* caller: a worker brings an event whose entry it has leased.             *)
InboxBegin(w, c, e) ==
    /\ \E i \in DOMAIN outbox : outbox[i].event = e /\ lease[w][i] # "None"
    /\ Accepts(c, e)
    /\ inbox' = [inbox EXCEPT ![c][e] = "Processing"]
    /\ working' = working \cup {<<c, e>>}
    /\ UNCHANGED <<storeVars, seen, workerVars, effects>>

(* caller: a consumer completes or fails what it has begun, once.          *)
InboxComplete(c, e) ==
    /\ <<c, e>> \in working
    /\ inbox' = [inbox EXCEPT ![c][e] = "Processed"]
    /\ working' = working \ {<<c, e>>}
    /\ effects' = [effects EXCEPT ![c][e] = @ + 1]
    /\ UNCHANGED <<storeVars, seen, workerVars>>

InboxFail(c, e) ==
    /\ <<c, e>> \in working
    /\ inbox' = [inbox EXCEPT ![c][e] = "Failed"]
    /\ working' = working \ {<<c, e>>}
    /\ UNCHANGED <<storeVars, seen, workerVars, effects>>

ConsumerCrash(c, e) ==
    /\ <<c, e>> \in working
    /\ working' = working \ {<<c, e>>}
    /\ UNCHANGED <<storeVars, seen, workerVars, inbox, effects>>

-----------------------------------------------------------------------------
(* The audit log.  An entry's hash is its position.                        *)

OwnEntries(org) == {k \in DOMAIN audit : audit[k].org = org}

LastOf(entries) == IF entries = {} THEN 0 ELSE Max(entries)

LastHash(org) == LastOf(OwnEntries(org))

AuditAppend(org) ==
    /\ Len(audit) < MaxAudit
    /\ audit' = Append(audit, [org |-> org, previous |-> LastHash(org)])
    /\ UNCHANGED <<events, stream, outbox, seen, workerVars, consumerVars>>

(* audit_verify: the entry that breaks the chain, or 0.                    *)
AuditBrokenAt(org) ==
    LET broken == {k \in OwnEntries(org) :
                     audit[k].previous # LastOf({j \in OwnEntries(org) : j < k})}
    IN  IF broken = {} THEN 0 ELSE Min(broken)

-----------------------------------------------------------------------------
Write ==
    \E w \in Writers :
      \/ Publish(w)
      \/ ReadStream(w)
      \/ \E n \in 1..MaxBatch : StreamAppend(w, n)

Answer(w, i) == Delivered(w, i) \/ \E due \in BOOLEAN : Fail(w, i, due)

Refuse == \E w \in Workers, i \in OutboxIds : NotDelivered(w, i)

LeaseSome == \E w \in Workers, limit \in OutboxIds : Lease(w, limit)

TimePasses ==
    \/ \E w \in Workers, i \in OutboxIds : LeaseEnds(w, i)
    \/ \E i \in OutboxIds : BecomesDue(i)

Consume ==
    \E c \in Consumers, e \in EventIds :
      \/ \E w \in Workers : InboxBegin(w, c, e)
      \/ InboxComplete(c, e)
      \/ InboxFail(c, e)
      \/ ConsumerCrash(c, e)

Next ==
    \/ Write
    \/ \E e \in DOMAIN events : OutboxEnqueue(e)
    \/ LeaseSome
    \/ \E w \in Workers : Crash(w) \/ \E i \in OutboxIds : Answer(w, i)
    \/ Refuse
    \/ TimePasses
    \/ RecoverExpiredLeases
    \/ Consume
    \/ \E org \in Organizations : AuditAppend(org)

(* Fairness of the callers: somebody leases and recovers, time passes, and *)
(* a worker that leases again and again does not crash each time before it *)
(* answers.  No consumer is assumed to finish.                             *)
Fairness ==
    /\ WF_vars(LeaseSome) /\ WF_vars(RecoverExpiredLeases)
    /\ \A i \in OutboxIds : WF_vars(BecomesDue(i))
    /\ \A w \in Workers, i \in OutboxIds :
         WF_vars(LeaseEnds(w, i)) /\ SF_vars(Answer(w, i))

Spec == Init /\ [][Next]_vars /\ Fairness

-----------------------------------------------------------------------------
(* However often an event is enqueued and its entries leased, delivered    *)
(* again and answered, it takes effect at most once at a consumer, and only*)
(* once published.                                                         *)
Feed == INSTANCE EventFeed WITH published <- Len(events)

FeedSpec == Feed!Spec

(* Two workers have a running lease on one entry only if a worker whose    *)
(* lease was over answered for it: outbox_acknowledge and outbox_fail do   *)
(* not ask whose lease it is, and make an entry free that is leased.       *)
OverlapNeedsLateAnswer ==
    \A i \in OutboxIds, v, w \in Workers :
      /\ v # w
      /\ lease[v][i] = "Running" /\ lease[w][i] = "Running"
      => i \in late

(* Every state is well formed, and leases overlap for that reason only.    *)
Inv == TypeOK /\ OverlapNeedsLateAnswer

(* What is appended extends what was last then.  A writer of a stream had  *)
(* seen all that it held before his events, and nothing by another writer  *)
(* lies between; the audit chain of an organization verifies however the   *)
(* entries of several organizations are interleaved.                       *)
StreamIsSerial ==
    \A n \in DOMAIN stream :
      LET e == events[stream[n]]
      IN  /\ e.version = n
          /\ e.seen < n
          /\ \A k \in e.seen + 1..n : events[stream[k]].author = e.author
                                      /\ events[stream[k]].seen = e.seen

AuditVerifies == \A org \in Organizations : AuditBrokenAt(org) = 0

AppendsExtend == StreamIsSerial /\ AuditVerifies

(* If callers report failed deliveries with outbox_fail, from some time on,*)
(* every entry comes to rest: it is delivered and every consumer has       *)
(* processed its event, or it is dead.  An event that a consumer failed or *)
(* left behind is not begun again: its entry is dead in the end, and never *)
(* taken for delivered.  A receipt that says Failed is retried without     *)
(* limit, and so is an entry whose workers crash.                          *)
Settled(i) ==
    \/ outbox[i].state = "DeadLetter"
    \/ /\ outbox[i].state = "Delivered"
       /\ \A c \in Consumers : inbox[c][outbox[i].event] = "Processed"

EntriesSettle ==
    <>[][~Refuse]_vars =>
      \A i \in OutboxIds : (i \in DOMAIN outbox) ~> (i \in DOMAIN outbox /\ Settled(i))
=============================================================================
