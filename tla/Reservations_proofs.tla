------------------------ MODULE Reservations_proofs ------------------------
(***************************************************************************)
(* Type correctness of Reservations in both ports, and for the Rust port,  *)
(* in which no call starts while another is unfinished, that a cancelled   *)
(* reservation stays cancelled, that allocations are atomic and that no    *)
(* resource is ever overbooked.                                            *)
(***************************************************************************)
EXTENDS Reservations, SumLemmas

Tasks == HoldTask \cup RescheduleTask \cup AllocateTask

Within(s, S) == \A k \in DOMAIN s : s[k] \in S

(* Holds to make, of the resources in R.                                   *)
Makes(s, R) == \A k \in DOMAIN s : s[k].resource \in R /\ s[k].state = "Held"

(* What a suspended call relies on, with R the ids of the resources and I  *)
(* those of the reservations.  The places i and j of an allocation exist,  *)
(* and it makes no more holds than it has selected.                        *)
AllocateFits(t, R, I) ==
    /\ t.i \in DOMAIN t.requests
    /\ \A n \in DOMAIN t.requests : Within(t.requests[n].members, R)
    /\ t.step = "select" => t.j \in DOMAIN t.requests[t.i].members /\ t.made = <<>>
    /\ t.step = "hold" => Len(t.made) < Len(t.selected)
    /\ t.step = "held" => Len(t.made) <= Len(t.selected)
    /\ t.step = "undo" => t.j >= 1
    /\ Within(t.found, R)
    /\ Makes(t.selected, R)
    /\ Within(t.made, I)

Fits(t, R, I) ==
    /\ t.op = "hold" => t.hold.resource \in R
    /\ t.op = "reschedule" => t.id \in I
    /\ t.op = "allocate" => AllocateFits(t, R, I)

FitQueue(q, R, I) ==
    /\ q \in Seq(Tasks)
    /\ \A n \in DOMAIN q : Fits(q[n], R, I)

(* The entries of the store, with the references among them.               *)
StoreOK ==
    /\ resources \in Seq(Resource) /\ pools \in Seq(Pool)
    /\ rules \in Seq(Rule) /\ blackouts \in Seq(Blackout)
    /\ exceptions \in Seq(Exception)
    /\ \A p \in DOMAIN pools : Within(pools[p].members, DOMAIN resources)

BookingsOK ==
    /\ reservations \in Seq(Reservation)
    /\ \A id \in Ids : reservations[id].resource \in DOMAIN resources
    /\ cancelled \subseteq Ids

TypeInv ==
    /\ StoreOK /\ BookingsOK
    /\ now \in Nat
    /\ FitQueue(tasks, DOMAIN resources, Ids)

LEMMA TypeInvGivesType == TypeInv => TypeOK
<1> SUFFICES ASSUME TypeInv PROVE TypeOK
  OBVIOUS
<1> USE DEF TypeInv
<1>1. tasks \in Seq(Tasks)
  BY DEF FitQueue
<1>2. \A n \in DOMAIN tasks :
        tasks[n].op = "allocate" =>
          \A k \in DOMAIN tasks[n].made : tasks[n].made[k] \in Ids
  BY DEF FitQueue, Fits, AllocateFits, Within
<1> QED
  BY <1>1, <1>2 DEF TypeOK, StoreOK, BookingsOK, Tasks

-----------------------------------------------------------------------------
(* The queue: a task that fits goes on fitting when entries are added, and *)
(* a queue of such tasks remains one.                                      *)

LEMMA StillFits ==
    ASSUME NEW t, NEW R, NEW I, NEW R2, NEW I2,
           Fits(t, R, I), R \subseteq R2, I \subseteq I2
    PROVE  Fits(t, R2, I2)
BY DEF Fits, AllocateFits, Within, Makes

LEMMA StillFitQueue ==
    ASSUME NEW q, NEW R, NEW I, NEW R2, NEW I2,
           FitQueue(q, R, I), R \subseteq R2, I \subseteq I2
    PROVE  FitQueue(q, R2, I2)
BY StillFits DEF FitQueue

LEMMA Pushed ==
    ASSUME NEW q, NEW R, NEW I, NEW t \in Tasks, FitQueue(q, R, I), Fits(t, R, I)
    PROVE  FitQueue(Append(q, t), R, I)
<1>1. q \in Seq(Tasks) /\ Append(q, t) \in Seq(Tasks)
  BY DEF FitQueue
<1>2. DOMAIN Append(q, t) = 1..Len(q) + 1
  BY <1>1
<1>3. \A n \in 1..Len(q) + 1 : Append(q, t)[n] = IF n = Len(q) + 1 THEN t ELSE q[n]
  BY <1>1
<1> QED
  BY <1>1, <1>2, <1>3 DEF FitQueue

LEMMA Popped ==
    ASSUME NEW q, NEW R, NEW I, FitQueue(q, R, I), q # <<>>
    PROVE  /\ Head(q) \in Tasks /\ Fits(Head(q), R, I)
           /\ FitQueue(Tail(q), R, I)
<1>1. q \in Seq(Tasks) /\ Len(q) \in Nat /\ Len(q) > 0
  BY DEF FitQueue
<1>2. Head(q) = q[1] /\ 1 \in DOMAIN q /\ q[1] \in Tasks
  BY <1>1
<1>3. Tail(q) \in Seq(Tasks) /\ DOMAIN Tail(q) = 1..Len(q) - 1
  BY <1>1
<1>4. \A n \in 1..Len(q) - 1 : Tail(q)[n] = q[n + 1] /\ n + 1 \in DOMAIN q
  BY <1>1
<1> QED
  BY <1>1, <1>2, <1>3, <1>4 DEF FitQueue

-----------------------------------------------------------------------------
(* The store: entries are added, and reservations change in place.         *)

LEMMA Unplanned ==
    TypeInv /\ UNCHANGED <<resources, pools, calendar>> => StoreOK'
BY DEF TypeInv, StoreOK, calendar

LEMMA Unbooked ==
    TypeInv /\ UNCHANGED <<resources, reservations, cancelled>>
      => BookingsOK' /\ Ids' = Ids
BY DEF TypeInv, BookingsOK, Ids

LEMMA Booked ==
    ASSUME NEW h \in Reservation
    PROVE  TypeInv /\ h.resource \in DOMAIN resources
             /\ reservations' = Append(reservations, h)
             /\ UNCHANGED <<resources, cancelled>>
             => BookingsOK' /\ Ids \subseteq Ids' /\ Ids' = 1..NextId
<1> SUFFICES ASSUME TypeInv, h.resource \in DOMAIN resources,
                    reservations' = Append(reservations, h),
                    UNCHANGED <<resources, cancelled>>
             PROVE  BookingsOK' /\ Ids \subseteq Ids' /\ Ids' = 1..NextId
  OBVIOUS
<1>1. reservations \in Seq(Reservation) /\ reservations' \in Seq(Reservation)
  BY DEF TypeInv, BookingsOK
<1>2. Ids' = 1..NextId /\ Ids = 1..Len(reservations) /\ Len(reservations) \in Nat
  BY <1>1 DEF Ids, NextId
<1>3. \A id \in Ids' : reservations'[id] = IF id = NextId THEN h ELSE reservations[id]
  BY <1>1, <1>2 DEF NextId
<1>4. \A id \in Ids' : reservations'[id].resource \in DOMAIN resources
  BY <1>2, <1>3 DEF TypeInv, BookingsOK, NextId
<1> QED
  BY <1>1, <1>2, <1>4 DEF TypeInv, BookingsOK, NextId

(* A step that keeps every reservation's resource.                         *)
Rewritten ==
    /\ reservations' \in Seq(Reservation)
    /\ Len(reservations') = Len(reservations)
    /\ \A id \in Ids : reservations'[id].resource = reservations[id].resource
    /\ cancelled' \subseteq Ids
    /\ UNCHANGED resources

LEMMA Edited == TypeInv /\ Rewritten => BookingsOK' /\ Ids' = Ids
BY DEF TypeInv, BookingsOK, Rewritten, Ids

LEMMA OneReplaced ==
    ASSUME NEW id \in Ids, NEW x \in Reservation
    PROVE  TypeInv /\ x.resource = reservations[id].resource
             /\ cancelled' \subseteq Ids /\ UNCHANGED resources
             /\ reservations' = [reservations EXCEPT ![id] = x]
             => Rewritten
BY DEF TypeInv, BookingsOK, Rewritten, Ids

LEMMA RangeReplaced ==
    ASSUME NEW x \in Reservation, NEW s \in States, NEW r \in Ranges
    PROVE  LET y == [x EXCEPT !.state = s, !.range = r]
           IN  y \in Reservation /\ y.resource = x.resource
BY DEF Reservation

LEMMA StateReplaced ==
    ASSUME NEW x \in Reservation, NEW s \in States
    PROVE  LET y == [x EXCEPT !.state = s]
           IN  y \in Reservation /\ y.resource = x.resource
BY DEF Reservation

LEMMA OneRewritten ==
    ASSUME NEW id \in Ids, NEW s \in States, NEW r \in Ranges
    PROVE  TypeInv /\ cancelled' \subseteq Ids /\ UNCHANGED resources
             /\ reservations' = [reservations EXCEPT ![id].state = s, ![id].range = r]
             => Rewritten
<1> SUFFICES ASSUME TypeInv, cancelled' \subseteq Ids, UNCHANGED resources,
                    reservations' = [reservations EXCEPT ![id].state = s,
                                                         ![id].range = r]
             PROVE  Rewritten
  OBVIOUS
<1> DEFINE x == reservations[id]
           y == [x EXCEPT !.state = s, !.range = r]
<1>1. x \in Reservation
  BY DEF TypeInv, BookingsOK, Ids
<1>2. y \in Reservation /\ y.resource = x.resource
  BY <1>1, RangeReplaced
<1>3. reservations' = [reservations EXCEPT ![id] = y]
  BY DEF TypeInv, BookingsOK, Ids
<1> QED
  BY <1>2, <1>3, OneReplaced

LEMMA OneState ==
    ASSUME NEW id \in Ids, NEW s \in States
    PROVE  TypeInv /\ cancelled' \subseteq Ids /\ UNCHANGED resources
             /\ reservations' = [reservations EXCEPT ![id].state = s]
             => Rewritten
<1> SUFFICES ASSUME TypeInv, cancelled' \subseteq Ids, UNCHANGED resources,
                    reservations' = [reservations EXCEPT ![id].state = s]
             PROVE  Rewritten
  OBVIOUS
<1> DEFINE x == reservations[id]
           y == [x EXCEPT !.state = s]
<1>1. x \in Reservation
  BY DEF TypeInv, BookingsOK, Ids
<1>2. y \in Reservation /\ y.resource = x.resource
  BY <1>1, StateReplaced
<1>3. reservations' = [reservations EXCEPT ![id] = y]
  OBVIOUS
<1> QED
  BY <1>2, <1>3, OneReplaced

(* What a started, a suspended and a finished task leave of the queue.     *)
LEMMA QueueStarted ==
    ASSUME NEW t \in Tasks
    PROVE  TypeInv /\ DOMAIN resources \subseteq DOMAIN resources' /\ Ids \subseteq Ids'
             /\ Fits(t, DOMAIN resources', Ids') /\ tasks' = Append(tasks, t)
             => FitQueue(tasks, DOMAIN resources, Ids)'
BY StillFitQueue, Pushed DEF TypeInv

LEMMA QueueSuspended ==
    ASSUME NEW t \in Tasks
    PROVE  TypeInv /\ DOMAIN resources \subseteq DOMAIN resources' /\ Ids \subseteq Ids'
             /\ tasks # <<>>
             /\ Fits(t, DOMAIN resources', Ids') /\ Suspend(t)
             => FitQueue(tasks, DOMAIN resources, Ids)'
BY StillFitQueue, Pushed, Popped DEF TypeInv, Suspend

LEMMA QueueReturned ==
    TypeInv /\ DOMAIN resources \subseteq DOMAIN resources' /\ Ids \subseteq Ids'
      /\ tasks # <<>> /\ Return
      => FitQueue(tasks, DOMAIN resources, Ids)'
BY StillFitQueue, Popped DEF TypeInv, Return

LEMMA QueueKept ==
    TypeInv /\ DOMAIN resources \subseteq DOMAIN resources' /\ Ids \subseteq Ids'
      /\ UNCHANGED tasks
      => FitQueue(tasks, DOMAIN resources, Ids)'
BY StillFitQueue DEF TypeInv

(* Steps that only add to the store, and steps that leave it as it is.     *)
LEMMA StoreGrown ==
    TypeInv /\ StoreOK' /\ DOMAIN resources \subseteq DOMAIN resources'
      /\ UNCHANGED <<reservations, now, tasks, cancelled>>
      => TypeInv'
<1> SUFFICES ASSUME TypeInv, StoreOK', DOMAIN resources \subseteq DOMAIN resources',
                    UNCHANGED <<reservations, now, tasks, cancelled>>
             PROVE  TypeInv'
  OBVIOUS
<1>1. BookingsOK' /\ Ids' = Ids
  BY DEF TypeInv, BookingsOK, Ids
<1>2. FitQueue(tasks, DOMAIN resources, Ids)'
  BY <1>1, QueueKept
<1> QED
  BY <1>1, <1>2 DEF TypeInv

LEMMA StoreKept ==
    TypeInv /\ UNCHANGED <<resources, pools, calendar, now>>
      /\ BookingsOK' /\ FitQueue(tasks, DOMAIN resources, Ids)'
      => TypeInv'
BY Unplanned DEF TypeInv

LEMMA AvailableIsBoolean ==
    ASSUME NEW r, NEW range, NEW quantity
    PROVE  Available(r, range, quantity) \in BOOLEAN
BY DEF Available

-----------------------------------------------------------------------------
(* The steps of the administrator.                                         *)

LEMMA StatusReplaced ==
    ASSUME NEW x \in Resource, NEW s \in Statuses
    PROVE  [x EXCEPT !.status = s] \in Resource
BY DEF Resource

LEMMA CreateResourceStep ==
    ASSUME NEW c \in Capacities
    PROVE  TypeInv /\ CreateResource(c) => TypeInv'
<1> SUFFICES ASSUME TypeInv, CreateResource(c) PROVE TypeInv'
  OBVIOUS
<1>1. [status |-> "Active", capacity |-> c] \in Resource
  BY ReservationsAssumption DEF Resource
<1>2. resources' \in Seq(Resource) /\ DOMAIN resources \subseteq DOMAIN resources'
  BY <1>1 DEF CreateResource, TypeInv, StoreOK
<1>3. StoreOK'
  BY <1>2 DEF CreateResource, TypeInv, StoreOK, calendar, Within
<1> QED
  BY <1>2, <1>3, StoreGrown DEF CreateResource

LEMMA SetStatusStep ==
    ASSUME NEW r \in DOMAIN resources, NEW s \in Statuses
    PROVE  TypeInv /\ SetStatus(r, s) => TypeInv'
<1> SUFFICES ASSUME TypeInv, SetStatus(r, s) PROVE TypeInv'
  OBVIOUS
<1> DEFINE x == [resources[r] EXCEPT !.status = s]
<1>1. resources[r] \in Resource
  BY DEF TypeInv, StoreOK
<1>2. x \in Resource
  BY <1>1, StatusReplaced
<1>3. resources' = [resources EXCEPT ![r] = x]
  BY DEF SetStatus
<1>4. resources' \in Seq(Resource) /\ DOMAIN resources' = DOMAIN resources
  BY <1>2, <1>3 DEF TypeInv, StoreOK
<1>5. StoreOK'
  BY <1>4 DEF SetStatus, TypeInv, StoreOK, calendar, Within
<1> QED
  BY <1>4, <1>5, StoreGrown DEF SetStatus

LEMMA CreatePoolStep ==
    ASSUME NEW m \in Members, NEW all \in BOOLEAN
    PROVE  TypeInv /\ CreatePool(m, all) => TypeInv'
<1> SUFFICES ASSUME TypeInv, CreatePool(m, all) PROVE TypeInv'
  OBVIOUS
<1> DEFINE x == [members |-> m, all |-> all]
<1>1. x \in Pool /\ Within(x.members, DOMAIN resources)
  BY DEF Pool, CreatePool, Within
<1>2. pools' \in Seq(Pool)
  BY <1>1 DEF CreatePool, TypeInv, StoreOK
<1>3. \A p \in DOMAIN pools' : pools'[p] = IF p = Len(pools) + 1 THEN x ELSE pools[p]
  BY <1>1 DEF CreatePool, TypeInv, StoreOK
<1>4. \A p \in DOMAIN pools' : p # Len(pools) + 1 => p \in DOMAIN pools
  BY <1>1 DEF CreatePool, TypeInv, StoreOK
<1>5. \A p \in DOMAIN pools' : Within(pools'[p].members, DOMAIN resources')
  BY <1>1, <1>3, <1>4 DEF CreatePool, TypeInv, StoreOK
<1>6. StoreOK'
  BY <1>2, <1>5 DEF CreatePool, TypeInv, StoreOK, calendar
<1> QED
  BY <1>6, StoreGrown DEF CreatePool

LEMMA AddRuleStep ==
    ASSUME NEW r \in DOMAIN resources, NEW w \in Ranges, NEW c \in RuleCapacities
    PROVE  TypeInv /\ AddRule(r, w, c) => TypeInv'
<1> SUFFICES ASSUME TypeInv, AddRule(r, w, c) PROVE TypeInv'
  OBVIOUS
<1>1. [resource |-> r, window |-> w, capacity |-> c] \in Rule
  BY DEF Rule, TypeInv, StoreOK
<1>2. StoreOK'
  BY <1>1 DEF AddRule, TypeInv, StoreOK
<1> QED
  BY <1>2, StoreGrown DEF AddRule

LEMMA AddBlackoutStep ==
    ASSUME NEW r \in DOMAIN resources, NEW x \in Ranges, NEW c \in Reductions
    PROVE  TypeInv /\ AddBlackout(r, x, c) => TypeInv'
<1> SUFFICES ASSUME TypeInv, AddBlackout(r, x, c) PROVE TypeInv'
  OBVIOUS
<1>1. [resource |-> r, range |-> x, reduction |-> c] \in Blackout
  BY DEF Blackout, TypeInv, StoreOK
<1>2. StoreOK'
  BY <1>1 DEF AddBlackout, TypeInv, StoreOK
<1> QED
  BY <1>2, StoreGrown DEF AddBlackout

LEMMA AddExceptionStep ==
    ASSUME NEW r \in DOMAIN resources, NEW x \in Ranges, NEW open \in BOOLEAN,
           NEW c \in Overrides
    PROVE  TypeInv /\ AddException(r, x, open, c) => TypeInv'
<1> SUFFICES ASSUME TypeInv, AddException(r, x, open, c) PROVE TypeInv'
  OBVIOUS
<1>1. [resource |-> r, range |-> x, open |-> open, override |-> c] \in Exception
  BY DEF Exception, TypeInv, StoreOK
<1>2. StoreOK'
  BY <1>1 DEF AddException, TypeInv, StoreOK
<1> QED
  BY <1>2, StoreGrown DEF AddException

-----------------------------------------------------------------------------
(* The calls of a customer.                                                *)

LEMMA Entry ==
    ASSUME NEW id
    PROVE  TypeInv /\ id \in Ids
             => /\ id \in Nat /\ id \in DOMAIN reservations
                /\ reservations[id] \in Reservation
                /\ reservations[id].state \in States
                /\ reservations[id].range \in Ranges
<1> SUFFICES ASSUME TypeInv, id \in Ids
             PROVE  /\ id \in Nat /\ id \in DOMAIN reservations
                    /\ reservations[id] \in Reservation
                    /\ reservations[id].state \in States
                    /\ reservations[id].range \in Ranges
  OBVIOUS
<1>1. id \in Nat /\ id \in DOMAIN reservations /\ reservations[id] \in Reservation
  BY DEF TypeInv, BookingsOK, Ids
<1> QED
  BY <1>1 DEF Reservation

LEMMA NewHoldFits ==
    ASSUME NEW r \in Nat, NEW x \in Ranges, NEW q \in Quantities, NEW e \in Expiries
    PROVE  /\ NewHold(r, x, q, e) \in Reservation
           /\ NewHold(r, x, q, e).resource = r
           /\ NewHold(r, x, q, e).state = "Held"
BY DEF NewHold, Reservation, States

LEMMA StartHoldStep ==
    ASSUME NEW r \in DOMAIN resources, NEW x \in Ranges, NEW q \in Quantities,
           NEW e \in Expiries
    PROVE  TypeInv /\ StartHold(r, x, q, e) => TypeInv'
<1> SUFFICES ASSUME TypeInv, StartHold(r, x, q, e) PROVE TypeInv'
  OBVIOUS
<1> DEFINE hold == NewHold(r, x, q, e)
           t == [op |-> "hold", hold |-> hold, fits |-> HoldFits(hold)]
<1>1. r \in Nat
  BY DEF TypeInv, StoreOK
<1>2. hold \in Reservation /\ hold.resource = r
  BY <1>1, NewHoldFits
<1>3. HoldFits(hold) \in BOOLEAN
  BY AvailableIsBoolean DEF HoldFits
<1>4. t \in Tasks /\ Fits(t, DOMAIN resources', Ids')
  BY <1>2, <1>3 DEF Tasks, HoldTask, Fits, StartHold
<1>5. /\ tasks' = Append(tasks, t)
      /\ UNCHANGED <<resources, pools, calendar, now, reservations, cancelled>>
  BY DEF StartHold, Start
<1>6. BookingsOK' /\ Ids' = Ids
  BY <1>5, Unbooked
<1> HIDE DEF t
<1>7. FitQueue(tasks, DOMAIN resources, Ids)'
  BY <1>4, <1>5, <1>6, QueueStarted
<1> QED
  BY <1>5, <1>6, <1>7, StoreKept

LEMMA EndHoldStep ==
    ASSUME NEW t
    PROVE  TypeInv /\ tasks # <<>> /\ t = Head(tasks) /\ t.op = "hold" /\ EndHold(t)
             => TypeInv'
<1> SUFFICES ASSUME TypeInv, tasks # <<>>, t = Head(tasks), t.op = "hold", EndHold(t)
             PROVE  TypeInv'
  OBVIOUS
<1>1. t \in Tasks /\ Fits(t, DOMAIN resources, Ids)
  BY Popped DEF TypeInv
<1>2. t.hold \in Reservation /\ t.hold.resource \in DOMAIN resources
  BY <1>1 DEF Tasks, HoldTask, RescheduleTask, AllocateTask, Fits
<1>3. BookingsOK' /\ Ids \subseteq Ids'
  BY <1>2, Booked, Unbooked DEF EndHold
<1>4. FitQueue(tasks, DOMAIN resources, Ids)'
  BY <1>3, QueueReturned DEF EndHold
<1> QED
  BY <1>3, <1>4, StoreKept DEF EndHold

LEMMA RewrittenStep ==
    TypeInv /\ Rewritten /\ UNCHANGED <<pools, calendar, now, tasks>> => TypeInv'
BY Edited, QueueKept, StoreKept DEF Rewritten

LEMMA ConfirmStep ==
    ASSUME NEW id \in Ids
    PROVE  TypeInv /\ Confirm(id) => TypeInv'
<1>1. TypeInv /\ Confirm(id) => Rewritten
  BY OneState DEF Confirm, States, TypeInv, BookingsOK
<1> QED
  BY <1>1, RewrittenStep DEF Confirm

LEMMA CancelStep ==
    ASSUME NEW id \in Ids
    PROVE  TypeInv /\ Cancel(id) => TypeInv'
<1>1. TypeInv /\ Cancel(id) => Rewritten
  BY OneState DEF Cancel, States, TypeInv, BookingsOK
<1> QED
  BY <1>1, RewrittenStep DEF Cancel

LEMMA StartRescheduleStep ==
    ASSUME NEW id \in Ids, NEW x \in Ranges
    PROVE  TypeInv /\ StartReschedule(id, x) => TypeInv'
<1> SUFFICES ASSUME TypeInv, StartReschedule(id, x) PROVE TypeInv'
  OBVIOUS
<1> DEFINE fits == Available(reservations[id].resource, x, reservations[id].quantity)'
           t == [op |-> "reschedule", id |-> id, range |-> x,
                 state |-> reservations[id].state, fits |-> fits]
<1>1. Rewritten
  BY OneState DEF StartReschedule, States, TypeInv, BookingsOK
<1>2. BookingsOK' /\ Ids' = Ids
  BY <1>1, Edited
<1>3. fits \in BOOLEAN
  BY DEF Available
<1>4. id \in Nat /\ reservations[id].state \in States
  BY Entry
<1>5. /\ tasks' = Append(tasks, t)
      /\ UNCHANGED <<resources, pools, calendar, now>>
  BY DEF StartReschedule, Start
<1> HIDE DEF fits
<1>6. t \in Tasks /\ Fits(t, DOMAIN resources', Ids')
  BY <1>2, <1>3, <1>4 DEF Tasks, RescheduleTask, Fits
<1> HIDE DEF t
<1>7. FitQueue(tasks, DOMAIN resources, Ids)'
  BY <1>2, <1>5, <1>6, QueueStarted
<1> QED
  BY <1>2, <1>5, <1>7, StoreKept

LEMMA EndRescheduleStep ==
    ASSUME NEW t
    PROVE  TypeInv /\ tasks # <<>> /\ t = Head(tasks) /\ t.op = "reschedule"
             /\ EndReschedule(t) => TypeInv'
<1> SUFFICES ASSUME TypeInv, tasks # <<>>, t = Head(tasks), t.op = "reschedule",
                    EndReschedule(t)
             PROVE  TypeInv'
  OBVIOUS
<1> DEFINE range == IF t.fits THEN t.range ELSE reservations[t.id].range
<1>1. t \in Tasks /\ Fits(t, DOMAIN resources, Ids)
  BY Popped DEF TypeInv
<1>2. t.id \in Ids /\ t.range \in Ranges /\ t.state \in States /\ t.fits \in BOOLEAN
  BY <1>1 DEF Tasks, HoldTask, RescheduleTask, AllocateTask, Fits
<1>3. range \in Ranges
  BY <1>2, Entry
<1>4. reservations' = [reservations EXCEPT ![t.id].state = t.state,
                                           ![t.id].range = range]
  BY DEF EndReschedule
<1> HIDE DEF range
<1>5. cancelled' \subseteq Ids /\ UNCHANGED <<resources, pools, calendar, now>> /\ Return
  BY DEF EndReschedule, TypeInv, BookingsOK
<1>6. Rewritten
  BY <1>2, <1>3, <1>4, <1>5, OneRewritten
<1>7. BookingsOK' /\ Ids' = Ids
  BY <1>6, Edited
<1>8. FitQueue(tasks, DOMAIN resources, Ids)'
  BY <1>5, <1>7, QueueReturned
<1> QED
  BY <1>5, <1>7, <1>8, StoreKept

LEMMA ExpireHoldsStep ==
    ASSUME NEW at
    PROVE  TypeInv /\ ExpireHolds(at) => TypeInv'
<1> SUFFICES ASSUME TypeInv, ExpireHolds(at) PROVE TypeInv'
  OBVIOUS
<1>1. \A id \in Ids : reservations[id] \in Reservation
  BY DEF TypeInv, BookingsOK, Ids
<1>2. \A id \in Ids : LET y == [reservations[id] EXCEPT !.state = "Expired"]
                      IN  y \in Reservation /\ y.resource = reservations[id].resource
  BY <1>1, StateReplaced DEF States
<1>3. \A id \in Ids : \/ reservations'[id] = reservations[id]
                      \/ reservations'[id] = [reservations[id] EXCEPT !.state = "Expired"]
  BY DEF ExpireHolds
<1>4. \A id \in Ids : /\ reservations'[id] \in Reservation
                      /\ reservations'[id].resource = reservations[id].resource
  BY <1>1, <1>2, <1>3
<1>5. Len(reservations) \in Nat /\ Ids = 1..Len(reservations)
  BY DEF TypeInv, BookingsOK, Ids
<1>6. reservations' = [id \in 1..Len(reservations) |-> reservations'[id]]
  BY <1>5 DEF ExpireHolds
<1>7. reservations' \in Seq(Reservation) /\ Len(reservations') = Len(reservations)
  BY <1>4, <1>5, <1>6
<1>8. Rewritten
  BY <1>4, <1>7 DEF Rewritten, ExpireHolds, TypeInv, BookingsOK
<1> QED
  BY <1>8, RewrittenStep DEF ExpireHolds

-----------------------------------------------------------------------------
(* Allocations.                                                            *)

LEMMA RequestsFit ==
    ASSUME NEW x
    PROVE  TypeInv /\ x \in Requests
             => x \in Request /\ Within(x.members, DOMAIN resources)
<1> SUFFICES ASSUME TypeInv, x \in Requests
             PROVE  x \in Request /\ Within(x.members, DOMAIN resources)
  OBVIOUS
<1>1. PICK y \in Targets, range \in Ranges, quantity \in Quantities, expires \in Expiries :
        x = [members |-> y.members, all |-> y.all, range |-> range,
             quantity |-> quantity, expires |-> expires]
  BY DEF Requests
<1>2. /\ y.members \in Seq(Nat) /\ y.all \in BOOLEAN
      /\ Within(y.members, DOMAIN resources)
  <2>1. CASE \E r \in DOMAIN resources : y = [members |-> <<r>>, all |-> TRUE]
    <3>1. PICK r \in DOMAIN resources : y = [members |-> <<r>>, all |-> TRUE]
      BY <2>1
    <3>2. r \in Nat
      BY DEF TypeInv, StoreOK
    <3> QED
      BY <3>1, <3>2 DEF Within
  <2>2. CASE \E p \in DOMAIN pools : y = pools[p]
    <3>1. PICK p \in DOMAIN pools : y = pools[p]
      BY <2>2
    <3>2. y \in Pool /\ Within(y.members, DOMAIN resources)
      BY <3>1 DEF TypeInv, StoreOK
    <3> QED
      BY <3>2, ReservationsAssumption DEF Pool
  <2> QED
    BY <2>1, <2>2 DEF Targets
<1> QED
  BY <1>1, <1>2 DEF Request

LEMMA StartAllocateStep ==
    ASSUME NEW requests
    PROVE  TypeInv /\ requests \in Seq(Requests) /\ requests # <<>>
             /\ StartAllocate(requests) => TypeInv'
<1> SUFFICES ASSUME TypeInv, requests \in Seq(Requests), requests # <<>>,
                    StartAllocate(requests)
             PROVE  TypeInv'
  OBVIOUS
<1> DEFINE fits == RequestFits(requests[1], 1)
           t == [op |-> "allocate", step |-> "select", requests |-> requests,
                 i |-> 1, j |-> 1, found |-> <<>>, selected |-> <<>>, made |-> <<>>,
                 fits |-> fits]
<1>1. \A n \in DOMAIN requests : /\ requests[n] \in Request
                                 /\ Within(requests[n].members, DOMAIN resources)
  BY RequestsFit
<1>2. requests \in Seq(Request) /\ 1 \in DOMAIN requests
  BY <1>1
<1>3. fits \in BOOLEAN
  BY AvailableIsBoolean DEF RequestFits
<1>4. /\ tasks' = Append(tasks, t)
      /\ requests[1].members # <<>>
      /\ UNCHANGED <<resources, pools, calendar, now, reservations, cancelled>>
  BY DEF StartAllocate, Start
<1>5. 1 \in DOMAIN requests[1].members
  <2>1. requests[1].members \in Seq(Nat)
    BY <1>1, <1>2 DEF Request
  <2> QED
    BY <1>4, <2>1
<1>6. BookingsOK' /\ Ids' = Ids
  BY <1>4, Unbooked
<1> HIDE DEF fits
<1>7. t \in Tasks
  BY <1>2, <1>3 DEF Tasks, AllocateTask
<1>8. Fits(t, DOMAIN resources', Ids')
  BY <1>1, <1>2, <1>4, <1>5 DEF Fits, AllocateFits, Within, Makes
<1> HIDE DEF t
<1>9. FitQueue(tasks, DOMAIN resources, Ids)'
  BY <1>4, <1>6, <1>7, <1>8, QueueStarted
<1> QED
  BY <1>4, <1>6, <1>9, StoreKept

LEMMA AllocateTaskFits ==
    ASSUME NEW t
    PROVE  TypeInv /\ tasks # <<>> /\ t = Head(tasks) /\ t.op = "allocate"
             => t \in AllocateTask /\ AllocateFits(t, DOMAIN resources, Ids)
BY Popped DEF TypeInv, Fits, Tasks, HoldTask, RescheduleTask

LEMMA HeldOneStep ==
    ASSUME NEW t
    PROVE  TypeInv /\ tasks # <<>> /\ t = Head(tasks) /\ t.op = "allocate"
             /\ t.step = "held" /\ HeldOne(t) => TypeInv'
<1> SUFFICES ASSUME TypeInv, tasks # <<>>, t = Head(tasks), t.op = "allocate",
                    t.step = "held", HeldOne(t)
             PROVE  TypeInv'
  OBVIOUS
<1> DEFINE fits == HoldFits(t.selected[Len(t.made) + 1])
           u == [t EXCEPT !.step = "hold", !.fits = fits]
<1>1. t \in AllocateTask /\ AllocateFits(t, DOMAIN resources, Ids)
  BY AllocateTaskFits
<1>2. UNCHANGED <<resources, pools, calendar, now, reservations, cancelled>>
  BY DEF HeldOne
<1>3. BookingsOK' /\ Ids' = Ids
  BY <1>2, Unbooked
<1>4. fits \in BOOLEAN
  BY AvailableIsBoolean DEF HoldFits
<1>5. FitQueue(tasks, DOMAIN resources, Ids)'
  <2>1. CASE Len(t.made) = Len(t.selected)
    BY <1>2, <1>3, <2>1, QueueReturned DEF HeldOne
  <2>2. CASE Len(t.made) # Len(t.selected)
    <3>1. Suspend(u)
      BY <2>2 DEF HeldOne
    <3> HIDE DEF fits
    <3>2. u \in Tasks /\ u.op = "allocate"
      BY <1>1, <1>4 DEF Tasks, AllocateTask
    <3>3. Len(t.made) < Len(t.selected)
      BY <1>1, <2>2 DEF AllocateFits, AllocateTask
    <3>4. AllocateFits(u, DOMAIN resources, Ids)
      BY <1>1, <3>3 DEF AllocateFits, AllocateTask
    <3>5. Fits(u, DOMAIN resources', Ids')
      BY <1>2, <1>3, <3>2, <3>4 DEF Fits
    <3> HIDE DEF u
    <3> QED
      BY <1>2, <1>3, <3>1, <3>2, <3>5, QueueSuspended
  <2> QED
    BY <2>1, <2>2
<1> QED
  BY <1>2, <1>3, <1>5, StoreKept

LEMMA UndoStep ==
    ASSUME NEW t
    PROVE  TypeInv /\ tasks # <<>> /\ t = Head(tasks) /\ t.op = "allocate"
             /\ t.step = "undo" /\ Undo(t) => TypeInv'
<1> SUFFICES ASSUME TypeInv, tasks # <<>>, t = Head(tasks), t.op = "allocate",
                    t.step = "undo", Undo(t)
             PROVE  TypeInv'
  OBVIOUS
<1> DEFINE u == [t EXCEPT !.j = @ + 1]
<1>1. t \in AllocateTask /\ AllocateFits(t, DOMAIN resources, Ids)
  BY AllocateTaskFits
<1>2. UNCHANGED <<resources, pools, calendar, now>>
  BY DEF Undo
<1>3. CASE t.j > Len(t.made)
  <2>1. Return /\ UNCHANGED <<reservations, cancelled>>
    BY <1>3 DEF Undo
  <2>2. BookingsOK' /\ Ids' = Ids
    BY <1>2, <2>1, Unbooked
  <2>3. FitQueue(tasks, DOMAIN resources, Ids)'
    BY <1>2, <2>1, <2>2, QueueReturned
  <2> QED
    BY <1>2, <2>2, <2>3, StoreKept
<1>4. CASE ~(t.j > Len(t.made))
  <2> DEFINE id == t.made[t.j]
  <2>1. /\ reservations' = [reservations EXCEPT ![id].state = "Cancelled"]
        /\ cancelled' = cancelled \cup {id}
        /\ Suspend(u)
    BY <1>4 DEF Undo
  <2>2. t.j \in Nat /\ t.j >= 1 /\ t.made \in Seq(Nat)
    BY <1>1 DEF AllocateTask, AllocateFits
  <2>3. id \in Ids
    BY <1>1, <1>4, <2>2 DEF AllocateFits, Within
  <2> HIDE DEF id
  <2>4. cancelled' \subseteq Ids
    BY <2>1, <2>3 DEF TypeInv, BookingsOK
  <2>5. BookingsOK' /\ Ids' = Ids
    BY <1>2, <2>1, <2>3, <2>4, OneState, Edited DEF States
  <2>6. u \in Tasks /\ u.op = "allocate"
    <3>1. t.j + 1 \in Nat
      BY <2>2
    <3> QED
      BY <1>1, <3>1 DEF Tasks, AllocateTask
  <2>7. AllocateFits(u, DOMAIN resources, Ids)
    BY <1>1, <2>2 DEF AllocateFits, AllocateTask
  <2>8. Fits(u, DOMAIN resources', Ids')
    BY <1>2, <2>5, <2>6, <2>7 DEF Fits
  <2> HIDE DEF u
  <2>9. FitQueue(tasks, DOMAIN resources, Ids)'
    BY <1>2, <2>1, <2>5, <2>6, <2>8, QueueSuspended
  <2> QED
    BY <1>2, <2>5, <2>9, StoreKept
<1> QED
  BY <1>3, <1>4

LEMMA HoldNextStep ==
    ASSUME NEW t
    PROVE  TypeInv /\ tasks # <<>> /\ t = Head(tasks) /\ t.op = "allocate"
             /\ t.step = "hold" /\ HoldNext(t) => TypeInv'
<1> SUFFICES ASSUME TypeInv, tasks # <<>>, t = Head(tasks), t.op = "allocate",
                    t.step = "hold", HoldNext(t)
             PROVE  TypeInv'
  OBVIOUS
<1>1. t \in AllocateTask /\ AllocateFits(t, DOMAIN resources, Ids)
  BY AllocateTaskFits
<1>2. UNCHANGED <<resources, pools, calendar, now, cancelled>>
  BY DEF HoldNext
<1>3. CASE t.fits
  <2> DEFINE h == t.selected[Len(t.made) + 1]
             made == Append(t.made, NextId)
             u == [t EXCEPT !.step = "held", !.made = made]
  <2>1. reservations' = Append(reservations, h) /\ Suspend(u)
    BY <1>3 DEF HoldNext
  <2>2. /\ t.made \in Seq(Nat) /\ t.selected \in Seq(Reservation)
        /\ Len(t.made) < Len(t.selected)
    BY <1>1 DEF AllocateTask, AllocateFits
  <2>3. Len(t.made) + 1 \in DOMAIN t.selected
    BY <2>2
  <2>4. h \in Reservation /\ h.resource \in DOMAIN resources
    BY <1>1, <2>2, <2>3 DEF AllocateFits, Makes
  <2> HIDE DEF h
  <2>5. BookingsOK' /\ Ids \subseteq Ids' /\ Ids' = 1..NextId
    BY <1>2, <2>1, <2>4, Booked
  <2>6. NextId \in Nat /\ NextId \in Ids'
    BY <2>5 DEF NextId, TypeInv, BookingsOK
  <2>7. /\ made \in Seq(Nat) /\ Within(made, Ids')
        /\ Len(made) <= Len(t.selected)
    <3>1. made \in Seq(Nat) /\ Len(made) = Len(t.made) + 1
      BY <2>2, <2>6
    <3>2. \A k \in DOMAIN made :
            \/ made[k] = NextId
            \/ k \in DOMAIN t.made /\ made[k] = t.made[k]
      BY <2>2, <2>6
    <3>3. Within(t.made, Ids)
      BY <1>1 DEF AllocateFits
    <3> QED
      BY <2>2, <2>5, <2>6, <3>1, <3>2, <3>3 DEF Within
  <2> HIDE DEF made
  <2>8. u \in Tasks /\ u.op = "allocate"
    BY <1>1, <2>7 DEF Tasks, AllocateTask
  <2>9. AllocateFits(u, DOMAIN resources, Ids')
    BY <1>1, <2>7 DEF AllocateFits, AllocateTask
  <2>10. Fits(u, DOMAIN resources', Ids')
    BY <1>2, <2>8, <2>9 DEF Fits
  <2> HIDE DEF u
  <2>11. FitQueue(tasks, DOMAIN resources, Ids)'
    BY <1>2, <2>1, <2>5, <2>8, <2>10, QueueSuspended
  <2> QED
    BY <1>2, <2>5, <2>11, StoreKept
<1>4. CASE ~t.fits
  <2> DEFINE u == [t EXCEPT !.step = "undo", !.j = 1]
  <2>1. UNCHANGED reservations /\ Suspend(u)
    BY <1>4 DEF HoldNext
  <2>2. BookingsOK' /\ Ids' = Ids
    BY <1>2, <2>1, Unbooked
  <2>3. u \in Tasks /\ u.op = "allocate"
    BY <1>1 DEF Tasks, AllocateTask
  <2>4. AllocateFits(u, DOMAIN resources, Ids)
    BY <1>1 DEF AllocateFits, AllocateTask
  <2>5. Fits(u, DOMAIN resources', Ids')
    BY <1>2, <2>2, <2>3, <2>4 DEF Fits
  <2> HIDE DEF u
  <2>6. FitQueue(tasks, DOMAIN resources, Ids)'
    BY <1>2, <2>1, <2>2, <2>3, <2>5, QueueSuspended
  <2> QED
    BY <1>2, <2>2, <2>6, StoreKept
<1> QED
  BY <1>3, <1>4

LEMMA FoundFits ==
    ASSUME NEW found \in Seq(Nat), NEW r \in Nat, NEW R, Within(found, R), r \in R
    PROVE  Append(found, r) \in Seq(Nat) /\ Within(Append(found, r), R)
<1>1. Append(found, r) \in Seq(Nat)
  OBVIOUS
<1>2. \A k \in DOMAIN Append(found, r) :
        \/ Append(found, r)[k] = r
        \/ k \in DOMAIN found /\ Append(found, r)[k] = found[k]
  OBVIOUS
<1> QED
  BY <1>1, <1>2 DEF Within

LEMMA FirstOnly == ASSUME NEW n \in Nat PROVE Min({1, n}) \in 0..n
<1>1. \E x \in {1, n} : \A y \in {1, n} : x <= y
  OBVIOUS
<1>2. /\ Min({1, n}) \in {1, n}
      /\ \A y \in {1, n} : Min({1, n}) <= y
  BY <1>1 DEF Min
<1> QED
  BY <1>2

LEMMA ChosenFits ==
    ASSUME NEW request, NEW found \in Seq(Nat), NEW R, Within(found, R)
    PROVE  Chosen(request, found) \in Seq(Nat) /\ Within(Chosen(request, found), R)
<1> DEFINE n == Min({1, Len(found)})
<1>1. n \in 0..Len(found)
  BY FirstOnly
<1> HIDE DEF n
<1>2. SubSeq(found, 1, n) \in Seq(Nat) /\ Within(SubSeq(found, 1, n), R)
  BY <1>1 DEF Within
<1>3. <<>> \in Seq(Nat) /\ Within(<<>>, R)
  BY DEF Within
<1>4. Chosen(request, found) \in {SubSeq(found, 1, n), found, <<>>}
  BY DEF Chosen, n
<1> QED
  BY <1>2, <1>3, <1>4

LEMMA HoldsFit ==
    ASSUME NEW request \in Request, NEW chosen \in Seq(Nat), NEW R, Within(chosen, R)
    PROVE  /\ Holds(request, chosen) \in Seq(Reservation)
           /\ Len(Holds(request, chosen)) = Len(chosen)
           /\ Makes(Holds(request, chosen), R)
<1> DEFINE h(k) == NewHold(chosen[k], request.range, request.quantity, request.expires)
<1>1. /\ request.range \in Ranges /\ request.quantity \in Quantities
      /\ request.expires \in Expiries
  BY DEF Request
<1>2. \A k \in DOMAIN chosen : /\ h(k) \in Reservation /\ h(k).resource \in R
                              /\ h(k).state = "Held"
  BY <1>1, NewHoldFits DEF Within
<1>3. Holds(request, chosen) = [k \in 1..Len(chosen) |-> h(k)]
  BY DEF Holds
<1> HIDE DEF h
<1> QED
  BY <1>2, <1>3 DEF Makes

LEMMA SelectedFits ==
    ASSUME NEW R, NEW s \in Seq(Reservation), NEW h \in Seq(Reservation),
           Makes(s, R), Makes(h, R)
    PROVE  /\ s \o h \in Seq(Reservation) /\ Len(s \o h) = Len(s) + Len(h)
           /\ Makes(s \o h, R)
<1>1. s \o h \in Seq(Reservation) /\ Len(s \o h) = Len(s) + Len(h)
  OBVIOUS
<1>2. \A k \in DOMAIN (s \o h) :
        \/ k \in DOMAIN s /\ (s \o h)[k] = s[k]
        \/ k - Len(s) \in DOMAIN h /\ (s \o h)[k] = h[k - Len(s)]
  OBVIOUS
<1> QED
  BY <1>1, <1>2 DEF Makes

LEMMA SelectStep ==
    ASSUME NEW t
    PROVE  TypeInv /\ tasks # <<>> /\ t = Head(tasks) /\ t.op = "allocate"
             /\ t.step = "select" /\ Select(t) => TypeInv'
<1> SUFFICES ASSUME TypeInv, tasks # <<>>, t = Head(tasks), t.op = "allocate",
                    t.step = "select", Select(t)
             PROVE  TypeInv'
  OBVIOUS
<1> DEFINE R == DOMAIN resources
           request == t.requests[t.i]
           found == IF t.fits THEN Append(t.found, request.members[t.j]) ELSE t.found
           chosen == Chosen(request, found)
           holds == Holds(request, chosen)
           selected == t.selected \o holds
           fits1 == RequestFits(request, t.j + 1)
           fits2 == RequestFits(t.requests[t.i + 1], 1)
           fits3 == HoldFits(selected[1])
           u1 == [t EXCEPT !.j = @ + 1, !.found = found, !.fits = fits1]
           u2 == [t EXCEPT !.i = @ + 1, !.j = 1, !.found = <<>>, !.selected = selected,
                           !.fits = fits2]
           u3 == [t EXCEPT !.step = "hold", !.selected = selected, !.fits = fits3]
<1>1. t \in AllocateTask /\ AllocateFits(t, R, Ids)
  BY AllocateTaskFits
<1>2. UNCHANGED <<resources, pools, calendar, now, reservations, cancelled>>
  BY DEF Select
<1>3. BookingsOK' /\ Ids' = Ids
  BY <1>2, Unbooked
<1>4. \/ Return
      \/ t.j < Len(request.members) /\ Suspend(u1)
      \/ /\ t.j = Len(request.members) /\ chosen # <<>> /\ t.i < Len(t.requests)
         /\ t.requests[t.i + 1].members # <<>> /\ Suspend(u2)
      \/ chosen # <<>> /\ Suspend(u3)
  BY DEF Select
<1>5. /\ t.i \in DOMAIN t.requests /\ request \in Request
      /\ request.members \in Seq(Nat)
      /\ Within(request.members, R) /\ t.j \in DOMAIN request.members
      /\ t.i \in Nat /\ t.j \in Nat /\ t.made = <<>>
  <2>1. /\ t.requests \in Seq(Request) /\ t.i \in DOMAIN t.requests
        /\ t.i \in Nat /\ t.j \in Nat
    BY <1>1 DEF AllocateTask, AllocateFits
  <2>2. request \in Request /\ Within(request.members, R)
    BY <1>1, <2>1 DEF AllocateFits
  <2> QED
    BY <1>1, <2>1, <2>2 DEF AllocateFits, Request
<1>6. found \in Seq(Nat) /\ Within(found, R)
  <2>1. t.found \in Seq(Nat) /\ Within(t.found, R)
    BY <1>1 DEF AllocateTask, AllocateFits
  <2>2. request.members[t.j] \in Nat /\ request.members[t.j] \in R
    BY <1>5 DEF Within
  <2> QED
    BY <2>1, <2>2, FoundFits
<1> HIDE DEF found
<1>7. chosen \in Seq(Nat) /\ Within(chosen, R)
  BY <1>6, ChosenFits
<1> HIDE DEF chosen
<1>8. /\ holds \in Seq(Reservation) /\ Len(holds) = Len(chosen)
      /\ Makes(holds, R)
  BY <1>5, <1>7, HoldsFit
<1> HIDE DEF holds
<1>9. /\ selected \in Seq(Reservation) /\ Len(selected) = Len(t.selected) + Len(holds)
      /\ Makes(selected, R)
  <2>1. t.selected \in Seq(Reservation) /\ Makes(t.selected, R)
    BY <1>1 DEF AllocateTask, AllocateFits
  <2> QED
    BY <1>8, <2>1, SelectedFits
<1> HIDE DEF selected
<1>10. fits1 \in BOOLEAN /\ fits2 \in BOOLEAN /\ fits3 \in BOOLEAN
  BY AvailableIsBoolean DEF RequestFits, HoldFits
<1> HIDE DEF fits1, fits2, fits3, request
<1>11. CASE t.j < Len(request.members) /\ Suspend(u1)
  <2>1. t.j + 1 \in DOMAIN request.members /\ t.j + 1 \in Nat
    BY <1>5, <1>11
  <2>2. u1 \in Tasks /\ u1.op = "allocate"
    BY <1>1, <1>6, <1>10, <2>1 DEF Tasks, AllocateTask
  <2>3. AllocateFits(u1, R, Ids)
    BY <1>1, <1>6, <2>1 DEF AllocateFits, AllocateTask, request
  <2>4. Fits(u1, R', Ids')
    BY <1>2, <1>3, <2>2, <2>3 DEF Fits
  <2> HIDE DEF u1
  <2>5. FitQueue(tasks, DOMAIN resources, Ids)'
    BY <1>2, <1>3, <1>11, <2>2, <2>4, QueueSuspended
  <2> QED
    BY <1>2, <1>3, <2>5, StoreKept
<1>12. CASE /\ t.i < Len(t.requests)
            /\ t.requests[t.i + 1].members # <<>> /\ Suspend(u2)
  <2>1. /\ t.i + 1 \in DOMAIN t.requests /\ t.i + 1 \in Nat
        /\ t.requests[t.i + 1] \in Request
    BY <1>1, <1>5, <1>12 DEF AllocateTask
  <2>2. 1 \in DOMAIN t.requests[t.i + 1].members
    BY <1>12, <2>1 DEF Request
  <2>3. u2 \in Tasks /\ u2.op = "allocate"
    <3> DEFINE i == t.i + 1
               v == [t EXCEPT !.i = i, !.j = 1, !.found = <<>>]
    <3>1. v \in AllocateTask
      <4>1. i \in Nat /\ 1 \in Nat /\ <<>> \in Seq(Nat)
        BY <2>1
      <4> HIDE DEF i
      <4> QED
        BY <1>1, <4>1 DEF AllocateTask
    <3>2. u2 = [v EXCEPT !.selected = selected, !.fits = fits2]
      BY <1>1 DEF AllocateTask
    <3> HIDE DEF v, u2
    <3>3. u2 \in AllocateTask
      BY <1>9, <1>10, <3>1, <3>2 DEF AllocateTask
    <3> QED
      BY <3>3 DEF Tasks, AllocateTask
  <2>4. AllocateFits(u2, R, Ids)
    BY <1>1, <1>9, <2>1, <2>2 DEF AllocateFits, AllocateTask, Within
  <2>5. Fits(u2, R', Ids')
    BY <1>2, <1>3, <2>3, <2>4 DEF Fits
  <2> HIDE DEF u2
  <2>6. FitQueue(tasks, DOMAIN resources, Ids)'
    BY <1>2, <1>3, <1>12, <2>3, <2>5, QueueSuspended
  <2> QED
    BY <1>2, <1>3, <2>6, StoreKept
<1>13. CASE chosen # <<>> /\ Suspend(u3)
  <2>1. Len(t.made) < Len(selected)
    <3>1. Len(t.selected) \in Nat
      BY <1>1 DEF AllocateTask
    <3> QED
      BY <1>5, <1>7, <1>8, <1>9, <1>13, <3>1
  <2>2. u3 \in Tasks /\ u3.op = "allocate"
    BY <1>1, <1>9, <1>10 DEF Tasks, AllocateTask
  <2>3. AllocateFits(u3, R, Ids)
    BY <1>1, <1>9, <2>1 DEF AllocateFits, AllocateTask
  <2>4. Fits(u3, R', Ids')
    BY <1>2, <1>3, <2>2, <2>3 DEF Fits
  <2> HIDE DEF u3
  <2>5. FitQueue(tasks, DOMAIN resources, Ids)'
    BY <1>2, <1>3, <1>13, <2>2, <2>4, QueueSuspended
  <2> QED
    BY <1>2, <1>3, <2>5, StoreKept
<1>14. CASE Return
  <2>1. FitQueue(tasks, DOMAIN resources, Ids)'
    BY <1>2, <1>3, <1>14, QueueReturned
  <2> QED
    BY <1>2, <1>3, <2>1, StoreKept
<1> QED
  BY <1>4, <1>11, <1>12, <1>13, <1>14

-----------------------------------------------------------------------------
LEMMA InitTypeInv == Init => TypeInv
BY DEF Init, TypeInv, StoreOK, BookingsOK, Ids, FitQueue

LEMMA AdministrateStep == TypeInv /\ Administrate => TypeInv'
<1> SUFFICES ASSUME TypeInv, Administrate PROVE TypeInv'
  OBVIOUS
<1>1. CASE \E c \in Capacities : CreateResource(c)
  BY <1>1, CreateResourceStep
<1>2. CASE \E m \in Members, all \in BOOLEAN : CreatePool(m, all)
  BY <1>2, CreatePoolStep
<1>3. ASSUME NEW r \in DOMAIN resources, NEW s \in Statuses, SetStatus(r, s)
      PROVE  TypeInv'
  BY <1>3, SetStatusStep
<1>4. ASSUME NEW r \in DOMAIN resources, NEW w \in Ranges, NEW c \in RuleCapacities,
             AddRule(r, w, c)
      PROVE  TypeInv'
  BY <1>4, AddRuleStep
<1>5. ASSUME NEW r \in DOMAIN resources, NEW x \in Ranges, NEW c \in Reductions,
             AddBlackout(r, x, c)
      PROVE  TypeInv'
  BY <1>5, AddBlackoutStep
<1>6. ASSUME NEW r \in DOMAIN resources, NEW x \in Ranges, NEW open \in BOOLEAN,
             NEW c \in Overrides, AddException(r, x, open, c)
      PROVE  TypeInv'
  BY <1>6, AddExceptionStep
<1> QED
  BY <1>1, <1>2, <1>3, <1>4, <1>5, <1>6 DEF Administrate

LEMMA OneOrTwo ==
    ASSUME NEW S, NEW x \in S, NEW y \in S
    PROVE  <<x>> \in Seq(S) /\ <<x>> # <<>> /\ <<x, y>> \in Seq(S) /\ <<x, y>> # <<>>
OBVIOUS

LEMMA BookStep == TypeInv /\ Book => TypeInv'
<1> SUFFICES ASSUME TypeInv, Book PROVE TypeInv'
  OBVIOUS
<1>1. ASSUME NEW r \in DOMAIN resources, NEW x \in Ranges, NEW q \in Quantities,
             NEW e \in Expiries, StartHold(r, x, q, e)
      PROVE  TypeInv'
  BY <1>1, StartHoldStep
<1>2. ASSUME NEW id \in Ids, Confirm(id) \/ Cancel(id)
      PROVE  TypeInv'
  BY <1>2, ConfirmStep, CancelStep
<1>3. ASSUME NEW id \in Ids, NEW x \in Ranges, StartReschedule(id, x)
      PROVE  TypeInv'
  BY <1>3, StartRescheduleStep
<1>4. ASSUME NEW at \in 0..MaxTime, ExpireHolds(at)
      PROVE  TypeInv'
  BY <1>4, ExpireHoldsStep
<1>5. ASSUME NEW x \in Requests, StartAllocate(<<x>>)
      PROVE  TypeInv'
  BY <1>5, OneOrTwo, StartAllocateStep
<1>6. ASSUME NEW x \in Requests, NEW y \in Requests, StartAllocate(<<x, y>>)
      PROVE  TypeInv'
  BY <1>6, OneOrTwo, StartAllocateStep
<1> QED
  BY <1>1, <1>2, <1>3, <1>4, <1>5, <1>6 DEF Book

LEMMA ContinueStep == TypeInv /\ Continue => TypeInv'
BY EndHoldStep, EndRescheduleStep, SelectStep, HoldNextStep, HeldOneStep, UndoStep
   DEF Continue

LEMMA TickStep == TypeInv /\ Tick => TypeInv'
<1> SUFFICES ASSUME TypeInv, Tick PROVE TypeInv'
  OBVIOUS
<1>1. StoreOK' /\ BookingsOK' /\ Ids' = Ids
  BY Unplanned, Unbooked DEF Tick
<1>2. FitQueue(tasks, DOMAIN resources, Ids)'
  BY <1>1, QueueKept DEF Tick
<1>3. now' \in Nat
  BY DEF Tick, TypeInv
<1> QED
  BY <1>1, <1>2, <1>3 DEF TypeInv

LEMMA TypeInvStep == TypeInv /\ [Next]_vars => TypeInv'
<1> SUFFICES ASSUME TypeInv, [Next]_vars PROVE TypeInv'
  OBVIOUS
<1>1. CASE UNCHANGED vars
  <2>1. StoreOK' /\ UNCHANGED <<resources, reservations, now, tasks, cancelled>>
    BY <1>1, Unplanned DEF vars
  <2> QED
    BY <2>1, StoreGrown
<1> QED
  BY <1>1, AdministrateStep, BookStep, ContinueStep, TickStep DEF Next

(* The queue of suspended calls holds only what its continuation can use:  *)
(* every reservation, resource and position a call kept over an await      *)
(* still exists when it goes on, whatever ran meanwhile, in both ports.    *)
THEOREM TypeCorrect == Spec => []TypeOK
<1>1. Spec => []TypeInv
  BY InitTypeInv, TypeInvStep, PTL DEF Spec
<1> QED
  BY <1>1, TypeInvGivesType, PTL

-----------------------------------------------------------------------------
(* The Rust port: at most one call is under way, and nothing has changed   *)
(* since it looked.  book are the reservations, gone the cancelled ones.   *)

AllAre(made, book, state) == \A k \in DOMAIN made : book[made[k]].state = state

Alone(t, book, gone) ==
    /\ t.op = "reschedule" => t.id \notin gone
    /\ t.op = "allocate" =>
         /\ t.step \in {"hold", "held"} => AllAre(t.made, book, "Held")
         /\ t.step = "undo" =>
              \A k \in DOMAIN t.made : k < t.j => book[t.made[k]].state = "Cancelled"

SyncInv ==
    /\ TypeInv
    /\ CancelledStaysCancelled
    /\ tasks # <<>> =>
         Tail(tasks) = <<>> /\ Alone(Head(tasks), reservations, cancelled)

LEMMA QueueOfOne ==
    ASSUME NEW t \in Tasks, NEW q, q = Append(<<>>, t)
    PROVE  q # <<>> /\ Tail(q) = <<>> /\ Head(q) = t
<1>1. q = <<t>>
  OBVIOUS
<1> QED
  BY <1>1

(* What a step must show: what became of the first task.                   *)
LEMMA SyncStarted ==
    ASSUME NEW t \in Tasks
    PROVE  SyncInv /\ TypeInv' /\ CancelledStaysCancelled' /\ tasks = <<>>
             /\ tasks' = Append(tasks, t) /\ Alone(t, reservations', cancelled')
             => SyncInv'
<1> SUFFICES ASSUME SyncInv, TypeInv', CancelledStaysCancelled', tasks = <<>>,
                    tasks' = Append(tasks, t), Alone(t, reservations', cancelled')
             PROVE  SyncInv'
  OBVIOUS
<1>1. tasks' # <<>> /\ Tail(tasks') = <<>> /\ Head(tasks') = t
  BY QueueOfOne
<1> QED
  BY <1>1 DEF SyncInv

LEMMA SyncSuspended ==
    ASSUME NEW t \in Tasks
    PROVE  SyncInv /\ TypeInv' /\ CancelledStaysCancelled' /\ tasks # <<>>
             /\ Suspend(t) /\ Alone(t, reservations', cancelled')
             => SyncInv'
<1> SUFFICES ASSUME SyncInv, TypeInv', CancelledStaysCancelled', tasks # <<>>,
                    Suspend(t), Alone(t, reservations', cancelled')
             PROVE  SyncInv'
  OBVIOUS
<1>1. tasks' = Append(<<>>, t)
  BY DEF Suspend, SyncInv
<1>2. tasks' # <<>> /\ Tail(tasks') = <<>> /\ Head(tasks') = t
  BY <1>1, QueueOfOne
<1> QED
  BY <1>2 DEF SyncInv

LEMMA SyncReturned ==
    SyncInv /\ TypeInv' /\ CancelledStaysCancelled' /\ tasks # <<>> /\ Return
      => SyncInv'
BY DEF Return, SyncInv

LEMMA SyncKept ==
    SyncInv /\ TypeInv' /\ UNCHANGED <<reservations, tasks, cancelled>> => SyncInv'
BY DEF SyncInv, CancelledStaysCancelled

(* One reservation changes its state.                                      *)
LEMMA StatesAfter ==
    ASSUME NEW id \in Ids, NEW s \in States
    PROVE  TypeInv /\ reservations' = [reservations EXCEPT ![id].state = s]
             => \A x \in Ids : reservations'[x].state =
                                IF x = id THEN s ELSE reservations[x].state
<1> SUFFICES ASSUME TypeInv, reservations' = [reservations EXCEPT ![id].state = s],
                    NEW x \in Ids
             PROVE  reservations'[x].state = IF x = id THEN s ELSE reservations[x].state
  OBVIOUS
<1> DEFINE y == [reservations[id] EXCEPT !.state = s]
<1>1. reservations[id] \in Reservation /\ x \in DOMAIN reservations
  BY Entry
<1>2. y.state = s
  BY <1>1 DEF Reservation
<1>3. reservations' = [reservations EXCEPT ![id] = y]
  OBVIOUS
<1> HIDE DEF y
<1> QED
  BY <1>1, <1>2, <1>3

LEMMA CancelledAfter ==
    ASSUME NEW id \in Ids, NEW s \in States
    PROVE  TypeInv /\ CancelledStaysCancelled
             /\ reservations' = [reservations EXCEPT ![id].state = s]
             /\ cancelled' \subseteq cancelled \cup {id}
             /\ (s = "Cancelled" \/ id \notin cancelled')
             => CancelledStaysCancelled'
<1> SUFFICES ASSUME TypeInv, CancelledStaysCancelled,
                    reservations' = [reservations EXCEPT ![id].state = s],
                    cancelled' \subseteq cancelled \cup {id},
                    s = "Cancelled" \/ id \notin cancelled',
                    NEW x \in cancelled'
             PROVE  reservations'[x].state = "Cancelled"
  BY DEF CancelledStaysCancelled
<1>1. x \in Ids
  BY DEF TypeInv, BookingsOK
<1>2. \A z \in Ids : reservations'[z].state = IF z = id THEN s ELSE reservations[z].state
  BY StatesAfter
<1>3. x # id => reservations[x].state = "Cancelled"
  BY DEF CancelledStaysCancelled
<1> QED
  BY <1>1, <1>2, <1>3

LEMMA MoveAfter ==
    ASSUME NEW id \in Ids, NEW s \in States, NEW r \in Ranges
    PROVE  TypeInv /\ CancelledStaysCancelled /\ id \notin cancelled
             /\ reservations' = [reservations EXCEPT ![id].state = s, ![id].range = r]
             /\ UNCHANGED cancelled
             => CancelledStaysCancelled'
<1> SUFFICES ASSUME TypeInv, CancelledStaysCancelled, id \notin cancelled,
                    reservations' = [reservations EXCEPT ![id].state = s,
                                                         ![id].range = r],
                    UNCHANGED cancelled,
                    NEW x \in cancelled
             PROVE  reservations'[x].state = "Cancelled"
  BY DEF CancelledStaysCancelled
<1> DEFINE y == [reservations[id] EXCEPT !.state = s, !.range = r]
<1>1. x \in Ids /\ x # id
  BY DEF TypeInv, BookingsOK
<1>2. reservations' = [reservations EXCEPT ![id] = y]
  BY DEF TypeInv, BookingsOK, Ids
<1> HIDE DEF y
<1>3. reservations'[x] = reservations[x]
  BY <1>1, <1>2, Entry
<1> QED
  BY <1>3 DEF CancelledStaysCancelled

LEMMA ConfirmAlone ==
    ASSUME NEW id \in Ids
    PROVE  SyncInv /\ TypeInv' /\ Confirm(id) => CancelledStaysCancelled'
<1> SUFFICES ASSUME SyncInv, Confirm(id) PROVE CancelledStaysCancelled'
  OBVIOUS
<1>1. id \notin cancelled
  BY DEF SyncInv, CancelledStaysCancelled, Confirm, Confirmable
<1> QED
  BY <1>1, CancelledAfter DEF SyncInv, Confirm, States

LEMMA CancelAlone ==
    ASSUME NEW id \in Ids
    PROVE  SyncInv /\ Cancel(id) => CancelledStaysCancelled'
BY CancelledAfter DEF SyncInv, Cancel, States

LEMMA ExpireHoldsAlone ==
    ASSUME NEW at
    PROVE  SyncInv /\ ExpireHolds(at) => CancelledStaysCancelled'
<1> SUFFICES ASSUME SyncInv, ExpireHolds(at), NEW id \in cancelled
             PROVE  reservations'[id].state = "Cancelled"
  BY DEF CancelledStaysCancelled, ExpireHolds
<1>1. id \in Ids /\ reservations[id].state = "Cancelled"
  BY DEF SyncInv, CancelledStaysCancelled, TypeInv, BookingsOK
<1> QED
  BY <1>1 DEF ExpireHolds

LEMMA StartRescheduleAlone ==
    ASSUME NEW id \in Ids, NEW x \in Ranges
    PROVE  SyncInv /\ TypeInv' /\ tasks = <<>> /\ StartReschedule(id, x) => SyncInv'
<1> SUFFICES ASSUME SyncInv, TypeInv', tasks = <<>>, StartReschedule(id, x)
             PROVE  SyncInv'
  OBVIOUS
<1> DEFINE fits == Available(reservations[id].resource, x, reservations[id].quantity)'
           t == [op |-> "reschedule", id |-> id, range |-> x,
                 state |-> reservations[id].state, fits |-> fits]
<1>1. id \notin cancelled
  BY DEF SyncInv, CancelledStaysCancelled, StartReschedule, Movable
<1>2. CancelledStaysCancelled'
  BY CancelledAfter DEF SyncInv, StartReschedule, States
<1>3. tasks' = Append(tasks, t) /\ UNCHANGED cancelled
  BY DEF StartReschedule, Start
<1>4. fits \in BOOLEAN /\ id \in Nat /\ reservations[id].state \in States
  BY Entry DEF Available, SyncInv
<1> HIDE DEF fits
<1>5. t \in Tasks /\ Alone(t, reservations', cancelled')
  BY <1>1, <1>3, <1>4 DEF Tasks, RescheduleTask, Alone
<1> HIDE DEF t
<1> QED
  BY <1>2, <1>3, <1>5, SyncStarted

LEMMA BookAlone ==
    ASSUME ~Interleaved
    PROVE  SyncInv /\ TypeInv' /\ Book => SyncInv'
<1> SUFFICES ASSUME SyncInv, TypeInv', Book PROVE SyncInv'
  OBVIOUS
<1>1. SyncInv /\ TypeInv /\ CancelledStaysCancelled /\ (MayCall => tasks = <<>>)
  BY DEF SyncInv, MayCall
<1>2. ASSUME CancelledStaysCancelled', MayCall, UNCHANGED tasks
      PROVE  SyncInv'
  BY <1>1, <1>2 DEF SyncInv
<1>3. ASSUME NEW r \in DOMAIN resources, NEW x \in Ranges, NEW q \in Quantities,
             NEW e \in Expiries, StartHold(r, x, q, e)
      PROVE  SyncInv'
  <2> DEFINE hold == NewHold(r, x, q, e)
             t == [op |-> "hold", hold |-> hold, fits |-> HoldFits(hold)]
  <2>1. hold \in Reservation /\ HoldFits(hold) \in BOOLEAN
    BY <1>1, NewHoldFits, AvailableIsBoolean DEF TypeInv, StoreOK, HoldFits
  <2>2. t \in Tasks /\ Alone(t, reservations', cancelled')
    BY <2>1 DEF Tasks, HoldTask, Alone
  <2>3. /\ MayCall /\ tasks' = Append(tasks, t)
        /\ UNCHANGED <<reservations, cancelled>>
    BY <1>3 DEF StartHold, Start
  <2> HIDE DEF t
  <2>4. CancelledStaysCancelled'
    BY <1>1, <2>3 DEF CancelledStaysCancelled
  <2> QED
    BY <1>1, <2>2, <2>3, <2>4, SyncStarted
<1>4. ASSUME NEW id \in Ids, Confirm(id) PROVE SyncInv'
  BY <1>1, <1>2, <1>4, ConfirmAlone DEF Confirm
<1>5. ASSUME NEW id \in Ids, Cancel(id) PROVE SyncInv'
  BY <1>1, <1>2, <1>5, CancelAlone DEF Cancel
<1>6. ASSUME NEW id \in Ids, NEW x \in Ranges, StartReschedule(id, x) PROVE SyncInv'
  BY <1>1, <1>6, StartRescheduleAlone DEF StartReschedule, Start
<1>7. ASSUME NEW at \in 0..MaxTime, ExpireHolds(at) PROVE SyncInv'
  BY <1>1, <1>2, <1>7, ExpireHoldsAlone DEF ExpireHolds
<1>8. ASSUME NEW requests, requests \in Seq(Requests), requests # <<>>,
             StartAllocate(requests)
      PROVE  SyncInv'
  <2> DEFINE fits == RequestFits(requests[1], 1)
             t == [op |-> "allocate", step |-> "select", requests |-> requests,
                   i |-> 1, j |-> 1, found |-> <<>>, selected |-> <<>>, made |-> <<>>,
                   fits |-> fits]
  <2>1. \A n \in DOMAIN requests : requests[n] \in Request
    BY <1>1, <1>8, RequestsFit
  <2>2. requests \in Seq(Request) /\ fits \in BOOLEAN
    BY <1>8, <2>1, AvailableIsBoolean DEF RequestFits
  <2>3. /\ MayCall /\ tasks' = Append(tasks, t)
        /\ UNCHANGED <<reservations, cancelled>>
    BY <1>8 DEF StartAllocate, Start
  <2> HIDE DEF fits
  <2>4. t \in Tasks /\ Alone(t, reservations', cancelled')
    BY <2>2 DEF Tasks, AllocateTask, Alone
  <2> HIDE DEF t
  <2>5. CancelledStaysCancelled'
    BY <1>1, <2>3 DEF CancelledStaysCancelled
  <2> QED
    BY <1>1, <2>3, <2>4, <2>5, SyncStarted
<1>9. ASSUME NEW x \in Requests, StartAllocate(<<x>>) PROVE SyncInv'
  BY <1>8, <1>9, OneOrTwo
<1>10. ASSUME NEW x \in Requests, NEW y \in Requests, StartAllocate(<<x, y>>)
       PROVE  SyncInv'
  BY <1>8, <1>10, OneOrTwo
<1> QED
  BY <1>3, <1>4, <1>5, <1>6, <1>7, <1>9, <1>10 DEF Book

-----------------------------------------------------------------------------
LEMMA EndHoldAlone ==
    ASSUME NEW t
    PROVE  SyncInv /\ TypeInv' /\ tasks # <<>> /\ t = Head(tasks) /\ t.op = "hold"
             /\ EndHold(t) => SyncInv'
<1> SUFFICES ASSUME SyncInv, TypeInv', tasks # <<>>, EndHold(t)
             PROVE  SyncInv'
  OBVIOUS
<1>1. reservations \in Seq(Reservation) /\ cancelled \subseteq Ids
  BY DEF SyncInv, TypeInv, BookingsOK
<1>2. \A id \in Ids : reservations'[id] = reservations[id]
  BY <1>1 DEF EndHold, Ids
<1>3. CancelledStaysCancelled'
  BY <1>1, <1>2 DEF SyncInv, CancelledStaysCancelled, EndHold
<1> QED
  BY <1>3, SyncReturned DEF EndHold

LEMMA EndRescheduleAlone ==
    ASSUME NEW t
    PROVE  SyncInv /\ TypeInv' /\ tasks # <<>> /\ t = Head(tasks)
             /\ t.op = "reschedule" /\ EndReschedule(t) => SyncInv'
<1> SUFFICES ASSUME SyncInv, TypeInv', tasks # <<>>, t = Head(tasks),
                    t.op = "reschedule", EndReschedule(t)
             PROVE  SyncInv'
  OBVIOUS
<1> DEFINE range == IF t.fits THEN t.range ELSE reservations[t.id].range
<1>1. t \in Tasks /\ Fits(t, DOMAIN resources, Ids)
  BY Popped DEF SyncInv, TypeInv
<1>2. t.id \in Ids /\ t.range \in Ranges /\ t.state \in States /\ t.fits \in BOOLEAN
  BY <1>1 DEF Tasks, HoldTask, RescheduleTask, AllocateTask, Fits
<1>3. range \in Ranges
  BY <1>2, Entry DEF SyncInv
<1>4. reservations' = [reservations EXCEPT ![t.id].state = t.state,
                                           ![t.id].range = range]
  BY DEF EndReschedule
<1>5. t.id \notin cancelled
  BY DEF SyncInv, Alone
<1> HIDE DEF range
<1>6. TypeInv /\ CancelledStaysCancelled /\ Return /\ UNCHANGED cancelled
  BY DEF EndReschedule, SyncInv
<1>7. CancelledStaysCancelled'
  BY <1>2, <1>3, <1>4, <1>5, <1>6, MoveAfter
<1> QED
  BY <1>6, <1>7, SyncReturned

(* A new hold disturbs no reservation there was.                           *)
LEMMA HoldNextAlone ==
    ASSUME NEW t
    PROVE  SyncInv /\ TypeInv' /\ tasks # <<>> /\ t = Head(tasks)
             /\ t.op = "allocate" /\ t.step = "hold" /\ HoldNext(t) => SyncInv'
<1> SUFFICES ASSUME SyncInv, TypeInv', tasks # <<>>, t = Head(tasks),
                    t.op = "allocate", t.step = "hold", HoldNext(t)
             PROVE  SyncInv'
  OBVIOUS
<1>1. /\ TypeInv /\ CancelledStaysCancelled
      /\ t \in AllocateTask /\ AllocateFits(t, DOMAIN resources, Ids)
  BY AllocateTaskFits DEF SyncInv
<1>2. AllAre(t.made, reservations, "Held")
  BY DEF SyncInv, Alone
<1>3. /\ reservations \in Seq(Reservation) /\ cancelled \subseteq Ids
      /\ t.made \in Seq(Nat) /\ Within(t.made, Ids) /\ Len(t.made) < Len(t.selected)
      /\ t.selected \in Seq(Reservation) /\ Makes(t.selected, DOMAIN resources)
  BY <1>1 DEF TypeInv, BookingsOK, AllocateTask, AllocateFits
<1>4. CASE t.fits
  <2> DEFINE h == t.selected[Len(t.made) + 1]
             made == Append(t.made, NextId)
             u == [t EXCEPT !.step = "held", !.made = made]
  <2>1. reservations' = Append(reservations, h) /\ Suspend(u) /\ UNCHANGED cancelled
    BY <1>4 DEF HoldNext
  <2>2. Len(t.made) + 1 \in DOMAIN t.selected
    BY <1>3
  <2>3. h \in Reservation /\ h.state = "Held"
    BY <1>3, <2>2 DEF Makes
  <2> HIDE DEF h
  <2>4. /\ NextId \in Nat /\ reservations'[NextId] = h
        /\ \A id \in Ids : reservations'[id] = reservations[id]
    BY <1>3, <2>1, <2>3 DEF NextId, Ids
  <2>5. made \in Seq(Nat)
    BY <1>3, <2>4
  <2>6. \A k \in DOMAIN made :
          \/ made[k] = NextId
          \/ k \in DOMAIN t.made /\ made[k] = t.made[k]
    BY <1>3, <2>4
  <2>7. AllAre(made, reservations', "Held")
    BY <1>2, <1>3, <2>3, <2>4, <2>6 DEF AllAre, Within
  <2>8. CancelledStaysCancelled'
    BY <1>1, <1>3, <2>1, <2>4 DEF CancelledStaysCancelled
  <2> HIDE DEF made
  <2>9. u \in Tasks /\ Alone(u, reservations', cancelled')
    BY <1>1, <2>5, <2>7 DEF Tasks, AllocateTask, Alone
  <2> HIDE DEF u
  <2> QED
    BY <2>1, <2>8, <2>9, SyncSuspended
<1>5. CASE ~t.fits
  <2> DEFINE u == [t EXCEPT !.step = "undo", !.j = 1]
  <2>1. Suspend(u) /\ UNCHANGED <<reservations, cancelled>>
    BY <1>5 DEF HoldNext
  <2>2. CancelledStaysCancelled'
    BY <1>1, <2>1 DEF CancelledStaysCancelled
  <2>3. u \in Tasks /\ Alone(u, reservations', cancelled')
    <3>1. /\ u \in Tasks /\ u.op = "allocate"
          /\ u.step = "undo" /\ u.j = 1 /\ u.made = t.made
      BY <1>1 DEF Tasks, AllocateTask
    <3>2. \A k \in DOMAIN t.made : ~(k < 1)
      BY <1>3
    <3> HIDE DEF u
    <3> QED
      BY <3>1, <3>2 DEF Alone
  <2> HIDE DEF u
  <2> QED
    BY <2>1, <2>2, <2>3, SyncSuspended
<1> QED
  BY <1>4, <1>5

LEMMA SelectAlone ==
    ASSUME NEW t
    PROVE  SyncInv /\ TypeInv' /\ tasks # <<>> /\ t = Head(tasks)
             /\ t.op = "allocate" /\ t.step = "select" /\ Select(t) => SyncInv'
<1> SUFFICES ASSUME SyncInv, TypeInv', tasks # <<>>, t = Head(tasks),
                    t.op = "allocate", t.step = "select", Select(t)
             PROVE  SyncInv'
  OBVIOUS
<1>1. UNCHANGED <<reservations, cancelled>>
  BY DEF Select
<1>2. CancelledStaysCancelled'
  BY <1>1 DEF SyncInv, CancelledStaysCancelled
<1>3. t \in AllocateTask /\ t.made = <<>>
  BY AllocateTaskFits DEF SyncInv, AllocateFits
<1>4. CASE Return
  BY <1>2, <1>4, SyncReturned
<1>5. ASSUME NEW u, Suspend(u), u.op = "allocate", u.made = <<>>, u.step # "undo"
      PROVE  SyncInv'
  <2>1. tasks' = Append(<<>>, u)
    BY <1>5 DEF Suspend, SyncInv
  <2>2. u \in Tasks
    BY <2>1 DEF TypeInv, FitQueue
  <2>3. Alone(u, reservations', cancelled')
    BY <1>5 DEF Alone, AllAre
  <2> QED
    BY <1>2, <1>5, <2>2, <2>3, SyncSuspended
<1> DEFINE request == t.requests[t.i]
           found == IF t.fits THEN Append(t.found, request.members[t.j]) ELSE t.found
           selected == t.selected \o Holds(request, Chosen(request, found))
           fits1 == RequestFits(request, t.j + 1)
           fits2 == RequestFits(t.requests[t.i + 1], 1)
           fits3 == HoldFits(selected[1])
           u1 == [t EXCEPT !.j = @ + 1, !.found = found, !.fits = fits1]
           u2 == [t EXCEPT !.i = @ + 1, !.j = 1, !.found = <<>>, !.selected = selected,
                           !.fits = fits2]
           u3 == [t EXCEPT !.step = "hold", !.selected = selected, !.fits = fits3]
<1>6. Return \/ Suspend(u1) \/ Suspend(u2) \/ Suspend(u3)
  BY DEF Select
<1> HIDE DEF request, found, selected, fits1, fits2, fits3
<1>7. /\ u1.op = "allocate" /\ u1.made = <<>> /\ u1.step # "undo"
      /\ u2.op = "allocate" /\ u2.made = <<>> /\ u2.step # "undo"
      /\ u3.op = "allocate" /\ u3.made = <<>> /\ u3.step # "undo"
  BY <1>3 DEF AllocateTask
<1> HIDE DEF u1, u2, u3
<1> QED
  BY <1>4, <1>5, <1>6, <1>7

LEMMA HeldOneAlone ==
    ASSUME NEW t
    PROVE  SyncInv /\ TypeInv' /\ tasks # <<>> /\ t = Head(tasks)
             /\ t.op = "allocate" /\ t.step = "held" /\ HeldOne(t) => SyncInv'
<1> SUFFICES ASSUME SyncInv, TypeInv', tasks # <<>>, t = Head(tasks),
                    t.op = "allocate", t.step = "held", HeldOne(t)
             PROVE  SyncInv'
  OBVIOUS
<1> DEFINE fits == HoldFits(t.selected[Len(t.made) + 1])
           u == [t EXCEPT !.step = "hold", !.fits = fits]
<1>1. (Return \/ Suspend(u)) /\ UNCHANGED <<reservations, cancelled>>
  BY DEF HeldOne
<1>2. CancelledStaysCancelled'
  BY <1>1 DEF SyncInv, CancelledStaysCancelled
<1>3. t \in AllocateTask /\ AllAre(t.made, reservations, "Held")
  BY AllocateTaskFits DEF SyncInv, Alone
<1>4. fits \in BOOLEAN
  BY AvailableIsBoolean DEF HoldFits
<1> HIDE DEF fits
<1>5. u \in Tasks /\ Alone(u, reservations', cancelled')
  BY <1>1, <1>3, <1>4 DEF Tasks, AllocateTask, Alone
<1> HIDE DEF u
<1> QED
  BY <1>1, <1>2, <1>5, SyncReturned, SyncSuspended

LEMMA UndoAlone ==
    ASSUME NEW t
    PROVE  SyncInv /\ TypeInv' /\ tasks # <<>> /\ t = Head(tasks)
             /\ t.op = "allocate" /\ t.step = "undo" /\ Undo(t) => SyncInv'
<1> SUFFICES ASSUME SyncInv, TypeInv', tasks # <<>>, t = Head(tasks),
                    t.op = "allocate", t.step = "undo", Undo(t)
             PROVE  SyncInv'
  OBVIOUS
<1>1. /\ TypeInv /\ CancelledStaysCancelled
      /\ t \in AllocateTask /\ AllocateFits(t, DOMAIN resources, Ids)
  BY AllocateTaskFits DEF SyncInv
<1>2. \A k \in DOMAIN t.made : k < t.j => reservations[t.made[k]].state = "Cancelled"
  BY DEF SyncInv, Alone
<1>3. /\ t.j \in Nat /\ t.j >= 1 /\ t.made \in Seq(Nat) /\ Within(t.made, Ids)
  BY <1>1 DEF AllocateTask, AllocateFits
<1>4. CASE t.j > Len(t.made)
  <2>1. Return /\ UNCHANGED <<reservations, cancelled>>
    BY <1>4 DEF Undo
  <2>2. CancelledStaysCancelled'
    BY <1>1, <2>1 DEF CancelledStaysCancelled
  <2> QED
    BY <2>1, <2>2, SyncReturned
<1>5. CASE ~(t.j > Len(t.made))
  <2> DEFINE id == t.made[t.j]
             u == [t EXCEPT !.j = @ + 1]
  <2>1. /\ reservations' = [reservations EXCEPT ![id].state = "Cancelled"]
        /\ cancelled' = cancelled \cup {id} /\ Suspend(u)
    BY <1>5 DEF Undo
  <2>2. id \in Ids
    BY <1>3, <1>5 DEF Within
  <2>3. u \in Tasks /\ u.op = "allocate" /\ u.step = "undo"
        /\ u.j = t.j + 1 /\ u.made = t.made
    <3>1. t.j + 1 \in Nat
      BY <1>3
    <3> QED
      BY <1>1, <3>1 DEF Tasks, AllocateTask
  <2> HIDE DEF u
  <2>4. \A x \in Ids : reservations'[x].state =
                        IF x = id THEN "Cancelled" ELSE reservations[x].state
    BY <1>1, <2>1, <2>2, StatesAfter DEF States
  <2>5. \A k \in DOMAIN t.made :
          k < t.j + 1 => reservations'[t.made[k]].state = "Cancelled"
    BY <1>2, <1>3, <2>4 DEF Within
  <2> HIDE DEF id
  <2>6. CancelledStaysCancelled'
    BY <1>1, <2>1, <2>2, CancelledAfter DEF States
  <2>7. Alone(u, reservations', cancelled')
    BY <2>3, <2>5 DEF Alone
  <2> QED
    BY <2>1, <2>3, <2>6, <2>7, SyncSuspended
<1> QED
  BY <1>4, <1>5

LEMMA SyncInvStep ==
    ASSUME ~Interleaved
    PROVE  SyncInv /\ [Next]_vars => SyncInv'
<1> SUFFICES ASSUME SyncInv, [Next]_vars PROVE SyncInv'
  OBVIOUS
<1>1. TypeInv'
  BY TypeInvStep DEF SyncInv
<1>2. CASE Administrate
  BY <1>1, <1>2, SyncKept
     DEF Administrate, CreateResource, SetStatus, CreatePool, AddRule, AddBlackout,
         AddException
<1>3. CASE Book
  BY <1>1, <1>3, BookAlone
<1>4. CASE Continue
  BY <1>1, <1>4, EndHoldAlone, EndRescheduleAlone, SelectAlone, HoldNextAlone,
     HeldOneAlone, UndoAlone DEF Continue
<1>5. CASE Tick \/ UNCHANGED vars
  BY <1>1, <1>5, SyncKept DEF Tick, vars
<1> QED
  BY <1>2, <1>3, <1>4, <1>5 DEF Next

LEMMA SyncInvariant == ASSUME ~Interleaved PROVE Spec => []SyncInv
<1>1. Init => SyncInv
  BY InitTypeInv DEF Init, SyncInv, CancelledStaysCancelled
<1> QED
  BY <1>1, SyncInvStep, PTL DEF Spec

(* In the Rust port a reservation whose cancel has returned never takes    *)
(* part again: no call is under way that could still write it back.        *)
THEOREM CancelledForGood ==
    ASSUME ~Interleaved PROVE Spec => []CancelledStaysCancelled
BY SyncInvariant, PTL DEF SyncInv

-----------------------------------------------------------------------------
(* A step in which the first task returns is its own.                      *)

AllOrNothing(t) ==
    LET states == {reservations'[t.made[k]].state : k \in DOMAIN t.made}
    IN  \/ states \subseteq {"Cancelled"}
        \/ states \subseteq {"Held"} /\ Len(t.made) = Len(t.selected)

LEMMA StillWaiting ==
    ASSUME NEW u
    PROVE  Tail(tasks) = <<>> /\ Suspend(u) => tasks' # <<>>
<1>1. u \in {u} /\ <<u>> # <<>>
  OBVIOUS
<1>2. Append(<<>>, u) = <<u>>
  OBVIOUS
<1> QED
  BY <1>1, <1>2 DEF Suspend

LEMMA ReturnsWhole ==
    ASSUME NEW t
    PROVE  SyncInv /\ tasks # <<>> /\ tasks' = <<>> /\ t = Head(tasks)
             /\ t.op = "allocate" /\ Continue => AllOrNothing(t)
<1> SUFFICES ASSUME SyncInv, tasks # <<>>, tasks' = <<>>, t = Head(tasks),
                    t.op = "allocate", Continue
             PROVE  AllOrNothing(t)
  OBVIOUS
<1>1. t \in AllocateTask /\ AllocateFits(t, DOMAIN resources, Ids)
  BY AllocateTaskFits DEF SyncInv
<1>2. Alone(t, reservations, cancelled) /\ Tail(tasks) = <<>>
  BY DEF SyncInv
<1>3. t.made \in Seq(Nat) /\ t.j \in Nat
  BY <1>1 DEF AllocateTask
<1>4. CASE t.step = "select"
  BY <1>1, <1>4 DEF AllocateFits, AllOrNothing
<1>5. CASE t.step = "hold"
  BY <1>2, <1>5, StillWaiting DEF Continue, HoldNext
<1>6. CASE t.step = "held"
  <2>1. HeldOne(t)
    BY <1>6 DEF Continue
  <2>2. Len(t.made) = Len(t.selected) /\ UNCHANGED reservations
    BY <1>2, <2>1, StillWaiting DEF HeldOne
  <2> QED
    BY <1>2, <1>6, <2>2 DEF Alone, AllAre, AllOrNothing
<1>7. CASE t.step = "undo"
  <2>1. Undo(t)
    BY <1>7 DEF Continue
  <2>2. t.j > Len(t.made) /\ UNCHANGED reservations
    BY <1>2, <2>1, StillWaiting DEF Undo
  <2>3. \A k \in DOMAIN t.made : k < t.j
    BY <1>3, <2>2
  <2> QED
    BY <1>2, <1>7, <2>2, <2>3 DEF Alone, AllOrNothing
<1> QED
  BY <1>4, <1>5, <1>6, <1>7 DEF Continue

LEMMA AllOrNothingStep ==
    ASSUME ~Interleaved
    PROVE  SyncInv /\ [Next]_vars
             => \A t \in {tasks[n] : n \in DOMAIN tasks} :
                  t.op = "allocate" /\ t = tasks[1] /\ tasks' = Tail(tasks)
                    => AllOrNothing(t)
<1> SUFFICES ASSUME SyncInv, [Next]_vars,
                    NEW t \in {tasks[n] : n \in DOMAIN tasks},
                    t.op = "allocate", t = tasks[1], tasks' = Tail(tasks)
             PROVE  AllOrNothing(t)
  OBVIOUS
<1>1. tasks \in Seq(Tasks) /\ tasks # <<>>
  BY DEF SyncInv, TypeInv, FitQueue
<1>2. tasks' = <<>> /\ t = Head(tasks)
  BY <1>1 DEF SyncInv
<1>3. ~MayCall /\ ~UNCHANGED tasks
  BY <1>1, <1>2 DEF MayCall
<1>4. ~Administrate
  BY <1>3 DEF Administrate, CreateResource, SetStatus, CreatePool, AddRule, AddBlackout,
              AddException
<1>5. ~Book
  BY <1>3 DEF Book, StartHold, Confirm, Cancel, StartReschedule, ExpireHolds,
              StartAllocate, Start
<1>6. Continue
  BY <1>3, <1>4, <1>5 DEF Next, Tick, vars
<1> QED
  BY <1>1, <1>2, <1>6, ReturnsWhole

(* In the Rust port an allocation that returns leaves a hold for all that  *)
(* it selected or none of its holds, and the ones it undid are cancelled.  *)
THEOREM AllocationIsAtomic ==
    ASSUME ~Interleaved PROVE Spec => AllocationIsAllOrNothing
<1>1. SyncInv /\ [Next]_vars
        => [ \A t \in {tasks[n] : n \in DOMAIN tasks} :
               t.op = "allocate" /\ t = tasks[1] /\ tasks' = Tail(tasks) =>
                 LET states == {reservations'[t.made[k]].state : k \in DOMAIN t.made}
                 IN  \/ states \subseteq {"Cancelled"}
                     \/ states \subseteq {"Held"} /\ Len(t.made) = Len(t.selected) ]_vars
  BY AllOrNothingStep DEF AllOrNothing
<1> QED
  BY <1>1, SyncInvariant, PTL DEF Spec, AllocationIsAllOrNothing

-----------------------------------------------------------------------------
(* What is taken.  The sums of the model are sums of the lemmas.           *)
Weights(book) == [id \in 1..Len(book) |-> book[id].quantity]

LEMMA QuantityIsSum ==
    ASSUME NEW S \in SUBSET Ids, IsFiniteSet(S)
    PROVE  Quantity(S) = SumOf(Weights(reservations), S)
<1> DEFINE f == Weights(reservations)
           h == CHOOSE i : i = [s \in SUBSET S |-> IF s = {} THEN 0
                  ELSE reservations[Pick(s)].quantity + i[s \ {Pick(s)}]]
<1>1. Quantity(S) = h[S]
  BY DEF Quantity, MapThenSumSet, MapThenFoldSet, Pick
<1>2. PICK g : Sums(g, f, S) /\ SumOf(f, S) = g[S]
  BY SumIsComputed
<1>3. \A s \in SUBSET S : s # {} => f[Pick(s)] = reservations[Pick(s)].quantity
  BY DEF Pick, Weights, Ids
<1>4. h = [s \in SUBSET S |-> IF s = {} THEN 0
             ELSE reservations[Pick(s)].quantity + h[s \ {Pick(s)}]]
  <2>1. g = [s \in SUBSET S |-> IF s = {} THEN 0
               ELSE reservations[Pick(s)].quantity + g[s \ {Pick(s)}]]
    BY <1>2, <1>3 DEF Sums, Added
  <2> QED BY <2>1
<1> HIDE DEF h, f
<1>5. Sums(h, f, S)
  BY <1>3, <1>4 DEF Sums, Added
<1>6. S \in SUBSET S /\ Agree(f, f, S)
  BY DEF Agree
<1> QED BY <1>1, <1>2, <1>5, <1>6, SumsAgree DEF f

Cuts(S, capacity) == [n \in S |-> OrElse(blackouts[n].reduction, capacity)]

LEMMA ReductionIsSum ==
    ASSUME NEW S, IsFiniteSet(S), NEW capacity
    PROVE  Reduction(S, capacity) = SumOf(Cuts(S, capacity), S)
<1> DEFINE f == Cuts(S, capacity)
           cut(n) == OrElse(blackouts[n].reduction, capacity)
           h == CHOOSE i : i = [s \in SUBSET S |-> IF s = {} THEN 0
                  ELSE cut(Pick(s)) + i[s \ {Pick(s)}]]
<1>1. Reduction(S, capacity) = h[S]
  BY DEF Reduction, MapThenSumSet, MapThenFoldSet, Pick
<1>2. PICK g : Sums(g, f, S) /\ SumOf(f, S) = g[S]
  BY SumIsComputed
<1>3. \A s \in SUBSET S : s # {} => f[Pick(s)] = cut(Pick(s))
  BY DEF Pick, Cuts
<1> HIDE DEF cut
<1>4. h = [s \in SUBSET S |-> IF s = {} THEN 0 ELSE cut(Pick(s)) + h[s \ {Pick(s)}]]
  <2>1. g = [s \in SUBSET S |-> IF s = {} THEN 0 ELSE cut(Pick(s)) + g[s \ {Pick(s)}]]
    BY <1>2, <1>3 DEF Sums, Added
  <2> QED BY <2>1
<1> HIDE DEF h, f
<1>5. Sums(h, f, S)
  BY <1>3, <1>4 DEF Sums, Added
<1>6. S \in SUBSET S /\ Agree(f, f, S)
  BY DEF Agree
<1> QED BY <1>1, <1>2, <1>5, <1>6, SumsAgree DEF f

(* The greatest of finitely many integers.                                 *)
LEMMA Greatest ==
    ASSUME NEW S, IsFiniteSet(S), S # {}, S \subseteq Int
    PROVE  Max(S) \in S /\ \A x \in S : x <= Max(S)
<1> DEFINE T == {n \in Nat : \A s \in SUBSET S : s # {} /\ Cardinality(s) = n
                               => \E m \in s : \A x \in s : x <= m}
<1>1. \A s \in SUBSET S : IsFiniteSet(s)
  BY FS_Subset
<1>2. 0 \in T
  BY <1>1, NothingElse
<1>3. ASSUME NEW n \in Nat, n \in T PROVE n + 1 \in T
  <2> SUFFICES ASSUME NEW s \in SUBSET S, s # {}, Cardinality(s) = n + 1
               PROVE  \E m \in s : \A x \in s : x <= m
    OBVIOUS
  <2>1. PICK e \in s : e = Pick(s)
    BY DEF Pick
  <2>2. s \ {e} \in SUBSET S /\ Cardinality(s \ {e}) = n
    <3>1. Cardinality(s \ {e}) = Cardinality(s) - 1
      BY <2>1, PickOne
    <3> QED BY <3>1
  <2>3. CASE s \ {e} = {}
    <3>1. e \in Int /\ \A x \in s : x = e
      BY <2>3
    <3> QED BY <3>1
  <2>4. CASE s \ {e} # {}
    <3>1. PICK m \in s \ {e} : \A x \in s \ {e} : x <= m
      BY <1>3, <2>2, <2>4
    <3>2. m \in Int /\ e \in Int /\ \A x \in s : x \in Int
      OBVIOUS
    <3>3. CASE e <= m
      BY <3>1, <3>3
    <3>4. CASE m <= e
      <4>1. \A x \in s : x <= e
        BY <3>1, <3>2, <3>4
      <4> QED BY <4>1
    <3> QED BY <3>2, <3>3, <3>4
  <2> QED BY <2>3, <2>4
<1>4. Cardinality(S) \in T
  <2> HIDE DEF T
  <2> QED BY <1>2, <1>3, SetInduction, FS_CardinalityType
<1>5. PICK m \in S : \A x \in S : m >= x
  BY <1>4
<1>6. Max(S) \in S /\ \A x \in S : Max(S) >= x
  BY <1>5 DEF Max
<1> QED BY <1>6

LEMMA ImageIsFinite ==
    ASSUME NEW S, IsFiniteSet(S), NEW f
    PROVE  IsFiniteSet({f[x] : x \in S})
<1> DEFINE T == {f[x] : x \in S}
           g == [x \in S |-> f[x]]
<1>1. g \in Surjection(S, T)
  BY DEF Surjection
<1> QED BY <1>1, FS_Surjection

(* A reservation that counts, and one that takes of r at a time.           *)
Counts(e, n) == /\ e.state \in {"Held", "Confirmed"}
                /\ e.expires = Never \/ e.expires > n

Covers(range, time) == range[1] <= time /\ time < range[2]

Takers(book, n, r, time) ==
    {id \in 1..Len(book) : /\ Counts(book[id], n)
                           /\ book[id].resource = r /\ Covers(book[id].range, time)}

Load(book, n, r, time) == SumOf(Weights(book), Takers(book, n, r, time))

LEMMA BookWeights ==
    ASSUME Quantities \subseteq Nat, NEW book \in Seq(Reservation), NEW S \in SUBSET (1..Len(book))
    PROVE  /\ IsFiniteSet(S) /\ SumOf(Weights(book), S) \in Nat
           /\ \A id \in 1..Len(book) : Weights(book)[id] = book[id].quantity
                                       /\ book[id].quantity \in Nat
<1>1. IsFiniteSet(1..Len(book))
  BY FS_Interval
<1>2. IsFiniteSet(S)
  BY <1>1, FS_Subset
<1>3. \A id \in 1..Len(book) : book[id].quantity \in Nat
  <2>1. \A x \in Reservation : x.quantity \in Nat
    BY DEF Reservation
  <2> QED BY <2>1
<1>4. \A id \in 1..Len(book) : Weights(book)[id] = book[id].quantity
  BY DEF Weights
<1> QED BY <1>2, <1>3, <1>4, SumIsNatural

LEMMA LoadIsNatural ==
    ASSUME Quantities \subseteq Nat, NEW book \in Seq(Reservation), NEW n, NEW r, NEW time
    PROVE  Load(book, n, r, time) \in Nat
<1>1. Takers(book, n, r, time) \in SUBSET (1..Len(book))
  BY DEF Takers
<1> QED BY <1>1, BookWeights DEF Load

(* Fewer reservations of the same quantities weigh less.                   *)
LEMMA Lighter ==
    ASSUME Quantities \subseteq Nat,
           NEW book \in Seq(Reservation), NEW new \in Seq(Reservation),
           NEW S \in SUBSET (1..Len(book)), NEW U \in SUBSET (1..Len(new)), U \subseteq S,
           \A id \in U : new[id].quantity = book[id].quantity
    PROVE  SumOf(Weights(new), U) <= SumOf(Weights(book), S)
<1>1. \A id \in U : Weights(new)[id] = Weights(book)[id]
  BY BookWeights
<1>2. IsFiniteSet(U) /\ IsFiniteSet(S)
  BY BookWeights
<1>3. SumOf(Weights(new), U) = SumOf(Weights(book), U)
  BY <1>1, <1>2, SameSum
<1>4. \A id \in S : Weights(book)[id] \in Nat
  BY BookWeights
<1> QED BY <1>2, <1>3, <1>4, SumOfSome

LEMMA OneHeavier ==
    ASSUME Quantities \subseteq Nat,
           NEW book \in Seq(Reservation), NEW new \in Seq(Reservation),
           NEW S \in SUBSET (1..Len(book)), NEW U \in SUBSET (1..Len(new)),
           NEW e \in U, U \subseteq S \cup {e},
           \A id \in U : id # e => new[id].quantity = book[id].quantity
    PROVE  SumOf(Weights(new), U) <= SumOf(Weights(book), S) + new[e].quantity
<1>1. IsFiniteSet(U) /\ \A id \in U : Weights(new)[id] \in Int
  BY BookWeights
<1>2. SumOf(Weights(new), U) = Weights(new)[e] + SumOf(Weights(new), U \ {e})
  BY <1>1, SumWithoutOne
<1>3. SumOf(Weights(new), U \ {e}) <= SumOf(Weights(book), S)
  BY Lighter
<1>4. /\ Weights(new)[e] = new[e].quantity /\ new[e].quantity \in Nat
      /\ SumOf(Weights(new), U \ {e}) \in Nat /\ SumOf(Weights(book), S) \in Nat
  BY BookWeights
<1> QED BY <1>2, <1>3, <1>4
-----------------------------------------------------------------------------
(* What hold and allocate are given, and what an administrator enters,     *)
(* is not negative: the code does not check it.                            *)
NoNegatives == Quantities \subseteq Nat /\ Reductions \subseteq Nat \cup {Never}

Positive == \A r \in DOMAIN resources : resources[r].capacity >= 1

Fitting(r, time) == Load(reservations, now, r, time) <= Granted(r)

LoadOK == \A r \in DOMAIN resources : \A time \in Nat : Fitting(r, time)

(* There is room for a reservation of r.                                   *)
RoomFor(r, range, quantity) ==
    \A time \in Nat : Covers(range, time) =>
                        Load(reservations, now, r, time) + quantity <= Granted(r)

LEMMA GrantsAreIntegers ==
    ASSUME TypeInv, NEW r \in DOMAIN resources
    PROVE  /\ IsFiniteSet(Grants(r)) /\ Grants(r) \subseteq Int
           /\ resources[r].capacity \in Grants(r)
<1> DEFINE M == {m \in DOMAIN exceptions : exceptions[m].resource = r}
           c == resources[r].capacity
           over == [n \in M |-> OrElse(exceptions[n].override, c)]
           G == {over[n] : n \in M}
<1>1. c \in Int
  <2>1. \A x \in Resource : x.capacity \in Int
    BY ReservationsAssumption DEF Resource
  <2> QED BY <2>1 DEF TypeInv, StoreOK
<1>2. \A n \in M : over[n] \in Int
  <2>1. \A x \in Exception : x.override \in Int \cup {Never}
    BY ReservationsAssumption DEF Exception
  <2>2. \A n \in M : exceptions[n] \in Exception
    BY DEF TypeInv, StoreOK
  <2> QED BY <1>1, <2>1, <2>2 DEF OrElse
<1>3. IsFiniteSet(M)
  <2>1. DOMAIN exceptions = 1..Len(exceptions) /\ Len(exceptions) \in Nat
    BY DEF TypeInv, StoreOK
  <2>2. IsFiniteSet(1..Len(exceptions))
    BY <2>1, FS_Interval
  <2> QED BY <2>1, <2>2, FS_Subset
<1>4. Grants(r) = {c} \cup G
  BY DEF Grants
<1> HIDE DEF over, M, c
<1>5. IsFiniteSet(G)
  BY <1>3, ImageIsFinite
<1>6. IsFiniteSet({c} \cup G)
  <2>1. IsFiniteSet({c})
    BY FS_Singleton
  <2> QED BY <1>5, <2>1, FS_Union
<1>7. c \in {c} \cup G /\ {c} \cup G \subseteq Int
  BY <1>1, <1>2
<1> QED BY <1>4, <1>6, <1>7 DEF c

GrantedLaw ==
    TypeInv => \A r \in DOMAIN resources :
                 /\ Granted(r) \in Int /\ Granted(r) \in Grants(r)
                 /\ \A g \in Grants(r) : g <= Granted(r)
                 /\ resources[r].capacity \in Int
                 /\ resources[r].capacity <= Granted(r)

LEMMA GrantedIsHighest == GrantedLaw
<1> SUFFICES ASSUME TypeInv, NEW r \in DOMAIN resources
             PROVE  /\ Granted(r) \in Int /\ Granted(r) \in Grants(r)
                    /\ \A g \in Grants(r) : g <= Granted(r)
                    /\ resources[r].capacity \in Int
                    /\ resources[r].capacity <= Granted(r)
  BY DEF GrantedLaw
<1>1. /\ IsFiniteSet(Grants(r)) /\ Grants(r) \subseteq Int
      /\ resources[r].capacity \in Grants(r)
  BY GrantsAreIntegers
<1>2. Max(Grants(r)) \in Grants(r) /\ \A g \in Grants(r) : g <= Max(Grants(r))
  BY <1>1, Greatest
<1> QED BY <1>1, <1>2 DEF Granted

LEMMA AtLeastZero == ASSUME NEW x \in Int PROVE Max({x, 0}) = IF x >= 0 THEN x ELSE 0
<1>1. \E y \in {x, 0} : \A z \in {x, 0} : y >= z
  OBVIOUS
<1>2. Max({x, 0}) \in {x, 0} /\ \A z \in {x, 0} : Max({x, 0}) >= z
  BY <1>1 DEF Max
<1> QED BY <1>2

LEMMA ReductionIsNatural ==
    ASSUME NoNegatives, TypeInv, NEW capacity \in Nat, NEW S \in SUBSET (DOMAIN blackouts)
    PROVE  Reduction(S, capacity) \in Nat
<1>1. IsFiniteSet(S)
  <2>1. DOMAIN blackouts = 1..Len(blackouts) /\ Len(blackouts) \in Nat
    BY DEF TypeInv, StoreOK
  <2>2. IsFiniteSet(1..Len(blackouts))
    BY <2>1, FS_Interval
  <2> QED BY <2>1, <2>2, FS_Subset
<1>2. \A n \in S : Cuts(S, capacity)[n] \in Nat
  <2>1. \A x \in Blackout : x.reduction \in Nat \cup {Never}
    BY DEF Blackout, NoNegatives
  <2>2. \A n \in S : blackouts[n] \in Blackout
    BY DEF TypeInv, StoreOK
  <2> QED BY <2>1, <2>2 DEF Cuts, OrElse
<1> QED BY <1>1, <1>2, SumIsNatural, ReductionIsSum

(* What availability answers: as much room as was asked for is left in the *)
(* whole of the range.                                                     *)
RoomLaw ==
    NoNegatives /\ TypeInv /\ Positive /\ LoadOK =>
      \A r \in DOMAIN resources, range \in Ranges, quantity \in Quantities :
        Available(r, range, quantity) => RoomFor(r, range, quantity)

LEMMA AvailableIsRoom == RoomLaw
<1> SUFFICES ASSUME NoNegatives, TypeInv, Positive, LoadOK,
                    NEW r \in DOMAIN resources, NEW range \in Ranges,
                    NEW quantity \in Quantities, Available(r, range, quantity)
             PROVE  RoomFor(r, range, quantity)
  BY DEF RoomLaw
<1> DEFINE c == resources[r].capacity
           touching == {n \in DOMAIN exceptions : /\ exceptions[n].resource = r
                                                  /\ Overlaps(exceptions[n].range, range)}
           openings == {n \in touching : exceptions[n].open}
           blocking == {id \in Ids : /\ reservations[id].resource = r /\ Blocks(id)
                                     /\ Overlaps(reservations[id].range, range)}
           closed == {n \in DOMAIN blackouts : /\ blackouts[n].resource = r
                                               /\ Overlaps(blackouts[n].range, range)}
           base == IF openings = {} THEN c
                   ELSE OrElse(exceptions[Max(openings)].override, c)
           room == base - Reduction(closed, c) - Quantity(blocking)
<1>1. Max({room, 0}) >= quantity
  BY DEF Available
<1>2. base \in Grants(r)
  <2>1. CASE openings = {}
    BY <2>1, GrantsAreIntegers
  <2>2. CASE openings # {}
    <3>1. openings \subseteq 1..Len(exceptions) /\ Len(exceptions) \in Nat
      BY DEF TypeInv, StoreOK
    <3>2. IsFiniteSet(openings)
      <4>1. IsFiniteSet(1..Len(exceptions))
        BY <3>1, FS_Interval
      <4> HIDE DEF openings
      <4> QED BY <3>1, <4>1, FS_Subset
    <3>3. Max(openings) \in openings
      <4>1. openings \subseteq Int
        BY <3>1
      <4> HIDE DEF openings
      <4> QED BY <2>2, <3>2, <4>1, Greatest
    <3>4. /\ Max(openings) \in DOMAIN exceptions
          /\ exceptions[Max(openings)].resource = r
      BY <3>3
    <3> HIDE DEF openings
    <3> QED BY <2>2, <3>4 DEF Grants
  <2> QED BY <2>1, <2>2
<1>3. base \in Int /\ base <= Granted(r)
  <2> HIDE DEF base
  <2> QED BY <1>2, GrantsAreIntegers, GrantedIsHighest DEF GrantedLaw
<1>4. Reduction(closed, c) \in Nat
  <2>1. c \in Nat
    BY GrantsAreIntegers DEF Positive
  <2>2. closed \in SUBSET (DOMAIN blackouts)
    OBVIOUS
  <2> HIDE DEF c, closed
  <2> QED BY <2>1, <2>2, ReductionIsNatural
<1>5. reservations \in Seq(Reservation) /\ Ids = 1..Len(reservations)
  BY DEF TypeInv, BookingsOK, Ids
<1>6. blocking \in SUBSET (1..Len(reservations))
  BY <1>5
<1>7. /\ Quantity(blocking) = SumOf(Weights(reservations), blocking)
      /\ Quantity(blocking) \in Nat
  <2> HIDE DEF blocking
  <2> QED BY <1>5, <1>6, BookWeights, QuantityIsSum DEF NoNegatives
<1> SUFFICES ASSUME NEW time \in Nat, Covers(range, time)
             PROVE  Load(reservations, now, r, time) + quantity <= Granted(r)
  BY DEF RoomFor
<1>8. Takers(reservations, now, r, time) \subseteq blocking
  <2> SUFFICES ASSUME NEW id \in Takers(reservations, now, r, time)
               PROVE  Overlaps(reservations[id].range, range)
    BY <1>5 DEF Takers, Counts, Blocks
  <2>1. reservations[id] \in Reservation /\ Covers(reservations[id].range, time)
    BY <1>5 DEF Takers
  <2>2. reservations[id].range \in Nat \X Nat /\ range \in Nat \X Nat
    <3>1. \A x \in Reservation : x.range \in Ranges
      BY DEF Reservation
    <3> QED BY <2>1, <3>1, ReservationsAssumption
  <2> QED BY <2>1, <2>2 DEF Covers, Overlaps
<1>9. Load(reservations, now, r, time) <= Quantity(blocking)
  <2>1. Takers(reservations, now, r, time) \in SUBSET (1..Len(reservations))
    BY DEF Takers
  <2> HIDE DEF blocking
  <2> QED BY <1>5, <1>6, <1>7, <1>8, <2>1, Lighter DEF Load, NoNegatives
<1>10. /\ Load(reservations, now, r, time) \in Nat
       /\ Load(reservations, now, r, time) <= Granted(r)
       /\ Granted(r) \in Int /\ quantity \in Nat
  BY <1>5, LoadIsNatural, GrantedIsHighest DEF NoNegatives, LoadOK, Fitting, GrantedLaw
<1>11. room \in Int /\ Max({room, 0}) = IF room >= 0 THEN room ELSE 0
  <2>1. room \in Int
    <3> HIDE DEF base, blocking, closed, c
    <3> QED BY <1>3, <1>4, <1>7
  <2> HIDE DEF room
  <2> QED BY <2>1, AtLeastZero
<1>12. room + Quantity(blocking) <= Granted(r)
  <2> HIDE DEF base, blocking, closed, c
  <2> QED BY <1>3, <1>4, <1>7, <1>10
<1> HIDE DEF room, blocking
<1> QED BY <1>1, <1>7, <1>9, <1>10, <1>11, <1>12

-----------------------------------------------------------------------------
(* Steps after which nothing is taken that was not before, and no capacity *)
(* is taken back.                                                          *)
Same(e, f) ==
    e.resource = f.resource /\ e.range = f.range /\ e.quantity = f.quantity

Eases ==
    /\ \A id \in Ids' : Counts(reservations'[id], now') =>
         id \in Ids /\ Counts(reservations[id], now) /\ Same(reservations'[id], reservations[id])
    /\ DOMAIN resources \subseteq DOMAIN resources'
    /\ \A r \in DOMAIN resources : Granted(r) <= Granted(r)'

LEMMA Books ==
    TypeInv => reservations \in Seq(Reservation) /\ Ids = 1..Len(reservations)
BY DEF TypeInv, BookingsOK, Ids

LEMMA LoadEases ==
    ASSUME NoNegatives, TypeInv, TypeInv', Eases, NEW r, NEW time
    PROVE  /\ Load(reservations, now, r, time)' \in Nat
           /\ Load(reservations, now, r, time) \in Nat
           /\ Load(reservations, now, r, time)' <= Load(reservations, now, r, time)
<1>1. /\ reservations \in Seq(Reservation) /\ Ids = 1..Len(reservations)
      /\ reservations' \in Seq(Reservation) /\ Ids' = 1..Len(reservations')
  BY Books DEF TypeInv, BookingsOK, Ids
<1> DEFINE S == Takers(reservations, now, r, time)
           U == Takers(reservations', now', r, time)
<1>2. /\ S \in SUBSET (1..Len(reservations)) /\ U \in SUBSET (1..Len(reservations'))
      /\ U \subseteq S
      /\ \A id \in U : reservations'[id].quantity = reservations[id].quantity
  BY <1>1 DEF Takers, Eases, Same
<1> HIDE DEF S, U
<1>3. SumOf(Weights(reservations'), U) <= SumOf(Weights(reservations), S)
  BY <1>1, <1>2, Lighter DEF NoNegatives
<1>4. /\ Load(reservations', now', r, time) \in Nat
      /\ Load(reservations, now, r, time) \in Nat
  BY <1>1, LoadIsNatural DEF NoNegatives
<1> QED BY <1>3, <1>4 DEF Load, S, U

LEMMA NobodyTakes ==
    ASSUME TypeInv, NEW r, r \notin DOMAIN resources, NEW time
    PROVE  Load(reservations, now, r, time) = 0
<1>1. Takers(reservations, now, r, time) = {}
  BY DEF Takers, TypeInv, BookingsOK, Ids
<1> QED BY <1>1, SumOfNothing DEF Load

LEMMA EasedLoad ==
    ASSUME NoNegatives, TypeInv, TypeInv', Positive', LoadOK, Eases
    PROVE  LoadOK'
<1> SUFFICES ASSUME NEW r \in DOMAIN resources', NEW time \in Nat
             PROVE  Load(reservations, now, r, time)' <= Granted(r)'
  BY DEF LoadOK, Fitting
<1>1. GrantedLaw'
  BY GrantedIsHighest, PTL
<1>2. /\ Load(reservations, now, r, time)' \in Nat
      /\ Load(reservations, now, r, time) \in Nat
      /\ Load(reservations, now, r, time)' <= Load(reservations, now, r, time)
  BY LoadEases
<1>3. Granted(r)' \in Int /\ Granted(r)' >= 1
  BY <1>1 DEF GrantedLaw, Positive
<1>4. CASE r \in DOMAIN resources
  <2>1. /\ Load(reservations, now, r, time) <= Granted(r)
        /\ Granted(r) <= Granted(r)' /\ Granted(r) \in Int
    BY <1>4, GrantedIsHighest DEF LoadOK, Fitting, Eases, GrantedLaw
  <2> QED BY <1>2, <1>3, <2>1
<1>5. CASE r \notin DOMAIN resources
  <2>1. Load(reservations, now, r, time) = 0
    BY <1>5, NobodyTakes
  <2> QED BY <1>2, <1>3, <2>1
<1> QED BY <1>4, <1>5

LEMMA EasedRoom ==
    ASSUME NoNegatives, TypeInv, TypeInv', Eases,
           NEW r \in DOMAIN resources, NEW range, NEW quantity \in Nat,
           RoomFor(r, range, quantity)
    PROVE  RoomFor(r, range, quantity)'
<1> SUFFICES ASSUME NEW time \in Nat, Covers(range, time)
             PROVE  Load(reservations, now, r, time)' + quantity <= Granted(r)'
  BY DEF RoomFor
<1>1. GrantedLaw'
  BY GrantedIsHighest, PTL
<1>2. /\ Load(reservations, now, r, time)' \in Nat
      /\ Load(reservations, now, r, time) \in Nat
      /\ Load(reservations, now, r, time)' <= Load(reservations, now, r, time)
  BY LoadEases
<1>3. /\ Granted(r) \in Int /\ Granted(r)' \in Int /\ Granted(r) <= Granted(r)'
  BY <1>1, GrantedIsHighest DEF GrantedLaw, Eases
<1>4. Load(reservations, now, r, time) + quantity <= Granted(r)
  BY DEF RoomFor
<1> QED BY <1>2, <1>3, <1>4

(* Steps that bring one reservation into the book, or back into it.        *)
Adds(e) ==
    /\ e \in Ids'
    /\ \A id \in Ids' : id # e => id \in Ids /\ reservations'[id] = reservations[id]
    /\ e \notin Ids \/ ~Counts(reservations[e], now)
    /\ UNCHANGED <<resources, exceptions, now>>
    /\ Counts(reservations'[e], now) =>
         RoomFor(reservations'[e].resource, reservations'[e].range,
                 reservations'[e].quantity)

LEMMA AddedLoad ==
    ASSUME NoNegatives, TypeInv, TypeInv', LoadOK, NEW e, Adds(e)
    PROVE  LoadOK'
<1> SUFFICES ASSUME NEW r \in DOMAIN resources, NEW time \in Nat
             PROVE  Load(reservations, now, r, time)' <= Granted(r)'
  BY DEF LoadOK, Fitting, Adds
<1>1. Granted(r)' = Granted(r) /\ now' = now
  BY DEF Granted, Grants, Adds
<1>2. /\ reservations \in Seq(Reservation) /\ Ids = 1..Len(reservations)
      /\ reservations' \in Seq(Reservation) /\ Ids' = 1..Len(reservations')
  BY Books DEF TypeInv, BookingsOK, Ids
<1> DEFINE S == Takers(reservations, now, r, time)
           U == Takers(reservations', now, r, time)
<1>3. /\ S \in SUBSET (1..Len(reservations)) /\ U \in SUBSET (1..Len(reservations'))
      /\ U \subseteq S \cup {e}
      /\ \A id \in U : id # e => id \in S /\ reservations'[id] = reservations[id]
  BY <1>2 DEF Takers, Adds
<1>4. Load(reservations, now, r, time) <= Granted(r) /\ Granted(r) \in Int
  BY GrantedIsHighest DEF LoadOK, Fitting, GrantedLaw
<1>5. /\ SumOf(Weights(reservations), S) \in Nat
      /\ SumOf(Weights(reservations'), U) \in Nat
  BY <1>2, <1>3, BookWeights DEF NoNegatives
<1>6. CASE e \notin U
  <2>1. SumOf(Weights(reservations'), U) <= SumOf(Weights(reservations), S)
    <3> HIDE DEF S, U
    <3>1. U \subseteq S /\ \A id \in U : reservations'[id].quantity = reservations[id].quantity
      BY <1>3, <1>6
    <3> QED BY <1>2, <1>3, <3>1, Lighter DEF NoNegatives
  <2> HIDE DEF S, U
  <2> QED BY <1>1, <1>4, <1>5, <2>1 DEF Load, S, U
<1>7. CASE e \in U
  <2>1. /\ Counts(reservations'[e], now) /\ reservations'[e].resource = r
        /\ Covers(reservations'[e].range, time)
    BY <1>7 DEF Takers
  <2>2. SumOf(Weights(reservations), S) + reservations'[e].quantity <= Granted(r)
    BY <2>1 DEF Adds, RoomFor, Load
  <2>3. SumOf(Weights(reservations'), U)
          <= SumOf(Weights(reservations), S) + reservations'[e].quantity
    <3> HIDE DEF S, U
    <3>1. \A id \in U : id # e => reservations'[id].quantity = reservations[id].quantity
      BY <1>3
    <3> QED BY <1>2, <1>3, <1>7, <3>1, OneHeavier DEF NoNegatives
  <2>4. reservations'[e].quantity \in Nat
    BY <1>2, BookWeights DEF Adds, NoNegatives
  <2> HIDE DEF S, U
  <2> QED BY <1>1, <1>4, <1>5, <2>2, <2>3, <2>4 DEF Load, S, U
<1> QED BY <1>6, <1>7

-----------------------------------------------------------------------------
(* The steps that ease.                                                    *)
Kept ==
    /\ DOMAIN resources \subseteq DOMAIN resources'
    /\ \A r \in DOMAIN resources : resources'[r].capacity = resources[r].capacity
    /\ DOMAIN exceptions \subseteq DOMAIN exceptions'
    /\ \A n \in DOMAIN exceptions : exceptions'[n] = exceptions[n]

LEMMA GrantedGrows ==
    ASSUME TypeInv, TypeInv', Kept
    PROVE  \A r \in DOMAIN resources : Granted(r) <= Granted(r)'
<1> SUFFICES ASSUME NEW r \in DOMAIN resources PROVE Granted(r) <= Granted(r)'
  OBVIOUS
<1>1. GrantedLaw'
  BY GrantedIsHighest, PTL
<1>2. Granted(r) \in Grants(r)
  BY GrantedIsHighest DEF GrantedLaw
<1>3. Grants(r) \subseteq Grants(r)'
  BY DEF Grants, Kept
<1>4. r \in DOMAIN resources'
  BY DEF Kept
<1> QED BY <1>1, <1>2, <1>3, <1>4 DEF GrantedLaw

LEMMA QuietEases ==
    ASSUME TypeInv, TypeInv', Kept, UNCHANGED <<reservations, now>>
    PROVE  Eases
BY GrantedGrows DEF Kept, Eases, Same, Ids

LEMMA EditEases ==
    ASSUME TypeInv, TypeInv', UNCHANGED <<resources, exceptions, now>>, Ids' = Ids,
           \A id \in Ids : Counts(reservations'[id], now) =>
             Counts(reservations[id], now) /\ Same(reservations'[id], reservations[id])
    PROVE  Eases
<1>1. Kept
  BY DEF Kept
<1> QED BY <1>1, GrantedGrows DEF Eases

LEMMA StateEases ==
    ASSUME TypeInv, TypeInv', NEW id \in Ids, NEW s \in States,
           reservations' = [reservations EXCEPT ![id].state = s],
           UNCHANGED <<resources, exceptions, now>>,
           \/ s \notin {"Held", "Confirmed"}
           \/ reservations[id].state \in {"Held", "Confirmed"}
    PROVE  Eases
<1> DEFINE y == [reservations[id] EXCEPT !.state = s]
<1>1. /\ reservations \in Seq(Reservation) /\ Ids = 1..Len(reservations)
      /\ reservations[id] \in Reservation
  BY Books
<1>2. /\ y.state = s /\ y.expires = reservations[id].expires
      /\ Same(y, reservations[id])
  BY <1>1 DEF Reservation, Same
<1>3. reservations' = [reservations EXCEPT ![id] = y]
  OBVIOUS
<1> HIDE DEF y
<1>4. Ids' = Ids
  BY <1>1, <1>3 DEF Ids
<1>5. \A x \in Ids : reservations'[x] = IF x = id THEN y ELSE reservations[x]
  BY <1>1, <1>3
<1>6. \A x \in Ids : Counts(reservations'[x], now) =>
        Counts(reservations[x], now) /\ Same(reservations'[x], reservations[x])
  BY <1>2, <1>5 DEF Counts, Same
<1> QED BY <1>4, <1>6, EditEases

LEMMA ConfirmEases ==
    ASSUME TypeInv, TypeInv', NEW id \in Ids, Confirm(id) PROVE Eases
<1>1. /\ reservations' = [reservations EXCEPT ![id].state = "Confirmed"]
      /\ reservations[id].state \in {"Held", "Confirmed"}
      /\ UNCHANGED <<resources, exceptions, now>>
  BY DEF Confirm, Confirmable, calendar
<1> QED BY <1>1, StateEases DEF States

LEMMA CancellingEases ==
    ASSUME TypeInv, TypeInv', NEW id \in Ids,
           reservations' = [reservations EXCEPT ![id].state = "Cancelled"],
           UNCHANGED <<resources, exceptions, now>>
    PROVE  Eases
BY StateEases DEF States

LEMMA ExpireHoldsEases ==
    ASSUME TypeInv, TypeInv', NEW at, ExpireHolds(at) PROVE Eases
<1>1. /\ reservations \in Seq(Reservation) /\ Ids = 1..Len(reservations)
      /\ UNCHANGED <<resources, exceptions, now>>
  BY Books DEF ExpireHolds, calendar
<1>2. Ids' = Ids
  BY <1>1 DEF Ids, ExpireHolds
<1>3. \A id \in Ids : \/ reservations'[id] = reservations[id]
                      \/ reservations'[id] = [reservations[id] EXCEPT !.state = "Expired"]
  BY DEF ExpireHolds
<1>4. ASSUME NEW id \in Ids, Counts(reservations'[id], now)
      PROVE  Counts(reservations[id], now) /\ Same(reservations'[id], reservations[id])
  <2>1. reservations[id] \in Reservation
    BY <1>1
  <2>2. [reservations[id] EXCEPT !.state = "Expired"].state = "Expired"
    BY <2>1 DEF Reservation
  <2>3. reservations'[id] = reservations[id]
    BY <1>3, <1>4, <2>2 DEF Counts
  <2> QED BY <1>4, <2>3 DEF Same
<1> QED BY <1>1, <1>2, <1>4, EditEases

LEMMA TickEases ==
    ASSUME TypeInv, TypeInv', Tick PROVE Eases
<1>1. /\ reservations \in Seq(Reservation) /\ Ids = 1..Len(reservations)
      /\ UNCHANGED <<resources, exceptions, reservations>> /\ now' = now + 1
      /\ now \in Nat
  BY Books DEF Tick, calendar, TypeInv
<1>2. Kept
  BY <1>1 DEF Kept
<1>3. ASSUME NEW id \in Ids, Counts(reservations[id], now + 1)
      PROVE  Counts(reservations[id], now)
  <2>1. reservations[id].expires \in Nat \cup {Never}
    <3>1. \A x \in Reservation : x.expires \in Nat \cup {Never}
      BY ReservationsAssumption DEF Reservation
    <3> QED BY <1>1, <3>1
  <2> QED BY <1>1, <1>3, <2>1 DEF Counts
<1>4. \A id \in Ids : Counts(reservations[id], now') => Counts(reservations[id], now)
  BY <1>1, <1>3
<1>5. Ids' = Ids
  BY <1>1 DEF Ids
<1> QED BY <1>1, <1>2, <1>4, <1>5, GrantedGrows DEF Eases, Same

LEMMA AdministrateEases ==
    ASSUME TypeInv, TypeInv', Positive, Administrate PROVE Eases /\ Positive'
<1>1. UNCHANGED <<reservations, now>>
  BY DEF Administrate, CreateResource, SetStatus, CreatePool, AddRule, AddBlackout,
         AddException
<1>2. ASSUME Kept, \A r \in DOMAIN resources' \ DOMAIN resources : resources'[r].capacity >= 1
      PROVE  Eases /\ Positive'
  BY <1>1, <1>2, QuietEases DEF Positive, Kept
<1>3. ASSUME UNCHANGED <<resources, exceptions>> PROVE Eases /\ Positive'
  BY <1>2, <1>3 DEF Kept
<1>4. ASSUME NEW c \in Capacities, CreateResource(c) PROVE Eases /\ Positive'
  <2>1. PICK x : x = [status |-> "Active", capacity |-> c]
    OBVIOUS
  <2>2. /\ resources' = Append(resources, x) /\ x.capacity >= 1
        /\ UNCHANGED exceptions
    BY <1>4, <2>1 DEF CreateResource, calendar
  <2>3. /\ resources \in Seq(Resource)
        /\ \A r \in DOMAIN resources' : \/ r \in DOMAIN resources /\ resources'[r] = resources[r]
                                        \/ resources'[r] = x
        /\ \A r \in DOMAIN resources : r \in DOMAIN resources' /\ resources'[r] = resources[r]
    BY <2>2 DEF TypeInv, StoreOK
  <2> QED BY <1>2, <2>2, <2>3 DEF Kept
<1>5. ASSUME NEW r \in DOMAIN resources, NEW s \in Statuses, SetStatus(r, s)
      PROVE  Eases /\ Positive'
  <2>1. PICK x : x = [resources[r] EXCEPT !.status = s]
    OBVIOUS
  <2>2. resources[r] \in Resource
    BY DEF TypeInv, StoreOK
  <2>3. x.capacity = resources[r].capacity
    BY <2>1, <2>2 DEF Resource
  <2>4. resources' = [resources EXCEPT ![r] = x] /\ UNCHANGED exceptions
    BY <1>5, <2>1 DEF SetStatus, calendar
  <2> QED BY <1>2, <2>3, <2>4 DEF Kept
<1>6. ASSUME NEW r \in DOMAIN resources, NEW x \in Ranges, NEW open \in BOOLEAN,
             NEW c \in Overrides, AddException(r, x, open, c)
      PROVE  Eases /\ Positive'
  <2>1. PICK e : e = [resource |-> r, range |-> x, open |-> open, override |-> c]
    OBVIOUS
  <2>2. exceptions' = Append(exceptions, e) /\ UNCHANGED resources
    BY <1>6, <2>1 DEF AddException
  <2>3. exceptions \in Seq(Exception)
    BY DEF TypeInv, StoreOK
  <2>4. \A n \in DOMAIN exceptions : n \in DOMAIN exceptions' /\ exceptions'[n] = exceptions[n]
    BY <2>2, <2>3
  <2> QED BY <1>2, <2>2, <2>4 DEF Kept
<1>7. \/ UNCHANGED <<resources, exceptions>>
      \/ \E c \in Capacities : CreateResource(c)
      \/ \E r \in DOMAIN resources, s \in Statuses : SetStatus(r, s)
      \/ \E r \in DOMAIN resources, x \in Ranges, open \in BOOLEAN, c \in Overrides :
           AddException(r, x, open, c)
  BY DEF Administrate, CreatePool, AddRule, AddBlackout, calendar
<1> QED BY <1>3, <1>4, <1>5, <1>6, <1>7

-----------------------------------------------------------------------------
(* What the call under way relies on: if it found room there still is, and *)
(* a reservation on its way to another range can also go back.             *)
Promised(t) ==
    /\ t.op = "hold" /\ t.fits =>
         RoomFor(t.hold.resource, t.hold.range, t.hold.quantity)
    /\ t.op = "reschedule" =>
         LET e == reservations[t.id]
         IN  /\ e.state = "Cancelled"
             /\ Expired(t.id) \/ RoomFor(e.resource, e.range, e.quantity)
             /\ t.fits => RoomFor(e.resource, t.range, e.quantity)
    /\ t.op = "allocate" /\ t.step = "hold" /\ t.fits =>
         LET h == t.selected[Len(t.made) + 1]
         IN  RoomFor(h.resource, h.range, h.quantity)

CapInv ==
    /\ SyncInv /\ Positive /\ LoadOK
    /\ tasks # <<>> => Promised(Head(tasks))

LEMMA EntryQuantity ==
    ASSUME NoNegatives, NEW e \in Reservation
    PROVE  e.quantity \in Quantities /\ e.quantity \in Nat /\ e.range \in Ranges
           /\ e.expires \in Nat \cup {Never}
BY ReservationsAssumption DEF Reservation, NoNegatives

(* Time passes.                                                            *)
LEMMA TickKeeps ==
    ASSUME NoNegatives, CapInv, SyncInv', Tick PROVE CapInv'
<1>1. TypeInv /\ TypeInv' /\ Positive /\ LoadOK
  BY DEF CapInv, SyncInv
<1>2. UNCHANGED <<resources, reservations, tasks>> /\ now' = now + 1 /\ now \in Nat
  BY <1>1 DEF Tick, TypeInv
<1>3. Eases
  BY <1>1, TickEases
<1>4. Positive'
  BY <1>1, <1>2 DEF Positive
<1>5. LoadOK'
  BY <1>1, <1>3, <1>4, EasedLoad
<1>6. ASSUME NEW e \in Reservation, e.resource \in DOMAIN resources, NEW range \in Ranges,
             RoomFor(e.resource, range, e.quantity)
      PROVE  RoomFor(e.resource, range, e.quantity)'
  <2>1. PICK r \in DOMAIN resources : r = e.resource
    BY <1>6
  <2>2. PICK q \in Nat : q = e.quantity
    BY EntryQuantity
  <2>3. RoomFor(r, range, q)
    BY <1>6, <2>1, <2>2
  <2>4. RoomFor(r, range, q)'
    BY <1>1, <1>3, <2>3, EasedRoom
  <2> QED BY <2>1, <2>2, <2>4
<1>7. ASSUME tasks # <<>> PROVE Promised(Head(tasks))'
  <2>1. PICK t : t = Head(tasks) /\ t = Head(tasks')
    BY <1>2
  <2>2. Promised(t) /\ t \in Tasks /\ Fits(t, DOMAIN resources, Ids)
    BY <1>1, <1>7, <2>1, Popped DEF CapInv, TypeInv
  <2>3. CASE t.op = "hold"
    <3>1. t.hold \in Reservation /\ t.hold.resource \in DOMAIN resources /\ t.hold.range \in Ranges
      BY <2>2, <2>3 DEF Tasks, HoldTask, RescheduleTask, AllocateTask, Fits, Reservation
    <3>2. t.fits => RoomFor(t.hold.resource, t.hold.range, t.hold.quantity)'
      BY <1>6, <2>2, <2>3, <3>1 DEF Promised
    <3> QED BY <2>1, <2>3, <3>2 DEF Promised
  <2>4. CASE t.op = "reschedule"
    <3>1. t.id \in Ids /\ t.range \in Ranges
      BY <2>2, <2>4 DEF Tasks, HoldTask, RescheduleTask, AllocateTask, Fits
    <3>2. PICK e \in Reservation : e = reservations[t.id] /\ e = reservations'[t.id]
      BY <1>1, <1>2, <3>1, Books
    <3>3. e.resource \in DOMAIN resources /\ e.range \in Ranges
      BY <1>1, <3>1, <3>2 DEF TypeInv, BookingsOK, Reservation
    <3>4. /\ e.state = "Cancelled"
          /\ Expired(t.id) \/ RoomFor(e.resource, e.range, e.quantity)
          /\ t.fits => RoomFor(e.resource, t.range, e.quantity)
      BY <2>2, <2>4, <3>2 DEF Promised
    <3>5. Expired(t.id) => Expired(t.id)'
      <4>1. e.expires \in Nat \cup {Never}
        BY EntryQuantity
      <4> QED BY <1>2, <3>2, <4>1 DEF Expired
    <3>6. Expired(t.id)' \/ RoomFor(e.resource, e.range, e.quantity)'
      BY <1>6, <3>3, <3>4, <3>5
    <3>7. t.fits => RoomFor(e.resource, t.range, e.quantity)'
      BY <1>6, <3>1, <3>3, <3>4
    <3> QED BY <2>1, <2>4, <3>2, <3>4, <3>6, <3>7 DEF Promised
  <2>5. CASE t.op = "allocate"
    <3> DEFINE k == Len(t.made) + 1
    <3>1. /\ t \in AllocateTask /\ AllocateFits(t, DOMAIN resources, Ids)
      BY <2>2, <2>5 DEF Tasks, HoldTask, RescheduleTask, AllocateTask, Fits
    <3>2. CASE t.step = "hold" /\ t.fits
      <4>1. k \in DOMAIN t.selected /\ t.selected[k] \in Reservation
        BY <3>1, <3>2 DEF AllocateFits, AllocateTask
      <4>2. t.selected[k].resource \in DOMAIN resources
        BY <3>1, <4>1 DEF AllocateFits, Makes
      <4>3. PICK h \in Reservation : h = t.selected[k]
        BY <4>1
      <4>4. RoomFor(h.resource, h.range, h.quantity)
        BY <2>2, <2>5, <3>2, <4>3 DEF Promised
      <4>5. RoomFor(h.resource, h.range, h.quantity)'
        BY <1>6, <4>2, <4>3, <4>4, EntryQuantity
      <4> QED BY <2>1, <2>5, <4>3, <4>5 DEF Promised
    <3>3. CASE ~(t.step = "hold" /\ t.fits)
      BY <2>1, <2>5, <3>3 DEF Promised
    <3> QED BY <3>2, <3>3
  <2> QED BY <2>2, <2>3, <2>4, <2>5 DEF Tasks, HoldTask, RescheduleTask, AllocateTask
<1> QED BY <1>2, <1>4, <1>5, <1>7 DEF CapInv

(* Steps that only look.                                                   *)
LEMMA LookedStep ==
    ASSUME CapInv, SyncInv', UNCHANGED <<resources, exceptions, reservations, now>>,
           tasks' # <<>> => Promised(Head(tasks'))
    PROVE  CapInv'
<1>1. Positive' /\ LoadOK'
  BY DEF CapInv, Positive, LoadOK, Fitting, Load, Granted, Grants
<1>2. ASSUME tasks' # <<>> PROVE Promised(Head(tasks))'
  <2>1. PICK t : t = Head(tasks')
    OBVIOUS
  <2>2. Promised(t)
    BY <1>2, <2>1
  <2>3. \A r, range, quantity : RoomFor(r, range, quantity)
                                  => RoomFor(r, range, quantity)'
    BY DEF RoomFor, Load, Granted, Grants
  <2>4. PICK e : e = reservations[t.id] /\ e = reservations'[t.id]
    OBVIOUS
  <2> SUFFICES Promised(t)'
    BY <2>1
  <2>5. CASE t.op = "hold"
    BY <2>2, <2>3, <2>5 DEF Promised
  <2>6. CASE t.op = "reschedule"
    <3>1. /\ e.state = "Cancelled"
          /\ Expired(t.id) \/ RoomFor(e.resource, e.range, e.quantity)
          /\ t.fits => RoomFor(e.resource, t.range, e.quantity)
      BY <2>2, <2>4, <2>6 DEF Promised
    <3>2. Expired(t.id) => Expired(t.id)'
      BY DEF Expired
    <3> QED BY <2>3, <2>4, <2>6, <3>1, <3>2 DEF Promised
  <2>7. CASE t.op = "allocate"
    BY <2>2, <2>3, <2>7 DEF Promised
  <2>8. CASE t.op \notin {"hold", "reschedule", "allocate"}
    BY <2>8 DEF Promised
  <2> QED BY <2>5, <2>6, <2>7, <2>8
<1> QED BY <1>1, <1>2 DEF CapInv

LEMMA HoldFindsRoom ==
    ASSUME NoNegatives, CapInv, NEW h \in Reservation, h.resource \in DOMAIN resources,
           HoldFits(h)
    PROVE  RoomFor(h.resource, h.range, h.quantity)
<1>1. h.quantity \in Quantities /\ h.range \in Ranges
  BY EntryQuantity
<1>2. TypeInv /\ Positive /\ LoadOK
  BY DEF CapInv, SyncInv
<1> QED BY <1>1, <1>2, AvailableIsRoom DEF RoomLaw, HoldFits

LEMMA StartHoldCap ==
    ASSUME NoNegatives, CapInv, SyncInv', tasks = <<>>,
           NEW r \in DOMAIN resources, NEW x \in Ranges, NEW q \in Quantities,
           NEW e \in Expiries, StartHold(r, x, q, e)
    PROVE  CapInv'
<1>1. TypeInv /\ r \in Nat
  BY DEF CapInv, SyncInv, TypeInv, StoreOK
<1>2. PICK h \in Reservation : h = NewHold(r, x, q, e) /\ h.resource = r
  BY <1>1, NewHoldFits
<1>3. PICK fits \in BOOLEAN : fits = HoldFits(h)
  BY AvailableIsBoolean DEF HoldFits
<1>4. PICK t : t = [op |-> "hold", hold |-> h, fits |-> fits]
  OBVIOUS
<1>5. /\ tasks' = Append(tasks, t)
      /\ UNCHANGED <<resources, exceptions, reservations, now>>
  BY <1>2, <1>3, <1>4 DEF StartHold, Start, calendar
<1>6. t \in Tasks
  BY <1>4 DEF Tasks, HoldTask
<1>7. Head(tasks') = t
  BY <1>5, <1>6, QueueOfOne
<1>8. Promised(t)
  <2>1. t.op = "hold" /\ t.hold = h /\ t.fits = fits
    BY <1>4
  <2>2. fits => RoomFor(h.resource, h.range, h.quantity)
    BY <1>2, <1>3, HoldFindsRoom
  <2> QED BY <2>1, <2>2 DEF Promised
<1> QED BY <1>5, <1>7, <1>8, LookedStep

LEMMA StartAllocateCap ==
    ASSUME CapInv, SyncInv', tasks = <<>>, NEW requests, StartAllocate(requests)
    PROVE  CapInv'
<1>1. PICK fits : fits = RequestFits(requests[1], 1)
  OBVIOUS
<1>2. PICK t : t = [op |-> "allocate", step |-> "select", requests |-> requests,
                    i |-> 1, j |-> 1, found |-> <<>>, selected |-> <<>>, made |-> <<>>,
                    fits |-> fits]
  OBVIOUS
<1>3. /\ tasks' = Append(tasks, t)
      /\ UNCHANGED <<resources, exceptions, reservations, now>>
  BY <1>1, <1>2 DEF StartAllocate, Start, calendar
<1>4. t \in Tasks
  <2>1. tasks' \in Seq(Tasks) /\ tasks' = <<t>>
    BY <1>3 DEF SyncInv, TypeInv, FitQueue
  <2> QED BY <2>1
<1>5. Head(tasks') = t
  BY <1>3, <1>4, QueueOfOne
<1>6. Promised(t)
  BY <1>2 DEF Promised
<1> QED BY <1>3, <1>5, <1>6, LookedStep

(* The reservation that is on its way: without it there was room for it    *)
(* where it was, unless it had expired.                                    *)
LEMMA StartRescheduleCap ==
    ASSUME NoNegatives, CapInv, SyncInv', tasks = <<>>,
           NEW id \in Ids, NEW x \in Ranges, StartReschedule(id, x)
    PROVE  CapInv'
<1>1. TypeInv /\ TypeInv' /\ Positive /\ LoadOK
  BY DEF CapInv, SyncInv
<1>2. /\ reservations \in Seq(Reservation) /\ Ids = 1..Len(reservations)
      /\ reservations' \in Seq(Reservation)
  BY <1>1, Books DEF TypeInv, BookingsOK
<1>3. PICK o \in Reservation : o = reservations[id] /\ o.resource \in DOMAIN resources
  BY <1>1, <1>2 DEF TypeInv, BookingsOK
<1>4. /\ reservations' = [reservations EXCEPT ![id].state = "Cancelled"]
      /\ UNCHANGED <<resources, exceptions, now>>
      /\ o.state \in {"Held", "Confirmed"}
  BY <1>3 DEF StartReschedule, calendar, Movable
<1>5. PICK e : e = [o EXCEPT !.state = "Cancelled"]
  OBVIOUS
<1>6. /\ e \in Reservation /\ e.state = "Cancelled" /\ e.resource = o.resource
      /\ e.range = o.range /\ e.quantity = o.quantity /\ e.expires = o.expires
  BY <1>3, <1>5 DEF Reservation, States
<1>7. /\ Ids' = Ids
      /\ \A n \in Ids : reservations'[n] = IF n = id THEN e ELSE reservations[n]
  BY <1>2, <1>3, <1>4, <1>5 DEF Ids
<1>8. Eases
  BY <1>1, <1>4, CancellingEases
<1>9. Positive' /\ LoadOK'
  <2>1. Positive'
    BY <1>1, <1>4 DEF Positive
  <2> QED BY <1>1, <1>8, <2>1, EasedLoad
<1>10. PICK fits : fits = Available(reservations[id].resource, x, reservations[id].quantity)'
  OBVIOUS
<1>11. fits => RoomFor(e.resource, x, e.quantity)'
  <2>1. RoomLaw'
    BY AvailableIsRoom, PTL
  <2>2. /\ reservations'[id] = e /\ e.resource \in DOMAIN resources'
        /\ e.quantity \in Quantities
    BY <1>3, <1>4, <1>6, <1>7, EntryQuantity
  <2>3. NoNegatives'
    BY DEF NoNegatives
  <2>4. PICK r, q : r = e.resource /\ q = e.quantity
    OBVIOUS
  <2>5. fits => Available(r, x, q)'
    BY <1>10, <2>2, <2>4
  <2>6. Available(r, x, q)' => RoomFor(r, x, q)'
    BY <1>1, <1>9, <2>1, <2>2, <2>3, <2>4 DEF RoomLaw
  <2> QED BY <2>4, <2>5, <2>6
<1>12. Expired(id)' \/ RoomFor(e.resource, e.range, e.quantity)'
  <2> SUFFICES ASSUME ~Expired(id)', NEW time \in Nat, Covers(o.range, time)
               PROVE  Load(reservations, now, o.resource, time)' + o.quantity
                        <= Granted(o.resource)'
    BY <1>6 DEF RoomFor
  <2> DEFINE S == Takers(reservations, now, o.resource, time)
             U == Takers(reservations', now, o.resource, time)
  <2>1. Counts(o, now)
    <3>1. o.expires \in Nat \cup {Never} /\ now \in Nat
      BY <1>1, EntryQuantity DEF TypeInv
    <3>2. o.expires = Never \/ ~(o.expires <= now)
      BY <1>4, <1>6, <1>7 DEF Expired
    <3> QED BY <1>4, <3>1, <3>2 DEF Counts
  <2>2. /\ S \in SUBSET (1..Len(reservations)) /\ U \in SUBSET (1..Len(reservations'))
        /\ id \in S /\ U \subseteq S \ {id}
        /\ \A n \in U : reservations'[n].quantity = reservations[n].quantity
    <3>1. S \in SUBSET (1..Len(reservations)) /\ U \in SUBSET (1..Len(reservations'))
      BY DEF Takers
    <3>2. id \in S
      BY <1>2, <1>3, <2>1 DEF Takers
    <3>3. ~Counts(e, now) /\ Ids' = 1..Len(reservations')
      BY <1>6 DEF Counts, Ids
    <3>4. U \subseteq S \ {id} /\ \A n \in U : reservations'[n] = reservations[n]
      BY <1>2, <1>7, <3>3 DEF Takers
    <3> QED BY <3>1, <3>2, <3>4
  <2>3. /\ IsFiniteSet(S) /\ \A n \in S : Weights(reservations)[n] \in Int
        /\ Weights(reservations)[id] = o.quantity /\ o.quantity \in Nat
    <3>1. \A n \in 1..Len(reservations) :
            Weights(reservations)[n] = reservations[n].quantity
            /\ reservations[n].quantity \in Nat
      BY <1>2, <2>2, BookWeights DEF NoNegatives
    <3>2. IsFiniteSet(S)
      BY <1>2, <2>2, BookWeights DEF NoNegatives
    <3> HIDE DEF S, U
    <3> QED BY <1>2, <1>3, <2>2, <3>1, <3>2
  <2> HIDE DEF S, U
  <2>4. SumOf(Weights(reservations), S) = o.quantity + SumOf(Weights(reservations), S \ {id})
    BY <2>2, <2>3, SumWithoutOne
  <2>5. SumOf(Weights(reservations'), U) <= SumOf(Weights(reservations), S \ {id})
    BY <1>2, <2>2, Lighter DEF NoNegatives
  <2>6. /\ SumOf(Weights(reservations), S) <= Granted(o.resource)
        /\ Granted(o.resource) \in Int /\ Granted(o.resource)' = Granted(o.resource)
    <3>1. Granted(o.resource)' = Granted(o.resource)
      BY <1>4 DEF Granted, Grants
    <3> QED BY <1>1, <1>3, <3>1, GrantedIsHighest DEF LoadOK, Fitting, GrantedLaw, Load, S
  <2>7. /\ SumOf(Weights(reservations'), U) \in Nat
        /\ SumOf(Weights(reservations), S \ {id}) \in Nat
        /\ SumOf(Weights(reservations), S) \in Nat
    BY <1>2, <2>2, BookWeights DEF NoNegatives
  <2>8. SumOf(Weights(reservations'), U) + o.quantity <= Granted(o.resource)'
    BY <2>3, <2>4, <2>5, <2>6, <2>7
  <2> QED BY <1>4, <2>8 DEF Load, U
<1>13. PICK t : t = [op |-> "reschedule", id |-> id, range |-> x, state |-> o.state,
                     fits |-> fits]
  OBVIOUS
<1>14. tasks' = Append(tasks, t)
  BY <1>3, <1>10, <1>13 DEF StartReschedule, Start
<1>15. t \in Tasks
  <2>1. tasks' \in Seq(Tasks) /\ tasks' = <<t>>
    BY <1>14 DEF SyncInv, TypeInv, FitQueue
  <2> QED BY <2>1
<1>16. Head(tasks') = t
  BY <1>14, <1>15, QueueOfOne
<1>17. Promised(t)'
  <2>1. reservations'[id] = e
    BY <1>7
  <2>2. t.op = "reschedule" /\ t.id = id /\ t.range = x /\ t.fits = fits
    BY <1>13
  <2> QED BY <1>6, <1>11, <1>12, <2>1, <2>2 DEF Promised
<1> QED BY <1>9, <1>16, <1>17 DEF CapInv

-----------------------------------------------------------------------------
(* The call under way continues: it brings in what it found room for.      *)
LEMMA EndHoldCap ==
    ASSUME NoNegatives, CapInv, SyncInv', tasks # <<>>, NEW t, t = Head(tasks),
           t.op = "hold", EndHold(t)
    PROVE  CapInv'
<1>1. TypeInv /\ TypeInv' /\ Positive /\ LoadOK /\ Promised(t)
  BY DEF CapInv, SyncInv
<1>2. reservations \in Seq(Reservation) /\ Ids = 1..Len(reservations)
  BY <1>1, Books
<1>3. /\ UNCHANGED <<resources, exceptions, now>> /\ tasks' = <<>>
      /\ reservations' = IF t.fits THEN Append(reservations, t.hold) ELSE reservations
  BY DEF EndHold, Return, calendar, CapInv, SyncInv
<1>4. Positive'
  BY <1>1, <1>3 DEF Positive
<1>5. LoadOK'
  <2>1. CASE t.fits
    <3>1. t.hold \in Reservation
      <4>1. t \in Tasks
        BY <1>1, Popped DEF TypeInv
      <4> QED BY <4>1 DEF Tasks, HoldTask, RescheduleTask, AllocateTask
    <3>2. PICK h \in Reservation : h = t.hold
      BY <3>1
    <3>3. PICK n \in Nat : n = Len(reservations) + 1
      BY <1>2
    <3>4. /\ Ids' = 1..n /\ reservations'[n] = h
          /\ \A id \in 1..n : id # n => id \in Ids /\ reservations'[id] = reservations[id]
      BY <1>2, <1>3, <2>1, <3>2, <3>3 DEF Ids
    <3>5. n \notin Ids /\ n \in 1..n
      BY <1>2, <3>3
    <3>6. RoomFor(h.resource, h.range, h.quantity)
      BY <1>1, <2>1, <3>2 DEF Promised
    <3>7. Adds(n)
      BY <1>3, <3>4, <3>5, <3>6 DEF Adds
    <3> QED BY <1>1, <3>7, AddedLoad
  <2>2. CASE ~t.fits
    BY <1>1, <1>3, <2>2 DEF LoadOK, Fitting, Load, Granted, Grants
  <2> QED BY <2>1, <2>2
<1> QED BY <1>3, <1>4, <1>5 DEF CapInv

LEMMA EndRescheduleCap ==
    ASSUME NoNegatives, CapInv, SyncInv', tasks # <<>>, NEW t, t = Head(tasks),
           t.op = "reschedule", EndReschedule(t)
    PROVE  CapInv'
<1>1. TypeInv /\ TypeInv' /\ Positive /\ LoadOK /\ Promised(t)
  BY DEF CapInv, SyncInv
<1>2. reservations \in Seq(Reservation) /\ Ids = 1..Len(reservations)
  BY <1>1, Books
<1>3. t.id \in Ids
  <2>1. t \in Tasks /\ Fits(t, DOMAIN resources, Ids)
    BY <1>1, Popped DEF TypeInv
  <2> QED BY <2>1 DEF Fits
<1>4. PICK o \in Reservation : o = reservations[t.id]
  BY <1>2, <1>3
<1>5. PICK range : range = IF t.fits THEN t.range ELSE o.range
  OBVIOUS
<1>6. PICK e : e = [o EXCEPT !.state = t.state, !.range = range]
  OBVIOUS
<1>7. /\ e.resource = o.resource /\ e.range = range /\ e.quantity = o.quantity
      /\ e.expires = o.expires
  BY <1>4, <1>6 DEF Reservation
<1>8. /\ UNCHANGED <<resources, exceptions, now>> /\ tasks' = <<>>
      /\ reservations' = [reservations EXCEPT ![t.id] = e]
  <2>1. reservations' = [reservations EXCEPT ![t.id].state = t.state,
                                             ![t.id].range = range]
    BY <1>4, <1>5 DEF EndReschedule
  <2>2. reservations' = [reservations EXCEPT ![t.id] = e]
    BY <1>2, <1>3, <1>4, <1>6, <2>1
  <2> QED BY <2>2 DEF EndReschedule, Return, calendar, CapInv, SyncInv
<1>9. /\ Ids' = Ids /\ reservations'[t.id] = e
      /\ \A id \in Ids : id # t.id => reservations'[id] = reservations[id]
  BY <1>2, <1>3, <1>8 DEF Ids
<1>10. o.state = "Cancelled"
  BY <1>1, <1>4 DEF Promised
<1>11. ASSUME Counts(e, now) PROVE RoomFor(e.resource, e.range, e.quantity)
  <2>1. ~Expired(t.id)
    <3>1. o.expires \in Nat \cup {Never} /\ now \in Nat
      BY <1>1, EntryQuantity DEF TypeInv
    <3> QED BY <1>4, <1>7, <1>11, <3>1 DEF Counts, Expired
  <2>2. /\ RoomFor(o.resource, o.range, o.quantity)
        /\ t.fits => RoomFor(o.resource, t.range, o.quantity)
    BY <1>1, <1>4, <2>1 DEF Promised
  <2> QED BY <1>5, <1>7, <2>2
<1>12. Adds(t.id)
  BY <1>3, <1>4, <1>8, <1>9, <1>10, <1>11 DEF Adds, Counts
<1>13. LoadOK'
  BY <1>1, <1>12, AddedLoad
<1> QED BY <1>1, <1>8, <1>13 DEF CapInv, Positive

LEMMA HeadOf ==
    ASSUME CapInv, SyncInv', tasks # <<>>, NEW u, Suspend(u)
    PROVE  tasks' # <<>> /\ Head(tasks') = u
           /\ u \in Tasks /\ Fits(u, DOMAIN resources', Ids')
<1>1. tasks' = Append(<<>>, u)
  BY DEF Suspend, CapInv, SyncInv
<1>2. u \in Tasks
  <2>1. tasks' \in Seq(Tasks) /\ tasks' = <<u>>
    BY <1>1 DEF SyncInv, TypeInv, FitQueue
  <2> QED BY <2>1
<1>3. tasks' # <<>> /\ Head(tasks') = u
  BY <1>1, <1>2, QueueOfOne
<1>4. FitQueue(tasks', DOMAIN resources', Ids')
  BY DEF SyncInv, TypeInv
<1> QED BY <1>2, <1>3, <1>4, Popped

(* An allocation goes on to its next hold, when there is room for it.      *)
LEMMA NextHold ==
    ASSUME NoNegatives, CapInv, SyncInv', tasks # <<>>,
           UNCHANGED <<resources, exceptions, reservations, now>>,
           NEW u, Suspend(u), u.op = "allocate", u.step = "hold",
           u.fits = HoldFits(u.selected[Len(u.made) + 1])
    PROVE  CapInv'
<1>1. /\ tasks' # <<>> /\ Head(tasks') = u
      /\ u \in Tasks /\ Fits(u, DOMAIN resources', Ids')
  BY HeadOf
<1>2. u \in AllocateTask /\ AllocateFits(u, DOMAIN resources, Ids')
  BY <1>1 DEF Tasks, HoldTask, RescheduleTask, Fits
<1>3. /\ u.selected \in Seq(Reservation) /\ Len(u.made) < Len(u.selected)
      /\ Makes(u.selected, DOMAIN resources) /\ Len(u.made) \in Nat
  BY <1>2 DEF AllocateTask, AllocateFits
<1>4. Len(u.made) + 1 \in DOMAIN u.selected
  BY <1>3
<1>5. PICK h \in Reservation : h = u.selected[Len(u.made) + 1]
  BY <1>3, <1>4
<1>6. h.resource \in DOMAIN resources
  BY <1>3, <1>4, <1>5 DEF Makes
<1>7. u.fits => RoomFor(h.resource, h.range, h.quantity)
  BY <1>5, <1>6, HoldFindsRoom
<1>8. Promised(u)
  BY <1>5, <1>7 DEF Promised
<1> QED BY <1>1, <1>8, LookedStep

LEMMA NoPromise ==
    ASSUME NEW u, u.op = "allocate", u.step # "hold" PROVE Promised(u)
BY DEF Promised

LEMMA SelectCap ==
    ASSUME NoNegatives, CapInv, SyncInv', tasks # <<>>, NEW t, t = Head(tasks),
           t.op = "allocate", t.step = "select", Select(t)
    PROVE  CapInv'
<1>1. UNCHANGED <<resources, exceptions, reservations, now>>
  BY DEF Select, calendar
<1>2. t \in AllocateTask /\ t.made = <<>>
  BY AllocateTaskFits DEF CapInv, SyncInv, AllocateFits
<1>3. CASE Return
  BY <1>1, <1>3, LookedStep DEF Return, CapInv, SyncInv
<1>4. ASSUME NEW u, Suspend(u), u.op = "allocate", u.step = "select" PROVE CapInv'
  BY <1>1, <1>4, HeadOf, NoPromise, LookedStep
<1> DEFINE request == t.requests[t.i]
           found == IF t.fits THEN Append(t.found, request.members[t.j]) ELSE t.found
           selected == t.selected \o Holds(request, Chosen(request, found))
           fits1 == RequestFits(request, t.j + 1)
           fits2 == RequestFits(t.requests[t.i + 1], 1)
           fits3 == HoldFits(selected[1])
           u1 == [t EXCEPT !.j = @ + 1, !.found = found, !.fits = fits1]
           u2 == [t EXCEPT !.i = @ + 1, !.j = 1, !.found = <<>>, !.selected = selected,
                           !.fits = fits2]
           u3 == [t EXCEPT !.step = "hold", !.selected = selected, !.fits = fits3]
<1>5. Return \/ Suspend(u1) \/ Suspend(u2) \/ Suspend(u3)
  BY DEF Select
<1> HIDE DEF request, found, selected, fits1, fits2
<1>6. /\ u1.op = "allocate" /\ u1.step = "select"
      /\ u2.op = "allocate" /\ u2.step = "select"
      /\ u3.op = "allocate" /\ u3.step = "hold" /\ u3.made = <<>>
      /\ u3.selected = selected /\ u3.fits = fits3
  BY <1>2 DEF AllocateTask
<1>7. CASE Suspend(u3)
  <2>1. u3.fits = HoldFits(u3.selected[Len(u3.made) + 1])
    <3>1. Len(u3.made) + 1 = 1
      BY <1>6
    <3> HIDE DEF u3
    <3> QED BY <1>6, <3>1
  <2> HIDE DEF u3, fits3
  <2> QED BY <1>1, <1>6, <1>7, <2>1, NextHold
<1> HIDE DEF u1, u2, u3, fits3
<1> QED BY <1>3, <1>4, <1>5, <1>6, <1>7

LEMMA HeldOneCap ==
    ASSUME NoNegatives, CapInv, SyncInv', tasks # <<>>, NEW t, t = Head(tasks),
           t.op = "allocate", t.step = "held", HeldOne(t)
    PROVE  CapInv'
<1>1. UNCHANGED <<resources, exceptions, reservations, now>>
  BY DEF HeldOne, calendar
<1>2. t \in AllocateTask
  BY AllocateTaskFits DEF CapInv, SyncInv
<1>3. CASE Return
  BY <1>1, <1>3, LookedStep DEF Return, CapInv, SyncInv
<1>4. CASE ~Return
  <2>1. PICK fits : fits = HoldFits(t.selected[Len(t.made) + 1])
    OBVIOUS
  <2>2. PICK u : u = [t EXCEPT !.step = "hold", !.fits = fits]
    OBVIOUS
  <2>3. Suspend(u)
    BY <1>4, <2>1, <2>2 DEF HeldOne
  <2>4. /\ u.op = "allocate" /\ u.step = "hold" /\ u.fits = fits
        /\ u.selected = t.selected /\ u.made = t.made
    BY <1>2, <2>2 DEF AllocateTask
  <2> QED BY <1>1, <2>1, <2>3, <2>4, NextHold
<1> QED BY <1>3, <1>4

LEMMA HoldNextCap ==
    ASSUME NoNegatives, CapInv, SyncInv', tasks # <<>>, NEW t, t = Head(tasks),
           t.op = "allocate", t.step = "hold", HoldNext(t)
    PROVE  CapInv'
<1>1. TypeInv /\ TypeInv' /\ Positive /\ LoadOK /\ Promised(t)
  BY DEF CapInv, SyncInv
<1>2. t \in AllocateTask /\ AllocateFits(t, DOMAIN resources, Ids)
  BY <1>1, AllocateTaskFits
<1>3. UNCHANGED <<resources, exceptions, now>>
  BY DEF HoldNext, calendar
<1>4. CASE t.fits
  <2>1. /\ t.selected \in Seq(Reservation) /\ Len(t.made) < Len(t.selected)
        /\ Len(t.made) \in Nat
    BY <1>2 DEF AllocateTask, AllocateFits
  <2>2. PICK h \in Reservation : h = t.selected[Len(t.made) + 1]
    BY <2>1
  <2>3. reservations \in Seq(Reservation) /\ Ids = 1..Len(reservations)
    BY <1>1, Books
  <2>4. PICK n \in Nat : n = Len(reservations) + 1
    BY <2>3
  <2>5. PICK u : u = [t EXCEPT !.step = "held", !.made = Append(@, NextId)]
    OBVIOUS
  <2>6. reservations' = Append(reservations, h) /\ Suspend(u)
    BY <1>4, <2>2, <2>5 DEF HoldNext
  <2>7. /\ Ids' = 1..n /\ reservations'[n] = h
        /\ \A id \in 1..n : id # n => id \in Ids /\ reservations'[id] = reservations[id]
    BY <2>3, <2>4, <2>6 DEF Ids
  <2>8. n \notin Ids /\ n \in 1..n
    BY <2>3, <2>4
  <2>9. RoomFor(h.resource, h.range, h.quantity)
    BY <1>1, <1>4, <2>2 DEF Promised
  <2>10. Adds(n)
    BY <1>3, <2>7, <2>8, <2>9 DEF Adds
  <2>11. LoadOK'
    BY <1>1, <2>10, AddedLoad
  <2>12. u.op = "allocate" /\ u.step # "hold"
    BY <1>2, <2>5 DEF AllocateTask
  <2>13. Head(tasks') = u
    BY <2>6, HeadOf
  <2>14. Promised(u)'
    BY <2>12 DEF Promised
  <2> QED BY <1>1, <1>3, <2>11, <2>13, <2>14 DEF CapInv, Positive
<1>5. CASE ~t.fits
  <2>1. PICK u : u = [t EXCEPT !.step = "undo", !.j = 1]
    OBVIOUS
  <2>2. Suspend(u) /\ UNCHANGED reservations
    BY <1>5, <2>1 DEF HoldNext
  <2>3. u.op = "allocate" /\ u.step # "hold"
    BY <1>2, <2>1 DEF AllocateTask
  <2> QED BY <1>3, <2>2, <2>3, HeadOf, NoPromise, LookedStep
<1> QED BY <1>4, <1>5

LEMMA UndoCap ==
    ASSUME NoNegatives, CapInv, SyncInv', tasks # <<>>, NEW t, t = Head(tasks),
           t.op = "allocate", t.step = "undo", Undo(t)
    PROVE  CapInv'
<1>1. TypeInv /\ TypeInv' /\ Positive /\ LoadOK
  BY DEF CapInv, SyncInv
<1>2. t \in AllocateTask /\ AllocateFits(t, DOMAIN resources, Ids)
  BY <1>1, AllocateTaskFits
<1>3. UNCHANGED <<resources, exceptions, now>>
  BY DEF Undo, calendar
<1>4. CASE t.j > Len(t.made)
  BY <1>3, <1>4, LookedStep DEF Undo, Return, CapInv, SyncInv
<1>5. CASE ~(t.j > Len(t.made))
  <2>1. PICK id : id = t.made[t.j]
    OBVIOUS
  <2>2. PICK u : u = [t EXCEPT !.j = @ + 1]
    OBVIOUS
  <2>3. /\ reservations' = [reservations EXCEPT ![id].state = "Cancelled"]
        /\ Suspend(u)
    BY <1>5, <2>1, <2>2 DEF Undo
  <2>4. id \in Ids
    <3>1. t.j \in DOMAIN t.made
      BY <1>2, <1>5 DEF AllocateTask, AllocateFits
    <3> QED BY <1>2, <2>1, <3>1 DEF AllocateFits, Within
  <2>5. Eases
    BY <1>1, <1>3, <2>3, <2>4, CancellingEases
  <2>6. Positive'
    BY <1>1, <1>3 DEF Positive
  <2>7. LoadOK'
    BY <1>1, <2>5, <2>6, EasedLoad
  <2>8. u.op = "allocate" /\ u.step # "hold"
    BY <1>2, <2>2 DEF AllocateTask
  <2>9. Head(tasks') = u
    BY <2>3, HeadOf
  <2>10. Promised(u)'
    BY <2>8 DEF Promised
  <2> QED BY <2>6, <2>7, <2>9, <2>10 DEF CapInv
<1> QED BY <1>4, <1>5

(* Between calls.                                                          *)
LEMMA EasedStep ==
    ASSUME NoNegatives, CapInv, SyncInv', tasks' = <<>>, Eases, Positive'
    PROVE  CapInv'
<1>1. LoadOK'
  BY EasedLoad DEF CapInv, SyncInv
<1> QED BY <1>1 DEF CapInv

LEMMA BookCap ==
    ASSUME NoNegatives, ~Interleaved, CapInv, SyncInv', Book
    PROVE  CapInv'
<1>1. TypeInv /\ TypeInv' /\ Positive
  BY DEF CapInv, SyncInv
<1>2. ASSUME Eases, MayCall, UNCHANGED <<resources, tasks>> PROVE CapInv'
  BY <1>1, <1>2, EasedStep DEF MayCall, Positive
<1>3. ASSUME NEW r \in DOMAIN resources, NEW x \in Ranges, NEW q \in Quantities,
             NEW e \in Expiries, StartHold(r, x, q, e)
      PROVE  CapInv'
  <2>1. tasks = <<>>
    BY <1>3 DEF StartHold, Start, MayCall
  <2> QED BY <1>3, <2>1, StartHoldCap
<1>4. ASSUME NEW id \in Ids, Confirm(id) PROVE CapInv'
  BY <1>1, <1>2, <1>4, ConfirmEases DEF Confirm
<1>5. ASSUME NEW id \in Ids, Cancel(id) PROVE CapInv'
  BY <1>1, <1>2, <1>5, CancellingEases DEF Cancel, calendar
<1>6. ASSUME NEW id \in Ids, NEW x \in Ranges, StartReschedule(id, x) PROVE CapInv'
  <2>1. tasks = <<>>
    BY <1>6 DEF StartReschedule, Start, MayCall
  <2> QED BY <1>6, <2>1, StartRescheduleCap
<1>7. ASSUME NEW at \in 0..MaxTime, ExpireHolds(at) PROVE CapInv'
  BY <1>1, <1>2, <1>7, ExpireHoldsEases DEF ExpireHolds
<1>8. ASSUME NEW requests, StartAllocate(requests) PROVE CapInv'
  <2>1. tasks = <<>>
    BY <1>8 DEF StartAllocate, Start, MayCall
  <2> QED BY <1>8, <2>1, StartAllocateCap
<1> QED BY <1>3, <1>4, <1>5, <1>6, <1>7, <1>8 DEF Book

LEMMA CapInvStep ==
    ASSUME NoNegatives, ~Interleaved
    PROVE  CapInv /\ [Next]_vars => CapInv'
<1> SUFFICES ASSUME CapInv, [Next]_vars PROVE CapInv'
  OBVIOUS
<1>1. SyncInv'
  BY SyncInvStep DEF CapInv
<1>2. CASE Administrate
  <2>1. MayCall /\ UNCHANGED tasks
    BY <1>2 DEF Administrate, CreateResource, SetStatus, CreatePool, MayPlan, AddRule,
                AddBlackout, AddException
  <2>2. Eases /\ Positive'
    BY <1>1, <1>2, AdministrateEases DEF CapInv, SyncInv
  <2> QED BY <1>1, <2>1, <2>2, EasedStep DEF MayCall
<1>3. CASE Book
  BY <1>1, <1>3, BookCap
<1>4. CASE Continue
  BY <1>1, <1>4, EndHoldCap, EndRescheduleCap, SelectCap, HoldNextCap, HeldOneCap,
     UndoCap DEF Continue
<1>5. CASE Tick
  BY <1>1, <1>5, TickKeeps
<1>6. CASE UNCHANGED vars
  BY <1>1, <1>6, LookedStep DEF vars, calendar, CapInv
<1> QED BY <1>2, <1>3, <1>4, <1>5, <1>6 DEF Next

LEMMA InitCapInv == Init => CapInv
<1> SUFFICES ASSUME Init PROVE CapInv
  OBVIOUS
<1>1. SyncInv
  BY InitTypeInv DEF Init, SyncInv, CancelledStaysCancelled
<1> QED BY <1>1 DEF Init, CapInv, Positive, LoadOK

LEMMA CapInvariant == ASSUME NoNegatives, ~Interleaved PROVE Spec => []CapInv
BY InitCapInv, CapInvStep, PTL DEF Spec

(* What counts at a time is what the load weighs.                          *)
LEMMA LoadIsPeak ==
    ASSUME NoNegatives, CapInv PROVE CountedWithinCapacity
<1> SUFFICES ASSUME NEW r \in DOMAIN resources
             PROVE  Peak(r, {id \in Ids : /\ reservations[id].state \in {"Held", "Confirmed"}
                                          /\ ~Expired(id)}) <= Granted(r)
  BY DEF CountedWithinCapacity
<1>1. /\ TypeInv /\ reservations \in Seq(Reservation) /\ Ids = 1..Len(reservations)
      /\ Len(reservations) \in Nat /\ now \in Nat
  BY Books DEF CapInv, SyncInv, TypeInv
<1> DEFINE S == {id \in Ids : /\ reservations[id].state \in {"Held", "Confirmed"}
                              /\ ~Expired(id)}
           loads == [id \in S |-> Quantity(Using(r, S, reservations[id].range[1]))]
           G == {loads[id] : id \in S}
<1>2. ASSUME NEW time \in Nat
      PROVE  /\ Quantity(Using(r, S, time)) \in Nat
             /\ Quantity(Using(r, S, time)) <= Granted(r)
  <2>1. Using(r, S, time) = Takers(reservations, now, r, time)
    <3>1. \A id \in Ids : ~Expired(id) <=> \/ reservations[id].expires = Never
                                           \/ reservations[id].expires > now
      <4>1. \A id \in Ids : reservations[id].expires \in Nat \cup {Never}
        BY <1>1, EntryQuantity
      <4> QED BY <1>1, <4>1 DEF Expired
    <3> QED BY <1>1, <3>1 DEF Using, Takers, Counts, Covers
  <2>2. Takers(reservations, now, r, time) \in SUBSET (1..Len(reservations))
    BY DEF Takers
  <2>3. Quantity(Takers(reservations, now, r, time)) = Load(reservations, now, r, time)
    BY <1>1, <2>2, BookWeights, QuantityIsSum DEF Load, NoNegatives
  <2>4. Load(reservations, now, r, time) \in Nat
    BY <1>1, LoadIsNatural DEF NoNegatives
  <2> HIDE DEF S
  <2> QED BY <2>1, <2>3, <2>4 DEF CapInv, LoadOK, Fitting
<1>3. \A id \in S : reservations[id].range[1] \in Nat
  <2>1. \A id \in S : reservations[id].range \in Ranges
    BY <1>1, EntryQuantity
  <2> QED BY <2>1, ReservationsAssumption
<1>4. \A g \in G : g \in Nat /\ g <= Granted(r)
  <2> HIDE DEF S
  <2>1. \A id \in S : loads[id] \in Nat /\ loads[id] <= Granted(r)
    BY <1>2, <1>3
  <2> QED BY <2>1
<1>5. IsFiniteSet({0} \cup G) /\ {0} \cup G \subseteq Int /\ {0} \cup G # {}
  <2>1. IsFiniteSet(S)
    <3>1. IsFiniteSet(1..Len(reservations))
      BY <1>1, FS_Interval
    <3>2. S \in SUBSET (1..Len(reservations))
      BY <1>1
    <3> HIDE DEF S
    <3> QED BY <3>1, <3>2, FS_Subset
  <2> HIDE DEF S, loads
  <2>2. IsFiniteSet(G)
    BY <2>1, ImageIsFinite
  <2>3. IsFiniteSet({0})
    BY FS_Singleton
  <2>4. IsFiniteSet({0} \cup G)
    BY <2>2, <2>3, FS_Union
  <2> QED BY <1>4, <2>4
<1>6. Granted(r) \in Int /\ 0 <= Granted(r)
  <2>1. /\ Granted(r) \in Int /\ resources[r].capacity \in Int
        /\ resources[r].capacity <= Granted(r)
    BY <1>1, GrantedIsHighest DEF GrantedLaw
  <2>2. resources[r].capacity >= 1
    BY DEF CapInv, Positive
  <2> QED BY <2>1, <2>2
<1>7. Max({0} \cup G) <= Granted(r)
  <2>1. Max({0} \cup G) \in {0} \cup G
    <3> HIDE DEF G
    <3> QED BY <1>5, Greatest
  <2> QED BY <1>4, <1>6, <2>1
<1>8. Peak(r, S) = Max({0} \cup G)
  <2> HIDE DEF S
  <2>1. G = {Quantity(Using(r, S, reservations[id].range[1])) : id \in S}
    OBVIOUS
  <2> HIDE DEF G
  <2> QED BY <2>1 DEF Peak
<1> QED BY <1>7, <1>8

(* In the Rust port, as long as nobody asks for a negative quantity or     *)
(* enters a negative reduction (availability checks neither), the holds    *)
(* and bookings that have not expired never take more of a resource at a   *)
(* time than the highest capacity it was ever granted.                     *)
THEOREM NeverOverbooked ==
    ASSUME NoNegatives, ~Interleaved PROVE Spec => []CountedWithinCapacity
BY CapInvariant, LoadIsPeak, PTL
=============================================================================
