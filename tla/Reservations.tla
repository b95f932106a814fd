----------------------------- MODULE Reservations -----------------------------
(***************************************************************************)
(* Bookable resources: calendar, holds, pools and allocation, in the two   *)
(* ports of the time-resource module,                                      *)
(*   src/crates/foundation/time-resource/src/lib.rs          (Rust)        *)
(*   src/modules/foundation/time-resource/src/reference.ts   (TypeScript). *)
(*                                                                         *)
(* The ports take the same decisions in the same order.  In TypeScript     *)
(* hold, reschedule and allocate await each look at the availability, and  *)
(* other calls run meanwhile; tasks is the queue of the suspended ones, in *)
(* the order their continuations run.  In Rust a call runs to its end, as  *)
(* RefCell makes the store !Sync: with Interleaved = FALSE nobody calls    *)
(* while a task is unfinished.  Time passes in both.                       *)
(*                                                                         *)
(* Abstracted: one organization; times are numbers and a rule's weekdays,  *)
(* dates and hours are one window; names, parties and attributes.          *)
(*                                                                         *)
(* Definitions named Bug... are not the code: each is a mistake that a     *)
(* property below must notice when it replaces the definition after it.    *)
(***************************************************************************)
EXTENDS Integers, Sequences, FiniteSetsExt

CONSTANTS
    Interleaved,      \* TRUE for the TypeScript port
    Statuses,         \* of resources, "Active" among them
    Capacities, Quantities, Ranges,
    Never,            \* an Option that is None
    Expiries,         \* values of expires_at
    RuleCapacities, Reductions, Overrides,  \* optional capacities of the calendar
    Members,          \* the member lists of pools
    MaxResources, MaxPools, MaxCalendar, MaxReservations, MaxTasks, MaxTime

ASSUME ReservationsAssumption ==
    /\ Interleaved \in BOOLEAN
    /\ "Active" \in Statuses
    /\ Capacities \subseteq Int /\ Quantities \subseteq Int
    /\ Ranges \subseteq {r \in Nat \X Nat : r[1] < r[2]}   \* assert_range
    /\ Never \notin Int
    /\ Expiries \subseteq Nat \cup {Never}
    /\ RuleCapacities \cup Reductions \cup Overrides \subseteq Int \cup {Never}
    /\ Members \subseteq Seq(Nat)
    /\ {MaxResources, MaxPools, MaxCalendar, MaxReservations, MaxTasks, MaxTime}
         \subseteq Nat

VARIABLES
    resources,     \* sequences: the n-th entry has the id n
    pools,
    rules, blackouts, exceptions,
    reservations,
    now,
    tasks,         \* suspended calls
    cancelled      \* reservations whose cancel has returned (history)

calendar == <<rules, blackouts, exceptions>>
vars == <<resources, pools, calendar, reservations, now, tasks, cancelled>>

States == {"Held", "Confirmed", "Cancelled", "Expired"}

Resource == [status : Statuses, capacity : Capacities]
Pool == [members : Members, all : BOOLEAN]
Rule == [resource : Nat, window : Ranges, capacity : RuleCapacities]
Blackout == [resource : Nat, range : Ranges, reduction : Reductions]
Exception == [resource : Nat, range : Ranges, open : BOOLEAN, override : Overrides]
Reservation == [resource : Nat, range : Ranges, quantity : Quantities,
                state : States, expires : Expiries]

(* A request for a resource is one for a pool of which all is needed.      *)
Request == [members : Seq(Nat), all : BOOLEAN, range : Ranges,
            quantity : Quantities, expires : Expiries]

HoldTask == [op : {"hold"}, hold : Reservation, fits : BOOLEAN]
RescheduleTask == [op : {"reschedule"}, id : Nat, range : Ranges, state : States,
                   fits : BOOLEAN]
AllocateTask == [op : {"allocate"}, step : {"select", "hold", "held", "undo"},
                 requests : Seq(Request),
                 i : Nat, j : Nat,            \* asking for member j of request i
                 found : Seq(Nat),            \* members that are available
                 selected : Seq(Reservation), \* holds to make
                 made : Seq(Nat),             \* holds made
                 fits : BOOLEAN]

Ids == 1..Len(reservations)

TypeOK ==
    /\ resources \in Seq(Resource) /\ pools \in Seq(Pool)
    /\ rules \in Seq(Rule) /\ blackouts \in Seq(Blackout)
    /\ exceptions \in Seq(Exception)
    /\ reservations \in Seq(Reservation)
    /\ \A id \in Ids : reservations[id].resource \in DOMAIN resources
    /\ now \in Nat
    /\ tasks \in Seq(HoldTask \cup RescheduleTask \cup AllocateTask)
    /\ \A n \in DOMAIN tasks :
         tasks[n].op = "allocate" =>
           \A k \in DOMAIN tasks[n].made : tasks[n].made[k] \in Ids
    /\ cancelled \subseteq Ids

Init ==
    /\ resources = <<>> /\ pools = <<>>
    /\ rules = <<>> /\ blackouts = <<>> /\ exceptions = <<>>
    /\ reservations = <<>>
    /\ now = 0
    /\ tasks = <<>>
    /\ cancelled = {}

MayCall == Interleaved \/ tasks = <<>>

-----------------------------------------------------------------------------
(* ResourceProvider and CalendarProvider: one entry at a time.             *)

CreateResource(capacity) ==
    /\ MayCall
    /\ capacity >= 1
    /\ Len(resources) < MaxResources
    /\ resources' = Append(resources, [status |-> "Active", capacity |-> capacity])
    /\ UNCHANGED <<pools, calendar, reservations, now, tasks, cancelled>>

SetStatus(r, status) ==
    /\ MayCall
    /\ resources' = [resources EXCEPT ![r].status = status]
    /\ UNCHANGED <<pools, calendar, reservations, now, tasks, cancelled>>

CreatePool(members, all) ==
    /\ MayCall
    /\ \A k \in DOMAIN members : members[k] \in DOMAIN resources
    /\ Len(pools) < MaxPools
    /\ pools' = Append(pools, [members |-> members, all |-> all])
    /\ UNCHANGED <<resources, calendar, reservations, now, tasks, cancelled>>

MayPlan == MayCall /\ Len(rules) + Len(blackouts) + Len(exceptions) < MaxCalendar

AddRule(r, window, capacity) ==
    /\ MayPlan
    /\ rules' = Append(rules, [resource |-> r, window |-> window, capacity |-> capacity])
    /\ UNCHANGED <<resources, pools, blackouts, exceptions, reservations, now, tasks,
                   cancelled>>

AddBlackout(r, range, reduction) ==
    /\ MayPlan
    /\ blackouts' = Append(blackouts,
                           [resource |-> r, range |-> range, reduction |-> reduction])
    /\ UNCHANGED <<resources, pools, rules, exceptions, reservations, now, tasks,
                   cancelled>>

AddException(r, range, open, override) ==
    /\ MayPlan
    /\ exceptions' = Append(exceptions, [resource |-> r, range |-> range, open |-> open,
                                         override |-> override])
    /\ UNCHANGED <<resources, pools, rules, blackouts, reservations, now, tasks,
                   cancelled>>

-----------------------------------------------------------------------------
(* availability                                                            *)

Overlaps(a, b) == a[1] < b[2] /\ b[1] < a[2]
OrElse(option, default) == IF option = Never THEN default ELSE option

RuleAllows(rule, range, quantity) ==
    /\ rule.window[1] <= range[1] /\ range[2] <= rule.window[2]
    /\ OrElse(rule.capacity, resources[rule.resource].capacity) >= quantity

BugIgnoresHolds(id) ==
    /\ reservations[id].state = "Confirmed"
    /\ reservations[id].expires = Never \/ reservations[id].expires > now

Blocks(id) ==
    /\ reservations[id].state \in {"Held", "Confirmed"}
    /\ reservations[id].expires = Never \/ reservations[id].expires > now

(* What reservations take together, and what blackouts take away.          *)
Quantity(ids) == MapThenSumSet(LAMBDA id : reservations[id].quantity, ids)

Reduction(closed, capacity) ==
    MapThenSumSet(LAMBDA n : OrElse(blackouts[n].reduction, capacity), closed)

(* Everything that touches the range is subtracted from the whole of it,   *)
(* and the newest opening that touches it opens the whole of it.           *)
Available(r, range, quantity) ==
    LET touching == {n \in DOMAIN exceptions : /\ exceptions[n].resource = r
                                               /\ Overlaps(exceptions[n].range, range)}
        openings == {n \in touching : exceptions[n].open}
        own == {n \in DOMAIN rules : rules[n].resource = r}
        blocking == {id \in Ids : /\ reservations[id].resource = r /\ Blocks(id)
                                  /\ Overlaps(reservations[id].range, range)}
        closed == {n \in DOMAIN blackouts : /\ blackouts[n].resource = r
                                            /\ Overlaps(blackouts[n].range, range)}
        capacity == resources[r].capacity
        base == IF openings = {} THEN capacity
                ELSE OrElse(exceptions[Max(openings)].override, capacity)
    IN  /\ resources[r].status = "Active"
        /\ touching = openings
        /\ openings # {} \/ own = {} \/ \E n \in own : RuleAllows(rules[n], range, quantity)
        /\ Max({base - Reduction(closed, capacity) - Quantity(blocking), 0}) >= quantity

-----------------------------------------------------------------------------
(* Calls that suspend.  Start puts a task behind the ones that wait; the   *)
(* first task continues, and suspends again or returns.                    *)

Start(task) ==
    /\ MayCall
    /\ Len(tasks) < MaxTasks /\ Len(reservations) < MaxReservations
    /\ tasks' = Append(tasks, task)

Suspend(task) == tasks' = Append(Tail(tasks), task)
Return == tasks' = Tail(tasks)

NewHold(r, range, quantity, expires) ==
    [resource |-> r, range |-> range, quantity |-> quantity, state |-> "Held",
     expires |-> expires]

HoldFits(hold) == Available(hold.resource, hold.range, hold.quantity)

BugStaleId == Len(reservations)
NextId == Len(reservations) + 1

StartHold(r, range, quantity, expires) ==
    LET hold == NewHold(r, range, quantity, expires)
    IN  /\ Start([op |-> "hold", hold |-> hold, fits |-> HoldFits(hold)])
        /\ UNCHANGED <<resources, pools, calendar, reservations, now, cancelled>>

EndHold(t) ==
    /\ reservations' = IF t.fits THEN Append(reservations, t.hold) ELSE reservations
    /\ Return
    /\ UNCHANGED <<resources, pools, calendar, now, cancelled>>

BugConfirmsAny(id) == reservations[id].state # "Confirmed"
Confirmable(id) == reservations[id].state = "Held"

Confirm(id) ==
    /\ MayCall
    /\ Confirmable(id)
    /\ reservations' = [reservations EXCEPT ![id].state = "Confirmed"]
    /\ UNCHANGED <<resources, pools, calendar, now, tasks, cancelled>>

Cancel(id) ==
    /\ MayCall
    /\ reservations' = [reservations EXCEPT ![id].state = "Cancelled"]
    /\ cancelled' = cancelled \cup {id}
    /\ UNCHANGED <<resources, pools, calendar, now, tasks>>

Movable(id) == reservations[id].state \in {"Held", "Confirmed"}

(* The reservation is cancelled, so as not to be in its own way, before    *)
(* the availability of the new range is read.                              *)
StartReschedule(id, range) ==
    /\ Movable(id)
    /\ reservations' = [reservations EXCEPT ![id].state = "Cancelled"]
    /\ UNCHANGED <<resources, pools, calendar, now, cancelled>>
    /\ Start([op |-> "reschedule", id |-> id, range |-> range,
              state |-> reservations[id].state,
              fits |-> Available(reservations[id].resource, range,
                                 reservations[id].quantity)'])

(* A second reschedule is refused while one waits: the original range is   *)
(* the one the reservation still has.                                      *)
EndReschedule(t) ==
    /\ reservations' =
         [reservations EXCEPT ![t.id].state = t.state,
                              ![t.id].range = IF t.fits THEN t.range ELSE @]
    /\ Return
    /\ UNCHANGED <<resources, pools, calendar, now, cancelled>>

(* at defaults to the time of the call, and may be any other.              *)
ExpireHolds(at) ==
    /\ MayCall
    /\ reservations' =
         [id \in Ids |->
            IF /\ reservations[id].state = "Held"
               /\ reservations[id].expires # Never /\ reservations[id].expires <= at
            THEN [reservations[id] EXCEPT !.state = "Expired"] ELSE reservations[id]]
    /\ UNCHANGED <<resources, pools, calendar, now, tasks, cancelled>>

-----------------------------------------------------------------------------
(* allocate: select the resources of every request one after the other,    *)
(* then hold one after the other, and cancel what was held on a failure.   *)

RequestFits(request, j) ==
    Available(request.members[j], request.range, request.quantity)

StartAllocate(requests) ==
    /\ requests[1].members # <<>>
    /\ Start([op |-> "allocate", step |-> "select", requests |-> requests,
              i |-> 1, j |-> 1, found |-> <<>>, selected |-> <<>>, made |-> <<>>,
              fits |-> RequestFits(requests[1], 1)])
    /\ UNCHANGED <<resources, pools, calendar, reservations, now, cancelled>>

Chosen(request, found) ==
    IF ~request.all THEN SubSeq(found, 1, Min({1, Len(found)}))
    ELSE IF Len(found) = Len(request.members) THEN found ELSE <<>>

Holds(request, chosen) ==
    [k \in DOMAIN chosen |->
       NewHold(chosen[k], request.range, request.quantity, request.expires)]

Select(t) ==
    LET request == t.requests[t.i]
        found == IF t.fits THEN Append(t.found, request.members[t.j]) ELSE t.found
        chosen == Chosen(request, found)
        selected == t.selected \o Holds(request, chosen)
    IN  /\ \/ /\ t.j < Len(request.members)
              /\ Suspend([t EXCEPT !.j = @ + 1, !.found = found,
                                   !.fits = RequestFits(request, t.j + 1)])
           \/ /\ t.j = Len(request.members) /\ chosen = <<>>
              /\ Return
           \/ /\ t.j = Len(request.members) /\ chosen # <<>> /\ t.i < Len(t.requests)
              /\ IF t.requests[t.i + 1].members = <<>> THEN Return
                 ELSE Suspend([t EXCEPT !.i = @ + 1, !.j = 1, !.found = <<>>,
                                        !.selected = selected,
                                        !.fits = RequestFits(t.requests[t.i + 1], 1)])
           \/ /\ t.j = Len(request.members) /\ chosen # <<>> /\ t.i = Len(t.requests)
              /\ Suspend([t EXCEPT !.step = "hold", !.selected = selected,
                                   !.fits = HoldFits(selected[1])])
        /\ UNCHANGED <<resources, pools, calendar, reservations, now, cancelled>>

HoldNext(t) ==
    /\ IF t.fits
       THEN /\ reservations' = Append(reservations, t.selected[Len(t.made) + 1])
            /\ Suspend([t EXCEPT !.step = "held", !.made = Append(@, NextId)])
       ELSE /\ Suspend([t EXCEPT !.step = "undo", !.j = 1])
            /\ UNCHANGED reservations
    /\ UNCHANGED <<resources, pools, calendar, now, cancelled>>

HeldOne(t) ==
    /\ IF Len(t.made) = Len(t.selected) THEN Return
       ELSE Suspend([t EXCEPT !.step = "hold",
                              !.fits = HoldFits(t.selected[Len(t.made) + 1])])
    /\ UNCHANGED <<resources, pools, calendar, reservations, now, cancelled>>

BugUndoesOne(t) ==
    /\ IF t.made = <<>> THEN UNCHANGED <<reservations, cancelled>>
       ELSE /\ reservations' = [reservations EXCEPT ![t.made[1]].state = "Cancelled"]
            /\ cancelled' = cancelled \cup {t.made[1]}
    /\ Return
    /\ UNCHANGED <<resources, pools, calendar, now>>

Undo(t) ==
    /\ IF t.j > Len(t.made) THEN Return /\ UNCHANGED <<reservations, cancelled>>
       ELSE /\ reservations' = [reservations EXCEPT ![t.made[t.j]].state = "Cancelled"]
            /\ cancelled' = cancelled \cup {t.made[t.j]}
            /\ Suspend([t EXCEPT !.j = @ + 1])
    /\ UNCHANGED <<resources, pools, calendar, now>>

Continue ==
    /\ tasks # <<>>
    /\ LET t == Head(tasks)
       IN  \/ t.op = "hold" /\ EndHold(t)
           \/ t.op = "reschedule" /\ EndReschedule(t)
           \/ t.op = "allocate" /\ t.step = "select" /\ Select(t)
           \/ t.op = "allocate" /\ t.step = "hold" /\ HoldNext(t)
           \/ t.op = "allocate" /\ t.step = "held" /\ HeldOne(t)
           \/ t.op = "allocate" /\ t.step = "undo" /\ Undo(t)

-----------------------------------------------------------------------------
Tick ==
    /\ now < MaxTime /\ now' = now + 1
    /\ UNCHANGED <<resources, pools, calendar, reservations, tasks, cancelled>>

(* What one request of an allocation may ask for.                          *)
Targets == {[members |-> <<r>>, all |-> TRUE] : r \in DOMAIN resources}
             \cup {pools[p] : p \in DOMAIN pools}

Requests == {[members |-> x.members, all |-> x.all, range |-> range,
              quantity |-> quantity, expires |-> expires] :
               x \in Targets, range \in Ranges, quantity \in Quantities,
               expires \in Expiries}

Administrate ==
    \/ \E c \in Capacities : CreateResource(c)
    \/ \E m \in Members, all \in BOOLEAN : CreatePool(m, all)
    \/ \E r \in DOMAIN resources :
         \/ \E s \in Statuses : SetStatus(r, s)
         \/ \E w \in Ranges, c \in RuleCapacities : AddRule(r, w, c)
         \/ \E x \in Ranges, c \in Reductions : AddBlackout(r, x, c)
         \/ \E x \in Ranges, open \in BOOLEAN, c \in Overrides : AddException(r, x, open, c)

Book ==
    \/ \E r \in DOMAIN resources, range \in Ranges, quantity \in Quantities,
          expires \in Expiries : StartHold(r, range, quantity, expires)
    \/ \E id \in Ids : Confirm(id) \/ Cancel(id)
    \/ \E id \in Ids, range \in Ranges : StartReschedule(id, range)
    \/ \E at \in 0..MaxTime : ExpireHolds(at)
    \/ \E x \in Requests : StartAllocate(<<x>>)
    \/ \E x, y \in Requests : StartAllocate(<<x, y>>)

Next == Administrate \/ Book \/ Continue \/ Tick

Spec == Init /\ [][Next]_vars

-----------------------------------------------------------------------------
(* The capacities an administrator ever granted, and the highest of them.  *)
Grants(r) ==
    {resources[r].capacity} \cup
        {OrElse(exceptions[n].override, resources[r].capacity) :
           n \in {m \in DOMAIN exceptions : exceptions[m].resource = r}}

Granted(r) == Max(Grants(r))

(* The reservations in S that are for r at a time.                         *)
Using(r, S, time) == {id \in S : /\ reservations[id].resource = r
                                 /\ reservations[id].range[1] <= time
                                 /\ time < reservations[id].range[2]}

(* The most that the reservations in S take of r at once: the load is      *)
(* highest where one of them starts.                                       *)
Peak(r, S) ==
    Max({0} \cup {Quantity(Using(r, S, reservations[id].range[1])) : id \in S})

Expired(id) == reservations[id].expires # Never /\ reservations[id].expires <= now

(* reservation_prevents_overbooking: the holds and bookings that have not  *)
(* expired never ask more of a resource at a time than it has.             *)
CountedWithinCapacity ==
    \A r \in DOMAIN resources :
        Peak(r, {id \in Ids : reservations[id].state \in {"Held", "Confirmed"}
                               /\ ~Expired(id)}) <= Granted(r)

(* The same of what customers were told is confirmed.                      *)
ConfirmedWithinCapacity ==
    \A r \in DOMAIN resources :
        Peak(r, {id \in Ids : reservations[id].state = "Confirmed"}) <= Granted(r)

(* A reservation whose cancel has returned never takes part again.         *)
CancelledStaysCancelled ==
    \A id \in cancelled : reservations[id].state = "Cancelled"

(* atomare Mehrfachzuweisung: an allocation that returns leaves a hold for *)
(* everything it selected, or none of its holds.                           *)
AllocationIsAllOrNothing ==
    [][ \A t \in {tasks[n] : n \in DOMAIN tasks} :
          t.op = "allocate" /\ t = tasks[1] /\ tasks' = Tail(tasks) =>
            LET states == {reservations'[t.made[k]].state : k \in DOMAIN t.made}
            IN  \/ states \subseteq {"Cancelled"}
                \/ states \subseteq {"Held"} /\ Len(t.made) = Len(t.selected) ]_vars
=============================================================================
