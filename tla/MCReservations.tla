--------------------------- MODULE MCReservations ---------------------------
(***************************************************************************)
(* Instances of Reservations for TLC: ranges that coincide, overlap in     *)
(* part and are disjoint.                                                  *)
(***************************************************************************)
EXTENDS Reservations

Slot1 == <<0, 1>>
Slot2 == <<1, 2>>
Both == <<0, 2>>

OneRange == {Slot1}
AllRanges == {Slot1, Slot2, Both}

NoPools == {}
OnePool == {<<1, 2>>}

(* Either one resource with a calendar, or two with a pool, whose          *)
(* reservations are for one range and never expire.                        *)
Asked(task) ==
    CASE task.op = "hold" -> {task.hold}
      [] task.op = "reschedule" -> {[range |-> task.range, expires |-> Never]}
      [] task.op = "allocate" -> {task.requests[n] : n \in DOMAIN task.requests}

CalendarOrPool ==
    Len(resources) > 1 =>
      /\ rules = <<>> /\ blackouts = <<>> /\ exceptions = <<>> /\ now = 0
      /\ \A x \in {reservations[id] : id \in Ids}
                    \cup UNION {Asked(tasks[n]) : n \in DOMAIN tasks} :
            x.range = Slot1 /\ x.expires = Never
=============================================================================
