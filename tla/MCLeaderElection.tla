-------------------------- MODULE MCLeaderElection --------------------------
(***************************************************************************)
(* Instances of LeaderElection for TLC.  Time, resource versions and       *)
(* leaseTransitions grow without bound, but the system only compares them: *)
(* TimelessView identifies states that differ by a shift of all of them,   *)
(* so the runs need no bound on the clock or on the number of renewals.    *)
(***************************************************************************)
EXTENDS LeaderElection, FiniteSetsExt

CONSTANTS a, b, c

MCNoLease == {Absent}

(* Nothing, a Lease without holder, one held by pod a, and one whose       *)
(* foreign holder is incomplete.                                           *)
MCAnyLease ==
    {Absent,
     [version |-> 1, holder |-> NoOne, renew |-> NoTime, transitions |-> 0],
     [version |-> 1, holder |-> a, renew |-> 0, transitions |-> 0],
     [version |-> 1, holder |-> b, renew |-> NoTime, transitions |-> 0]}

(* A renewTime older than this is expired for every call still to come.    *)
Horizon == (LeaseDuration + 1) * TicksPerSecond + CallTime + MaxSkew

Age(t) == IF t = NoTime THEN NoTime
          ELSE IF clock - t > Horizon THEN Horizon + 1 ELSE clock - t

(* The constants a shift must preserve: whether a version is the current   *)
(* one or its successor, and by how much a term lags, up to 3.             *)
Shift(l) == [holder |-> l.holder, age |-> Age(l.renew),
             lag |-> IF lease.transitions - l.transitions > 2 THEN 3
                     ELSE lease.transitions - l.transitions]

ShiftWrite(w) == IF Accepts(lease, w) THEN <<Shift(w)>> ELSE <<>>

TimelessView ==
    <<clock % TicksPerSecond, offset, lease.version = 0, Shift(lease), pc, mode,
      [r \in Replicas |->
         IF due[r] < clock THEN 0 ELSE due[r] - clock],
      [r \in Replicas |-> IF pc[r] = "get" THEN Age(now[r]) ELSE NoTime],
      [r \in Replicas |->
         CASE pc[r] = "write" -> ShiftWrite(req[r])
           [] pc[r] = "granted" -> <<lease.transitions - req[r].transitions>>
           [] OTHER -> <<>>],
      {ShiftWrite(w) : w \in {v \in stray : Accepts(lease, v)}},
      [r \in Replicas |->
         IF Leading(r) THEN lease.transitions - term[r] ELSE 0],
      faults>>
=============================================================================
