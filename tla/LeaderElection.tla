--------------------------- MODULE LeaderElection ---------------------------
(***************************************************************************)
(* Lease based leader election of the storage operator:                    *)
(* src/operator/sitegraph-operator-bin/src/leader_election.rs and the      *)
(* select! loop of main.rs that starts and stops the controllers.          *)
(*                                                                         *)
(* Each replica samples its clock, reads the Lease object, decides, and    *)
(* writes the Lease back with the resourceVersion it read; every request   *)
(* can fail before or after the API server has applied it.                 *)
(***************************************************************************)
EXTENDS Integers

CONSTANTS
    Replicas,        \* the pods of the Deployment; POD_NAME is the identity
    NoOne,           \* a Lease whose holderIdentity is absent
    LeaseDuration,   \* config.lease_duration, in seconds
    RetryPeriod,     \* config.retry_period, in ticks
    TicksPerSecond,  \* resolution of the clock the pods sample
    CallTime,        \* bound on one acquire_or_renew call, in ticks
    MaxSkew,         \* bound on the difference between two pods' clocks
    InitialLeases,   \* the Lease objects the first pod may find
    MaxFaults        \* bound on failed calls, crashes and stopped controllers

VARIABLES
    clock,    \* real time, in ticks
    offset,   \* what each pod's clock is ahead of real time
    lease,    \* the Lease object in the cluster
    pc,       \* where each replica is
    mode,     \* which loop of the elector, and which call of it, is running
    due,      \* end of the current sleep, or latest end of the current call
    now,      \* the `now` the current acquire_or_renew has sampled
    req,      \* the Lease the current call asks the API server to store
    stray,    \* writes whose sender has given up on the answer
    term,     \* history: leaseTransitions of the write a leader was granted
    faults    \* number of faults so far

vars == <<clock, offset, lease, pc, mode, due, now, req, stray, term, faults>>

(* Version 0 is the absent object.  A write carries the version that it    *)
(* creates, so it is accepted exactly when it follows the stored version.  *)
NoTime == -1

Leases == [version : Nat, holder : Replicas \cup {NoOne},
           renew : Nat \cup {NoTime}, transitions : Nat]

Absent == [version |-> 0, holder |-> NoOne, renew |-> NoTime, transitions |-> 0]

ASSUME ConfigAssumption ==   \* LeaderElectionConfig::validate
    /\ LeaseDuration \in Nat /\ LeaseDuration >= 2
    /\ TicksPerSecond \in Nat /\ TicksPerSecond > 0
    /\ RetryPeriod \in Nat /\ RetryPeriod > 0
    /\ RetryPeriod < LeaseDuration * TicksPerSecond

ASSUME EnvironmentAssumption ==
    /\ NoOne \notin Replicas
    /\ CallTime \in Nat /\ MaxSkew \in Nat /\ MaxFaults \in Nat
    /\ InitialLeases \subseteq Leases
    /\ \A l \in InitialLeases : l.renew \in {NoTime, 0}  \* not in the future

Modes == {"acquiring", "renewing", "retrying"}
Places == {"sleep", "get", "write", "granted", "refused", "down"}

TypeOK ==
    /\ clock \in Nat
    /\ offset \in [Replicas -> 0..MaxSkew]
    /\ lease \in Leases
    /\ pc \in [Replicas -> Places]
    /\ mode \in [Replicas -> Modes]
    /\ due \in [Replicas -> Nat]
    /\ now \in [Replicas -> Nat]
    /\ req \in [Replicas -> Leases]
    /\ stray \in SUBSET Leases
    /\ term \in [Replicas -> Nat]
    /\ faults \in Nat

-----------------------------------------------------------------------------
(* decide_lease: Timestamp::as_second truncates both times.                *)
(* Definitions named Bug... are not the code: each is a mistake that a     *)
(* property below must notice when it replaces the definition after it.    *)

Seconds(t) == t \div TicksPerSecond

BugExpiredRoundsUp(l, t) ==
    /\ l.renew # NoTime
    /\ Seconds(t + TicksPerSecond - 1) >= Seconds(l.renew) + LeaseDuration

Expired(l, t) ==
    /\ l.renew # NoTime
    /\ Seconds(t) >= Seconds(l.renew) + LeaseDuration

BugTakesFreshLease(l, r, t) == l.version = 0 \/ l.holder # r

BugNeverTakesOver(l, r, t) == l.version = 0 \/ l.holder = NoOne

MayAcquire(l, r, t) ==
    \/ l.version = 0
    \/ l.holder = NoOne
    \/ l.holder # r /\ Expired(l, t)

MayRenew(l, r) == l.version # 0 /\ l.holder = r

BugTransitionsKept(l, r, t) ==
    [version |-> l.version + 1, holder |-> r, renew |-> t,
     transitions |-> l.transitions]

BugTransitionsCountRenewals(l, r, t) ==
    [version |-> l.version + 1, holder |-> r, renew |-> t,
     transitions |-> l.transitions + 1]

BugTransitionsDown(l, r, t) ==
    [version |-> l.version + 1, holder |-> r, renew |-> t,
     transitions |-> l.transitions - 1]

(* create_lease and replace_lease: what is sent to the API server.         *)
Written(l, r, t) ==
    [version     |-> l.version + 1,
     holder      |-> r,
     renew       |-> t,
     transitions |-> IF l.version # 0 /\ MayAcquire(l, r, t)
                     THEN l.transitions + 1 ELSE l.transitions]

Accepts(l, w) == w.version = l.version + 1

(* The controllers of run_all are polled together with renew_until_lost.   *)
Leading(r) == pc[r] # "down" /\ mode[r] \in {"renewing", "retrying"}

Init ==
    /\ clock = 0
    /\ offset \in [Replicas -> 0..MaxSkew]
    /\ lease \in InitialLeases
    /\ pc = [r \in Replicas |-> "sleep"]
    /\ mode = [r \in Replicas |-> "acquiring"]
    /\ due = [r \in Replicas |-> 0]
    /\ now = [r \in Replicas |-> 0]
    /\ req = [r \in Replicas |-> Absent]
    /\ stray = {}
    /\ term = [r \in Replicas |-> 0]
    /\ faults = 0

-----------------------------------------------------------------------------
(* acquire_or_renew samples `now` before it reads the Lease.               *)
Begin(r) ==
    /\ pc[r] = "sleep" /\ due[r] <= clock
    /\ pc' = [pc EXCEPT ![r] = "get"]
    /\ now' = [now EXCEPT ![r] = clock + offset[r]]
    /\ due' = [due EXCEPT ![r] = clock + CallTime]
    /\ UNCHANGED <<clock, offset, lease, mode, req, stray, term, faults>>

(* The API server answers get_opt; the decision is a function of that      *)
(* answer and of `now`.  A Wait needs no further request.                  *)
Get(r) ==
    /\ pc[r] = "get"
    /\ IF MayAcquire(lease, r, now[r]) \/ MayRenew(lease, r)
       THEN /\ pc' = [pc EXCEPT ![r] = "write"]
            /\ req' = [req EXCEPT ![r] = Written(lease, r, now[r])]
       ELSE /\ pc' = [pc EXCEPT ![r] = "refused"]
            /\ UNCHANGED req
    /\ UNCHANGED <<clock, offset, lease, mode, due, now, stray, term, faults>>

BugConflictIsSuccess(r) ==
    /\ pc[r] = "write"
    /\ lease' = IF Accepts(lease, req[r]) THEN req[r] ELSE lease
    /\ pc' = [pc EXCEPT ![r] = "granted"]
    /\ UNCHANGED <<clock, offset, mode, due, now, req, stray, term, faults>>

(* The API server handles create or replace; 409 on a version conflict.    *)
Serve(r) ==
    /\ pc[r] = "write"
    /\ IF Accepts(lease, req[r])
       THEN lease' = req[r] /\ pc' = [pc EXCEPT ![r] = "granted"]
       ELSE UNCHANGED lease /\ pc' = [pc EXCEPT ![r] = "refused"]
    /\ UNCHANGED <<clock, offset, mode, due, now, req, stray, term, faults>>

Granted(r) ==
    /\ pc[r] = "granted"
    /\ pc' = [pc EXCEPT ![r] = "sleep"]
    /\ mode' = [mode EXCEPT ![r] = "renewing"]
    /\ due' = [due EXCEPT ![r] = clock + RetryPeriod]
    /\ term' = [term EXCEPT ![r] = req[r].transitions]
    /\ UNCHANGED <<clock, offset, lease, now, req, stray, faults>>

(* acquire sleeps and tries again; renew_until_lost returns LostLeadership, *)
(* the controllers are dropped and acquire starts at once.                 *)
Refused(r) ==
    /\ pc[r] = "refused"
    /\ pc' = [pc EXCEPT ![r] = "sleep"]
    /\ mode' = [mode EXCEPT ![r] = "acquiring"]
    /\ due' = [due EXCEPT ![r] =
                 IF mode[r] = "acquiring" THEN clock + RetryPeriod ELSE clock]
    /\ UNCHANGED <<clock, offset, lease, now, req, stray, term, faults>>

(* A request whose sender no longer waits may still reach the API server.  *)
Abandon(r) ==
    \/ UNCHANGED stray
    \/ pc[r] = "write" /\ stray' = stray \cup {req[r]}

Fault ==
    /\ faults < MaxFaults
    /\ faults' = faults + 1

(* The call returns Err.  acquire's error ends the process; the first      *)
(* error of a renewal is retried after a sleep, the second is treated by   *)
(* main like lost leadership.                                              *)
CallFails(r) ==
    /\ pc[r] \in {"get", "write", "granted", "refused"}
    /\ Fault /\ Abandon(r)
    /\ \/ /\ mode[r] = "acquiring"
          /\ pc' = [pc EXCEPT ![r] = "down"]
          /\ UNCHANGED <<mode, due>>
       \/ /\ mode[r] = "renewing"
          /\ pc' = [pc EXCEPT ![r] = "sleep"]
          /\ mode' = [mode EXCEPT ![r] = "retrying"]
          /\ due' = [due EXCEPT ![r] = clock + RetryPeriod]
       \/ /\ mode[r] = "retrying"
          /\ pc' = [pc EXCEPT ![r] = "sleep"]
          /\ mode' = [mode EXCEPT ![r] = "acquiring"]
          /\ due' = [due EXCEPT ![r] = clock]
    /\ UNCHANGED <<clock, offset, lease, now, req, term>>

(* run_all returns: the renewal is dropped and acquire starts at once.     *)
ControllersStop(r) ==
    /\ Leading(r)
    /\ Fault /\ Abandon(r)
    /\ pc' = [pc EXCEPT ![r] = "sleep"]
    /\ mode' = [mode EXCEPT ![r] = "acquiring"]
    /\ due' = [due EXCEPT ![r] = clock]
    /\ UNCHANGED <<clock, offset, lease, now, req, term>>

(* Crash, SIGTERM or ctrl_c: the Lease is not released.                    *)
Crash(r) ==
    /\ pc[r] # "down"
    /\ Fault /\ Abandon(r)
    /\ pc' = [pc EXCEPT ![r] = "down"]
    /\ UNCHANGED <<clock, offset, lease, mode, due, now, req, term>>

(* The kubelet restarts the container in the same pod: same identity.      *)
Restart(r) ==
    /\ pc[r] = "down"
    /\ pc' = [pc EXCEPT ![r] = "sleep"]
    /\ mode' = [mode EXCEPT ![r] = "acquiring"]
    /\ due' = [due EXCEPT ![r] = clock]
    /\ UNCHANGED <<clock, offset, lease, now, req, stray, term, faults>>

ServeStray(w) ==
    /\ stray' = stray \ {w}
    /\ lease' = IF Accepts(lease, w) THEN w ELSE lease
    /\ UNCHANGED <<clock, offset, pc, mode, due, now, req, term, faults>>

(* Timers fire and bounded calls end in time: a deadline is not passed.    *)
Tick ==
    /\ \A r \in Replicas : pc[r] # "down" => clock < due[r]
    /\ clock' = clock + 1
    /\ UNCHANGED <<offset, lease, pc, mode, due, now, req, stray, term, faults>>

Next ==
    \/ \E r \in Replicas :
         \/ Begin(r) \/ Get(r) \/ Serve(r) \/ Granted(r) \/ Refused(r)
         \/ CallFails(r) \/ ControllersStop(r) \/ Crash(r) \/ Restart(r)
    \/ \E w \in stray : ServeStray(w)
    \/ Tick

(* Timers fire and the API server answers.  A pod may stay down for good:  *)
(* Restart is not fair, nor are faults and abandoned writes.               *)
Fairness ==
    /\ WF_vars(Tick)
    /\ \A r \in Replicas :
         /\ WF_vars(Begin(r)) /\ WF_vars(Get(r)) /\ WF_vars(Serve(r))
         /\ WF_vars(Granted(r)) /\ WF_vars(Refused(r))

Spec == Init /\ [][Next]_vars
FairSpec == Spec /\ Fairness

-----------------------------------------------------------------------------
(* Two replicas that run the controllers at the same time were granted     *)
(* different leaseTransitions: whatever the clocks and the calls do, the   *)
(* compare-and-swap of replace_lease hands one reign to one replica.       *)
OneLeaderPerTerm ==
    \A r, s \in Replicas :
        r # s /\ Leading(r) /\ Leading(s) => term[r] # term[s]

(* A replica that runs the controllers is the holder in the Lease, or the  *)
(* Lease has moved on to a later reign it does not know of yet.            *)
LeaderHoldsOrSuperseded ==
    \A r \in Replicas :
        Leading(r) => \/ lease.holder = r /\ lease.transitions = term[r]
                      \/ lease.transitions > term[r]

(* A held Lease changes hands only when it had expired at the time the new *)
(* holder sampled, however late that write reaches the API server.         *)
TakeoverOnlyAfterExpiry ==
    [][ lease.version # 0 /\ lease.holder \in Replicas
            /\ lease'.holder # lease.holder
        => Expired(lease, lease'.renew) ]_vars

(* leaseTransitions counts the changes of holder, no more and no fewer:    *)
(* the README reads a failover off it.                                     *)
TransitionsCountTakeovers ==
    [][ lease.version # 0 /\ lease' # lease
        => lease'.transitions =
             IF lease'.holder = lease.holder
             THEN lease.transitions ELSE lease.transitions + 1 ]_vars

(* The README's claim: only the holder of the Lease reconciles.            *)
OnlyHolderReconciles ==
    \A r \in Replicas : Leading(r) => lease.holder = r

SomeReplicaStaysUp == \E r \in Replicas : <>[](pc[r] # "down")

(* Failover: once the faults, of which there are finitely many, have ended,*)
(* one of the replicas leads for good, if one stays up: somebody takes over*)
(* from a holder that never comes back, and two candidates do not keep     *)
(* taking the Lease from each other.                                       *)
LeadershipSettles == SomeReplicaStaysUp => \E r \in Replicas : <>[]Leading(r)
=============================================================================
