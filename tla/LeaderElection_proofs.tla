------------------------ MODULE LeaderElection_proofs ------------------------
(***************************************************************************)
(* Proofs about LeaderElection, for every set of replicas, every timing    *)
(* and every number of faults.                                             *)
(***************************************************************************)
EXTENDS LeaderElection, TLAPS

(* A Lease that create_lease or replace_lease builds is a Lease.           *)
LEMMA WrittenType ==
    ASSUME NEW l \in Leases, NEW r \in Replicas, NEW t \in Nat
    PROVE  Written(l, r, t) \in Leases
  BY DEF Leases, Written

(* The reachable states have the declared types.                           *)
THEOREM TypeCorrect == Spec => []TypeOK
<1>1. Init => TypeOK
  BY EnvironmentAssumption DEF Init, TypeOK, Leases, Absent, NoTime, Modes, Places
<1>2. TypeOK /\ [Next]_vars => TypeOK'
  <2> SUFFICES ASSUME TypeOK, [Next]_vars PROVE TypeOK'
    OBVIOUS
  <2> USE EnvironmentAssumption, ConfigAssumption DEF TypeOK, Modes, Places
  <2>1. ASSUME NEW r \in Replicas, Begin(r) PROVE TypeOK'
    BY <2>1 DEF Begin
  <2>2. ASSUME NEW r \in Replicas, Get(r) PROVE TypeOK'
    <3>1. Written(lease, r, now[r]) \in Leases
      BY WrittenType
    <3>2. req' \in [Replicas -> Leases] /\ pc' \in [Replicas -> Places]
      BY <2>2, <3>1 DEF Get
    <3>3. UNCHANGED <<clock, offset, lease, mode, due, now, stray, term, faults>>
      BY <2>2 DEF Get
    <3> QED
      BY <3>2, <3>3
  <2>3. ASSUME NEW r \in Replicas, Serve(r) PROVE TypeOK'
    BY <2>3 DEF Serve
  <2>4. ASSUME NEW r \in Replicas, Granted(r) PROVE TypeOK'
    BY <2>4 DEF Granted, Leases
  <2>5. ASSUME NEW r \in Replicas, Refused(r) PROVE TypeOK'
    BY <2>5 DEF Refused
  <2>6. ASSUME NEW r \in Replicas, CallFails(r) PROVE TypeOK'
    BY <2>6 DEF CallFails, Abandon, Fault
  <2>7. ASSUME NEW r \in Replicas, ControllersStop(r) PROVE TypeOK'
    BY <2>7 DEF ControllersStop, Abandon, Fault
  <2>8. ASSUME NEW r \in Replicas, Crash(r) PROVE TypeOK'
    BY <2>8 DEF Crash, Abandon, Fault
  <2>9. ASSUME NEW r \in Replicas, Restart(r) PROVE TypeOK'
    BY <2>9 DEF Restart
  <2>10. ASSUME NEW w \in stray, ServeStray(w) PROVE TypeOK'
    BY <2>10 DEF ServeStray
  <2>11. CASE Tick
    BY <2>11 DEF Tick
  <2>12. CASE UNCHANGED vars
    BY <2>12 DEF vars
  <2> QED
    BY <2>1, <2>2, <2>3, <2>4, <2>5, <2>6, <2>7, <2>8, <2>9, <2>10, <2>11, <2>12
    DEF Next
<1> QED
  BY <1>1, <1>2, PTL DEF Spec

-----------------------------------------------------------------------------
(* The compare-and-swap argument.  A replica claims the term it leads in,  *)
(* and the term of a granted write whose answer it has not read yet.       *)
Claims(r) ==
    (IF Leading(r) THEN {term[r]} ELSE {}) \cup
    (IF pc[r] = "granted" THEN {req[r].transitions} ELSE {})

(* A write the API server would accept was built from the stored Lease.    *)
Follows(w) ==
    /\ w.holder = lease.holder => w.transitions = lease.transitions
    /\ w.holder # lease.holder => w.transitions = lease.transitions + 1
    /\ w.holder # lease.holder /\ lease.holder # NoOne => Expired(lease, w.renew)

WriteOK(w) ==
    /\ w.holder \in Replicas
    /\ w.version <= lease.version + 1
    /\ Accepts(lease, w) /\ lease.version # 0 => Follows(w)

CasInv ==
    /\ \A r \in Replicas : pc[r] = "write" => WriteOK(req[r]) /\ req[r].holder = r
    /\ \A w \in stray : WriteOK(w)
    /\ \A r \in Replicas : \A t \in Claims(r) :
         /\ lease.version # 0
         /\ t < lease.transitions \/ (t = lease.transitions /\ lease.holder = r)
    /\ \A r, s \in Replicas : r # s => Claims(r) \cap Claims(s) = {}

(* The writes in flight after a step that sends no new one.                *)
NoNewWrite ==
    /\ \A r \in Replicas : pc'[r] = "write" => pc[r] = "write" /\ req'[r] = req[r]
    /\ \A w \in stray' :
         w \in stray \/ \E r \in Replicas : pc[r] = "write" /\ w = req[r]

(* While the Lease stays, claims may only be dropped.                      *)
LEMMA KeepLease ==
    ASSUME TypeOK, CasInv, NoNewWrite, lease' = lease,
           \A r \in Replicas : Claims(r)' \subseteq Claims(r)
    PROVE  CasInv'
<1>1. \A w : WriteOK(w)' <=> WriteOK(w)
  BY DEF WriteOK, Follows, Expired, Accepts
<1>2. ASSUME NEW r \in Replicas, pc'[r] = "write"
      PROVE  WriteOK(req[r])' /\ req'[r].holder = r
  <2>1. WriteOK(req[r]) /\ req[r].holder = r /\ req'[r] = req[r]
    BY <1>2 DEF CasInv, NoNewWrite
  <2>2. WriteOK(req[r])' <=> WriteOK(req[r])
    BY <2>1 DEF WriteOK, Follows, Expired, Accepts
  <2> QED
    BY <2>1, <2>2
<1>4. \A w \in stray' : WriteOK(w)'
  BY <1>1 DEF CasInv, NoNewWrite
<1>5. \A r \in Replicas : \A t \in Claims(r)' :
         /\ lease'.version # 0
         /\ t < lease'.transitions \/ (t = lease'.transitions /\ lease'.holder = r)
  BY DEF CasInv
<1>6. \A r, s \in Replicas : r # s => Claims(r)' \cap Claims(s)' = {}
  BY DEF CasInv
<1> QED
  BY <1>2, <1>4, <1>5, <1>6 DEF CasInv

(* An accepted write ends the reign of every other holder, and no write    *)
(* built from the overwritten Lease can be accepted after it.              *)
LEMMA StoreLease ==
    ASSUME TypeOK, CasInv, NoNewWrite,
           NEW w \in Leases, WriteOK(w), Accepts(lease, w), lease' = w,
           \A r \in Replicas : Claims(r)' \subseteq
              Claims(r) \cup (IF r = w.holder THEN {w.transitions} ELSE {})
    PROVE  CasInv'
<1> USE DEF TypeOK, Leases
<1>1. \A v \in Leases : WriteOK(v) => WriteOK(v)'
  BY DEF WriteOK, Accepts
<1>2. ASSUME NEW r \in Replicas, pc'[r] = "write"
      PROVE  WriteOK(req[r])' /\ req'[r].holder = r
  <2>1. req[r] \in Leases /\ WriteOK(req[r]) /\ req[r].holder = r /\ req'[r] = req[r]
    BY <1>2 DEF CasInv, NoNewWrite
  <2>2. WriteOK(req[r])'
    BY <2>1 DEF WriteOK, Accepts
  <2> QED
    BY <2>1, <2>2
<1>3. \A v \in stray' : WriteOK(v)'
  BY <1>1 DEF CasInv, NoNewWrite
<1>4. \A r \in Replicas : \A t \in Claims(r) :
         /\ lease.version # 0
         /\ t < lease.transitions \/ (t = lease.transitions /\ lease.holder = r)
  BY DEF CasInv
<1>5. lease.version # 0 =>
         \/ w.holder = lease.holder /\ w.transitions = lease.transitions
         \/ w.holder # lease.holder /\ w.transitions = lease.transitions + 1
  BY DEF WriteOK, Follows
<1>6. \A r \in Replicas : Claims(r) \subseteq Nat
  BY DEF Claims
<1>7. ASSUME NEW r \in Replicas, NEW t \in Claims(r)'
      PROVE  /\ lease'.version # 0
             /\ t < lease'.transitions \/ (t = lease'.transitions /\ lease'.holder = r)
  <2>1. w.version # 0
    BY DEF Accepts
  <2>2. CASE t \in Claims(r)
    BY <1>4, <1>5, <1>6, <2>1, <2>2
  <2>3. CASE r = w.holder /\ t = w.transitions
    BY <2>1, <2>3
  <2> QED
    BY <1>7, <2>2, <2>3
<1>8. ASSUME NEW r \in Replicas, NEW s \in Replicas, r # s
      PROVE  Claims(r)' \cap Claims(s)' = {}
  <2> SUFFICES ASSUME NEW t \in Claims(r)', t \in Claims(s)' PROVE FALSE
    OBVIOUS
  <2>1. CASE t \in Claims(r) /\ t \in Claims(s)
    BY <1>8, <2>1 DEF CasInv
  <2>2. CASE t \in Claims(r) /\ s = w.holder /\ t = w.transitions
    BY <1>4, <1>5, <1>6, <1>8, <2>2
  <2>3. CASE t \in Claims(s) /\ r = w.holder /\ t = w.transitions
    BY <1>4, <1>5, <1>6, <1>8, <2>3
  <2> QED
    BY <1>8, <2>1, <2>2, <2>3
<1> QED
  BY <1>2, <1>3, <1>7, <1>8 DEF CasInv

(* What Get sends is a write the API server may accept.                    *)
LEMMA GetSendsOK ==
    ASSUME TypeOK, NEW r \in Replicas,
           MayAcquire(lease, r, now[r]) \/ MayRenew(lease, r)
    PROVE  WriteOK(Written(lease, r, now[r])) /\ Written(lease, r, now[r]).holder = r
<1> DEFINE w == Written(lease, r, now[r])
<1>1. w.holder = r /\ w.version = lease.version + 1 /\ w.renew = now[r]
  BY DEF Written
<1>2. CASE lease.version = 0
  BY <1>1, <1>2 DEF WriteOK, TypeOK, Leases
<1>3. CASE lease.version # 0 /\ MayAcquire(lease, r, now[r])
  <2>1. w.transitions = lease.transitions + 1
    BY <1>3 DEF Written
  <2>2. lease.holder # r /\ (lease.holder # NoOne => Expired(lease, now[r]))
    BY <1>3, EnvironmentAssumption DEF MayAcquire
  <2> QED
    BY <1>1, <2>1, <2>2 DEF WriteOK, Follows, TypeOK, Leases
<1>4. CASE lease.version # 0 /\ ~MayAcquire(lease, r, now[r])
  <2>1. w.transitions = lease.transitions /\ lease.holder = r
    BY <1>4 DEF Written, MayRenew
  <2> QED
    BY <1>1, <2>1 DEF WriteOK, Follows, TypeOK, Leases
<1> QED
  BY <1>2, <1>3, <1>4

(* Every step preserves the invariant of the compare-and-swap.             *)
LEMMA CasStep == TypeOK /\ CasInv /\ [Next]_vars => CasInv'
<1> SUFFICES ASSUME TypeOK, CasInv, [Next]_vars PROVE CasInv'
  OBVIOUS
<1> USE DEF TypeOK
<1>1. ASSUME NEW r \in Replicas, Begin(r) PROVE CasInv'
  <2>1. NoNewWrite /\ lease' = lease /\ \A s \in Replicas : Claims(s)' \subseteq Claims(s)
    BY <1>1 DEF Begin, NoNewWrite, Claims, Leading
  <2> QED
    BY <2>1, KeepLease
<1>2. ASSUME NEW r \in Replicas, Get(r) PROVE CasInv'
  <2>1. CASE MayAcquire(lease, r, now[r]) \/ MayRenew(lease, r)
    <3> DEFINE w == Written(lease, r, now[r])
    <3>1. /\ pc' = [pc EXCEPT ![r] = "write"] /\ req' = [req EXCEPT ![r] = w]
          /\ pc[r] = "get" /\ lease' = lease /\ stray' = stray
          /\ term' = term /\ mode' = mode
      BY <1>2, <2>1 DEF Get
    <3>2. WriteOK(w) /\ w.holder = r
      BY <2>1, GetSendsOK
    <3> HIDE DEF w
    <3>3. \A v : WriteOK(v)' <=> WriteOK(v)
      BY <3>1 DEF WriteOK, Follows, Expired, Accepts
    <3>4. \A s \in Replicas : Claims(s)' \subseteq Claims(s)
      BY <3>1 DEF Claims, Leading
    <3>5. ASSUME NEW s \in Replicas, pc'[s] = "write"
          PROVE  WriteOK(req[s])' /\ req'[s].holder = s
      <4>1. CASE s = r
        BY <3>1, <3>2, <4>1 DEF WriteOK, Follows, Expired, Accepts
      <4>2. CASE s # r
        <5>1. req'[s] = req[s] /\ WriteOK(req[s]) /\ req[s].holder = s
          BY <3>1, <3>5, <4>2 DEF CasInv
        <5> QED
          BY <5>1, <3>1 DEF WriteOK, Follows, Expired, Accepts
      <4> QED
        BY <4>1, <4>2
    <3>6. \A v \in stray' : WriteOK(v)'
      BY <3>1, <3>3 DEF CasInv
    <3> QED
      BY <3>1, <3>4, <3>5, <3>6 DEF CasInv
  <2>2. CASE ~(MayAcquire(lease, r, now[r]) \/ MayRenew(lease, r))
    <3>1. NoNewWrite /\ lease' = lease /\ \A s \in Replicas : Claims(s)' \subseteq Claims(s)
      BY <1>2, <2>2 DEF Get, NoNewWrite, Claims, Leading
    <3> QED
      BY <3>1, KeepLease
  <2> QED
    BY <2>1, <2>2
<1>3. ASSUME NEW r \in Replicas, Serve(r) PROVE CasInv'
  <2>1. NoNewWrite
    BY <1>3 DEF Serve, NoNewWrite
  <2>2. CASE Accepts(lease, req[r])
    <3> DEFINE w == req[r]
    <3>1. w \in Leases /\ WriteOK(w) /\ w.holder = r
      BY <1>3 DEF Serve, CasInv
    <3>2. lease' = w /\ \A s \in Replicas : Claims(s)' \subseteq
             Claims(s) \cup (IF s = w.holder THEN {w.transitions} ELSE {})
      BY <1>3, <2>2, <3>1 DEF Serve, Claims, Leading
    <3> QED
      BY <2>1, <2>2, <3>1, <3>2, StoreLease
  <2>3. CASE ~Accepts(lease, req[r])
    <3>1. lease' = lease /\ \A s \in Replicas : Claims(s)' \subseteq Claims(s)
      BY <1>3, <2>3 DEF Serve, Claims, Leading
    <3> QED
      BY <2>1, <3>1, KeepLease
  <2> QED
    BY <2>2, <2>3
<1>4. ASSUME NEW r \in Replicas, Granted(r) PROVE CasInv'
  <2>1. NoNewWrite /\ lease' = lease /\ \A s \in Replicas : Claims(s)' \subseteq Claims(s)
    BY <1>4 DEF Granted, NoNewWrite, Claims, Leading
  <2> QED
    BY <2>1, KeepLease
<1>5. ASSUME NEW r \in Replicas, Refused(r) PROVE CasInv'
  <2>1. NoNewWrite /\ lease' = lease /\ \A s \in Replicas : Claims(s)' \subseteq Claims(s)
    BY <1>5 DEF Refused, NoNewWrite, Claims, Leading
  <2> QED
    BY <2>1, KeepLease
<1>6. ASSUME NEW r \in Replicas, CallFails(r) PROVE CasInv'
  <2>1. NoNewWrite /\ lease' = lease
    BY <1>6 DEF CallFails, Abandon, NoNewWrite
  <2>2. \A s \in Replicas : Claims(s)' \subseteq Claims(s)
    BY <1>6 DEF CallFails, Claims, Leading
  <2> QED
    BY <2>1, <2>2, KeepLease
<1>7. ASSUME NEW r \in Replicas, ControllersStop(r) PROVE CasInv'
  <2>1. NoNewWrite /\ lease' = lease /\ \A s \in Replicas : Claims(s)' \subseteq Claims(s)
    BY <1>7 DEF ControllersStop, Abandon, NoNewWrite, Claims, Leading
  <2> QED
    BY <2>1, KeepLease
<1>8. ASSUME NEW r \in Replicas, Crash(r) PROVE CasInv'
  <2>1. NoNewWrite /\ lease' = lease /\ \A s \in Replicas : Claims(s)' \subseteq Claims(s)
    BY <1>8 DEF Crash, Abandon, NoNewWrite, Claims, Leading
  <2> QED
    BY <2>1, KeepLease
<1>9. ASSUME NEW r \in Replicas, Restart(r) PROVE CasInv'
  <2>1. NoNewWrite /\ lease' = lease /\ \A s \in Replicas : Claims(s)' \subseteq Claims(s)
    BY <1>9 DEF Restart, NoNewWrite, Claims, Leading
  <2> QED
    BY <2>1, KeepLease
<1>10. ASSUME NEW w \in stray, ServeStray(w) PROVE CasInv'
  <2>1. NoNewWrite /\ w \in Leases /\ WriteOK(w)
    BY <1>10 DEF ServeStray, NoNewWrite, CasInv
  <2>2. \A s \in Replicas : Claims(s)' = Claims(s)
    BY <1>10 DEF ServeStray, Claims, Leading
  <2>3. CASE Accepts(lease, w)
    <3>1. lease' = w
      BY <1>10, <2>3 DEF ServeStray
    <3> QED
      BY <2>1, <2>2, <2>3, <3>1, StoreLease
  <2>4. CASE ~Accepts(lease, w)
    <3>1. lease' = lease
      BY <1>10, <2>4 DEF ServeStray
    <3> QED
      BY <2>1, <2>2, <3>1, KeepLease
  <2> QED
    BY <2>3, <2>4
<1>11. CASE Tick
  <2>1. NoNewWrite /\ lease' = lease /\ \A s \in Replicas : Claims(s)' \subseteq Claims(s)
    BY <1>11 DEF Tick, NoNewWrite, Claims, Leading
  <2> QED
    BY <2>1, KeepLease
<1>12. CASE UNCHANGED vars
  <2>1. NoNewWrite /\ lease' = lease /\ \A s \in Replicas : Claims(s)' \subseteq Claims(s)
    BY <1>12 DEF vars, NoNewWrite, Claims, Leading
  <2> QED
    BY <2>1, KeepLease
<1> QED
  BY <1>1, <1>2, <1>3, <1>4, <1>5, <1>6, <1>7, <1>8, <1>9, <1>10, <1>11, <1>12
  DEF Next

LEMMA CasInvariant == Spec => [](TypeOK /\ CasInv)
<1>1. Init => CasInv
  BY DEF Init, CasInv, Claims, Leading
<1> QED
  BY <1>1, CasStep, TypeCorrect, PTL DEF Spec

(* At most one replica runs the controllers in one reign of the Lease: for *)
(* any number of replicas and faults, any timing and any clock skew.       *)
THEOREM OneLeaderPerTermHolds == Spec => []OneLeaderPerTerm
<1>1. CasInv => OneLeaderPerTerm
  BY DEF CasInv, Claims, OneLeaderPerTerm
<1> QED
  BY <1>1, CasInvariant, PTL

(* A replica that runs the controllers is the holder, or is superseded.    *)
THEOREM LeaderHoldsOrSupersededHolds == Spec => []LeaderHoldsOrSuperseded
<1>1. TypeOK /\ CasInv => LeaderHoldsOrSuperseded
  BY DEF CasInv, Claims, LeaderHoldsOrSuperseded, TypeOK, Leases
<1> QED
  BY <1>1, CasInvariant, PTL

(* The Lease only ever changes by an accepted write that followed it.      *)
LEMMA LeaseStep ==
    TypeOK /\ CasInv /\ [Next]_vars =>
      lease' = lease \/ (lease.version # 0 => Follows(lease'))
<1> SUFFICES ASSUME TypeOK, CasInv, [Next]_vars
             PROVE  lease' = lease \/ (lease.version # 0 => Follows(lease'))
  OBVIOUS
<1> USE DEF TypeOK
<1>1. ASSUME NEW r \in Replicas, Serve(r), lease' # lease
      PROVE  lease.version # 0 => Follows(lease')
  <2>1. /\ pc[r] = "write" /\ Accepts(lease, req[r]) /\ lease' = req[r]
        /\ req[r] \in Leases
    BY <1>1 DEF Serve
  <2>2. WriteOK(req[r])
    BY <2>1 DEF CasInv
  <2> QED
    BY <2>1, <2>2 DEF WriteOK
<1>2. ASSUME NEW v \in stray, ServeStray(v), lease' # lease
      PROVE  lease.version # 0 => Follows(lease')
  <2>1. v \in Leases /\ Accepts(lease, v) /\ lease' = v /\ WriteOK(v)
    BY <1>2 DEF ServeStray, CasInv
  <2> QED
    BY <2>1 DEF WriteOK
<1>3. ASSUME NEW r \in Replicas,
             \/ Begin(r) \/ Get(r) \/ Granted(r) \/ Refused(r) \/ CallFails(r)
             \/ ControllersStop(r) \/ Crash(r) \/ Restart(r)
      PROVE  lease' = lease
  BY <1>3 DEF Begin, Get, Granted, Refused, CallFails, ControllersStop, Crash, Restart
<1>4. Tick \/ UNCHANGED vars => lease' = lease
  BY DEF Tick, vars
<1> QED
  BY <1>1, <1>2, <1>3, <1>4 DEF Next

(* A held Lease changes hands only when its holder had let it expire.      *)
THEOREM TakeoverOnlyAfterExpiryHolds == Spec => TakeoverOnlyAfterExpiry
<1>1. TypeOK /\ CasInv /\ [Next]_vars =>
        [ lease.version # 0 /\ lease.holder \in Replicas
            /\ lease'.holder # lease.holder
          => Expired(lease, lease'.renew) ]_vars
  <2> SUFFICES ASSUME TypeOK, CasInv, [Next]_vars, lease.version # 0,
                      lease.holder \in Replicas, lease'.holder # lease.holder
               PROVE  Expired(lease, lease'.renew)
    OBVIOUS
  <2>1. Follows(lease')
    BY LeaseStep
  <2> QED
    BY <2>1, EnvironmentAssumption DEF Follows
<1> QED
  BY <1>1, CasInvariant, PTL DEF Spec, TakeoverOnlyAfterExpiry

(* leaseTransitions counts exactly the changes of holder.                  *)
THEOREM TransitionsCountTakeoversHolds == Spec => TransitionsCountTakeovers
<1>1. TypeOK /\ CasInv /\ [Next]_vars =>
        [ lease.version # 0 /\ lease' # lease
          => lease'.transitions =
               IF lease'.holder = lease.holder
               THEN lease.transitions ELSE lease.transitions + 1 ]_vars
  <2> SUFFICES ASSUME TypeOK, CasInv, [Next]_vars, lease.version # 0, lease' # lease
               PROVE  lease'.transitions =
                        IF lease'.holder = lease.holder
                        THEN lease.transitions ELSE lease.transitions + 1
    OBVIOUS
  <2>1. Follows(lease')
    BY LeaseStep
  <2> QED
    BY <2>1 DEF Follows
<1> QED
  BY <1>1, CasInvariant, PTL DEF Spec, TransitionsCountTakeovers

-----------------------------------------------------------------------------
(* The timing argument.  A leader is gone before its Lease can be taken    *)
(* over when three calls, two sleeps, the skew and the truncation to       *)
(* seconds fit into the lease duration.                                    *)
Timely ==
    3 * CallTime + 2 * RetryPeriod + MaxSkew + TicksPerSecond
      <= LeaseDuration * TicksPerSecond

InCall(r) == pc[r] \in {"get", "write", "granted", "refused"}

(* How long after its last renewal a leader may still be in its phase.     *)
Reach(r) ==
    IF mode[r] = "renewing"
    THEN RetryPeriod + (IF InCall(r) THEN 2 ELSE 1) * CallTime
    ELSE 2 * RetryPeriod + (IF InCall(r) THEN 3 ELSE 2) * CallTime

Deadlines ==
    \A r \in Replicas :
      /\ pc[r] # "down" => clock <= due[r]
      /\ now[r] <= clock + offset[r]
      /\ InCall(r) => due[r] + offset[r] <= now[r] + CallTime
      /\ pc[r] = "write" => req[r].renew = now[r]

(* No write and no Lease is younger than its holder's last sample, and a   *)
(* holder's own late write does not set its Lease back.                    *)
Samples ==
    /\ lease.holder \in Replicas => lease.renew <= now[lease.holder]
    /\ \A w \in stray :
         /\ w.renew <= now[w.holder]
         /\ Accepts(lease, w) /\ lease.holder = w.holder => w.renew >= lease.renew

(* The Lease still names a leader, and every deadline of that leader comes *)
(* before the Lease can expire on any other clock.                         *)
Covered ==
    \A r \in Replicas :
      /\ pc[r] = "granted" => lease.holder = r /\ lease.renew = now[r]
      /\ Leading(r) => /\ lease.holder = r
                       /\ due[r] + offset[r] <= lease.renew + Reach(r)

TimeInv == Deadlines /\ Samples /\ Covered

(* Expiry in whole seconds, in ticks: truncation gives away one second.    *)
LEMMA ExpiredTicks ==
    ASSUME NEW l \in Leases, NEW t \in Nat, Expired(l, t)
    PROVE  t + TicksPerSecond > l.renew + LeaseDuration * TicksPerSecond
<1> DEFINE T == TicksPerSecond
           p == t \div T
           q == l.renew \div T
<1> USE ConfigAssumption
<1>1. l.renew \in Nat /\ p >= q + LeaseDuration
  BY DEF Expired, Leases, Seconds
<1>2. p \in Int /\ q \in Int /\ T \in Nat /\ T > 0
  BY <1>1
<1>3. t >= p * T /\ l.renew < q * T + T
  BY <1>1, <1>2
<1> HIDE DEF p, q, T
<1>4. p * T >= (q + LeaseDuration) * T
  BY <1>1, <1>2
<1>5. (q + LeaseDuration) * T = q * T + LeaseDuration * T
  BY <1>2
<1>6. t + T > l.renew + LeaseDuration * T
  BY <1>1, <1>2, <1>3, <1>4, <1>5
<1> QED
  BY <1>6 DEF T

(* No write of another replica is accepted while the holder still leads,   *)
(* or has been granted the Lease and does not know it yet.                 *)
LEMMA NoForeignWrite ==
    ASSUME TypeOK, CasInv, TimeInv, Timely,
           NEW w \in Leases, WriteOK(w), Accepts(lease, w), w.renew <= now[w.holder],
           NEW s \in Replicas, Leading(s) \/ pc[s] = "granted"
    PROVE  w.holder = s /\ lease.holder = s
<1> USE DEF TypeOK
<1>1. lease.holder = s /\ lease.version # 0
  BY DEF CasInv, Claims, TimeInv, Covered
<1>2. /\ w.holder \in Replicas /\ CallTime \in Nat /\ RetryPeriod \in Nat
      /\ MaxSkew \in Nat /\ TicksPerSecond \in Nat /\ LeaseDuration \in Nat
      /\ LeaseDuration * TicksPerSecond \in Nat
  BY ConfigAssumption, EnvironmentAssumption DEF WriteOK
<1>3. /\ clock \in Nat /\ now[s] \in Nat /\ now[w.holder] \in Nat /\ due[s] \in Nat
      /\ offset[s] \in Nat /\ offset[w.holder] \in Nat /\ offset[w.holder] <= MaxSkew
      /\ lease.renew \in Int /\ w.renew \in Int
  BY <1>2 DEF Leases, NoTime
<1>4. clock + offset[s] <= lease.renew + 3 * CallTime + 2 * RetryPeriod
  <2>1. CASE Leading(s)
    <3>1. pc[s] # "down" /\ due[s] + offset[s] <= lease.renew + Reach(s)
      BY <2>1 DEF TimeInv, Covered, Leading
    <3>2. clock <= due[s]
      BY <3>1 DEF TimeInv, Deadlines
    <3>3. Reach(s) <= 3 * CallTime + 2 * RetryPeriod /\ Reach(s) \in Nat
      BY <1>2 DEF Reach
    <3> QED
      BY <1>2, <1>3, <3>1, <3>2, <3>3
  <2>2. CASE pc[s] = "granted"
    <3>1. /\ lease.renew = now[s] /\ clock <= due[s]
          /\ due[s] + offset[s] <= now[s] + CallTime
      BY <2>2 DEF TimeInv, Covered, Deadlines, InCall
    <3> QED
      BY <1>2, <1>3, <3>1
  <2> QED
    BY <2>1, <2>2
<1>5. w.renew <= clock + MaxSkew
  <2>1. now[w.holder] <= clock + offset[w.holder]
    BY <1>2 DEF TimeInv, Deadlines
  <2> QED
    BY <2>1, <1>2, <1>3
<1>6. ASSUME w.holder # s PROVE FALSE
  <2>1. Expired(lease, w.renew)
    BY <1>1, <1>6, EnvironmentAssumption DEF WriteOK, Follows
  <2>2. lease.renew \in Nat
    BY <2>1 DEF Expired, Leases
  <2>3. CASE w.renew \in Nat
    <3>1. w.renew + TicksPerSecond > lease.renew + LeaseDuration * TicksPerSecond
      BY <2>1, <2>3, ExpiredTicks
    <3> QED
      BY <3>1, <1>2, <1>3, <1>4, <1>5 DEF Timely
  <2>4. CASE w.renew = NoTime
    <3>1. w.renew < 0
      BY <2>4 DEF NoTime
    <3>2. Seconds(w.renew) < 0 /\ Seconds(lease.renew) >= 0
      BY <3>1, <2>2, <2>4, ConfigAssumption DEF Seconds, NoTime
    <3> QED
      BY <2>1, <2>2, <2>4, <3>2, ConfigAssumption DEF Expired, Seconds, NoTime
  <2> QED
    BY <2>3, <2>4 DEF Leases
<1> QED
  BY <1>1, <1>6

(* A step that leaves the Lease, sends no new write and takes no sample.   *)
LEMMA SamplesKept ==
    ASSUME TypeOK, CasInv, TimeInv, NoNewWrite, lease' = lease, now' = now
    PROVE  Samples'
<1> USE DEF TypeOK
<1>1. lease'.holder \in Replicas => lease'.renew <= now'[lease'.holder]
  BY DEF TimeInv, Samples
<1>2. ASSUME NEW w \in stray'
      PROVE  /\ w.renew <= now'[w.holder]
             /\ Accepts(lease', w) /\ lease'.holder = w.holder => w.renew >= lease'.renew
  <2>1. CASE w \in stray
    BY <2>1 DEF TimeInv, Samples
  <2>2. CASE \E r \in Replicas : pc[r] = "write" /\ w = req[r]
    <3>1. PICK r \in Replicas : pc[r] = "write" /\ w = req[r]
      BY <2>2
    <3>2. w.holder = r /\ w.renew = now[r] /\ now[r] \in Nat
      BY <3>1 DEF CasInv, TimeInv, Deadlines
    <3> QED
      BY <3>2 DEF TimeInv, Samples
  <2> QED
    BY <1>2, <2>1, <2>2 DEF NoNewWrite
<1> QED
  BY <1>1, <1>2 DEF Samples, Accepts

(* Storing a write: its holder's samples are in order again.               *)
LEMMA SamplesStored ==
    ASSUME TypeOK, CasInv, TimeInv, NEW w \in Leases, Accepts(lease, w),
           w.renew <= now[w.holder], lease' = w, now' = now, stray' \subseteq stray
    PROVE  Samples'
<1> USE DEF TypeOK, Leases
<1>1. ASSUME NEW v \in stray'
      PROVE  v.renew <= now[v.holder] /\ ~Accepts(w, v)
  <2>1. v \in stray /\ v \in Leases
    BY <1>1
  <2> QED
    BY <2>1 DEF TimeInv, Samples, CasInv, WriteOK, Accepts
<1> QED
  BY <1>1 DEF Samples, Accepts

(* Every step preserves the timing invariant.                              *)
LEMMA TimeStep ==
    ASSUME Timely
    PROVE  TypeOK /\ CasInv /\ TimeInv /\ [Next]_vars => TimeInv'
<1> SUFFICES ASSUME TypeOK, CasInv, TimeInv, [Next]_vars PROVE TimeInv'
  OBVIOUS
<1> USE DEF TypeOK
<1>0. /\ CallTime \in Nat /\ RetryPeriod \in Nat /\ MaxSkew \in Nat
      /\ \A s \in Replicas : /\ offset[s] \in Nat /\ Reach(s) \in Nat
                             /\ Reach(s) <= 3 * CallTime + 2 * RetryPeriod
      /\ lease.renew \in Int
  BY ConfigAssumption, EnvironmentAssumption DEF Reach, Leases, NoTime
<1>1. ASSUME NEW r \in Replicas, Begin(r) PROVE TimeInv'
  <2>1. clock = due[r]
    BY <1>1 DEF Begin, TimeInv, Deadlines
  <2>2. Deadlines'
    BY <1>0, <1>1 DEF Begin, TimeInv, Deadlines, InCall
  <2>3. Samples'
    <3>1. now[r] <= now'[r] /\ \A s \in Replicas : s # r => now'[s] = now[s]
      BY <1>0, <1>1 DEF Begin, TimeInv, Deadlines
    <3>2. \A s \in Replicas : now[s] <= now'[s] /\ now'[s] \in Nat
      BY <1>0, <1>1, <3>1 DEF Begin
    <3>3. \A w \in stray : w.holder \in Replicas /\ w.renew \in Int
      BY DEF CasInv, WriteOK, Leases, NoTime
    <3> QED
      BY <1>0, <1>1, <3>2, <3>3 DEF Begin, TimeInv, Samples, Accepts
  <2>4. Covered'
    <3>1. \A s \in Replicas : s # r => Reach(s)' = Reach(s)
      BY <1>1 DEF Begin, Reach, InCall
    <3>2. Reach(r)' = Reach(r) + CallTime
      BY <1>0, <1>1 DEF Begin, Reach, InCall
    <3>3. due'[r] = due[r] + CallTime
      BY <1>1, <2>1 DEF Begin
    <3> QED
      BY <1>0, <1>1, <3>1, <3>2, <3>3 DEF Begin, TimeInv, Covered, Leading
  <2> QED
    BY <2>2, <2>3, <2>4 DEF TimeInv
<1>2. ASSUME NEW r \in Replicas, Get(r) PROVE TimeInv'
  <2> DEFINE w == Written(lease, r, now[r])
  <2>1. /\ pc[r] = "get"
        /\ pc'[r] = "refused" \/ (pc'[r] = "write" /\ req'[r] = w)
        /\ \A s \in Replicas : s # r => req'[s] = req[s] /\ pc'[s] = pc[s]
    BY <1>2 DEF Get
  <2>2. UNCHANGED <<clock, offset, lease, mode, due, now, stray, term>>
    BY <1>2 DEF Get
  <2>3. w.renew = now[r]
    BY DEF Written
  <2> HIDE DEF w
  <2>4. Deadlines'
    BY <2>1, <2>2, <2>3 DEF TimeInv, Deadlines, InCall
  <2>5. Samples'
    BY <2>2 DEF TimeInv, Samples, Accepts
  <2>6. Covered'
    BY <2>1, <2>2 DEF TimeInv, Covered, Leading, Reach, InCall
  <2> QED
    BY <2>4, <2>5, <2>6 DEF TimeInv
<1>3. ASSUME NEW r \in Replicas, Serve(r) PROVE TimeInv'
  <2>1. Deadlines'
    BY <1>3 DEF Serve, TimeInv, Deadlines, InCall
  <2>2. CASE Accepts(lease, req[r])
    <3> DEFINE w == req[r]
    <3>1. /\ w \in Leases /\ WriteOK(w) /\ w.holder = r /\ w.renew = now[r]
          /\ pc[r] = "write" /\ now[r] \in Nat
      BY <1>3 DEF Serve, CasInv, TimeInv, Deadlines
    <3>2. /\ lease' = w /\ pc' = [pc EXCEPT ![r] = "granted"]
          /\ UNCHANGED <<offset, mode, due, now, stray>>
      BY <1>3, <2>2 DEF Serve
    <3>3. Samples'
      BY <2>2, <3>1, <3>2, SamplesStored
    <3>4. \A s \in Replicas : Leading(s) \/ pc[s] = "granted" => s = r /\ lease.holder = r
      BY <2>2, <3>1, NoForeignWrite
    <3>5. lease.holder = r => lease.renew <= now[r]
      BY DEF TimeInv, Samples
    <3>6. \A s \in Replicas : Reach(s)' = Reach(s)
      BY <3>1, <3>2 DEF Reach, InCall
    <3> HIDE DEF w
    <3>7. \A s \in Replicas : Leading(s)' => Leading(s)
      BY <3>1, <3>2 DEF Leading
    <3>8. ASSUME NEW s \in Replicas, pc'[s] = "granted"
          PROVE  lease'.holder = s /\ lease'.renew = now'[s]
      BY <3>1, <3>2, <3>4, <3>8
    <3>9. ASSUME NEW s \in Replicas, Leading(s)'
          PROVE  lease'.holder = s /\ due'[s] + offset'[s] <= lease'.renew + Reach(s)'
      <4>1. s = r /\ lease.holder = r /\ due[r] + offset[r] <= lease.renew + Reach(r)
        BY <3>4, <3>7, <3>9 DEF TimeInv, Covered
      <4> QED
        BY <1>0, <4>1, <3>1, <3>2, <3>5, <3>6
    <3>10. Covered'
      BY <3>8, <3>9 DEF Covered
    <3> QED
      BY <2>1, <3>3, <3>10 DEF TimeInv
  <2>3. CASE ~Accepts(lease, req[r])
    <3>1. Samples'
      BY <1>3, <2>3 DEF Serve, TimeInv, Samples, Accepts
    <3>2. Covered'
      BY <1>3, <2>3 DEF Serve, TimeInv, Covered, Leading, Reach, InCall
    <3> QED
      BY <2>1, <3>1, <3>2 DEF TimeInv
  <2> QED
    BY <2>2, <2>3
<1>4. ASSUME NEW r \in Replicas, Granted(r) PROVE TimeInv'
  <2>1. Deadlines'
    BY <1>0, <1>4 DEF Granted, TimeInv, Deadlines, InCall
  <2>2. Samples'
    BY <1>4 DEF Granted, TimeInv, Samples, Accepts
  <2>3. Covered'
    <3>1. /\ lease.holder = r /\ lease.renew = now[r] /\ clock <= due[r]
          /\ due[r] + offset[r] <= now[r] + CallTime
      BY <1>4 DEF Granted, TimeInv, Covered, Deadlines, InCall
    <3>2. Reach(r)' = RetryPeriod + CallTime
      BY <1>0, <1>4 DEF Granted, Reach, InCall
    <3>3. \A s \in Replicas : s # r => Reach(s)' = Reach(s)
      BY <1>4 DEF Granted, Reach, InCall
    <3> QED
      BY <1>0, <1>4, <3>1, <3>2, <3>3 DEF Granted, TimeInv, Covered, Leading
  <2> QED
    BY <2>1, <2>2, <2>3 DEF TimeInv
<1>5. ASSUME NEW r \in Replicas, Refused(r) PROVE TimeInv'
  <2>1. Deadlines'
    BY <1>0, <1>5 DEF Refused, TimeInv, Deadlines, InCall
  <2>2. Samples'
    BY <1>5 DEF Refused, TimeInv, Samples, Accepts
  <2>3. Covered'
    BY <1>5 DEF Refused, TimeInv, Covered, Leading, Reach, InCall
  <2> QED
    BY <2>1, <2>2, <2>3 DEF TimeInv
<1>6. ASSUME NEW r \in Replicas, CallFails(r) PROVE TimeInv'
  <2>1. NoNewWrite /\ UNCHANGED <<clock, offset, lease, now, req>>
    BY <1>6 DEF CallFails, Abandon, NoNewWrite
  <2>2. Samples'
    BY <2>1, SamplesKept
  <2>3. Deadlines'
    BY <1>0, <1>6 DEF CallFails, TimeInv, Deadlines, InCall
  <2>4. CASE mode[r] = "renewing"
    <3>1. /\ pc' = [pc EXCEPT ![r] = "sleep"] /\ mode' = [mode EXCEPT ![r] = "retrying"]
          /\ due' = [due EXCEPT ![r] = clock + RetryPeriod]
          /\ InCall(r) /\ pc[r] # "down" /\ Leading(r)
      BY <1>6, <2>4 DEF CallFails, InCall, Leading
    <3>2. clock <= due[r] /\ due[r] + offset[r] <= lease.renew + Reach(r) /\ lease.holder = r
      BY <3>1 DEF TimeInv, Deadlines, Covered
    <3>3. Reach(r)' = Reach(r) + RetryPeriod
      BY <1>0, <2>4, <3>1 DEF Reach, InCall
    <3>4. \A s \in Replicas : s # r => Reach(s)' = Reach(s)
      BY <3>1 DEF Reach, InCall
    <3>5. due'[r] + offset'[r] <= lease'.renew + Reach(r)'
      BY <1>0, <2>1, <3>1, <3>2, <3>3
    <3> QED
      BY <2>1, <2>2, <2>3, <3>1, <3>2, <3>4, <3>5 DEF TimeInv, Covered, Leading
  <2>5. CASE mode[r] # "renewing"
    <3>1. Covered'
      BY <1>6, <2>1, <2>5 DEF CallFails, TimeInv, Covered, Leading, Reach, InCall
    <3> QED
      BY <2>2, <2>3, <3>1 DEF TimeInv
  <2> QED
    BY <2>4, <2>5
<1>7. ASSUME NEW r \in Replicas, ControllersStop(r) \/ Crash(r) \/ Restart(r)
      PROVE  TimeInv'
  <2>1. NoNewWrite /\ UNCHANGED <<clock, offset, lease, now, req>>
    BY <1>7 DEF ControllersStop, Crash, Restart, Abandon, NoNewWrite
  <2>2. Samples'
    BY <2>1, SamplesKept
  <2>3. Deadlines'
    BY <1>0, <1>7 DEF ControllersStop, Crash, Restart, TimeInv, Deadlines, InCall
  <2>4. Covered'
    BY <1>7, <2>1 DEF ControllersStop, Crash, Restart, TimeInv, Covered, Leading,
                      Reach, InCall
  <2> QED
    BY <2>2, <2>3, <2>4 DEF TimeInv
<1>8. ASSUME NEW w \in stray, ServeStray(w) PROVE TimeInv'
  <2>1. UNCHANGED <<clock, offset, pc, mode, due, now, req>> /\ stray' \subseteq stray
    BY <1>8 DEF ServeStray
  <2>2. Deadlines'
    BY <2>1 DEF TimeInv, Deadlines, InCall
  <2>3. w \in Leases /\ WriteOK(w) /\ w.renew <= now[w.holder] /\ w.renew \in Int
    BY DEF CasInv, TimeInv, Samples, Leases, NoTime
  <2>4. CASE Accepts(lease, w)
    <3>1. lease' = w
      BY <1>8, <2>4 DEF ServeStray
    <3>2. Samples'
      BY <2>1, <2>3, <2>4, <3>1, SamplesStored
    <3>3. \A s \in Replicas : Leading(s) \/ pc[s] = "granted"
             => w.holder = s /\ lease.holder = s
      BY <2>3, <2>4, NoForeignWrite
    <3>4. lease.holder = w.holder => w.renew >= lease.renew
      BY <2>4 DEF TimeInv, Samples
    <3>5. \A s \in Replicas : Reach(s)' = Reach(s)
      BY <2>1 DEF Reach, InCall
    <3>6. ASSUME NEW s \in Replicas, pc[s] = "granted"
          PROVE  lease'.holder = s /\ lease'.renew = now'[s]
      <4>1. w.holder = s /\ lease.holder = s /\ lease.renew = now[s]
        BY <3>3, <3>6 DEF TimeInv, Covered
      <4> QED
        BY <1>0, <4>1, <2>1, <2>3, <3>1, <3>4
    <3>7. ASSUME NEW s \in Replicas, Leading(s)
          PROVE  lease'.holder = s /\ due'[s] + offset'[s] <= lease'.renew + Reach(s)'
      <4>1. /\ w.holder = s /\ lease.holder = s
            /\ due[s] + offset[s] <= lease.renew + Reach(s)
        BY <3>3, <3>7 DEF TimeInv, Covered
      <4> QED
        BY <1>0, <4>1, <2>1, <2>3, <3>1, <3>4, <3>5
    <3>8. Covered'
      BY <2>1, <3>6, <3>7 DEF Covered, Leading
    <3> QED
      BY <2>2, <3>2, <3>8 DEF TimeInv
  <2>5. CASE ~Accepts(lease, w)
    <3>1. lease' = lease
      BY <1>8, <2>5 DEF ServeStray
    <3>2. Samples'
      BY <2>1, <3>1 DEF TimeInv, Samples, Accepts
    <3>3. Covered'
      BY <2>1, <3>1 DEF TimeInv, Covered, Leading, Reach, InCall
    <3> QED
      BY <2>2, <3>2, <3>3 DEF TimeInv
  <2> QED
    BY <2>4, <2>5
<1>9. CASE Tick
  <2>1. Deadlines'
    BY <1>0, <1>9 DEF Tick, TimeInv, Deadlines, InCall
  <2>2. Samples' /\ Covered'
    BY <1>9 DEF Tick, TimeInv, Samples, Accepts, Covered, Leading, Reach, InCall
  <2> QED
    BY <2>1, <2>2 DEF TimeInv
<1>10. CASE UNCHANGED vars
  BY <1>10 DEF vars, TimeInv, Deadlines, Samples, Accepts, Covered, Leading, Reach, InCall
<1> QED
  BY <1>1, <1>2, <1>3, <1>4, <1>5, <1>6, <1>7, <1>8, <1>9, <1>10 DEF Next

(* With calls and sleeps that fit into the lease duration, whoever runs    *)
(* the controllers is the holder of the Lease: no two replicas ever do so  *)
(* at the same time.                                                       *)
THEOREM OnlyHolderReconcilesHolds ==
    ASSUME Timely
    PROVE  Spec => []OnlyHolderReconciles
<1>1. Init => TimeInv
  BY EnvironmentAssumption DEF Init, TimeInv, Deadlines, Samples, Covered, Leading,
     InCall, NoTime
<1>2. TypeOK /\ CasInv /\ TimeInv /\ [Next]_vars => TimeInv'
  BY TimeStep
<1>3. TimeInv => OnlyHolderReconciles
  BY DEF TimeInv, Covered, OnlyHolderReconciles
<1> QED
  BY <1>1, <1>2, <1>3, CasInvariant, PTL DEF Spec
=============================================================================
