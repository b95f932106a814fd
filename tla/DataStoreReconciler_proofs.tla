--------------------- MODULE DataStoreReconciler_proofs ---------------------
(***************************************************************************)
(* For any images, passwords and bounds: children are guarded, the data    *)
(* keep their Secret, Ready means bootstrapped, and a deletion respects    *)
(* its policy.                                                             *)
(***************************************************************************)
EXTENDS DataStoreReconciler, SequenceTheorems, TLAPS

(* The object is of the newest incarnation, if it exists, and so is what   *)
(* the operator knows of it: a name is reused only after the cache has     *)
(* forgotten it and no reconcile works on it.                              *)
Known(s) == s # NoStore => lastUid >= 1 /\ s.uid = lastUid

StoreOK ==
    /\ Known(cr)
    /\ cr.deleting => cr.finalizer
    /\ cr.status.gen <= cr.gen

(* What is known of the object may be old, but never ahead of it.          *)
Follows(s) ==
    s # NoStore /\ cr # NoStore =>
      /\ s.gen <= cr.gen
      /\ s.gen = cr.gen => s.kind = cr.kind /\ s.policy = cr.policy
      /\ s.deleting => cr.deleting /\ s.gen = cr.gen
      /\ s.finalizer => cr.finalizer

CopiesOK ==
    /\ Known(cache) /\ Follows(cache)
    /\ Known(seen) /\ Follows(seen)
    /\ cr = NoStore /\ cache.finalizer => cache.deleting
    /\ pc # "idle" /\ cr # NoStore =>
         cache # NoStore /\ (seen.deleting => cache.deleting)

(* Where a reconcile may create children, the object has the finalizer.    *)
Building == {"profile", "create", "image", "config", "storage", "job", "pods"}
Deleting == {"delete", "orphan", "unguard"}

PlaceOK ==
    /\ pc = "idle" <=> seen = NoStore
    /\ pc \in Building \cup {"finalizer"} => seen.kind = "managed" /\ ~seen.deleting
    /\ pc \in Building => cr.finalizer
    /\ pc \in Deleting => seen.deleting
    /\ pc = "delete" => seen.policy = "Delete"
    /\ pc = "orphan" => seen.policy = "Retain"
    /\ pc \in {"create", "delete", "orphan"} => todo # <<>>

(* Of what a deletion has not handled yet, it is in todo that it is to be  *)
(* deleted; when it is through, and for as long as somebody remembers the  *)
(* object, nothing comes back.  The StatefulSet goes first: it could make  *)
(* the volume claim again.                                                 *)
Left == {todo[n] : n \in DOMAIN todo}

DeletionOK ==
    /\ pc = "delete" =>
         /\ \A k \in Named : Exists(k) => k \in Left
         /\ (\E j \in jobs : ~j.going) => "jobs" \in Left
         /\ claim = "bound" => "volume" \in Left
         /\ Exists("sts") => todo = DeletionOrder
    /\ pc = "orphan" => \A k \in Owned : k \in Left
    /\ pc = "unguard" => IF seen.policy = "Delete" THEN Condemned ELSE Owned = {}

ErasedOK ==
    \A s \in {cache, seen} :
      cr = NoStore /\ s.deleting /\ s.policy = "Delete" => Condemned

(* A deletion of Jobs or of the volume is under way, or the Secret is      *)
(* missing beside its volume, only once the operator and its cache have    *)
(* seen that the object is being deleted.                                  *)
GoingOK ==
    \/ claim = "going" \/ \E j \in jobs : j.going
    \/ database # Nothing /\ password # database
    => (cr # NoStore => cache.deleting /\ (pc # "idle" => seen.deleting))

SecretOK ==
    /\ password # Nothing => Exists("secret")
    /\ database # Nothing =>
         \/ password = database
         \/ password = Nothing /\ (BeingErased \/ claim = "going")

(* The Jobs are those of the newest incarnation, and what was observed of  *)
(* them is still so while the object is there: a reconcile that reads a    *)
(* Job has not seen a deletion, so nobody has asked to delete that Job.    *)
Succeeded(g) == \E j \in jobs : j.gen = g /\ j.owner = lastUid /\ j.outcome = "succeeded"

JobsOK ==
    /\ \A j \in jobs : j.owner = lastUid
    /\ obs.database =>
         /\ pc \in {"pods", "status"} /\ ~seen.deleting
         /\ cr # NoStore => Succeeded(seen.gen)

StoreInv ==
    /\ TypeOK /\ StoreOK /\ CopiesOK /\ PlaceOK /\ ChildrenAreGuarded
    /\ DeletionOK /\ ErasedOK /\ GoingOK /\ SecretOK /\ JobsOK /\ ReadyMeansBootstrapped

-----------------------------------------------------------------------------
(* The type invariant, in the parts that actions change together.          *)

StoreType == cr \in Stores /\ lastUid \in 0..MaxUid

CacheType == cache \in Stores /\ faults \in 0..MaxFaults

WorkType ==
    /\ seen \in Stores /\ image \in Images \cup {Nothing} /\ obs \in Observations
    /\ pc \in Places /\ todo \in Seq(Named \cup {"jobs", "job", "volume"})

ChildType ==
    /\ {profile, stsImage} \subseteq Images \cup {Nothing}
    /\ owner \in [Named -> {Missing, Orphan} \cup 1..MaxUid]
    /\ {password, database} \subseteq Passwords \cup {Nothing}
    /\ pod \in {"none", "starting", "ready"} /\ configOk \in BOOLEAN
    /\ claim \in {"none", "bound", "going"}
    /\ database # Nothing \/ pod # "none" => claim # "none"
    /\ jobs \subseteq Jobs

LEMMA TypeInParts == TypeOK <=> StoreType /\ CacheType /\ WorkType /\ ChildType
BY DEF TypeOK, StoreType, CacheType, WorkType, ChildType

LEMMA PartsMakeType == StoreType' /\ CacheType' /\ WorkType' /\ ChildType' => TypeOK'
BY DEF TypeOK, StoreType, CacheType, WorkType, ChildType

LEMMA OrdersOfChildren ==
    /\ <<>> \in Seq(Named \cup {"jobs", "job", "volume"})
    /\ CreationOrder \in Seq(Named \cup {"jobs", "job", "volume"})
    /\ DeletionOrder \in Seq(Named \cup {"jobs", "job", "volume"})
    /\ OrphanOrder \in Seq(Named \cup {"jobs", "job", "volume"})
BY DEF Named, CreationOrder, DeletionOrder, OrphanOrder

LEMMA NoStoreFields ==
    /\ NoStore \in Stores /\ NoStore.uid = 0 /\ NoStore.gen = 0
    /\ NoStore.finalizer = FALSE /\ NoStore.deleting = FALSE
    /\ NoStore.status = NoStatus /\ NoStatus \in Statuses
BY DataStoreAssumption DEF NoStore, Stores, NoStatus, Statuses, Phases

LEMMA Flagged ==
    ASSUME NEW s \in Stores, NEW b \in BOOLEAN, NEW t
    PROVE  /\ t = [s EXCEPT !.finalizer = b] =>
                /\ t \in Stores /\ t.finalizer = b /\ t.deleting = s.deleting
                /\ t.uid = s.uid /\ t.gen = s.gen /\ t.kind = s.kind
                /\ t.policy = s.policy /\ t.status = s.status
           /\ t = [s EXCEPT !.deleting = b] =>
                /\ t \in Stores /\ t.deleting = b /\ t.finalizer = s.finalizer
                /\ t.uid = s.uid /\ t.gen = s.gen /\ t.kind = s.kind
                /\ t.policy = s.policy /\ t.status = s.status
           /\ s.gen <= s.gen
BY DataStoreAssumption DEF Stores

LEMMA Bounds == MaxUid \in Nat /\ MaxGeneration \in Nat /\ MaxGeneration >= 1
BY DataStoreAssumption

(* What a reconcile leaves behind, and what one more handled child does.   *)
LEMMA Returned ==
    ASSUME Return
    PROVE  /\ WorkType' /\ pc' = "idle" /\ seen' = NoStore
           /\ ~obs'.database
BY NoStoreFields DEF Return, WorkType, NothingSeen, Observations, Places

LEMMA ChildHandled ==
    ASSUME WorkType, NEW next \in Places, NextChild(next), todo # <<>>,
           UNCHANGED <<seen, image, obs>>
    PROVE  /\ WorkType'
           /\ Head(todo) \in Left
           /\ pc' = next \/ (pc' = pc /\ todo' # <<>>)
           /\ \A x \in Left : x = Head(todo) \/ (pc' = pc /\ x \in Left')
<1> DEFINE S == Named \cup {"jobs", "job", "volume"}
<1>1. /\ todo \in Seq(S) /\ Len(todo) \in Nat /\ Len(todo) > 0
      /\ DOMAIN todo = 1..Len(todo) /\ todo' = Tail(todo)
  BY DEF WorkType, NextChild
<1> HIDE DEF S
<1>2. /\ todo' \in Seq(S) /\ Len(todo') = Len(todo) - 1
      /\ \A i \in DOMAIN todo : i = 1 \/ (i - 1 \in DOMAIN todo' /\ todo'[i - 1] = todo[i])
  <2>1. /\ Tail(todo) \in Seq(S) /\ Len(Tail(todo)) = Len(todo) - 1
        /\ \A i \in 1..Len(Tail(todo)) : Tail(todo)[i] = todo[i + 1]
    BY <1>1, HeadTailProperties, Zenon
  <2>2. todo' \in Seq(S) /\ Len(todo') = Len(todo) - 1 /\ DOMAIN todo' = 1..Len(todo')
    BY <1>1, <2>1
  <2>3. \A i \in 1..Len(todo') : todo'[i] = todo[i + 1]
    BY <1>1, <2>1
  <2>4. ASSUME NEW i \in DOMAIN todo, i # 1
        PROVE  i - 1 \in DOMAIN todo' /\ todo'[i - 1] = todo[i]
    <3>1. i \in 1..Len(todo) /\ (i - 1) + 1 = i
      BY <1>1
    <3>2. i - 1 \in 1..Len(todo')
      BY <1>1, <2>2, <2>4, <3>1
    <3>3. todo'[i - 1] = todo[(i - 1) + 1]
      BY <2>3, <3>2
    <3> QED
      BY <2>2, <3>1, <3>2, <3>3
  <2> QED
    BY <2>2, <2>4
<1>3. pc' = next \/ (pc' = pc /\ todo' # <<>>)
  <2>1. CASE Len(todo) = 1
    BY <2>1 DEF NextChild
  <2>2. CASE Len(todo) # 1
    <3>1. pc' = pc
      BY <2>2 DEF NextChild
    <3>2. Len(todo') # 0
      BY <1>1, <1>2, <2>2
    <3> QED
      BY <3>1, <3>2
  <2> QED
    BY <2>1, <2>2
<1>4. Len(todo) = 1 \/ pc' = pc
  BY DEF NextChild
<1>5. todo[1] = Head(todo) /\ \A i \in DOMAIN todo : i # 1 => Len(todo) # 1
  BY <1>1
<1>6. \A x \in Left : x = Head(todo) \/ (pc' = pc /\ x \in Left')
  BY <1>2, <1>4, <1>5 DEF Left
<1>7. WorkType' /\ Head(todo) \in Left
  BY <1>1, <1>2, <1>3 DEF WorkType, Left, S
<1> QED
  BY <1>3, <1>6, <1>7

(* An object is no NoStore once it has a uid.                              *)
LEMMA HasUid ==
    ASSUME StoreInv, cr # NoStore, lastUid' = lastUid, cr'.uid = cr.uid
    PROVE  cr' # NoStore /\ Known(cr)'
BY NoStoreFields DEF StoreInv, StoreOK, Known

-----------------------------------------------------------------------------
(* The operator goes on with a reconcile, reading what there is.           *)

LEMMA WorkGoesOn ==
    ASSUME StoreInv, pc # "idle", pc' \notin Deleting \cup {"idle"},
           UNCHANGED <<storeVars, owner, password, volumeVars, jobs, cache, seen,
                       faults>>,
           WorkType', ChildType', PlaceOK', JobsOK'
    PROVE  StoreInv'
<1>1. StoreType /\ CacheType
  BY TypeInParts DEF StoreInv
<1>2. TypeOK' /\ StoreOK' /\ CopiesOK' /\ ChildrenAreGuarded'
  BY <1>1, PartsMakeType
     DEF StoreInv, StoreType, CacheType, storeVars, StoreOK, Known, CopiesOK, Follows,
         ChildrenAreGuarded, Owned
<1>3. DeletionOK' /\ ErasedOK' /\ GoingOK' /\ SecretOK'
  BY DEF StoreInv, storeVars, volumeVars, DeletionOK, Deleting, ErasedOK, Condemned,
         GoingOK, SecretOK, Exists, BeingErased
<1>4. ReadyMeansBootstrapped'
  BY DEF StoreInv, storeVars, ReadyMeansBootstrapped, StoreIs
<1> QED
  BY <1>2, <1>3, <1>4 DEF StoreInv

LEMMA ReadingKeepsInv ==
    /\ StoreInv /\ ReadProfile => StoreInv'
    /\ StoreInv /\ ReadStorage => StoreInv'
    /\ StoreInv /\ ReadPods => StoreInv'
    /\ StoreInv /\ ReadExternalSecret => StoreInv'
<1> SUFFICES ASSUME StoreInv
             PROVE  /\ ReadProfile => StoreInv'
                    /\ ReadStorage => StoreInv'
                    /\ ReadPods => StoreInv'
                    /\ ReadExternalSecret => StoreInv'
  OBVIOUS
<1>1. WorkType /\ ChildType
  BY TypeInParts DEF StoreInv
<1>2. ASSUME NEW b \in BOOLEAN
      PROVE  /\ [obs EXCEPT !.storage = b] \in Observations
             /\ [obs EXCEPT !.failure = b] \in Observations
             /\ [obs EXCEPT !.failure = b].database = obs.database
  BY <1>1 DEF WorkType, Observations
<1>3. ASSUME ReadProfile PROVE StoreInv'
  <2>1. obs' \in Observations /\ obs'.database = obs.database
    <3>1. obs' = obs \/ obs' = [obs EXCEPT !.failure = TRUE]
      BY <1>3 DEF ReadProfile
    <3>2. /\ [obs EXCEPT !.failure = TRUE] \in Observations
          /\ [obs EXCEPT !.failure = TRUE].database = obs.database
      BY <1>2
    <3> QED
      BY <1>1, <3>1, <3>2 DEF WorkType
  <2>2. todo' \in Seq(Named \cup {"jobs", "job", "volume"})
    BY <1>1, <1>3, OrdersOfChildren DEF ReadProfile, WorkType
  <2>3. WorkType' /\ ChildType'
    BY <1>1, <1>3, <2>1, <2>2 DEF ReadProfile, WorkType, ChildType, childVars, Places
  <2>4. pc' \in {"create", "status"} /\ (pc' = "create" => todo' # <<>>)
    BY <1>3 DEF ReadProfile, CreationOrder
  <2>5. PlaceOK'
    BY <1>3, <2>4 DEF ReadProfile, StoreInv, PlaceOK, Building, Deleting, storeVars
  <2>6. JobsOK'
    BY <1>3, <2>1 DEF ReadProfile, StoreInv, JobsOK, Succeeded, storeVars, childVars
  <2> QED
    BY <1>3, <2>3, <2>4, <2>5, <2>6, WorkGoesOn
       DEF ReadProfile, childVars, volumeVars, Deleting
<1>4. ASSUME ReadStorage PROVE StoreInv'
  <2>1. (Exists("sts") /\ pod = "ready") \in BOOLEAN
    BY Zenon
  <2>2. WorkType' /\ ChildType' /\ obs'.database = obs.database
    BY <1>1, <1>2, <1>4, <2>1
       DEF ReadStorage, WorkType, ChildType, childVars, Places, Observations
  <2>3. PlaceOK' /\ JobsOK'
    BY <1>4, <2>2 DEF ReadStorage, StoreInv, PlaceOK, JobsOK, Succeeded, Building,
                      Deleting, storeVars, childVars
  <2> QED
    BY <1>4, <2>2, <2>3, WorkGoesOn DEF ReadStorage, childVars, volumeVars, Deleting
<1>5. ASSUME ReadPods PROVE StoreInv'
  <2>1. WorkType' /\ ChildType' /\ obs'.database = obs.database
    BY <1>1, <1>2, <1>5 DEF ReadPods, WorkType, ChildType, childVars, Places,
                            Observations
  <2>2. PlaceOK' /\ JobsOK'
    BY <1>5, <2>1 DEF ReadPods, StoreInv, PlaceOK, JobsOK, Succeeded, Building,
                      Deleting, storeVars, childVars
  <2> QED
    BY <1>5, <2>1, <2>2, WorkGoesOn DEF ReadPods, childVars, volumeVars, Deleting
<1>6. ASSUME ReadExternalSecret PROVE StoreInv'
  <2>1. WorkType' /\ ChildType' /\ obs'.database = obs.database
    BY <1>1, <1>2, <1>6
       DEF ReadExternalSecret, WorkType, ChildType, childVars, Places, Observations
  <2>2. PlaceOK' /\ JobsOK'
    BY <1>6, <2>1 DEF ReadExternalSecret, StoreInv, PlaceOK, JobsOK, Succeeded,
                      Building,
                      Deleting, storeVars, childVars
  <2> QED
    BY <1>6, <2>1, <2>2, WorkGoesOn
       DEF ReadExternalSecret, childVars, volumeVars, Deleting
<1> QED
  BY <1>3, <1>4, <1>5, <1>6

(* What get_job finds is the outcome of the Job of the generation at work. *)
LEMMA ReadJobKeepsInv == ASSUME StoreInv, ReadJob PROVE StoreInv'
<1> DEFINE failed == \E j \in OwnJob : j.outcome = "failed"
           done == \E j \in OwnJob : j.outcome = "succeeded"
<1>1. WorkType /\ ChildType
  BY TypeInParts DEF StoreInv
<1>2. failed \in BOOLEAN /\ done \in BOOLEAN
  BY Zenon
<1>3. obs' = [obs EXCEPT !.database = done, !.failure = failed]
  BY DEF ReadJob
<1>4. done => Succeeded(seen.gen)
  BY DEF StoreInv, JobsOK, OwnJob, Succeeded
<1> HIDE DEF failed, done
<1>5. obs' \in Observations /\ obs'.database = done
  BY <1>1, <1>2, <1>3 DEF WorkType, Observations
<1>6. pc' \in {"pods", "status"}
  BY DEF ReadJob
<1>7. WorkType' /\ ChildType' /\ PlaceOK'
  BY <1>1, <1>5, <1>6 DEF ReadJob, WorkType, ChildType, childVars, Places, StoreInv,
                          PlaceOK, Building, Deleting, storeVars
<1>8. JobsOK'
  BY <1>4, <1>5, <1>6 DEF ReadJob, StoreInv, PlaceOK, Building, JobsOK, Succeeded,
                          storeVars, childVars
<1> QED
  BY <1>6, <1>7, <1>8, WorkGoesOn DEF ReadJob, childVars, volumeVars, Deleting

LEMMA FixKeepsInv ==
    /\ StoreInv /\ FixImage => StoreInv'
    /\ StoreInv /\ FixConfig => StoreInv'
<1> SUFFICES ASSUME StoreInv PROVE (FixImage => StoreInv') /\ (FixConfig => StoreInv')
  OBVIOUS
<1>1. WorkType /\ ChildType
  BY TypeInParts DEF StoreInv
<1>2. ASSUME FixImage PROVE StoreInv'
  <2>1. WorkType' /\ ChildType'
    BY <1>1, <1>2 DEF FixImage, WorkType, ChildType, workVars, volumeVars, Places
  <2>2. PlaceOK' /\ JobsOK'
    BY <1>2 DEF FixImage, StoreInv, PlaceOK, JobsOK, Succeeded, Building, Deleting,
                storeVars, workVars
  <2> QED
    BY <1>2, <2>1, <2>2, WorkGoesOn DEF FixImage, workVars, Deleting
<1>3. ASSUME FixConfig PROVE StoreInv'
  <2>1. configOk' \in BOOLEAN
    BY <1>1, <1>3, Zenon DEF FixConfig, ChildType
  <2>2. WorkType' /\ ChildType'
    BY <1>1, <1>3, <2>1
       DEF FixConfig, WorkType, ChildType, workVars, volumeVars, Places
  <2>3. PlaceOK' /\ JobsOK'
    BY <1>3 DEF FixConfig, StoreInv, PlaceOK, JobsOK, Succeeded, Building, Deleting,
                storeVars, workVars
  <2> QED
    BY <1>3, <2>2, <2>3, WorkGoesOn DEF FixConfig, workVars, Deleting
<1> QED
  BY <1>2, <1>3

-----------------------------------------------------------------------------
(* The operator observes, begins a reconcile, and may give it up.          *)

LEMMA ObserveKeepsInv == ASSUME StoreInv, Observe PROVE StoreInv'
<1>1. StoreType /\ CacheType /\ WorkType /\ ChildType
  BY TypeInParts DEF StoreInv
<1>2. TypeOK'
  BY <1>1, PartsMakeType
     DEF Observe, StoreType, CacheType, WorkType, ChildType, storeVars, childVars,
         workVars
<1>3. StoreOK' /\ ChildrenAreGuarded' /\ PlaceOK'
  BY DEF StoreInv, Observe, storeVars, childVars, workVars, StoreOK, Known,
         ChildrenAreGuarded, Owned, PlaceOK, Building, Deleting
<1>4. CopiesOK'
  <2>1. Known(cr) /\ cr.gen <= cr.gen
    BY <1>1 DEF StoreInv, StoreOK, StoreType, Stores
  <2>2. Known(cache)' /\ Follows(cache)'
    BY <2>1 DEF Observe, Known, Follows, storeVars
  <2>3. Known(seen)' /\ Follows(seen)'
    BY DEF StoreInv, CopiesOK, Observe, Known, Follows, storeVars, workVars
  <2>4. cr' = NoStore /\ cache'.finalizer => cache'.deleting
    BY NoStoreFields DEF Observe, storeVars
  <2>5. pc' # "idle" /\ cr' # NoStore =>
          cache' # NoStore /\ (seen'.deleting => cache'.deleting)
    BY DEF StoreInv, CopiesOK, PlaceOK, Follows, Observe, storeVars, workVars
  <2> QED
    BY <2>2, <2>3, <2>4, <2>5 DEF CopiesOK
<1>5. DeletionOK'
  BY DEF StoreInv, Observe, storeVars, childVars, workVars, DeletionOK, Left, Condemned,
         Owned, Exists
<1>6. ErasedOK'
  BY NoStoreFields
     DEF StoreInv, Observe, storeVars, childVars, workVars, ErasedOK, Condemned, Exists
<1>7. GoingOK' /\ SecretOK'
  BY NoStoreFields
     DEF StoreInv, Observe, storeVars, childVars, workVars, GoingOK, CopiesOK, Follows,
         SecretOK, Exists, BeingErased
<1>8. JobsOK' /\ ReadyMeansBootstrapped'
  BY DEF StoreInv, Observe, storeVars, childVars, workVars, JobsOK, Succeeded,
         ReadyMeansBootstrapped, StoreIs
<1> QED
  BY <1>2, <1>3, <1>4, <1>5, <1>6, <1>7, <1>8 DEF StoreInv

(* Where a reconcile goes with what the cache holds.                       *)
LEMMA BranchFollowsStore ==
    ASSUME NEW s \in Stores, Branch(s) # "idle"
    PROVE  /\ Branch(s) \in {"status", "profile", "finalizer", "external", "delete",
                             "orphan"}
           /\ Branch(s) \in {"profile", "finalizer"} =>
                s.kind = "managed" /\ ~s.deleting
           /\ Branch(s) = "profile" => s.finalizer
           /\ Branch(s) \in {"delete", "orphan"} => s.deleting
           /\ Branch(s) = "delete" => s.policy = "Delete"
           /\ Branch(s) = "orphan" => s.policy = "Retain"
BY DEF Stores, Branch, DeletionPlan

LEMMA StartKeepsInv == ASSUME StoreInv, Start PROVE StoreInv'
<1>1. StoreType /\ CacheType /\ WorkType /\ ChildType
  BY TypeInParts DEF StoreInv
<1>2. /\ pc = "idle" /\ cache # NoStore /\ seen' = cache /\ pc' = Branch(cache)
      /\ Branch(cache) # "idle" /\ cache \in Stores /\ obs' = obs
      /\ UNCHANGED <<storeVars, profile, childVars, cache, image, faults>>
  BY <1>1 DEF Start, CacheType
<1>3. /\ pc' = "delete" => todo' = DeletionOrder
      /\ pc' = "orphan" => todo' = OrphanOrder
      /\ pc' \notin {"delete", "orphan"} => todo' = <<>>
  BY DEF Start
<1>4. pc' # "idle" /\ pc' \notin {"create", "pods", "unguard"}
  BY <1>2, BranchFollowsStore
<1>5. WorkType'
  <2>1. todo' \in Seq(Named \cup {"jobs", "job", "volume"})
    BY <1>3, OrdersOfChildren
  <2>2. pc' \in Places
    BY <1>2, BranchFollowsStore DEF Places
  <2> QED
    BY <1>1, <1>2, <2>1, <2>2 DEF WorkType
<1>6. TypeOK'
  BY <1>1, <1>2, <1>5, PartsMakeType DEF StoreType, CacheType, ChildType, storeVars,
                                         childVars
<1>7. CopiesOK' /\ StoreOK' /\ ChildrenAreGuarded'
  BY <1>2 DEF StoreInv, CopiesOK, Known, Follows, StoreOK, ChildrenAreGuarded, Owned,
              storeVars, childVars
<1>8. PlaceOK'
  <2>1. pc' = "profile" => cr'.finalizer
    BY <1>2, BranchFollowsStore DEF StoreInv, CopiesOK, Follows, storeVars
  <2>2. pc' \in {"delete", "orphan"} => todo' # <<>>
    BY <1>3 DEF DeletionOrder, OrphanOrder
  <2> QED
    BY <1>2, <2>1, <2>2, BranchFollowsStore DEF PlaceOK, Building, Deleting
<1>9. DeletionOK'
  <2>1. pc' = "delete" => Left' = Named \cup {"jobs", "volume"}
    BY <1>3 DEF Left, DeletionOrder, Named
  <2>2. pc' = "orphan" => Left' = Named
    BY <1>3 DEF Left, OrphanOrder, Named
  <2> QED
    BY <1>3, <1>4, <2>1, <2>2 DEF DeletionOK, Owned
<1>10. ErasedOK' /\ GoingOK' /\ SecretOK'
  BY <1>2 DEF StoreInv, ErasedOK, GoingOK, SecretOK, Condemned, Exists, BeingErased,
              storeVars,
              childVars
<1>11. JobsOK' /\ ReadyMeansBootstrapped'
  BY <1>2 DEF StoreInv, JobsOK, Succeeded, ReadyMeansBootstrapped, StoreIs, storeVars,
              childVars
<1> QED
  BY <1>6, <1>7, <1>8, <1>9, <1>10, <1>11 DEF StoreInv

(* The reconcile ends with its locals, and the cluster is as it was.       *)
LEMMA ReturnKeepsInv ==
    ASSUME StoreInv, Return, UNCHANGED <<storeVars, profile, childVars, cache>>,
           faults' \in 0..MaxFaults
    PROVE  StoreInv'
<1>1. StoreType /\ CacheType /\ ChildType
  BY TypeInParts DEF StoreInv
<1>2. WorkType' /\ pc' = "idle" /\ seen' = NoStore /\ ~obs'.database
  BY Returned
<1>3. TypeOK'
  BY <1>1, <1>2, PartsMakeType DEF StoreType, CacheType, ChildType, storeVars, childVars
<1>4. StoreOK' /\ CopiesOK' /\ PlaceOK' /\ ChildrenAreGuarded' /\ DeletionOK'
  BY <1>2 DEF StoreInv, StoreOK, CopiesOK, Known, Follows, PlaceOK, Building, Deleting,
              ChildrenAreGuarded, Owned, DeletionOK, storeVars, childVars
<1>5. ErasedOK' /\ GoingOK' /\ SecretOK' /\ JobsOK' /\ ReadyMeansBootstrapped'
  BY <1>2, NoStoreFields
     DEF StoreInv, ErasedOK, Condemned, GoingOK, SecretOK, Exists, BeingErased, JobsOK,
         Succeeded,
         ReadyMeansBootstrapped, StoreIs, storeVars, childVars
<1> QED
  BY <1>3, <1>4, <1>5 DEF StoreInv

LEMMA AbortKeepsInv == ASSUME StoreInv, Abort PROVE StoreInv'
<1>1. faults' \in 0..MaxFaults
  BY DataStoreAssumption, TypeInParts DEF StoreInv, CacheType, Abort, Fault
<1> QED
  BY <1>1, ReturnKeepsInv DEF Abort

-----------------------------------------------------------------------------
(* The object changes and stays.                                           *)

(* What an object that stays keeps, whoever changes it.                    *)
LEMMA ObjectStays ==
    ASSUME StoreInv, cr # NoStore, lastUid' = lastUid,
           cr' \in Stores, cr'.uid = cr.uid, cr.gen <= cr'.gen,
           cr.finalizer => cr'.finalizer, cr.deleting => cr'.deleting,
           UNCHANGED <<owner, cache, faults, password, database, jobs>>
    PROVE  /\ StoreType' /\ CacheType' /\ cr' # NoStore /\ Known(cr)'
           /\ ChildrenAreGuarded' /\ Known(cache)'
<1>1. StoreType /\ CacheType /\ cr' # NoStore /\ Known(cr)'
  BY HasUid, TypeInParts DEF StoreInv
<1> QED
  BY <1>1 DEF StoreInv, StoreType, CacheType, ChildrenAreGuarded, Owned, CopiesOK, Known

LEMMA AddFinalizerKeepsInv == ASSUME StoreInv, AddFinalizer PROVE StoreInv'
<1>1. StoreType /\ CacheType /\ WorkType /\ ChildType
  BY TypeInParts DEF StoreInv
<1>2. CASE cr = NoStore \/ cr.deleting
  BY <1>1, <1>2, ReturnKeepsInv DEF AddFinalizer, CacheType, storeVars
<1>3. CASE cr # NoStore /\ ~cr.deleting
  <2>1. /\ cr' = [cr EXCEPT !.finalizer = TRUE] /\ pc = "finalizer" /\ pc' = "profile"
        /\ UNCHANGED <<lastUid, profile, childVars, cache, workVars, faults>>
    BY <1>3 DEF AddFinalizer
  <2>2. /\ cr' \in Stores /\ cr'.finalizer = TRUE /\ cr'.uid = cr.uid /\ cr'.gen = cr.gen
        /\ cr'.kind = cr.kind /\ cr'.policy = cr.policy /\ cr'.deleting = cr.deleting
        /\ cr'.status = cr.status /\ cr.gen <= cr.gen
    BY <1>1, <2>1, Flagged DEF StoreType
  <2>3. /\ StoreType' /\ CacheType' /\ cr' # NoStore /\ Known(cr)'
        /\ ChildrenAreGuarded' /\ Known(cache)'
    BY <1>3, <2>1, <2>2, ObjectStays DEF childVars
  <2>4. WorkType' /\ ChildType'
    BY <1>1, <2>1 DEF WorkType, ChildType, workVars, childVars, Places
  <2>5. StoreOK' /\ CopiesOK'
    BY <1>3, <2>1, <2>2, <2>3
       DEF StoreInv, StoreOK, CopiesOK, Known, Follows, workVars
  <2>6. PlaceOK'
    BY <2>1, <2>2 DEF StoreInv, PlaceOK, Building, Deleting, workVars
  <2>7. DeletionOK' /\ ErasedOK'
    BY <2>1, <2>3 DEF DeletionOK, ErasedOK
  <2>8. GoingOK' /\ SecretOK'
    BY <1>3, <2>1, <2>2 DEF StoreInv, GoingOK, SecretOK, Exists, BeingErased, workVars,
                            childVars
  <2>9. JobsOK' /\ ReadyMeansBootstrapped'
    BY <1>3, <2>1, <2>2 DEF StoreInv, JobsOK, Succeeded, ReadyMeansBootstrapped,
                            StoreIs,
                            workVars, childVars
  <2> QED
    BY <2>3, <2>4, <2>5, <2>6, <2>7, <2>8, <2>9, PartsMakeType DEF StoreInv
<1> QED
  BY <1>2, <1>3

(* patch_status: Ready is planned of a Job of this generation that has     *)
(* succeeded, or of an external store.                                     *)
LEMMA PlannedIsReady ==
    ASSUME WorkType
    PROVE  /\ Planned \in Statuses /\ Planned.gen = seen.gen
           /\ Planned.phase = "Ready" /\ seen.kind = "managed" => obs.database
<1>1. (seen.kind # "invalid") \in BOOLEAN /\ seen.gen \in 0..MaxGeneration
  BY DEF WorkType, Stores
<1>2. seen.kind \in {"managed", "external", "invalid"} /\ PlannedPhase \in Phases
  BY DEF WorkType, Stores, PlannedPhase, Phases
<1>3. PlannedPhase = "Ready" /\ seen.kind = "managed" => obs.database
  BY DEF PlannedPhase
<1> QED
  BY <1>1, <1>2, <1>3 DEF Planned, Statuses

LEMMA MergedStatus ==
    ASSUME NEW old \in Statuses, NEW plan \in Statuses
    PROVE  /\ Merged(old, plan) \in Statuses
           /\ Merged(old, plan).phase = plan.phase /\ Merged(old, plan).gen = plan.gen
<1>1. (old.refs \/ plan.refs) \in BOOLEAN
  BY Zenon
<1> QED
  BY <1>1 DEF Merged, Statuses

LEMMA PatchStatusKeepsInv == ASSUME StoreInv, PatchStatus PROVE StoreInv'
<1>1. StoreType /\ CacheType /\ WorkType /\ ChildType
  BY TypeInParts DEF StoreInv
<1>2. CASE cr' = cr
  BY <1>1, <1>2, ReturnKeepsInv DEF PatchStatus, CacheType, storeVars
<1>3. CASE cr' # cr
  <2> DEFINE new == Merged(cr.status, Planned)
  <2>1. /\ cr # NoStore /\ cr' = [cr EXCEPT !.status = new] /\ pc = "status"
        /\ UNCHANGED <<lastUid, profile, childVars, cache, faults>>
    BY <1>3 DEF PatchStatus
  <2>2. /\ new \in Statuses /\ new.gen = seen.gen
        /\ new.phase = "Ready" /\ seen.kind = "managed" => obs.database
    <3>1. cr.status \in Statuses
      BY <1>1 DEF StoreType, Stores
    <3> QED
      BY <1>1, <3>1, PlannedIsReady, MergedStatus
  <2> HIDE DEF new
  <2>3. /\ cr' \in Stores /\ cr'.status = new /\ cr'.uid = cr.uid /\ cr'.gen = cr.gen
        /\ cr'.kind = cr.kind /\ cr'.policy = cr.policy /\ cr'.deleting = cr.deleting
        /\ cr'.finalizer = cr.finalizer /\ cr.gen <= cr.gen
    BY <1>1, <2>1, <2>2 DEF StoreType, Stores
  <2>4. /\ StoreType' /\ CacheType' /\ cr' # NoStore /\ Known(cr)'
        /\ ChildrenAreGuarded' /\ Known(cache)'
    BY <2>1, <2>3, ObjectStays DEF childVars
  <2>5. WorkType' /\ pc' = "idle" /\ seen' = NoStore /\ ~obs'.database
    BY Returned DEF PatchStatus
  <2>6. ChildType'
    BY <1>1, <2>1 DEF ChildType, childVars
  <2>7. seen # NoStore
    BY <2>1 DEF StoreInv, PlaceOK
  <2>8. StoreOK' /\ CopiesOK' /\ PlaceOK'
    BY <2>1, <2>2, <2>3, <2>4, <2>5, <2>7
       DEF StoreInv, StoreOK, CopiesOK, Known, Follows, PlaceOK, Building, Deleting
  <2>9. DeletionOK' /\ ErasedOK' /\ JobsOK'
    BY <2>1, <2>4, <2>5
       DEF StoreInv, DeletionOK, Deleting, ErasedOK, JobsOK, Succeeded, childVars
  <2>10. GoingOK' /\ SecretOK'
    BY <2>1, <2>3, <2>4, <2>5 DEF StoreInv, GoingOK, SecretOK, Exists, BeingErased,
                                  childVars
  <2>11. ReadyMeansBootstrapped'
    <3>1. SUFFICES ASSUME cr.kind = "managed", new.phase = "Ready", seen.gen = cr.gen
                   PROVE  Succeeded(cr.gen) /\ cr.uid = lastUid
      BY <2>1, <2>2, <2>3 DEF ReadyMeansBootstrapped, StoreIs, Succeeded, childVars
    <3>2. seen.kind = "managed"
      BY <2>1, <2>7, <3>1 DEF StoreInv, CopiesOK, Follows
    <3> QED
      BY <2>1, <2>2, <3>1, <3>2 DEF StoreInv, JobsOK, StoreOK, Known
  <2> QED
    BY <2>4, <2>5, <2>6, <2>8, <2>9, <2>10, <2>11, PartsMakeType DEF StoreInv
<1> QED
  BY <1>2, <1>3

-----------------------------------------------------------------------------
(* Users.                                                                  *)

LEMMA EditStoreKeepsInv == ASSUME StoreInv, EditStore PROVE StoreInv'
<1>1. StoreType /\ CacheType /\ WorkType /\ ChildType
  BY TypeInParts DEF StoreInv
<1>2. PICK k \in Kinds, p \in Policies :
        cr' = [cr EXCEPT !.gen = cr.gen + 1, !.kind = k, !.policy = p]
  BY DEF EditStore
<1>3. /\ cr # NoStore /\ ~cr.deleting /\ cr.gen < MaxGeneration
      /\ UNCHANGED <<lastUid, profile, childVars, cache, pc, workVars, faults>>
  BY DEF EditStore
<1>4. /\ cr' \in Stores /\ cr'.uid = cr.uid /\ cr'.gen = cr.gen + 1
      /\ cr'.deleting = cr.deleting /\ cr'.finalizer = cr.finalizer
      /\ cr'.status = cr.status
  <2>1. cr.gen \in 0..MaxGeneration /\ cr.gen + 1 \in 0..MaxGeneration
    BY <1>1, <1>3, Bounds DEF StoreType, Stores
  <2> QED
    BY <1>1, <1>2, <2>1, DataStoreAssumption DEF StoreType, Stores
<1>5. cr.gen \in Nat /\ cr.status.gen \in Nat /\ seen.gen \in Nat /\ cache.gen \in Nat
  BY <1>1 DEF StoreType, CacheType, WorkType, Stores, Statuses
<1>6. /\ StoreType' /\ CacheType' /\ cr' # NoStore /\ Known(cr)'
      /\ ChildrenAreGuarded' /\ Known(cache)'
  BY <1>3, <1>4, <1>5, ObjectStays DEF childVars
<1>7. TypeOK'
  BY <1>1, <1>3, <1>6, PartsMakeType DEF WorkType, ChildType, workVars, childVars
<1>8. StoreOK' /\ CopiesOK'
  BY <1>3, <1>4, <1>5, <1>6
     DEF StoreInv, StoreOK, CopiesOK, Known, Follows, workVars
<1>9. PlaceOK' /\ DeletionOK' /\ ErasedOK'
  BY <1>3, <1>4, <1>6
     DEF StoreInv, PlaceOK, Building, Deleting, DeletionOK, Left, Condemned, Owned,
         Exists,
         ErasedOK, workVars, childVars
<1>10. GoingOK' /\ SecretOK' /\ JobsOK'
  BY <1>3, <1>4, <1>6 DEF StoreInv, GoingOK, SecretOK, Exists, BeingErased, JobsOK,
                          Succeeded,
                          workVars, childVars
<1>11. ReadyMeansBootstrapped'
  BY <1>4, <1>5 DEF StoreInv, StoreOK, ReadyMeansBootstrapped
<1> QED
  BY <1>7, <1>8, <1>9, <1>10, <1>11, <1>6 DEF StoreInv

(* An object that has no finalizer goes at once, and has no children.      *)
LEMMA DeleteStoreKeepsInv == ASSUME StoreInv, DeleteStore PROVE StoreInv'
<1>1. StoreType /\ CacheType /\ WorkType /\ ChildType
  BY TypeInParts DEF StoreInv
<1>2. /\ cr # NoStore /\ ~cr.deleting
      /\ UNCHANGED <<lastUid, profile, childVars, cache, pc, workVars, faults>>
  BY DEF DeleteStore
<1>3. CASE cr.finalizer
  <2>1. cr' = [cr EXCEPT !.deleting = TRUE]
    BY <1>3 DEF DeleteStore
  <2>2. /\ cr' \in Stores /\ cr'.deleting = TRUE /\ cr'.uid = cr.uid /\ cr'.gen = cr.gen
        /\ cr'.kind = cr.kind /\ cr'.policy = cr.policy
        /\ cr'.finalizer = cr.finalizer /\ cr'.status = cr.status /\ cr.gen <= cr.gen
    BY <1>1, <2>1, Flagged DEF StoreType
  <2>3. /\ StoreType' /\ CacheType' /\ cr' # NoStore /\ Known(cr)'
        /\ ChildrenAreGuarded' /\ Known(cache)'
    BY <1>2, <2>2, ObjectStays DEF childVars
  <2>4. TypeOK'
    BY <1>1, <1>2, <2>3, PartsMakeType DEF WorkType, ChildType, workVars, childVars
  <2>5. StoreOK' /\ CopiesOK'
    BY <1>2, <1>3, <2>2, <2>3
       DEF StoreInv, StoreOK, CopiesOK, Known, Follows, workVars
  <2>6. PlaceOK' /\ DeletionOK' /\ ErasedOK'
    BY <1>2, <2>2, <2>3
       DEF StoreInv, PlaceOK, Building, Deleting, DeletionOK, Left, Condemned, Owned,
           Exists, ErasedOK, workVars, childVars
  <2>7. GoingOK' /\ SecretOK' /\ JobsOK' /\ ReadyMeansBootstrapped'
    BY <1>2, <2>2, <2>3
       DEF StoreInv, GoingOK, SecretOK, Exists, BeingErased, JobsOK, Succeeded,
           ReadyMeansBootstrapped, StoreIs, workVars, childVars
  <2> QED
    BY <2>3, <2>4, <2>5, <2>6, <2>7 DEF StoreInv
<1>4. CASE ~cr.finalizer
  <2>1. cr' = NoStore /\ ~cache.finalizer
    BY <1>2, <1>4, NoStoreFields DEF DeleteStore, StoreInv, CopiesOK, Follows
  <2>2. ~cache.deleting /\ ~seen.deleting
    BY <1>2, NoStoreFields DEF StoreInv, CopiesOK, Follows
  <2>3. pc \notin Building
    BY <1>4 DEF StoreInv, PlaceOK
  <2>4. TypeOK'
    BY <1>1, <1>2, <2>1, NoStoreFields, PartsMakeType
       DEF StoreType, CacheType, WorkType, ChildType, workVars, childVars
  <2>5. StoreOK' /\ CopiesOK'
    BY <1>2, <2>1, <2>2, NoStoreFields
       DEF StoreInv, StoreOK, CopiesOK, Known, Follows, workVars, NoStatus
  <2>6. PlaceOK' /\ DeletionOK' /\ ErasedOK'
    BY <1>2, <2>1, <2>2, <2>3
       DEF StoreInv, PlaceOK, Building, Deleting, DeletionOK, ErasedOK, workVars
  <2>7. ChildrenAreGuarded'
    BY <1>2, <1>4 DEF StoreInv, ChildrenAreGuarded, Owned, childVars
  <2>8. GoingOK' /\ SecretOK' /\ JobsOK' /\ ReadyMeansBootstrapped'
    BY <1>2, <2>1
       DEF StoreInv, GoingOK, SecretOK, Exists, BeingErased, JobsOK, Succeeded,
           ReadyMeansBootstrapped, StoreIs, workVars, childVars
  <2> QED
    BY <2>4, <2>5, <2>6, <2>7, <2>8 DEF StoreInv
<1> QED
  BY <1>3, <1>4

(* A name is reused when nobody knows its last object any more.            *)
LEMMA CreateStoreKeepsInv == ASSUME StoreInv, CreateStore PROVE StoreInv'
<1>1. StoreType /\ CacheType /\ WorkType /\ ChildType
  BY TypeInParts DEF StoreInv
<1>2. PICK k \in Kinds, p \in Policies :
        cr' = [NoStore EXCEPT !.uid = lastUid + 1, !.gen = 1, !.kind = k, !.policy = p]
  BY DEF CreateStore
<1>3. /\ cr = NoStore /\ lastUid < MaxUid /\ lastUid' = lastUid + 1
      /\ pc = "idle" /\ cache = NoStore /\ seen = NoStore /\ jobs = {} /\ Owned = {}
      /\ claim # "going"
      /\ UNCHANGED <<profile, childVars, cache, pc, workVars, faults>>
  BY DEF CreateStore, NothingLeft, StoreInv, PlaceOK, Owned
<1>4. lastUid \in Nat /\ lastUid + 1 \in 0..MaxUid /\ 1 \in 0..MaxGeneration
  BY <1>1, <1>3, Bounds DEF StoreType
<1>5. /\ cr' \in Stores /\ cr'.uid = lastUid + 1 /\ cr'.gen = 1 /\ cr'.status = NoStatus
      /\ cr'.deleting = FALSE
  BY <1>2, <1>4, NoStoreFields, DataStoreAssumption DEF NoStore, Stores
<1>6. TypeOK'
  BY <1>1, <1>3, <1>4, <1>5, PartsMakeType
     DEF StoreType, CacheType, WorkType, ChildType, workVars, childVars
<1>7. StoreOK' /\ CopiesOK' /\ cr' # NoStore
  BY <1>3, <1>4, <1>5, NoStoreFields
     DEF StoreOK, CopiesOK, Known, Follows, NoStatus, workVars
<1>8. PlaceOK' /\ DeletionOK' /\ ErasedOK'
  BY <1>3, <1>7 DEF StoreInv, PlaceOK, Building, Deleting, DeletionOK, ErasedOK,
                    workVars
<1>9. ChildrenAreGuarded'
  BY <1>3 DEF ChildrenAreGuarded, Owned, childVars
<1>10. GoingOK' /\ SecretOK'
  BY <1>3, NoStoreFields DEF StoreInv, GoingOK, SecretOK, Exists, BeingErased,
                             workVars, childVars
<1>11. JobsOK'
  BY <1>3 DEF StoreInv, JobsOK, workVars, childVars
<1>12. ReadyMeansBootstrapped'
  BY <1>5 DEF ReadyMeansBootstrapped, NoStatus
<1> QED
  BY <1>6, <1>7, <1>8, <1>9, <1>10, <1>11, <1>12 DEF StoreInv

(* What the invariant does not speak of: the profile, the contents of the  *)
(* ConfigMap, the pod.                                                     *)
LEMMA DisturbanceKeepsInv ==
    /\ StoreInv /\ SetProfile => StoreInv'
    /\ StoreInv /\ TamperConfig => StoreInv'
    /\ StoreInv /\ PodDown => StoreInv'
    /\ StoreInv /\ PodEnds => StoreInv'
<1> SUFFICES ASSUME StoreInv, SetProfile \/ TamperConfig \/ PodDown \/ PodEnds
             PROVE  StoreInv'
  OBVIOUS
<1>1. StoreType /\ CacheType /\ WorkType /\ ChildType
  BY TypeInParts DEF StoreInv
<1>2. /\ UNCHANGED <<storeVars, owner, password, claim, database, jobs, cache, pc,
                     workVars>>
      /\ faults' \in 0..MaxFaults
  BY <1>1, DataStoreAssumption
     DEF SetProfile, TamperConfig, PodDown, PodEnds, Fault, childVars, volumeVars,
         storeVars, CacheType
<1>3. ChildType'
  BY <1>1 DEF SetProfile, TamperConfig, PodDown, PodEnds, ChildType, childVars,
              volumeVars
<1>4. TypeOK'
  BY <1>1, <1>2, <1>3, PartsMakeType DEF StoreType, CacheType, WorkType, storeVars,
                                         workVars
<1>5. StoreOK' /\ CopiesOK' /\ PlaceOK' /\ ChildrenAreGuarded'
  BY <1>2 DEF StoreInv, StoreOK, CopiesOK, Known, Follows, PlaceOK, ChildrenAreGuarded,
              Owned, storeVars, workVars
<1>6. DeletionOK' /\ ErasedOK' /\ GoingOK' /\ SecretOK'
  BY <1>2 DEF StoreInv, DeletionOK, Left, Condemned, Owned, Exists, ErasedOK, GoingOK,
              SecretOK,
              BeingErased, storeVars, workVars, volumeVars
<1>7. JobsOK' /\ ReadyMeansBootstrapped'
  BY <1>2 DEF StoreInv, JobsOK, Succeeded, ReadyMeansBootstrapped, StoreIs, storeVars,
              workVars
<1> QED
  BY <1>4, <1>5, <1>6, <1>7 DEF StoreInv

-----------------------------------------------------------------------------
(* The operator creates children.                                          *)

(* While it builds, the object is there, guarded, and of the uid it works  *)
(* for; the database, if there is one, has its Secret.                     *)
LEMMA WhileBuilding ==
    ASSUME StoreInv, pc = "create"
    PROVE  /\ cr # NoStore /\ cr.finalizer /\ cr.uid = lastUid /\ seen.uid = lastUid
           /\ seen.uid \in 1..MaxUid /\ seen.gen \in 0..MaxGeneration /\ todo # <<>>
           /\ database # Nothing => password = database
           /\ claim # "going" /\ \A j \in jobs : ~j.going
<1>1. cr.finalizer /\ ~seen.deleting /\ seen # NoStore /\ todo # <<>>
  BY DEF StoreInv, PlaceOK, Building
<1>2. cr # NoStore /\ cr.uid = lastUid /\ seen.uid = lastUid /\ lastUid >= 1
  BY <1>1, NoStoreFields DEF StoreInv, StoreOK, CopiesOK, Known
<1>3. seen.uid \in 1..MaxUid /\ seen.gen \in 0..MaxGeneration
  BY <1>2, Bounds DEF StoreInv, TypeOK, Stores
<1>4. /\ database # Nothing => password = database
      /\ claim # "going" /\ \A j \in jobs : ~j.going
  BY <1>1, <1>2 DEF StoreInv, GoingOK
<1> QED
  BY <1>1, <1>2, <1>3, <1>4

LEMMA CreateNamedKeepsInv == ASSUME StoreInv, CreateNamed PROVE StoreInv'
<1> DEFINE k == Head(todo)
<1>1. StoreType /\ CacheType /\ WorkType /\ ChildType
  BY TypeInParts DEF StoreInv
<1>2. /\ pc = "create" /\ k \in Named /\ NextChild("image")
      /\ UNCHANGED <<storeVars, profile, pod, jobs, claim, database, cache, seen,
                     image, obs,
                     faults>>
  BY DEF CreateNamed, volumeVars
<1>3. /\ WorkType' /\ k \in Left
      /\ pc' = "image" \/ (pc' = pc /\ todo' # <<>>)
  BY <1>1, <1>2, WhileBuilding, ChildHandled DEF Places
<1>4. CASE Exists(k)
  <2>1. UNCHANGED <<owner, password, stsImage, configOk>>
    BY <1>2, <1>4 DEF CreateNamed, KeptAsIs, volumeVars
  <2>2. ChildType'
    BY <1>1, <1>2, <2>1 DEF ChildType, volumeVars
  <2>3. PlaceOK' /\ JobsOK'
    BY <1>2, <1>3 DEF StoreInv, PlaceOK, JobsOK, Succeeded, Building, Deleting,
                      storeVars
  <2> QED
    BY <1>2, <1>3, <2>1, <2>2, <2>3, WorkGoesOn DEF Deleting, volumeVars
<1>5. CASE ~Exists(k)
  <2>1. /\ owner' = [owner EXCEPT ![k] = seen.uid]
        /\ k # "secret" => password' = password
        /\ k = "secret" => password' \in Passwords \ {database}
        /\ stsImage' = IF k = "sts" THEN image ELSE stsImage
        /\ configOk' = (configOk \/ k = "config")
    BY <1>2, <1>5 DEF CreateNamed, KeptAsIs
  <2>2. \A x \in Named : owner'[x] = IF x = k THEN seen.uid ELSE owner[x]
    BY <1>1, <1>2, <2>1 DEF ChildType
  <2>3. configOk' \in BOOLEAN
    BY <2>1, Zenon
  <2>4. ChildType'
    BY <1>1, <1>2, <2>1, <2>3, WhileBuilding DEF ChildType, WorkType
  <2>5. TypeOK'
    BY <1>1, <1>2, <1>3, <2>4, PartsMakeType DEF StoreType, CacheType, storeVars
  <2>6. StoreOK' /\ CopiesOK'
    BY <1>2, <1>3 DEF StoreInv, StoreOK, CopiesOK, Known, Follows, storeVars
  <2>7. PlaceOK' /\ DeletionOK' /\ JobsOK'
    BY <1>2, <1>3 DEF StoreInv, PlaceOK, Building, Deleting, DeletionOK, JobsOK,
                      Succeeded,
                      storeVars
  <2>8. ChildrenAreGuarded'
    BY <1>2, <2>2, WhileBuilding DEF StoreInv, ChildrenAreGuarded, Owned, storeVars
  <2>9. ErasedOK' /\ ReadyMeansBootstrapped'
    BY <1>2, WhileBuilding
       DEF StoreInv, ErasedOK, ReadyMeansBootstrapped, StoreIs, storeVars
  <2>10. GoingOK' /\ SecretOK'
    <3>1. seen.uid # Missing /\ "secret" \in Named
      BY <1>2, WhileBuilding DEF Missing, Named
    <3>2. CASE k = "secret"
      <4>1. password = Nothing /\ database = Nothing
        BY <1>2, <1>5, <3>2, WhileBuilding DEF StoreInv, GoingOK, SecretOK
      <4> QED
        BY <1>2, <2>2, <3>1, <3>2, <4>1, WhileBuilding DEF GoingOK, SecretOK, Exists
    <3>3. CASE k # "secret"
      BY <1>2, <2>1, <2>2, <3>1, <3>3, WhileBuilding DEF StoreInv, GoingOK, SecretOK,
                                                         Exists
    <3> QED
      BY <3>2, <3>3
  <2> QED
    BY <2>5, <2>6, <2>7, <2>8, <2>9, <2>10 DEF StoreInv
<1> QED
  BY <1>4, <1>5

LEMMA CreateJobKeepsInv == ASSUME StoreInv, CreateJob PROVE StoreInv'
<1> DEFINE new == [gen |-> seen.gen, owner |-> seen.uid, outcome |-> "running",
               going |-> FALSE]
<1>1. StoreType /\ CacheType /\ WorkType /\ ChildType
  BY TypeInParts DEF StoreInv
<1>2. /\ pc = "create" /\ NextChild("image")
      /\ UNCHANGED <<storeVars, profile, owner, password, stsImage, pod, configOk,
                     volumeVars, cache,
                     seen, image, obs, faults>>
      /\ jobs' = jobs \/ jobs' = jobs \cup {new}
  BY DEF CreateJob
<1>3. /\ WorkType'
      /\ pc' = "image" \/ (pc' = pc /\ todo' # <<>>)
  BY <1>1, <1>2, WhileBuilding, ChildHandled DEF Places
<1>4. new \in Jobs /\ new.owner = lastUid /\ ~new.going
  BY <1>2, WhileBuilding DEF Jobs
<1> HIDE DEF new
<1>5. ChildType'
  BY <1>1, <1>2, <1>4 DEF ChildType, volumeVars
<1>6. TypeOK'
  BY <1>1, <1>2, <1>3, <1>5, PartsMakeType DEF StoreType, CacheType, storeVars
<1>7. StoreOK' /\ CopiesOK' /\ ChildrenAreGuarded'
  BY <1>2, <1>3 DEF StoreInv, StoreOK, CopiesOK, Known, Follows, ChildrenAreGuarded,
                    Owned,
                    storeVars
<1>8. PlaceOK' /\ DeletionOK'
  BY <1>2, <1>3 DEF StoreInv, PlaceOK, Building, Deleting, DeletionOK, storeVars
<1>9. ErasedOK' /\ GoingOK' /\ SecretOK'
  BY <1>2, <1>3, <1>4, WhileBuilding
     DEF StoreInv, ErasedOK, GoingOK, SecretOK, Exists, BeingErased, storeVars,
         volumeVars
<1>10. JobsOK' /\ ReadyMeansBootstrapped'
  BY <1>2, <1>4
     DEF StoreInv, JobsOK, Succeeded, ReadyMeansBootstrapped, StoreIs, storeVars
<1> QED
  BY <1>6, <1>7, <1>8, <1>9, <1>10 DEF StoreInv

-----------------------------------------------------------------------------
(* The operator deletes or orphans children.                               *)

(* Under Delete, the object is being erased, or the deletion of all it had *)
(* is requested.                                                           *)
LEMMA WhileDeleting ==
    ASSUME StoreInv, pc = "delete"
    PROVE  /\ todo # <<>> /\ seen.deleting /\ seen.policy = "Delete"
           /\ cr = NoStore => Condemned
           /\ cr # NoStore => BeingErased /\ cache.deleting
<1>1. todo # <<>> /\ seen.deleting /\ seen.policy = "Delete" /\ seen # NoStore
  BY DEF StoreInv, PlaceOK, Deleting
<1> QED
  BY <1>1 DEF StoreInv, ErasedOK, CopiesOK, Follows, BeingErased

(* What of the cluster a deletion may take or mark, and keeps the invariant. *)
LEMMA TakingKeepsInv ==
    ASSUME StoreInv, pc = "delete", NextChild("unguard"), ChildType',
           UNCHANGED <<storeVars, database, cache, seen, image, obs, faults>>,
           \A k \in Named : owner'[k] \in {owner[k], Missing},
           owner'["secret"] = owner["secret"] => password' = password,
           owner'["secret"] # owner["secret"] => password' = Nothing,
           claim' \in {claim, "going"},
           \A j \in jobs' : j.owner = lastUid,
           (\A j \in jobs : j.going) => (\A j \in jobs' : j.going),
           \A k \in Named : Head(todo) = k => owner'[k] = Missing,
           Head(todo) = "jobs" => \A j \in jobs' : j.going,
           Head(todo) = "volume" => claim' # "bound"
    PROVE  StoreInv'
<1>1. StoreType /\ CacheType /\ WorkType /\ ChildType
  BY TypeInParts DEF StoreInv
<1>2. /\ WorkType'
      /\ pc' = "unguard" \/ (pc' = pc /\ todo' # <<>>)
      /\ \A x \in Left : x = Head(todo) \/ (pc' = pc /\ x \in Left')
  BY <1>1, WhileDeleting, ChildHandled DEF Places
<1>3. TypeOK'
  BY <1>1, <1>2, PartsMakeType DEF StoreType, CacheType, storeVars
<1>4. StoreOK' /\ CopiesOK' /\ PlaceOK'
  BY <1>2 DEF StoreInv, StoreOK, CopiesOK, Known, Follows, PlaceOK, Building, Deleting,
              storeVars
<1>5. ChildrenAreGuarded'
  BY DEF StoreInv, ChildrenAreGuarded, Owned, storeVars
<1>6. DeletionOK'
  <2>1. ASSUME NEW k \in Named, owner'[k] # Missing PROVE pc' = pc /\ k \in Left'
    <3>1. k \in Left
      BY <2>1 DEF StoreInv, DeletionOK, Exists
    <3> QED
      BY <1>2, <2>1, <3>1
  <2>2. (\E j \in jobs' : ~j.going) => pc' = pc /\ "jobs" \in Left'
    BY <1>2 DEF StoreInv, DeletionOK
  <2>3. claim' = "bound" => pc' = pc /\ "volume" \in Left'
    BY <1>2 DEF StoreInv, DeletionOK
  <2>4. owner'["sts"] = Missing
    <3>1. "sts" \in Named
      BY DEF Named
    <3>2. Exists("sts") => Head(todo) = "sts"
      BY DEF StoreInv, DeletionOK, DeletionOrder
    <3> QED
      BY <3>1, <3>2 DEF Exists
  <2>5. pc' = "unguard" => Condemned'
    BY <2>1, <2>2, <2>3 DEF Condemned, Exists
  <2>6. pc' # "orphan"
    BY <1>2
  <2>7. pc' = "unguard" => seen'.policy = "Delete"
    BY WhileDeleting
  <2> QED
    BY <2>1, <2>2, <2>3, <2>4, <2>5, <2>6, <2>7 DEF DeletionOK, Exists
<1>7. ErasedOK'
  BY DEF StoreInv, ErasedOK, Condemned, Exists, storeVars
<1>8. GoingOK'
  BY WhileDeleting DEF GoingOK, storeVars
<1>9. SecretOK'
  <2>1. "secret" \in Named
    BY DEF Named
  <2>2. password' # Nothing => Exists("secret")'
    BY <2>1 DEF StoreInv, SecretOK, Exists
  <2>3. CASE database' = Nothing
    BY <2>2, <2>3 DEF SecretOK
  <2>4. CASE database' # Nothing
    <3>1. BeingErased' \/ claim' = "going"
      BY <1>1, <2>4, WhileDeleting DEF Condemned, BeingErased, ChildType, storeVars
    <3>2. password' \in {password, Nothing}
      BY <2>1
    <3> QED
      BY <2>2, <2>4, <3>1, <3>2 DEF StoreInv, SecretOK
  <2> QED
    BY <2>3, <2>4
<1>10. JobsOK' /\ ReadyMeansBootstrapped'
  <2>1. ~obs'.database
    BY DEF StoreInv, JobsOK
  <2>2. ~(cr' # NoStore /\ ~cr'.deleting)
    BY WhileDeleting DEF BeingErased, storeVars
  <2> QED
    BY <2>1, <2>2 DEF StoreInv, JobsOK, ReadyMeansBootstrapped, StoreIs, storeVars
<1> QED
  BY <1>3, <1>4, <1>5, <1>6, <1>7, <1>8, <1>9, <1>10 DEF StoreInv

LEMMA DeletingKeepsInv ==
    /\ StoreInv /\ DeleteNamed => StoreInv'
    /\ StoreInv /\ DeleteJobs => StoreInv'
    /\ StoreInv /\ DeleteVolume => StoreInv'
<1> SUFFICES ASSUME StoreInv
             PROVE  /\ DeleteNamed => StoreInv'
                    /\ DeleteJobs => StoreInv'
                    /\ DeleteVolume => StoreInv'
  OBVIOUS
<1> DEFINE h == Head(todo)
<1>1. /\ ChildType /\ {"jobs", "volume"} \cap Named = {} /\ "secret" \in Named
      /\ \A j \in jobs : j.owner = lastUid
  BY TypeInParts DEF StoreInv, JobsOK, Named
<1>2. ASSUME DeleteNamed PROVE StoreInv'
  <2>1. /\ pc = "delete" /\ h \in Named /\ NextChild("unguard")
        /\ UNCHANGED <<storeVars, profile, pod, jobs, claim, database, cache, seen,
                       image,
                       obs, faults>>
        /\ owner' = [k \in Named |-> IF k \in {h} THEN Missing ELSE owner[k]]
        /\ password' = IF "secret" \in {h} THEN Nothing ELSE password
        /\ stsImage' = IF "sts" \in {h} THEN Nothing ELSE stsImage
        /\ configOk' = (configOk /\ "config" \notin {h})
    BY <1>2 DEF DeleteNamed, Vanish, volumeVars
  <2>2. configOk' \in BOOLEAN
    BY <2>1, Zenon
  <2>3. ChildType'
    BY <1>1, <2>1, <2>2 DEF ChildType
  <2>4. \A k \in Named : owner'[k] = IF k = h THEN Missing ELSE owner[k]
    BY <2>1
  <2>5. /\ owner'["secret"] = owner["secret"] => password' = password
        /\ owner'["secret"] # owner["secret"] => password' = Nothing
    BY <1>1, <2>1, <2>4 DEF StoreInv, SecretOK, Exists
  <2> QED
    BY <1>1, <2>1, <2>3, <2>4, <2>5, TakingKeepsInv
<1>3. ASSUME DeleteJobs PROVE StoreInv'
  <2>1. \A j \in jobs : /\ [j EXCEPT !.going = TRUE] \in Jobs
                        /\ [j EXCEPT !.going = TRUE].going
                        /\ [j EXCEPT !.going = TRUE].owner = j.owner
    BY <1>1 DEF ChildType, Jobs
  <2>2. \A j \in jobs' : j \in Jobs /\ j.going /\ j.owner = lastUid
    BY <1>1, <1>3, <2>1 DEF DeleteJobs
  <2>3. /\ pc = "delete" /\ h = "jobs" /\ NextChild("unguard")
        /\ UNCHANGED <<storeVars, profile, owner, password, stsImage, pod, configOk,
                       claim,
                       database, cache, seen, image, obs, faults>>
    BY <1>3 DEF DeleteJobs, volumeVars
  <2>4. ChildType'
    BY <1>1, <2>2, <2>3 DEF ChildType
  <2> QED
    BY <1>1, <2>2, <2>3, <2>4, TakingKeepsInv
<1>4. ASSUME DeleteVolume PROVE StoreInv'
  <2>1. /\ pc = "delete" /\ h = "volume" /\ NextChild("unguard")
        /\ claim' = IF claim = "none" THEN "none" ELSE "going"
        /\ UNCHANGED <<storeVars, profile, owner, password, stsImage, pod, configOk,
                       jobs,
                       database, cache, seen, image, obs, faults>>
    BY <1>4 DEF DeleteVolume
  <2>2. ChildType'
    BY <1>1, <2>1 DEF ChildType
  <2> QED
    BY <1>1, <2>1, <2>2, TakingKeepsInv
<1> QED
  BY <1>2, <1>3, <1>4

LEMMA OrphanChildKeepsInv == ASSUME StoreInv, OrphanChild PROVE StoreInv'
<1> DEFINE h == Head(todo)
<1>1. StoreType /\ CacheType /\ WorkType /\ ChildType
  BY TypeInParts DEF StoreInv
<1>2. /\ pc = "orphan" /\ NextChild("unguard")
      /\ owner' = [owner EXCEPT ![h] = IF Exists(h) THEN Orphan ELSE Missing]
      /\ UNCHANGED <<storeVars, profile, password, stsImage, pod, configOk, volumeVars,
                     jobs, cache,
                     seen, image, obs, faults>>
  BY DEF OrphanChild, Orphaned
<1>3. todo # <<>> /\ seen.deleting /\ seen.policy = "Retain"
  BY <1>2 DEF StoreInv, PlaceOK, Deleting
<1>4. /\ WorkType'
      /\ pc' = "unguard" \/ (pc' = pc /\ todo' # <<>>)
      /\ \A x \in Left : x = h \/ (pc' = pc /\ x \in Left')
  BY <1>1, <1>2, <1>3, ChildHandled DEF Places
<1>5. \A k \in Named : owner'[k] = IF k = h /\ Exists(k) THEN Orphan ELSE owner[k]
  BY <1>1, <1>2 DEF ChildType, Exists
<1>6. ChildType'
  BY <1>1, <1>2 DEF ChildType, volumeVars
<1>7. TypeOK'
  BY <1>1, <1>2, <1>4, <1>6, PartsMakeType DEF StoreType, CacheType, storeVars
<1>8. StoreOK' /\ CopiesOK' /\ PlaceOK'
  BY <1>2, <1>3, <1>4 DEF StoreInv, StoreOK, CopiesOK, Known, Follows, PlaceOK,
                          Building,
                          Deleting, storeVars
<1>9. ChildrenAreGuarded'
  BY <1>2, <1>5 DEF StoreInv, ChildrenAreGuarded, Owned, Exists, storeVars
<1>10. DeletionOK'
  <2>1. ASSUME NEW k \in Owned' PROVE pc' = pc /\ k \in Left'
    <3>1. k \in Owned /\ k # h
      BY <1>5 DEF Owned, Exists
    <3> QED
      BY <1>2, <1>4, <3>1 DEF StoreInv, DeletionOK
  <2> QED
    BY <1>2, <1>3, <1>4, <2>1 DEF DeletionOK
<1>11. ErasedOK' /\ GoingOK' /\ SecretOK'
  <2>1. Orphan # Missing /\ "secret" \in Named
    BY DEF Orphan, Missing, Named
  <2>2. \A k \in Named : owner[k] = Missing <=> owner'[k] = Missing
    BY <1>5, <2>1 DEF Exists
  <2>3. ErasedOK'
    BY <1>2, <2>2 DEF StoreInv, ErasedOK, Condemned, Exists, storeVars, volumeVars
  <2>4. GoingOK' /\ SecretOK'
    BY <1>2, <1>3, <1>4, <2>1, <2>2
       DEF StoreInv, GoingOK, SecretOK, Exists, BeingErased, storeVars, volumeVars
  <2> QED
    BY <2>3, <2>4
<1>12. JobsOK' /\ ReadyMeansBootstrapped'
  BY <1>2 DEF StoreInv, JobsOK, Succeeded, ReadyMeansBootstrapped, StoreIs, storeVars
<1> QED
  BY <1>7, <1>8, <1>9, <1>10, <1>11, <1>12 DEF StoreInv

(* The finalizer goes when nothing is left that it guards.                 *)
LEMMA RemoveFinalizerKeepsInv == ASSUME StoreInv, RemoveFinalizer PROVE StoreInv'
<1>1. StoreType /\ CacheType /\ WorkType /\ ChildType
  BY TypeInParts DEF StoreInv
<1>2. /\ pc = "unguard" /\ Return
      /\ UNCHANGED <<lastUid, profile, childVars, cache, faults>>
  BY DEF RemoveFinalizer
<1>3. seen.deleting /\ seen # NoStore /\ (seen.policy = "Delete" => Condemned) /\ Owned = {}
  BY <1>2 DEF StoreInv, PlaceOK, Deleting, DeletionOK, Condemned, Owned, Exists
<1>4. CASE cr = NoStore
  <2>1. \A s \in Stores : s.finalizer = FALSE => [s EXCEPT !.finalizer = FALSE] = s
    BY DEF Stores
  <2>2. cr' = [cr EXCEPT !.finalizer = FALSE]
    BY <1>4, NoStoreFields DEF RemoveFinalizer
  <2>3. cr' = cr
    BY <1>4, <2>1, <2>2, NoStoreFields
  <2> QED
    BY <1>1, <1>2, <2>3, ReturnKeepsInv DEF CacheType, storeVars
<1>5. CASE cr # NoStore
  <2>1. /\ cr.deleting /\ cr.policy = seen.policy /\ cache.deleting
        /\ cache.policy = seen.policy
    BY <1>2, <1>3, <1>5 DEF StoreInv, CopiesOK, Follows
  <2>2. cr' = NoStore
    BY <2>1 DEF RemoveFinalizer
  <2>3. WorkType' /\ pc' = "idle" /\ seen' = NoStore /\ ~obs'.database
    BY <1>2, Returned
  <2>4. TypeOK'
    BY <1>1, <1>2, <2>2, <2>3, NoStoreFields, PartsMakeType
       DEF StoreType, CacheType, ChildType, childVars
  <2>5. StoreOK' /\ CopiesOK' /\ PlaceOK'
    BY <1>2, <2>1, <2>2, <2>3, NoStoreFields
       DEF StoreInv, StoreOK, CopiesOK, Known, Follows, PlaceOK, Building, Deleting,
           NoStatus
  <2>6. ChildrenAreGuarded' /\ DeletionOK'
    BY <1>2, <1>3, <2>3 DEF ChildrenAreGuarded, DeletionOK, Owned, childVars
  <2>7. ErasedOK'
    BY <1>2, <1>3, <2>1, <2>3, NoStoreFields DEF ErasedOK, Condemned, Exists, childVars
  <2>8. GoingOK' /\ SecretOK'
    BY <1>1, <1>2, <1>3, <2>1, <2>2, <2>3
       DEF StoreInv, GoingOK, SecretOK, Condemned, BeingErased, Exists, ChildType,
           childVars
  <2>9. JobsOK' /\ ReadyMeansBootstrapped'
    BY <1>2, <2>2, <2>3
       DEF StoreInv, JobsOK, ReadyMeansBootstrapped, StoreIs, childVars
  <2> QED
    BY <2>4, <2>5, <2>6, <2>7, <2>8, <2>9 DEF StoreInv
<1> QED
  BY <1>4, <1>5

-----------------------------------------------------------------------------
(* The controllers of the cluster.                                         *)

(* A child with an owner is of the object that lives: only Jobs are        *)
(* collected, of an object that is gone or on request.                     *)
LEMMA GarbageCollectKeepsInv == ASSUME StoreInv, GarbageCollect PROVE StoreInv'
<1>1. StoreType /\ CacheType /\ WorkType /\ ChildType
  BY TypeInParts DEF StoreInv
<1>2. ~\E k \in Owned : Dead(owner[k])
  BY DEF StoreInv, ChildrenAreGuarded, Dead
<1>3. /\ jobs' \subseteq jobs
      /\ \A j \in jobs : j \in jobs' \/ cr = NoStore \/ j.going
      /\ UNCHANGED <<owner, password, stsImage, pod, configOk>>
      /\ UNCHANGED <<storeVars, profile, claim, database, cache, pc, workVars, faults>>
  <2>1. PICK j \in jobs : (Dead(j.owner) \/ j.going) /\ jobs' = jobs \ {j}
    BY <1>2 DEF GarbageCollect
  <2>2. cr = NoStore \/ j.going
    BY <2>1 DEF StoreInv, JobsOK, StoreOK, Known, Dead
  <2> QED
    BY <1>2, <2>1, <2>2 DEF GarbageCollect, volumeVars
<1>4. cr # NoStore /\ (~cr.deleting \/ (pc # "idle" /\ ~seen.deleting)) => jobs' = jobs
  <2> SUFFICES ASSUME cr # NoStore, ~cr.deleting \/ (pc # "idle" /\ ~seen.deleting),
                      NEW j \in jobs
               PROVE  j \in jobs'
    BY <1>3
  <2>1. ~j.going
    BY NoStoreFields DEF StoreInv, GoingOK, CopiesOK, Follows
  <2> QED
    BY <1>3, <2>1
<1>5. TypeOK'
  <2>1. ChildType'
    BY <1>1, <1>3 DEF ChildType
  <2> QED
    BY <1>1, <1>3, <2>1, PartsMakeType
       DEF StoreType, CacheType, WorkType, storeVars, workVars
<1>6. StoreOK' /\ CopiesOK' /\ PlaceOK' /\ ChildrenAreGuarded'
  BY <1>3 DEF StoreInv, StoreOK, CopiesOK, Known, Follows, PlaceOK, ChildrenAreGuarded,
              Owned, storeVars, workVars
<1>7. DeletionOK' /\ ErasedOK'
  BY <1>3 DEF StoreInv, DeletionOK, Left, Condemned, Owned, Exists, ErasedOK, storeVars,
              workVars
<1>8. GoingOK' /\ SecretOK'
  BY <1>3 DEF StoreInv, Exists, GoingOK, SecretOK, BeingErased, storeVars, workVars
<1>9. JobsOK' /\ ReadyMeansBootstrapped'
  <2>1. \A j \in jobs' : j.owner = lastUid'
    BY <1>3 DEF StoreInv, JobsOK, storeVars
  <2>2. JobsOK'
    BY <1>3, <1>4, <2>1 DEF StoreInv, JobsOK, Succeeded, storeVars, workVars
  <2>3. ReadyMeansBootstrapped'
    BY <1>3, <1>4 DEF StoreInv, ReadyMeansBootstrapped, StoreIs, storeVars
  <2> QED
    BY <2>2, <2>3
<1> QED
  BY <1>5, <1>6, <1>7, <1>8, <1>9 DEF StoreInv

(* What happens to the volume and the database in it.                      *)
LEMMA VolumeChangeKeepsInv ==
    ASSUME StoreInv, ChildType', DeletionOK', ErasedOK', GoingOK', SecretOK',
           UNCHANGED <<storeVars, owner, jobs, cache, pc, workVars, faults>>
    PROVE  StoreInv'
<1>1. StoreType /\ CacheType /\ WorkType
  BY TypeInParts DEF StoreInv
<1>2. TypeOK'
  BY <1>1, PartsMakeType DEF StoreType, CacheType, WorkType, storeVars, workVars
<1>3. StoreOK' /\ CopiesOK' /\ PlaceOK' /\ ChildrenAreGuarded'
  BY DEF StoreInv, StoreOK, CopiesOK, Known, Follows, PlaceOK, ChildrenAreGuarded,
         Owned,
         storeVars, workVars
<1>4. JobsOK' /\ ReadyMeansBootstrapped'
  BY DEF StoreInv, JobsOK, Succeeded, ReadyMeansBootstrapped, StoreIs, storeVars,
         workVars
<1> QED
  BY <1>2, <1>3, <1>4 DEF StoreInv

(* A claim is made for a StatefulSet, and then no deletion is through.     *)
LEMMA PodStartsKeepsInv == ASSUME StoreInv, PodStarts PROVE StoreInv'
<1>1. ChildType
  BY TypeInParts DEF StoreInv
<1>2. /\ Exists("sts") /\ claim # "going" /\ pod' = "starting" /\ claim' = "bound"
      /\ UNCHANGED <<storeVars, profile, owner, password, stsImage, configOk, jobs,
                     database, cache, pc, workVars, faults>>
  BY DEF PodStarts
<1>3. ~Condemned /\ Owned' = Owned
  BY <1>2 DEF Condemned, Exists, Named, Owned
<1>4. ChildType'
  BY <1>1, <1>2 DEF ChildType
<1>5. DeletionOK'
  <2>1. pc = "delete" => "volume" \in Left
    <3>1. DeletionOrder[6] = "volume" /\ 6 \in DOMAIN DeletionOrder
      BY DEF DeletionOrder
    <3> QED
      BY <1>2, <3>1 DEF StoreInv, DeletionOK, Left
  <2> QED
    BY <1>2, <1>3, <2>1 DEF StoreInv, DeletionOK, Left, Exists, workVars
<1>6. ErasedOK'
  BY <1>2, <1>3 DEF StoreInv, ErasedOK, storeVars, workVars
<1>7. GoingOK' /\ SecretOK'
  BY <1>2 DEF StoreInv, GoingOK, SecretOK, Exists, BeingErased, storeVars, workVars
<1> QED
  BY <1>2, <1>4, <1>5, <1>6, <1>7, VolumeChangeKeepsInv

(* A container that starts fills an empty volume with the Secret's         *)
(* password, even while the volume is being deleted.                       *)
LEMMA PodReadyKeepsInv == ASSUME StoreInv, PodReady PROVE StoreInv'
<1>1. ChildType
  BY TypeInParts DEF StoreInv
<1>2. /\ pod = "starting" /\ pod' = "ready"
      /\ database' = IF database = Nothing THEN password ELSE database
      /\ UNCHANGED <<storeVars, profile, owner, password, stsImage, configOk, jobs,
                     claim,
                     cache, pc, workVars, faults>>
  BY DEF PodReady
<1>3. ChildType'
  BY <1>1, <1>2 DEF ChildType
<1>4. DeletionOK' /\ ErasedOK'
  BY <1>2 DEF StoreInv, DeletionOK, Left, Condemned, Exists, Owned, ErasedOK, storeVars,
              workVars
<1>5. GoingOK' /\ SecretOK'
  BY <1>2 DEF StoreInv, GoingOK, SecretOK, Exists, BeingErased, storeVars, workVars
<1> QED
  BY <1>2, <1>3, <1>4, <1>5, VolumeChangeKeepsInv

LEMMA VolumeEndsKeepsInv == ASSUME StoreInv, VolumeEnds PROVE StoreInv'
<1>1. ChildType
  BY TypeInParts DEF StoreInv
<1>2. /\ pod = "none" /\ claim' = "none" /\ database' = Nothing
      /\ UNCHANGED <<storeVars, profile, owner, password, stsImage, pod, configOk, jobs,
                     cache, pc, workVars, faults>>
  BY DEF VolumeEnds
<1>3. ChildType'
  BY <1>1, <1>2 DEF ChildType
<1>4. DeletionOK' /\ ErasedOK'
  BY <1>2 DEF StoreInv, DeletionOK, Left, Condemned, Exists, Owned, ErasedOK, storeVars,
              workVars
<1>5. GoingOK' /\ SecretOK'
  BY <1>2 DEF StoreInv, GoingOK, SecretOK, Exists, BeingErased, storeVars, workVars
<1> QED
  BY <1>2, <1>3, <1>4, <1>5, VolumeChangeKeepsInv

(* A Job ends once: one that has succeeded stays so.                       *)
LEMMA JobEndsKeepsInv ==
    ASSUME StoreInv, NEW j \in jobs, NEW outcome \in {"succeeded", "failed"},
           JobEnds(j, outcome), faults' \in 0..MaxFaults
    PROVE  StoreInv'
<1> DEFINE ended == [j EXCEPT !.outcome = outcome]
<1>1. StoreType /\ CacheType /\ WorkType /\ ChildType
  BY TypeInParts DEF StoreInv
<1>2. /\ j.outcome = "running" /\ jobs' = (jobs \ {j}) \cup {ended}
      /\ UNCHANGED <<storeVars, profile, owner, password, stsImage, pod, configOk,
                     volumeVars, cache, pc,
                     workVars>>
  BY DEF JobEnds
<1>3. ended \in Jobs /\ ended.owner = j.owner /\ ended.going = j.going /\ j \in Jobs
  BY <1>1 DEF ChildType, Jobs
<1> HIDE DEF ended
<1>4. TypeOK'
  BY <1>1, <1>2, <1>3, PartsMakeType
     DEF StoreType, CacheType, WorkType, ChildType, storeVars, workVars, volumeVars
<1>5. \A g : Succeeded(g) => Succeeded(g)'
  BY <1>2 DEF Succeeded, storeVars
<1>6. StoreOK' /\ CopiesOK' /\ PlaceOK' /\ ChildrenAreGuarded'
  BY <1>2 DEF StoreInv, StoreOK, CopiesOK, Known, Follows, PlaceOK, ChildrenAreGuarded,
              Owned, storeVars, workVars
<1>7. DeletionOK' /\ ErasedOK' /\ GoingOK' /\ SecretOK'
  BY <1>2, <1>3 DEF StoreInv, DeletionOK, Left, Condemned, Owned, Exists, ErasedOK,
                    GoingOK, SecretOK,
              BeingErased, storeVars, workVars, volumeVars
<1>8. JobsOK'
  BY <1>2, <1>3, <1>5 DEF StoreInv, JobsOK, storeVars, workVars
<1>9. ReadyMeansBootstrapped'
  BY <1>2 DEF StoreInv, ReadyMeansBootstrapped, StoreIs, storeVars
<1> QED
  BY <1>4, <1>6, <1>7, <1>8, <1>9 DEF StoreInv

-----------------------------------------------------------------------------
LEMMA InitInv == Init => StoreInv
<1> SUFFICES ASSUME Init PROVE StoreInv
  OBVIOUS
<1>1. TypeOK
  <2>1. StoreType /\ CacheType
    BY NoStoreFields, Bounds, DataStoreAssumption DEF Init, StoreType, CacheType
  <2>2. ChildType
    BY DEF Init, ChildType
  <2>3. WorkType
    BY NoStoreFields, OrdersOfChildren
       DEF Init, WorkType, Observations, NothingSeen, Places
  <2> QED
    BY <2>1, <2>2, <2>3, TypeInParts
<1>2. StoreOK /\ CopiesOK /\ PlaceOK
  BY NoStoreFields
     DEF Init, StoreOK, CopiesOK, Known, Follows, PlaceOK, Building, Deleting, NoStatus
<1>3. ChildrenAreGuarded /\ DeletionOK /\ ErasedOK
  BY NoStoreFields DEF Init, ChildrenAreGuarded, Owned, DeletionOK, ErasedOK
<1>4. GoingOK /\ SecretOK /\ JobsOK /\ ReadyMeansBootstrapped
  BY DEF Init, GoingOK, SecretOK, JobsOK, NothingSeen, ReadyMeansBootstrapped, StoreIs
<1> QED
  BY <1>1, <1>2, <1>3, <1>4 DEF StoreInv

LEMMA OperatorStep == StoreInv /\ Operator => StoreInv'
BY StartKeepsInv, AddFinalizerKeepsInv, ReadingKeepsInv, CreateNamedKeepsInv,
   CreateJobKeepsInv, FixKeepsInv, ReadJobKeepsInv, PatchStatusKeepsInv,
   DeletingKeepsInv,
   OrphanChildKeepsInv, RemoveFinalizerKeepsInv DEF Operator

LEMMA ClusterStep == StoreInv /\ Cluster => StoreInv'
<1> SUFFICES ASSUME StoreInv, NEW j \in jobs, JobSucceeds(j) \/ JobFails(j)
             PROVE  StoreInv'
  BY GarbageCollectKeepsInv, PodStartsKeepsInv, PodReadyKeepsInv, DisturbanceKeepsInv,
     VolumeEndsKeepsInv DEF Cluster, Controllers
<1>1. faults' \in 0..MaxFaults
  BY TypeInParts, DataStoreAssumption DEF StoreInv, CacheType, JobSucceeds, JobFails,
                                          Fault
<1> QED
  BY <1>1, JobEndsKeepsInv DEF JobSucceeds, JobFails

LEMMA StepInv == StoreInv /\ [Next]_vars => StoreInv'
<1> SUFFICES ASSUME StoreInv, [Next]_vars PROVE StoreInv'
  OBVIOUS
<1>1. CASE UNCHANGED vars
  <2>1. TypeOK' /\ StoreOK' /\ CopiesOK' /\ PlaceOK' /\ ChildrenAreGuarded'
    BY <1>1 DEF vars, storeVars, childVars, workVars, StoreInv, TypeOK, StoreOK,
                CopiesOK,
                Known, Follows, PlaceOK, ChildrenAreGuarded, Owned
  <2>2. DeletionOK' /\ ErasedOK' /\ JobsOK' /\ ReadyMeansBootstrapped'
    BY <1>1 DEF vars, storeVars, childVars, workVars, StoreInv, DeletionOK, Left,
                Condemned,
                Owned, Exists, ErasedOK, JobsOK, Succeeded, ReadyMeansBootstrapped,
                StoreIs
  <2>3. GoingOK' /\ SecretOK'
    BY <1>1 DEF vars, storeVars, childVars, workVars, StoreInv, GoingOK, SecretOK,
                Exists,
                BeingErased
  <2> QED
    BY <2>1, <2>2, <2>3 DEF StoreInv
<1>2. CASE Next
  BY <1>2, ObserveKeepsInv, OperatorStep, AbortKeepsInv, CreateStoreKeepsInv,
     EditStoreKeepsInv, DeleteStoreKeepsInv, DisturbanceKeepsInv, ClusterStep
     DEF Next, User
<1> QED
  BY <1>1, <1>2

LEMMA Invariance == Spec => []StoreInv
BY InitInv, StepInv, PTL DEF Spec

(* Of every behaviour of the operator, its users and the cluster: a state  *)
(* is well formed, and the children that a reconcile creates belong to the *)
(* object that lives and cannot go without the operator's consent.         *)
THEOREM InvHolds == Spec => []Inv
<1>1. StoreInv => Inv
  BY DEF StoreInv, Inv
<1> QED
  BY <1>1, Invariance, PTL

(* A database is never left without the password it was initialised with:  *)
(* the Secret goes before the volume only in an erasure in progress, and   *)
(* create_if_absent never draws a new password for a volume that is there. *)
THEOREM DataKeepsItsSecretHolds == Spec => []DataKeepsItsSecret
<1>1. StoreInv => DataKeepsItsSecret
  BY DEF StoreInv, GoingOK, SecretOK, DataKeepsItsSecret
<1> QED
  BY <1>1, Invariance, PTL

(* A managed store that says Ready of its current generation has a Job of  *)
(* that generation and of its own uid that has succeeded, although the     *)
(* status is written after the Job was read and by the name of the object. *)
THEOREM ReadyMeansBootstrappedHolds == Spec => []ReadyMeansBootstrapped
<1>1. StoreInv => ReadyMeansBootstrapped
  BY DEF StoreInv
<1> QED
  BY <1>1, Invariance, PTL

-----------------------------------------------------------------------------
(* Deletion.                                                               *)

(* Only DeleteVolume asks for the deletion of a volume.                    *)
LEMMA VolumeGoes ==
    ASSUME [Next]_vars, claim # "going", claim' = "going"
    PROVE  DeleteVolume
<1>1. claim' # claim /\ claim' # "bound" /\ claim' # "none"
  OBVIOUS
<1> QED
  BY <1>1 DEF Next, Operator, User, Cluster, Controllers, Observe, Start, AddFinalizer,
              ReadProfile, CreateNamed, CreateJob, FixImage, FixConfig, ReadStorage,
              ReadJob, ReadPods, ReadExternalSecret, PatchStatus, DeleteNamed,
              DeleteJobs,
              OrphanChild, RemoveFinalizer, Abort, CreateStore, EditStore, DeleteStore,
              SetProfile, TamperConfig, GarbageCollect, PodStarts, PodReady, PodDown,
              PodEnds, VolumeEnds, JobSucceeds, JobFails, JobEnds, vars, childVars,
              volumeVars

(* Only RemoveFinalizer lets an object go that has the finalizer.          *)
LEMMA ObjectGoes ==
    ASSUME StoreInv, [Next]_vars, cr # NoStore, cr' = NoStore, cr.finalizer
    PROVE  RemoveFinalizer
<1>1. cr' # cr
  OBVIOUS
<1>2. Operator \/ User
  BY <1>1 DEF Next, Cluster, Controllers, Observe, Abort, GarbageCollect, PodStarts,
              PodReady, PodDown, PodEnds, VolumeEnds, JobSucceeds, JobFails, JobEnds,
              vars,
              storeVars
<1>3. cr \in Stores /\ cr.uid # 0
  BY DEF StoreInv, TypeOK, StoreOK, Known
<1>4. \A s : cr' # [cr EXCEPT !.status = s]
  BY <1>3, NoStoreFields DEF Stores
<1>5. cr' # [cr EXCEPT !.finalizer = TRUE] /\ cr' # [cr EXCEPT !.deleting = TRUE]
  BY <1>3, NoStoreFields DEF Stores
<1>6. ~AddFinalizer /\ ~PatchStatus /\ ~DeleteStore
  BY <1>1, <1>4, <1>5 DEF AddFinalizer, PatchStatus, DeleteStore
<1>7. ~EditStore
  <2>1. ASSUME NEW g, NEW k, NEW p
        PROVE  cr' # [cr EXCEPT !.gen = g, !.kind = k, !.policy = p]
    BY <1>3, NoStoreFields DEF Stores
  <2> QED
    BY <2>1 DEF EditStore
<1> QED
  BY <1>1, <1>2, <1>6, <1>7
     DEF Operator, User, Start, ReadProfile, CreateNamed, CreateJob, FixImage,
         FixConfig,
         ReadStorage, ReadJob, ReadPods, ReadExternalSecret, DeleteNamed, DeleteJobs,
         DeleteVolume, OrphanChild, CreateStore, SetProfile, TamperConfig, storeVars

(* Of every step: the deletion of a volume is requested only while its     *)
(* store is being erased; a managed store goes under Delete only when the  *)
(* deletion of all it had has been requested and nothing has come back,    *)
(* although the operator waits for none of it; and under Retain no named   *)
(* child goes with it.                                                     *)
THEOREM DeletionRespectsPolicyHolds == Spec => DeletionRespectsPolicy
<1> DEFINE Respect ==
      /\ claim # "going" /\ claim' = "going" => BeingErased
      /\ cr # NoStore /\ cr' = NoStore /\ cr.finalizer /\ cr.kind = "managed" =>
           IF cr.policy = "Delete" THEN Condemned'
           ELSE \A k \in Named : owner'[k] \in {Missing, Orphan}
<1>1. ASSUME StoreInv, [Next]_vars PROVE Respect
  <2>1. ASSUME claim # "going", claim' = "going" PROVE BeingErased
    <3>1. pc = "delete" /\ claim = "bound"
      BY <1>1, <2>1, VolumeGoes DEF DeleteVolume, StoreInv, TypeOK
    <3> QED
      BY <1>1, <3>1, WhileDeleting DEF Condemned
  <2>2. ASSUME cr # NoStore, cr' = NoStore, cr.finalizer
        PROVE  IF cr.policy = "Delete" THEN Condemned'
               ELSE \A k \in Named : owner'[k] \in {Missing, Orphan}
    <3>1. pc = "unguard" /\ UNCHANGED childVars
      BY <1>1, <2>2, ObjectGoes DEF RemoveFinalizer
    <3>2. seen.deleting /\ seen # NoStore
      BY <1>1, <3>1 DEF StoreInv, PlaceOK, Deleting
    <3>3. seen.policy = cr.policy
      BY <1>1, <2>2, <3>2 DEF StoreInv, CopiesOK, Follows
    <3> QED
      BY <1>1, <3>1, <3>3 DEF StoreInv, DeletionOK, Condemned, Exists, Owned, childVars
  <2> QED
    BY <2>1, <2>2
<1>2. ASSUME StoreInv, [Next]_vars PROVE [Respect]_vars
  BY <1>1, <1>2
<1> QED
  BY <1>2, Invariance, PTL DEF Spec, DeletionRespectsPolicy
=============================================================================
