------------------------ MODULE DataStoreReconciler ------------------------
(***************************************************************************)
(* The reconcile of one SiteGraphDataStore:                                *)
(* src/operator/sitegraph-operator-controller/src/lib.rs (reconcile_data_  *)
(* store, handle_managed_deletion, reconcile_managed_data_store, status    *)
(* planning) and resources.rs (names, owners, credentials).                *)
(*                                                                         *)
(* One operator works on a cached copy of the object, one API call per     *)
(* step, while users edit, delete and re-create the object, and while the  *)
(* StatefulSet, Job and garbage collecting controllers of the cluster act. *)
(* A call that deletes is a request: Jobs and the volume claim stay until  *)
(* their finalizers are gone, and the pod outlives its StatefulSet.        *)
(* That one operator works at a time is the subject of LeaderElection.     *)
(*                                                                         *)
(* Definitions named Bug... are not the code: each is a mistake that a     *)
(* property below must notice when it replaces the definition after it.    *)
(***************************************************************************)
EXTENDS Integers, Sequences

CONSTANTS
    Images,        \* the images a StorageProfile may name
    Kinds,         \* the kinds of specification users write
    Policies,      \* the deletion policies users write
    Passwords,     \* what generate_credentials may draw
    MaxUid,        \* bound on the incarnations of the object
    MaxGeneration, \* bound on metadata.generation
    MaxFaults      \* bound on failed calls, tampering, failing pods and jobs

ASSUME DataStoreAssumption ==
    /\ Kinds \subseteq {"managed", "external", "invalid"}
    /\ Policies \subseteq {"Retain", "Delete"}
    /\ MaxUid \in Nat /\ MaxGeneration \in Nat \ {0} /\ MaxFaults \in Nat

VARIABLES
    cr,         \* the SiteGraphDataStore in the cluster, or NoStore
    lastUid,    \* uid of the newest incarnation
    profile,    \* image of the referenced StorageProfile, or Nothing
    owner,      \* owner of each named child: Missing, Orphan or a uid
    password,   \* the password in the Secret
    stsImage,   \* image in the StatefulSet
    pod,        \* the StatefulSet's pod: "none", "starting" or "ready"
    configOk,   \* the ConfigMap holds the bootstrap SQL of the operator
    jobs,       \* the bootstrap Jobs
    claim,      \* the volume claim: "none", "bound" or "going" (being deleted)
    database,   \* password the volume's database was initialised with
    cache,      \* the operator's watch cache
    pc,         \* the operator's next API call
    todo,       \* children still to be handled in this phase
    seen,       \* the cached object this reconcile was started with
    image,      \* image of the profile this reconcile has read
    obs,        \* what this reconcile has observed
    faults

storeVars == <<cr, lastUid>>
volumeVars == <<claim, database>>
childVars == <<owner, password, stsImage, pod, configOk, jobs, claim, database>>
workVars == <<todo, seen, image, obs>>
vars == <<storeVars, profile, childVars, cache, pc, workVars, faults>>

Nothing == "Nothing"      \* no profile, no image, no Secret, no volume
Missing == -1
Orphan == 0
Named == {"secret", "config", "service", "sts"}

(* DataStoreStatus: `refs` stands for endpoint_ref and                     *)
(* credential_secret_ref, which are always planned together.               *)
Phases == {"None", "Ready", "Provisioning", "Degraded"}
Statuses == [phase : Phases, gen : 0..MaxGeneration, refs : BOOLEAN]
NoStatus == [phase |-> "None", gen |-> 0, refs |-> FALSE]

Stores == [uid : 0..MaxUid, gen : 0..MaxGeneration,
           kind : {"managed", "external", "invalid"}, policy : {"Retain", "Delete"},
           finalizer : BOOLEAN, deleting : BOOLEAN, status : Statuses]
NoStore == [uid |-> 0, gen |-> 0, kind |-> "managed", policy |-> "Retain",
            finalizer |-> FALSE, deleting |-> FALSE, status |-> NoStatus]

(* going: with a deletion timestamp and a finalizer that is still there.   *)
Jobs == [gen : 0..MaxGeneration, owner : 0..MaxUid,
         outcome : {"running", "succeeded", "failed"}, going : BOOLEAN]

Observations == [storage : BOOLEAN, database : BOOLEAN, failure : BOOLEAN]
NothingSeen == [storage |-> FALSE, database |-> FALSE, failure |-> FALSE]

Places == {"idle", "finalizer", "profile", "create", "image", "config", "storage",
           "job", "pods", "external", "status", "delete", "orphan", "unguard"}

Exists(k) == owner[k] # Missing
JobExists(g) == \E j \in jobs : j.gen = g

TypeOK ==
    /\ cr \in Stores /\ cache \in Stores /\ seen \in Stores
    /\ lastUid \in 0..MaxUid
    /\ {profile, image, stsImage} \subseteq Images \cup {Nothing}
    /\ owner \in [Named -> {Missing, Orphan} \cup 1..MaxUid]
    /\ {password, database} \subseteq Passwords \cup {Nothing}
    /\ pod \in {"none", "starting", "ready"} /\ configOk \in BOOLEAN
    /\ claim \in {"none", "bound", "going"}
    /\ database # Nothing \/ pod # "none" => claim # "none"
    /\ jobs \subseteq Jobs
    /\ pc \in Places
    /\ todo \in Seq(Named \cup {"jobs", "job", "volume"})
    /\ obs \in Observations
    /\ faults \in 0..MaxFaults

Init ==
    /\ cr = NoStore /\ cache = NoStore /\ seen = NoStore
    /\ lastUid = 0
    /\ profile \in Images \cup {Nothing} /\ image = Nothing
    /\ owner = [k \in Named |-> Missing]
    /\ password = Nothing /\ claim = "none" /\ database = Nothing
    /\ stsImage = Nothing /\ pod = "none" /\ configOk = FALSE
    /\ jobs = {}
    /\ pc = "idle" /\ todo = <<>> /\ obs = NothingSeen
    /\ faults = 0

-----------------------------------------------------------------------------
(* The reconcile.  Its calls name the object and its children by name, so  *)
(* they reach whichever incarnation has the name at that moment.           *)

Observe ==
    /\ cache # cr
    /\ cache' = cr
    /\ UNCHANGED <<storeVars, profile, childVars, pc, workVars, faults>>

CreationOrder == <<"secret", "config", "service", "sts", "job">>
BugForgetsVolume == <<"sts", "service", "secret", "config", "jobs">>
DeletionOrder == <<"sts", "service", "secret", "config", "jobs", "volume">>
OrphanOrder == <<"sts", "service", "secret", "config">>

BugRetainDoesNothing(store) == IF store.policy = "Retain" THEN "idle" ELSE "delete"

(* deletion_plan; SnapshotThenDelete behaves as Delete.                    *)
DeletionPlan(store) == IF store.policy = "Retain" THEN "orphan" ELSE "delete"

BugNoGuard(store) ==
    IF store.deleting
    THEN IF store.kind = "managed" /\ store.finalizer THEN DeletionPlan(store) ELSE "idle"
    ELSE IF store.kind = "managed" THEN "profile"
    ELSE IF store.kind = "external" THEN "external" ELSE "status"

(* Where reconcile_data_store goes with the cached object: validation      *)
(* comes before the deletion timestamp.                                    *)
Branch(store) ==
    CASE store.kind = "invalid" -> "status"
      [] store.kind # "invalid" /\ store.deleting ->
           IF store.kind = "managed" /\ store.finalizer
           THEN DeletionPlan(store) ELSE "idle"
      [] store.kind = "managed" /\ ~store.deleting ->
           IF store.finalizer THEN "profile" ELSE "finalizer"
      [] store.kind = "external" /\ ~store.deleting -> "external"

Start ==
    /\ pc = "idle" /\ cache # NoStore /\ Branch(cache) # "idle"
    /\ seen' = cache
    /\ pc' = Branch(cache)
    /\ todo' = CASE Branch(cache) = "delete" -> DeletionOrder
                 [] Branch(cache) = "orphan" -> OrphanOrder
                 [] OTHER -> <<>>
    /\ UNCHANGED <<storeVars, profile, childVars, cache, image, obs, faults>>

(* The reconcile returns, or fails and is requeued by error_policy: its    *)
(* locals are gone.                                                        *)
Return ==
    /\ pc' = "idle"
    /\ todo' = <<>> /\ seen' = NoStore /\ image' = Nothing /\ obs' = NothingSeen

(* add_finalizer: a merge patch by name.  The API server knows no such     *)
(* object (404) or refuses a new finalizer on one that is being deleted.   *)
AddFinalizer ==
    /\ pc = "finalizer"
    /\ \/ /\ cr # NoStore /\ ~cr.deleting
          /\ cr' = [cr EXCEPT !.finalizer = TRUE]
          /\ pc' = "profile" /\ UNCHANGED workVars
       \/ /\ cr = NoStore \/ cr.deleting
          /\ UNCHANGED cr /\ Return
    /\ UNCHANGED <<lastUid, profile, childVars, cache, faults>>

ReadProfile ==
    /\ pc = "profile"
    /\ image' = profile
    /\ IF profile = Nothing
       THEN pc' = "status" /\ obs' = [obs EXCEPT !.failure = TRUE] /\ UNCHANGED todo
       ELSE pc' = "create" /\ todo' = CreationOrder /\ UNCHANGED obs
    /\ UNCHANGED <<storeVars, profile, childVars, cache, seen, faults>>

(* One child of a phase is done; after the last one the reconcile goes on. *)
NextChild(next) ==
    /\ todo' = Tail(todo)
    /\ pc' = IF Len(todo) = 1 THEN next ELSE pc

(* create_if_absent, and get-or-create for the Secret: an existing object  *)
(* is left as it is, whoever owns it.                                      *)
KeptAsIs(k) == Exists(k)

CreateNamed ==
    /\ pc = "create" /\ Head(todo) \in Named
    /\ LET k == Head(todo) IN
         IF KeptAsIs(k)
         THEN UNCHANGED <<owner, password, stsImage, configOk>>
         ELSE /\ owner' = [owner EXCEPT ![k] = seen.uid]
              /\ IF k = "secret"
                 THEN \E p \in Passwords \ {database} : password' = p  \* fresh
                 ELSE UNCHANGED password
              /\ stsImage' = IF k = "sts" THEN image ELSE stsImage
              /\ configOk' = (configOk \/ k = "config")
    /\ NextChild("image")
    /\ UNCHANGED <<storeVars, profile, pod, jobs, volumeVars, cache, seen, image, obs, faults>>

(* The Job of this generation; its name carries the generation.            *)
CreateJob ==
    /\ pc = "create" /\ Head(todo) = "job"
    /\ jobs' = IF JobExists(seen.gen) THEN jobs
               ELSE jobs \cup {[gen |-> seen.gen, owner |-> seen.uid,
                                outcome |-> "running", going |-> FALSE]}
    /\ NextChild("image")
    /\ UNCHANGED <<storeVars, profile, owner, password, stsImage, pod, configOk,
                   volumeVars, cache, seen, image, obs, faults>>

BugNoImageDrift ==
    /\ pc = "image" /\ pc' = "config"
    /\ UNCHANGED <<storeVars, profile, childVars, cache, workVars, faults>>

(* Drift: the StatefulSet follows the profile this reconcile has read.     *)
FixImage ==
    /\ pc = "image" /\ pc' = "config"
    /\ stsImage' = IF Exists("sts") THEN image ELSE stsImage
    /\ UNCHANGED <<storeVars, profile, owner, password, pod, configOk, jobs,
                   volumeVars, cache, workVars, faults>>

FixConfig ==
    /\ pc = "config" /\ pc' = "storage"
    /\ configOk' = (configOk \/ Exists("config"))
    /\ UNCHANGED <<storeVars, profile, owner, password, stsImage, pod, jobs,
                   volumeVars, cache, workVars, faults>>

ReadStorage ==
    /\ pc = "storage" /\ pc' = "job"
    /\ obs' = [obs EXCEPT !.storage = Exists("sts") /\ pod = "ready"]
    /\ UNCHANGED <<storeVars, profile, childVars, cache, todo, seen, image, faults>>

BugAnyJob == jobs

(* The Job by the name of the generation this reconcile was started with.  *)
OwnJob == {j \in jobs : j.gen = seen.gen}

ReadJob ==
    /\ pc = "job"
    /\ LET failed == \E j \in OwnJob : j.outcome = "failed"
       IN /\ obs' = [obs EXCEPT !.database = \E j \in OwnJob : j.outcome = "succeeded",
                                !.failure = failed]
          /\ pc' = IF failed \/ obs.storage THEN "status" ELSE "pods"
    /\ UNCHANGED <<storeVars, profile, childVars, cache, todo, seen, image, faults>>

(* pod_failure: a pod of a store that is not ready may be in a terminal    *)
(* waiting state, unschedulable, or just starting.                         *)
ReadPods ==
    /\ pc = "pods" /\ pc' = "status"
    /\ \E trouble \in BOOLEAN : obs' = [obs EXCEPT !.failure = trouble]
    /\ UNCHANGED <<storeVars, profile, childVars, cache, todo, seen, image, faults>>

(* External topology: does the referenced Secret, not one of ours, exist?  *)
ReadExternalSecret ==
    /\ pc = "external" /\ pc' = "status"
    /\ \E present \in BOOLEAN : obs' = [obs EXCEPT !.failure = ~present]
    /\ UNCHANGED <<storeVars, profile, childVars, cache, todo, seen, image, faults>>

(* The plan_*_status functions on the cached object and what was observed. *)
PlannedPhase ==
    CASE seen.kind = "invalid" \/ obs.failure -> "Degraded"
      [] seen.kind = "external" /\ ~obs.failure -> "Ready"
      [] seen.kind = "managed" /\ ~obs.failure ->
           IF obs.storage /\ obs.database THEN "Ready" ELSE "Provisioning"

Planned == [phase |-> PlannedPhase, gen |-> seen.gen, refs |-> seen.kind # "invalid"]

(* A merge patch omits a None (skip_serializing_if), so it never clears    *)
(* the references that an earlier status has set.                          *)
Merged(old, plan) == [plan EXCEPT !.refs = old.refs \/ plan.refs]

BugComparesPhaseOnly == seen.status.phase = Planned.phase

(* patch_status_if_changed skips a status equal to that of the cached      *)
(* object.  Timestamps and messages are not modelled: a plan that agrees   *)
(* on all the rest may or may not be equal.                                *)
MayBeUnchanged == seen.status = Planned

PatchStatus ==
    /\ pc = "status"
    /\ \/ MayBeUnchanged /\ UNCHANGED cr
       \/ cr' = IF cr = NoStore THEN cr      \* 404
                ELSE [cr EXCEPT !.status = Merged(cr.status, Planned)]
    /\ Return
    /\ UNCHANGED <<lastUid, profile, childVars, cache, faults>>

-----------------------------------------------------------------------------
(* Controlled deletion.                                                    *)

(* The named children of K vanish from the cluster.                        *)
Vanish(K) ==
    /\ owner' = [k \in Named |-> IF k \in K THEN Missing ELSE owner[k]]
    /\ password' = IF "secret" \in K THEN Nothing ELSE password
    /\ stsImage' = IF "sts" \in K THEN Nothing ELSE stsImage
    /\ configOk' = (configOk /\ "config" \notin K)

(* By instance label, whoever owns them.  None of these has a finalizer;   *)
(* the pod of a StatefulSet is left to the garbage collector.              *)
DeleteNamed ==
    /\ pc = "delete" /\ Head(todo) \in Named
    /\ Vanish({Head(todo)})
    /\ NextChild("unguard")
    /\ UNCHANGED <<storeVars, profile, pod, jobs, volumeVars, cache, seen, image, obs,
                   faults>>

(* delete_collection asks for the deletion of the Jobs, which stay until   *)
(* the garbage collector has let go of their pods.                         *)
DeleteJobs ==
    /\ pc = "delete" /\ Head(todo) = "jobs"
    /\ jobs' = {[j EXCEPT !.going = TRUE] : j \in jobs}
    /\ NextChild("unguard")
    /\ UNCHANGED <<storeVars, profile, owner, password, stsImage, pod, configOk,
                   volumeVars, cache, seen, image, obs, faults>>

(* The claim data-<name>-0 carries no label and is deleted by name: that   *)
(* is requested, and the claim and its data stay while a pod uses them.    *)
DeleteVolume ==
    /\ pc = "delete" /\ Head(todo) = "volume"
    /\ claim' = IF claim = "none" THEN "none" ELSE "going"
    /\ NextChild("unguard")
    /\ UNCHANGED <<storeVars, profile, owner, password, stsImage, pod, configOk, jobs,
                   database, cache, seen, image, obs, faults>>

BugOrphansStatefulSetOnly(k) ==
    [owner EXCEPT ![k] = IF Exists(k) /\ k = "sts" THEN Orphan ELSE @]

(* orphan_if_exists; the Jobs keep their owner and go with it.             *)
Orphaned(k) == [owner EXCEPT ![k] = IF Exists(k) THEN Orphan ELSE Missing]

OrphanChild ==
    /\ pc = "orphan"
    /\ owner' = Orphaned(Head(todo))
    /\ NextChild("unguard")
    /\ UNCHANGED <<storeVars, profile, password, stsImage, pod, configOk, jobs,
                   volumeVars, cache, seen, image, obs, faults>>

(* remove_finalizer: again a merge patch by name (404 on a missing one).   *)
(* Whether anything that was deleted is gone yet is not looked at.         *)
RemoveFinalizer ==
    /\ pc = "unguard"
    /\ cr' = IF cr.deleting THEN NoStore ELSE [cr EXCEPT !.finalizer = FALSE]
    /\ Return
    /\ UNCHANGED <<lastUid, profile, childVars, cache, faults>>

Fault == faults < MaxFaults /\ faults' = faults + 1

(* A call fails, with or without effect, or the operator dies.             *)
Abort ==
    /\ pc # "idle"
    /\ Fault /\ Return
    /\ UNCHANGED <<storeVars, profile, childVars, cache>>

-----------------------------------------------------------------------------
(* Users.  A specification is not edited while its object is deleted, and  *)
(* a name is reused only when nothing of its predecessor is left, except   *)
(* what a Retain has kept: neither children nor a deletion in progress.    *)

NothingLeft ==
    /\ pc = "idle" /\ cache = NoStore
    /\ \A k \in Named : owner[k] \in {Missing, Orphan}
    /\ jobs = {} /\ claim # "going"
    /\ pod = "none" \/ Exists("sts")

CreateStore ==
    /\ cr = NoStore /\ lastUid < MaxUid
    /\ NothingLeft
    /\ lastUid' = lastUid + 1
    /\ \E k \in Kinds, p \in Policies :
         cr' = [NoStore EXCEPT !.uid = lastUid + 1, !.gen = 1, !.kind = k, !.policy = p]
    /\ UNCHANGED <<profile, childVars, cache, pc, workVars, faults>>

EditStore ==
    /\ cr # NoStore /\ ~cr.deleting /\ cr.gen < MaxGeneration
    /\ \E k \in Kinds, p \in Policies :
         cr' = [cr EXCEPT !.gen = @ + 1, !.kind = k, !.policy = p]
    /\ UNCHANGED <<lastUid, profile, childVars, cache, pc, workVars, faults>>

DeleteStore ==
    /\ cr # NoStore /\ ~cr.deleting
    /\ cr' = IF cr.finalizer THEN [cr EXCEPT !.deleting = TRUE] ELSE NoStore
    /\ UNCHANGED <<lastUid, profile, childVars, cache, pc, workVars, faults>>

SetProfile ==
    /\ \E i \in (Images \cup {Nothing}) \ {profile} : profile' = i
    /\ Fault
    /\ UNCHANGED <<storeVars, childVars, cache, pc, workVars>>

TamperConfig ==
    /\ configOk /\ configOk' = FALSE
    /\ Fault
    /\ UNCHANGED <<storeVars, profile, owner, password, stsImage, pod, jobs, volumeVars,
                   cache, pc, workVars>>

-----------------------------------------------------------------------------
(* The controllers of the cluster.                                         *)

Owned == {k \in Named : owner[k] \notin {Missing, Orphan}}
Dead(uid) == uid # cr.uid

(* What belongs to an object that is gone.                                 *)
GarbageCollect ==
    /\ \/ \E k \in Owned : Dead(owner[k]) /\ Vanish({k}) /\ UNCHANGED jobs
       \/ \E j \in jobs :
            /\ Dead(j.owner) \/ j.going
            /\ jobs' = jobs \ {j}
            /\ UNCHANGED <<owner, password, stsImage, configOk>>
    /\ UNCHANGED <<storeVars, profile, pod, volumeVars, cache, pc, workVars, faults>>

(* The StatefulSet controller makes the claim and a pod that uses it; no   *)
(* pod is scheduled with a claim that is being deleted.                    *)
PodStarts ==
    /\ Exists("sts") /\ pod = "none" /\ claim # "going"
    /\ pod' = "starting" /\ claim' = "bound"
    /\ UNCHANGED <<storeVars, profile, owner, password, stsImage, configOk, jobs,
                   database, cache, pc, workVars, faults>>

(* A container needs the Secret to start, not the StatefulSet; PostgreSQL  *)
(* takes POSTGRES_PASSWORD only when it initialises an empty volume.       *)
PodReady ==
    /\ pod = "starting" /\ Exists("secret")
    /\ pod' = "ready"
    /\ database' = IF database = Nothing THEN password ELSE database
    /\ UNCHANGED <<storeVars, profile, owner, password, stsImage, configOk, jobs, claim,
                   cache, pc, workVars, faults>>

PodDown ==
    /\ pod = "ready" /\ pod' = "starting"
    /\ Fault
    /\ UNCHANGED <<storeVars, profile, owner, password, stsImage, configOk, jobs,
                   volumeVars, cache, pc, workVars>>

(* The pod goes after its StatefulSet, ...                                 *)
PodEnds ==
    /\ pod # "none" /\ ~Exists("sts")
    /\ pod' = "none"
    /\ UNCHANGED <<storeVars, profile, owner, password, stsImage, configOk, jobs,
                   volumeVars, cache, pc, workVars, faults>>

(* ... and a claim that is being deleted, with its data, after its pod.    *)
VolumeEnds ==
    /\ claim = "going" /\ pod = "none"
    /\ claim' = "none" /\ database' = Nothing
    /\ UNCHANGED <<storeVars, profile, owner, password, stsImage, pod, configOk, jobs,
                   cache, pc, workVars, faults>>

JobEnds(j, outcome) ==
    /\ j.outcome = "running"
    /\ jobs' = (jobs \ {j}) \cup {[j EXCEPT !.outcome = outcome]}
    /\ UNCHANGED <<storeVars, profile, owner, password, stsImage, pod, configOk,
                   volumeVars, cache, pc, workVars>>

(* The script waits for the Service's pod and logs in with the Secret.     *)
JobSucceeds(j) ==
    /\ Exists("service") /\ pod = "ready" /\ Exists("secret") /\ configOk
    /\ password = database
    /\ JobEnds(j, "succeeded") /\ UNCHANGED faults

JobFails(j) == JobEnds(j, "failed") /\ Fault

Operator ==
    \/ Start \/ AddFinalizer \/ ReadProfile \/ CreateNamed \/ CreateJob
    \/ FixImage \/ FixConfig \/ ReadStorage \/ ReadJob \/ ReadPods
    \/ ReadExternalSecret \/ PatchStatus
    \/ DeleteNamed \/ DeleteJobs \/ DeleteVolume \/ OrphanChild \/ RemoveFinalizer

User == CreateStore \/ EditStore \/ DeleteStore \/ SetProfile \/ TamperConfig

Controllers ==
    \/ GarbageCollect \/ PodStarts \/ PodReady \/ PodEnds \/ VolumeEnds
    \/ \E j \in jobs : JobSucceeds(j)

Cluster == Controllers \/ PodDown \/ \E j \in jobs : JobFails(j)

Next == Observe \/ Operator \/ Abort \/ User \/ Cluster

(* Every result of a reconcile but that of a finished deletion is a        *)
(* requeue after a fixed time, and watches are re-established: the         *)
(* operator always goes on.  The controllers of the cluster go on as long  *)
(* as one of them has something to do.  Users and faults owe nothing.      *)
Fairness == WF_vars(Observe) /\ WF_vars(Operator) /\ WF_vars(Controllers)

Spec == Init /\ [][Next]_vars
FairSpec == Spec /\ Fairness

-----------------------------------------------------------------------------
StoreIs(kind) == cr # NoStore /\ cr.kind = kind
BeingErased == cr # NoStore /\ cr.deleting /\ cr.policy = "Delete"

(* The Secret fits the volume, and a volume is never left without it: a    *)
(* database whose password is lost is lost.  Only an erasure in progress   *)
(* may have removed the Secret first, and then the volume goes as well.    *)
DataKeepsItsSecret ==
    database # Nothing =>
      \/ password = database
      \/ password = Nothing /\ (BeingErased \/ claim = "going")

(* Nothing of a store is left that nobody has asked to delete.             *)
Condemned ==
    /\ \A k \in Named : ~Exists(k)
    /\ \A j \in jobs : j.going
    /\ claim # "bound"

(* The deletion of a volume is requested only for a store that is deleted  *)
(* under Delete; a managed store deleted under Delete goes only after the  *)
(* deletion of all it had was requested, and nothing was created since;    *)
(* and one deleted under Retain takes no named child along.  The operator  *)
(* does not wait for what it has deleted.                                  *)
DeletionRespectsPolicy ==
    [][ /\ claim # "going" /\ claim' = "going" => BeingErased
        /\ cr # NoStore /\ cr' = NoStore /\ cr.finalizer /\ cr.kind = "managed" =>
             IF cr.policy = "Delete" THEN Condemned'
             ELSE \A k \in Named : owner'[k] \in {Missing, Orphan} ]_vars

(* The children that a reconcile creates belong to a store that lives and  *)
(* that cannot go without the operator's consent.                          *)
ChildrenAreGuarded ==
    \A k \in Owned : owner[k] = cr.uid /\ cr.finalizer

(* Every state is well formed, and its children are guarded.               *)
Inv == TypeOK /\ ChildrenAreGuarded

(* Ready of the current generation is said only of a managed store whose   *)
(* own bootstrap has succeeded, until the store is deleted.                *)
ReadyMeansBootstrapped ==
    StoreIs("managed") /\ ~cr.deleting
      /\ cr.status.phase = "Ready" /\ cr.status.gen = cr.gen =>
        \E j \in jobs : /\ j.gen = cr.gen /\ j.owner = cr.uid
                        /\ j.outcome = "succeeded"

(* A managed store that stays comes to rest in a status of its current     *)
(* generation: Ready, unless its Job has failed or it has no profile.      *)
Blocked == profile = Nothing \/ \E j \in jobs : j.gen = cr.gen /\ j.outcome = "failed"

ProvisioningConverges ==
    <>[](StoreIs("managed") /\ ~cr.deleting) =>
        <>[](cr.status.gen = cr.gen
             /\ cr.status.phase = (IF Blocked THEN "Degraded" ELSE "Ready"))

(* The StatefulSet of a store that stays ends up with the profile's image. *)
ImageFollowsProfile ==
    <>[](StoreIs("managed") /\ ~cr.deleting) =>
        <>[](profile # Nothing => stsImage = profile)

(* Deletion with a finalizer comes to an end, and an erasure leaves        *)
(* nothing in the end, though the object does not wait for that.           *)
NothingExists ==
    /\ \A k \in Named : ~Exists(k)
    /\ jobs = {} /\ pod = "none" /\ claim = "none" /\ database = Nothing

DeletionCompletes ==
    /\ (cr # NoStore /\ cr.deleting) ~> cr = NoStore
    /\ BeingErased ~> cr = NoStore /\ NothingExists
=============================================================================
