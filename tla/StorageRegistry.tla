--------------------------- MODULE StorageRegistry ---------------------------
(***************************************************************************)
(* The in-memory registry of storage targets and binding policies and its  *)
(* resolver: src/crates/platform/data-residency/src/lib.rs.                *)
(*                                                                         *)
(* The registry is mutated one entry at a time; resolve_at is a function   *)
(* of the registry, the time and the context of a request.                 *)
(*                                                                         *)
(* Definitions named Bug... are not the code: each is a mistake that a     *)
(* property below must notice when it replaces the definition after it.    *)
(***************************************************************************)
EXTENDS Integers

CONSTANTS
    TargetIds, BindingIds,
    Orgs, Regions, Domains, Categories,
    Unset,         \* an Option that is None
    TopClass,      \* data classifications are 0..TopClass, Public first
    Statuses,      \* values of StorageTargetStatus, "Ready" among them
    Contexts,      \* the contexts of requests
    Stores,        \* the StorageTargets administrators write
    Selectors,     \* the selectors of the policies administrators write
    Windows,       \* their activity windows, pairs of from and until
    Priorities,
    MaxTime        \* bound on the clock

VARIABLES
    targets,   \* id -> StorageTarget
    bindings,  \* id -> BindingPolicy
    clock

vars == <<targets, bindings, clock>>

Optional(S) == S \cup {Unset}

StorageContext == [org : Orgs, domain : Domains, category : Categories,
                   class : 0..TopClass, region : Optional(Regions)]

BindingSelector == [org : Optional(Orgs), domain : Optional(Domains),
                    category : Optional(Categories),
                    minClass : Optional(0..TopClass), region : Optional(Regions)]

StorageTarget == [region : Regions, status : Statuses, org : Optional(Orgs)]

BindingPolicy == [selector : Selectors, target : TargetIds, priority : Priorities,
                  fallback : BOOLEAN, from : Optional(Nat), until : Optional(Nat)]

(* BindingPolicy::validate: an activity window is not empty.               *)
ValidWindow(from, until) == from # Unset /\ until # Unset => from < until

ASSUME RegistryAssumption ==
    /\ TopClass \in Nat
    /\ Contexts \subseteq StorageContext
    /\ Stores \subseteq StorageTarget
    /\ Selectors \subseteq BindingSelector
    /\ Windows \subseteq Optional(Nat) \X Optional(Nat)
    /\ \A w \in Windows : ValidWindow(w[1], w[2])
    /\ Priorities \subseteq Int
    /\ MaxTime \in Nat
    /\ Unset \notin Orgs \cup Regions \cup Domains \cup Categories

TypeOK ==
    /\ DOMAIN targets \subseteq TargetIds
    /\ \A t \in DOMAIN targets : targets[t] \in Stores
    /\ DOMAIN bindings \subseteq BindingIds
    /\ \A b \in DOMAIN bindings : bindings[b] \in BindingPolicy
    /\ clock \in Nat

Init ==
    /\ targets = [t \in {} |-> Unset]
    /\ bindings = [b \in {} |-> Unset]
    /\ clock = 0

-----------------------------------------------------------------------------
(* The registry: BTreeMap::insert and BTreeMap::remove.                    *)
BugLeavesHole(f, k) == [f EXCEPT ![k] = Unset]

Inserted(f, k, v) == [x \in DOMAIN f \cup {k} |-> IF x = k THEN v ELSE f[x]]
Removed(f, k) == [x \in DOMAIN f \ {k} |-> f[x]]

PutTarget(t, target) ==
    /\ targets' = Inserted(targets, t, target)
    /\ UNCHANGED <<bindings, clock>>

(* Bindings that name the target stay.                                     *)
RemoveTarget(t) ==
    /\ t \in DOMAIN targets
    /\ targets' = Removed(targets, t)
    /\ UNCHANGED <<bindings, clock>>

(* put_binding refuses a target that does not exist at that moment.        *)
PutBinding(id, b) ==
    /\ b.target \in DOMAIN targets
    /\ bindings' = Inserted(bindings, id, b)
    /\ UNCHANGED <<targets, clock>>

RemoveBinding(id) ==
    /\ id \in DOMAIN bindings
    /\ bindings' = Removed(bindings, id)
    /\ UNCHANGED <<targets, clock>>

Tick ==
    /\ clock < MaxTime /\ clock' = clock + 1
    /\ UNCHANGED <<targets, bindings>>

Next ==
    \/ \E t \in TargetIds, target \in Stores : PutTarget(t, target)
    \/ \E t \in TargetIds : RemoveTarget(t)
    \/ \E id \in BindingIds, s \in Selectors, t \in TargetIds, p \in Priorities,
          f \in BOOLEAN, w \in Windows :
         PutBinding(id, [selector |-> s, target |-> t, priority |-> p, fallback |-> f,
                         from |-> w[1], until |-> w[2]])
    \/ \E id \in BindingIds : RemoveBinding(id)
    \/ Tick

Spec == Init /\ [][Next]_vars

-----------------------------------------------------------------------------
(* resolve_at.                                                             *)

BugClosedAtTheEnd(b) ==
    /\ b.from = Unset \/ clock >= b.from
    /\ b.until = Unset \/ clock <= b.until

IsActive(b) ==
    /\ b.from = Unset \/ clock >= b.from
    /\ b.until = Unset \/ clock < b.until

Wants(option, value) == option = Unset \/ option = value

Matches(s, ctx) ==
    /\ Wants(s.org, ctx.org)
    /\ Wants(s.domain, ctx.domain)
    /\ Wants(s.category, ctx.category)
    /\ s.minClass = Unset \/ ctx.class >= s.minClass
    /\ Wants(s.region, ctx.region)

Counts(option) == IF option = Unset THEN 0 ELSE 1

Specificity(s) ==
    Counts(s.org) + Counts(s.domain) + Counts(s.category) + Counts(s.minClass)
      + Counts(s.region)

BugSkipsUnreadyTargets(ctx) ==
    {id \in DOMAIN bindings :
       /\ IsActive(bindings[id]) /\ Matches(bindings[id].selector, ctx)
       /\ bindings[id].target \in DOMAIN targets
       /\ targets[bindings[id].target].status = "Ready"}

Candidates(ctx) ==
    {id \in DOMAIN bindings :
       IsActive(bindings[id]) /\ Matches(bindings[id].selector, ctx)}

BugFallbackCompetes(ids) == ids

(* Fallbacks count only without a regular candidate.                       *)
Eligible(ids) ==
    IF \E id \in ids : ~bindings[id].fallback
    THEN {id \in ids : ~bindings[id].fallback} ELSE ids

(* The tuple (priority, specificity) in its lexicographic order.           *)
Outranks(a, b) ==
    \/ bindings[a].priority > bindings[b].priority
    \/ /\ bindings[a].priority = bindings[b].priority
       /\ Specificity(bindings[a].selector) > Specificity(bindings[b].selector)

Best(ids) == {a \in ids : \A b \in ids : ~Outranks(b, a)}

Winners(ctx) == Best(Eligible(Candidates(ctx)))

(* ensure_target_compatible                                                *)
Compatible(target, ctx) ==
    /\ Wants(target.org, ctx.org)
    /\ ctx.region = Unset \/ ctx.region = target.region

Failure(error) == [ok |-> FALSE, target |-> Unset, error |-> error]
Success(t) == [ok |-> TRUE, target |-> t, error |-> "None"]

Ambiguous(ids) == \E a, b \in ids : bindings[a].target # bindings[b].target

Resolve(ctx) ==
    LET winners == Winners(ctx)
        t == bindings[CHOOSE id \in winners : TRUE].target  \* the same for all
    IN  IF winners = {} THEN Failure("NoMatchingBinding")
        ELSE IF Ambiguous(winners) THEN Failure("AmbiguousBinding")
        ELSE IF t \notin DOMAIN targets THEN Failure("TargetNotFound")
        ELSE IF targets[t].status # "Ready" THEN Failure("TargetNotReady")
        ELSE IF ~Compatible(targets[t], ctx) THEN Failure("NoMatchingBinding")
        ELSE Success(t)

-----------------------------------------------------------------------------
(* The policy of the ADR and the threat model, stated on pairs of bindings *)
(* and independently of the steps of resolve_at.                           *)

Score(b) == 6 * b.priority + Specificity(b.selector)   \* Specificity is at most 5

Beats(a, b) ==
    \/ ~a.fallback /\ b.fallback
    \/ a.fallback = b.fallback /\ Score(a) > Score(b)

(* The instants a window stands for: its end belongs to the next window.   *)
InForce(b) ==
    LET first == IF b.from = Unset THEN 0 ELSE b.from
    IN  IF b.until = Unset THEN Nat \ 0..first - 1 ELSE first..b.until - 1

Applicable(ctx) ==
    {id \in DOMAIN bindings :
       clock \in InForce(bindings[id]) /\ Matches(bindings[id].selector, ctx)}

(* No applicable binding beats one of t's, and every rival that is not     *)
(* beaten agrees on t.                                                     *)
Selected(ctx, t) ==
    \E a \in Applicable(ctx) :
        /\ bindings[a].target = t
        /\ \A b \in Applicable(ctx) :
             \/ Beats(bindings[a], bindings[b])
             \/ bindings[b].target = t /\ ~Beats(bindings[b], bindings[a])

(* A context is routed to t exactly when the policy selects t, t is Ready, *)
(* and t belongs to no other organization and lies in the region asked for.*)
ResolutionFollowsPolicy ==
    \A ctx \in Contexts, t \in TargetIds :
        (Resolve(ctx).ok /\ Resolve(ctx).target = t) <=>
            /\ Selected(ctx, t)
            /\ t \in DOMAIN targets
            /\ targets[t].status = "Ready"
            /\ Compatible(targets[t], ctx)

(* Fail closed: what happens to targets alone (they are removed, degraded, *)
(* moved or reassigned) may end the routing of a context but never moves   *)
(* it to another target.                                                   *)
NoSilentReroute ==
    [][ bindings' = bindings /\ clock' = clock =>
          \A ctx \in Contexts :
              Resolve(ctx).ok /\ Resolve(ctx)'.ok =>
                  Resolve(ctx)'.target = Resolve(ctx).target ]_vars

=============================================================================
