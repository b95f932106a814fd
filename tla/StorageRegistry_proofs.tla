------------------------ MODULE StorageRegistry_proofs ------------------------
(***************************************************************************)
(* Proofs about StorageRegistry, for any number of targets, bindings and   *)
(* contexts.  The order of the bindings is reduced to the score of a       *)
(* binding; with it the winners of resolve_at are the applicable bindings  *)
(* that none beats, and the properties are facts about those.              *)
(***************************************************************************)
EXTENDS StorageRegistry, TLAPS

(* The registry holds only what the administrators wrote.                  *)
LEMMA InitType == Init => TypeOK
  BY RegistryAssumption DEF Init, TypeOK

LEMMA NextType == TypeOK /\ [Next]_vars => TypeOK'
<1> SUFFICES ASSUME TypeOK, [Next]_vars PROVE TypeOK'
  OBVIOUS
<1>1. ASSUME NEW t \in TargetIds, NEW target \in Stores, PutTarget(t, target)
      PROVE TypeOK'
  BY <1>1 DEF TypeOK, PutTarget, Inserted
<1>2. ASSUME NEW t \in TargetIds, RemoveTarget(t) PROVE TypeOK'
  BY <1>2 DEF TypeOK, RemoveTarget, Removed
<1>3. ASSUME NEW id \in BindingIds, NEW s \in Selectors, NEW t \in TargetIds,
             NEW p \in Priorities, NEW f \in BOOLEAN, NEW w \in Windows,
             PutBinding(id, [selector |-> s, target |-> t, priority |-> p,
                             fallback |-> f, from |-> w[1], until |-> w[2]])
      PROVE TypeOK'
  <2> DEFINE b == [selector |-> s, target |-> t, priority |-> p, fallback |-> f,
                   from |-> w[1], until |-> w[2]]
  <2>1. b \in BindingPolicy
    BY RegistryAssumption DEF BindingPolicy
  <2> QED
    BY <1>3, <2>1 DEF TypeOK, PutBinding, Inserted
<1>4. ASSUME NEW id \in BindingIds, RemoveBinding(id) PROVE TypeOK'
  BY <1>4 DEF TypeOK, RemoveBinding, Removed
<1>5. CASE Tick
  BY <1>5 DEF TypeOK, Tick
<1>6. CASE UNCHANGED vars
  BY <1>6 DEF TypeOK, vars
<1> QED
  BY <1>1, <1>2, <1>3, <1>4, <1>5, <1>6 DEF Next

(* Type correctness: every entry of the registry is well formed, and the   *)
(* ids are those of its domain.                                            *)
THEOREM TypeCorrect == Spec => []TypeOK
  BY InitType, NextType, PTL DEF Spec

-----------------------------------------------------------------------------
LEMMA ScoreType ==
    ASSUME NEW b \in BindingPolicy
    PROVE  b.priority \in Int /\ Specificity(b.selector) \in 0..5 /\ Score(b) \in Int
<1>1. b.priority \in Int
  BY RegistryAssumption DEF BindingPolicy
<1>2. Specificity(b.selector) \in 0..5
  BY DEF Specificity, Counts
<1> QED
  BY <1>1, <1>2 DEF Score

(* The lexicographic order of priority and specificity is that of scores.  *)
LEMMA OutranksIsScore ==
    ASSUME TypeOK, NEW a \in DOMAIN bindings, NEW b \in DOMAIN bindings
    PROVE  Outranks(a, b) <=> Score(bindings[a]) > Score(bindings[b])
<1> DEFINE pa == bindings[a].priority
           pb == bindings[b].priority
           sa == Specificity(bindings[a].selector)
           sb == Specificity(bindings[b].selector)
<1>1. pa \in Int /\ pb \in Int /\ sa \in 0..5 /\ sb \in 0..5
  BY ScoreType DEF TypeOK
<1>2. (pa > pb \/ (pa = pb /\ sa > sb)) <=> 6 * pa + sa > 6 * pb + sb
  <2> HIDE DEF pa, pb, sa, sb
  <2> QED BY <1>1
<1> QED
  BY <1>2 DEF Outranks, Score

(* A winner is an applicable binding that no applicable binding beats.     *)
LEMMA WinnersAreUnbeaten ==
    TypeOK => \A ctx \in Contexts : \A a :
      a \in Winners(ctx) <=>
        /\ a \in Candidates(ctx)
        /\ \A b \in Candidates(ctx) : ~Beats(bindings[b], bindings[a])
<1> SUFFICES ASSUME TypeOK, NEW ctx \in Contexts, NEW a
             PROVE  a \in Winners(ctx) <=>
                      /\ a \in Candidates(ctx)
                      /\ \A b \in Candidates(ctx) : ~Beats(bindings[b], bindings[a])
  OBVIOUS
<1> DEFINE C == Candidates(ctx)
<1>1. C \subseteq DOMAIN bindings
  BY DEF Candidates
<1>2. \A x \in C : bindings[x].fallback \in BOOLEAN
  BY <1>1 DEF TypeOK, BindingPolicy
<1>3. \A x, y \in C : Outranks(x, y) <=> Score(bindings[x]) > Score(bindings[y])
  BY <1>1, OutranksIsScore
<1> HIDE DEF C
<1>4. a \in Best(Eligible(C)) <=>
        a \in C /\ \A b \in C : ~Beats(bindings[b], bindings[a])
  <2>1. CASE \E id \in C : ~bindings[id].fallback
    <3>1. Eligible(C) = {id \in C : ~bindings[id].fallback}
      BY <2>1 DEF Eligible
    <3> QED
      BY <2>1, <3>1, <1>2, <1>3 DEF Best, Beats
  <2>2. CASE \A id \in C : bindings[id].fallback
    <3>1. Eligible(C) = C
      BY <2>2 DEF Eligible
    <3> QED
      BY <2>2, <3>1, <1>2, <1>3 DEF Best, Beats
  <2> QED
    BY <2>1, <2>2
<1> QED
  BY <1>4 DEF Winners, C

(* The IFs of resolve_at, read backwards.                                  *)
LEMMA ResolvedTarget ==
    \A ctx, t :
      (Resolve(ctx).ok /\ Resolve(ctx).target = t) <=>
        /\ Winners(ctx) # {}
        /\ \A a \in Winners(ctx) : bindings[a].target = t
        /\ t \in DOMAIN targets
        /\ targets[t].status = "Ready"
        /\ Compatible(targets[t], ctx)
<1> SUFFICES ASSUME NEW ctx, NEW t
             PROVE  (Resolve(ctx).ok /\ Resolve(ctx).target = t) <=>
                      /\ Winners(ctx) # {}
                      /\ \A a \in Winners(ctx) : bindings[a].target = t
                      /\ t \in DOMAIN targets
                      /\ targets[t].status = "Ready"
                      /\ Compatible(targets[t], ctx)
  OBVIOUS
<1> DEFINE W == Winners(ctx)
           c == CHOOSE id \in W : TRUE
           u == bindings[c].target
<1>1. CASE W = {}
  BY <1>1 DEF Resolve, Failure
<1>2. CASE W # {} /\ Ambiguous(W)
  BY <1>2 DEF Resolve, Failure, Ambiguous
<1>3. CASE W # {} /\ ~Ambiguous(W)
  <2>1. c \in W
    BY <1>3
  <2>2. \A a \in W : bindings[a].target = u
    BY <1>3, <2>1 DEF Ambiguous
  <2>3. Resolve(ctx) =
          IF u \notin DOMAIN targets THEN Failure("TargetNotFound")
          ELSE IF targets[u].status # "Ready" THEN Failure("TargetNotReady")
          ELSE IF ~Compatible(targets[u], ctx) THEN Failure("NoMatchingBinding")
          ELSE Success(u)
    BY <1>3 DEF Resolve
  <2> HIDE DEF c, u, W
  <2>4. (Resolve(ctx).ok /\ Resolve(ctx).target = t) <=>
          u = t /\ u \in DOMAIN targets /\ targets[u].status = "Ready"
            /\ Compatible(targets[u], ctx)
    BY <2>3 DEF Failure, Success
  <2> QED
    BY <1>3, <2>1, <2>2, <2>4 DEF W
<1> QED
  BY <1>1, <1>2, <1>3

(* is_active holds at the instants the window stands for, so what resolve_at*)
(* filters are the applicable bindings.                                    *)
LEMMA CandidatesAreApplicable ==
    TypeOK => \A ctx : Applicable(ctx) = Candidates(ctx)
<1> SUFFICES ASSUME TypeOK, NEW id \in DOMAIN bindings
             PROVE  clock \in InForce(bindings[id]) <=> IsActive(bindings[id])
  BY DEF Applicable, Candidates
<1>1. PICK b \in BindingPolicy : b = bindings[id]
  BY DEF TypeOK
<1>2. /\ clock \in Nat
      /\ b.from = Unset \/ b.from \in Nat
      /\ b.until = Unset \/ b.until \in Nat
  BY DEF TypeOK, BindingPolicy, Optional
<1>3. clock \in InForce(b) <=> IsActive(b)
  BY <1>2 DEF InForce, IsActive
<1> QED
  BY <1>1, <1>3

(* What Selected says is that the winners exist and agree.                 *)
LEMMA SelectedByWinners ==
    TypeOK => \A ctx \in Contexts : \A t :
      Selected(ctx, t) <=> /\ Winners(ctx) # {}
                           /\ \A a \in Winners(ctx) : bindings[a].target = t
<1> SUFFICES ASSUME TypeOK, NEW ctx \in Contexts, NEW t
             PROVE  Selected(ctx, t) <=>
                      /\ Winners(ctx) # {}
                      /\ \A a \in Winners(ctx) : bindings[a].target = t
  OBVIOUS
<1> DEFINE C == Candidates(ctx)
           W == Winners(ctx)
<1>1. \A x \in C : bindings[x].fallback \in BOOLEAN /\ Score(bindings[x]) \in Int
  BY ScoreType DEF Candidates, TypeOK, BindingPolicy
<1>2. \A a : a \in W <=> a \in C /\ \A b \in C : ~Beats(bindings[b], bindings[a])
  BY WinnersAreUnbeaten
<1> HIDE DEF C, W
<1>3. \A a, b \in C : Beats(bindings[a], bindings[b]) => ~Beats(bindings[b], bindings[a])
  BY <1>1 DEF Beats
<1>4. ASSUME NEW a \in C, bindings[a].target = t,
             \A b \in C : \/ Beats(bindings[a], bindings[b])
                          \/ bindings[b].target = t /\ ~Beats(bindings[b], bindings[a])
      PROVE  W # {} /\ \A w \in W : bindings[w].target = t
  BY <1>2, <1>3, <1>4
<1>5. ASSUME W # {}, \A w \in W : bindings[w].target = t
      PROVE  \E a \in C : /\ bindings[a].target = t
                          /\ \A b \in C :
                               \/ Beats(bindings[a], bindings[b])
                               \/ bindings[b].target = t /\ ~Beats(bindings[b], bindings[a])
  <2>1. PICK a \in W : TRUE
    BY <1>5
  <2>2. a \in C /\ bindings[a].target = t
    BY <1>2, <1>5, <2>1
  <2>3. ASSUME NEW b \in C, ~Beats(bindings[a], bindings[b])
        PROVE  b \in W
    <3>1. ~Beats(bindings[b], bindings[a])
      BY <1>2, <2>1
    <3>2. ASSUME NEW x \in C PROVE ~Beats(bindings[x], bindings[b])
      <4>1. ~Beats(bindings[x], bindings[a])
        BY <1>2, <2>1
      <4> QED
        BY <1>1, <2>2, <2>3, <3>1, <4>1 DEF Beats
    <3> QED
      BY <1>2, <3>2
  <2> QED
    BY <1>2, <1>5, <2>1, <2>2, <2>3
<1> QED
  BY <1>4, <1>5, CandidatesAreApplicable DEF Selected, C, W

LEMMA TypeGivesPolicy == TypeOK => ResolutionFollowsPolicy
  BY SelectedByWinners, ResolvedTarget DEF ResolutionFollowsPolicy

(* resolve_at routes a context to a target exactly when the policy, stated *)
(* on pairs of bindings, selects it and it is Ready and compatible.        *)
THEOREM ResolutionFollowsPolicyHolds == Spec => []ResolutionFollowsPolicy
  BY TypeCorrect, TypeGivesPolicy, PTL

(* A context that is routed has winners, and goes where all of them point. *)
WinnersDecide ==
    \A ctx \in Contexts : Resolve(ctx).ok =>
      /\ Winners(ctx) # {}
      /\ \A a \in Winners(ctx) : bindings[a].target = Resolve(ctx).target

LEMMA RoutedByWinners == WinnersDecide
  BY ResolvedTarget DEF WinnersDecide

LEMMA WinnersFollowBindings ==
    bindings' = bindings /\ clock' = clock =>
      \A ctx \in Contexts : Winners(ctx)' = Winners(ctx)
  BY DEF Winners, Best, Eligible, Outranks, Candidates, IsActive

(* What happens to targets alone never moves a context from one target to  *)
(* another.                                                                *)
THEOREM NoSilentRerouteHolds == Spec => NoSilentReroute
<1>1. WinnersDecide /\ WinnersDecide' =>
        [ bindings' = bindings /\ clock' = clock =>
            \A ctx \in Contexts :
              Resolve(ctx).ok /\ Resolve(ctx)'.ok =>
                Resolve(ctx)'.target = Resolve(ctx).target ]_vars
  <2> SUFFICES ASSUME WinnersDecide, WinnersDecide',
                      bindings' = bindings, clock' = clock,
                      NEW ctx \in Contexts, Resolve(ctx).ok, Resolve(ctx)'.ok
               PROVE  Resolve(ctx)'.target = Resolve(ctx).target
    OBVIOUS
  <2>1. Winners(ctx)' = Winners(ctx)
    BY WinnersFollowBindings
  <2>2. PICK a \in Winners(ctx) : bindings[a].target = Resolve(ctx).target
    BY DEF WinnersDecide
  <2>3. bindings'[a].target = Resolve(ctx)'.target
    BY <2>1 DEF WinnersDecide
  <2> QED
    BY <2>2, <2>3
<1> QED
  BY <1>1, RoutedByWinners, PTL DEF NoSilentReroute
=============================================================================
