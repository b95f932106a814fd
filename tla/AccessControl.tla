--------------------------- MODULE AccessControl ---------------------------
(***************************************************************************)
(* Identity and access, src/crates/foundation/identity-access/src/lib.rs:  *)
(* principals and the external identities linked to them, groups, roles,   *)
(* grants, delegations and policies, the decision whether a principal may  *)
(* do something, and the list of what he may do.                           *)
(*                                                                         *)
(* The calls are atomic; administrators make them in any order while time  *)
(* passes.                                                                 *)
(*                                                                         *)
(* Abstracted: one organization; the n-th entry of a sequence has the id n;*)
(* a pattern of permissions is the set of those it matches, and the types  *)
(* and conditions of a policy are the set of resources they fit; kinds of  *)
(* principals, names, keys of roles (two of one key are refused),          *)
(* obligations, and priorities, which only choose which of several denials *)
(* is named.                                                               *)
(*                                                                         *)
(* Definitions named Bug... are not the code: each is a mistake that a     *)
(* property below must notice when it replaces the definition after it.    *)
(***************************************************************************)
EXTENDS Naturals, Sequences, FiniteSets

CONSTANTS
    Permissions, Resources,
    ForeignResources,    \* those of other organizations
    Subjects,            \* provider, issuer and subject of an external identity
    BuiltinRoles,        \* permissions of the roles that are there from the start
    Anywhere,            \* a scope that is the organization, or has no id
    Assurances,          \* ranks of assurance levels
    GrantInputs, DelegationInputs, PolicyInputs,
    MaxPrincipals, MaxGroups, MaxRoles, MaxSources, MaxIdentities, MaxAccessTime

Scope == Resources \cup {Anywhere}

(* Ids of principals and groups are 0 for None; so are instants, which     *)
(* begin at 1.                                                             *)
RoleGrant == [principal : Nat, group : Nat, role : Nat, scope : Scope,
              from : Nat, until : Nat, revoked : Nat]
Delegation == [from_principal : Nat, to_principal : Nat,
               permissions : SUBSET Permissions, scope : Scope,
               from : Nat, until : Nat, revoked : Nat]
PolicyRule == [effect : {"Allow", "Deny"}, permissions : SUBSET Permissions,
               principal : Nat, group : Nat, resources : SUBSET Resources,
               enabled : BOOLEAN]
ExternalIdentity == [subject : Subjects, principal : Nat]

ASSUME AccessControlAssumption ==
    /\ ForeignResources \subseteq Resources /\ Anywhere \notin Resources
    /\ BuiltinRoles \in Seq(SUBSET Permissions)
    /\ Assurances \subseteq Nat
    /\ GrantInputs \subseteq {g \in RoleGrant : g.revoked = 0}
    /\ DelegationInputs \subseteq {d \in Delegation : d.revoked = 0}
    /\ PolicyInputs \subseteq PolicyRule
    /\ {MaxPrincipals, MaxGroups, MaxRoles, MaxSources, MaxIdentities, MaxAccessTime}
         \subseteq Nat

VARIABLES principals, groups, roles, grants, delegations, policies, identities,
          accessClock

sources == <<roles, grants, delegations, policies>>
accessVars == <<principals, groups, sources, identities, accessClock>>

AccessTypeOK ==
    /\ principals \in Seq({"Active", "Disabled"})
    /\ groups \in Seq(SUBSET DOMAIN principals)
    /\ roles \in Seq(SUBSET Permissions)
    /\ grants \in Seq(RoleGrant)
    /\ \A g \in DOMAIN grants :
         grants[g].role \in DOMAIN roles /\ grants[g].principal \in 0..Len(principals)
    /\ delegations \in Seq(Delegation)
    /\ \A d \in DOMAIN delegations :
         {delegations[d].from_principal, delegations[d].to_principal}
           \subseteq DOMAIN principals
    /\ policies \in Seq(PolicyRule)
    /\ identities \subseteq ExternalIdentity
    /\ \A i \in identities : i.principal \in DOMAIN principals
    /\ \A i, j \in identities : i.subject = j.subject => i = j
    /\ accessClock \in Nat \ {0}

AccessInit ==
    /\ principals = <<>> /\ groups = <<>> /\ roles = BuiltinRoles /\ grants = <<>>
    /\ delegations = <<>> /\ policies = <<>>
    /\ identities = {}
    /\ accessClock = 1

-----------------------------------------------------------------------------
(* PrincipalProvider, GroupProvider and RoleProvider.                      *)

CreatePrincipal ==
    /\ Len(principals) < MaxPrincipals
    /\ principals' = Append(principals, "Active")
    /\ UNCHANGED <<groups, sources, identities, accessClock>>

DisablePrincipal(p) ==
    /\ principals' = [principals EXCEPT ![p] = "Disabled"]
    /\ UNCHANGED <<groups, sources, identities, accessClock>>

CreateGroup ==
    /\ Len(groups) < MaxGroups
    /\ groups' = Append(groups, {})
    /\ UNCHANGED <<principals, sources, identities, accessClock>>

AddMember(group, p) ==
    /\ groups' = [groups EXCEPT ![group] = @ \cup {p}]
    /\ UNCHANGED <<principals, sources, identities, accessClock>>

RemoveMember(group, p) ==
    /\ groups' = [groups EXCEPT ![group] = @ \ {p}]
    /\ UNCHANGED <<principals, sources, identities, accessClock>>

RegisterRole(permissions) ==
    /\ Len(roles) < MaxRoles
    /\ roles' = Append(roles, permissions)
    /\ UNCHANGED <<principals, groups, grants, delegations, policies, identities,
                   accessClock>>

UpdateRolePermissions(role, permissions) ==
    /\ roles' = [roles EXCEPT ![role] = permissions]
    /\ UNCHANGED <<principals, groups, grants, delegations, policies, identities,
                   accessClock>>

-----------------------------------------------------------------------------
(* GrantProvider.  A bound on all that rights come from.                   *)

MoreSources == Len(grants) + Len(delegations) + Len(policies) < MaxSources

(* A grant to a group alone asks that the caller exists, not the group.    *)
Grant(caller, grant) ==
    /\ MoreSources
    /\ grant.principal = 0 => caller \in DOMAIN principals
    /\ grant.principal # 0 => grant.principal \in DOMAIN principals
    /\ grant.role \in DOMAIN roles
    /\ grants' = Append(grants, grant)
    /\ UNCHANGED <<principals, groups, roles, delegations, policies, identities,
                   accessClock>>

(* One that is revoked may be revoked again, later.                        *)
RevokeGrant(g) ==
    /\ grants' = [grants EXCEPT ![g].revoked = accessClock]
    /\ UNCHANGED <<principals, groups, roles, delegations, policies, identities,
                   accessClock>>

(* Whether the delegator has the permissions is not asked, now or later.   *)
Delegate(delegation) ==
    /\ MoreSources
    /\ delegation.from_principal \in DOMAIN principals
    /\ delegation.to_principal \in DOMAIN principals
    /\ delegation.until > delegation.from
    /\ delegations' = Append(delegations, delegation)
    /\ UNCHANGED <<principals, groups, roles, grants, policies, identities, accessClock>>

RevokeDelegation(d) ==
    /\ delegations' = [delegations EXCEPT ![d].revoked = accessClock]
    /\ UNCHANGED <<principals, groups, roles, grants, policies, identities, accessClock>>

-----------------------------------------------------------------------------
(* FederationProvider and PolicyProvider.                                  *)

Linked(subject, p) == \E i \in identities : i.subject = subject

LinkIdentity(subject, p) ==
    /\ Cardinality(identities) < MaxIdentities
    /\ ~Linked(subject, p)
    /\ identities' = identities \cup {[subject |-> subject, principal |-> p]}
    /\ UNCHANGED <<principals, groups, sources, accessClock>>

UnlinkIdentity(identity) ==
    /\ identities' = identities \ {identity}
    /\ UNCHANGED <<principals, groups, sources, accessClock>>

AddPolicy(policy) ==
    /\ MoreSources
    /\ policies' = Append(policies, policy)
    /\ UNCHANGED <<principals, groups, roles, grants, delegations, identities,
                   accessClock>>

DisablePolicy(r) ==
    /\ policies' = [policies EXCEPT ![r].enabled = FALSE]
    /\ UNCHANGED <<principals, groups, roles, grants, delegations, identities,
                   accessClock>>

AccessTick ==
    /\ accessClock < MaxAccessTime
    /\ accessClock' = accessClock + 1
    /\ UNCHANGED <<principals, groups, sources, identities>>

-----------------------------------------------------------------------------
(* AuthorizationProvider: decide.                                          *)

GroupIdsFor(p) == {g \in DOMAIN groups : p \in groups[g]}

ScopeMatches(scope, resource) == scope \in {Anywhere, resource}

Started(from) == from <= accessClock
Ended(until) == until # 0 /\ until <= accessClock

BugInForce(revoked) == revoked = 0 \/ revoked >= accessClock
InForce(revoked) == revoked = 0

BugDirect(p, permission, resource) ==
    {g \in DOMAIN grants :
       LET grant == grants[g] IN
       /\ grant.principal = p \/ grant.group \in GroupIdsFor(p)
       /\ InForce(grant.revoked)
       /\ Started(grant.from) /\ ~(grant.until # 0 /\ grant.until < accessClock)
       /\ ScopeMatches(grant.scope, resource)
       /\ permission \in roles[grant.role]}

Direct(p, permission, resource) ==
    {g \in DOMAIN grants :
       LET grant == grants[g] IN
       /\ grant.principal = p \/ grant.group \in GroupIdsFor(p)
       /\ InForce(grant.revoked)
       /\ Started(grant.from) /\ ~Ended(grant.until)
       /\ ScopeMatches(grant.scope, resource)
       /\ permission \in roles[grant.role]}

Delegated(p, permission, resource) ==
    {d \in DOMAIN delegations :
       LET delegation == delegations[d] IN
       /\ delegation.to_principal = p
       /\ InForce(delegation.revoked)
       /\ Started(delegation.from) /\ ~Ended(delegation.until)
       /\ ScopeMatches(delegation.scope, resource)
       /\ permission \in delegation.permissions}

MatchingPolicies(p, permission, resource) ==
    {r \in DOMAIN policies :
       LET policy == policies[r] IN
       /\ policy.enabled
       /\ permission \in policy.permissions
       /\ policy.principal \in {0, p}
       /\ policy.group \in {0} \cup GroupIdsFor(p)
       /\ resource \in policy.resources}

Policies(effect, p, permission, resource) ==
    {r \in MatchingPolicies(p, permission, resource) : policies[r].effect = effect}

Allowed(p, permission, resource, assurance, required) ==
    /\ principals[p] = "Active"
    /\ resource \notin ForeignResources
    /\ assurance >= required
    /\ Policies("Deny", p, permission, resource) = {}
    /\ \/ Direct(p, permission, resource) # {}
       \/ Delegated(p, permission, resource) # {}
       \/ Policies("Allow", p, permission, resource) # {}

(* The loops of effective_permissions over grants and delegations, with    *)
(* tests of their own.                                                     *)
GrantsListed(p, resource) ==
    {g \in DOMAIN grants :
       /\ InForce(grants[g].revoked)
       /\ grants[g].principal = p \/ grants[g].group \in GroupIdsFor(p)
       /\ ~(grants[g].from > accessClock)
       /\ ~(grants[g].until # 0 /\ grants[g].until <= accessClock)
       /\ ScopeMatches(grants[g].scope, resource)}

DelegationsListed(p) ==
    {d \in DOMAIN delegations :
       /\ delegations[d].to_principal = p
       /\ InForce(delegations[d].revoked)
       /\ delegations[d].from <= accessClock
       /\ delegations[d].until > accessClock}

(* Neither the status of the principal nor policies nor the scope of a     *)
(* delegation are looked at.                                               *)
EffectivePermissions(p, resource) ==
    (UNION {roles[grants[g].role] : g \in GrantsListed(p, resource)})
      \cup (UNION {delegations[d].permissions : d \in DelegationsListed(p)})

-----------------------------------------------------------------------------
ManagePrincipals ==
    \/ CreatePrincipal \/ CreateGroup
    \/ \E p \in DOMAIN principals :
         \/ DisablePrincipal(p)
         \/ \E g \in DOMAIN groups : AddMember(g, p) \/ RemoveMember(g, p)
         \/ \E subject \in Subjects : LinkIdentity(subject, p)
    \/ \E i \in identities : UnlinkIdentity(i)

Give ==
    \/ \E permissions \in SUBSET Permissions :
         \/ RegisterRole(permissions)
         \/ \E role \in DOMAIN roles : UpdateRolePermissions(role, permissions)
    \/ \E p \in DOMAIN principals, grant \in GrantInputs : Grant(p, grant)
    \/ \E delegation \in DelegationInputs : Delegate(delegation)
    \/ \E policy \in PolicyInputs : AddPolicy(policy)

Take ==
    \/ \E g \in DOMAIN grants : RevokeGrant(g)
    \/ \E d \in DOMAIN delegations : RevokeDelegation(d)
    \/ \E r \in DOMAIN policies : DisablePolicy(r)

AccessNext == ManagePrincipals \/ Give \/ Take \/ AccessTick

AccessSpec == AccessInit /\ [][AccessNext]_accessVars

-----------------------------------------------------------------------------
(* The list of effective permissions, a separate computation, agrees with  *)
(* the decisions, to the instant at which a grant begins and ends: it has  *)
(* all that is granted or delegated for a resource, and of an active       *)
(* principal to whom no policy applies no more than that, save what is     *)
(* delegated for other resources only.                                     *)
DelegatedElsewhere(p, permission) ==
    \E resource \in Resources : Delegated(p, permission, resource) # {}

ListingAgrees ==
    \A p \in DOMAIN principals, permission \in Permissions,
       resource \in Resources \ ForeignResources :
      LET listed == permission \in EffectivePermissions(p, resource) IN
      /\ \/ Direct(p, permission, resource) # {}
         \/ Delegated(p, permission, resource) # {}
         => listed
      /\ /\ listed /\ principals[p] = "Active"
         /\ MatchingPolicies(p, permission, resource) = {}
         => \/ Allowed(p, permission, resource, 0, 0)
            \/ DelegatedElsewhere(p, permission)

(* What is meant to take a right away gives nobody a right, whatever was   *)
(* revoked, disabled or has ended before.                                  *)
Rights ==
    {right \in (DOMAIN principals) \X Permissions \X Resources \X Assurances :
       Allowed(right[1], right[2], right[3], right[4], 0)}

TakesAway ==
    \/ \E p \in DOMAIN principals : DisablePrincipal(p)
    \/ \E g \in DOMAIN grants : RevokeGrant(g)
    \/ \E d \in DOMAIN delegations : RevokeDelegation(d)
    \/ \E policy \in PolicyInputs : policy.effect = "Deny" /\ AddPolicy(policy)
    \/ \E r \in DOMAIN policies : policies[r].effect = "Allow" /\ DisablePolicy(r)
    \/ \E i \in identities : UnlinkIdentity(i)

TakingGivesNothing == [][TakesAway => Rights' \subseteq Rights]_accessVars
=============================================================================
