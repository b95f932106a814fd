---------------------------- MODULE MCFoundation ----------------------------
(* Checks AssetStore, PartyDirectory, AccessControl, CommerceSandbox and   *)
(* ContentStore.  They share no state: a behaviour uses one of the five,   *)
(* and one aspect of it, so that their states add up and do not multiply.  *)
EXTENDS AssetStore, PartyDirectory, AccessControl, CommerceSandbox, ContentStore,
        TLC

Scanned ==
    \/ \E b \in Blobs : blobs[b].scan # "Pending"
    \/ \E a \in Assets :
         \/ assets[a].state \in {"Active", "Quarantined"}
         \/ \E v \in DOMAIN assets[a].versions : assets[a].versions[v].tainted

(* Scans, renditions, collections and a second organization share no state *)
(* but the assets, and are explored apart; scans without holds, and with   *)
(* two versions of one asset only.                                         *)
OneAspectOfAssets ==
    /\ Scanned =>
         /\ renditions = {} /\ \A a \in Assets : assets[a].holds = {}
         /\ Cardinality({a \in Assets : Len(assets[a].versions) > 1}) <= 1
    /\ collections # <<>> => ~Scanned /\ renditions = {}
    /\ \/ \A b, c \in Blobs : blobs[b].org = blobs[c].org
       \/ ~Scanned /\ \A a \in Assets : Len(assets[a].versions) = 1

(* Hierarchies are explored apart from merging, which leaves them alone.   *)
OneAspectOfParties ==
    \/ relations = {} /\ Len(parties) <= 3
    \/ /\ \A p \in DOMAIN parties :
            parties[p].own = {} /\ parties[p].status = "Active" /\ parties[p].into = 0
       /\ Cardinality(relations) <= 3

RightsGiven == Len(grants) + Len(delegations) + Len(policies)

(* Identities, and roles besides the built-in one, are explored apart.     *)
OneAspectOfAccess ==
    /\ identities = {} \/ RightsGiven = 0
    /\ Len(roles) = 1 \/ (RightsGiven = 0 /\ groups = <<>> /\ identities = {})

Count(seq, Such(_)) == Cardinality({n \in DOMAIN seq : Such(seq[n])})

(* What clients have done to checkouts that are not their own.             *)
Interventions ==
    Count(reservations, LAMBDA r : r = Released)
      + Count(budgetReservations, LAMBDA r : r = Released)
      + Count(orders, LAMBDA o : o.state = "cancelled")
      + Count(payments, LAMBDA p : p.state = "cancelled")
      + Count(quotes, LAMBDA q : q.state = "rejected")

Overlap == \E m, n \in DOMAIN calls : m # n /\ Running(m) /\ Running(n)

(* One intervention, and none while checkouts overlap; carts of two pieces *)
(* which do not change any more once the last checkout has begun.  As keys *)
(* are only compared, that of the first checkout is any.                   *)
OneAspectOfCommerce ==
    /\ Interventions' <= IF Overlap' THEN 0 ELSE 1
    /\ calls' # <<>> => calls'[1].key = CHOOSE key \in Keys : TRUE
    /\ \A c \in DOMAIN carts :
         /\ Total(carts'[c].lines) <= 2
         /\ Len(calls) = MaxCalls => carts'[c].lines = carts[c].lines

(* Replacements of assignments meet each other and deletions; updates and  *)
(* changes of the status do not meet them, and come before them.  Of two   *)
(* idle connections, which are the same, the first is taken.               *)
OneAspectOfContents ==
    /\ time' > 0 =>
         /\ \A o \in DOMAIN contents' :
              /\ Len(contentVersions'[o]) <= 1
              /\ contents'[o] \in
                   {NoRow} \union [org : {"org"}, status : {"draft"}, data : Datas]
         /\ \A c \in Connections :
              transactions'[c] # Idle => transactions'[c].stage \notin {"update", "commit"}
    /\ \A c, d \in Connections :
         transactions[c] = Idle /\ transactions'[c] # Idle /\ d < c
           => transactions[d] # Idle

-----------------------------------------------------------------------------
Init == AssetInit /\ PartyInit /\ AccessInit /\ CommerceInit /\ ContentInit

UseAssets ==
    /\ PartyInit /\ AccessInit /\ CommerceInit /\ ContentInit
    /\ UNCHANGED <<partyVars, accessVars, commerceVars, contentVars>>
    /\ AssetNext /\ OneAspectOfAssets'

UseParties ==
    /\ AssetInit /\ AccessInit /\ CommerceInit /\ ContentInit
    /\ UNCHANGED <<assetVars, accessVars, commerceVars, contentVars>>
    /\ PartyNext /\ OneAspectOfParties'

UseAccess ==
    /\ AssetInit /\ PartyInit /\ CommerceInit /\ ContentInit
    /\ UNCHANGED <<assetVars, partyVars, commerceVars, contentVars>>
    /\ AccessNext /\ OneAspectOfAccess'

UseCommerce ==
    /\ AssetInit /\ PartyInit /\ AccessInit /\ ContentInit
    /\ UNCHANGED <<assetVars, partyVars, accessVars, contentVars>>
    /\ CommerceNext /\ OneAspectOfCommerce

UseContents ==
    /\ AssetInit /\ PartyInit /\ AccessInit /\ CommerceInit
    /\ UNCHANGED <<assetVars, partyVars, accessVars, commerceVars>>
    /\ ContentNext /\ OneAspectOfContents

Next == UseAssets \/ UseParties \/ UseAccess \/ UseCommerce \/ UseContents

Spec ==
    Init /\ [][Next]_<<assetVars, partyVars, accessVars, commerceVars, contentVars>>

TypeOK ==
    AssetTypeOK /\ PartyTypeOK /\ AccessTypeOK /\ CommerceTypeOK /\ ContentTypeOK

(* The five are of their types, and the content store shows what was asked *)
(* of it: the assignments of an object are those of the request that       *)
(* replaced them last (set_channel_assignments) with what was committed    *)
(* while that ran, and its data is that of its last version                *)
(* (insert_version), however transactions overlap, wait and fail.          *)
FoundationInv == TypeOK /\ ChannelsAsAsked /\ HistoryEndsInPresent

Sym == UNION {Permutations(S) :
         S \in {Contents, Tenants, Identifiers}}

-----------------------------------------------------------------------------
MCWebsiteOrg == [w \in Websites |-> IF w = "foreign" THEN "other" ELSE "org"]

MCAssignmentInputs ==
    {<<>>, <<"main">>, <<"jobs">>, <<"main", "jobs">>, <<"main", "main">>, <<"foreign">>}

(* One piece less of what the contract does not allow.                     *)
MCInitialStock == [p \in Products |-> IF p \in AllowedProducts THEN 2 ELSE 1]

MCBuiltinRoles == <<{"write"}>>

(* To a principal or the group, for a period or at once.                   *)
MCGrantInputs ==
    {[principal |-> t[1], group |-> t[2], role |-> 1, scope |-> w[1], from |-> w[2],
      until |-> w[3], revoked |-> 0] :
       t \in {<<1, 0>>, <<2, 0>>, <<0, 1>>},
       w \in {<<"anywhere", 2, 3>>, <<"room2", 0, 0>>}}

MCDelegationInputs ==
    {[from_principal |-> 1, to_principal |-> p, permissions |-> {"write"},
      scope |-> w[1], from |-> w[2], until |-> w[3], revoked |-> 0] :
       p \in {1, 2}, w \in {<<"anywhere", 1, 2>>, <<"room1", 2, 3>>}}

MCPolicyInputs ==
    {[effect |-> e, permissions |-> {"write"}, principal |-> t[1], group |-> t[2],
      resources |-> {"room1"}, enabled |-> TRUE] :
       e \in {"Allow", "Deny"}, t \in {<<0, 0>>, <<2, 0>>, <<0, 1>>}}
=============================================================================
