--------------------------- MODULE PartyDirectory ---------------------------
(***************************************************************************)
(* Parties, src/crates/foundation/party/src/lib.rs: persons and            *)
(* organizations with their identifiers, the relationships between them    *)
(* and the hierarchies these make, and the merging of duplicates.          *)
(*                                                                         *)
(* The calls are atomic; clerks of a tenant make them in any order, those  *)
(* that make little sense too: a party that was merged may be archived,    *)
(* merged again or made a survivor, even of itself.                        *)
(*                                                                         *)
(* Abstracted: the n-th party has the id n; an identifier stands for its   *)
(* scheme and value; names, contacts, addresses, sources, roles and the    *)
(* periods of relationships, which no operation that is modelled reads.    *)
(*                                                                         *)
(* Definitions named Bug... are not the code: each is a mistake that a     *)
(* property below must notice when it replaces the definition after it.    *)
(***************************************************************************)
EXTENDS Naturals, Sequences, FiniteSets

CONSTANTS
    PartyTenants, Identifiers,
    RelationKinds,
    MaxParties

ASSUME PartyDirectoryAssumption == MaxParties \in Nat

VARIABLES
    parties, relations,
    orderly      \* no party that was merged has been touched since (history)

partyVars == <<parties, relations, orderly>>

PartyStatus == {"Active", "Archived", "Merged"}

(* into: merged_into_id, 0 for None; own: what it was created with         *)
(* (history).                                                              *)
Party == [tenant : PartyTenants, status : PartyStatus,
          identifiers : SUBSET Identifiers, into : Nat, own : SUBSET Identifiers]

Relation == [from : Nat, to : Nat, kind : RelationKinds]

PartyTypeOK ==
    /\ parties \in Seq(Party)
    /\ \A p \in DOMAIN parties : parties[p].into \in 0..Len(parties)
    /\ relations \subseteq Relation
    /\ \A r \in relations :
         /\ {r.from, r.to} \subseteq DOMAIN parties /\ r.from # r.to
         /\ parties[r.from].tenant = parties[r.to].tenant
    /\ orderly \in BOOLEAN

PartyInit == parties = <<>> /\ relations = {} /\ orderly = TRUE

-----------------------------------------------------------------------------
(* PartyProvider.                                                          *)

(* find_by_identifier answers with the first of them.                      *)
Holders(tenant, identifier) ==
    {p \in DOMAIN parties :
       /\ parties[p].tenant = tenant /\ parties[p].status # "Merged"
       /\ identifier \in parties[p].identifiers}

FindByIdentifier(tenant, identifier) ==
    CHOOSE p \in Holders(tenant, identifier) :
      \A q \in Holders(tenant, identifier) : p <= q

Create(tenant, identifiers) ==
    /\ Len(parties) < MaxParties
    /\ \A i \in identifiers : Holders(tenant, i) = {}
    /\ parties' = Append(parties,
         [tenant |-> tenant, status |-> "Active", identifiers |-> identifiers,
          into |-> 0, own |-> identifiers])
    /\ UNCHANGED <<relations, orderly>>

(* In any status: one that was merged is not Merged any more.              *)
Archive(p) ==
    /\ parties' = [parties EXCEPT ![p].status = "Archived"]
    /\ orderly' = (orderly /\ parties[p].into = 0)
    /\ UNCHANGED relations

-----------------------------------------------------------------------------
(* RelationshipProvider.                                                   *)

Relate(from, to, kind) ==
    /\ parties[from].tenant = parties[to].tenant
    /\ from # to
    /\ relations' = relations \cup {[from |-> from, to |-> to, kind |-> kind]}
    /\ UNCHANGED <<parties, orderly>>

Related(p, kind, direction) ==
    IF direction = "Up"
    THEN {r.to : r \in {s \in relations : s.kind = kind /\ s.from = p}}
    ELSE {r.from : r \in {s \in relations : s.kind = kind /\ s.to = p}}

BugVisit(walk, kind, direction) ==
    LET current == CHOOSE p \in walk.queue : TRUE
        new == Related(current, kind, direction) \ walk.found
    IN  [queue |-> new, found |-> walk.found \cup new]

(* One round of the loop in traverse: a queued party is taken, and those   *)
(* related to it that were not visited are found and queued.  Which one is *)
(* taken changes the order of the answer and not what is in it.            *)
Visit(walk, kind, direction) ==
    LET current == CHOOSE p \in walk.queue : TRUE
        new == Related(current, kind, direction) \ walk.found
    IN  [queue |-> (walk.queue \ {current}) \cup new, found |-> walk.found \cup new]

(* A party is queued at most once, so that many rounds empty the queue.    *)
Traverse(p, kind, direction) ==
    LET walk[n \in 0..Len(parties)] ==
          IF n = 0 THEN [queue |-> {p}, found |-> {p}]
          ELSE LET so_far == walk[n - 1]
               IN  IF so_far.queue = {} THEN so_far
                   ELSE Visit(so_far, kind, direction)
    IN  walk[Len(parties)].found \ {p}

-----------------------------------------------------------------------------
(* DeduplicationProvider.                                                  *)

BugMergedParty(party, survivor) == [party EXCEPT !.into = survivor]

MergedParty(party, survivor) ==
    [party EXCEPT !.status = "Merged", !.into = survivor]

(* merged_ids may hold the survivor and parties that are Merged already,   *)
(* and the survivor may be Merged itself.                                  *)
Merge(survivor, merged) ==
    /\ \A p \in merged : parties[p].tenant = parties[survivor].tenant
    /\ parties' =
         LET with == [parties EXCEPT
                        ![survivor].identifiers =
                          UNION {parties[p].identifiers : p \in merged \cup {survivor}}]
         IN  [p \in DOMAIN parties |->
                IF p \in merged THEN MergedParty(with[p], survivor) ELSE with[p]]
    /\ orderly' = (/\ orderly /\ survivor \notin merged
                   /\ \A p \in merged \cup {survivor} : parties[p].into = 0)
    /\ UNCHANGED relations

PartyNext ==
    \/ \E tenant \in PartyTenants, identifiers \in SUBSET Identifiers :
         Create(tenant, identifiers)
    \/ \E p \in DOMAIN parties : Archive(p)
    \/ \E p, q \in DOMAIN parties, kind \in RelationKinds : Relate(p, q, kind)
    \/ \E p \in DOMAIN parties, merged \in (SUBSET DOMAIN parties) \ {{}} :
         Merge(p, merged)

PartySpec == PartyInit /\ [][PartyNext]_partyVars

-----------------------------------------------------------------------------
(* Where the redirections of merges lead from party p.                     *)
Survivor(p) ==
    LET follow[n \in 0..Len(parties)] ==
          IF n = 0 THEN p
          ELSE LET q == follow[n - 1]
               IN  IF parties[q].status = "Merged" THEN parties[q].into ELSE q
    IN  follow[Len(parties)]

(* As long as merged parties are left alone, merging loses nobody: the     *)
(* redirections from a party end at one that is not Merged, and that party *)
(* and no other is found by each identifier the first was created with.    *)
RedirectsResolve ==
    orderly =>
      \A p \in DOMAIN parties :
        /\ parties[Survivor(p)].status # "Merged"
        /\ \A i \in parties[p].own :
             /\ Holders(parties[p].tenant, i) = {Survivor(p)}
             /\ FindByIdentifier(parties[p].tenant, i) = Survivor(p)

(* traverse finds the parties that a chain of relationships leads to, those*)
(* that are in every set which p is in and relationships do not lead out   *)
(* of, though relationships may make circles.                              *)
Reachable(p, kind, direction) ==
    {q \in DOMAIN parties \ {p} :
       \A S \in SUBSET DOMAIN parties :
         p \in S /\ (\A s \in S : Related(s, kind, direction) \subseteq S) => q \in S}

HierarchyIsComplete ==
    \A p \in DOMAIN parties, kind \in RelationKinds, direction \in {"Up", "Down"} :
      Traverse(p, kind, direction) = Reachable(p, kind, direction)
=============================================================================
