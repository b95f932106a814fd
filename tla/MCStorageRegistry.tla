------------------------- MODULE MCStorageRegistry -------------------------
(***************************************************************************)
(* Instances of StorageRegistry for TLC: selectors of specificity 0, 1 and *)
(* 2; shared, degraded, dedicated and foreign targets; a window that opens *)
(* and closes, and one that begins when it ends.                           *)
(***************************************************************************)
EXTENDS StorageRegistry, TLC

CONSTANTS t1, t2, b1, b2, acme, umbrella, eu, us, web, pii

AnySelector == [org |-> Unset, domain |-> Unset, category |-> Unset,
                minClass |-> Unset, region |-> Unset]

MCSelectors ==
    {AnySelector,
     [AnySelector EXCEPT !.org = acme],
     [AnySelector EXCEPT !.region = eu, !.minClass = 1]}

MCContexts ==
    {[org |-> acme, domain |-> web, category |-> pii, class |-> 1, region |-> eu],
     [org |-> acme, domain |-> web, category |-> pii, class |-> 0, region |-> Unset],
     [org |-> umbrella, domain |-> web, category |-> pii, class |-> 1, region |-> us]}

Shared == [region |-> eu, status |-> "Ready", org |-> Unset]

MCStores ==
    {Shared,
     [Shared EXCEPT !.status = "Migrating"],
     [Shared EXCEPT !.org = umbrella],
     [Shared EXCEPT !.region = us]}

MCWindows == {<<Unset, Unset>>, <<1, 2>>, <<2, Unset>>}

RegistrySymmetry == Permutations({b1, b2}) \cup Permutations({t1, t2})
=============================================================================
