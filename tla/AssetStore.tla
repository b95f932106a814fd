----------------------------- MODULE AssetStore -----------------------------
(***************************************************************************)
(* Assets, src/crates/foundation/asset/src/lib.rs: blobs shared by content,*)
(* assets with versions, renditions, malware scans, legal holds,           *)
(* collections and the purge that removes what nothing refers to any more. *)
(*                                                                         *)
(* The calls are atomic; authors, the scanner, those who hold assets and   *)
(* those who delete and purge them make them in any order.                 *)
(*                                                                         *)
(* The n-th entry of blobs and assets has the id n and is Gone once it is  *)
(* removed: ids are not used again.  The versions of an asset are numbered *)
(* from 1, the last is the current one, and they exist with their asset.   *)
(*                                                                         *)
(* Abstracted: content stands for its checksum (two contents with one      *)
(* FNV-1a value would be one content here, as they are one blob in the     *)
(* code); domain links, sources and classification, which no operation     *)
(* reads.                                                                  *)
(*                                                                         *)
(* Definitions named Bug... are not the code: each is a mistake that a     *)
(* property below must notice when it replaces the definition after it.    *)
(***************************************************************************)
EXTENDS Naturals, Sequences, FiniteSets

CONSTANTS
    Tenants, Contents, Holds,
    Gone,
    MaxBlobs, MaxAssets, MaxVersions, MaxRenditions, MaxCollections

VARIABLES blobs, assets, renditions, collections

assetVars == <<blobs, assets, renditions, collections>>

ScanState == {"Pending", "Clean", "Infected", "Failed"}
AssetState == {"Draft", "Active", "Quarantined", "Archived", "Deleted"}

(* used: something refers to it or did (history).                          *)
Blob == [org : Tenants, content : Contents, scan : ScanState, used : BOOLEAN]

(* tainted: the blob was known to be infected when it was added (history). *)
Version == [blob : Nat, tainted : BOOLEAN]

Asset == [org : Tenants, state : AssetState, versions : Seq(Version),
          holds : SUBSET Holds]

Rendition == [asset : Nat, version : Nat, blob : Nat]
Collection == [org : Tenants, parent : Nat, members : SUBSET Nat]

(* An id is not used again: what is removed is no blob and no asset.       *)
ASSUME AssetStoreAssumption ==
    /\ {MaxBlobs, MaxAssets, MaxVersions, MaxRenditions, MaxCollections} \subseteq Nat
    /\ Gone \notin Blob /\ Gone \notin Asset

Blobs == {b \in DOMAIN blobs : blobs[b] # Gone}
Assets == {a \in DOMAIN assets : assets[a] # Gone}

AssetTypeOK ==
    /\ blobs \in Seq(Blob \cup {Gone})
    /\ assets \in Seq(Asset \cup {Gone})
    /\ \A a \in Assets :
         /\ assets[a].versions # <<>>
         /\ \A v \in DOMAIN assets[a].versions :
              assets[a].versions[v].blob \in DOMAIN blobs
    /\ renditions \subseteq Rendition
    /\ collections \in Seq(Collection)
    /\ \A c \in DOMAIN collections : collections[c].parent \in 0..c - 1

AssetInit ==
    /\ blobs = <<>> /\ assets = <<>> /\ collections = <<>>
    /\ renditions = {}

-----------------------------------------------------------------------------
(* BlobProvider.                                                           *)

NewBlob(org, content) ==
    [org |-> org, content |-> content, scan |-> "Pending", used |-> FALSE]

Stored(org, content) ==
    {b \in Blobs : blobs[b].org = org /\ blobs[b].content = content}

(* blob_put: the blobs that it leaves, and the id that it answers with.    *)
BlobsAfterPut(org, content) ==
    IF Stored(org, content) = {} THEN Append(blobs, NewBlob(org, content)) ELSE blobs

PutBlob(org, content) ==
    IF Stored(org, content) = {} THEN Len(blobs) + 1
    ELSE CHOOSE b \in Stored(org, content) : TRUE

CanPut(org, content) == Stored(org, content) # {} \/ Len(blobs) < MaxBlobs

BlobPut(org, content) ==
    /\ CanPut(org, content)
    /\ blobs' = BlobsAfterPut(org, content)
    /\ UNCHANGED <<assets, renditions, collections>>

UsesBlob(a, b) ==
    \E v \in DOMAIN assets[a].versions : assets[a].versions[v].blob = b

BugStateAfterScan(state, scan) ==
    IF scan = "Infected" /\ state = "Draft" THEN "Quarantined"
    ELSE IF scan = "Clean" /\ state = "Draft" THEN "Active"
    ELSE state

(* Whatever the asset's state was, and for whichever of its versions.      *)
StateAfterScan(state, scan) ==
    IF scan = "Infected" THEN "Quarantined"
    ELSE IF scan = "Clean" /\ state = "Draft" THEN "Active"
    ELSE state

BlobMarkScanState(b, scan) ==
    /\ blobs' = [blobs EXCEPT ![b].scan = scan]
    /\ assets' = [a \in DOMAIN assets |->
                    IF a \in Assets /\ UsesBlob(a, b)
                    THEN [assets[a] EXCEPT !.state = StateAfterScan(@, scan)]
                    ELSE assets[a]]
    /\ UNCHANGED <<renditions, collections>>

-----------------------------------------------------------------------------
(* AssetProvider.                                                          *)

(* The blobs after a version with that content was put, and the version.   *)
BlobsAfterUpload(org, content) ==
    [BlobsAfterPut(org, content) EXCEPT ![PutBlob(org, content)].used = TRUE]

Upload(org, content) ==
    LET b == PutBlob(org, content)
    IN  [blob |-> b, tainted |-> b \in Blobs /\ blobs[b].scan = "Infected"]

AssetCreate(org, content) ==
    /\ Len(assets) < MaxAssets /\ CanPut(org, content)
    /\ blobs' = BlobsAfterUpload(org, content)
    /\ assets' = Append(assets,
         [org |-> org, state |-> "Draft", versions |-> <<Upload(org, content)>>,
          holds |-> {}])
    /\ UNCHANGED <<renditions, collections>>

WithVersion(asset, version) ==
    [asset EXCEPT !.versions = Append(@, version), !.state = "Draft"]

AssetAddVersion(a, content) ==
    LET org == assets[a].org IN
    /\ assets[a].state # "Deleted"
    /\ Len(assets[a].versions) < MaxVersions /\ CanPut(org, content)
    /\ blobs' = BlobsAfterUpload(org, content)
    /\ assets' = [assets EXCEPT ![a] = WithVersion(@, Upload(org, content))]
    /\ UNCHANGED <<renditions, collections>>

(* In any state, Deleted too.                                              *)
AssetArchive(a) ==
    /\ assets' = [assets EXCEPT ![a].state = "Archived"]
    /\ UNCHANGED <<blobs, renditions, collections>>

AssetDelete(a) ==
    /\ assets[a].holds = {}
    /\ assets' = [assets EXCEPT ![a].state = "Deleted"]
    /\ UNCHANGED <<blobs, renditions, collections>>

-----------------------------------------------------------------------------
(* RenditionProvider, HoldProvider and CollectionProvider.                 *)

RenditionCreate(a, v, b) ==
    /\ Cardinality(renditions) < MaxRenditions
    /\ blobs[b].org = assets[a].org
    /\ renditions' = renditions \cup {[asset |-> a, version |-> v, blob |-> b]}
    /\ blobs' = [blobs EXCEPT ![b].used = TRUE]
    /\ UNCHANGED <<assets, collections>>

(* A hold may be put on an asset in any state, one that is Deleted too.    *)
HoldAddLegalHold(a, h) ==
    /\ assets' = [assets EXCEPT ![a].holds = @ \cup {h}]
    /\ UNCHANGED <<blobs, renditions, collections>>

HoldReleaseLegalHold(a, h) ==
    /\ assets' = [assets EXCEPT ![a].holds = @ \ {h}]
    /\ UNCHANGED <<blobs, renditions, collections>>

CollectionCreate(org, parent) ==
    /\ Len(collections) < MaxCollections
    /\ parent # 0 => collections[parent].org = org
    /\ collections' = Append(collections,
                             [org |-> org, parent |-> parent, members |-> {}])
    /\ UNCHANGED <<blobs, assets, renditions>>

CollectionAdd(c, a) ==
    /\ collections[c].org = assets[a].org
    /\ collections' = [collections EXCEPT ![c].members = @ \cup {a}]
    /\ UNCHANGED <<blobs, assets, renditions>>

CollectionRemove(c, a) ==
    /\ collections' = [collections EXCEPT ![c].members = @ \ {a}]
    /\ UNCHANGED <<blobs, assets, renditions>>

-----------------------------------------------------------------------------
(* PurgeProvider.                                                          *)

RenditionsOf(a) == {r \in renditions : r.asset = a}

BlobsOf(a) ==
    {assets[a].versions[v].blob : v \in DOMAIN assets[a].versions}
      \cup {r.blob : r \in RenditionsOf(a)}

BugStillReferenced(b, a) == \E other \in Assets \ {a} : UsesBlob(other, b)

(* By anything but asset a and its renditions.                             *)
StillReferenced(b, a) ==
    \/ \E other \in Assets \ {a} : UsesBlob(other, b)
    \/ \E r \in renditions \ RenditionsOf(a) : r.blob = b

BugPurgeable(asset) == asset.state = "Deleted"

Purgeable(asset) == asset.holds = {} /\ asset.state = "Deleted"

Purge(a) ==
    /\ Purgeable(assets[a])
    /\ renditions' = renditions \ RenditionsOf(a)
    /\ blobs' = [b \in DOMAIN blobs |->
                   IF b \in BlobsOf(a) /\ ~StillReferenced(b, a) THEN Gone ELSE blobs[b]]
    /\ collections' = [c \in DOMAIN collections |->
                         [collections[c] EXCEPT !.members = @ \ {a}]]
    /\ assets' = [assets EXCEPT ![a] = Gone]

-----------------------------------------------------------------------------
Author ==
    \/ \E org \in Tenants, content \in Contents :
         BlobPut(org, content) \/ AssetCreate(org, content)
    \/ \E a \in Assets, content \in Contents : AssetAddVersion(a, content)
    \/ \E a \in Assets, b \in Blobs : \E v \in DOMAIN assets[a].versions :
         RenditionCreate(a, v, b)

Collect ==
    \/ \E org \in Tenants, parent \in 0..Len(collections) : CollectionCreate(org, parent)
    \/ \E c \in DOMAIN collections :
         \/ \E a \in Assets : CollectionAdd(c, a)
         \/ \E a \in DOMAIN assets : CollectionRemove(c, a)

Keep ==
    \/ \E a \in Assets : AssetArchive(a) \/ AssetDelete(a) \/ Purge(a)
    \/ \E a \in Assets, h \in Holds : HoldAddLegalHold(a, h) \/ HoldReleaseLegalHold(a, h)

Scan == \E b \in Blobs, scan \in ScanState : BlobMarkScanState(b, scan)

AssetNext == Author \/ Collect \/ Keep \/ Scan

AssetSpec == AssetInit /\ [][AssetNext]_assetVars

-----------------------------------------------------------------------------
(* Sharing and purging are exact.  What a version, a rendition or a        *)
(* collection names is there, in the same organization; and a content that *)
(* something referred to is kept no longer than something refers to it.    *)
ReferencesResolve ==
    /\ \A a \in Assets : \A v \in DOMAIN assets[a].versions :
         LET b == assets[a].versions[v].blob
         IN  b \in Blobs /\ blobs[b].org = assets[a].org
    /\ \A r \in renditions :
         /\ r.asset \in Assets /\ r.version \in DOMAIN assets[r.asset].versions
         /\ r.blob \in Blobs /\ blobs[r.blob].org = assets[r.asset].org
    /\ \A c \in DOMAIN collections : \A a \in collections[c].members :
         a \in Assets /\ assets[a].org = collections[c].org

NothingRemains ==
    \A b \in Blobs :
      blobs[b].used =>
        \/ \E a \in Assets : UsesBlob(a, b)
        \/ \E r \in renditions : r.blob = b

SharingIsExact == ReferencesResolve /\ NothingRemains

(* A legal hold protects what it was put on: while one is in force, the    *)
(* asset is neither deleted nor purged, also when it was Deleted already,  *)
(* and its renditions and contents stay.                                   *)
HeldIsKept ==
    [][\A a \in Assets :
         assets[a].holds # {} =>
           /\ assets'[a] # Gone
           /\ assets[a].state # "Deleted" => assets'[a].state # "Deleted"
           /\ RenditionsOf(a) \subseteq renditions'
           /\ \A b \in BlobsOf(a) : blobs'[b] # Gone]_assetVars

(* Content that is found to be infected takes the assets that hold it out  *)
(* of use: an Active asset has an infected current version only if that    *)
(* was known when the version was added, which no operation looks at.      *)
InfectedIsNotActive ==
    \A a \in Assets :
      LET current == assets[a].versions[Len(assets[a].versions)]
      IN  assets[a].state = "Active" /\ blobs[current.blob].scan = "Infected"
            => current.tainted
=============================================================================
