------------------------- MODULE Foundation_proofs -------------------------
(***************************************************************************)
(* Assets, access control, the content store, the commerce sandbox and     *)
(* parties, for any values of their constants, and the five together.      *)
(***************************************************************************)
EXTENDS MCFoundation, SumLemmas, SequenceTheorems

-----------------------------------------------------------------------------
(* Assets.  That a version is infected is known of an asset in use.        *)
Current(a) == assets[a].versions[Len(assets[a].versions)]

(* An asset in use, or one that a clean scan could put in use.             *)
TaintIsKnown(a) ==
    /\ assets[a].state \in {"Draft", "Active"}
    /\ blobs[Current(a).blob].scan = "Infected"
    => Current(a).tainted

TaintsAreKnown == \A a \in Assets : TaintIsKnown(a)

AssetInv == AssetTypeOK /\ ReferencesResolve /\ NothingRemains /\ TaintsAreKnown

-----------------------------------------------------------------------------
(* The invariant, thing by thing.                                          *)

BlobsTyped == blobs \in Seq(Blob \cup {Gone})
AssetsTyped == assets \in Seq(Asset \cup {Gone})
Versioned == \A a \in Assets : assets[a].versions # <<>>
RenditionsTyped == renditions \subseteq Rendition
CollectionsTyped ==
    /\ collections \in Seq(Collection)
    /\ \A c \in DOMAIN collections : collections[c].parent \in 0..c - 1

Names(b, org) == b \in Blobs /\ blobs[b].org = org

VersionsResolve ==
    \A a \in Assets : \A v \in DOMAIN assets[a].versions :
      Names(assets[a].versions[v].blob, assets[a].org)

RenditionsResolve ==
    \A r \in renditions :
      /\ r.asset \in Assets /\ r.version \in DOMAIN assets[r.asset].versions
      /\ Names(r.blob, assets[r.asset].org)

MembersResolve ==
    \A c \in DOMAIN collections : \A a \in collections[c].members :
      a \in Assets /\ assets[a].org = collections[c].org

Types == BlobsTyped /\ AssetsTyped /\ Versioned /\ RenditionsTyped /\ CollectionsTyped
Parts == Types /\ VersionsResolve /\ RenditionsResolve /\ MembersResolve
           /\ NothingRemains /\ TaintsAreKnown

(* AssetInv is what its parts say.                                         *)
LEMMA InvInParts == AssetInv <=> Parts
<1>1. AssetInv => Parts
  BY DEF AssetInv, Parts, Types, AssetTypeOK, BlobsTyped, AssetsTyped, Versioned,
         RenditionsTyped, CollectionsTyped, ReferencesResolve, VersionsResolve,
         RenditionsResolve, MembersResolve, Names
<1>2. Parts => ReferencesResolve /\ NothingRemains /\ TaintsAreKnown
  BY DEF Parts, ReferencesResolve, VersionsResolve, RenditionsResolve, MembersResolve, Names
<1>3. Parts => AssetTypeOK
  BY DEF Parts, Types, AssetTypeOK, BlobsTyped, AssetsTyped, Versioned,
         RenditionsTyped, CollectionsTyped, VersionsResolve, Names, Blobs
<1> QED BY <1>1, <1>2, <1>3 DEF AssetInv

(* What is not Gone is a blob or an asset.                                 *)
LEMMA EntriesAreTyped ==
    ASSUME BlobsTyped, AssetsTyped
    PROVE  /\ \A b \in Blobs : b \in DOMAIN blobs /\ b \in Nat /\ blobs[b] \in Blob
           /\ \A a \in Assets : a \in DOMAIN assets /\ a \in Nat /\ assets[a] \in Asset
  BY DEF BlobsTyped, AssetsTyped, Blobs, Assets

(* The last version of an asset is one of its versions.                    *)
LEMMA CurrentIsAVersion ==
    ASSUME AssetsTyped, BlobsTyped, Versioned, NEW a \in Assets
    PROVE  /\ assets[a].versions \in Seq(Version)
           /\ Len(assets[a].versions) \in DOMAIN assets[a].versions
           /\ Current(a) \in Version
<1>1. assets[a].versions \in Seq(Version) /\ assets[a].versions # <<>>
  BY EntriesAreTyped DEF Asset, Versioned
<1>2. Len(assets[a].versions) \in DOMAIN assets[a].versions
  BY <1>1
<1> QED BY <1>1, <1>2 DEF Current

-----------------------------------------------------------------------------
(* Putting a content.                                                      *)

(* blob_put: it keeps every blob, and answers with one of that content,    *)
(* which was there or is new and not scanned yet.                          *)
LEMMA PutIsShared ==
    ASSUME BlobsTyped, NEW org \in Tenants, NEW content \in Contents
    PROVE  LET after == BlobsAfterPut(org, content)
               b == PutBlob(org, content)
           IN  /\ after \in Seq(Blob \cup {Gone})
               /\ b \in DOMAIN after /\ DOMAIN after = DOMAIN blobs \cup {b}
               /\ \A i \in DOMAIN blobs : after[i] = blobs[i]
               /\ after[b] \in Blob /\ after[b].org = org
               /\ b \in Blobs \/ (b \notin DOMAIN blobs /\ after[b].scan = "Pending"
                                    /\ after[b].used = FALSE)
<1> DEFINE after == BlobsAfterPut(org, content)
           b == PutBlob(org, content)
<1>1. CASE Stored(org, content) = {}
  <2> DEFINE new == NewBlob(org, content)
  <2>1. after = Append(blobs, new) /\ b = Len(blobs) + 1
    BY <1>1 DEF BlobsAfterPut, PutBlob
  <2>2. new \in Blob /\ new.org = org /\ new.scan = "Pending" /\ new.used = FALSE
    BY DEF NewBlob, Blob, ScanState
  <2> HIDE DEF new, after, b
  <2>3. /\ after \in Seq(Blob \cup {Gone})
        /\ b \in DOMAIN after /\ DOMAIN after = DOMAIN blobs \cup {b}
        /\ \A i \in DOMAIN blobs : after[i] = blobs[i]
        /\ after[b] = new /\ b \notin DOMAIN blobs
    BY <2>1, <2>2 DEF BlobsTyped
  <2> QED BY <2>2, <2>3 DEF after, b
<1>2. CASE Stored(org, content) # {}
  <2>1. after = blobs /\ b \in Stored(org, content)
    BY <1>2 DEF BlobsAfterPut, PutBlob
  <2>2. b \in Blobs /\ b \in DOMAIN blobs /\ blobs[b].org = org /\ blobs[b] \in Blob
    BY <2>1 DEF Stored, Blobs, BlobsTyped
  <2> HIDE DEF after, b
  <2>3. DOMAIN after = DOMAIN blobs \cup {b}
    BY <2>1, <2>2
  <2> QED BY <2>1, <2>2, <2>3 DEF BlobsTyped, after, b
<1> QED BY <1>1, <1>2

(* What a put, or a version with its content, or a rendition leaves of the *)
(* blobs: all that there were, but one may now be used.                    *)
Using(b, after) ==
    /\ after \in Seq(Blob \cup {Gone})
    /\ DOMAIN after = DOMAIN blobs \cup {b}
    /\ \A i \in DOMAIN blobs : after[i] = Gone <=> blobs[i] = Gone
    /\ \A i \in Blobs : after[i].org = blobs[i].org /\ after[i].scan = blobs[i].scan
    /\ \A i \in Blobs : i # b => after[i].used = blobs[i].used
    /\ after[b] \in Blob
    /\ b \in Blobs \/ after[b].scan = "Pending"

(* Marking a blob as used changes no more.                                 *)
LEMMA MarkedAsUsed ==
    \A before \in Seq(Blob \cup {Gone}) : \A b \in DOMAIN before :
      before[b] \in Blob =>
        LET after == [before EXCEPT ![b].used = TRUE]
        IN  /\ after \in Seq(Blob \cup {Gone}) /\ DOMAIN after = DOMAIN before
            /\ \A i \in DOMAIN before : i # b => after[i] = before[i]
            /\ after[b] \in Blob
            /\ after[b].org = before[b].org /\ after[b].scan = before[b].scan
<1> SUFFICES ASSUME NEW before \in Seq(Blob \cup {Gone}), NEW b \in DOMAIN before,
                    before[b] \in Blob
             PROVE  LET after == [before EXCEPT ![b].used = TRUE]
                    IN  /\ after \in Seq(Blob \cup {Gone}) /\ DOMAIN after = DOMAIN before
                        /\ \A i \in DOMAIN before : i # b => after[i] = before[i]
                        /\ after[b] \in Blob
                        /\ after[b].org = before[b].org /\ after[b].scan = before[b].scan
  OBVIOUS
<1> DEFINE new == [before[b] EXCEPT !.used = TRUE]
           after == [before EXCEPT ![b] = new]
<1>1. new \in Blob /\ new.org = before[b].org /\ new.scan = before[b].scan
  BY DEF Blob
<1>2. [before EXCEPT ![b].used = TRUE] = after
  OBVIOUS
<1>3. b \in 1..Len(before)
  OBVIOUS
<1> HIDE DEF new
<1>4. after \in Seq(Blob \cup {Gone})
  BY <1>1, <1>3, ExceptSeq
<1>5. /\ DOMAIN after = DOMAIN before /\ after[b] = new
      /\ \A i \in DOMAIN before : i # b => after[i] = before[i]
  OBVIOUS
<1> HIDE DEF after
<1> QED BY <1>1, <1>2, <1>4, <1>5

LEMMA UploadIsShared ==
    ASSUME BlobsTyped, NEW org \in Tenants, NEW content \in Contents
    PROVE  /\ Using(PutBlob(org, content), BlobsAfterUpload(org, content))
           /\ BlobsAfterUpload(org, content)[PutBlob(org, content)].org = org
           /\ Upload(org, content) \in Version
           /\ Upload(org, content).blob = PutBlob(org, content)
           /\ PutBlob(org, content) \in Blobs
                /\ blobs[PutBlob(org, content)].scan = "Infected"
                => Upload(org, content).tainted
<1> DEFINE b == PutBlob(org, content)
           put == BlobsAfterPut(org, content)
           after == BlobsAfterUpload(org, content)
<1>1. /\ put \in Seq(Blob \cup {Gone})
      /\ b \in DOMAIN put /\ DOMAIN put = DOMAIN blobs \cup {b}
      /\ \A i \in DOMAIN blobs : put[i] = blobs[i]
      /\ put[b] \in Blob /\ put[b].org = org
      /\ b \in Blobs \/ (b \notin DOMAIN blobs /\ put[b].scan = "Pending"
                           /\ put[b].used = FALSE)
  BY PutIsShared
<1>2. after = [put EXCEPT ![b].used = TRUE]
  BY DEF BlobsAfterUpload
<1>3. Upload(org, content) = [blob |-> b, tainted |-> b \in Blobs /\ blobs[b].scan = "Infected"]
  BY DEF Upload
<1> HIDE DEF put, after, b
<1>4. /\ after \in Seq(Blob \cup {Gone}) /\ DOMAIN after = DOMAIN put
      /\ \A i \in DOMAIN put : i # b => after[i] = put[i]
      /\ after[b] \in Blob
      /\ after[b].org = put[b].org /\ after[b].scan = put[b].scan
  <2> HIDE DEF b
  <2>1. put[b] \in Blob /\ b \in DOMAIN put /\ put \in Seq(Blob \cup {Gone})
    BY <1>1
  <2> QED BY <2>1, <1>2, MarkedAsUsed
<1>5. Using(b, after)
  BY <1>1, <1>4, AssetStoreAssumption DEF Using, Blobs
<1>6. b \in Nat
  <2>1. put \in Seq(Blob \cup {Gone}) /\ b \in DOMAIN put
    BY <1>1
  <2>2. DOMAIN put \subseteq Nat
    BY <2>1
  <2> QED BY <2>1, <2>2
<1>7. (b \in Blobs /\ blobs[b].scan = "Infected") \in BOOLEAN
  BY Zenon
<1>8. Upload(org, content) \in Version
  BY <1>3, <1>6, <1>7 DEF Version
<1>9. Upload(org, content).blob = b
  BY <1>3
<1>10. b \in Blobs /\ blobs[b].scan = "Infected" => Upload(org, content).tainted
  <2> SUFFICES ASSUME b \in Blobs /\ blobs[b].scan = "Infected"
               PROVE  Upload(org, content).tainted
    OBVIOUS
  <2>1. Upload(org, content) = [blob |-> b, tainted |-> TRUE]
    BY <1>3
  <2> QED BY <2>1
<1> QED BY <1>1, <1>4, <1>5, <1>8, <1>9, <1>10 DEF b, after

-----------------------------------------------------------------------------
(* The blobs that there were are there, and so is what refers to them.     *)
LEMMA BlobsStay ==
    ASSUME BlobsTyped, NEW b, Using(b, blobs')
    PROVE  /\ BlobsTyped'
           /\ Blobs' = Blobs \cup {b}
           /\ \A i \in Blobs : blobs'[i].org = blobs[i].org /\ blobs'[i].scan = blobs[i].scan
           /\ \A i, org : Names(i, org) => Names(i, org)'
<1>1. BlobsTyped'
  BY DEF Using, BlobsTyped
<1>2. Blobs' = Blobs \cup {b}
  BY AssetStoreAssumption DEF Using, Blobs
<1> QED BY <1>1, <1>2 DEF Using, Names

(* The same for what uses them: all that used a blob still does.           *)
LEMMA UsesStay ==
    ASSUME BlobsTyped, NEW b, Using(b, blobs'), NothingRemains,
           Assets \subseteq Assets',
           \A a \in Assets, i \in Blobs : UsesBlob(a, i) => UsesBlob(a, i)',
           renditions \subseteq renditions',
           blobs'[b].used =>
             \/ b \in Blobs /\ blobs[b].used
             \/ \E a \in Assets' : UsesBlob(a, b)'
             \/ \E r \in renditions' : r.blob = b
    PROVE  NothingRemains'
<1> SUFFICES ASSUME NEW i \in Blobs', blobs'[i].used
             PROVE  \/ \E a \in Assets' : UsesBlob(a, i)'
                    \/ \E r \in renditions' : r.blob = i
  BY DEF NothingRemains
<1>1. CASE i = b /\ ~(b \in Blobs /\ blobs[b].used)
  BY <1>1
<1>2. CASE ~(i = b /\ ~(b \in Blobs /\ blobs[b].used))
  <2>1. i \in Blobs /\ blobs[i].used
    BY <1>2, BlobsStay DEF Using
  <2> QED BY <2>1 DEF NothingRemains
<1> QED BY <1>1, <1>2

(* Nothing but the blobs changes, and no blob goes: the rest resolves.     *)
LEMMA StillResolves ==
    ASSUME Parts, NEW b, Using(b, blobs'), UNCHANGED assets
    PROVE  /\ AssetsTyped' /\ Versioned' /\ VersionsResolve' /\ TaintsAreKnown'
           /\ \A r \in renditions :
                /\ r.asset \in Assets' /\ r.version \in DOMAIN assets'[r.asset].versions
                /\ Names(r.blob, assets[r.asset].org)'
           /\ \A a \in Assets, i \in Blobs : UsesBlob(a, i) => UsesBlob(a, i)'
<1>1. Assets' = Assets
  BY DEF Assets
<1>2. /\ Blobs' = Blobs \cup {b}
      /\ \A i \in Blobs : blobs'[i].org = blobs[i].org /\ blobs'[i].scan = blobs[i].scan
      /\ \A i, org : Names(i, org) => Names(i, org)'
  BY BlobsStay DEF Parts, Types
<1>3. AssetsTyped' /\ Versioned'
  BY <1>1 DEF Parts, Types, AssetsTyped, Versioned
<1>4. VersionsResolve'
  BY <1>1, <1>2 DEF Parts, VersionsResolve
<1>5. TaintsAreKnown'
  <2> SUFFICES ASSUME NEW a \in Assets PROVE TaintIsKnown(a)'
    BY <1>1 DEF TaintsAreKnown
  <2>1. Current(a).blob \in Blobs /\ Current(a)' = Current(a)
    BY CurrentIsAVersion DEF Parts, Types, Current, VersionsResolve, Names
  <2>2. TaintIsKnown(a)
    BY DEF Parts, TaintsAreKnown
  <2> QED BY <1>2, <2>1, <2>2 DEF TaintIsKnown
<1>6. \A a \in Assets, i \in Blobs : UsesBlob(a, i) => UsesBlob(a, i)'
  BY DEF UsesBlob
<1>7. \A r \in renditions :
        /\ r.asset \in Assets' /\ r.version \in DOMAIN assets'[r.asset].versions
        /\ Names(r.blob, assets[r.asset].org)'
  BY <1>1, <1>2 DEF Parts, RenditionsResolve
<1> QED BY <1>3, <1>4, <1>5, <1>6, <1>7

(* blob_put keeps the invariant.                                           *)
LEMMA BlobPutKeeps ==
    ASSUME Parts, NEW org \in Tenants, NEW content \in Contents, BlobPut(org, content)
    PROVE  Parts'
<1> DEFINE b == PutBlob(org, content)
<1>1. blobs' = BlobsAfterPut(org, content) /\ UNCHANGED <<assets, renditions, collections>>
  BY DEF BlobPut
<1>2. /\ blobs' \in Seq(Blob \cup {Gone})
      /\ b \in DOMAIN blobs' /\ DOMAIN blobs' = DOMAIN blobs \cup {b}
      /\ \A i \in DOMAIN blobs : blobs'[i] = blobs[i]
      /\ blobs'[b] \in Blob /\ blobs'[b].org = org
      /\ b \in Blobs \/ (b \notin DOMAIN blobs /\ blobs'[b].scan = "Pending"
                            /\ blobs'[b].used = FALSE)
  <2> DEFINE put == BlobsAfterPut(org, content)
  <2>1. /\ put \in Seq(Blob \cup {Gone})
        /\ b \in DOMAIN put /\ DOMAIN put = DOMAIN blobs \cup {b}
        /\ \A i \in DOMAIN blobs : put[i] = blobs[i]
        /\ put[b] \in Blob /\ put[b].org = org
        /\ b \in Blobs \/ (b \notin DOMAIN blobs /\ put[b].scan = "Pending"
                             /\ put[b].used = FALSE)
    BY PutIsShared DEF Parts, Types
  <2>2. blobs' = put
    BY <1>1
  <2> HIDE DEF put, b
  <2> QED BY <2>1, <2>2
<1> HIDE DEF b
<1>3. Using(b, blobs')
  BY <1>2 DEF Using, Blobs
<1>4. /\ BlobsTyped'
      /\ \A i, o : Names(i, o) => Names(i, o)'
  BY <1>3, BlobsStay DEF Parts, Types
<1>5. AssetsTyped' /\ Versioned' /\ VersionsResolve' /\ TaintsAreKnown' /\ Assets' = Assets
      /\ \A a \in Assets, i \in Blobs : UsesBlob(a, i) => UsesBlob(a, i)'
  BY <1>1, <1>3, StillResolves DEF Assets
<1>6. RenditionsTyped' /\ CollectionsTyped' /\ MembersResolve'
  BY <1>1, <1>5 DEF Parts, Types, RenditionsTyped, CollectionsTyped, MembersResolve
<1>7. RenditionsResolve'
  BY <1>1, <1>4, <1>5 DEF Parts, RenditionsResolve
<1>8. blobs'[b].used => b \in Blobs /\ blobs[b].used
  BY <1>2 DEF Blobs
<1>9. NothingRemains'
  BY <1>1, <1>3, <1>5, <1>8, UsesStay DEF Parts, Types
<1> QED BY <1>4, <1>5, <1>6, <1>7, <1>9 DEF Parts, Types

(* rendition_create keeps the invariant.                                   *)
LEMMA RenditionCreateKeeps ==
    ASSUME Parts, NEW a \in Assets, NEW b \in Blobs,
           NEW v \in DOMAIN assets[a].versions, RenditionCreate(a, v, b)
    PROVE  Parts'
<1> DEFINE r == [asset |-> a, version |-> v, blob |-> b]
<1>1. /\ blobs' = [blobs EXCEPT ![b].used = TRUE] /\ blobs[b].org = assets[a].org
      /\ renditions' = renditions \cup {r}
      /\ UNCHANGED <<assets, collections>>
  BY DEF RenditionCreate
<1>2. /\ b \in DOMAIN blobs /\ blobs[b] \in Blob /\ blobs \in Seq(Blob \cup {Gone})
      /\ b \in Nat /\ a \in Nat /\ v \in Nat
  <2>1. assets[a].versions \in Seq(Version)
    BY EntriesAreTyped DEF Parts, Types, Asset
  <2> QED BY <2>1, EntriesAreTyped DEF Parts, Types, BlobsTyped
<1>3. /\ blobs' \in Seq(Blob \cup {Gone}) /\ DOMAIN blobs' = DOMAIN blobs
      /\ \A i \in DOMAIN blobs : i # b => blobs'[i] = blobs[i]
      /\ blobs'[b] \in Blob
      /\ blobs'[b].org = blobs[b].org /\ blobs'[b].scan = blobs[b].scan
  BY <1>1, <1>2, MarkedAsUsed
<1>4. Using(b, blobs')
  BY <1>2, <1>3, AssetStoreAssumption DEF Using, Blobs
<1>5. /\ BlobsTyped' /\ Blobs' = Blobs
      /\ \A i, o : Names(i, o) => Names(i, o)'
  BY <1>4, BlobsStay DEF Parts, Types
<1>6. r \in Rendition /\ r.asset = a /\ r.version = v /\ r.blob = b
  BY <1>2 DEF Rendition
<1> HIDE DEF r
<1>7. /\ AssetsTyped' /\ Versioned' /\ VersionsResolve' /\ TaintsAreKnown' /\ Assets' = Assets
      /\ \A x \in Assets, i \in Blobs : UsesBlob(x, i) => UsesBlob(x, i)'
  BY <1>1, <1>4, StillResolves DEF Assets
<1>8. RenditionsTyped' /\ CollectionsTyped' /\ MembersResolve'
  BY <1>1, <1>6, <1>7 DEF Parts, Types, RenditionsTyped, CollectionsTyped, MembersResolve
<1>9. RenditionsResolve'
  <2> SUFFICES ASSUME NEW x \in renditions'
               PROVE  /\ x.asset \in Assets /\ x.version \in DOMAIN assets[x.asset].versions
                      /\ Names(x.blob, assets[x.asset].org)'
    BY <1>1, <1>7 DEF RenditionsResolve
  <2>1. CASE x \in renditions
    BY <2>1, <1>1, <1>5, <1>7 DEF Parts, RenditionsResolve
  <2>2. CASE x = r
    BY <2>2, <1>1, <1>5, <1>6 DEF Names
  <2> QED BY <2>1, <2>2, <1>1
<1>10. NothingRemains'
  BY <1>1, <1>4, <1>6, <1>7, UsesStay DEF Parts, Types
<1> QED BY <1>5, <1>7, <1>8, <1>9, <1>10 DEF Parts, Types

-----------------------------------------------------------------------------
(* Entries of assets that change their labels only: the state, which       *)
(* leaves Draft and Active or stays there, and the holds.                  *)
Relabelled(old, new) ==
    /\ new \in Asset /\ new.org = old.org /\ new.versions = old.versions
    /\ new.state \in {"Draft", "Active"} => old.state \in {"Draft", "Active"}

(* Labels are not what the invariant is about.                             *)
LEMMA RelabellingKeeps ==
    ASSUME Parts, AssetsTyped', Assets' = Assets,
           \A a \in Assets : Relabelled(assets[a], assets'[a]),
           UNCHANGED <<blobs, renditions, collections>>
    PROVE  Parts'
<1>1. Blobs' = Blobs /\ BlobsTyped' /\ RenditionsTyped' /\ CollectionsTyped'
  BY DEF Parts, Types, Blobs, BlobsTyped, RenditionsTyped, CollectionsTyped
<1>2. Versioned' /\ VersionsResolve' /\ RenditionsResolve' /\ MembersResolve'
  BY <1>1 DEF Parts, Types, Versioned, VersionsResolve, RenditionsResolve, MembersResolve,
              Relabelled, Names
<1>3. TaintsAreKnown'
  BY DEF Parts, TaintsAreKnown, TaintIsKnown, Relabelled, Current
<1>4. NothingRemains'
  BY <1>1 DEF Parts, NothingRemains, UsesBlob, Relabelled
<1> QED BY <1>1, <1>2, <1>3, <1>4 DEF Parts, Types

(* One asset that is replaced by another value of it.                      *)
LEMMA OneReplaced ==
    ASSUME AssetsTyped, BlobsTyped, NEW a \in Assets, NEW new \in Asset,
           assets' = [assets EXCEPT ![a] = new]
    PROVE  /\ AssetsTyped' /\ Assets' = Assets
           /\ assets'[a] = new /\ \A x \in Assets : x # a => assets'[x] = assets[x]
<1>1. a \in 1..Len(assets) /\ assets \in Seq(Asset \cup {Gone})
  BY DEF Assets, AssetsTyped
<1>2. assets' \in Seq(Asset \cup {Gone})
  BY <1>1, ExceptSeq
<1>3. DOMAIN assets' = DOMAIN assets /\ assets'[a] = new
      /\ \A x \in DOMAIN assets : x # a => assets'[x] = assets[x]
  BY <1>1
<1>4. Assets' = Assets
  BY <1>3, AssetStoreAssumption DEF Assets
<1> QED BY <1>2, <1>3, <1>4 DEF AssetsTyped, Assets

(* asset_archive, asset_delete and the holds keep the invariant.           *)
LEMMA LabelsKeep ==
    ASSUME Parts, NEW a \in Assets,
           \/ AssetArchive(a) \/ AssetDelete(a)
           \/ \E h \in Holds : HoldAddLegalHold(a, h) \/ HoldReleaseLegalHold(a, h)
    PROVE  Parts'
<1> DEFINE old == assets[a]
<1>1. old \in Asset
  BY EntriesAreTyped DEF Parts, Types
<1>2. PICK new : Relabelled(old, new) /\ assets' = [assets EXCEPT ![a] = new]
  <2>1. CASE AssetArchive(a)
    <3> DEFINE x == [old EXCEPT !.state = "Archived"]
    <3>1. Relabelled(old, x)
      BY <1>1 DEF Relabelled, Asset, AssetState
    <3>2. assets' = [assets EXCEPT ![a] = x]
      BY <2>1 DEF AssetArchive
    <3> QED BY <3>1, <3>2
  <2>2. CASE AssetDelete(a)
    <3> DEFINE x == [old EXCEPT !.state = "Deleted"]
    <3>1. Relabelled(old, x)
      BY <1>1 DEF Relabelled, Asset, AssetState
    <3>2. assets' = [assets EXCEPT ![a] = x]
      BY <2>2 DEF AssetDelete
    <3> QED BY <3>1, <3>2
  <2>3. ASSUME NEW h \in Holds, HoldAddLegalHold(a, h)
       PROVE  \E new : Relabelled(old, new) /\ assets' = [assets EXCEPT ![a] = new]
    <3> DEFINE x == [old EXCEPT !.holds = @ \cup {h}]
    <3>1. Relabelled(old, x)
      BY <1>1 DEF Relabelled, Asset
    <3>2. assets' = [assets EXCEPT ![a] = x]
      BY <2>3 DEF HoldAddLegalHold
    <3> QED BY <3>1, <3>2
  <2>4. ASSUME NEW h \in Holds, HoldReleaseLegalHold(a, h)
       PROVE  \E new : Relabelled(old, new) /\ assets' = [assets EXCEPT ![a] = new]
    <3> DEFINE x == [old EXCEPT !.holds = @ \ {h}]
    <3>1. Relabelled(old, x)
      BY <1>1 DEF Relabelled, Asset
    <3>2. assets' = [assets EXCEPT ![a] = x]
      BY <2>4 DEF HoldReleaseLegalHold
    <3> QED BY <3>1, <3>2
  <2> QED BY <2>1, <2>2, <2>3, <2>4
<1>3. /\ AssetsTyped' /\ Assets' = Assets
      /\ assets'[a] = new /\ \A x \in Assets : x # a => assets'[x] = assets[x]
  BY <1>2, OneReplaced DEF Relabelled, Parts, Types
<1>4. \A x \in Assets : Relabelled(assets[x], assets'[x])
  BY <1>2, <1>3, EntriesAreTyped DEF Relabelled, Parts, Types
<1>5. UNCHANGED <<blobs, renditions, collections>>
  BY DEF AssetArchive, AssetDelete, HoldAddLegalHold, HoldReleaseLegalHold
<1> QED BY <1>3, <1>4, <1>5, RelabellingKeeps

-----------------------------------------------------------------------------
(* A scan: what uses an infected blob is Quarantined.                      *)
LEMMA BlobMarkScanStateKeeps ==
    ASSUME Parts, NEW b \in Blobs, NEW scan \in ScanState, BlobMarkScanState(b, scan)
    PROVE  Parts'
<1> DEFINE blob == [blobs[b] EXCEPT !.scan = scan]
           marked(a) == [assets[a] EXCEPT !.state = StateAfterScan(@, scan)]
<1>1. /\ \A i \in Blobs : i \in DOMAIN blobs /\ i \in Nat /\ blobs[i] \in Blob
      /\ \A a \in Assets : a \in DOMAIN assets /\ a \in Nat /\ assets[a] \in Asset
  BY EntriesAreTyped DEF Parts, Types
<1>2. /\ blobs' = [blobs EXCEPT ![b] = blob]
      /\ UNCHANGED <<renditions, collections>>
      /\ assets' = [a \in DOMAIN assets |->
                      IF a \in Assets /\ UsesBlob(a, b) THEN marked(a) ELSE assets[a]]
  BY DEF BlobMarkScanState
<1>3. /\ blob \in Blob /\ blob.org = blobs[b].org /\ blob.used = blobs[b].used
      /\ blob.scan = scan
  BY <1>1 DEF Blob
<1>4. \A a \in Assets :
        /\ marked(a) \in Asset /\ marked(a).org = assets[a].org
        /\ marked(a).versions = assets[a].versions
        /\ marked(a).state \in {"Draft", "Active"} =>
             scan # "Infected" /\ assets[a].state \in {"Draft", "Active"}
  BY <1>1 DEF Asset, AssetState, StateAfterScan
<1> HIDE DEF blob, marked
<1>5. BlobsTyped'
  <2>1. b \in 1..Len(blobs) /\ blobs \in Seq(Blob \cup {Gone})
    BY <1>1 DEF Parts, Types, BlobsTyped
  <2> QED BY <2>1, <1>2, <1>3, ExceptSeq DEF BlobsTyped
<1>6. /\ DOMAIN blobs' = DOMAIN blobs /\ blobs'[b] = blob
      /\ \A i \in DOMAIN blobs : i # b => blobs'[i] = blobs[i]
  BY <1>1, <1>2 DEF Parts, Types, BlobsTyped
<1>7. /\ Blobs' = Blobs
      /\ \A i \in Blobs : /\ blobs'[i].org = blobs[i].org /\ blobs'[i].used = blobs[i].used
                         /\ blobs'[i].scan = IF i = b THEN scan ELSE blobs[i].scan
  BY <1>3, <1>6, AssetStoreAssumption DEF Blobs
<1>8. /\ assets \in Seq(Asset \cup {Gone}) /\ DOMAIN assets' = DOMAIN assets
      /\ \A a \in DOMAIN assets : assets'[a] = IF a \in Assets /\ UsesBlob(a, b)
                                              THEN marked(a) ELSE assets[a]
  BY <1>2 DEF Parts, Types, AssetsTyped
<1>9. AssetsTyped'
  <2>1. Len(assets) \in Nat /\ DOMAIN assets = 1..Len(assets)
        /\ \A a \in 1..Len(assets) : assets[a] \in Asset \cup {Gone}
    BY <1>8
  <2>2. \A a \in 1..Len(assets) : assets'[a] \in Asset \cup {Gone}
    BY <2>1, <1>4, <1>8
  <2>3. assets' = [a \in 1..Len(assets) |-> assets'[a]]
    BY <1>2, <1>8, <2>1
  <2> HIDE DEF marked
  <2>4. assets' \in [1..Len(assets) -> Asset \cup {Gone}]
    BY <2>2, <2>3
  <2> QED BY <2>1, <2>4 DEF AssetsTyped
<1>10. Assets' = Assets
  BY <1>4, <1>8, AssetStoreAssumption DEF Assets
<1>11. \A a \in Assets :
         /\ assets'[a].org = assets[a].org /\ assets'[a].versions = assets[a].versions
         /\ assets'[a].state \in {"Draft", "Active"} =>
              /\ assets[a].state \in {"Draft", "Active"}
              /\ UsesBlob(a, b) => scan # "Infected"
  BY <1>1, <1>4, <1>8
<1>12. Versioned' /\ RenditionsTyped' /\ CollectionsTyped'
  BY <1>2, <1>10, <1>11 DEF Parts, Types, Versioned, RenditionsTyped, CollectionsTyped
<1>13. VersionsResolve' /\ RenditionsResolve' /\ MembersResolve'
  <2>1. \A i, org : Names(i, org) => Names(i, org)'
    BY <1>7 DEF Names
  <2>2. UNCHANGED <<renditions, collections>>
    BY <1>2
  <2>3. VersionsResolve'
    BY <1>10, <1>11, <2>1 DEF Parts, VersionsResolve
  <2>4. RenditionsResolve'
    BY <1>10, <1>11, <2>1, <2>2 DEF Parts, RenditionsResolve
  <2>5. MembersResolve'
    BY <1>10, <1>11, <2>2 DEF Parts, MembersResolve
  <2> QED BY <2>3, <2>4, <2>5
<1>14. NothingRemains'
  <2>1. \A a \in Assets, i \in Blobs : UsesBlob(a, i) => UsesBlob(a, i)'
    BY <1>11 DEF UsesBlob
  <2>2. UNCHANGED renditions
    BY <1>2
  <2> QED BY <1>7, <1>10, <2>1, <2>2 DEF Parts, NothingRemains
<1>15. TaintsAreKnown'
  <2> SUFFICES ASSUME NEW a \in Assets, assets'[a].state \in {"Draft", "Active"},
                      blobs'[Current(a)'.blob].scan = "Infected"
               PROVE  Current(a)'.tainted
    BY <1>10 DEF TaintsAreKnown, TaintIsKnown
  <2>1. Current(a)' = Current(a)
    BY <1>11 DEF Current
  <2>2. /\ Current(a).blob \in Blobs
        /\ Current(a).blob = b => UsesBlob(a, b)
    BY CurrentIsAVersion DEF Parts, Types, Current, VersionsResolve, Names, UsesBlob
  <2>3. blobs[Current(a).blob].scan = "Infected"
    BY <1>7, <1>11, <2>1, <2>2
  <2> QED BY <1>11, <2>1, <2>3 DEF Parts, TaintsAreKnown, TaintIsKnown
<1> QED BY <1>5, <1>9, <1>12, <1>13, <1>14, <1>15 DEF Parts, Types

-----------------------------------------------------------------------------
(* Versions.  Asset a gets a new current version, in Draft; the others,    *)
(* and what a had, stay.                                                   *)
Uploaded(a, version, b) ==
    /\ version \in Version /\ version.blob = b
    /\ Using(b, blobs') /\ blobs'[b].org = assets'[a].org
    /\ b \in Blobs /\ blobs[b].scan = "Infected" => version.tainted
    /\ assets'[a].state = "Draft"
    /\ assets'[a].versions[Len(assets'[a].versions)] = version
    /\ Len(assets'[a].versions) \in DOMAIN assets'[a].versions

(* Whoever uploads keeps the invariant, if the older versions stay.        *)
LEMMA UploadKeeps ==
    ASSUME Parts, NEW a, NEW version, NEW b, Uploaded(a, version, b),
           AssetsTyped', Assets' = Assets \cup {a},
           \A x \in Assets : x # a => assets'[x] = assets[x],
           a \in Assets =>
             /\ assets'[a].org = assets[a].org
             /\ DOMAIN assets[a].versions \subseteq DOMAIN assets'[a].versions
             /\ \A v \in DOMAIN assets[a].versions :
                  assets'[a].versions[v] = assets[a].versions[v],
           \A v \in DOMAIN assets'[a].versions :
             \/ assets'[a].versions[v] = version
             \/ /\ a \in Assets /\ v \in DOMAIN assets[a].versions
                /\ assets'[a].versions[v] = assets[a].versions[v],
           UNCHANGED <<renditions, collections>>
    PROVE  Parts'
<1>1. /\ BlobsTyped' /\ Blobs' = Blobs \cup {b}
      /\ \A i \in Blobs : blobs'[i].org = blobs[i].org /\ blobs'[i].scan = blobs[i].scan
      /\ \A i, org : Names(i, org) => Names(i, org)'
  BY BlobsStay DEF Uploaded, Parts, Types
<1>2. Versioned'
  BY DEF Parts, Types, Versioned, Uploaded
<1>3. \A x \in Assets :
        /\ assets'[x].org = assets[x].org
        /\ DOMAIN assets[x].versions \subseteq DOMAIN assets'[x].versions
        /\ \A v \in DOMAIN assets[x].versions :
             assets'[x].versions[v] = assets[x].versions[v]
  OBVIOUS
<1>4. Names(b, assets[a].org)'
  BY <1>1 DEF Uploaded, Names
<1>5. VersionsResolve'
  <2> SUFFICES ASSUME NEW x \in Assets', NEW v \in DOMAIN assets'[x].versions
               PROVE  Names(assets[x].versions[v].blob, assets[x].org)'
    BY DEF VersionsResolve
  <2>1. CASE x = a /\ assets'[a].versions[v] = version
    BY <2>1, <1>4 DEF Uploaded
  <2>2. CASE ~(x = a /\ assets'[a].versions[v] = version)
    <3>1. /\ x \in Assets /\ v \in DOMAIN assets[x].versions
          /\ assets'[x].versions[v] = assets[x].versions[v]
      BY <2>2
    <3> QED BY <3>1, <1>1, <1>3 DEF Parts, VersionsResolve
  <2> QED BY <2>1, <2>2
<1>6. RenditionsResolve'
  BY <1>1, <1>3 DEF Parts, RenditionsResolve
<1>7. MembersResolve' /\ RenditionsTyped' /\ CollectionsTyped'
  BY <1>3 DEF Parts, Types, MembersResolve, RenditionsTyped, CollectionsTyped
<1>8. NothingRemains'
  <2>1. \A x \in Assets, i \in Blobs : UsesBlob(x, i) => UsesBlob(x, i)'
    BY <1>3 DEF UsesBlob
  <2>2. UsesBlob(a, b)'
    BY DEF Uploaded, UsesBlob
  <2> QED BY <2>1, <2>2, UsesStay DEF Parts, Types, Uploaded
<1>9. TaintsAreKnown'
  <2> SUFFICES ASSUME NEW x \in Assets' PROVE TaintIsKnown(x)'
    BY DEF TaintsAreKnown
  <2>1. CASE x = a
    <3>1. Current(x)' = version
      BY <2>1 DEF Current, Uploaded
    <3>2. blobs'[b].scan = "Infected" => version.tainted
      BY <1>1 DEF Uploaded, Using
    <3> QED BY <2>1, <3>1, <3>2 DEF TaintIsKnown, Uploaded
  <2>2. CASE x # a
    <3>1. x \in Assets /\ Current(x)' = Current(x) /\ assets'[x] = assets[x]
      BY <2>2 DEF Current
    <3>2. Current(x).blob \in Blobs
      BY <3>1, CurrentIsAVersion DEF Parts, Types, Current, VersionsResolve, Names
    <3> QED BY <1>1, <3>1, <3>2 DEF Parts, TaintsAreKnown, TaintIsKnown
  <2> QED BY <2>1, <2>2
<1> QED BY <1>1, <1>2, <1>5, <1>6, <1>7, <1>8, <1>9 DEF Parts, Types

(* asset_create keeps the invariant.                                       *)
LEMMA AssetCreateKeeps ==
    ASSUME Parts, NEW org \in Tenants, NEW content \in Contents, AssetCreate(org, content)
    PROVE  Parts'
<1> DEFINE b == PutBlob(org, content)
           version == Upload(org, content)
           new == [org |-> org, state |-> "Draft", versions |-> <<version>>, holds |-> {}]
           a == Len(assets) + 1
<1>1. /\ blobs' = BlobsAfterUpload(org, content) /\ assets' = Append(assets, new)
      /\ UNCHANGED <<renditions, collections>>
  BY DEF AssetCreate
<1>2. /\ Using(b, blobs') /\ blobs'[b].org = org
      /\ version \in Version /\ version.blob = b
      /\ b \in Blobs /\ blobs[b].scan = "Infected" => version.tainted
  BY <1>1, UploadIsShared DEF Parts, Types
<1> HIDE DEF b, version
<1>3. /\ new \in Asset /\ new.org = org /\ new.state = "Draft" /\ new.versions = <<version>>
  BY <1>2 DEF Asset, AssetState
<1> HIDE DEF new
<1>4. /\ assets \in Seq(Asset \cup {Gone}) /\ assets' \in Seq(Asset \cup {Gone})
      /\ DOMAIN assets' = DOMAIN assets \cup {a} /\ a \notin DOMAIN assets
      /\ assets'[a] = new /\ \A x \in DOMAIN assets : assets'[x] = assets[x]
  BY <1>1, <1>3 DEF Parts, Types, AssetsTyped
<1> HIDE DEF a
<1>5. AssetsTyped' /\ Assets' = Assets \cup {a} /\ a \notin Assets
      /\ \A x \in Assets : x # a => assets'[x] = assets[x]
  BY <1>3, <1>4, AssetStoreAssumption DEF AssetsTyped, Assets
<1>6. Uploaded(a, version, b)
  <2>1. /\ assets'[a].versions = <<version>> /\ assets'[a].org = org
        /\ assets'[a].state = "Draft"
    BY <1>3, <1>4
  <2>2. /\ assets'[a].versions[Len(assets'[a].versions)] = version
        /\ Len(assets'[a].versions) \in DOMAIN assets'[a].versions
    BY <2>1
  <2> QED BY <1>2, <2>1, <2>2 DEF Uploaded
<1>7. \A v \in DOMAIN assets'[a].versions : assets'[a].versions[v] = version
  BY <1>3, <1>4
<1> QED BY <1>1, <1>5, <1>6, <1>7, UploadKeeps

(* asset_add_version keeps the invariant.                                  *)
LEMMA AssetAddVersionKeeps ==
    ASSUME Parts, NEW a \in Assets, NEW content \in Contents, AssetAddVersion(a, content)
    PROVE  Parts'
<1> DEFINE org == assets[a].org
           b == PutBlob(org, content)
           version == Upload(org, content)
           new == WithVersion(assets[a], version)
<1>1. /\ blobs' = BlobsAfterUpload(org, content)
      /\ assets' = [assets EXCEPT ![a] = new]
      /\ UNCHANGED <<renditions, collections>>
  BY DEF AssetAddVersion
<1>2. assets[a] \in Asset /\ org \in Tenants /\ assets[a].versions \in Seq(Version)
  BY EntriesAreTyped DEF Parts, Types, Asset
<1>3. /\ Using(b, blobs') /\ blobs'[b].org = org
      /\ version \in Version /\ version.blob = b
      /\ b \in Blobs /\ blobs[b].scan = "Infected" => version.tainted
  <2> HIDE DEF org
  <2> QED BY <1>1, <1>2, UploadIsShared DEF Parts, Types
<1> HIDE DEF b, version
<1>4. /\ new \in Asset /\ new.org = org /\ new.state = "Draft"
      /\ new.versions = Append(assets[a].versions, version)
  <2>1. Append(assets[a].versions, version) \in Seq(Version)
    BY <1>2, <1>3
  <2>2. new = [assets[a] EXCEPT !.versions = Append(assets[a].versions, version),
                                !.state = "Draft"]
    BY DEF WithVersion
  <2> QED BY <1>2, <2>1, <2>2 DEF Asset, AssetState
<1> HIDE DEF new
<1>5. /\ DOMAIN new.versions = DOMAIN assets[a].versions \cup {Len(new.versions)}
      /\ new.versions[Len(new.versions)] = version
      /\ \A v \in DOMAIN assets[a].versions : new.versions[v] = assets[a].versions[v]
  <2> DEFINE vs == assets[a].versions
  <2>1. vs \in Seq(Version) /\ version \in Version /\ new.versions = Append(vs, version)
    BY <1>2, <1>3, <1>4
  <2> HIDE DEF vs, org
  <2>2. /\ DOMAIN new.versions = DOMAIN vs \cup {Len(new.versions)}
        /\ new.versions[Len(new.versions)] = version
        /\ \A v \in DOMAIN vs : new.versions[v] = vs[v]
    BY <2>1
  <2> QED BY <2>2 DEF vs
<1>6. /\ AssetsTyped' /\ Assets' = Assets
      /\ assets'[a] = new /\ \A x \in Assets : x # a => assets'[x] = assets[x]
  BY <1>1, <1>4, OneReplaced DEF Parts, Types
<1>7. Uploaded(a, version, b)
  BY <1>3, <1>4, <1>5, <1>6 DEF Uploaded
<1>8. Assets' = Assets \cup {a}
  BY <1>6
<1>9. \A v \in DOMAIN assets'[a].versions :
        \/ assets'[a].versions[v] = version
        \/ /\ a \in Assets /\ v \in DOMAIN assets[a].versions
           /\ assets'[a].versions[v] = assets[a].versions[v]
  BY <1>5, <1>6
<1>10. /\ assets'[a].org = assets[a].org
       /\ DOMAIN assets[a].versions \subseteq DOMAIN assets'[a].versions
       /\ \A v \in DOMAIN assets[a].versions :
            assets'[a].versions[v] = assets[a].versions[v]
  BY <1>4, <1>5, <1>6
<1> QED BY <1>1, <1>6, <1>7, <1>8, <1>9, <1>10, UploadKeeps

-----------------------------------------------------------------------------
(* Collections, and the purge.                                             *)

(* Nothing but the collections changes.                                    *)
LEMMA CollectingKeeps ==
    ASSUME Parts, UNCHANGED <<blobs, assets, renditions>>, CollectionsTyped', MembersResolve'
    PROVE  Parts'
<1>1. Assets' = Assets /\ Blobs' = Blobs
  BY DEF Assets, Blobs
<1>2. Types'
  BY <1>1 DEF Parts, Types, BlobsTyped, AssetsTyped, Versioned, RenditionsTyped
<1>3. VersionsResolve' /\ RenditionsResolve'
  BY <1>1 DEF Parts, VersionsResolve, RenditionsResolve, Names
<1>4. NothingRemains' /\ TaintsAreKnown'
  BY <1>1 DEF Parts, NothingRemains, UsesBlob, TaintsAreKnown, TaintIsKnown, Current
<1> QED BY <1>2, <1>3, <1>4 DEF Parts

(* collection_create keeps the invariant.                                  *)
LEMMA CollectionCreateKeeps ==
    ASSUME Parts, NEW org \in Tenants, NEW parent \in 0..Len(collections),
           CollectionCreate(org, parent)
    PROVE  Parts'
<1> DEFINE new == [org |-> org, parent |-> parent, members |-> {}]
<1>1. collections' = Append(collections, new) /\ UNCHANGED <<blobs, assets, renditions>>
  BY DEF CollectionCreate
<1>2. collections \in Seq(Collection) /\ Len(collections) \in Nat
      /\ \A c \in DOMAIN collections : collections[c].parent \in 0..c - 1
  BY DEF Parts, Types, CollectionsTyped
<1>3. new \in Collection /\ new.parent = parent /\ new.members = {}
  BY <1>2 DEF Collection
<1> HIDE DEF new
<1>4. /\ collections' \in Seq(Collection)
      /\ DOMAIN collections' = DOMAIN collections \cup {Len(collections) + 1}
      /\ \A c \in DOMAIN collections : collections'[c] = collections[c]
      /\ collections'[Len(collections) + 1] = new
  BY <1>1, <1>2, <1>3
<1>5. CollectionsTyped'
  BY <1>2, <1>3, <1>4 DEF CollectionsTyped
<1>6. MembersResolve'
  BY <1>1, <1>3, <1>4 DEF Parts, MembersResolve, Assets
<1> QED BY <1>1, <1>5, <1>6, CollectingKeeps

(* One collection whose members change.                                    *)
LEMMA MembersReplaced ==
    ASSUME CollectionsTyped, NEW c \in DOMAIN collections, NEW members \in SUBSET Nat,
           collections' = [collections EXCEPT ![c].members = members]
    PROVE  /\ CollectionsTyped' /\ DOMAIN collections' = DOMAIN collections
           /\ \A k \in DOMAIN collections :
                /\ collections'[k].org = collections[k].org
                /\ collections'[k].members = IF k = c THEN members ELSE collections[k].members
<1> DEFINE new == [collections[c] EXCEPT !.members = members]
<1>1. /\ collections \in Seq(Collection) /\ c \in 1..Len(collections)
      /\ collections[c] \in Collection
  BY DEF CollectionsTyped
<1>2. /\ new \in Collection /\ new.org = collections[c].org
      /\ new.parent = collections[c].parent /\ new.members = members
  BY <1>1 DEF Collection
<1>3. collections' = [collections EXCEPT ![c] = new]
  OBVIOUS
<1> HIDE DEF new
<1>4. collections' \in Seq(Collection)
  BY <1>1, <1>2, <1>3, ExceptSeq
<1>5. /\ DOMAIN collections' = DOMAIN collections /\ collections'[c] = new
      /\ \A k \in DOMAIN collections : k # c => collections'[k] = collections[k]
  BY <1>1, <1>3
<1> QED BY <1>2, <1>4, <1>5 DEF CollectionsTyped

(* collection_add and collection_remove keep the invariant.                *)
LEMMA MembersKeep ==
    ASSUME Parts, NEW c \in DOMAIN collections, NEW a \in DOMAIN assets,
           (a \in Assets /\ CollectionAdd(c, a)) \/ CollectionRemove(c, a)
    PROVE  Parts'
<1>1. collections[c].members \subseteq Nat /\ a \in Nat
  <2>1. collections[c] \in Collection
    BY DEF Parts, Types, CollectionsTyped
  <2>2. assets \in Seq(Asset \cup {Gone})
    BY DEF Parts, Types, AssetsTyped
  <2> QED BY <2>1, <2>2 DEF Collection
<1>2. UNCHANGED <<blobs, assets, renditions>> /\ Assets' = Assets
  BY DEF CollectionAdd, CollectionRemove, Assets
<1>3. CASE a \in Assets /\ CollectionAdd(c, a)
  <2> DEFINE members == collections[c].members \cup {a}
  <2>1. /\ collections' = [collections EXCEPT ![c].members = members]
        /\ collections[c].org = assets[a].org
    BY <1>3 DEF CollectionAdd
  <2>2. members \in SUBSET Nat /\ \A x \in members : x \in collections[c].members \/ x = a
    BY <1>1
  <2> HIDE DEF members
  <2>3. /\ CollectionsTyped' /\ DOMAIN collections' = DOMAIN collections
        /\ \A k \in DOMAIN collections :
             /\ collections'[k].org = collections[k].org
             /\ collections'[k].members = IF k = c THEN members ELSE collections[k].members
    BY <2>1, <2>2, MembersReplaced DEF Parts, Types
  <2>4. MembersResolve'
    BY <1>2, <1>3, <2>1, <2>2, <2>3 DEF Parts, MembersResolve
  <2> QED BY <1>2, <2>3, <2>4, CollectingKeeps
<1>4. CASE CollectionRemove(c, a)
  <2> DEFINE members == collections[c].members \ {a}
  <2>1. collections' = [collections EXCEPT ![c].members = members]
    BY <1>4 DEF CollectionRemove
  <2>2. members \in SUBSET Nat /\ \A x \in members : x \in collections[c].members
    BY <1>1
  <2> HIDE DEF members
  <2>3. /\ CollectionsTyped' /\ DOMAIN collections' = DOMAIN collections
        /\ \A k \in DOMAIN collections :
             /\ collections'[k].org = collections[k].org
             /\ collections'[k].members = IF k = c THEN members ELSE collections[k].members
    BY <2>1, <2>2, MembersReplaced DEF Parts, Types
  <2>4. MembersResolve'
    BY <1>2, <2>2, <2>3 DEF Parts, MembersResolve
  <2> QED BY <1>2, <2>3, <2>4, CollectingKeeps
<1> QED BY <1>3, <1>4

(* purge keeps the invariant: what goes is what only this asset used.      *)
LEMMA PurgeKeeps ==
    ASSUME Parts, NEW a \in Assets, Purge(a)
    PROVE  Parts'
<1> DEFINE gone == {b \in BlobsOf(a) : ~StillReferenced(b, a)}
<1>1. /\ renditions' = {r \in renditions : r.asset # a}
      /\ blobs' = [b \in DOMAIN blobs |-> IF b \in gone THEN Gone ELSE blobs[b]]
      /\ collections' = [c \in DOMAIN collections |->
                           [collections[c] EXCEPT !.members = @ \ {a}]]
      /\ assets' = [assets EXCEPT ![a] = Gone]
  BY DEF Purge, RenditionsOf
<1>2. /\ \A b \in Blobs : b \in DOMAIN blobs /\ b \in Nat /\ blobs[b] \in Blob
      /\ \A x \in Assets : x \in DOMAIN assets /\ x \in Nat /\ assets[x] \in Asset
  BY EntriesAreTyped DEF Parts, Types
<1>3. \A b \in gone :
        /\ \A x \in Assets \ {a} : ~UsesBlob(x, b)
        /\ \A r \in renditions' : r.blob # b
  BY <1>1 DEF StillReferenced, RenditionsOf
<1>4. \A b \in Blobs \ gone :
        \/ ~UsesBlob(a, b) /\ \A r \in renditions : r.asset = a => r.blob # b
        \/ \E x \in Assets \ {a} : UsesBlob(x, b)
        \/ \E r \in renditions' : r.blob = b
  BY <1>1 DEF StillReferenced, RenditionsOf, BlobsOf, UsesBlob
<1> HIDE DEF gone
<1>5. BlobsTyped' /\ DOMAIN blobs' = DOMAIN blobs
  <2>1. /\ Len(blobs) \in Nat /\ DOMAIN blobs = 1..Len(blobs)
        /\ \A i \in 1..Len(blobs) : blobs[i] \in Blob \cup {Gone}
    BY DEF Parts, Types, BlobsTyped
  <2>2. blobs' \in [1..Len(blobs) -> Blob \cup {Gone}]
    BY <1>1, <2>1
  <2> QED BY <2>1, <2>2 DEF BlobsTyped
<1>6. Blobs' = Blobs \ gone /\ \A b \in Blobs' : blobs'[b] = blobs[b]
  BY <1>1, <1>5 DEF Blobs
<1>7. /\ AssetsTyped' /\ DOMAIN assets' = DOMAIN assets
      /\ assets'[a] = Gone /\ \A x \in DOMAIN assets : x # a => assets'[x] = assets[x]
  <2>1. a \in 1..Len(assets) /\ assets \in Seq(Asset \cup {Gone})
    BY <1>2 DEF Parts, Types, AssetsTyped
  <2>2. assets' \in Seq(Asset \cup {Gone})
    BY <1>1, <2>1, ExceptSeq
  <2> QED BY <1>1, <2>1, <2>2 DEF AssetsTyped
<1>8. Assets' = Assets \ {a} /\ \A x \in Assets' : assets'[x] = assets[x]
  BY <1>2, <1>7 DEF Assets
<1>9. /\ CollectionsTyped' /\ DOMAIN collections' = DOMAIN collections
      /\ \A c \in DOMAIN collections :
           /\ collections'[c].org = collections[c].org
           /\ collections'[c].members = collections[c].members \ {a}
  <2>1. /\ Len(collections) \in Nat /\ DOMAIN collections = 1..Len(collections)
        /\ \A c \in 1..Len(collections) : collections[c] \in Collection
        /\ \A c \in 1..Len(collections) : collections[c].parent \in 0..c - 1
    BY DEF Parts, Types, CollectionsTyped
  <2> DEFINE left(c) == [collections[c] EXCEPT !.members = @ \ {a}]
  <2>2. \A c \in 1..Len(collections) :
          /\ left(c) \in Collection /\ left(c).org = collections[c].org
          /\ left(c).parent = collections[c].parent
          /\ left(c).members = collections[c].members \ {a}
    BY <2>1 DEF Collection
  <2>3. collections' = [c \in 1..Len(collections) |-> left(c)]
    BY <1>1, <2>1
  <2> HIDE DEF left
  <2>4. collections' \in [1..Len(collections) -> Collection]
    BY <2>2, <2>3
  <2>5. collections' \in Seq(Collection) /\ DOMAIN collections' = 1..Len(collections)
    BY <2>1, <2>4
  <2> QED BY <2>1, <2>2, <2>3, <2>5 DEF CollectionsTyped
<1>10. Types'
  BY <1>1, <1>5, <1>7, <1>8, <1>9 DEF Parts, Types, Versioned, RenditionsTyped
<1>11. VersionsResolve'
  <2> SUFFICES ASSUME NEW x \in Assets', NEW v \in DOMAIN assets'[x].versions
               PROVE  Names(assets[x].versions[v].blob, assets[x].org)'
    BY DEF VersionsResolve
  <2> DEFINE b == assets[x].versions[v].blob
  <2>1. x \in Assets \ {a} /\ assets'[x] = assets[x] /\ v \in DOMAIN assets[x].versions
    BY <1>8
  <2>2. b \in Blobs /\ blobs[b].org = assets[x].org /\ UsesBlob(x, b)
    BY <2>1 DEF Parts, VersionsResolve, Names, UsesBlob
  <2>3. b \in Blobs' /\ blobs'[b] = blobs[b]
    BY <1>3, <1>6, <2>1, <2>2
  <2> QED BY <2>1, <2>2, <2>3 DEF Names
<1>12. RenditionsResolve'
  <2> SUFFICES ASSUME NEW r \in renditions'
               PROVE  /\ r.asset \in Assets'
                      /\ r.version \in DOMAIN assets'[r.asset].versions
                      /\ Names(r.blob, assets[r.asset].org)'
    BY DEF RenditionsResolve
  <2>1. r \in renditions /\ r.asset # a
    BY <1>1
  <2>2. /\ r.asset \in Assets /\ r.version \in DOMAIN assets[r.asset].versions
        /\ r.blob \in Blobs /\ blobs[r.blob].org = assets[r.asset].org
    BY <2>1 DEF Parts, RenditionsResolve, Names
  <2>3. r.asset \in Assets' /\ assets'[r.asset] = assets[r.asset]
    BY <1>8, <2>1, <2>2
  <2>4. r.blob \in Blobs' /\ blobs'[r.blob] = blobs[r.blob]
    BY <1>3, <1>6, <2>2
  <2> QED BY <2>2, <2>3, <2>4 DEF Names
<1>13. MembersResolve'
  BY <1>8, <1>9 DEF Parts, MembersResolve
<1>14. NothingRemains'
  <2> SUFFICES ASSUME NEW b \in Blobs', blobs'[b].used
               PROVE  \/ \E x \in Assets' : UsesBlob(x, b)'
                      \/ \E r \in renditions' : r.blob = b
    BY DEF NothingRemains
  <2>1. b \in Blobs \ gone /\ blobs[b].used
    BY <1>6
  <2>2. \/ \E x \in Assets : UsesBlob(x, b)
        \/ \E r \in renditions : r.blob = b
    BY <2>1 DEF Parts, NothingRemains
  <2>3. \/ \E x \in Assets \ {a} : UsesBlob(x, b)
        \/ \E r \in renditions' : r.blob = b
    BY <1>1, <1>4, <2>1, <2>2
  <2>4. \A x \in Assets \ {a} : UsesBlob(x, b) => x \in Assets' /\ UsesBlob(x, b)'
    BY <1>8 DEF UsesBlob
  <2> QED BY <2>3, <2>4
<1>15. TaintsAreKnown'
  <2> SUFFICES ASSUME NEW x \in Assets' PROVE TaintIsKnown(x)'
    BY DEF TaintsAreKnown
  <2>1. x \in Assets /\ assets'[x] = assets[x] /\ Current(x)' = Current(x)
    BY <1>8 DEF Current
  <2>2. Current(x).blob \in Blobs'
    BY <1>11, <2>1, CurrentIsAVersion DEF Parts, Types, Current, VersionsResolve, Names
  <2>3. blobs'[Current(x).blob] = blobs[Current(x).blob]
    BY <1>6, <2>2
  <2> QED BY <2>1, <2>3 DEF Parts, TaintsAreKnown, TaintIsKnown
<1> QED BY <1>10, <1>11, <1>12, <1>13, <1>14, <1>15 DEF Parts

-----------------------------------------------------------------------------
(* The invariant of the store.                                             *)

LEMMA InitInv == AssetInit => Parts
  BY DEF AssetInit, Parts, Types, BlobsTyped, AssetsTyped, Versioned, RenditionsTyped,
         CollectionsTyped, VersionsResolve, RenditionsResolve, MembersResolve,
         NothingRemains, TaintsAreKnown, Assets, Blobs

(* A step that leaves the store alone.                                     *)
LEMMA StutterInv == Parts /\ UNCHANGED assetVars => Parts'
<1> SUFFICES ASSUME Parts, UNCHANGED assetVars PROVE Parts'
  OBVIOUS
<1>1. CollectionsTyped' /\ MembersResolve'
  BY DEF assetVars, Parts, Types, CollectionsTyped, MembersResolve, Assets
<1> QED BY <1>1, CollectingKeeps DEF assetVars

(* Every step keeps the invariant.                                         *)
LEMMA StepInv == Parts /\ [AssetNext]_assetVars => Parts'
<1> SUFFICES ASSUME Parts, AssetNext PROVE Parts'
  BY StutterInv
<1>1. CASE Author
  BY <1>1, BlobPutKeeps, AssetCreateKeeps, AssetAddVersionKeeps, RenditionCreateKeeps
     DEF Author
<1>2. CASE Collect
  BY <1>2, CollectionCreateKeeps, MembersKeep DEF Collect, Assets
<1>3. CASE Keep
  BY <1>3, LabelsKeep, PurgeKeeps DEF Keep
<1>4. CASE Scan
  BY <1>4, BlobMarkScanStateKeeps DEF Scan
<1> QED BY <1>1, <1>2, <1>3, <1>4 DEF AssetNext

LEMMA Invariance == AssetSpec => []Parts
  BY InitInv, StepInv, PTL DEF AssetSpec

(* A version, a rendition and a collection never name what is not there,   *)
(* in another organization or at all, and contents that were used stay     *)
(* exactly as long as they are: blob_put, asset_create, asset_add_version, *)
(* rendition_create, the collections and purge, in any order.              *)
THEOREM SharingIsExactHolds == AssetSpec => []SharingIsExact
<1>1. Parts => SharingIsExact
  BY InvInParts DEF AssetInv, SharingIsExact
<1> QED BY <1>1, Invariance, PTL

(* No Active asset has a current version that is infected, unless it was   *)
(* known to be when asset_create or asset_add_version took it:             *)
(* blob_mark_scan_state takes all assets out of use that hold the blob.    *)
THEOREM InfectedIsNotActiveHolds == AssetSpec => []InfectedIsNotActive
<1>1. Parts => InfectedIsNotActive
  BY DEF Parts, TaintsAreKnown, TaintIsKnown, Current, InfectedIsNotActive
<1> QED BY <1>1, Invariance, PTL

-----------------------------------------------------------------------------
(* What is held is kept.                                                   *)

Kept(a) ==
    /\ assets'[a] # Gone
    /\ assets[a].state # "Deleted" => assets'[a].state # "Deleted"
    /\ RenditionsOf(a) \subseteq renditions'
    /\ \A b \in BlobsOf(a) : blobs'[b] # Gone

(* What an asset and its renditions name is there.                         *)
LEMMA BlobsOfAreBlobs ==
    ASSUME Parts, NEW a \in Assets
    PROVE  BlobsOf(a) \subseteq Blobs
  BY DEF Parts, VersionsResolve, RenditionsResolve, Names, BlobsOf, RenditionsOf

(* Steps that remove nothing.                                              *)
LEMMA NothingGoes ==
    ASSUME Parts, NEW a \in Assets, Assets \subseteq Assets', Blobs \subseteq Blobs',
           renditions \subseteq renditions',
           assets[a].state # "Deleted" => assets'[a].state # "Deleted"
    PROVE  Kept(a)
<1>1. assets'[a] # Gone
  BY DEF Assets
<1>2. RenditionsOf(a) \subseteq renditions'
  BY DEF RenditionsOf
<1>3. \A b \in BlobsOf(a) : blobs'[b] # Gone
  BY BlobsOfAreBlobs DEF Blobs
<1> QED BY <1>1, <1>2, <1>3 DEF Kept

(* What authors and collectors do.                                         *)
LEMMA AuthorsKeepHeld ==
    ASSUME Parts, NEW a \in Assets, Author \/ Collect
    PROVE  Kept(a)
<1>1. /\ \A i \in Blobs : i \in DOMAIN blobs /\ i \in Nat /\ blobs[i] \in Blob
      /\ \A x \in Assets : x \in DOMAIN assets /\ x \in Nat /\ assets[x] \in Asset
  BY EntriesAreTyped DEF Parts, Types
<1>2. ASSUME NEW org \in Tenants, NEW content \in Contents, BlobPut(org, content)
      PROVE  Kept(a)
  <2> DEFINE put == BlobsAfterPut(org, content)
  <2>1. blobs' = put /\ UNCHANGED <<assets, renditions>>
    BY <1>2 DEF BlobPut
  <2>2. /\ DOMAIN put = DOMAIN blobs \cup {PutBlob(org, content)}
        /\ \A i \in DOMAIN blobs : put[i] = blobs[i]
    BY PutIsShared DEF Parts, Types
  <2> HIDE DEF put
  <2>3. Blobs \subseteq Blobs' /\ Assets' = Assets
    BY <2>1, <2>2 DEF Blobs, Assets
  <2> QED BY <2>1, <2>3, NothingGoes
<1>3. ASSUME NEW org \in Tenants, NEW content \in Contents,
             blobs' = BlobsAfterUpload(org, content)
      PROVE  Blobs \subseteq Blobs'
  <2> DEFINE b == PutBlob(org, content)
  <2>1. Using(b, blobs')
    BY <1>3, UploadIsShared DEF Parts, Types
  <2> HIDE DEF b
  <2> QED BY <2>1, BlobsStay DEF Parts, Types
<1>4. ASSUME NEW org \in Tenants, NEW content \in Contents, AssetCreate(org, content)
      PROVE  Kept(a)
  <2>1. PICK new : assets' = Append(assets, new)
    BY <1>4 DEF AssetCreate
  <2>2. /\ \A x \in DOMAIN assets : assets'[x] = assets[x]
        /\ DOMAIN assets \subseteq DOMAIN assets'
    BY <2>1 DEF Parts, Types, AssetsTyped
  <2>3. Assets \subseteq Assets' /\ assets'[a] = assets[a]
    BY <2>2 DEF Assets
  <2>4. Blobs \subseteq Blobs' /\ renditions' = renditions
    BY <1>3, <1>4 DEF AssetCreate
  <2> QED BY <2>3, <2>4, NothingGoes
<1>5. ASSUME NEW x \in Assets, NEW content \in Contents, AssetAddVersion(x, content)
      PROVE  Kept(a)
  <2> DEFINE new == WithVersion(assets[x], Upload(assets[x].org, content))
  <2>1. assets' = [assets EXCEPT ![x] = new] /\ renditions' = renditions
    BY <1>5 DEF AssetAddVersion
  <2>2. assets[x].org \in Tenants /\ assets[x] \in Asset
    BY <1>1 DEF Asset
  <2>3. Blobs \subseteq Blobs'
    <3>1. blobs' = BlobsAfterUpload(assets[x].org, content)
      BY <1>5 DEF AssetAddVersion
    <3> QED BY <1>3, <2>2, <3>1
  <2>4. Upload(assets[x].org, content) \in Version
    BY <2>2, UploadIsShared DEF Parts, Types
  <2>5. new \in Asset /\ new.state = "Draft"
    <3> DEFINE version == Upload(assets[x].org, content)
    <3>1. version \in Version
      BY <2>4
    <3>2. new = [assets[x] EXCEPT !.versions = Append(assets[x].versions, version),
                                  !.state = "Draft"]
      BY DEF WithVersion
    <3> HIDE DEF version, new
    <3>3. assets[x].versions \in Seq(Version)
      BY <2>2 DEF Asset
    <3>4. Append(assets[x].versions, version) \in Seq(Version)
      BY <3>1, <3>3
    <3> QED BY <2>2, <3>2, <3>4 DEF Asset, AssetState
  <2> HIDE DEF new
  <2>6. /\ Assets' = Assets
        /\ assets'[x] = new /\ \A y \in Assets : y # x => assets'[y] = assets[y]
    BY <2>1, <2>5, OneReplaced DEF Parts, Types
  <2> QED BY <2>1, <2>3, <2>5, <2>6, NothingGoes
<1>6. ASSUME NEW x \in Assets, NEW b \in Blobs,
             NEW v \in DOMAIN assets[x].versions, RenditionCreate(x, v, b)
      PROVE  Kept(a)
  <2>1. /\ blobs' = [blobs EXCEPT ![b].used = TRUE] /\ UNCHANGED assets
        /\ renditions \subseteq renditions'
    BY <1>6 DEF RenditionCreate
  <2>2. b \in DOMAIN blobs /\ blobs[b] \in Blob /\ blobs \in Seq(Blob \cup {Gone})
    BY <1>1 DEF Parts, Types, BlobsTyped
  <2>3. /\ DOMAIN blobs' = DOMAIN blobs /\ blobs'[b] \in Blob
        /\ \A i \in DOMAIN blobs : i # b => blobs'[i] = blobs[i]
    BY <2>1, <2>2, MarkedAsUsed
  <2>4. Blobs \subseteq Blobs' /\ Assets' = Assets
    BY <2>1, <2>3, AssetStoreAssumption DEF Blobs, Assets
  <2> QED BY <2>1, <2>4, NothingGoes
<1>7. CASE Collect
  <2>1. UNCHANGED <<blobs, assets, renditions>>
    BY <1>7 DEF Collect, CollectionCreate, CollectionAdd, CollectionRemove
  <2>2. Blobs' = Blobs /\ Assets' = Assets
    BY <2>1 DEF Blobs, Assets
  <2> QED BY <2>1, <2>2, NothingGoes
<1> QED BY <1>2, <1>4, <1>5, <1>6, <1>7 DEF Author

(* Labels, where a held asset is not deleted.                              *)
LEMMA LabelsKeepHeld ==
    ASSUME Parts, NEW a \in Assets, assets[a].holds # {}, NEW x \in Assets,
           \/ AssetArchive(x) \/ AssetDelete(x)
           \/ \E h \in Holds : HoldAddLegalHold(x, h) \/ HoldReleaseLegalHold(x, h)
    PROVE  Kept(a)
<1>1. \A y \in Assets : y \in DOMAIN assets /\ assets[y] \in Asset
  BY EntriesAreTyped DEF Parts, Types
<1>2. PICK new \in Asset :
        /\ assets' = [assets EXCEPT ![x] = new]
        /\ new.state = "Deleted" => assets[x].state = "Deleted" \/ assets[x].holds = {}
  <2> DEFINE Good(y) ==
               /\ y \in Asset /\ assets' = [assets EXCEPT ![x] = y]
               /\ y.state = "Deleted" => assets[x].state = "Deleted" \/ assets[x].holds = {}
  <2>1. CASE AssetArchive(x)
    <3> DEFINE y == [assets[x] EXCEPT !.state = "Archived"]
    <3>1. y \in Asset /\ y.state = "Archived"
      BY <1>1 DEF Asset, AssetState
    <3>2. assets' = [assets EXCEPT ![x] = y]
      BY <2>1 DEF AssetArchive
    <3>3. Good(y)
      BY <3>1, <3>2
    <3> QED BY <3>3
  <2>2. CASE AssetDelete(x)
    <3> DEFINE y == [assets[x] EXCEPT !.state = "Deleted"]
    <3>1. y \in Asset /\ assets[x].holds = {}
      BY <1>1, <2>2 DEF Asset, AssetState, AssetDelete
    <3>2. assets' = [assets EXCEPT ![x] = y]
      BY <2>2 DEF AssetDelete
    <3>3. Good(y)
      BY <3>1, <3>2
    <3> QED BY <3>3
  <2>3. ASSUME NEW h \in Holds, HoldAddLegalHold(x, h)
       PROVE  \E y : Good(y)
    <3> DEFINE y == [assets[x] EXCEPT !.holds = @ \cup {h}]
    <3>1. y \in Asset /\ y.state = assets[x].state
      BY <1>1 DEF Asset
    <3>2. assets' = [assets EXCEPT ![x] = y]
      BY <2>3 DEF HoldAddLegalHold
    <3>3. Good(y)
      BY <3>1, <3>2
    <3> QED BY <3>3
  <2>4. ASSUME NEW h \in Holds, HoldReleaseLegalHold(x, h)
       PROVE  \E y : Good(y)
    <3> DEFINE y == [assets[x] EXCEPT !.holds = @ \ {h}]
    <3>1. y \in Asset /\ y.state = assets[x].state
      BY <1>1 DEF Asset
    <3>2. assets' = [assets EXCEPT ![x] = y]
      BY <2>4 DEF HoldReleaseLegalHold
    <3>3. Good(y)
      BY <3>1, <3>2
    <3> QED BY <3>3
  <2> QED BY <2>1, <2>2, <2>3, <2>4
<1>3. /\ Assets' = Assets
      /\ assets'[x] = new /\ \A y \in Assets : y # x => assets'[y] = assets[y]
  BY <1>2, OneReplaced DEF Parts, Types
<1>4. UNCHANGED <<blobs, renditions>> /\ Blobs' = Blobs
  BY DEF AssetArchive, AssetDelete, HoldAddLegalHold, HoldReleaseLegalHold, Blobs
<1>5. assets[a].state # "Deleted" => assets'[a].state # "Deleted"
  BY <1>2, <1>3
<1> QED BY <1>3, <1>4, <1>5, NothingGoes

(* Another asset is purged: it leaves what the held one uses.              *)
LEMMA PurgeKeepsHeld ==
    ASSUME Parts, NEW a \in Assets, assets[a].holds # {}, NEW x \in Assets, Purge(x)
    PROVE  Kept(a)
<1>1. /\ renditions' = renditions \ RenditionsOf(x)
      /\ blobs' = [b \in DOMAIN blobs |->
                    IF b \in BlobsOf(x) /\ ~StillReferenced(b, x) THEN Gone ELSE blobs[b]]
      /\ assets' = [assets EXCEPT ![x] = Gone]
      /\ x # a
  BY DEF Purge, Purgeable
<1>2. a \in DOMAIN assets /\ assets[a] # Gone /\ BlobsOf(a) \subseteq Blobs
  BY BlobsOfAreBlobs DEF Assets
<1>3. assets'[a] = assets[a] /\ RenditionsOf(a) \subseteq renditions'
  BY <1>1, <1>2 DEF RenditionsOf
<1>4. \A b \in BlobsOf(a) : StillReferenced(b, x)
  BY <1>1 DEF BlobsOf, StillReferenced, RenditionsOf, UsesBlob
<1>5. \A b \in BlobsOf(a) : blobs'[b] # Gone
  BY <1>1, <1>2, <1>4 DEF Blobs
<1> QED BY <1>2, <1>3, <1>5 DEF Kept

(* A scan moves states, never to Deleted.                                  *)
LEMMA ScansKeepHeld ==
    ASSUME Parts, NEW a \in Assets, NEW b \in Blobs, NEW scan \in ScanState,
           BlobMarkScanState(b, scan)
    PROVE  Kept(a)
<1> DEFINE blob == [blobs[b] EXCEPT !.scan = scan]
           marked(x) == [assets[x] EXCEPT !.state = StateAfterScan(@, scan)]
<1>1. /\ b \in DOMAIN blobs /\ blobs[b] \in Blob
      /\ \A x \in Assets : assets[x] \in Asset
  BY EntriesAreTyped DEF Parts, Types
<1>2. /\ blobs' = [blobs EXCEPT ![b] = blob] /\ UNCHANGED renditions
      /\ assets' = [x \in DOMAIN assets |->
                      IF x \in Assets /\ UsesBlob(x, b) THEN marked(x) ELSE assets[x]]
  BY DEF BlobMarkScanState
<1>3. blob \in Blob
  BY <1>1 DEF Blob
<1>4. \A x \in Assets :
        /\ marked(x) \in Asset
        /\ marked(x).state = "Deleted" => assets[x].state = "Deleted"
  BY <1>1 DEF Asset, AssetState, StateAfterScan
<1> HIDE DEF blob, marked
<1>5. Blobs \subseteq Blobs'
  BY <1>2, <1>3, AssetStoreAssumption DEF Blobs
<1>6. Assets \subseteq Assets'
  BY <1>2, <1>4, AssetStoreAssumption DEF Assets
<1>7. assets[a].state # "Deleted" => assets'[a].state # "Deleted"
  BY <1>2, <1>4 DEF Assets
<1> QED BY <1>2, <1>5, <1>6, <1>7, NothingGoes

(* Whatever is done to the store, an asset under a legal hold, its         *)
(* renditions and its contents stay, and it is not deleted: asset_delete   *)
(* and purge look at its holds, and purge of another asset at what the     *)
(* held one refers to.                                                     *)
THEOREM HeldIsKeptHolds == AssetSpec => HeldIsKept
<1> DEFINE AllKept == \A a \in Assets : assets[a].holds # {} => Kept(a)
<1>1. Parts /\ [AssetNext]_assetVars => [AllKept]_assetVars
  <2> SUFFICES ASSUME Parts, AssetNext, NEW a \in Assets, assets[a].holds # {}
               PROVE  Kept(a)
    OBVIOUS
  <2>1. CASE Author \/ Collect
    BY <2>1, AuthorsKeepHeld
  <2>2. CASE Keep
    BY <2>2, LabelsKeepHeld, PurgeKeepsHeld DEF Keep
  <2>3. CASE Scan
    BY <2>3, ScansKeepHeld DEF Scan
  <2> QED BY <2>1, <2>2, <2>3 DEF AssetNext
<1>2. AllKept <=> \A a \in Assets :
         assets[a].holds # {} =>
           /\ assets'[a] # Gone
           /\ assets[a].state # "Deleted" => assets'[a].state # "Deleted"
           /\ RenditionsOf(a) \subseteq renditions'
           /\ \A b \in BlobsOf(a) : blobs'[b] # Gone
  BY DEF Kept
<1> HIDE DEF AllKept
<1> QED BY <1>1, <1>2, Invariance, PTL DEF AssetSpec, HeldIsKept

-----------------------------------------------------------------------------
(* Access control.  A delegation ends after it begins, as delegate asks:   *)
(* its end, which effective_permissions does not expect to be None, is an  *)
(* instant.                                                                *)
DelegationsEnd ==
    \A d \in DOMAIN delegations : delegations[d].until > delegations[d].from

PrincipalsTyped == principals \in Seq({"Active", "Disabled"})
GroupsTyped == groups \in Seq(SUBSET DOMAIN principals)
RolesTyped == roles \in Seq(SUBSET Permissions)
GrantsTyped ==
    /\ grants \in Seq(RoleGrant)
    /\ \A g \in DOMAIN grants :
         grants[g].role \in DOMAIN roles /\ grants[g].principal \in 0..Len(principals)
DelegationsTyped ==
    /\ delegations \in Seq(Delegation)
    /\ \A d \in DOMAIN delegations :
         {delegations[d].from_principal, delegations[d].to_principal}
           \subseteq DOMAIN principals
PoliciesTyped == policies \in Seq(PolicyRule)
IdentitiesTyped ==
    /\ identities \subseteq ExternalIdentity
    /\ \A i \in identities : i.principal \in DOMAIN principals
    /\ \A i, j \in identities : i.subject = j.subject => i = j
ClockTyped == accessClock \in Nat \ {0}

AccessParts ==
    PrincipalsTyped /\ GroupsTyped /\ RolesTyped /\ GrantsTyped /\ DelegationsTyped
      /\ PoliciesTyped /\ IdentitiesTyped /\ ClockTyped /\ DelegationsEnd

(* AccessTypeOK, part by part.                                             *)
LEMMA AccessInParts == AccessParts <=> AccessTypeOK /\ DelegationsEnd
  BY DEF AccessParts, AccessTypeOK, PrincipalsTyped, GroupsTyped, RolesTyped, GrantsTyped,
         DelegationsTyped, PoliciesTyped, IdentitiesTyped, ClockTyped

(* Sequences of sets may be looked at as sequences of larger sets.         *)
LEMMA LargerSets ==
    ASSUME NEW A, NEW B, A \subseteq B, NEW s \in Seq(SUBSET A)
    PROVE  s \in Seq(SUBSET B)
<1>1. Len(s) \in Nat /\ s \in [1..Len(s) -> SUBSET B]
  OBVIOUS
<1> QED BY <1>1

(* Managing principals, groups and identities keeps the parts.             *)
LEMMA ManagePrincipalsKeeps == AccessParts /\ ManagePrincipals => AccessParts'
<1> SUFFICES ASSUME AccessParts, ManagePrincipals PROVE AccessParts'
  OBVIOUS
<1>1. CASE CreatePrincipal
  <2>1. /\ principals' = Append(principals, "Active")
        /\ UNCHANGED <<groups, sources, identities, accessClock>>
    BY <1>1 DEF CreatePrincipal
  <2>2. PrincipalsTyped' /\ DOMAIN principals \subseteq DOMAIN principals'
        /\ Len(principals') = Len(principals) + 1 /\ Len(principals) \in Nat
    BY <2>1 DEF AccessParts, PrincipalsTyped
  <2>3. GroupsTyped'
    BY <2>1, <2>2, LargerSets DEF AccessParts, GroupsTyped
  <2>4. RolesTyped' /\ PoliciesTyped' /\ ClockTyped' /\ DelegationsEnd'
    BY <2>1 DEF sources, AccessParts, RolesTyped, PoliciesTyped, ClockTyped, DelegationsEnd
  <2>5. GrantsTyped'
    BY <2>1, <2>2 DEF sources, AccessParts, GrantsTyped
  <2>6. DelegationsTyped' /\ IdentitiesTyped'
    BY <2>1, <2>2 DEF sources, AccessParts, DelegationsTyped, IdentitiesTyped
  <2> QED BY <2>2, <2>3, <2>4, <2>5, <2>6 DEF AccessParts
<1>2. ASSUME NEW p \in DOMAIN principals, DisablePrincipal(p)
      PROVE  AccessParts'
  <2>1. /\ principals' = [principals EXCEPT ![p] = "Disabled"]
        /\ UNCHANGED <<groups, sources, identities, accessClock>>
    BY <1>2 DEF DisablePrincipal
  <2>2. PrincipalsTyped' /\ DOMAIN principals = DOMAIN principals'
        /\ Len(principals') = Len(principals)
    BY <2>1 DEF AccessParts, PrincipalsTyped
  <2>3. GroupsTyped'
    BY <2>1, <2>2 DEF AccessParts, GroupsTyped
  <2>4. RolesTyped' /\ PoliciesTyped' /\ ClockTyped' /\ DelegationsEnd'
    BY <2>1 DEF sources, AccessParts, RolesTyped, PoliciesTyped, ClockTyped, DelegationsEnd
  <2>5. GrantsTyped' /\ DelegationsTyped' /\ IdentitiesTyped'
    BY <2>1, <2>2 DEF sources, AccessParts, GrantsTyped, DelegationsTyped, IdentitiesTyped
  <2> QED BY <2>2, <2>3, <2>4, <2>5 DEF AccessParts
<1>3. ASSUME UNCHANGED <<principals, sources, identities, accessClock>>, GroupsTyped'
      PROVE  AccessParts'
  BY <1>3 DEF sources, AccessParts, PrincipalsTyped, RolesTyped, GrantsTyped,
              DelegationsTyped, PoliciesTyped, IdentitiesTyped, ClockTyped, DelegationsEnd
<1>4. CASE CreateGroup
  <2>1. GroupsTyped'
    BY <1>4 DEF CreateGroup, AccessParts, GroupsTyped
  <2> QED BY <1>3, <1>4, <2>1 DEF CreateGroup
<1>5. ASSUME NEW p \in DOMAIN principals, NEW g \in DOMAIN groups,
             AddMember(g, p) \/ RemoveMember(g, p)
      PROVE  AccessParts'
  <2>1. groups \in Seq(SUBSET DOMAIN principals)
    BY DEF AccessParts, GroupsTyped
  <2>2. PICK members \in SUBSET DOMAIN principals :
          groups' = [groups EXCEPT ![g] = members]
    <3>1. groups[g] \cup {p} \in SUBSET DOMAIN principals
          /\ groups[g] \ {p} \in SUBSET DOMAIN principals
      BY <2>1
    <3> QED BY <1>5, <3>1 DEF AddMember, RemoveMember
  <2>3. groups' \in Seq(SUBSET DOMAIN principals)
    BY <2>1, <2>2
  <2>4. UNCHANGED <<principals, sources, identities, accessClock>>
    BY <1>5 DEF AddMember, RemoveMember
  <2> QED BY <1>3, <2>3, <2>4 DEF GroupsTyped
<1>6. ASSUME UNCHANGED <<principals, groups, sources, accessClock>>, IdentitiesTyped'
      PROVE  AccessParts'
  BY <1>6 DEF sources, AccessParts, PrincipalsTyped, GroupsTyped, RolesTyped, GrantsTyped,
              DelegationsTyped, PoliciesTyped, ClockTyped, DelegationsEnd
<1>7. ASSUME NEW p \in DOMAIN principals, NEW subject \in Subjects, LinkIdentity(subject, p)
      PROVE  AccessParts'
  <2> DEFINE new == [subject |-> subject, principal |-> p]
  <2>1. p \in Nat
    BY DEF AccessParts, PrincipalsTyped
  <2>2. new \in ExternalIdentity /\ new.subject = subject /\ new.principal = p
    BY <2>1 DEF ExternalIdentity
  <2>3. /\ \A i \in identities : i.subject # subject
        /\ identities' = identities \cup {new}
        /\ UNCHANGED <<principals, groups, sources, accessClock>>
    BY <1>7 DEF LinkIdentity, Linked
  <2> HIDE DEF new
  <2>4. IdentitiesTyped'
    BY <2>2, <2>3 DEF AccessParts, IdentitiesTyped
  <2> QED BY <1>6, <2>3, <2>4
<1>8. ASSUME NEW i \in identities, UnlinkIdentity(i)
      PROVE  AccessParts'
  <2>1. IdentitiesTyped'
    BY <1>8 DEF UnlinkIdentity, AccessParts, IdentitiesTyped
  <2> QED BY <1>6, <1>8, <2>1 DEF UnlinkIdentity
<1> QED BY <1>1, <1>2, <1>4, <1>5, <1>7, <1>8 DEF ManagePrincipals

(* Steps that change one kind of what rights come from.                    *)
LEMMA OneSourceKeeps ==
    ASSUME AccessParts, UNCHANGED <<principals, groups, identities, accessClock>>,
           roles' \in Seq(SUBSET Permissions), DOMAIN roles \subseteq DOMAIN roles',
           GrantsTyped' \/ UNCHANGED grants,
           (DelegationsTyped' /\ DelegationsEnd') \/ UNCHANGED delegations,
           PoliciesTyped' \/ UNCHANGED policies
    PROVE  AccessParts'
<1>1. PrincipalsTyped' /\ GroupsTyped' /\ RolesTyped' /\ IdentitiesTyped' /\ ClockTyped'
  BY DEF AccessParts, PrincipalsTyped, GroupsTyped, RolesTyped, IdentitiesTyped, ClockTyped
<1>2. GrantsTyped'
  BY DEF AccessParts, GrantsTyped
<1>3. DelegationsTyped' /\ DelegationsEnd'
  BY DEF AccessParts, DelegationsTyped, DelegationsEnd
<1>4. PoliciesTyped'
  BY DEF AccessParts, PoliciesTyped
<1> QED BY <1>1, <1>2, <1>3, <1>4 DEF AccessParts

(* What gives rights keeps the parts.                                      *)
LEMMA GiveKeeps == AccessParts /\ Give => AccessParts'
<1> SUFFICES ASSUME AccessParts, Give PROVE AccessParts'
  OBVIOUS
<1>1. roles \in Seq(SUBSET Permissions)
  BY DEF AccessParts, RolesTyped
<1>2. ASSUME NEW permissions \in SUBSET Permissions, RegisterRole(permissions)
      PROVE  AccessParts'
  <2>1. roles' \in Seq(SUBSET Permissions) /\ DOMAIN roles \subseteq DOMAIN roles'
    BY <1>1, <1>2 DEF RegisterRole
  <2> QED BY <1>2, <2>1, OneSourceKeeps DEF RegisterRole
<1>3. ASSUME NEW permissions \in SUBSET Permissions, NEW role \in DOMAIN roles,
             UpdateRolePermissions(role, permissions)
      PROVE  AccessParts'
  <2>1. roles' = [roles EXCEPT ![role] = permissions]
    BY <1>3 DEF UpdateRolePermissions
  <2>2. roles' \in Seq(SUBSET Permissions)
    BY <1>1, <2>1
  <2>3. DOMAIN roles' = DOMAIN roles
    BY <2>1
  <2> QED BY <1>3, <2>2, <2>3, OneSourceKeeps DEF UpdateRolePermissions
<1>4. ASSUME NEW p \in DOMAIN principals, NEW grant \in GrantInputs, Grant(p, grant)
      PROVE  AccessParts'
  <2>1. /\ grant.role \in DOMAIN roles
        /\ grant.principal # 0 => grant.principal \in DOMAIN principals
        /\ grants' = Append(grants, grant)
        /\ UNCHANGED <<principals, groups, roles, delegations, policies, identities,
                       accessClock>>
    BY <1>4 DEF Grant
  <2>2. grant \in RoleGrant /\ Len(principals) \in Nat /\ DOMAIN principals = 1..Len(principals)
    BY AccessControlAssumption DEF AccessParts, PrincipalsTyped
  <2>3. grant.principal \in 0..Len(principals)
    BY <2>1, <2>2
  <2>4. GrantsTyped'
    BY <2>1, <2>2, <2>3 DEF AccessParts, GrantsTyped
  <2> QED BY <1>1, <2>1, <2>4, OneSourceKeeps
<1>5. ASSUME NEW delegation \in DelegationInputs, Delegate(delegation)
      PROVE  AccessParts'
  <2>1. /\ {delegation.from_principal, delegation.to_principal} \subseteq DOMAIN principals
        /\ delegation.until > delegation.from
        /\ delegations' = Append(delegations, delegation)
        /\ UNCHANGED <<principals, groups, roles, grants, policies, identities, accessClock>>
    BY <1>5 DEF Delegate
  <2>2. delegation \in Delegation
    BY AccessControlAssumption
  <2>3. DelegationsTyped' /\ DelegationsEnd'
    BY <2>1, <2>2 DEF AccessParts, DelegationsTyped, DelegationsEnd
  <2> QED BY <1>1, <2>1, <2>3, OneSourceKeeps
<1>6. ASSUME NEW policy \in PolicyInputs, AddPolicy(policy)
      PROVE  AccessParts'
  <2>1. PoliciesTyped'
    BY <1>6, AccessControlAssumption DEF AddPolicy, AccessParts, PoliciesTyped
  <2> QED BY <1>1, <1>6, <2>1, OneSourceKeeps DEF AddPolicy
<1> QED BY <1>2, <1>3, <1>4, <1>5, <1>6 DEF Give

(* A grant, a delegation or a policy with one field replaced.              *)
LEMMA Revoked ==
    /\ \A g \in RoleGrant, t \in Nat :
         LET new == [g EXCEPT !.revoked = t]
         IN  new \in RoleGrant /\ new.role = g.role /\ new.principal = g.principal
               /\ new.revoked = t
    /\ \A d \in Delegation, t \in Nat :
         LET new == [d EXCEPT !.revoked = t]
         IN  /\ new \in Delegation /\ new.from_principal = d.from_principal
             /\ new.to_principal = d.to_principal /\ new.from = d.from /\ new.until = d.until
             /\ new.revoked = t
    /\ \A r \in PolicyRule : [r EXCEPT !.enabled = FALSE] \in PolicyRule
  BY DEF RoleGrant, Delegation, PolicyRule

(* What takes rights away keeps the parts.                                 *)
LEMMA TakeKeeps == AccessParts /\ Take => AccessParts'
<1> SUFFICES ASSUME AccessParts, Take PROVE AccessParts'
  OBVIOUS
<1>1. roles \in Seq(SUBSET Permissions) /\ accessClock \in Nat
  BY DEF AccessParts, RolesTyped, ClockTyped
<1>2. ASSUME NEW g \in DOMAIN grants, RevokeGrant(g) PROVE AccessParts'
  <2> DEFINE new == [grants[g] EXCEPT !.revoked = accessClock]
  <2>1. /\ grants' = [grants EXCEPT ![g] = new]
        /\ UNCHANGED <<principals, groups, roles, delegations, policies, identities,
                       accessClock>>
    BY <1>2 DEF RevokeGrant
  <2>2. grants \in Seq(RoleGrant) /\ grants[g] \in RoleGrant
    BY DEF AccessParts, GrantsTyped
  <2>3. new \in RoleGrant /\ new.role = grants[g].role /\ new.principal = grants[g].principal
    BY <1>1, <2>2, Revoked
  <2> HIDE DEF new
  <2>4. grants' \in Seq(RoleGrant) /\ DOMAIN grants' = DOMAIN grants
        /\ \A h \in DOMAIN grants : grants'[h] = IF h = g THEN new ELSE grants[h]
    BY <2>1, <2>2, <2>3
  <2>5. GrantsTyped'
    BY <2>1, <2>3, <2>4 DEF AccessParts, GrantsTyped
  <2> QED BY <1>1, <2>1, <2>5, OneSourceKeeps
<1>3. ASSUME NEW d \in DOMAIN delegations, RevokeDelegation(d) PROVE AccessParts'
  <2> DEFINE new == [delegations[d] EXCEPT !.revoked = accessClock]
  <2>1. /\ delegations' = [delegations EXCEPT ![d] = new]
        /\ UNCHANGED <<principals, groups, roles, grants, policies, identities, accessClock>>
    BY <1>3 DEF RevokeDelegation
  <2>2. delegations \in Seq(Delegation) /\ delegations[d] \in Delegation
    BY DEF AccessParts, DelegationsTyped
  <2>3. /\ new \in Delegation /\ new.from_principal = delegations[d].from_principal
        /\ new.to_principal = delegations[d].to_principal
        /\ new.from = delegations[d].from /\ new.until = delegations[d].until
    BY <1>1, <2>2, Revoked
  <2> HIDE DEF new
  <2>4. delegations' \in Seq(Delegation) /\ DOMAIN delegations' = DOMAIN delegations
        /\ \A e \in DOMAIN delegations :
             delegations'[e] = IF e = d THEN new ELSE delegations[e]
    BY <2>1, <2>2, <2>3
  <2>5. DelegationsTyped' /\ DelegationsEnd'
    BY <2>1, <2>3, <2>4 DEF AccessParts, DelegationsTyped, DelegationsEnd
  <2> QED BY <1>1, <2>1, <2>5, OneSourceKeeps
<1>4. ASSUME NEW r \in DOMAIN policies, DisablePolicy(r) PROVE AccessParts'
  <2> DEFINE new == [policies[r] EXCEPT !.enabled = FALSE]
  <2>1. policies' = [policies EXCEPT ![r] = new]
    BY <1>4 DEF DisablePolicy
  <2>2. policies \in Seq(PolicyRule) /\ policies[r] \in PolicyRule
    BY DEF AccessParts, PoliciesTyped
  <2>3. new \in PolicyRule
    BY <2>2, Revoked
  <2> HIDE DEF new
  <2>4. PoliciesTyped'
    BY <2>1, <2>2, <2>3 DEF PoliciesTyped
  <2> QED BY <1>1, <1>4, <2>4, OneSourceKeeps DEF DisablePolicy
<1> QED BY <1>2, <1>3, <1>4 DEF Take

LEMMA AccessInvariance == AccessSpec => []AccessParts
<1>1. AccessInit => AccessParts
  BY AccessControlAssumption
     DEF AccessInit, AccessParts, PrincipalsTyped, GroupsTyped, RolesTyped, GrantsTyped,
         DelegationsTyped, PoliciesTyped, IdentitiesTyped, ClockTyped, DelegationsEnd
<1>2. AccessParts /\ [AccessNext]_accessVars => AccessParts'
  <2>1. AccessParts /\ UNCHANGED accessVars => AccessParts'
    BY DEF accessVars, sources, AccessParts, PrincipalsTyped, GroupsTyped, RolesTyped,
           GrantsTyped, DelegationsTyped, PoliciesTyped, IdentitiesTyped, ClockTyped,
           DelegationsEnd
  <2>2. AccessParts /\ AccessTick => AccessParts'
    BY DEF AccessTick, sources, AccessParts, PrincipalsTyped, GroupsTyped, RolesTyped,
           GrantsTyped, DelegationsTyped, PoliciesTyped, IdentitiesTyped, ClockTyped,
           DelegationsEnd
  <2> QED BY <2>1, <2>2, ManagePrincipalsKeeps, GiveKeeps, TakeKeeps DEF AccessNext
<1> QED BY <1>1, <1>2, PTL DEF AccessSpec

(* What is listed comes from a grant or a delegation.                      *)
LEMMA ListingIsUnion ==
    ASSUME NEW p, NEW resource, NEW permission
    PROVE  permission \in EffectivePermissions(p, resource)
             <=> \/ \E g \in GrantsListed(p, resource) :
                      permission \in roles[grants[g].role]
                 \/ \E d \in DelegationsListed(p) :
                      permission \in delegations[d].permissions
  BY DEF EffectivePermissions

(* effective_permissions, which is a computation of its own, agrees with   *)
(* decide: it has all that grants and delegations give for a resource, and *)
(* for an active principal whom no policy meets no more, except what is    *)
(* delegated for another resource.                                         *)
THEOREM ListingAgreesHolds == AccessSpec => []ListingAgrees
<1>1. AccessParts => ListingAgrees
  <2> SUFFICES ASSUME AccessParts, NEW p \in DOMAIN principals,
                      NEW permission \in Permissions,
                      NEW resource \in Resources \ ForeignResources
               PROVE  LET listed == permission \in EffectivePermissions(p, resource) IN
                      /\ \/ Direct(p, permission, resource) # {}
                         \/ Delegated(p, permission, resource) # {}
                         => listed
                      /\ /\ listed /\ principals[p] = "Active"
                         /\ MatchingPolicies(p, permission, resource) = {}
                         => \/ Allowed(p, permission, resource, 0, 0)
                            \/ DelegatedElsewhere(p, permission)
    BY DEF ListingAgrees
  <2> DEFINE granted == GrantsListed(p, resource)
             delegated == DelegationsListed(p)
             listed == permission \in EffectivePermissions(p, resource)
  <2>1. listed <=> \/ \E g \in granted : permission \in roles[grants[g].role]
                   \/ \E d \in delegated : permission \in delegations[d].permissions
    BY ListingIsUnion
  <2>2. /\ accessClock \in Nat
        /\ \A g \in DOMAIN grants : grants[g] \in RoleGrant
        /\ \A d \in DOMAIN delegations : delegations[d] \in Delegation
        /\ \A d \in DOMAIN delegations : delegations[d].until > delegations[d].from
    BY DEF AccessParts, ClockTyped, GrantsTyped, DelegationsTyped, DelegationsEnd
  <2>3. Direct(p, permission, resource) = {g \in granted : permission \in roles[grants[g].role]}
    BY <2>2 DEF Direct, Started, Ended, RoleGrant, GrantsListed
  <2>4. \A d \in DOMAIN delegations :
          d \in delegated <=> /\ delegations[d].to_principal = p
                              /\ InForce(delegations[d].revoked)
                              /\ Started(delegations[d].from) /\ ~Ended(delegations[d].until)
    <3> SUFFICES ASSUME NEW d \in DOMAIN delegations
                 PROVE  delegations[d].until > accessClock
                          <=> ~Ended(delegations[d].until)
      BY DEF Started, DelegationsListed
    <3>1. /\ delegations[d].until \in Nat /\ delegations[d].from \in Nat
          /\ delegations[d].until > delegations[d].from
      <4>1. delegations[d] \in Delegation /\ delegations[d].until > delegations[d].from
        BY <2>2
      <4> QED BY <4>1 DEF Delegation
    <3>2. accessClock \in Nat
      BY <2>2
    <3> QED BY <3>1, <3>2 DEF Ended
  <2>5. Delegated(p, permission, resource) # {} =>
          \E d \in delegated : permission \in delegations[d].permissions
    BY <2>4 DEF Delegated
  <2>6. \/ Direct(p, permission, resource) # {}
        \/ Delegated(p, permission, resource) # {}
        => listed
    BY <2>1, <2>3, <2>5
  <2>7. ASSUME listed, principals[p] = "Active",
               MatchingPolicies(p, permission, resource) = {}
        PROVE  \/ Allowed(p, permission, resource, 0, 0)
               \/ DelegatedElsewhere(p, permission)
    <3>1. Policies("Deny", p, permission, resource) = {}
      BY <2>7 DEF Policies
    <3>2. CASE Direct(p, permission, resource) # {}
      BY <2>7, <3>1, <3>2 DEF Allowed
    <3>3. CASE Direct(p, permission, resource) = {}
      <4>1. PICK d \in delegated : permission \in delegations[d].permissions
        <5>1. ~\E g \in granted : permission \in roles[grants[g].role]
          BY <2>3, <3>3, Zenon
        <5>2. listed
          BY <2>7
        <5> QED BY <2>1, <5>1, <5>2, Zenon
      <4>2. delegations[d].scope \in Resources \cup {Anywhere}
        <5>1. d \in DOMAIN delegations
          BY DEF DelegationsListed
        <5>2. delegations[d] \in Delegation
          BY <2>2, <5>1
        <5> QED BY <5>2 DEF Delegation, Scope
      <4>3. PICK other \in Resources : ScopeMatches(delegations[d].scope, other)
        BY <4>2 DEF ScopeMatches
      <4>4. d \in Delegated(p, permission, other)
        BY <2>4, <4>1, <4>3 DEF Delegated, DelegationsListed
      <4> QED BY <4>3, <4>4 DEF DelegatedElsewhere
    <3> QED BY <3>2, <3>3
  <2> QED BY <2>6, <2>7
<1> QED BY <1>1, AccessInvariance, PTL

(* Fewer grants and delegations and no new allowances, fewer active        *)
(* principals and at least the denials: fewer rights.                      *)
LEMMA FewerRights ==
    ASSUME DOMAIN principals' = DOMAIN principals,
           \A p \in DOMAIN principals : principals'[p] = "Active" => principals[p] = "Active",
           \A p, permission, resource :
             /\ Direct(p, permission, resource)' \subseteq Direct(p, permission, resource)
             /\ Delegated(p, permission, resource)' \subseteq Delegated(p, permission, resource)
             /\ Policies("Allow", p, permission, resource)'
                  \subseteq Policies("Allow", p, permission, resource)
             /\ Policies("Deny", p, permission, resource)
                  \subseteq Policies("Deny", p, permission, resource)'
    PROVE  Rights' \subseteq Rights
<1> SUFFICES ASSUME NEW right \in (DOMAIN principals) \X Permissions \X Resources \X Assurances,
                    Allowed(right[1], right[2], right[3], right[4], 0)'
             PROVE  Allowed(right[1], right[2], right[3], right[4], 0)
  BY DEF Rights
<1>1. right[1] \in DOMAIN principals
  OBVIOUS
<1>2. /\ principals'[right[1]] = "Active"
      /\ right[3] \notin ForeignResources /\ right[4] >= 0
      /\ Policies("Deny", right[1], right[2], right[3])' = {}
      /\ \/ Direct(right[1], right[2], right[3])' # {}
         \/ Delegated(right[1], right[2], right[3])' # {}
         \/ Policies("Allow", right[1], right[2], right[3])' # {}
  BY DEF Allowed
<1>3. /\ Direct(right[1], right[2], right[3])' \subseteq Direct(right[1], right[2], right[3])
      /\ Delegated(right[1], right[2], right[3])'
           \subseteq Delegated(right[1], right[2], right[3])
      /\ Policies("Allow", right[1], right[2], right[3])'
           \subseteq Policies("Allow", right[1], right[2], right[3])
      /\ Policies("Deny", right[1], right[2], right[3])
           \subseteq Policies("Deny", right[1], right[2], right[3])'
  OBVIOUS
<1> QED BY <1>1, <1>2, <1>3 DEF Allowed

(* What disabling, revoking, denying and unlinking leave as it is.         *)
LEMMA DirectIsLess ==
    ASSUME AccessParts, UNCHANGED <<groups, roles, accessClock>>,
           \/ UNCHANGED grants
           \/ \E g \in DOMAIN grants : grants' = [grants EXCEPT ![g].revoked = accessClock],
           NEW p, NEW permission, NEW resource
    PROVE  Direct(p, permission, resource)' \subseteq Direct(p, permission, resource)
<1>1. CASE UNCHANGED grants
  BY <1>1 DEF Direct, InForce, GroupIdsFor, Started, Ended
<1>2. ASSUME NEW g \in DOMAIN grants, grants' = [grants EXCEPT ![g].revoked = accessClock]
      PROVE  Direct(p, permission, resource)' \subseteq Direct(p, permission, resource)
  <2> DEFINE new == [grants[g] EXCEPT !.revoked = accessClock]
  <2>1. grants' = [grants EXCEPT ![g] = new]
    BY <1>2
  <2>2. grants[g] \in RoleGrant /\ accessClock \in Nat \ {0}
    BY DEF AccessParts, GrantsTyped, ClockTyped
  <2>3. new.revoked # 0
    BY <2>2 DEF RoleGrant
  <2> HIDE DEF new
  <2>4. /\ DOMAIN grants' = DOMAIN grants /\ ~InForce(grants'[g].revoked)
        /\ \A h \in DOMAIN grants : h # g => grants'[h] = grants[h]
    BY <2>1, <2>3 DEF InForce
  <2> QED BY <2>4 DEF Direct, GroupIdsFor, Started, Ended
<1> QED BY <1>1, <1>2

LEMMA DelegatedIsLess ==
    ASSUME AccessParts, UNCHANGED accessClock,
           \/ UNCHANGED delegations
           \/ \E d \in DOMAIN delegations :
                delegations' = [delegations EXCEPT ![d].revoked = accessClock],
           NEW p, NEW permission, NEW resource
    PROVE  Delegated(p, permission, resource)' \subseteq Delegated(p, permission, resource)
<1>1. CASE UNCHANGED delegations
  BY <1>1 DEF Delegated, InForce, Started, Ended
<1>2. ASSUME NEW d \in DOMAIN delegations,
             delegations' = [delegations EXCEPT ![d].revoked = accessClock]
      PROVE  Delegated(p, permission, resource)' \subseteq Delegated(p, permission, resource)
  <2> DEFINE new == [delegations[d] EXCEPT !.revoked = accessClock]
  <2>1. delegations' = [delegations EXCEPT ![d] = new]
    BY <1>2
  <2>2. delegations[d] \in Delegation /\ accessClock \in Nat \ {0}
    BY DEF AccessParts, DelegationsTyped, ClockTyped
  <2>3. new.revoked # 0
    BY <2>2 DEF Delegation
  <2> HIDE DEF new
  <2>4. /\ DOMAIN delegations' = DOMAIN delegations /\ ~InForce(delegations'[d].revoked)
        /\ \A e \in DOMAIN delegations : e # d => delegations'[e] = delegations[e]
    BY <2>1, <2>3 DEF InForce
  <2> QED BY <2>4 DEF Delegated, Started, Ended
<1> QED BY <1>1, <1>2

(* Policies are left alone, an allowance is disabled or a denial is added. *)
LEMMA PoliciesAreStricter ==
    ASSUME AccessParts, UNCHANGED groups,
           \/ UNCHANGED policies
           \/ \E r \in DOMAIN policies :
                policies[r].effect = "Allow" /\ policies' = [policies EXCEPT ![r].enabled = FALSE]
           \/ \E policy \in PolicyInputs :
                policy.effect = "Deny" /\ policies' = Append(policies, policy),
           NEW p, NEW permission, NEW resource
    PROVE  /\ Policies("Allow", p, permission, resource)'
                \subseteq Policies("Allow", p, permission, resource)
           /\ Policies("Deny", p, permission, resource)
                \subseteq Policies("Deny", p, permission, resource)'
<1>1. policies \in Seq(PolicyRule) /\ \A r \in DOMAIN policies : policies[r] \in PolicyRule
  BY DEF AccessParts, PoliciesTyped
<1>2. CASE UNCHANGED policies
  BY <1>2 DEF Policies, MatchingPolicies, GroupIdsFor
<1>3. ASSUME NEW r \in DOMAIN policies, policies[r].effect = "Allow",
             policies' = [policies EXCEPT ![r].enabled = FALSE]
      PROVE  /\ Policies("Allow", p, permission, resource)'
                  \subseteq Policies("Allow", p, permission, resource)
             /\ Policies("Deny", p, permission, resource)
                  \subseteq Policies("Deny", p, permission, resource)'
  <2> DEFINE new == [policies[r] EXCEPT !.enabled = FALSE]
  <2>1. policies' = [policies EXCEPT ![r] = new]
    BY <1>3
  <2>2. new.enabled = FALSE /\ new.effect = "Allow"
    BY <1>1, <1>3 DEF PolicyRule
  <2> HIDE DEF new
  <2>3. /\ DOMAIN policies' = DOMAIN policies
        /\ policies'[r].enabled = FALSE /\ policies'[r].effect = "Allow"
        /\ \A q \in DOMAIN policies : q # r => policies'[q] = policies[q]
    BY <2>1, <2>2
  <2>4. /\ r \notin Policies("Allow", p, permission, resource)'
        /\ r \notin Policies("Deny", p, permission, resource)
    BY <1>3, <2>3 DEF Policies, MatchingPolicies
  <2> QED BY <2>3, <2>4 DEF Policies, MatchingPolicies, GroupIdsFor
<1>4. ASSUME NEW policy \in PolicyInputs, policy.effect = "Deny",
             policies' = Append(policies, policy)
      PROVE  /\ Policies("Allow", p, permission, resource)'
                  \subseteq Policies("Allow", p, permission, resource)
             /\ Policies("Deny", p, permission, resource)
                  \subseteq Policies("Deny", p, permission, resource)'
  <2> DEFINE new == Len(policies) + 1
  <2>1. /\ DOMAIN policies' = DOMAIN policies \cup {new} /\ policies'[new].effect = "Deny"
        /\ \A q \in DOMAIN policies : policies'[q] = policies[q]
    BY <1>1, <1>4
  <2> HIDE DEF new
  <2> QED BY <2>1 DEF Policies, MatchingPolicies, GroupIdsFor
<1> QED BY <1>2, <1>3, <1>4

(* Disabling a principal, revoking a grant or a delegation, also again,    *)
(* adding a denial, disabling an allowance or unlinking an identity makes  *)
(* decide allow nobody anything that it refused before.                    *)
THEOREM TakingGivesNothingHolds == AccessSpec => TakingGivesNothing
<1>1. AccessParts /\ [AccessNext]_accessVars
        => [TakesAway => Rights' \subseteq Rights]_accessVars
  <2> SUFFICES ASSUME AccessParts, TakesAway PROVE Rights' \subseteq Rights
    OBVIOUS
  <2> DEFINE Less ==
               /\ DOMAIN principals' = DOMAIN principals
               /\ \A p \in DOMAIN principals :
                    principals'[p] = "Active" => principals[p] = "Active"
               /\ UNCHANGED <<groups, roles, accessClock>>
               /\ \/ UNCHANGED grants
                  \/ \E g \in DOMAIN grants :
                       grants' = [grants EXCEPT ![g].revoked = accessClock]
               /\ \/ UNCHANGED delegations
                  \/ \E d \in DOMAIN delegations :
                       delegations' = [delegations EXCEPT ![d].revoked = accessClock]
               /\ \/ UNCHANGED policies
                  \/ \E r \in DOMAIN policies :
                       /\ policies[r].effect = "Allow"
                       /\ policies' = [policies EXCEPT ![r].enabled = FALSE]
                  \/ \E policy \in PolicyInputs :
                       policy.effect = "Deny" /\ policies' = Append(policies, policy)
  <2>1. ASSUME NEW p \in DOMAIN principals, DisablePrincipal(p) PROVE Less
    <3>1. principals' = [principals EXCEPT ![p] = "Disabled"]
      BY <2>1 DEF DisablePrincipal
    <3>2. /\ DOMAIN principals' = DOMAIN principals
          /\ \A q \in DOMAIN principals :
               principals'[q] = "Active" => principals[q] = "Active"
      BY <3>1
    <3> QED BY <2>1, <3>2 DEF DisablePrincipal, sources
  <2>2. ASSUME NEW g \in DOMAIN grants, RevokeGrant(g) PROVE Less
    BY <2>2 DEF RevokeGrant
  <2>3. ASSUME NEW d \in DOMAIN delegations, RevokeDelegation(d) PROVE Less
    BY <2>3 DEF RevokeDelegation
  <2>4. ASSUME NEW policy \in PolicyInputs, policy.effect = "Deny", AddPolicy(policy)
        PROVE  Less
    BY <2>4 DEF AddPolicy
  <2>5. ASSUME NEW r \in DOMAIN policies, policies[r].effect = "Allow", DisablePolicy(r)
        PROVE  Less
    BY <2>5 DEF DisablePolicy
  <2>6. ASSUME NEW i \in identities, UnlinkIdentity(i) PROVE Less
    BY <2>6 DEF UnlinkIdentity, sources
  <2>7. Less
    BY <2>1, <2>2, <2>3, <2>4, <2>5, <2>6 DEF TakesAway
  <2>8. \A p, permission, resource :
          /\ Direct(p, permission, resource)' \subseteq Direct(p, permission, resource)
          /\ Delegated(p, permission, resource)' \subseteq Delegated(p, permission, resource)
    BY <2>7, DirectIsLess, DelegatedIsLess
  <2>9. \A p, permission, resource :
          /\ Policies("Allow", p, permission, resource)'
               \subseteq Policies("Allow", p, permission, resource)
          /\ Policies("Deny", p, permission, resource)
               \subseteq Policies("Deny", p, permission, resource)'
    BY <2>7, PoliciesAreStricter
  <2> QED BY <2>7, <2>8, <2>9, FewerRights
<1> QED BY <1>1, AccessInvariance, PTL DEF AccessSpec, TakingGivesNothing

-----------------------------------------------------------------------------
(* The content store.                                                      *)

(* The objects and what is kept of each, as they are committed.            *)
Ask == [websites : SUBSET Websites, at : Nat]

RowsTyped ==
    /\ contents \in Seq(Content \union {NoRow})
    /\ contentVersions \in Seq(Seq(Datas)) /\ Len(contentVersions) = Len(contents)
    /\ assigned \in Seq(SUBSET Assignment) /\ Len(assigned) = Len(contents)
    /\ asked \in Seq(Ask) /\ Len(asked) = Len(contents)
    /\ time \in Nat

(* The rows that refer to object o: one for each website, of its           *)
(* organization, and none when it is gone; they were committed by now.     *)
AssignedOK(o) ==
    /\ \A r, s \in assigned[o] : r.website = s.website => r = s
    /\ \A r \in assigned[o] : WebsiteOrg[r.website] = contents[o].org /\ r.done <= time
    /\ ~HasRow(o) => contentVersions[o] = <<>> /\ assigned[o] = {}

(* A transaction works on an object that is there or was.  While it has    *)
(* the row, or has inserted a reference to it, it is there.  The index     *)
(* lets it insert a website only when it has deleted the row that had it.  *)
(* And when it is through with its DELETE, it has deleted all that was     *)
(* committed before it began.                                              *)
TransactionOK(t) ==
    /\ t.object \in DOMAIN contents
    /\ HasRow(t.object) => contents[t.object].org = t.org
    /\ t.at <= time
    /\ t.stage \in {"update", "commit"} => t.data \in Datas
    /\ t.stage \in {"commit", "cascade"} => HasRow(t.object)
    /\ t.inserted # {} => t.stage = "insert" /\ HasRow(t.object)
    /\ \A w \in t.inserted : WebsiteOrg[w] = t.org
    /\ \A row \in assigned[t.object] :
         /\ row.website \in t.inserted => row \in t.cleared
         /\ row.done <= t.at =>
              /\ t.stage = "clear" => row \in t.left \union t.cleared
              /\ t.stage = "insert" => row \in t.cleared

(* What the locks keep apart.                                              *)
Compatible(t, u) ==
    t.object = u.object =>
      /\ ~(t.stage \in {"commit", "cascade"} /\ u.stage \in {"commit", "cascade"})
      /\ ~(t.stage = "cascade" /\ u.inserted # {})
      /\ t.inserted \intersect u.inserted = {}

Busy == {c \in Connections : transactions[c] # Idle}

ContentParts ==
    /\ RowsTyped
    /\ transactions \in [Connections -> Transaction \union {Idle}]
    /\ \A o \in DOMAIN contents : AssignedOK(o)
    /\ \A c \in Busy : TransactionOK(transactions[c])
    /\ \A c, d \in Busy : c # d => Compatible(transactions[c], transactions[d])
    /\ ChannelsAsAsked
    /\ HistoryEndsInPresent

(* A step of connection c, in five parts.                                  *)
LEMMA ContentFrame ==
    ASSUME ContentParts, NEW c \in Connections, NEW new \in Transaction \union {Idle},
           transactions' = [transactions EXCEPT ![c] = new],
           RowsTyped', \A o \in DOMAIN contents' : AssignedOK(o)',
           ChannelsAsAsked', HistoryEndsInPresent',
           \A t : (\E d \in Busy \ {c} : t = transactions[d]) => TransactionOK(t)',
           new # Idle => TransactionOK(new)',
           new # Idle => \A d \in Busy \ {c} :
             Compatible(new, transactions[d]) /\ Compatible(transactions[d], new)
    PROVE  ContentParts'
<1>1. transactions \in [Connections -> Transaction \union {Idle}]
  BY DEF ContentParts
<1>2. /\ transactions' \in [Connections -> Transaction \union {Idle}]
      /\ transactions'[c] = new
      /\ \A d \in Connections : d # c => transactions'[d] = transactions[d]
  BY <1>1
<1>3. /\ Busy' \subseteq Busy \union {c} /\ (c \in Busy' => new # Idle)
      /\ \A d \in Busy' : d # c => d \in Busy \ {c} /\ transactions'[d] = transactions[d]
  BY <1>2 DEF Busy
<1>4. ASSUME NEW d \in Busy' PROVE TransactionOK(transactions[d])'
  <2>1. CASE d = c
    BY <1>2, <1>3, <2>1 DEF TransactionOK, HasRow
  <2>2. CASE d # c
    <3>1. PICK t : t = transactions[d]
      OBVIOUS
    <3>2. TransactionOK(t)' /\ transactions'[d] = t
      BY <1>3, <1>4, <2>2, <3>1
    <3> QED BY <3>2 DEF TransactionOK, HasRow
  <2> QED BY <2>1, <2>2
<1>5. ASSUME NEW d \in Busy', NEW e \in Busy', d # e
      PROVE  Compatible(transactions'[d], transactions'[e])
  <2>1. CASE d = c
    <3>1. e \in Busy \ {c} /\ transactions'[e] = transactions[e] /\ new # Idle
      BY <1>3, <1>5, <2>1
    <3> QED BY <1>2, <2>1, <3>1
  <2>2. CASE e = c
    <3>1. d \in Busy \ {c} /\ transactions'[d] = transactions[d] /\ new # Idle
      BY <1>3, <1>5, <2>2
    <3> QED BY <1>2, <2>2, <3>1
  <2>3. CASE d # c /\ e # c
    BY <1>3, <1>5, <2>3 DEF ContentParts
  <2> QED BY <2>1, <2>2, <2>3
<1>6. \A d, e \in Busy' : d # e => Compatible(transactions[d], transactions[e])'
  BY <1>5 DEF Compatible
<1> QED BY <1>2, <1>4, <1>6 DEF ContentParts

(* Nothing that is committed changes, and no time passes.                  *)
Uncommitted == UNCHANGED <<contents, contentVersions, assigned, asked, time>>

LEMMA UncommittedKeeps ==
    ASSUME ContentParts, Uncommitted
    PROVE  /\ RowsTyped' /\ \A o \in DOMAIN contents' : AssignedOK(o)'
           /\ ChannelsAsAsked' /\ HistoryEndsInPresent'
           /\ \A t : TransactionOK(t)' <=> TransactionOK(t)
<1>1. RowsTyped'
  BY DEF ContentParts, Uncommitted, RowsTyped
<1>2. \A o \in DOMAIN contents' : AssignedOK(o)'
  BY DEF ContentParts, Uncommitted, AssignedOK, HasRow
<1>3. ChannelsAsAsked' /\ HistoryEndsInPresent'
  BY DEF ContentParts, Uncommitted, ChannelsAsAsked, HistoryEndsInPresent, HasRow
<1>4. \A t : TransactionOK(t)' <=> TransactionOK(t)
  BY DEF Uncommitted, TransactionOK, HasRow
<1> QED BY <1>1, <1>2, <1>3, <1>4

(* A step of a transaction that commits nothing.                           *)
LEMMA UncommittedStep ==
    ASSUME ContentParts, Uncommitted,
           NEW c \in Connections, NEW new \in Transaction \union {Idle},
           transactions' = [transactions EXCEPT ![c] = new],
           new # Idle => TransactionOK(new),
           new # Idle => \A d \in Busy \ {c} :
             Compatible(new, transactions[d]) /\ Compatible(transactions[d], new)
    PROVE  ContentParts'
<1>1. /\ RowsTyped' /\ \A o \in DOMAIN contents' : AssignedOK(o)'
      /\ ChannelsAsAsked' /\ HistoryEndsInPresent'
      /\ \A t : TransactionOK(t)' <=> TransactionOK(t)
  BY UncommittedKeeps
<1>2. \A t : (\E d \in Busy \ {c} : t = transactions[d]) => TransactionOK(t)'
  BY <1>1 DEF ContentParts
<1>3. new # Idle => TransactionOK(new)'
  BY <1>1
<1> QED BY <1>1, <1>2, <1>3, ContentFrame

(* Ends, where nothing is committed.                                       *)
LEMMA EndsKeeps ==
    ASSUME ContentParts, Uncommitted, NEW c \in Connections, Ends(c)
    PROVE  ContentParts'
  BY UncommittedStep DEF Ends

(* What is known of a transaction that is under way, and of the others.    *)
LEMMA UnderWay ==
    ASSUME ContentParts, NEW c \in Connections, transactions[c] # Idle
    PROVE  /\ c \in Busy /\ transactions[c] \in Transaction /\ TransactionOK(transactions[c])
           /\ \A d \in Busy \ {c} :
                /\ d \in Connections \ {c}
                /\ transactions[d] \in Transaction /\ transactions[d] # Idle
                /\ TransactionOK(transactions[d])
                /\ Compatible(transactions[c], transactions[d])
                /\ Compatible(transactions[d], transactions[c])
  BY DEF ContentParts, Busy

(* Who has the row, references to the object, or a website in the index.   *)
LEMMA Locks ==
    ASSUME NEW c \in Connections, NEW o, NEW d \in Busy \ {c}, transactions[d].object = o
    PROVE  /\ ~Written(c, o) => transactions[d].stage \notin {"commit", "cascade"}
           /\ ~BeingDeleted(c, o) => transactions[d].stage # "cascade"
           /\ ~Referenced(c, o) => transactions[d].inserted = {}
           /\ \A row : ~RowLocked(c, o, row) => row \notin transactions[d].cleared
           /\ \A w : ~IndexLocked(c, o, w) =>
                /\ w \notin transactions[d].inserted
                /\ \A row \in transactions[d].cleared : row.website # w
<1>1. transactions[d] \in OthersOn(c, o)
  BY DEF OthersOn, Busy
<1> QED BY <1>1 DEF Written, BeingDeleted, Referenced, RowLocked, IndexLocked

(* A transaction that starts holds nothing yet.                            *)
LEMMA StartsKeeps ==
    ASSUME ContentParts, NEW c \in Connections, NEW stage \in {"update", "delete", "owned"},
           NEW o, NEW org \in Organizations, NEW data \in Datas \union {NoRow},
           stage = "update" => data \in Datas,
           NEW list \in Seq(Websites), StartsTransaction(c, stage, o, org, data, list),
           UNCHANGED <<contents, contentVersions, assigned, asked>>, time' \in {time, time + 1}
    PROVE  ContentParts'
<1>1. time \in Nat /\ time' \in Nat /\ time <= time' /\ contents \in Seq(Content \union {NoRow})
  BY DEF ContentParts, RowsTyped
<1>2. PICK now \in Nat : now = time'
  BY <1>1
<1> DEFINE new == [stage |-> stage, object |-> o, org |-> org, at |-> now, data |-> data,
                   left |-> {}, cleared |-> {}, todo |-> list, inserted |-> {}]
<1>3. /\ transactions' = [transactions EXCEPT ![c] = new]
      /\ o \in DOMAIN contents /\ HasRow(o) /\ contents[o].org = org
  BY <1>2 DEF StartsTransaction, OfOrg
<1>4. o \in Nat
  BY <1>1, <1>3
<1>5. /\ new \in Transaction /\ new.stage = stage /\ new.object = o /\ new.org = org
      /\ new.at = now /\ new.data = data /\ new.inserted = {}
  BY <1>4 DEF Transaction, Stages
<1> HIDE DEF new
<1>6. RowsTyped' /\ \A x \in DOMAIN contents' : AssignedOK(x)'
  <2>1. RowsTyped'
    BY <1>1 DEF ContentParts, RowsTyped
  <2>2. ASSUME NEW x \in DOMAIN contents' PROVE AssignedOK(x)'
    <3>1. assigned[x] \subseteq Assignment /\ AssignedOK(x)
      BY DEF ContentParts, RowsTyped
    <3>2. \A r \in assigned[x] : r.done \in Nat
      BY <3>1 DEF Assignment
    <3> QED BY <1>1, <3>1, <3>2 DEF AssignedOK, HasRow
  <2> QED BY <2>1, <2>2
<1>7. ChannelsAsAsked' /\ HistoryEndsInPresent'
  BY DEF ContentParts, ChannelsAsAsked, HistoryEndsInPresent, HasRow
<1>8. \A t : (\E d \in Busy \ {c} : t = transactions[d]) => TransactionOK(t)'
  <2> SUFFICES ASSUME NEW t, NEW d \in Busy \ {c}, t = transactions[d]
               PROVE  TransactionOK(t)'
    OBVIOUS
  <2>1. TransactionOK(t) /\ t \in Transaction
    BY DEF ContentParts, Busy
  <2>2. t.at <= time'
    BY <1>1, <2>1 DEF TransactionOK, Transaction
  <2> QED BY <2>1, <2>2 DEF TransactionOK, HasRow
<1>9. TransactionOK(new)'
  <2>1. contents'[o].org = org /\ o \in DOMAIN contents' /\ now <= time'
    BY <1>2, <1>3
  <2> QED BY <1>5, <2>1 DEF TransactionOK, HasRow
<1>10. \A d \in Busy \ {c} :
         Compatible(new, transactions[d]) /\ Compatible(transactions[d], new)
  BY <1>5 DEF Compatible
<1> QED BY <1>3, <1>5, <1>6, <1>7, <1>8, <1>9, <1>10, ContentFrame

(* What a request begins with, and a change of the status.                 *)
LEMMA RequestKeeps ==
    ASSUME ContentParts, NEW c \in Connections, NEW o \in DOMAIN contents,
           NEW org \in Organizations, ContentRequest(c, o, org)
    PROVE  ContentParts'
<1>1. ASSUME NEW data \in Datas, UpdateContentData(c, o, org, data) PROVE ContentParts'
  <2>1. /\ StartsTransaction(c, "update", o, org, data, <<>>) /\ <<>> \in Seq(Websites)
        /\ UNCHANGED <<contents, contentVersions, assigned, asked>> /\ time' \in {time, time + 1}
    BY <1>1 DEF UpdateContentData
  <2> QED BY <2>1, StartsKeeps
<1>2. ASSUME NEW v \in 1..MaxHistory, RevertContent(c, o, org, v) PROVE ContentParts'
  <2>1. PICK data : data = contentVersions[o][v]
    OBVIOUS
  <2>2. data \in Datas
    <3>1. contentVersions[o] \in Seq(Datas) /\ v \in DOMAIN contentVersions[o]
      BY <1>2 DEF RevertContent, ContentParts, RowsTyped
    <3> QED BY <2>1, <3>1
  <2>3. /\ StartsTransaction(c, "update", o, org, data, <<>>) /\ <<>> \in Seq(Websites)
        /\ UNCHANGED <<contents, contentVersions, assigned, asked>> /\ time' \in {time, time + 1}
    BY <1>2, <2>1 DEF RevertContent
  <2> QED BY <2>2, <2>3, StartsKeeps
<1>3. ASSUME NEW status \in {"draft", "published"}, SetStatus(c, o, org, status)
      PROVE  ContentParts'
  <2> DEFINE new == [contents[o] EXCEPT !.status = status]
  <2>1. /\ contents' = [contents EXCEPT ![o] = new]
        /\ UNCHANGED <<contentVersions, assigned, transactions, asked, time>>
        /\ HasRow(o)
    BY <1>3 DEF SetStatus, OfOrg
  <2>2. contents \in Seq(Content \union {NoRow}) /\ contents[o] \in Content
    BY <2>1 DEF ContentParts, RowsTyped, HasRow
  <2>3. new \in Content /\ new.org = contents[o].org /\ new.data = contents[o].data
    BY <2>2 DEF Content
  <2> HIDE DEF new
  <2>4. /\ contents' \in Seq(Content \union {NoRow}) /\ DOMAIN contents' = DOMAIN contents
        /\ Len(contents') = Len(contents)
    BY <2>1, <2>2, <2>3
  <2>5. \A x \in DOMAIN contents :
          /\ HasRow(x)' <=> HasRow(x)
          /\ contents'[x].org = contents[x].org /\ contents'[x].data = contents[x].data
    BY <2>1, <2>2, <2>3, ContentStoreAssumption DEF HasRow
  <2>6. RowsTyped'
    BY <2>1, <2>4 DEF ContentParts, RowsTyped
  <2>7. ASSUME NEW x \in DOMAIN contents' PROVE AssignedOK(x)'
    BY <2>1, <2>4, <2>5 DEF ContentParts, AssignedOK
  <2>8. ChannelsAsAsked' /\ HistoryEndsInPresent'
    BY <2>1, <2>4, <2>5 DEF ContentParts, ChannelsAsAsked, HistoryEndsInPresent
  <2>9. \A t : TransactionOK(t) => TransactionOK(t)'
    BY <2>1, <2>4, <2>5 DEF TransactionOK
  <2>10. Busy' = Busy /\ \A d \in Busy : TransactionOK(transactions[d])'
    <3>1. Busy' = Busy
      BY <2>1 DEF Busy
    <3>2. ASSUME NEW d \in Busy PROVE TransactionOK(transactions[d])'
      <4>1. PICK t : t = transactions[d]
        OBVIOUS
      <4>2. TransactionOK(t)' /\ transactions'[d] = t
        BY <2>1, <2>9, <4>1 DEF ContentParts
      <4> QED BY <4>2 DEF TransactionOK, HasRow
    <3> QED BY <3>1, <3>2
  <2> QED BY <2>1, <2>6, <2>7, <2>8, <2>10 DEF ContentParts, Compatible
<1>4. ASSUME DeleteContent(c, o, org) PROVE ContentParts'
  <2>1. /\ StartsTransaction(c, "delete", o, org, NoRow, <<>>) /\ <<>> \in Seq(Websites)
        /\ UNCHANGED <<contents, contentVersions, assigned, asked>> /\ time' \in {time, time + 1}
    BY <1>4 DEF DeleteContent
  <2> QED BY <2>1, StartsKeeps
<1>5. ASSUME NEW list \in AssignmentInputs, SetChannelAssignments(c, o, org, list)
      PROVE  ContentParts'
  <2>1. /\ StartsTransaction(c, "owned", o, org, NoRow, list) /\ list \in Seq(Websites)
        /\ UNCHANGED <<contents, contentVersions, assigned, asked>> /\ time' \in {time, time + 1}
    BY <1>5, ContentStoreAssumption DEF SetChannelAssignments
  <2> QED BY <2>1, StartsKeeps
<1> QED BY <1>1, <1>2, <1>3, <1>4, <1>5 DEF ContentRequest

(* A transaction that goes on to another stage, with nothing more in hand. *)
LEMMA Restaged ==
    ASSUME NEW t \in Transaction, NEW stage \in Stages
    PROVE  LET new == [t EXCEPT !.stage = stage]
           IN  /\ new \in Transaction /\ new.stage = stage /\ new.object = t.object
               /\ new.org = t.org /\ new.at = t.at /\ new.data = t.data /\ new.left = t.left
               /\ new.cleared = t.cleared /\ new.todo = t.todo /\ new.inserted = t.inserted
  BY DEF Transaction

(* Transactions get and lose rows: UpdateRow, DeleteRow.                   *)
LEMMA RowKeeps ==
    ASSUME ContentParts, NEW c \in Connections, UpdateRow(c) \/ DeleteRow(c)
    PROVE  ContentParts'
<1>1. Uncommitted /\ transactions[c] # Idle
  BY DEF UpdateRow, DeleteRow, Uncommitted
<1>2. PICK t : t = transactions[c]
  OBVIOUS
<1>3. /\ c \in Busy /\ t \in Transaction /\ TransactionOK(t)
      /\ \A d \in Busy \ {c} :
           /\ d \in Connections \ {c}
           /\ transactions[d] \in Transaction /\ transactions[d] # Idle
           /\ TransactionOK(transactions[d])
           /\ Compatible(t, transactions[d])
           /\ Compatible(transactions[d], t)
  BY <1>1, <1>2, UnderWay
<1>4. CASE Ends(c)
  BY <1>1, <1>4, EndsKeeps
<1>5. ASSUME UpdateRow(c), OfOrg(t.object, t.org), Reaches(c, "commit") PROVE ContentParts'
  <2> DEFINE new == [t EXCEPT !.stage = "commit"]
  <2>1. transactions' = [transactions EXCEPT ![c] = new]
    BY <1>2, <1>5 DEF Reaches
  <2>2. t.stage = "update" /\ ~Written(c, t.object)
    BY <1>2, <1>5 DEF UpdateRow
  <2>3. /\ new \in Transaction /\ new.stage = "commit" /\ new.object = t.object
        /\ new.org = t.org /\ new.at = t.at /\ new.data = t.data /\ new.left = t.left
        /\ new.cleared = t.cleared /\ new.todo = t.todo /\ new.inserted = t.inserted
    BY <1>3, Restaged DEF Stages
  <2> HIDE DEF new
  <2>4. TransactionOK(new)
    BY <1>3, <1>5, <2>2, <2>3 DEF TransactionOK, OfOrg
  <2>5. \A d \in Busy \ {c} :
          Compatible(new, transactions[d]) /\ Compatible(transactions[d], new)
    BY <1>3, <2>2, <2>3, Locks DEF Compatible, TransactionOK
  <2> QED BY <1>1, <2>1, <2>3, <2>4, <2>5, UncommittedStep
<1>6. ASSUME DeleteRow(c), OfOrg(t.object, t.org), Reaches(c, "cascade") PROVE ContentParts'
  <2> DEFINE new == [t EXCEPT !.stage = "cascade"]
  <2>1. transactions' = [transactions EXCEPT ![c] = new]
    BY <1>2, <1>6 DEF Reaches
  <2>2. t.stage = "delete" /\ ~Written(c, t.object) /\ ~Referenced(c, t.object)
    BY <1>2, <1>6 DEF DeleteRow
  <2>3. /\ new \in Transaction /\ new.stage = "cascade" /\ new.object = t.object
        /\ new.org = t.org /\ new.at = t.at /\ new.data = t.data /\ new.left = t.left
        /\ new.cleared = t.cleared /\ new.todo = t.todo /\ new.inserted = t.inserted
    BY <1>3, Restaged DEF Stages
  <2> HIDE DEF new
  <2>4. TransactionOK(new)
    BY <1>3, <1>6, <2>2, <2>3 DEF TransactionOK, OfOrg
  <2>5. \A d \in Busy \ {c} :
          Compatible(new, transactions[d]) /\ Compatible(transactions[d], new)
    BY <1>3, <2>2, <2>3, Locks DEF Compatible, TransactionOK
  <2> QED BY <1>1, <2>1, <2>3, <2>4, <2>5, UncommittedStep
<1> QED BY <1>2, <1>4, <1>5, <1>6 DEF UpdateRow, DeleteRow

(* The DELETE of a replacement: Clear, ClearRow, Cleared.                  *)
LEMMA ClearingKeeps ==
    ASSUME ContentParts, NEW c \in Connections, Clear(c) \/ ClearRow(c) \/ Cleared(c)
    PROVE  ContentParts'
<1>1. Uncommitted /\ transactions[c] # Idle
  BY DEF Clear, ClearRow, Cleared, Uncommitted
<1>2. PICK t : t = transactions[c]
  OBVIOUS
<1>3. /\ c \in Busy /\ t \in Transaction /\ TransactionOK(t)
      /\ \A d \in Busy \ {c} : Compatible(t, transactions[d]) /\ Compatible(transactions[d], t)
      /\ t.object \in Nat /\ t.left \subseteq Assignment /\ t.cleared \subseteq Assignment
  BY <1>1, <1>2, UnderWay DEF Transaction
<1>4. t.object \in DOMAIN contents /\ assigned[t.object] \subseteq Assignment
  <2>1. t.object \in DOMAIN contents
    BY <1>3 DEF TransactionOK
  <2> QED BY <2>1 DEF ContentParts, RowsTyped
<1>5. transactions \in [Connections -> Transaction \union {Idle}]
  BY DEF ContentParts
<1>6. ASSUME Clear(c) PROVE ContentParts'
  <2> DEFINE new == [t EXCEPT !.stage = "clear", !.left = assigned[t.object]]
  <2>1. /\ transactions' = [transactions EXCEPT ![c] = new]
        /\ t.stage = "owned"
    BY <1>2, <1>5, <1>6 DEF Clear, ToClear
  <2>2. /\ new \in Transaction /\ new.stage = "clear" /\ new.object = t.object
        /\ new.org = t.org /\ new.at = t.at /\ new.data = t.data
        /\ new.left = assigned[t.object] /\ new.cleared = t.cleared
        /\ new.inserted = t.inserted
    BY <1>3, <1>4 DEF Transaction, Stages
  <2> HIDE DEF new
  <2>3. TransactionOK(new)
    BY <1>3, <2>1, <2>2 DEF TransactionOK
  <2>4. \A d \in Busy \ {c} :
          Compatible(new, transactions[d]) /\ Compatible(transactions[d], new)
    BY <1>3, <2>2 DEF Compatible
  <2> QED BY <1>1, <2>1, <2>2, <2>3, <2>4, UncommittedStep
<1>7. ASSUME ClearRow(c) PROVE ContentParts'
  <2>1. PICK row \in t.left : transactions' = [transactions EXCEPT
              ![c].left = @ \ {row},
              ![c].cleared = @ \union ({row} \intersect assigned[t.object])]
    BY <1>2, <1>7 DEF ClearRow
  <2> DEFINE new == [t EXCEPT !.left = t.left \ {row},
                      !.cleared = t.cleared \union ({row} \intersect assigned[t.object])]
  <2>2. transactions' = [transactions EXCEPT ![c] = new] /\ t.stage = "clear"
    BY <1>2, <1>5, <1>7, <2>1 DEF ClearRow
  <2>3. /\ new \in Transaction /\ new.stage = "clear" /\ new.object = t.object
        /\ new.org = t.org /\ new.at = t.at /\ new.data = t.data
        /\ new.left = t.left \ {row}
        /\ new.cleared = t.cleared \union ({row} \intersect assigned[t.object])
        /\ new.inserted = t.inserted
    BY <1>3, <1>4, <2>2 DEF Transaction
  <2> HIDE DEF new
  <2>4. TransactionOK(new)
    <3>1. ASSUME NEW r \in assigned[t.object], r.done <= t.at
          PROVE  r \in new.left \union new.cleared
      <4>1. r \in t.left \union t.cleared
        BY <1>3, <2>2, <3>1 DEF TransactionOK
      <4> QED BY <2>3, <3>1, <4>1
    <3> QED BY <1>3, <2>2, <2>3, <3>1 DEF TransactionOK
  <2>5. \A d \in Busy \ {c} :
          Compatible(new, transactions[d]) /\ Compatible(transactions[d], new)
    BY <1>3, <2>2, <2>3 DEF Compatible
  <2> QED BY <1>1, <2>2, <2>3, <2>4, <2>5, UncommittedStep
<1>8. ASSUME Cleared(c) PROVE ContentParts'
  <2> DEFINE new == [t EXCEPT !.stage = "insert"]
  <2>1. /\ transactions' = [transactions EXCEPT ![c] = new]
        /\ t.stage = "clear" /\ t.left = {}
    BY <1>2, <1>8 DEF Cleared, Reaches
  <2>2. /\ new \in Transaction /\ new.stage = "insert" /\ new.object = t.object
        /\ new.org = t.org /\ new.at = t.at /\ new.data = t.data /\ new.left = t.left
        /\ new.cleared = t.cleared /\ new.todo = t.todo /\ new.inserted = t.inserted
    BY <1>3, Restaged DEF Stages
  <2> HIDE DEF new
  <2>3. TransactionOK(new)
    BY <1>3, <2>1, <2>2 DEF TransactionOK
  <2>4. \A d \in Busy \ {c} :
          Compatible(new, transactions[d]) /\ Compatible(transactions[d], new)
    BY <1>3, <2>1, <2>2 DEF Compatible
  <2> QED BY <1>1, <2>1, <2>2, <2>3, <2>4, UncommittedStep
<1> QED BY <1>6, <1>7, <1>8

(* An INSERT: the index and the reference to the object let it through.    *)
LEMMA InsertRowKeeps ==
    ASSUME ContentParts, NEW c \in Connections, InsertRow(c)
    PROVE  ContentParts'
<1>1. Uncommitted /\ transactions[c] # Idle
  BY DEF InsertRow, Uncommitted
<1>2. PICK t : t = transactions[c]
  OBVIOUS
<1>3. /\ c \in Busy /\ t \in Transaction /\ TransactionOK(t)
      /\ \A d \in Busy \ {c} :
           /\ transactions[d].inserted \subseteq Websites
           /\ Compatible(t, transactions[d]) /\ Compatible(transactions[d], t)
      /\ t.todo \in Seq(Websites) /\ t.inserted \subseteq Websites
  BY <1>1, <1>2, UnderWay DEF Transaction
<1>4. transactions \in [Connections -> Transaction \union {Idle}]
  BY DEF ContentParts
<1>5. PICK w : w = Head(t.todo)
  OBVIOUS
<1>6. /\ t.stage = "insert" /\ t.todo # <<>>
      /\ w \in Websites /\ Tail(t.todo) \in Seq(Websites)
  BY <1>2, <1>3, <1>5 DEF InsertRow
<1>7. CASE Ends(c)
  BY <1>1, <1>7, EndsKeeps
<1>8. ASSUME transactions' = [transactions EXCEPT ![c].todo = Tail(@)] PROVE ContentParts'
  <2> DEFINE new == [t EXCEPT !.todo = Tail(t.todo)]
  <2>1. transactions' = [transactions EXCEPT ![c] = new]
    BY <1>2, <1>4, <1>8
  <2>2. /\ new \in Transaction /\ new.stage = t.stage /\ new.object = t.object
        /\ new.org = t.org /\ new.at = t.at /\ new.data = t.data /\ new.left = t.left
        /\ new.cleared = t.cleared /\ new.inserted = t.inserted
    BY <1>3, <1>6 DEF Transaction
  <2> HIDE DEF new
  <2>3. TransactionOK(new)
    BY <1>3, <2>2 DEF TransactionOK
  <2>4. \A d \in Busy \ {c} :
          Compatible(new, transactions[d]) /\ Compatible(transactions[d], new)
    BY <1>3, <2>2 DEF Compatible
  <2> QED BY <1>1, <2>1, <2>2, <2>3, <2>4, UncommittedStep
<1>9. ASSUME WebsiteOrg[w] = t.org,
             ~IndexLocked(c, t.object, w), ~BeingDeleted(c, t.object),
             w \notin Taken(t), HasRow(t.object),
             transactions' = [transactions EXCEPT
                    ![c].todo = Tail(@), ![c].inserted = @ \union {w}]
      PROVE  ContentParts'
  <2> DEFINE new == [t EXCEPT !.todo = Tail(t.todo), !.inserted = t.inserted \union {w}]
  <2>1. transactions' = [transactions EXCEPT ![c] = new]
    BY <1>2, <1>4, <1>9
  <2>2. /\ new \in Transaction /\ new.stage = "insert" /\ new.object = t.object
        /\ new.org = t.org /\ new.at = t.at /\ new.data = t.data /\ new.left = t.left
        /\ new.cleared = t.cleared /\ new.inserted = t.inserted \union {w}
    BY <1>3, <1>6 DEF Transaction
  <2> HIDE DEF new
  <2>3. \A row \in assigned[t.object] : row.website = w => row \in t.cleared
    BY <1>9 DEF Taken
  <2>4. TransactionOK(new)
    BY <1>3, <1>6, <1>9, <2>2, <2>3 DEF TransactionOK
  <2>5. \A d \in Busy \ {c} :
          Compatible(new, transactions[d]) /\ Compatible(transactions[d], new)
    <3> SUFFICES ASSUME NEW d \in Busy \ {c}, transactions[d].object = t.object
                 PROVE  Compatible(new, transactions[d]) /\ Compatible(transactions[d], new)
      BY <2>2 DEF Compatible
    <3>1. transactions[d].stage # "cascade" /\ w \notin transactions[d].inserted
      BY <1>9, Locks
    <3>2. t.inserted \intersect transactions[d].inserted = {}
      BY <1>3 DEF Compatible
    <3> QED BY <2>2, <3>1, <3>2 DEF Compatible
  <2> QED BY <1>1, <2>1, <2>2, <2>4, <2>5, UncommittedStep
<1> QED BY <1>2, <1>5, <1>7, <1>8, <1>9 DEF InsertRow

(* Who has the row writes it: CommitUpdate.                                *)
LEMMA CommitUpdateKeeps ==
    ASSUME ContentParts, NEW c \in Connections, CommitUpdate(c)
    PROVE  ContentParts'
<1>1. PICK t : t = transactions[c]
  OBVIOUS
<1>2. PICK o : o = t.object
  OBVIOUS
<1>3. /\ transactions[c] # Idle /\ t.stage = "commit"
      /\ contents' = [contents EXCEPT ![o].data = t.data]
      /\ contentVersions' = [contentVersions EXCEPT ![o] = Append(@, t.data)]
      /\ transactions' = [transactions EXCEPT ![c] = Idle]
      /\ UNCHANGED <<assigned, asked, time>>
  BY <1>1, <1>2 DEF CommitUpdate, Ends
<1>4. t \in Transaction /\ TransactionOK(t)
  BY <1>1, <1>3, UnderWay
<1>5. o \in DOMAIN contents /\ HasRow(o) /\ t.data \in Datas
  BY <1>2, <1>3, <1>4 DEF TransactionOK
<1>6. /\ contents \in Seq(Content \union {NoRow})
      /\ contentVersions \in Seq(Seq(Datas)) /\ Len(contentVersions) = Len(contents)
  BY DEF ContentParts, RowsTyped
<1> DEFINE new == [contents[o] EXCEPT !.data = t.data]
           history == Append(contentVersions[o], t.data)
<1>7. /\ new \in Content /\ new.org = contents[o].org /\ new.data = t.data
      /\ contents' = [contents EXCEPT ![o] = new]
  <2>1. contents[o] \in Content
    BY <1>5, <1>6 DEF HasRow
  <2>2. contents' = [contents EXCEPT ![o] = new]
    BY <1>3
  <2> QED BY <1>5, <2>1, <2>2 DEF Content
<1>8. /\ history \in Seq(Datas) /\ history # <<>> /\ history[Len(history)] = t.data
      /\ contentVersions' = [contentVersions EXCEPT ![o] = history]
  <2>1. contentVersions[o] \in Seq(Datas)
    BY <1>5, <1>6
  <2>2. contentVersions' = [contentVersions EXCEPT ![o] = history]
    BY <1>3
  <2> QED BY <1>5, <2>1, <2>2
<1> HIDE DEF new, history
<1>9. /\ contents' \in Seq(Content \union {NoRow}) /\ Len(contents') = Len(contents)
      /\ DOMAIN contents' = DOMAIN contents
      /\ contentVersions' \in Seq(Seq(Datas)) /\ Len(contentVersions') = Len(contents)
      /\ DOMAIN contentVersions' = DOMAIN contents
  BY <1>5, <1>6, <1>7, <1>8
<1>10. /\ \A x \in DOMAIN contents : HasRow(x)' <=> HasRow(x)
       /\ \A x \in DOMAIN contents : contents'[x].org = contents[x].org
       /\ \A x \in DOMAIN contents : x # o =>
            contents'[x] = contents[x] /\ contentVersions'[x] = contentVersions[x]
       /\ contents'[o] = new /\ contentVersions'[o] = history
  BY <1>5, <1>6, <1>7, <1>8, ContentStoreAssumption DEF HasRow
<1>11. RowsTyped'
  BY <1>3, <1>9 DEF ContentParts, RowsTyped
<1>12. ASSUME NEW x \in DOMAIN contents' PROVE AssignedOK(x)'
  BY <1>3, <1>5, <1>9, <1>10 DEF ContentParts, AssignedOK
<1>13. ChannelsAsAsked'
  BY <1>3, <1>9 DEF ContentParts, ChannelsAsAsked
<1>14. HistoryEndsInPresent'
  <2> SUFFICES ASSUME NEW x \in DOMAIN contents', HasRow(x)'
               PROVE  /\ contentVersions'[x] # <<>>
                      /\ contents'[x].data = contentVersions'[x][Len(contentVersions'[x])]
    BY DEF HistoryEndsInPresent
  <2>1. CASE x = o
    BY <1>7, <1>8, <1>10, <2>1
  <2>2. CASE x # o
    BY <1>9, <1>10, <2>2 DEF ContentParts, HistoryEndsInPresent
  <2> QED BY <2>1, <2>2
<1>15. \A u : TransactionOK(u) => TransactionOK(u)'
  BY <1>3, <1>9, <1>10 DEF TransactionOK
<1>16. \A u : (\E d \in Busy \ {c} : u = transactions[d]) => TransactionOK(u)'
  BY <1>15 DEF ContentParts
<1> QED BY <1>3, <1>11, <1>12, <1>13, <1>14, <1>16, ContentFrame

(* The object goes with its versions and assignments: Cascade.             *)
LEMMA CascadeKeeps ==
    ASSUME ContentParts, NEW c \in Connections, Cascade(c)
    PROVE  ContentParts'
<1>1. PICK t : t = transactions[c]
  OBVIOUS
<1>2. PICK o : o = t.object
  OBVIOUS
<1>3. /\ transactions[c] # Idle /\ t.stage = "cascade"
      /\ contents' = [contents EXCEPT ![o] = NoRow]
      /\ contentVersions' = [contentVersions EXCEPT ![o] = <<>>]
      /\ assigned' = [assigned EXCEPT ![o] = {}]
      /\ asked' = [asked EXCEPT ![o].websites = {}]
      /\ transactions' = [transactions EXCEPT ![c] = Idle]
      /\ UNCHANGED time
  BY <1>1, <1>2 DEF Cascade, Ends
<1>4. /\ t \in Transaction /\ TransactionOK(t)
      /\ \A d \in Busy \ {c} :
           TransactionOK(transactions[d]) /\ Compatible(t, transactions[d])
  BY <1>1, <1>3, UnderWay
<1>5. o \in DOMAIN contents
  BY <1>2, <1>4 DEF TransactionOK
<1>6. /\ contents \in Seq(Content \union {NoRow})
      /\ contentVersions \in Seq(Seq(Datas)) /\ Len(contentVersions) = Len(contents)
      /\ assigned \in Seq(SUBSET Assignment) /\ Len(assigned) = Len(contents)
      /\ asked \in Seq(Ask) /\ Len(asked) = Len(contents)
  BY DEF ContentParts, RowsTyped
<1> DEFINE new == [asked[o] EXCEPT !.websites = {}]
<1>7. /\ new \in Ask /\ new.websites = {} /\ asked' = [asked EXCEPT ![o] = new]
  <2>1. asked[o] \in Ask
    BY <1>5, <1>6
  <2>2. asked' = [asked EXCEPT ![o] = new]
    BY <1>3
  <2> QED BY <2>1, <2>2 DEF Ask
<1> HIDE DEF new
<1>8. /\ contents' \in Seq(Content \union {NoRow}) /\ Len(contents') = Len(contents)
      /\ DOMAIN contents' = DOMAIN contents
      /\ contentVersions' \in Seq(Seq(Datas)) /\ Len(contentVersions') = Len(contents)
  BY <1>3, <1>5, <1>6
<1>9. /\ assigned' \in Seq(SUBSET Assignment) /\ Len(assigned') = Len(contents)
      /\ asked' \in Seq(Ask) /\ Len(asked') = Len(contents)
  <2>1. {} \in SUBSET Assignment
    OBVIOUS
  <2>2. assigned' \in Seq(SUBSET Assignment) /\ Len(assigned') = Len(contents)
    BY <1>3, <1>5, <1>6, <2>1
  <2>3. asked' \in Seq(Ask) /\ Len(asked') = Len(contents)
    BY <1>5, <1>6, <1>7
  <2> QED BY <2>2, <2>3
<1>10. /\ \A x \in DOMAIN contents : x # o =>
            /\ contents'[x] = contents[x] /\ contentVersions'[x] = contentVersions[x]
            /\ assigned'[x] = assigned[x] /\ asked'[x] = asked[x]
       /\ contents'[o] = NoRow /\ contentVersions'[o] = <<>>
       /\ assigned'[o] = {} /\ asked'[o] = new
  BY <1>3, <1>5, <1>6, <1>7
<1>11. RowsTyped'
  BY <1>3, <1>8, <1>9 DEF ContentParts, RowsTyped
<1>12. ASSUME NEW x \in DOMAIN contents' PROVE AssignedOK(x)'
  BY <1>3, <1>8, <1>10 DEF ContentParts, AssignedOK, HasRow
<1>13. ChannelsAsAsked'
  BY <1>7, <1>8, <1>10 DEF ContentParts, ChannelsAsAsked
<1>14. HistoryEndsInPresent'
  BY <1>8, <1>10 DEF ContentParts, HistoryEndsInPresent, HasRow
<1>15. ASSUME NEW u, NEW d \in Busy \ {c}, u = transactions[d] PROVE TransactionOK(u)'
  <2>1. TransactionOK(u) /\ Compatible(t, u)
    BY <1>4, <1>15
  <2>2. CASE u.object = o
    BY <1>2, <1>3, <1>8, <1>10, <2>1, <2>2 DEF TransactionOK, Compatible, HasRow
  <2>3. CASE u.object # o
    BY <1>3, <1>8, <1>10, <2>1, <2>3 DEF TransactionOK, HasRow
  <2> QED BY <2>2, <2>3
<1>16. \A u : (\E d \in Busy \ {c} : u = transactions[d]) => TransactionOK(u)'
  BY <1>15
<1> QED BY <1>3, <1>11, <1>12, <1>13, <1>14, <1>16, ContentFrame

(* A replacement commits: what it did not clear was committed after it     *)
(* began, and what it inserted nobody else has.  CommitAssignments.        *)
LEMMA CommitAssignmentsKeeps ==
    ASSUME ContentParts, NEW c \in Connections, CommitAssignments(c)
    PROVE  ContentParts'
<1>1. PICK t : t = transactions[c]
  OBVIOUS
<1>2. PICK o : o = t.object
  OBVIOUS
<1> DEFINE made == {[website |-> w, at |-> t.at, done |-> time + 1] : w \in t.inserted}
           rows == (assigned[o] \ t.cleared) \union made
           ask == [websites |-> t.inserted, at |-> t.at]
<1>3. /\ transactions[c] # Idle /\ t.stage = "insert"
      /\ assigned' = [assigned EXCEPT ![o] = rows]
      /\ asked' = [asked EXCEPT ![o] = ask]
      /\ time' = time + 1
      /\ transactions' = [transactions EXCEPT ![c] = Idle]
      /\ UNCHANGED <<contents, contentVersions>>
  BY <1>1, <1>2 DEF CommitAssignments, Ends
<1>4. /\ t \in Transaction /\ TransactionOK(t)
      /\ \A d \in Busy \ {c} : /\ TransactionOK(transactions[d])
                               /\ transactions[d] \in Transaction
                               /\ Compatible(t, transactions[d])
  BY <1>1, <1>3, UnderWay
<1>5. o \in DOMAIN contents
  BY <1>2, <1>4 DEF TransactionOK
<1>6. /\ contents \in Seq(Content \union {NoRow}) /\ time \in Nat
      /\ assigned \in Seq(SUBSET Assignment) /\ Len(assigned) = Len(contents)
      /\ asked \in Seq(Ask) /\ Len(asked) = Len(contents)
  BY DEF ContentParts, RowsTyped
<1>7. t.inserted \subseteq Websites /\ t.at \in Nat
  BY <1>4 DEF Transaction
<1>8. /\ \A r \in made : /\ r \in Assignment /\ r.website \in t.inserted
                         /\ r.at = t.at /\ r.done = time + 1
      /\ \A w \in t.inserted : \E r \in made : r.website = w
      /\ \A r, s \in made : r.website = s.website => r = s
  <2>1. ASSUME NEW r \in made
        PROVE  /\ r \in Assignment /\ r.website \in t.inserted
               /\ r.at = t.at /\ r.done = time + 1
               /\ r = [website |-> r.website, at |-> t.at, done |-> time + 1]
    <3>1. PICK w \in t.inserted : r = [website |-> w, at |-> t.at, done |-> time + 1]
      BY <2>1
    <3> QED BY <1>6, <1>7, <3>1 DEF Assignment
  <2>2. ASSUME NEW w \in t.inserted PROVE \E r \in made : r.website = w
    <3>1. [website |-> w, at |-> t.at, done |-> time + 1] \in made
      OBVIOUS
    <3> QED BY <3>1
  <2> HIDE DEF made
  <2>3. \A r, s \in made : r.website = s.website => r = s
    BY <2>1
  <2> QED BY <2>1, <2>2, <2>3
<1>9. assigned[o] \subseteq Assignment
  BY <1>5, <1>6
<1>10. /\ rows \in SUBSET Assignment /\ ask \in Ask
       /\ ask.websites = t.inserted /\ ask.at = t.at
       /\ \A r \in rows : \/ r \in assigned[o] /\ r \notin t.cleared
                          \/ r \in made
       /\ made \subseteq rows
  BY <1>7, <1>8, <1>9 DEF Ask
<1> HIDE DEF made, rows, ask
<1>11. /\ assigned' \in Seq(SUBSET Assignment) /\ Len(assigned') = Len(contents)
       /\ asked' \in Seq(Ask) /\ Len(asked') = Len(contents)
  <2>1. assigned' \in Seq(SUBSET Assignment) /\ Len(assigned') = Len(contents)
    BY <1>3, <1>5, <1>6, <1>10
  <2>2. asked' \in Seq(Ask) /\ Len(asked') = Len(contents)
    BY <1>3, <1>5, <1>6, <1>10
  <2> QED BY <2>1, <2>2
<1>12. /\ assigned'[o] = rows /\ asked'[o] = ask
       /\ \A x \in DOMAIN contents : x # o =>
            assigned'[x] = assigned[x] /\ asked'[x] = asked[x]
  BY <1>3, <1>5, <1>6
<1>13. RowsTyped'
  BY <1>3, <1>6, <1>11 DEF ContentParts, RowsTyped
<1>14. AssignedOK(o) /\ AssignedOK(o)'
  <2>1. AssignedOK(o)
    BY <1>5 DEF ContentParts
  <2>2. ASSUME NEW r \in rows, NEW s \in rows, r.website = s.website PROVE r = s
    <3>1. \A q \in assigned[o] : q.website \in t.inserted => q \in t.cleared
      BY <1>2, <1>4 DEF TransactionOK
    <3> QED BY <1>8, <1>10, <2>1, <2>2, <3>1 DEF AssignedOK
  <2>3. ASSUME NEW r \in rows PROVE WebsiteOrg[r.website] = contents[o].org /\ r.done <= time + 1
    <3>1. CASE r \in assigned[o]
      <4>1. r.done \in Nat /\ r.done <= time /\ WebsiteOrg[r.website] = contents[o].org
        BY <1>9, <2>1, <3>1 DEF AssignedOK, Assignment
      <4> QED BY <1>6, <4>1
    <3>2. CASE r \in made
      <4>1. r.website \in t.inserted /\ r.done = time + 1
        BY <1>8, <3>2
      <4>2. contents[o].org = t.org /\ WebsiteOrg[r.website] = t.org
        BY <1>2, <1>4, <4>1 DEF TransactionOK
      <4> QED BY <1>6, <4>1, <4>2
    <3> QED BY <1>10, <2>3, <3>1, <3>2
  <2>4. ~HasRow(o) => contentVersions[o] = <<>> /\ rows = {}
    <3>1. ~HasRow(o) => t.inserted = {}
      BY <1>2, <1>4 DEF TransactionOK
    <3> QED BY <1>8, <1>10, <2>1, <3>1 DEF AssignedOK
  <2> QED BY <1>3, <1>12, <2>1, <2>2, <2>3, <2>4 DEF AssignedOK, HasRow
<1>15. ASSUME NEW x \in DOMAIN contents' PROVE AssignedOK(x)'
  <2>1. CASE x = o
    BY <1>14, <2>1
  <2>2. CASE x # o
    <3>1. /\ AssignedOK(x) /\ assigned'[x] = assigned[x] /\ assigned[x] \subseteq Assignment
      BY <1>3, <1>6, <1>12, <2>2 DEF ContentParts
    <3>2. \A r \in assigned[x] : r.done <= time + 1
      BY <1>6, <3>1 DEF AssignedOK, Assignment
    <3> QED BY <1>3, <3>1, <3>2 DEF AssignedOK, HasRow
  <2> QED BY <2>1, <2>2
<1>16. ChannelsAsAsked'
  <2> SUFFICES ASSUME NEW x \in DOMAIN contents'
               PROVE  /\ asked'[x].websites \subseteq {row.website : row \in assigned'[x]}
                      /\ \A row \in assigned'[x] :
                           row.at = asked'[x].at \/ row.done > asked'[x].at
    BY DEF ChannelsAsAsked
  <2>1. CASE x = o
    <3>1. t.inserted \subseteq {row.website : row \in rows}
      BY <1>8, <1>10
    <3>2. ASSUME NEW row \in rows PROVE row.at = t.at \/ row.done > t.at
      <4>1. CASE row \in assigned[o] /\ row \notin t.cleared
        <5>1. ~(row.done <= t.at) /\ row.done \in Nat
          BY <1>2, <1>3, <1>4, <1>9, <4>1 DEF TransactionOK, Assignment
        <5> QED BY <1>7, <5>1
      <4> QED BY <1>8, <1>10, <3>2, <4>1
    <3> QED BY <1>10, <1>12, <2>1, <3>1, <3>2
  <2>2. CASE x # o
    BY <1>3, <1>12, <2>2 DEF ContentParts, ChannelsAsAsked
  <2> QED BY <2>1, <2>2
<1>17. HistoryEndsInPresent'
  BY <1>3 DEF ContentParts, HistoryEndsInPresent, HasRow
<1>18. ASSUME NEW u, NEW d \in Busy \ {c}, u = transactions[d] PROVE TransactionOK(u)'
  <2>1. TransactionOK(u) /\ Compatible(t, u) /\ u \in Transaction
    BY <1>4, <1>18
  <2>2. u.at \in Nat /\ u.at <= time
    BY <2>1 DEF TransactionOK, Transaction
  <2>3. ASSUME NEW row \in assigned'[u.object]
        PROVE  /\ row.website \in u.inserted => row \in u.cleared
               /\ row.done <= u.at =>
                    /\ u.stage = "clear" => row \in u.left \union u.cleared
                    /\ u.stage = "insert" => row \in u.cleared
    <3>1. CASE row \in assigned[u.object]
      BY <2>1, <3>1 DEF TransactionOK
    <3>2. CASE u.object = o /\ row \in made
      <4>1. row.website \in t.inserted /\ row.done = time + 1
        BY <1>8, <3>2
      <4>2. row.website \notin u.inserted
        BY <1>2, <2>1, <3>2, <4>1 DEF Compatible
      <4>3. ~(row.done <= u.at)
        BY <1>6, <2>2, <4>1
      <4> QED BY <4>2, <4>3
    <3>3. u.object \in DOMAIN contents
      BY <2>1 DEF TransactionOK
    <3> QED BY <1>10, <1>12, <2>3, <3>1, <3>2, <3>3
  <2>4. u.at <= time'
    BY <1>3, <1>6, <2>2
  <2> QED BY <1>3, <2>1, <2>3, <2>4 DEF TransactionOK, HasRow
<1>19. \A u : (\E d \in Busy \ {c} : u = transactions[d]) => TransactionOK(u)'
  BY <1>18
<1> QED BY <1>3, <1>13, <1>15, <1>16, <1>17, <1>19, ContentFrame

(* A new object, which nobody knows: CreateContent.                        *)
LEMMA CreateContentKeeps ==
    ASSUME ContentParts, NEW org \in Organizations, NEW data \in Datas,
           CreateContent(org, data)
    PROVE  ContentParts'
<1> DEFINE new == [org |-> org, status |-> "draft", data |-> data]
           ask == [websites |-> {}, at |-> 0]
           o == Len(contents) + 1
<1>1. /\ contents' = Append(contents, new)
      /\ contentVersions' = Append(contentVersions, <<data>>)
      /\ assigned' = Append(assigned, {}) /\ asked' = Append(asked, ask)
      /\ UNCHANGED <<transactions, time>>
  BY DEF CreateContent
<1>2. /\ contents \in Seq(Content \union {NoRow}) /\ time \in Nat
      /\ contentVersions \in Seq(Seq(Datas)) /\ Len(contentVersions) = Len(contents)
      /\ assigned \in Seq(SUBSET Assignment) /\ Len(assigned) = Len(contents)
      /\ asked \in Seq(Ask) /\ Len(asked) = Len(contents)
  BY DEF ContentParts, RowsTyped
<1>3. /\ new \in Content /\ new.data = data /\ new # NoRow
      /\ ask \in Ask /\ ask.websites = {}
  BY ContentStoreAssumption DEF Content, Ask
<1>4. <<data>> \in Seq(Datas) /\ <<data>> # <<>> /\ <<data>>[Len(<<data>>)] = data
  OBVIOUS
<1> HIDE DEF new, ask
<1>5. /\ contents' \in Seq(Content \union {NoRow}) /\ Len(contents') = o
      /\ DOMAIN contents' = DOMAIN contents \union {o}
      /\ contents'[o] = new /\ \A x \in DOMAIN contents : contents'[x] = contents[x]
  BY <1>1, <1>2, <1>3
<1>6. /\ contentVersions' \in Seq(Seq(Datas)) /\ Len(contentVersions') = o
      /\ contentVersions'[o] = <<data>>
      /\ \A x \in DOMAIN contents : contentVersions'[x] = contentVersions[x]
  BY <1>1, <1>2, <1>4
<1>7. /\ assigned' \in Seq(SUBSET Assignment) /\ Len(assigned') = o /\ assigned'[o] = {}
      /\ \A x \in DOMAIN contents : assigned'[x] = assigned[x]
  <2>1. {} \in SUBSET Assignment
    OBVIOUS
  <2> QED BY <1>1, <1>2, <2>1
<1>8. /\ asked' \in Seq(Ask) /\ Len(asked') = o /\ asked'[o] = ask
      /\ \A x \in DOMAIN contents : asked'[x] = asked[x]
  BY <1>1, <1>2, <1>3
<1>9. RowsTyped'
  BY <1>1, <1>2, <1>5, <1>6, <1>7, <1>8 DEF RowsTyped
<1>10. ASSUME NEW x \in DOMAIN contents' PROVE AssignedOK(x)'
  <2>1. CASE x = o
    BY <1>3, <1>5, <1>7, <2>1 DEF AssignedOK, HasRow
  <2>2. CASE x \in DOMAIN contents
    BY <1>1, <1>5, <1>6, <1>7, <2>2 DEF ContentParts, AssignedOK, HasRow
  <2> QED BY <1>5, <2>1, <2>2
<1>11. ChannelsAsAsked'
  BY <1>3, <1>5, <1>7, <1>8 DEF ContentParts, ChannelsAsAsked
<1>12. HistoryEndsInPresent'
  <2> SUFFICES ASSUME NEW x \in DOMAIN contents', HasRow(x)'
               PROVE  /\ contentVersions'[x] # <<>>
                      /\ contents'[x].data = contentVersions'[x][Len(contentVersions'[x])]
    BY DEF HistoryEndsInPresent
  <2>1. CASE x = o
    BY <1>3, <1>4, <1>5, <1>6, <2>1
  <2>2. CASE x \in DOMAIN contents
    BY <1>5, <1>6, <2>2 DEF ContentParts, HistoryEndsInPresent, HasRow
  <2> QED BY <1>5, <2>1, <2>2
<1>13. \A u : TransactionOK(u) => TransactionOK(u)'
  BY <1>1, <1>5, <1>7 DEF TransactionOK, HasRow
<1>14. Busy' = Busy /\ \A d \in Busy : TransactionOK(transactions[d])'
  <2>1. Busy' = Busy
    BY <1>1 DEF Busy
  <2>2. ASSUME NEW d \in Busy PROVE TransactionOK(transactions[d])'
    <3>1. PICK u : u = transactions[d]
      OBVIOUS
    <3>2. TransactionOK(u)' /\ transactions'[d] = u
      BY <1>1, <1>13, <3>1 DEF ContentParts
    <3> QED BY <3>2 DEF TransactionOK, HasRow
  <2> QED BY <2>1, <2>2
<1> QED BY <1>1, <1>9, <1>10, <1>11, <1>12, <1>14 DEF ContentParts, Compatible

LEMMA ContentStepKeeps ==
    ASSUME ContentParts, NEW c \in Connections, ContentStep(c)
    PROVE  ContentParts'
<1>1. CASE TransactionFails(c)
  BY <1>1, EndsKeeps DEF TransactionFails, Uncommitted
<1>2. CASE UpdateRow(c) \/ DeleteRow(c)
  BY <1>2, RowKeeps
<1>3. CASE Clear(c) \/ ClearRow(c) \/ Cleared(c)
  BY <1>3, ClearingKeeps
<1> QED BY <1>1, <1>2, <1>3, CommitUpdateKeeps, CascadeKeeps, InsertRowKeeps,
           CommitAssignmentsKeeps DEF ContentStep

LEMMA ContentInvariance == ContentSpec => []ContentParts
<1>1. ContentInit => ContentParts
  <2> SUFFICES ASSUME ContentInit PROVE ContentParts
    OBVIOUS
  <2>1. /\ contents = <<>> /\ contentVersions = <<>> /\ assigned = <<>> /\ asked = <<>>
        /\ transactions \in [Connections -> Transaction \union {Idle}] /\ Busy = {}
        /\ time = 0
    BY DEF ContentInit, Busy
  <2> QED BY <2>1 DEF ContentParts, RowsTyped, ChannelsAsAsked, HistoryEndsInPresent
<1>2. ContentParts /\ UNCHANGED contentVars => ContentParts'
  BY DEF contentVars, ContentParts, RowsTyped, AssignedOK, TransactionOK, Compatible, Busy,
         ChannelsAsAsked, HistoryEndsInPresent, HasRow
<1>3. ContentParts /\ ContentNext => ContentParts'
  BY CreateContentKeeps, ContentStepKeeps, RequestKeeps DEF ContentNext
<1> QED BY <1>1, <1>2, <1>3, PTL DEF ContentSpec

LEMMA ContentTyped == ContentParts => ContentTypeOK
  BY DEF ContentParts, RowsTyped, AssignedOK, ContentTypeOK

(* The content store is of its type, an object's assignments are those of  *)
(* the request that replaced them last (set_channel_assignments) with what *)
(* was committed while that ran, and its data is that of its last version  *)
(* (insert_version), for any number of connections whose transactions      *)
(* overlap, wait and fail.                                                 *)
THEOREM ContentHolds ==
    ContentSpec => [](ContentTypeOK /\ ChannelsAsAsked /\ HistoryEndsInPresent)
<1>1. ContentParts => ContentTypeOK /\ ChannelsAsAsked /\ HistoryEndsInPresent
  BY ContentTyped DEF ContentParts
<1> QED BY <1>1, ContentInvariance, PTL

-----------------------------------------------------------------------------
(* The commerce sandbox.  The sums of the model are sums of the lemmas.    *)
Pieces(lines) == [i \in DOMAIN lines |-> lines[i].quantity]

LinesOf(lines, p) == {i \in DOMAIN lines : lines[i].product = p}

LEMMA TotalIsSum ==
    ASSUME NEW lines, IsFiniteSet(DOMAIN lines)
    PROVE  Total(lines) = SumOf(Pieces(lines), DOMAIN lines)
<1> DEFINE S == DOMAIN lines
           f == Pieces(lines)
           h == CHOOSE i : i = [s \in SUBSET S |-> IF s = {} THEN 0
                  ELSE lines[Pick(s)].quantity + i[s \ {Pick(s)}]]
<1>1. Total(lines) = h[S]
  BY DEF Total, MapThenSumSet, MapThenFoldSet, Pick
<1>2. PICK g : Sums(g, f, S) /\ SumOf(f, S) = g[S]
  BY SumIsComputed
<1>3. \A s \in SUBSET S : s # {} => f[Pick(s)] = lines[Pick(s)].quantity
  BY DEF Pick, Pieces
<1>4. h = [s \in SUBSET S |-> IF s = {} THEN 0
             ELSE lines[Pick(s)].quantity + h[s \ {Pick(s)}]]
  <2>1. g = [s \in SUBSET S |-> IF s = {} THEN 0
               ELSE lines[Pick(s)].quantity + g[s \ {Pick(s)}]]
    BY <1>2, <1>3 DEF Sums, Added
  <2> QED BY <2>1
<1> HIDE DEF h, f
<1>5. Sums(h, f, S)
  BY <1>3, <1>4 DEF Sums, Added
<1>6. S \in SUBSET S /\ Agree(f, f, S)
  BY DEF Agree
<1> HIDE DEF S
<1> QED BY <1>1, <1>2, <1>5, <1>6, SumsAgree DEF S, f

LEMMA AmountIsSum ==
    ASSUME NEW lines, IsFiniteSet(DOMAIN lines), NEW p
    PROVE  Amount(lines, p) = SumOf(Pieces(lines), LinesOf(lines, p))
<1> DEFINE S == LinesOf(lines, p)
           f == Pieces(lines)
           h == CHOOSE i : i = [s \in SUBSET S |-> IF s = {} THEN 0
                  ELSE lines[Pick(s)].quantity + i[s \ {Pick(s)}]]
<1>1. Amount(lines, p) = h[S]
  BY DEF Amount, MapThenSumSet, MapThenFoldSet, Pick, LinesOf
<1>2. S \subseteq DOMAIN lines /\ IsFiniteSet(S)
  <2>1. S \subseteq DOMAIN lines
    BY DEF LinesOf
  <2> QED BY <2>1, FS_Subset
<1>3. PICK g : Sums(g, f, S) /\ SumOf(f, S) = g[S]
  BY <1>2, SumIsComputed
<1>4. \A s \in SUBSET S : s # {} => f[Pick(s)] = lines[Pick(s)].quantity
  BY <1>2 DEF Pick, Pieces
<1>5. h = [s \in SUBSET S |-> IF s = {} THEN 0
             ELSE lines[Pick(s)].quantity + h[s \ {Pick(s)}]]
  <2>1. g = [s \in SUBSET S |-> IF s = {} THEN 0
               ELSE lines[Pick(s)].quantity + g[s \ {Pick(s)}]]
    BY <1>3, <1>4 DEF Sums, Added
  <2> QED BY <2>1
<1> HIDE DEF h, f
<1>6. Sums(h, f, S)
  BY <1>4, <1>5 DEF Sums, Added
<1>7. S \in SUBSET S /\ Agree(f, f, S)
  BY DEF Agree
<1> HIDE DEF S
<1> QED BY <1>1, <1>2, <1>3, <1>6, <1>7, SumsAgree DEF S, f

Held(seq, p) == [r \in Ids(seq) |-> Amount(seq[r], p)]

LEMMA ReservedIsSum ==
    ASSUME IsFiniteSet(Ids(reservations)), NEW p
    PROVE  Reserved(p) = SumOf(Held(reservations, p), Ids(reservations))
<1> DEFINE S == Ids(reservations)
           f == Held(reservations, p)
           h == CHOOSE i : i = [s \in SUBSET S |-> IF s = {} THEN 0
                  ELSE Amount(reservations[Pick(s)], p) + i[s \ {Pick(s)}]]
<1>1. Reserved(p) = h[S]
  BY DEF Reserved, MapThenSumSet, MapThenFoldSet, Pick
<1>2. PICK g : Sums(g, f, S) /\ SumOf(f, S) = g[S]
  BY SumIsComputed
<1>3. \A s \in SUBSET S : s # {} => f[Pick(s)] = Amount(reservations[Pick(s)], p)
  BY DEF Pick, Held
<1>4. h = [s \in SUBSET S |-> IF s = {} THEN 0
             ELSE Amount(reservations[Pick(s)], p) + h[s \ {Pick(s)}]]
  <2>1. g = [s \in SUBSET S |-> IF s = {} THEN 0
               ELSE Amount(reservations[Pick(s)], p) + g[s \ {Pick(s)}]]
    BY <1>2, <1>3 DEF Sums, Added
  <2> QED BY <2>1
<1> HIDE DEF h, f
<1>5. Sums(h, f, S)
  BY <1>3, <1>4 DEF Sums, Added
<1>6. S \in SUBSET S /\ Agree(f, f, S)
  BY DEF Agree
<1> HIDE DEF S
<1> QED BY <1>1, <1>2, <1>5, <1>6, SumsAgree DEF S, f

LEMMA BudgetReservedIsSum ==
    BudgetReserved = SumOf(budgetReservations, Ids(budgetReservations))
  BY DEF BudgetReserved, SumOf, MapThenSumSet, MapThenFoldSet

(* Lines are priced and counted in natural numbers.                        *)
LEMMA Priced ==
    ASSUME NEW lines \in Seq(Line)
    PROVE  /\ IsFiniteSet(DOMAIN lines)
           /\ Total(lines) \in Nat
           /\ \A p : Amount(lines, p) \in Nat
<1>1. IsFiniteSet(DOMAIN lines)
  BY FS_Interval
<1>2. \A i \in DOMAIN lines : Pieces(lines)[i] \in Nat
  <2> SUFFICES ASSUME NEW i \in DOMAIN lines PROVE Pieces(lines)[i] \in Nat
    OBVIOUS
  <2>1. lines[i] \in Line
    OBVIOUS
  <2> QED BY <2>1, CommerceAssumption DEF Pieces, Line
<1>3. Total(lines) \in Nat
  BY <1>1, <1>2, TotalIsSum, SumIsNatural
<1>4. ASSUME NEW p PROVE Amount(lines, p) \in Nat
  <2>1. LinesOf(lines, p) \in SUBSET DOMAIN lines
    BY DEF LinesOf
  <2>2. IsFiniteSet(LinesOf(lines, p))
    BY <1>1, <2>1, FS_Subset
  <2> QED BY <1>1, <1>2, <2>1, <2>2, AmountIsSum, SumIsNatural
<1> QED BY <1>1, <1>3, <1>4

(* More than one line of a product.                                        *)
Double(lines, p) ==
    \E i, j \in DOMAIN lines : i # j /\ lines[i].product = p /\ lines[j].product = p

LEMMA SingleAmount ==
    ASSUME NEW lines \in Seq(Line), NEW p, ~Double(lines, p)
    PROVE  \/ Amount(lines, p) = 0 /\ \A i \in DOMAIN lines : lines[i].product # p
           \/ \E i \in DOMAIN lines : lines[i].product = p /\ Amount(lines, p) = lines[i].quantity
<1>1. Amount(lines, p) = SumOf(Pieces(lines), LinesOf(lines, p))
  BY Priced, AmountIsSum
<1>2. CASE LinesOf(lines, p) = {}
  BY <1>1, <1>2, SumOfNothing DEF LinesOf
<1>3. CASE LinesOf(lines, p) # {}
  <2>1. PICK i \in DOMAIN lines : lines[i].product = p
    BY <1>3 DEF LinesOf
  <2>2. LinesOf(lines, p) = {i}
    BY <2>1 DEF LinesOf, Double
  <2>3. Pieces(lines)[i] = lines[i].quantity /\ Pieces(lines)[i] \in Int
    <3>1. lines[i] \in Line
      OBVIOUS
    <3>2. lines[i].quantity \in Int
      <4>1. Quantities \subseteq Int
        BY CommerceAssumption
      <4> QED BY <3>1, <4>1 DEF Line
    <3>3. Pieces(lines)[i] = lines[i].quantity
      BY DEF Pieces
    <3> QED BY <3>2, <3>3
  <2>4. SumOf(Pieces(lines), {} \union {i}) = Pieces(lines)[i] + SumOf(Pieces(lines), {})
    BY <2>3, SumWithOneMore, FS_EmptySet
  <2>5. {} \union {i} = {i}
    OBVIOUS
  <2>6. SumOf(Pieces(lines), {}) = 0
    BY SumOfNothing
  <2>7. Amount(lines, p) = lines[i].quantity
    BY <1>1, <2>2, <2>3, <2>4, <2>5, <2>6
  <2> QED BY <2>1, <2>7
<1> QED BY <1>2, <1>3

-----------------------------------------------------------------------------
(* The books.  Reservation that hold a product in one line at most.       *)
Singles(seq, p) == {r \in Ids(seq) : ~Double(seq[r], p)}

Reservation == Seq(Line) \cup {Released}

(* A sum over s with and without one of its elements.                      *)
LEMMA HeldIsNumber ==
    ASSUME NEW seq \in Seq(Reservation), NEW p
    PROVE  /\ IsFiniteSet(Ids(seq)) /\ IsFiniteSet(Singles(seq, p))
           /\ \A r \in Ids(seq) : Held(seq, p)[r] \in Nat
           /\ SumOf(Held(seq, p), Ids(seq)) \in Nat
           /\ SumOf(Held(seq, p), Singles(seq, p)) \in Nat
           /\ SumOf(Held(seq, p), Singles(seq, p)) <= SumOf(Held(seq, p), Ids(seq))
           /\ (\A r \in Ids(seq) : ~Double(seq[r], p)) => Singles(seq, p) = Ids(seq)
<1>1. IsFiniteSet(Ids(seq))
  <2>1. IsFiniteSet(DOMAIN seq) /\ Ids(seq) \in SUBSET DOMAIN seq
    BY FS_Interval DEF Ids
  <2> QED BY <2>1, FS_Subset
<1>2. Singles(seq, p) \in SUBSET Ids(seq)
  BY DEF Singles
<1>3. \A r \in Ids(seq) : Held(seq, p)[r] \in Nat
  <2> SUFFICES ASSUME NEW r \in Ids(seq) PROVE Amount(seq[r], p) \in Nat
    BY DEF Held
  <2>1. seq[r] \in Seq(Line)
    BY DEF Ids, Reservation
  <2> QED BY <2>1, Priced
<1>4. (\A r \in Ids(seq) : ~Double(seq[r], p)) => Singles(seq, p) = Ids(seq)
  BY DEF Singles
<1> QED BY <1>1, <1>2, <1>3, <1>4, FS_Subset, SumOfSome

LEMMA HeldMore ==
    ASSUME NEW seq \in Seq(Reservation), NEW lines \in Seq(Line), NEW p
    PROVE  LET new == Append(seq, lines)
           IN  /\ SumOf(Held(new, p), Ids(new))
                     = Amount(lines, p) + SumOf(Held(seq, p), Ids(seq))
               /\ SumOf(Held(new, p), Singles(new, p))
                     = SumOf(Held(seq, p), Singles(seq, p))
                         + IF Double(lines, p) THEN 0 ELSE Amount(lines, p)
<1> DEFINE new == Append(seq, lines)
           n == Len(seq) + 1
<1>1. /\ lines # Released /\ n \notin Ids(seq) /\ new[n] = lines
      /\ \A r \in DOMAIN seq : new[r] = seq[r]
      /\ DOMAIN new = DOMAIN seq \union {n}
  <2>1. lines # Released
    BY CommerceAssumption
  <2> QED BY <2>1 DEF Ids
<1> HIDE DEF new
<1>2. /\ Ids(new) = Ids(seq) \union {n} /\ n \notin Singles(seq, p)
      /\ Singles(new, p) = Singles(seq, p) \union IF Double(lines, p) THEN {} ELSE {n}
  BY <1>1 DEF Ids, Singles
<1> HIDE DEF n
<1>3. /\ \A r \in Ids(seq) : Held(new, p)[r] = Held(seq, p)[r]
      /\ Held(new, p)[n] = Amount(lines, p)
  BY <1>1, <1>2 DEF Held, Ids
<1>4. /\ IsFiniteSet(Ids(seq)) /\ IsFiniteSet(Singles(seq, p))
      /\ \A r \in Ids(seq) : Held(seq, p)[r] \in Nat
      /\ SumOf(Held(seq, p), Singles(seq, p)) \in Nat
      /\ Singles(seq, p) \subseteq Ids(seq) /\ Amount(lines, p) \in Nat
  BY HeldIsNumber, Priced DEF Singles
<1>5. /\ SumOf(Held(new, p), Ids(seq)) = SumOf(Held(seq, p), Ids(seq))
      /\ SumOf(Held(new, p), Singles(seq, p)) = SumOf(Held(seq, p), Singles(seq, p))
  <2>1. \A r \in Singles(seq, p) : Held(new, p)[r] = Held(seq, p)[r]
    BY <1>3, <1>4
  <2> QED BY <1>3, <1>4, <2>1, SameSum
<1>6. /\ Held(new, p)[n] \in Int
      /\ \A r \in Ids(seq) : Held(new, p)[r] \in Int
      /\ \A r \in Singles(seq, p) : Held(new, p)[r] \in Int
  BY <1>3, <1>4
<1>7. SumOf(Held(new, p), Ids(seq) \union {n})
        = Held(new, p)[n] + SumOf(Held(new, p), Ids(seq))
  BY <1>1, <1>4, <1>6, SumWithOneMore DEF n
<1>8. SumOf(Held(new, p), Singles(seq, p) \union {n})
        = Held(new, p)[n] + SumOf(Held(new, p), Singles(seq, p))
  BY <1>2, <1>4, <1>6, SumWithOneMore
<1>9. SumOf(Held(new, p), Ids(new)) = Amount(lines, p) + SumOf(Held(seq, p), Ids(seq))
  BY <1>2, <1>3, <1>5, <1>7
<1>10. SumOf(Held(new, p), Singles(new, p))
         = SumOf(Held(seq, p), Singles(seq, p)) + IF Double(lines, p) THEN 0 ELSE Amount(lines, p)
  <2>1. CASE Double(lines, p)
    <3>1. Singles(new, p) = Singles(seq, p)
      BY <1>2, <2>1
    <3> QED BY <1>4, <1>5, <2>1, <3>1
  <2>2. CASE ~Double(lines, p)
    <3>1. Singles(new, p) = Singles(seq, p) \union {n}
      BY <1>2, <2>2
    <3> QED BY <1>3, <1>4, <1>5, <1>8, <2>2, <3>1
  <2> QED BY <2>1, <2>2
<1> QED BY <1>9, <1>10 DEF new

LEMMA HeldLess ==
    ASSUME NEW seq \in Seq(Reservation), NEW n \in Ids(seq), NEW p
    PROVE  LET new == [seq EXCEPT ![n] = Released]
           IN  /\ SumOf(Held(seq, p), Ids(seq))
                     = Amount(seq[n], p) + SumOf(Held(new, p), Ids(new))
               /\ SumOf(Held(new, p), Singles(new, p))
                     <= SumOf(Held(seq, p), Singles(seq, p))
<1> DEFINE new == [seq EXCEPT ![n] = Released]
<1>1. /\ new[n] = Released /\ DOMAIN new = DOMAIN seq /\ n \in DOMAIN seq
      /\ \A r \in DOMAIN seq : r # n => new[r] = seq[r]
  BY DEF Ids
<1> HIDE DEF new
<1>2. Ids(new) = Ids(seq) \ {n} /\ Singles(new, p) = Singles(seq, p) \ {n}
  BY <1>1 DEF Ids, Singles
<1>3. \A r \in Ids(new) : Held(new, p)[r] = Held(seq, p)[r]
  BY <1>1, <1>2 DEF Held, Ids
<1>4. /\ IsFiniteSet(Ids(seq)) /\ IsFiniteSet(Singles(seq, p))
      /\ \A r \in Ids(seq) : Held(seq, p)[r] \in Nat
      /\ Singles(seq, p) \subseteq Ids(seq)
  BY HeldIsNumber DEF Singles
<1>5. IsFiniteSet(Ids(new)) /\ IsFiniteSet(Singles(new, p))
  BY <1>2, <1>4, FS_RemoveElement
<1>6. /\ SumOf(Held(new, p), Ids(new)) = SumOf(Held(seq, p), Ids(new))
      /\ SumOf(Held(new, p), Singles(new, p)) = SumOf(Held(seq, p), Singles(new, p))
  <2>1. \A r \in Singles(new, p) : Held(new, p)[r] = Held(seq, p)[r]
    BY <1>2, <1>3, <1>4
  <2> QED BY <1>3, <1>5, <2>1, SameSum
<1>7. SumOf(Held(seq, p), Ids(seq))
        = Held(seq, p)[n] + SumOf(Held(seq, p), Ids(seq) \ {n})
  BY <1>4, SumWithoutOne
<1>8. SumOf(Held(seq, p), Singles(new, p)) <= SumOf(Held(seq, p), Singles(seq, p))
  <2>1. /\ Singles(new, p) \in SUBSET Singles(seq, p)
        /\ \A r \in Singles(seq, p) : Held(seq, p)[r] \in Nat
    BY <1>2, <1>4
  <2> QED BY <1>4, <2>1, SumOfSome
<1>9. Held(seq, p)[n] = Amount(seq[n], p)
  BY DEF Held
<1> QED BY <1>2, <1>6, <1>7, <1>8, <1>9 DEF new

LEMMA BudgetMore ==
    ASSUME NEW seq \in Seq(Nat \cup {Released}), NEW amount \in Nat
    PROVE  /\ SumOf(seq, Ids(seq)) \in Nat
           /\ LET new == Append(seq, amount)
              IN  SumOf(new, Ids(new)) = amount + SumOf(seq, Ids(seq))
<1> DEFINE new == Append(seq, amount)
           n == Len(seq) + 1
<1>1. /\ amount # Released /\ n \notin Ids(seq) /\ new[n] = amount
      /\ \A r \in DOMAIN seq : new[r] = seq[r]
      /\ DOMAIN new = DOMAIN seq \union {n}
  <2>1. amount # Released
    BY CommerceAssumption
  <2> QED BY <2>1 DEF Ids
<1> HIDE DEF new
<1>2. Ids(new) = Ids(seq) \union {n}
  BY <1>1 DEF Ids
<1>3. IsFiniteSet(Ids(seq))
  <2>1. IsFiniteSet(DOMAIN seq) /\ Ids(seq) \in SUBSET DOMAIN seq
    BY FS_Interval DEF Ids
  <2> QED BY <2>1, FS_Subset
<1>4. \A r \in Ids(seq) : seq[r] \in Nat /\ seq[r] \in Int /\ new[r] = seq[r]
  BY <1>1 DEF Ids
<1>5. SumOf(new, Ids(seq)) = SumOf(seq, Ids(seq))
  BY <1>3, <1>4, SameSum
<1>6. SumOf(seq, Ids(seq)) \in Nat
  BY <1>3, <1>4, SumIsNatural
<1>7. new[n] \in Int /\ \A r \in Ids(seq) : new[r] \in Int
  BY <1>1, <1>4
<1> HIDE DEF n
<1>8. SumOf(new, Ids(seq) \union {n}) = new[n] + SumOf(new, Ids(seq))
  BY <1>1, <1>3, <1>7, SumWithOneMore
<1> QED BY <1>1, <1>2, <1>5, <1>6, <1>8 DEF new

LEMMA BudgetLess ==
    ASSUME NEW seq \in Seq(Nat \cup {Released}), NEW n \in Ids(seq)
    PROVE  LET new == [seq EXCEPT ![n] = Released]
           IN  SumOf(seq, Ids(seq)) = seq[n] + SumOf(new, Ids(new))
<1> DEFINE new == [seq EXCEPT ![n] = Released]
<1>1. /\ new[n] = Released /\ DOMAIN new = DOMAIN seq /\ n \in DOMAIN seq
      /\ \A r \in DOMAIN seq : r # n => new[r] = seq[r]
  BY DEF Ids
<1> HIDE DEF new
<1>2. Ids(new) = Ids(seq) \ {n} /\ \A r \in Ids(new) : new[r] = seq[r]
  BY <1>1 DEF Ids
<1>3. IsFiniteSet(Ids(seq)) /\ \A r \in Ids(seq) : seq[r] \in Int
  <2>1. IsFiniteSet(DOMAIN seq) /\ Ids(seq) \in SUBSET DOMAIN seq
    BY FS_Interval DEF Ids
  <2>2. \A r \in Ids(seq) : seq[r] \in Nat
    BY DEF Ids
  <2> QED BY <2>1, <2>2, FS_Subset
<1>4. IsFiniteSet(Ids(new))
  BY <1>2, <1>3, FS_RemoveElement
<1>5. SumOf(new, Ids(new)) = SumOf(seq, Ids(new))
  BY <1>2, <1>4, SameSum
<1>6. SumOf(seq, Ids(seq)) = seq[n] + SumOf(seq, Ids(seq) \ {n})
  BY <1>3, SumWithoutOne
<1> QED BY <1>2, <1>5, <1>6 DEF new

BooksTyped ==
    /\ stock \in [Products -> Int] /\ reservations \in Seq(Reservation)
    /\ budget \in Int /\ budgetReservations \in Seq(Nat \cup {Released})

(* Reservations that hold a product once are in stock together: each was   *)
(* compared with what all those before it left.                            *)
SinglesFit ==
    \A p \in Products :
      SumOf(Held(reservations, p), Singles(reservations, p)) <= InitialStock[p]

Balance ==
    /\ \A p \in Products :
         stock[p] + SumOf(Held(reservations, p), Ids(reservations)) = InitialStock[p]
    /\ budget + SumOf(budgetReservations, Ids(budgetReservations)) = InitialBudget
    /\ budget >= 0

BooksKept == BooksTyped /\ Balance /\ SinglesFit

(* So the stock is there, but for reservations with a product twice.       *)
LEMMA KeptBooksBalance == BooksKept => BooksBalance
<1> SUFFICES ASSUME BooksKept PROVE BooksBalance
  OBVIOUS
<1>1. ASSUME NEW p \in Products
      PROVE  /\ stock[p] + Reserved(p) = InitialStock[p]
             /\ stock[p] >= 0 \/ \E r \in Ids(reservations) : Double(reservations[r], p)
  <2> DEFINE all == SumOf(Held(reservations, p), Ids(reservations))
  <2>1. /\ IsFiniteSet(Ids(reservations)) /\ all \in Nat
        /\ (\A r \in Ids(reservations) : ~Double(reservations[r], p))
             => Singles(reservations, p) = Ids(reservations)
    BY HeldIsNumber DEF BooksKept, BooksTyped
  <2>2. Reserved(p) = all
    BY <2>1, ReservedIsSum
  <2>3. stock[p] \in Int /\ InitialStock[p] \in Nat
    BY CommerceAssumption DEF BooksKept, BooksTyped
  <2>4. stock[p] + all = InitialStock[p]
    BY DEF BooksKept, Balance
  <2>5. ASSUME \A r \in Ids(reservations) : ~Double(reservations[r], p)
        PROVE  stock[p] >= 0
    <3>1. all <= InitialStock[p]
      BY <2>1, <2>5 DEF BooksKept, SinglesFit
    <3> HIDE DEF all
    <3> QED BY <2>1, <2>3, <2>4, <3>1
  <2> QED BY <2>2, <2>4, <2>5
<1>2. budget + BudgetReserved = InitialBudget /\ budget >= 0
  BY BudgetReservedIsSum DEF BooksKept, Balance
<1> QED BY <1>1, <1>2 DEF BooksBalance, Double

(* Every line was compared with the stock, if not the sum of them.         *)
LEMMA ReserveKeepsBooks ==
    ASSUME BooksKept, NEW n, calls[n].lines \in Seq(Line), Reserve(n)
    PROVE  BooksKept'
<1>1. PICK lines \in Seq(Line) : lines = calls[n].lines
  OBVIOUS
<1>2. /\ InStock(lines)
      /\ stock' = [p \in Products |-> stock[p] - Amount(lines, p)]
      /\ reservations' = Append(reservations, lines)
      /\ UNCHANGED <<budget, budgetReservations>>
  BY <1>1 DEF Reserve
<1>3. /\ reservations \in Seq(Reservation) /\ stock \in [Products -> Int]
      /\ \A p : Amount(lines, p) \in Nat
  BY Priced DEF BooksKept, BooksTyped
<1>4. BooksTyped'
  <2>1. reservations' \in Seq(Reservation)
    BY <1>2, <1>3 DEF Reservation
  <2>2. stock' \in [Products -> Int]
    BY <1>2, <1>3
  <2> QED BY <1>2, <2>1, <2>2 DEF BooksKept, BooksTyped
<1>5. ASSUME NEW p \in Products
      PROVE  /\ stock'[p] + SumOf(Held(reservations', p), Ids(reservations')) = InitialStock[p]
             /\ SumOf(Held(reservations', p), Singles(reservations', p)) <= InitialStock[p]
  <2> DEFINE all == SumOf(Held(reservations, p), Ids(reservations))
             singles == SumOf(Held(reservations, p), Singles(reservations, p))
             amount == Amount(lines, p)
  <2>1. /\ all \in Nat /\ singles \in Nat /\ singles <= all
        /\ amount \in Nat /\ stock[p] \in Int /\ InitialStock[p] \in Nat
        /\ stock[p] + all = InitialStock[p] /\ singles <= InitialStock[p]
    BY <1>3, HeldIsNumber, CommerceAssumption DEF BooksKept, Balance, SinglesFit
  <2>2. /\ SumOf(Held(reservations', p), Ids(reservations')) = amount + all
        /\ SumOf(Held(reservations', p), Singles(reservations', p))
              = singles + IF Double(lines, p) THEN 0 ELSE amount
    BY <1>2, <1>3, HeldMore
  <2>3. stock'[p] = stock[p] - amount
    BY <1>2
  <2>4. ~Double(lines, p) => amount = 0 \/ amount <= stock[p]
    BY <1>2, SingleAmount DEF InStock
  <2> HIDE DEF all, singles, amount
  <2> QED BY <2>1, <2>2, <2>3, <2>4
<1> QED BY <1>2, <1>4, <1>5 DEF BooksKept, Balance, SinglesFit

LEMMA ReleaseKeepsBooks ==
    ASSUME BooksKept, NEW r \in Ids(reservations), ReleaseInventory(r)
    PROVE  BooksKept'
<1>1. /\ stock' = [p \in Products |-> stock[p] + Amount(reservations[r], p)]
      /\ reservations' = [reservations EXCEPT ![r] = Released]
      /\ UNCHANGED <<budget, budgetReservations>>
  BY DEF ReleaseInventory, StockAfterRelease
<1>2. /\ reservations \in Seq(Reservation) /\ stock \in [Products -> Int]
      /\ \A p : Amount(reservations[r], p) \in Nat
  <2>1. reservations \in Seq(Reservation) /\ stock \in [Products -> Int]
    BY DEF BooksKept, BooksTyped
  <2>2. reservations[r] \in Seq(Line)
    BY <2>1 DEF Reservation, Ids
  <2> QED BY <2>1, <2>2, Priced
<1>3. BooksTyped'
  <2>1. reservations' \in Seq(Reservation)
    BY <1>1, <1>2 DEF Reservation, Ids
  <2>2. stock' \in [Products -> Int]
    BY <1>1, <1>2
  <2> QED BY <1>1, <2>1, <2>2 DEF BooksKept, BooksTyped
<1>4. ASSUME NEW p \in Products
      PROVE  /\ stock'[p] + SumOf(Held(reservations', p), Ids(reservations')) = InitialStock[p]
             /\ SumOf(Held(reservations', p), Singles(reservations', p)) <= InitialStock[p]
  <2> DEFINE all == SumOf(Held(reservations, p), Ids(reservations))
             singles == SumOf(Held(reservations, p), Singles(reservations, p))
             after == SumOf(Held(reservations', p), Ids(reservations'))
             fewer == SumOf(Held(reservations', p), Singles(reservations', p))
             amount == Amount(reservations[r], p)
  <2>1. /\ all \in Nat /\ singles \in Nat /\ after \in Nat /\ fewer \in Nat
        /\ amount \in Nat /\ stock[p] \in Int /\ InitialStock[p] \in Nat
        /\ stock[p] + all = InitialStock[p] /\ singles <= InitialStock[p]
    BY <1>2, <1>3, HeldIsNumber, CommerceAssumption
       DEF BooksKept, BooksTyped, Balance, SinglesFit
  <2>2. all = amount + after /\ fewer <= singles
    BY <1>1, <1>2, HeldLess
  <2>3. stock'[p] = stock[p] + amount
    BY <1>1
  <2> HIDE DEF all, singles, after, fewer, amount
  <2>4. stock'[p] + after = InitialStock[p] /\ fewer <= InitialStock[p]
    BY <2>1, <2>2, <2>3
  <2> QED BY <2>4 DEF after, fewer
<1> QED BY <1>1, <1>3, <1>4 DEF BooksKept, Balance, SinglesFit

LEMMA BudgetKeepsBooks ==
    ASSUME BooksKept,
           \/ \E n : calls[n].lines \in Seq(Line) /\ ReserveBudget(n)
           \/ \E r \in Ids(budgetReservations) : ReleaseBudget(r)
    PROVE  BooksKept'
<1>1. /\ budget \in Int /\ budgetReservations \in Seq(Nat \cup {Released})
      /\ budget + SumOf(budgetReservations, Ids(budgetReservations)) = InitialBudget
      /\ budget >= 0 /\ InitialBudget \in Nat
      /\ SumOf(budgetReservations, Ids(budgetReservations)) \in Nat
  BY CommerceAssumption, BudgetMore DEF BooksKept, BooksTyped, Balance
<1>2. UNCHANGED <<stock, reservations>>
  BY DEF ReserveBudget, ReleaseBudget
<1>3. ASSUME NEW n, calls[n].lines \in Seq(Line), ReserveBudget(n)
      PROVE  /\ budget' \in Int /\ budgetReservations' \in Seq(Nat \cup {Released})
             /\ budget' + SumOf(budgetReservations', Ids(budgetReservations')) = InitialBudget
             /\ budget' >= 0
  <2>1. PICK amount \in Nat : amount = Total(calls[n].lines)
    BY <1>3, Priced
  <2>2. /\ amount <= budget /\ budget' = budget - amount
        /\ budgetReservations' = Append(budgetReservations, amount)
    BY <1>3, <2>1 DEF ReserveBudget
  <2>3. SumOf(budgetReservations', Ids(budgetReservations'))
          = amount + SumOf(budgetReservations, Ids(budgetReservations))
    BY <1>1, <2>2, BudgetMore
  <2> QED BY <1>1, <2>2, <2>3
<1>4. ASSUME NEW r \in Ids(budgetReservations), ReleaseBudget(r)
      PROVE  /\ budget' \in Int /\ budgetReservations' \in Seq(Nat \cup {Released})
             /\ budget' + SumOf(budgetReservations', Ids(budgetReservations')) = InitialBudget
             /\ budget' >= 0
  <2>1. PICK amount \in Nat : amount = budgetReservations[r]
    BY <1>1 DEF Ids
  <2>2. /\ budget' = budget + amount
        /\ budgetReservations' = [budgetReservations EXCEPT ![r] = Released]
    BY <1>4, <2>1 DEF ReleaseBudget
  <2>3. budgetReservations' \in Seq(Nat \cup {Released})
    <3>1. r \in DOMAIN budgetReservations
      BY DEF Ids
    <3> QED BY <1>1, <2>2, <3>1
  <2>4. /\ SumOf(budgetReservations, Ids(budgetReservations))
             = amount + SumOf(budgetReservations', Ids(budgetReservations'))
        /\ SumOf(budgetReservations', Ids(budgetReservations')) \in Nat
    BY <1>1, <2>1, <2>2, <2>3, BudgetLess, BudgetMore
  <2> QED BY <1>1, <2>2, <2>3, <2>4
<1> QED BY <1>2, <1>3, <1>4 DEF BooksKept, BooksTyped, Balance, SinglesFit

-----------------------------------------------------------------------------
(* What the sandbox keeps, part by part.                                   *)
OrdersTyped ==
    /\ orders \in Seq(Order) /\ payments \in Seq(Payment)
    /\ ordered \in [Keys -> 0..Len(orders)]

CallsTyped ==
    /\ carts \in Seq(Cart) /\ quotes \in Seq(Quote) /\ calls \in Seq(Call)
    /\ overlapped \subseteq Keys

HoldsStock(r, lines) ==
    r \in DOMAIN reservations /\ reservations[r] \in {lines, Released}

HoldsBudget(r, lines) ==
    r \in DOMAIN budgetReservations /\ budgetReservations[r] \in {Total(lines), Released}

HasOrder(c) ==
    /\ c.flow # "quote"
    /\ c.at \in {"authorize", "capture", "approve", "confirm", "commit", "finish"}

(* The stages of the three kinds of checkout.                              *)
StageOK(c) ==
    /\ c.flow = "direct" =>
         c.at \in {"reserve", "order", "authorize", "capture", "confirm", "commit",
                   "finish", "finished", "failed"}
    /\ c.flow = "quote" =>
         c.at \in {"create", "send", "accept", "finish", "finished", "failed"}
    /\ c.flow = "approval" =>
         c.at \in {"price", "budget", "order", "approve", "confirm", "commit",
                   "finish", "finished", "failed"}

(* What a checkout has in hand: the reservation its order will name, lines *)
(* within the contract or a cart that was changed.                         *)
HandsOK(c) ==
    /\ c.cart \in DOMAIN carts
    /\ c.at = "order" => /\ c.flow = "direct" => HoldsStock(c.held, c.lines)
                         /\ c.flow = "approval" => HoldsBudget(c.held, c.lines)
    /\ c.at = "price" => /\ WithinContract(c.lines)
                         /\ c.stale \/ carts[c.cart].lines = c.lines
    /\ c.flow = "approval" /\ c.at \in {"budget", "order"} =>
         WithinContract(c.lines) \/ c.stale
    /\ c.at \in {"send", "accept"} => c.quote \in DOMAIN quotes

(* Its order: not confirmed before it has captured the payment.            *)
OwnOrderOK(c) ==
    /\ HasOrder(c) => /\ c.order \in DOMAIN orders
                      /\ orders[c.order].flow = c.flow /\ orders[c.order].key = c.key
                      /\ orders[c.order].held = c.held
    /\ c.flow = "direct" /\ c.at \in {"authorize", "capture"} =>
         orders[c.order].state \in {"payment_pending", "cancelled"}
    /\ c.flow = "direct" /\ c.at = "confirm" =>
         payments[orders[c.order].payment].state \in {"captured", "cancelled"}

Over(c) == c.at \in {"finished", "failed"}

(* A key that never overlapped has no order stored while a checkout runs.  *)
KeyOK(c) == c.flow = "direct" /\ ~Over(c) => c.key \in overlapped \/ ordered[c.key] = 0

CallOK(c) == StageOK(c) /\ HandsOK(c) /\ OwnOrderOK(c) /\ KeyOK(c)

Apart(c, d) ==
    /\ HasOrder(c) /\ HasOrder(d) => c.order # d.order
    /\ c.key = d.key /\ ~Over(c) /\ ~Over(d) => c.key \in overlapped

OrderOK(o) ==
    /\ o.payment \in 0..Len(payments)
    /\ o.flow = "direct" =>
         /\ HoldsStock(o.held, o.lines)
         /\ o.payment \in DOMAIN payments /\ payments[o.payment].amount = Total(o.lines)
         /\ o.state = "confirmed" => payments[o.payment].state \in {"captured", "cancelled"}
    /\ o.flow = "approval" =>
         HoldsBudget(o.held, o.lines) /\ (WithinContract(o.lines) \/ o.stale)

Firm(o) ==
    /\ orders[o].flow = "direct" /\ orders[o].state = "confirmed"
    /\ orders[o].key \notin overlapped /\ reservations[orders[o].held] # Released

Stores(c, o) == c.flow = "direct" /\ c.order = o /\ c.at \in {"commit", "finish"}

(* Of an order that is confirmed and has its stock, one learns by its key, *)
(* or its checkout is about to store it.                                   *)
FirmOrdersOK ==
    /\ \A o \in DOMAIN orders : Firm(o) =>
         \/ ordered[orders[o].key] # 0
         \/ \E n \in DOMAIN calls : Stores(calls[n], o)
    /\ \A o, u \in DOMAIN orders : Firm(o) /\ Firm(u) /\ orders[o].key = orders[u].key => o = u

PaymentsApart ==
    \A o, u \in DOMAIN orders :
      o # u /\ orders[o].flow = "direct" /\ orders[u].flow = "direct" =>
        orders[o].payment # orders[u].payment

CallsOK ==
    /\ \A n \in DOMAIN calls : CallOK(calls[n])
    /\ \A n, m \in DOMAIN calls : n # m => Apart(calls[n], calls[m])

OrdersOK == (\A o \in DOMAIN orders : OrderOK(orders[o])) /\ PaymentsApart /\ FirmOrdersOK

Traded == OrdersTyped /\ CallsTyped /\ CallsOK /\ OrdersOK

CommerceParts == BooksKept /\ Traded

LEMMA CallFacts ==
    ASSUME Traded, NEW n \in DOMAIN calls
    PROVE  /\ calls[n] \in Call /\ CallOK(calls[n]) /\ n \in 1..Len(calls)
           /\ calls[n].flow \in Flow /\ calls[n].key \in Keys /\ calls[n].lines \in Seq(Line)
           /\ calls[n].cart \in DOMAIN carts
<1>1. calls[n] \in Call /\ CallOK(calls[n]) /\ n \in 1..Len(calls)
  BY DEF Traded, CallsTyped, CallsOK
<1> QED BY <1>1 DEF Call, CallOK, HandsOK

(* A checkout that goes on to another stage.                               *)
LEMMA Moved ==
    ASSUME NEW c \in Call, NEW at \in Step
    PROVE  LET new == [c EXCEPT !.at = at]
           IN  /\ new \in Call /\ new.at = at /\ new.flow = c.flow /\ new.key = c.key
               /\ new.cart = c.cart /\ new.lines = c.lines /\ new.held = c.held
               /\ new.order = c.order /\ new.quote = c.quote /\ new.stale = c.stale
  BY DEF Call

(* A step of checkout n, of which the others keep what they rely on.       *)
LEMMA CallsFrame ==
    ASSUME Traded, NEW n \in DOMAIN calls, ~Over(calls[n]), NEW new \in Call,
           calls' = [calls EXCEPT ![n] = new],
           new.flow = calls[n].flow, new.key = calls[n].key, UNCHANGED overlapped,
           HasOrder(new) =>
             \/ new.order \notin DOMAIN orders
             \/ HasOrder(calls[n]) /\ new.order = calls[n].order,
           CallOK(new)',
           \A c : (\E m \in DOMAIN calls \ {n} : c = calls[m]) => CallOK(c)'
    PROVE  /\ calls' \in Seq(Call) /\ DOMAIN calls' = DOMAIN calls
           /\ calls'[n] = new /\ \A m \in DOMAIN calls \ {n} : calls'[m] = calls[m]
           /\ CallsOK'
<1>1. /\ calls' \in Seq(Call) /\ DOMAIN calls' = DOMAIN calls
      /\ calls'[n] = new /\ \A m \in DOMAIN calls \ {n} : calls'[m] = calls[m]
  BY DEF Traded, CallsTyped
<1>2. ASSUME NEW m \in DOMAIN calls' PROVE CallOK(calls[m])'
  <2>1. PICK c : c = calls'[m]
    OBVIOUS
  <2>2. CallOK(c)'
    BY <1>1, <2>1
  <2> QED BY <2>1, <2>2 DEF CallOK, StageOK, HandsOK, OwnOrderOK, KeyOK, HasOrder, Over,
                            HoldsStock, HoldsBudget, WithinContract
<1>3. ASSUME NEW m \in DOMAIN calls', NEW k \in DOMAIN calls', m # k
      PROVE  Apart(calls'[m], calls'[k])
  <2>1. \A i, j \in DOMAIN calls : i # j => Apart(calls[i], calls[j])
    BY DEF Traded, CallsOK
  <2>2. \A i \in DOMAIN calls : HasOrder(calls[i]) => calls[i].order \in DOMAIN orders
    BY DEF Traded, CallsOK, CallOK, OwnOrderOK
  <2>3. ASSUME NEW i \in DOMAIN calls \ {n}
        PROVE  Apart(new, calls[i]) /\ Apart(calls[i], new)
    BY <2>1, <2>2 DEF Apart
  <2> QED BY <1>1, <1>3, <2>1, <2>3
<1>4. \A m, k \in DOMAIN calls' : m # k => Apart(calls[m], calls[k])'
  BY <1>3 DEF Apart, HasOrder, Over
<1> QED BY <1>1, <1>2, <1>4 DEF CallsOK

(* Reservation are made and released, and do not change else.             *)
HoldsPersist ==
    /\ \A r \in DOMAIN reservations :
         r \in DOMAIN reservations' /\ reservations'[r] \in {reservations[r], Released}
    /\ \A r \in DOMAIN budgetReservations :
         /\ r \in DOMAIN budgetReservations'
         /\ budgetReservations'[r] \in {budgetReservations[r], Released}

LEMMA HoldsStay ==
    ASSUME HoldsPersist
    PROVE  /\ \A r, lines : HoldsStock(r, lines) => HoldsStock(r, lines)'
           /\ \A r, lines : HoldsBudget(r, lines) => HoldsBudget(r, lines)'
  BY DEF HoldsPersist, HoldsStock, HoldsBudget

LEMMA OthersStay ==
    ASSUME Traded, HoldsPersist,
           UNCHANGED <<carts, orders, payments, quotes, ordered, overlapped>>
    PROVE  /\ \A c : CallOK(c) => CallOK(c)'
           /\ \A o \in DOMAIN orders : OrderOK(orders[o])'
           /\ \A o \in DOMAIN orders : Firm(o)' => Firm(o)
<1>1. \A c : CallOK(c) => CallOK(c)'
  <2>1. \A c : HandsOK(c) => HandsOK(c)'
    BY HoldsStay DEF HandsOK, WithinContract
  <2>2. \A c : OwnOrderOK(c) /\ KeyOK(c) /\ StageOK(c)
              => OwnOrderOK(c)' /\ KeyOK(c)' /\ StageOK(c)'
    BY DEF OwnOrderOK, KeyOK, StageOK, HasOrder, Over
  <2> QED BY <2>1, <2>2 DEF CallOK
<1>2. ASSUME NEW o \in DOMAIN orders PROVE OrderOK(orders[o])'
  <2>1. OrderOK(orders[o])
    BY DEF Traded, OrdersOK
  <2> QED BY <2>1, HoldsStay DEF OrderOK, WithinContract
<1>3. ASSUME NEW o \in DOMAIN orders, Firm(o)' PROVE Firm(o)
  <2>1. orders[o].held \in DOMAIN reservations
    BY <1>3 DEF Traded, OrdersOK, OrderOK, HoldsStock, Firm
  <2> QED BY <1>3, <2>1 DEF Firm, HoldsPersist
<1> QED BY <1>1, <1>2, <1>3

(* Those that only go on to their next stage, perhaps with a reservation.  *)
LEMMA SoloStep ==
    ASSUME Traded, NEW n \in DOMAIN calls, ~Over(calls[n]), NEW new \in Call,
           calls' = [calls EXCEPT ![n] = new],
           new.flow = calls[n].flow, new.key = calls[n].key,
           HoldsPersist, UNCHANGED <<carts, orders, payments, quotes, ordered, overlapped>>,
           HasOrder(new) => HasOrder(calls[n]) /\ new.order = calls[n].order,
           StageOK(new), HandsOK(new)', OwnOrderOK(new),
           \A o \in DOMAIN orders : Stores(calls[n], o) /\ Firm(o) => Stores(new, o)
    PROVE  Traded'
<1>1. \A c : CallOK(c) => CallOK(c)'
  BY OthersStay
<1>2. CallOK(new)'
  <2>1. KeyOK(new)
    BY CallFacts DEF CallOK, KeyOK
  <2> QED BY <2>1 DEF CallOK, StageOK, OwnOrderOK, KeyOK, HasOrder, Over
<1>3. \A c : (\E m \in DOMAIN calls \ {n} : c = calls[m]) => CallOK(c)'
  BY <1>1 DEF Traded, CallsOK
<1>4. /\ calls' \in Seq(Call) /\ DOMAIN calls' = DOMAIN calls
      /\ calls'[n] = new /\ \A m \in DOMAIN calls \ {n} : calls'[m] = calls[m]
      /\ CallsOK'
  BY <1>2, <1>3, CallsFrame
<1>5. OrdersTyped' /\ CallsTyped'
  BY <1>4 DEF Traded, OrdersTyped, CallsTyped
<1>6. FirmOrdersOK'
  <2>1. \A o \in DOMAIN orders : Firm(o)' => Firm(o)
    BY OthersStay
  <2>2. ASSUME NEW o \in DOMAIN orders, Firm(o), ordered[orders[o].key] = 0
        PROVE  \E m \in DOMAIN calls' : Stores(calls'[m], o)
    <3>1. PICK m \in DOMAIN calls : Stores(calls[m], o)
      BY <2>2 DEF Traded, OrdersOK, FirmOrdersOK
    <3> QED BY <1>4, <2>2, <3>1
  <2>3. \A o \in DOMAIN orders : Firm(o) =>
          ordered[orders[o].key] # 0 \/ \E m \in DOMAIN calls' : Stores(calls[m], o)'
    BY <2>2 DEF Stores
  <2> QED BY <2>1, <2>3 DEF Traded, OrdersOK, FirmOrdersOK
<1>7. OrdersOK'
  BY <1>6, OthersStay DEF Traded, OrdersOK, PaymentsApart
<1> QED BY <1>4, <1>5, <1>7 DEF Traded

LEMMA FailsKeeps ==
    ASSUME Traded, NEW n \in DOMAIN calls, Fails(n), ~Over(calls[n]),
           \A o \in DOMAIN orders : Stores(calls[n], o) => ~Firm(o)
    PROVE  Traded'
<1>1. PICK c \in Call : c = calls[n]
  BY CallFacts
<1>2. PICK new : new = [c EXCEPT !.at = "failed"]
  OBVIOUS
<1>3. /\ new \in Call /\ new.at = "failed" /\ new.flow = c.flow /\ new.key = c.key
      /\ new.cart = c.cart
  <2>1. "failed" \in Step
    BY DEF Step
  <2> QED BY <1>2, <2>1, Moved
<1>4. /\ calls' = [calls EXCEPT ![n] = new]
      /\ UNCHANGED <<carts, books, orders, payments, quotes, ordered, overlapped>>
  BY <1>1, <1>2 DEF Fails, Goes
<1>5. ~HasOrder(new) /\ StageOK(new) /\ HandsOK(new)' /\ OwnOrderOK(new)
  BY <1>1, <1>3, <1>4, CallFacts DEF HasOrder, StageOK, HandsOK, OwnOrderOK
<1>6. HoldsPersist
  BY <1>4 DEF HoldsPersist, books
<1> QED BY <1>6, <1>1, <1>3, <1>4, <1>5, SoloStep

(* No hold of an order that commit finds released is a firm one's.         *)
LEMMA RefusedKeeps ==
    ASSUME Traded, NEW n \in DOMAIN calls, Refused(n)
    PROVE  Traded'
<1>1. Fails(n) /\ ~Over(calls[n])
  BY DEF Refused, ReserveRefused, PriceRefused, BudgetRefused, CaptureRefused,
         TransitionRefused, CommitRefused, AcceptRefused, At, Over
<1>2. ASSUME NEW o \in DOMAIN orders, Stores(calls[n], o) PROVE ~Firm(o)
  <2>1. CommitRefused(n)
    BY <1>2 DEF Stores, Refused, ReserveRefused, PriceRefused, BudgetRefused, CaptureRefused,
                TransitionRefused, AcceptRefused, At
  <2>2. calls[n].held \notin Ids(reservations)
    BY <1>2, <2>1 DEF CommitRefused, StillHeld, Stores
  <2>3. orders[o].held = calls[n].held /\ orders[o].flow = "direct"
    BY <1>2, CallFacts DEF CallOK, OwnOrderOK, HasOrder, Stores
  <2>4. orders[o].held \in DOMAIN reservations
    BY <2>3 DEF Traded, OrdersOK, OrderOK, HoldsStock
  <2> QED BY <2>2, <2>3, <2>4 DEF Firm, Ids
<1> QED BY <1>1, <1>2, FailsKeeps

(* The cart is priced as it is, which is as it was or after a change.      *)
LEMMA PriceApprovalKeeps ==
    ASSUME Traded, NEW n \in DOMAIN calls, PriceApproval(n)
    PROVE  Traded'
<1>1. PICK c \in Call : c = calls[n]
  BY CallFacts
<1>2. PICK lines : lines = carts[c.cart].lines
  OBVIOUS
<1>3. PICK new : new = [c EXCEPT !.at = "budget", !.lines = lines]
  OBVIOUS
<1>4. CallOK(c) /\ c.at = "price" /\ c.cart \in DOMAIN carts
  BY <1>1, CallFacts DEF PriceApproval, At
<1>5. lines \in Seq(Line)
  <2>1. carts[c.cart] \in Cart
    BY <1>4 DEF Traded, CallsTyped
  <2> QED BY <1>2, <2>1 DEF Cart
<1>6. /\ new \in Call /\ new.at = "budget" /\ new.flow = c.flow /\ new.key = c.key
      /\ new.cart = c.cart /\ new.lines = lines /\ new.stale = c.stale
  BY <1>3, <1>5 DEF Call, Step
<1>7. /\ calls' = [calls EXCEPT ![n] = new]
      /\ UNCHANGED <<carts, books, orders, payments, quotes, ordered, overlapped>>
  <2>1. calls' = [calls EXCEPT ![n].at = "budget", ![n].lines = lines]
    BY <1>1, <1>2 DEF PriceApproval
  <2>2. calls' = [calls EXCEPT ![n] = new]
    BY <1>1, <1>3, <2>1 DEF Traded, CallsTyped
  <2> QED BY <2>2 DEF PriceApproval
<1>8. StageOK(new) /\ OwnOrderOK(new) /\ ~HasOrder(new) /\ ~Over(c)
  BY <1>4, <1>6 DEF CallOK, StageOK, OwnOrderOK, HasOrder, Over
<1>9. HandsOK(new)'
  BY <1>2, <1>4, <1>6, <1>7 DEF CallOK, HandsOK, WithinContract
<1>11. HoldsPersist
  BY <1>7 DEF HoldsPersist, books
<1>10. \A o : ~Stores(c, o)
  BY <1>4 DEF Stores
<1> QED BY <1>1, <1>6, <1>7, <1>8, <1>9, <1>10, <1>11, SoloStep

LEMMA CommitKeeps ==
    ASSUME Traded, NEW n \in DOMAIN calls, Commit(n)
    PROVE  Traded'
<1>1. PICK c \in Call : c = calls[n]
  BY CallFacts
<1>2. PICK new : new = [c EXCEPT !.at = "finish"]
  OBVIOUS
<1>3. CallOK(c) /\ c.at = "commit"
  BY <1>1, CallFacts DEF Commit, At
<1>4. /\ new \in Call /\ new.at = "finish" /\ new.flow = c.flow /\ new.key = c.key
      /\ new.cart = c.cart /\ new.order = c.order /\ new.held = c.held
  <2>1. "finish" \in Step
    BY DEF Step
  <2> QED BY <1>2, <2>1, Moved
<1>5. /\ calls' = [calls EXCEPT ![n] = new]
      /\ UNCHANGED <<carts, books, orders, payments, quotes, ordered, overlapped>>
  BY <1>1, <1>2 DEF Commit, Goes
<1>6. StageOK(new) /\ HandsOK(new)' /\ ~Over(c) /\ HoldsPersist
  BY <1>3, <1>4, <1>5 DEF CallOK, StageOK, HandsOK, Over, HoldsPersist, books
<1>7. OwnOrderOK(new) /\ (HasOrder(new) => HasOrder(c))
  BY <1>3, <1>4 DEF CallOK, OwnOrderOK, HasOrder
<1>8. \A o : Stores(c, o) => Stores(new, o)
  BY <1>4 DEF Stores
<1> QED BY <1>1, <1>4, <1>5, <1>6, <1>7, <1>8, SoloStep

LEMMA ReserveKeeps ==
    ASSUME Traded, BooksTyped, NEW n \in DOMAIN calls, Reserve(n)
    PROVE  Traded'
<1>1. PICK c \in Call : c = calls[n]
  BY CallFacts
<1>2. PICK held \in Nat : held = Len(reservations) + 1
  BY DEF BooksTyped
<1>3. PICK new : new = [c EXCEPT !.at = "order", !.held = held]
  OBVIOUS
<1>4. CallOK(c) /\ c.at = "reserve" /\ c.flow = "direct"
  <2>1. CallOK(c) /\ c.at = "reserve" /\ c.flow \in Flow
    BY <1>1, CallFacts DEF Reserve, At
  <2> QED BY <2>1 DEF CallOK, StageOK, Flow
<1>5. /\ new \in Call /\ new.at = "order" /\ new.flow = c.flow /\ new.key = c.key
      /\ new.cart = c.cart /\ new.lines = c.lines /\ new.held = held
  BY <1>3 DEF Call, Step
<1>6. /\ calls' = [calls EXCEPT ![n] = new]
      /\ reservations' = Append(reservations, c.lines)
      /\ UNCHANGED <<carts, budgetReservations, orders, payments, quotes, ordered, overlapped>>
  <2>1. calls' = [calls EXCEPT ![n].at = "order", ![n].held = held]
    BY <1>1, <1>2 DEF Reserve
  <2>2. calls' = [calls EXCEPT ![n] = new]
    BY <1>1, <1>3, <2>1 DEF Traded, CallsTyped
  <2> QED BY <1>1, <2>2 DEF Reserve
<1>7. HoldsPersist /\ held \in DOMAIN reservations' /\ reservations'[held] = c.lines
  BY <1>2, <1>6 DEF HoldsPersist, BooksTyped
<1>8. StageOK(new) /\ OwnOrderOK(new) /\ ~HasOrder(new) /\ ~Over(c)
  BY <1>4, <1>5 DEF StageOK, OwnOrderOK, HasOrder, Over
<1>9. HandsOK(new)'
  BY <1>4, <1>5, <1>6, <1>7 DEF CallOK, HandsOK, HoldsStock
<1>10. \A o : ~Stores(c, o)
  BY <1>4 DEF Stores
<1> QED BY <1>1, <1>5, <1>6, <1>7, <1>8, <1>9, <1>10, SoloStep

LEMMA ReserveBudgetKeeps ==
    ASSUME Traded, BooksTyped, NEW n \in DOMAIN calls, ReserveBudget(n)
    PROVE  Traded'
<1>1. PICK c \in Call : c = calls[n]
  BY CallFacts
<1>2. PICK held \in Nat : held = Len(budgetReservations) + 1
  BY DEF BooksTyped
<1>3. PICK new : new = [c EXCEPT !.at = "order", !.held = held]
  OBVIOUS
<1>4. CallOK(c) /\ c.at = "budget" /\ c.flow = "approval"
  <2>1. CallOK(c) /\ c.at = "budget" /\ c.flow \in Flow
    BY <1>1, CallFacts DEF ReserveBudget, At
  <2> QED BY <2>1 DEF CallOK, StageOK, Flow
<1>5. /\ new \in Call /\ new.at = "order" /\ new.flow = c.flow /\ new.key = c.key
      /\ new.cart = c.cart /\ new.lines = c.lines /\ new.held = held /\ new.stale = c.stale
  BY <1>3 DEF Call, Step
<1>6. /\ calls' = [calls EXCEPT ![n] = new]
      /\ budgetReservations' = Append(budgetReservations, Total(c.lines))
      /\ UNCHANGED <<carts, reservations, orders, payments, quotes, ordered, overlapped>>
  <2>1. calls' = [calls EXCEPT ![n].at = "order", ![n].held = held]
    BY <1>1, <1>2 DEF ReserveBudget
  <2>2. calls' = [calls EXCEPT ![n] = new]
    BY <1>1, <1>3, <2>1 DEF Traded, CallsTyped
  <2> QED BY <1>1, <2>2 DEF ReserveBudget
<1>7. /\ HoldsPersist /\ held \in DOMAIN budgetReservations'
      /\ budgetReservations'[held] = Total(c.lines)
  BY <1>2, <1>6 DEF HoldsPersist, BooksTyped
<1>8. StageOK(new) /\ OwnOrderOK(new) /\ ~HasOrder(new) /\ ~Over(c)
  BY <1>4, <1>5 DEF StageOK, OwnOrderOK, HasOrder, Over
<1>9. HandsOK(new)'
  BY <1>4, <1>5, <1>6, <1>7 DEF CallOK, HandsOK, HoldsBudget, WithinContract
<1>10. \A o : ~Stores(c, o)
  BY <1>4 DEF Stores
<1> QED BY <1>1, <1>5, <1>6, <1>7, <1>8, <1>9, <1>10, SoloStep

(* Who releases a reservation takes firmness from an order and no more.    *)
LEMMA ReleasesKeep ==
    ASSUME Traded, BooksTyped,
           \/ \E r \in Ids(reservations) : ReleaseInventory(r)
           \/ \E r \in Ids(budgetReservations) : ReleaseBudget(r)
    PROVE  Traded'
<1>1. UNCHANGED <<carts, orders, payments, quotes, ordered, calls, overlapped>>
  BY DEF ReleaseInventory, ReleaseBudget
<1>2. HoldsPersist
  <2>1. ASSUME NEW r \in Ids(reservations), ReleaseInventory(r) PROVE HoldsPersist
    BY <2>1 DEF ReleaseInventory, HoldsPersist, Ids
  <2>2. ASSUME NEW r \in Ids(budgetReservations), ReleaseBudget(r) PROVE HoldsPersist
    BY <2>2 DEF ReleaseBudget, HoldsPersist, Ids
  <2> QED BY <2>1, <2>2
<1>3. /\ \A c : CallOK(c) => CallOK(c)'
      /\ \A o \in DOMAIN orders : OrderOK(orders[o])'
      /\ \A o \in DOMAIN orders : Firm(o)' => Firm(o)
  BY <1>1, <1>2, OthersStay
<1>4. CallsOK'
  <2>1. ASSUME NEW m \in DOMAIN calls' PROVE CallOK(calls[m])'
    <3>1. PICK c : c = calls[m]
      OBVIOUS
    <3>2. CallOK(c)' /\ calls'[m] = c
      BY <1>1, <1>3, <3>1 DEF Traded, CallsOK
    <3> QED BY <3>2 DEF CallOK, StageOK, HandsOK, OwnOrderOK, KeyOK, HasOrder, Over,
                        HoldsStock, HoldsBudget, WithinContract
  <2> QED BY <1>1, <2>1 DEF Traded, CallsOK, Apart, HasOrder, Over
<1>5. FirmOrdersOK'
  BY <1>1, <1>3 DEF Traded, OrdersOK, FirmOrdersOK, Stores
<1> QED BY <1>1, <1>3, <1>4, <1>5
        DEF Traded, OrdersTyped, CallsTyped, OrdersOK, PaymentsApart

(* What is kept as it is, or grows.                                        *)
Grows ==
    /\ \A k \in DOMAIN carts : k \in DOMAIN carts' /\ carts'[k].lines = carts[k].lines
    /\ \A q \in DOMAIN quotes : q \in DOMAIN quotes'
    /\ \A o \in DOMAIN orders : o \in DOMAIN orders' /\ orders'[o] = orders[o]
    /\ \A p \in DOMAIN payments : p \in DOMAIN payments' /\ payments'[p] = payments[p]
    /\ Len(payments) <= Len(payments')
    /\ overlapped \subseteq overlapped' /\ UNCHANGED ordered

LEMMA CallsGrow ==
    ASSUME Traded, HoldsPersist, Grows
    PROVE  \A c : (\E m \in DOMAIN calls : c = calls[m]) => CallOK(c)'
<1> SUFFICES ASSUME NEW c, NEW m \in DOMAIN calls, c = calls[m] PROVE CallOK(c)'
  OBVIOUS
<1>1. CallOK(c)
  BY DEF Traded, CallsOK
<1>2. HandsOK(c)'
  BY <1>1, HoldsStay DEF CallOK, HandsOK, WithinContract, Grows
<1>3. OwnOrderOK(c)'
  <2>1. OwnOrderOK(c)
    BY <1>1 DEF CallOK
  <2>2. HasOrder(c) => c.order \in DOMAIN orders /\ orders'[c.order] = orders[c.order]
                       /\ c.order \in DOMAIN orders' /\ orders[c.order].flow = c.flow
    BY <2>1 DEF OwnOrderOK, Grows
  <2>3. c.flow = "direct" /\ c.at = "confirm" =>
          payments'[orders'[c.order].payment] = payments[orders[c.order].payment]
    <3>1. \A o \in DOMAIN orders :
            orders[o].flow = "direct" => orders[o].payment \in DOMAIN payments
      BY DEF Traded, OrdersOK, OrderOK
    <3> QED BY <2>2, <3>1 DEF HasOrder, Grows
  <2>4. c.flow = "direct" /\ c.at \in {"authorize", "capture"} =>
          orders'[c.order].state = orders[c.order].state
    BY <2>2 DEF HasOrder
  <2> QED BY <2>1, <2>2, <2>3, <2>4 DEF OwnOrderOK, HasOrder
<1>4. KeyOK(c)' /\ StageOK(c)'
  BY <1>1 DEF CallOK, KeyOK, StageOK, Over, Grows
<1> QED BY <1>2, <1>3, <1>4 DEF CallOK

LEMMA OrdersGrow ==
    ASSUME Traded, HoldsPersist, Grows
    PROVE  \A o \in DOMAIN orders : OrderOK(orders[o])'
<1> SUFFICES ASSUME NEW o \in DOMAIN orders PROVE OrderOK(orders[o])'
  OBVIOUS
<1>1. PICK order : order = orders[o] /\ order = orders'[o]
  BY DEF Grows
<1>2. OrderOK(order)
  BY <1>1 DEF Traded, OrdersOK
<1>3. OrderOK(order)'
  BY <1>2, HoldsStay DEF OrderOK, WithinContract, Grows, Traded, OrdersTyped
<1> QED BY <1>1, <1>3 DEF OrderOK, HoldsStock, HoldsBudget, WithinContract

LEMMA FirmGrow ==
    ASSUME Traded, HoldsPersist, Grows,
           \A o \in DOMAIN orders' : o \notin DOMAIN orders => ~Firm(o)',
           \A m \in DOMAIN calls, o \in DOMAIN orders :
             Stores(calls[m], o) => m \in DOMAIN calls' /\ Stores(calls'[m], o)
    PROVE  FirmOrdersOK'
<1>1. ASSUME NEW o \in DOMAIN orders', Firm(o)'
      PROVE  o \in DOMAIN orders /\ Firm(o) /\ orders'[o] = orders[o]
  <2>1. o \in DOMAIN orders /\ orders'[o] = orders[o]
    BY <1>1 DEF Grows
  <2>2. orders[o].held \in DOMAIN reservations
    BY <1>1, <2>1 DEF Traded, OrdersOK, OrderOK, HoldsStock, Firm
  <2> QED BY <1>1, <2>1, <2>2 DEF Firm, HoldsPersist, Grows
<1>2. ASSUME NEW o \in DOMAIN orders', Firm(o)', ordered'[orders'[o].key] = 0
      PROVE  \E n \in DOMAIN calls' : Stores(calls'[n], o)
  <2>1. PICK n \in DOMAIN calls : Stores(calls[n], o)
    BY <1>1, <1>2 DEF Traded, OrdersOK, FirmOrdersOK, Grows
  <2> QED BY <1>1, <1>2, <2>1
<1>3. \A o, u \in DOMAIN orders : Firm(o) /\ Firm(u) /\ orders[o].key = orders[u].key => o = u
  BY DEF Traded, OrdersOK, FirmOrdersOK
<1>4. \A o \in DOMAIN orders' : Firm(o)' =>
        \/ ordered'[orders'[o].key] # 0
        \/ \E n \in DOMAIN calls' : Stores(calls[n], o)'
  BY <1>2 DEF Stores
<1> QED BY <1>1, <1>3, <1>4 DEF FirmOrdersOK

(* The calls are as they were.                                             *)
LEMMA CallsStay ==
    ASSUME Traded, UNCHANGED <<calls, overlapped>>,
           \A c : (\E m \in DOMAIN calls : c = calls[m]) => CallOK(c)'
    PROVE  CallsOK'
<1>1. ASSUME NEW m \in DOMAIN calls' PROVE CallOK(calls[m])'
  <2>1. PICK c : c = calls[m] /\ c = calls'[m]
    OBVIOUS
  <2>2. CallOK(c)'
    BY <2>1
  <2> QED BY <2>1, <2>2 DEF CallOK, StageOK, HandsOK, OwnOrderOK, KeyOK, HasOrder, Over,
                            HoldsStock, HoldsBudget, WithinContract
<1> QED BY <1>1 DEF Traded, CallsOK, Apart, HasOrder, Over

(* One lemma per action from here on.                                      *)
LEMMA CreateCartKeeps ==
    ASSUME Traded, CreateCart
    PROVE  Traded'
<1>1. /\ carts' = Append(carts, [open |-> TRUE, lines |-> <<>>])
      /\ UNCHANGED <<books, orders, payments, quotes, ordered, calls, overlapped>>
  BY DEF CreateCart
<1>2. carts' \in Seq(Cart)
  <2>1. [open |-> TRUE, lines |-> <<>>] \in Cart
    BY DEF Cart
  <2> QED BY <1>1, <2>1 DEF Traded, CallsTyped
<1>3. HoldsPersist /\ Grows
  BY <1>1 DEF HoldsPersist, Grows, books, Traded, CallsTyped, OrdersTyped
<1>4. CallsOK' /\ FirmOrdersOK'
  BY <1>1, <1>3, CallsGrow, CallsStay, FirmGrow
<1> QED BY <1>1, <1>2, <1>3, <1>4, OrdersGrow
        DEF Traded, OrdersTyped, CallsTyped, OrdersOK, PaymentsApart

LEMMA ClientRejectsKeeps ==
    ASSUME Traded, NEW q \in DOMAIN quotes, ClientRejects(q)
    PROVE  Traded'
<1>1. /\ quotes' = [quotes EXCEPT ![q].state = "rejected"]
      /\ UNCHANGED <<carts, books, orders, payments, ordered, calls, overlapped>>
  BY DEF ClientRejects
<1>2. quotes' \in Seq(Quote) /\ DOMAIN quotes' = DOMAIN quotes
  <2>1. quotes \in Seq(Quote) /\ quotes[q] \in Quote
    BY DEF Traded, CallsTyped
  <2>2. [quotes[q] EXCEPT !.state = "rejected"] \in Quote
    BY <2>1 DEF Quote
  <2> QED BY <1>1, <2>1, <2>2
<1>3. HoldsPersist /\ Grows
  BY <1>1, <1>2 DEF HoldsPersist, Grows, books, Traded, CallsTyped, OrdersTyped
<1>4. CallsOK' /\ FirmOrdersOK'
  BY <1>1, <1>3, CallsGrow, CallsStay, FirmGrow
<1> QED BY <1>1, <1>2, <1>3, <1>4, OrdersGrow
        DEF Traded, OrdersTyped, CallsTyped, OrdersOK, PaymentsApart

(* A step of checkout n that adds to what there is.                        *)
LEMMA GrowStep ==
    ASSUME Traded, NEW n \in DOMAIN calls, ~Over(calls[n]), NEW new \in Call,
           calls' = [calls EXCEPT ![n] = new],
           new.flow = calls[n].flow, new.key = calls[n].key,
           HoldsPersist, Grows, UNCHANGED overlapped, CallOK(new)',
           HasOrder(new) => new.order \notin DOMAIN orders,
           ~HasOrder(calls[n]),
           \A o \in DOMAIN orders' : o \notin DOMAIN orders => ~Firm(o)'
    PROVE  calls' \in Seq(Call) /\ CallsOK' /\ FirmOrdersOK'
<1>1. /\ calls' \in Seq(Call) /\ DOMAIN calls' = DOMAIN calls
      /\ calls'[n] = new /\ \A m \in DOMAIN calls \ {n} : calls'[m] = calls[m]
      /\ CallsOK'
  BY CallsGrow, CallsFrame
<1>2. \A o : ~Stores(calls[n], o)
  BY DEF Stores, HasOrder
<1>3. \A m \in DOMAIN calls, o \in DOMAIN orders :
        Stores(calls[m], o) => m \in DOMAIN calls' /\ Stores(calls'[m], o)
  BY <1>1, <1>2
<1> QED BY <1>1, <1>3, FirmGrow

LEMMA CreateQuoteKeeps ==
    ASSUME Traded, NEW n \in DOMAIN calls, CreateQuote(n)
    PROVE  Traded'
<1>1. PICK c \in Call : c = calls[n]
  BY CallFacts
<1>2. PICK id \in Nat : id = Len(quotes) + 1
  BY DEF Traded, CallsTyped
<1>3. PICK new : new = [c EXCEPT !.at = "send", !.quote = id]
  OBVIOUS
<1>4. CallOK(c) /\ c.at = "create" /\ c.lines \in Seq(Line) /\ c.key \in Keys
  BY <1>1, CallFacts DEF CreateQuote, At
<1>5. /\ new \in Call /\ new.at = "send" /\ new.flow = c.flow /\ new.key = c.key
      /\ new.cart = c.cart /\ new.quote = id
  BY <1>3 DEF Call, Step
<1>6. /\ calls' = [calls EXCEPT ![n] = new]
      /\ quotes' = Append(quotes, [lines |-> c.lines, key |-> c.key, state |-> "draft"])
      /\ UNCHANGED <<carts, books, orders, payments, ordered, overlapped>>
  <2>1. calls' = [calls EXCEPT ![n].at = "send", ![n].quote = id]
    BY <1>1, <1>2 DEF CreateQuote
  <2>2. calls' = [calls EXCEPT ![n] = new]
    BY <1>1, <1>3, <2>1 DEF Traded, CallsTyped
  <2> QED BY <1>1, <2>2 DEF CreateQuote
<1>7. quotes' \in Seq(Quote) /\ id \in DOMAIN quotes'
  <2>1. [lines |-> c.lines, key |-> c.key, state |-> "draft"] \in Quote
    BY <1>4 DEF Quote
  <2> QED BY <1>2, <1>6, <2>1 DEF Traded, CallsTyped
<1>8. HoldsPersist /\ Grows
  BY <1>6 DEF HoldsPersist, Grows, books, Traded, CallsTyped, OrdersTyped
<1>9. CallOK(new)' /\ ~HasOrder(new) /\ ~HasOrder(c) /\ ~Over(c)
  BY <1>4, <1>5, <1>6, <1>7
     DEF CallOK, StageOK, HandsOK, OwnOrderOK, KeyOK, HasOrder, Over
<1>10. calls' \in Seq(Call) /\ CallsOK' /\ FirmOrdersOK'
  BY <1>1, <1>5, <1>6, <1>8, <1>9, GrowStep
<1> QED BY <1>6, <1>7, <1>8, <1>10, OrdersGrow
        DEF Traded, OrdersTyped, CallsTyped, OrdersOK, PaymentsApart

LEMMA SendQuoteKeeps ==
    ASSUME Traded, NEW n \in DOMAIN calls, SendQuote(n)
    PROVE  Traded'
<1>1. PICK c \in Call : c = calls[n]
  BY CallFacts
<1>2. PICK new : new = [c EXCEPT !.at = "accept"]
  OBVIOUS
<1>3. CallOK(c) /\ c.at = "send" /\ c.quote \in DOMAIN quotes
  BY <1>1, CallFacts DEF SendQuote, At, CallOK, HandsOK
<1>4. /\ new \in Call /\ new.at = "accept" /\ new.flow = c.flow /\ new.key = c.key
      /\ new.cart = c.cart /\ new.quote = c.quote
  <2>1. "accept" \in Step
    BY DEF Step
  <2> QED BY <1>2, <2>1, Moved
<1>5. /\ calls' = [calls EXCEPT ![n] = new]
      /\ quotes' = [quotes EXCEPT ![c.quote].state = "sent"]
      /\ UNCHANGED <<carts, books, orders, payments, ordered, overlapped>>
  BY <1>1, <1>2 DEF SendQuote, Goes
<1>6. quotes' \in Seq(Quote) /\ DOMAIN quotes' = DOMAIN quotes
  <2>1. quotes \in Seq(Quote)
    BY DEF Traded, CallsTyped
  <2>2. quotes[c.quote] \in Quote
    BY <1>3, <2>1
  <2>3. [quotes[c.quote] EXCEPT !.state = "sent"] \in Quote
    BY <2>2 DEF Quote
  <2> QED BY <1>3, <1>5, <2>1, <2>3
<1>7. HoldsPersist /\ Grows
  BY <1>5, <1>6 DEF HoldsPersist, Grows, books, Traded, CallsTyped, OrdersTyped
<1>8. CallOK(new)' /\ ~HasOrder(new) /\ ~HasOrder(c) /\ ~Over(c)
  BY <1>3, <1>4, <1>5, <1>6
     DEF CallOK, StageOK, HandsOK, OwnOrderOK, KeyOK, HasOrder, Over
<1>9. calls' \in Seq(Call) /\ CallsOK' /\ FirmOrdersOK'
  BY <1>1, <1>4, <1>5, <1>7, <1>8, GrowStep
<1> QED BY <1>5, <1>6, <1>7, <1>9, OrdersGrow
        DEF Traded, OrdersTyped, CallsTyped, OrdersOK, PaymentsApart

(* The order of a quote names no reservation and no payment.               *)
LEMMA AcceptedQuote ==
    ASSUME Traded, NEW q \in DOMAIN quotes, AcceptQuote(q),
           UNCHANGED <<carts, books, payments, ordered, overlapped>>
    PROVE  /\ HoldsPersist /\ Grows /\ quotes' \in Seq(Quote) /\ OrdersTyped'
           /\ \A o \in DOMAIN orders' : o \notin DOMAIN orders => ~Firm(o)'
           /\ \A o \in DOMAIN orders' : OrderOK(orders[o])'
           /\ PaymentsApart'
<1> DEFINE new == [flow |-> "quote", key |-> quotes[q].key, state |-> "confirmed",
                   lines |-> quotes[q].lines, held |-> 0, payment |-> 0, stale |-> FALSE]
<1>1. /\ quotes' = [quotes EXCEPT ![q].state = "converted"]
      /\ orders' = IF SomeCartIsOpen THEN Append(orders, new) ELSE orders
  BY DEF AcceptQuote
<1>2. quotes \in Seq(Quote) /\ quotes[q] \in Quote
  BY DEF Traded, CallsTyped
<1>3. quotes' \in Seq(Quote) /\ DOMAIN quotes' = DOMAIN quotes
  <2>1. [quotes[q] EXCEPT !.state = "converted"] \in Quote
    BY <1>2 DEF Quote
  <2> QED BY <1>1, <1>2, <2>1
<1>4. new \in Order /\ new.flow = "quote" /\ new.payment = 0
  BY <1>2 DEF Quote, Order, Flow, OrderState
<1> HIDE DEF new
<1>5. /\ orders \in Seq(Order) /\ orders' \in Seq(Order) /\ Len(orders) <= Len(orders')
      /\ \A o \in DOMAIN orders : o \in DOMAIN orders' /\ orders'[o] = orders[o]
      /\ \A o \in DOMAIN orders' : o \notin DOMAIN orders => orders'[o] = new
  BY <1>1, <1>4 DEF Traded, OrdersTyped
<1>6. HoldsPersist /\ Grows
  BY <1>3, <1>5 DEF HoldsPersist, Grows, books, Traded, CallsTyped, OrdersTyped
<1>7. ASSUME NEW o \in DOMAIN orders', o \notin DOMAIN orders
      PROVE  ~Firm(o)' /\ OrderOK(orders[o])'
  <2>1. orders'[o] = new
    BY <1>5, <1>7
  <2> QED BY <1>4, <2>1 DEF Firm, OrderOK, Traded, OrdersTyped
<1>8. \A o \in DOMAIN orders' : OrderOK(orders[o])'
  BY <1>5, <1>6, <1>7, OrdersGrow
<1>9. PaymentsApart'
  BY <1>4, <1>5 DEF Traded, OrdersOK, PaymentsApart
<1>10. OrdersTyped'
  BY <1>5 DEF Traded, OrdersTyped
<1> QED BY <1>3, <1>6, <1>7, <1>8, <1>9, <1>10

LEMMA ClientAcceptsKeeps ==
    ASSUME Traded, NEW q \in DOMAIN quotes, ClientAccepts(q)
    PROVE  Traded'
<1>1. AcceptQuote(q) /\ UNCHANGED <<carts, books, payments, ordered, calls, overlapped>>
  BY DEF ClientAccepts
<1>2. CallsOK' /\ FirmOrdersOK'
  BY <1>1, AcceptedQuote, CallsGrow, CallsStay, FirmGrow
<1> QED BY <1>1, <1>2, AcceptedQuote DEF Traded, CallsTyped, OrdersOK

LEMMA AcceptKeeps ==
    ASSUME Traded, NEW n \in DOMAIN calls, Accept(n)
    PROVE  Traded'
<1>1. PICK c \in Call : c = calls[n]
  BY CallFacts
<1>2. PICK at \in {"finish", "failed"} : at = IF SomeCartIsOpen THEN "finish" ELSE "failed"
  OBVIOUS
<1>3. PICK new : new = [c EXCEPT !.at = at]
  OBVIOUS
<1>4. CallOK(c) /\ c.at = "accept" /\ c.flow = "quote" /\ c.quote \in DOMAIN quotes
  <2>1. CallOK(c) /\ c.at = "accept" /\ c.flow \in Flow
    BY <1>1, CallFacts DEF Accept, At
  <2> QED BY <2>1 DEF CallOK, StageOK, HandsOK, Flow
<1>5. /\ new \in Call /\ new.at = at /\ new.flow = c.flow /\ new.key = c.key
      /\ new.cart = c.cart
  <2>1. at \in Step
    BY DEF Step
  <2> QED BY <1>3, <2>1, Moved
<1>6. /\ calls' = [calls EXCEPT ![n] = new] /\ AcceptQuote(c.quote)
      /\ UNCHANGED <<carts, books, payments, ordered, overlapped>>
  BY <1>1, <1>2, <1>3 DEF Accept, Goes
<1>7. /\ HoldsPersist /\ Grows /\ quotes' \in Seq(Quote) /\ OrdersTyped'
      /\ \A o \in DOMAIN orders' : o \notin DOMAIN orders => ~Firm(o)'
      /\ (\A o \in DOMAIN orders' : OrderOK(orders[o])') /\ PaymentsApart'
  BY <1>4, <1>6, AcceptedQuote
<1>8. CallOK(new)' /\ ~HasOrder(new) /\ ~HasOrder(c) /\ ~Over(c)
  BY <1>4, <1>5, <1>6 DEF CallOK, StageOK, HandsOK, OwnOrderOK, KeyOK, HasOrder, Over
<1>9. calls' \in Seq(Call) /\ CallsOK' /\ FirmOrdersOK'
  BY <1>1, <1>5, <1>6, <1>7, <1>8, GrowStep
<1> QED BY <1>6, <1>7, <1>9 DEF Traded, CallsTyped, OrdersOK

LEMMA CreateOrderKeeps ==
    ASSUME Traded, NEW n \in DOMAIN calls, CreateOrder(n)
    PROVE  Traded'
<1>1. PICK c \in Call : c = calls[n]
  BY CallFacts
<1>2. PICK id \in Nat : id = Len(orders) + 1
  BY DEF Traded, OrdersTyped
<1>3. PICK pay \in Nat : pay = Len(payments) + 1
  BY DEF Traded, OrdersTyped
<1>4. PICK at \in {"authorize", "approve"} :
        at = IF c.flow = "direct" THEN "authorize" ELSE "approve"
  OBVIOUS
<1>5. PICK new : new = [c EXCEPT !.at = at, !.order = id]
  OBVIOUS
<1>6. /\ CallOK(c) /\ c.at = "order" /\ c.flow \in {"direct", "approval"}
      /\ c.lines \in Seq(Line) /\ Total(c.lines) \in Nat
  <2>1. CallOK(c) /\ c.at = "order" /\ c.flow \in Flow /\ c.lines \in Seq(Line)
    BY <1>1, CallFacts DEF CreateOrder, At
  <2>2. Total(c.lines) \in Nat
    BY <2>1, Priced
  <2> QED BY <2>1, <2>2 DEF CallOK, StageOK, Flow
<1>7. PICK order : order = IF c.flow = "direct" THEN NewOrder(c, "payment_pending", pay)
                           ELSE NewOrder(c, "awaiting_approval", 0)
  OBVIOUS
<1>8. /\ order \in Order /\ order.flow = c.flow /\ order.key = c.key
      /\ order.held = c.held /\ order.lines = c.lines /\ order.stale = c.stale
      /\ order.state \in {"payment_pending", "awaiting_approval"}
      /\ c.flow = "direct" => order.state = "payment_pending" /\ order.payment = pay
      /\ c.flow # "direct" => order.payment = 0
  BY <1>7 DEF NewOrder, Order, Call, OrderState
<1>9. /\ new \in Call /\ new.at = at /\ new.flow = c.flow /\ new.key = c.key
      /\ new.cart = c.cart /\ new.held = c.held /\ new.order = id
  BY <1>5 DEF Call, Step
<1>10. /\ calls' = [calls EXCEPT ![n] = new]
       /\ orders' = Append(orders, order)
       /\ payments' = IF c.flow = "direct"
                      THEN Append(payments, [amount |-> Total(c.lines), state |-> "created"])
                      ELSE payments
       /\ UNCHANGED <<carts, books, quotes, ordered, overlapped>>
  <2>1. calls' = [calls EXCEPT ![n].at = at, ![n].order = id]
    BY <1>1, <1>2, <1>4 DEF CreateOrder
  <2>2. calls' = [calls EXCEPT ![n] = new]
    BY <1>1, <1>5, <2>1 DEF Traded, CallsTyped
  <2> QED BY <1>1, <1>3, <1>7, <2>2 DEF CreateOrder
<1>11. /\ orders \in Seq(Order) /\ orders' \in Seq(Order)
       /\ DOMAIN orders' = DOMAIN orders \union {id}
       /\ id \notin DOMAIN orders /\ orders'[id] = order /\ Len(orders) <= Len(orders')
       /\ \A o \in DOMAIN orders : orders'[o] = orders[o]
  BY <1>2, <1>8, <1>10 DEF Traded, OrdersTyped
<1>12. /\ payments' \in Seq(Payment) /\ Len(payments) <= Len(payments')
       /\ \A p \in DOMAIN payments : p \in DOMAIN payments' /\ payments'[p] = payments[p]
       /\ c.flow = "direct" => /\ pay \in DOMAIN payments' /\ pay \notin 0..Len(payments)
                               /\ payments'[pay].amount = Total(c.lines)
  <2>1. [amount |-> Total(c.lines), state |-> "created"] \in Payment
    BY <1>6 DEF Payment
  <2>2. payments \in Seq(Payment)
    BY DEF Traded, OrdersTyped
  <2> QED BY <1>3, <1>10, <2>1, <2>2
<1>13. HoldsPersist /\ Grows
  BY <1>10, <1>11, <1>12 DEF HoldsPersist, Grows, books, Traded, CallsTyped
<1>14. OrderOK(order)'
  <2>1. c.flow = "direct" => HoldsStock(c.held, c.lines)'
    BY <1>6, <1>13, HoldsStay DEF CallOK, HandsOK
  <2>2. c.flow = "approval" => HoldsBudget(c.held, c.lines)' /\ (WithinContract(c.lines) \/ c.stale)
    BY <1>6, <1>13, HoldsStay DEF CallOK, HandsOK
  <2>3. order.payment \in 0..Len(payments')
    BY <1>3, <1>8, <1>12
  <2> QED BY <1>6, <1>8, <1>12, <2>1, <2>2, <2>3 DEF OrderOK, WithinContract
<1>15. \A o \in DOMAIN orders' : OrderOK(orders[o])'
  <2>1. OrderOK(orders[id])'
    BY <1>11, <1>14 DEF OrderOK, HoldsStock, HoldsBudget, WithinContract
  <2> QED BY <1>11, <1>13, <2>1, OrdersGrow
<1>16. CallOK(new)' /\ ~HasOrder(c) /\ ~Over(c)
  <2>1. StageOK(new)' /\ HandsOK(new)' /\ KeyOK(new)' /\ ~HasOrder(c) /\ ~Over(c)
    BY <1>4, <1>6, <1>9, <1>10 DEF CallOK, StageOK, HandsOK, KeyOK, HasOrder, Over
  <2>2. OwnOrderOK(new)'
    BY <1>4, <1>6, <1>8, <1>9, <1>11 DEF OwnOrderOK, HasOrder
  <2> QED BY <2>1, <2>2 DEF CallOK
<1>17. calls' \in Seq(Call) /\ CallsOK' /\ FirmOrdersOK'
  <2>1. \A o \in DOMAIN orders' : o \notin DOMAIN orders => ~Firm(o)'
    BY <1>8, <1>11 DEF Firm
  <2> QED BY <1>1, <1>9, <1>10, <1>11, <1>13, <1>16, <2>1, GrowStep
<1>18. PaymentsApart'
  <2>1. \A o \in DOMAIN orders : orders[o].payment \in 0..Len(payments)
    BY DEF Traded, OrdersOK, OrderOK
  <2>2. c.flow = "direct" => \A o \in DOMAIN orders : orders[o].payment # pay
    BY <1>12, <2>1
  <2> QED BY <1>8, <1>11, <2>2 DEF Traded, OrdersOK, PaymentsApart
<1>19. OrdersTyped' /\ CallsTyped'
  BY <1>10, <1>11, <1>12, <1>17 DEF Traded, OrdersTyped, CallsTyped
<1> QED BY <1>15, <1>17, <1>18, <1>19 DEF Traded, OrdersOK

LEMMA FirmStay ==
    ASSUME Traded, UNCHANGED <<orders, reservations, ordered, overlapped>>,
           \A m \in DOMAIN calls, o \in DOMAIN orders :
             Stores(calls[m], o) => m \in DOMAIN calls' /\ Stores(calls'[m], o)
    PROVE  FirmOrdersOK'
<1>1. \A o \in DOMAIN orders : Firm(o)' <=> Firm(o)
  BY DEF Firm
<1>2. ASSUME NEW o \in DOMAIN orders, Firm(o), ordered[orders[o].key] = 0
      PROVE  \E n \in DOMAIN calls' : Stores(calls'[n], o)
  <2>1. PICK n \in DOMAIN calls : Stores(calls[n], o)
    BY <1>2 DEF Traded, OrdersOK, FirmOrdersOK
  <2> QED BY <2>1
<1>3. \A o \in DOMAIN orders : Firm(o) =>
        ordered[orders[o].key] # 0 \/ \E n \in DOMAIN calls' : Stores(calls[n], o)'
  BY <1>2 DEF Stores
<1> QED BY <1>1, <1>3 DEF Traded, OrdersOK, FirmOrdersOK

(* A payment becomes authorized while its order is not confirmed, or it is *)
(* captured or cancelled at any time.                                      *)
LEMMA PaymentStep ==
    ASSUME Traded, NEW p \in DOMAIN payments, NEW s \in {"authorized", "captured", "cancelled"},
           payments' = [payments EXCEPT ![p].state = s],
           UNCHANGED <<carts, books, orders, quotes, ordered, overlapped>>,
           s = "authorized" =>
             \A o \in DOMAIN orders : orders[o].flow = "direct" /\ orders[o].payment = p
                                        => orders[o].state # "confirmed"
    PROVE  /\ payments' \in Seq(Payment)
           /\ \A o \in DOMAIN orders : OrderOK(orders[o])'
           /\ \A c : CallOK(c) /\ (s = "authorized" /\ c.flow = "direct" /\ c.at = "confirm"
                                     => orders[c.order].payment # p)
                     => CallOK(c)'
<1>1. payments \in Seq(Payment) /\ payments[p] \in Payment
  BY DEF Traded, OrdersTyped
<1>2. PICK new : new = [payments[p] EXCEPT !.state = s]
  OBVIOUS
<1>3. new \in Payment /\ new.state = s /\ new.amount = payments[p].amount
  BY <1>1, <1>2 DEF Payment
<1>4. payments' = [payments EXCEPT ![p] = new]
  BY <1>2
<1>5. /\ payments' \in Seq(Payment) /\ DOMAIN payments' = DOMAIN payments
      /\ Len(payments') = Len(payments)
      /\ payments'[p].state = s /\ payments'[p].amount = payments[p].amount
      /\ \A u \in DOMAIN payments : u # p => payments'[u] = payments[u]
  BY <1>1, <1>3, <1>4
<1>6. HoldsPersist
  BY DEF HoldsPersist, books
<1>7. ASSUME NEW o \in DOMAIN orders PROVE OrderOK(orders[o])'
  <2>1. OrderOK(orders[o])
    BY DEF Traded, OrdersOK
  <2>2. PICK order : order = orders[o] /\ order = orders'[o]
    OBVIOUS
  <2>3. order.flow = "direct" /\ order.state = "confirmed" =>
          payments'[order.payment].state \in {"captured", "cancelled"}
    BY <1>5, <2>1, <2>2 DEF OrderOK
  <2>4. OrderOK(order)'
    BY <1>5, <1>6, <2>1, <2>2, <2>3, HoldsStay DEF OrderOK, WithinContract
  <2> QED BY <2>2, <2>4 DEF OrderOK, HoldsStock, HoldsBudget, WithinContract
<1>8. ASSUME NEW c, CallOK(c),
             s = "authorized" /\ c.flow = "direct" /\ c.at = "confirm"
               => orders[c.order].payment # p
      PROVE  CallOK(c)'
  <2>1. HandsOK(c)'
    BY <1>6, <1>8, HoldsStay DEF CallOK, HandsOK, WithinContract
  <2>2. OwnOrderOK(c)'
    <3>1. OwnOrderOK(c)
      BY <1>8 DEF CallOK
    <3>2. \A o \in DOMAIN orders :
            orders[o].flow = "direct" => orders[o].payment \in DOMAIN payments
      BY DEF Traded, OrdersOK, OrderOK
    <3>3. c.flow = "direct" /\ c.at = "confirm" =>
            payments'[orders[c.order].payment].state \in {"captured", "cancelled"}
      BY <1>5, <1>8, <3>1, <3>2 DEF OwnOrderOK, HasOrder
    <3> QED BY <3>1, <3>3 DEF OwnOrderOK, HasOrder
  <2> QED BY <1>8, <2>1, <2>2 DEF CallOK, StageOK, KeyOK, Over
<1> QED BY <1>5, <1>7, <1>8

LEMMA CancelPaymentKeeps ==
    ASSUME Traded, NEW p \in DOMAIN payments, CancelPayment(p)
    PROVE  Traded'
<1>1. /\ payments' = [payments EXCEPT ![p].state = "cancelled"]
      /\ UNCHANGED <<carts, books, orders, quotes, ordered, calls, overlapped>>
  BY DEF CancelPayment
<1>2. /\ payments' \in Seq(Payment)
      /\ \A o \in DOMAIN orders : OrderOK(orders[o])'
      /\ \A c : CallOK(c) => CallOK(c)'
  BY <1>1, PaymentStep
<1>3. CallsOK'
  <2>1. \A c : (\E m \in DOMAIN calls : c = calls[m]) => CallOK(c)'
    BY <1>2 DEF Traded, CallsOK
  <2> QED BY <1>1, <2>1, CallsStay
<1>4. FirmOrdersOK'
  BY <1>1, FirmStay DEF books
<1> QED BY <1>1, <1>2, <1>3, <1>4
        DEF Traded, OrdersTyped, CallsTyped, OrdersOK, PaymentsApart

LEMMA CaptureKeeps ==
    ASSUME Traded, NEW n \in DOMAIN calls, Capture(n)
    PROVE  Traded'
<1>1. PICK c \in Call : c = calls[n]
  BY CallFacts
<1>2. PICK new : new = [c EXCEPT !.at = "confirm"]
  OBVIOUS
<1>3. /\ CallOK(c) /\ c.at = "capture" /\ c.flow = "direct"
      /\ HasOrder(c) /\ ~Over(c)
  <2>1. CallOK(c) /\ c.at = "capture" /\ c.flow \in Flow
    BY <1>1, CallFacts DEF Capture, At
  <2> QED BY <2>1 DEF CallOK, StageOK, Flow, HasOrder, Over
<1>4. PICK p : p = orders[c.order].payment
  OBVIOUS
<1>5. p \in DOMAIN payments /\ c.order \in DOMAIN orders
  BY <1>3, <1>4 DEF CallOK, OwnOrderOK, Traded, OrdersOK, OrderOK
<1>6. /\ new \in Call /\ new.at = "confirm" /\ new.flow = c.flow /\ new.key = c.key
      /\ new.cart = c.cart /\ new.order = c.order /\ new.held = c.held
  <2>1. "confirm" \in Step
    BY DEF Step
  <2> QED BY <1>2, <2>1, Moved
<1>7. /\ calls' = [calls EXCEPT ![n] = new]
      /\ payments' = [payments EXCEPT ![p].state = "captured"]
      /\ UNCHANGED <<carts, books, orders, quotes, ordered, overlapped>>
  BY <1>1, <1>2, <1>4 DEF Capture, PaymentOf, Goes
<1>8. /\ payments' \in Seq(Payment)
      /\ \A o \in DOMAIN orders : OrderOK(orders[o])'
      /\ \A d : CallOK(d) => CallOK(d)'
  BY <1>5, <1>7, PaymentStep
<1>9. CallOK(new)'
  <2>1. OwnOrderOK(new)'
    <3>1. payments'[p].state = "captured"
      <4>1. payments[p] \in Payment
        BY <1>5 DEF Traded, OrdersTyped
      <4> QED BY <1>5, <1>7, <4>1 DEF Payment
    <3> QED BY <1>3, <1>4, <1>6, <1>7, <3>1 DEF CallOK, OwnOrderOK, HasOrder
  <2> QED BY <1>3, <1>6, <1>7, <2>1 DEF CallOK, StageOK, HandsOK, KeyOK, Over
<1>10. /\ calls' \in Seq(Call) /\ DOMAIN calls' = DOMAIN calls
       /\ calls'[n] = new /\ \A m \in DOMAIN calls \ {n} : calls'[m] = calls[m]
       /\ CallsOK'
  <2>1. \A d : (\E m \in DOMAIN calls \ {n} : d = calls[m]) => CallOK(d)'
    BY <1>8 DEF Traded, CallsOK
  <2> QED BY <1>1, <1>3, <1>6, <1>7, <1>9, <2>1, CallsFrame
<1>11. FirmOrdersOK'
  <2>1. \A o : ~Stores(c, o)
    BY <1>3 DEF Stores
  <2> QED BY <1>1, <1>7, <1>10, <2>1, FirmStay DEF books
<1> QED BY <1>7, <1>8, <1>10, <1>11
        DEF Traded, OrdersTyped, CallsTyped, OrdersOK, PaymentsApart

(* No other order is paid by this payment, and its own is not confirmed.   *)
LEMMA AuthorizeKeeps ==
    ASSUME Traded, NEW n \in DOMAIN calls, Authorize(n)
    PROVE  Traded'
<1>1. PICK c \in Call : c = calls[n]
  BY CallFacts
<1>2. PICK new : new = [c EXCEPT !.at = "capture"]
  OBVIOUS
<1>3. /\ CallOK(c) /\ c.at = "authorize" /\ c.flow = "direct"
      /\ HasOrder(c) /\ ~Over(c)
  <2>1. CallOK(c) /\ c.at = "authorize" /\ c.flow \in Flow
    BY <1>1, CallFacts DEF Authorize, At
  <2> QED BY <2>1 DEF CallOK, StageOK, Flow, HasOrder, Over
<1>4. PICK p : p = orders[c.order].payment
  OBVIOUS
<1>5. /\ p \in DOMAIN payments /\ c.order \in DOMAIN orders
      /\ orders[c.order].flow = "direct" /\ orders[c.order].state # "confirmed"
  <2>1. /\ c.order \in DOMAIN orders
        /\ orders[c.order].flow = "direct" /\ orders[c.order].state # "confirmed"
    BY <1>3 DEF CallOK, OwnOrderOK
  <2> QED BY <1>4, <2>1 DEF Traded, OrdersOK, OrderOK
<1>6. /\ new \in Call /\ new.at = "capture" /\ new.flow = c.flow /\ new.key = c.key
      /\ new.cart = c.cart /\ new.order = c.order /\ new.held = c.held
  <2>1. "capture" \in Step
    BY DEF Step
  <2> QED BY <1>2, <2>1, Moved
<1>7. /\ calls' = [calls EXCEPT ![n] = new]
      /\ payments' = [payments EXCEPT ![p].state = "authorized"]
      /\ UNCHANGED <<carts, books, orders, quotes, ordered, overlapped>>
  BY <1>1, <1>2, <1>4 DEF Authorize, PaymentOf, Goes
<1>8. \A o \in DOMAIN orders :
        orders[o].flow = "direct" /\ orders[o].payment = p => o = c.order
  BY <1>4, <1>5 DEF Traded, OrdersOK, PaymentsApart
<1>9. /\ payments' \in Seq(Payment)
      /\ \A o \in DOMAIN orders : OrderOK(orders[o])'
      /\ \A d : CallOK(d) /\ (d.flow = "direct" /\ d.at = "confirm"
                                => orders[d.order].payment # p)
                => CallOK(d)'
  BY <1>5, <1>7, <1>8, PaymentStep
<1>10. CallOK(new)'
  BY <1>3, <1>6, <1>7 DEF CallOK, StageOK, HandsOK, OwnOrderOK, KeyOK, HasOrder, Over
<1>11. /\ calls' \in Seq(Call) /\ DOMAIN calls' = DOMAIN calls
       /\ calls'[n] = new /\ \A m \in DOMAIN calls \ {n} : calls'[m] = calls[m]
       /\ CallsOK'
  <2>1. ASSUME NEW m \in DOMAIN calls \ {n} PROVE CallOK(calls[m])
                 /\ (calls[m].flow = "direct" /\ calls[m].at = "confirm"
                       => orders[calls[m].order].payment # p)
    <3>1. CallOK(calls[m]) /\ Apart(calls[m], c)
      BY <1>1 DEF Traded, CallsOK
    <3> QED BY <1>3, <1>8, <3>1 DEF CallOK, OwnOrderOK, Apart, HasOrder
  <2>2. \A d : (\E m \in DOMAIN calls \ {n} : d = calls[m]) => CallOK(d)'
    BY <1>9, <2>1
  <2> QED BY <1>1, <1>3, <1>6, <1>7, <1>10, <2>2, CallsFrame
<1>12. FirmOrdersOK'
  <2>1. \A o : ~Stores(c, o)
    BY <1>3 DEF Stores
  <2> QED BY <1>1, <1>7, <1>11, <2>1, FirmStay DEF books
<1> QED BY <1>7, <1>9, <1>11, <1>12
        DEF Traded, OrdersTyped, CallsTyped, OrdersOK, PaymentsApart

(* An order goes to another state; to confirmed only when it is paid.      *)
LEMMA OrderStep ==
    ASSUME Traded, NEW o \in DOMAIN orders, NEW s \in OrderState,
           orders' = [orders EXCEPT ![o].state = s],
           UNCHANGED <<carts, books, payments, quotes, ordered, overlapped>>,
           s = "confirmed" /\ orders[o].flow = "direct" =>
             payments[orders[o].payment].state \in {"captured", "cancelled"}
    PROVE  /\ OrdersTyped' /\ PaymentsApart' /\ DOMAIN orders' = DOMAIN orders
           /\ orders'[o].flow = orders[o].flow /\ orders'[o].key = orders[o].key
           /\ orders'[o].held = orders[o].held /\ orders'[o].state = s
           /\ orders'[o].payment = orders[o].payment
           /\ \A u \in DOMAIN orders : u # o => orders'[u] = orders[u]
           /\ \A u \in DOMAIN orders : OrderOK(orders[u])'
           /\ \A c : CallOK(c) /\ (HasOrder(c) /\ c.order = o =>
                                     s = "cancelled" \/ c.at \notin {"authorize", "capture"})
                     => CallOK(c)'
<1>1. orders \in Seq(Order) /\ orders[o] \in Order
  BY DEF Traded, OrdersTyped
<1>2. PICK new : new = [orders[o] EXCEPT !.state = s]
  OBVIOUS
<1>3. /\ new \in Order /\ new.state = s /\ new.flow = orders[o].flow
      /\ new.key = orders[o].key /\ new.held = orders[o].held
      /\ new.payment = orders[o].payment /\ new.lines = orders[o].lines
      /\ new.stale = orders[o].stale
  BY <1>1, <1>2 DEF Order
<1>4. orders' = [orders EXCEPT ![o] = new]
  BY <1>2
<1>5. /\ orders' \in Seq(Order) /\ DOMAIN orders' = DOMAIN orders
      /\ Len(orders') = Len(orders) /\ orders'[o] = new
      /\ \A u \in DOMAIN orders : u # o => orders'[u] = orders[u]
  BY <1>1, <1>3, <1>4
<1>6. HoldsPersist
  BY DEF HoldsPersist, books
<1>7. ASSUME NEW u \in DOMAIN orders PROVE OrderOK(orders[u])'
  <2>1. OrderOK(orders[u]) /\ OrderOK(orders[o])
    BY DEF Traded, OrdersOK
  <2>2. PICK order : order = orders'[u]
    OBVIOUS
  <2>3. OrderOK(order)
    BY <1>3, <1>5, <2>1, <2>2 DEF OrderOK
  <2>4. OrderOK(order)'
    BY <1>6, <2>3, HoldsStay DEF OrderOK, WithinContract
  <2> QED BY <2>2, <2>4 DEF OrderOK, HoldsStock, HoldsBudget, WithinContract
<1>8. ASSUME NEW c, CallOK(c), HasOrder(c) /\ c.order = o =>
                                 s = "cancelled" \/ c.at \notin {"authorize", "capture"}
      PROVE  CallOK(c)'
  <2>1. HandsOK(c)'
    BY <1>6, <1>8, HoldsStay DEF CallOK, HandsOK, WithinContract
  <2>2. OwnOrderOK(c)'
    <3>1. OwnOrderOK(c)
      BY <1>8 DEF CallOK
    <3>2. CASE HasOrder(c) /\ c.order = o
      BY <1>3, <1>5, <1>8, <3>1, <3>2 DEF OwnOrderOK, HasOrder
    <3>3. CASE HasOrder(c) /\ c.order # o
      BY <1>5, <3>1, <3>3 DEF OwnOrderOK, HasOrder
    <3>4. CASE ~HasOrder(c)
      BY <3>4 DEF OwnOrderOK, HasOrder
    <3> QED BY <3>2, <3>3, <3>4
  <2> QED BY <1>8, <2>1, <2>2 DEF CallOK, StageOK, KeyOK, Over
<1>9. PaymentsApart'
  BY <1>3, <1>5 DEF Traded, OrdersOK, PaymentsApart
<1>10. OrdersTyped'
  BY <1>5 DEF Traded, OrdersTyped
<1> QED BY <1>3, <1>5, <1>7, <1>8, <1>9, <1>10

LEMMA CancelOrderKeeps ==
    ASSUME Traded, NEW o \in DOMAIN orders, CancelOrder(o)
    PROVE  Traded'
<1>1. /\ orders' = [orders EXCEPT ![o].state = "cancelled"]
      /\ UNCHANGED <<carts, books, payments, quotes, ordered, calls, overlapped>>
  BY DEF CancelOrder
<1>2. /\ OrdersTyped' /\ PaymentsApart' /\ DOMAIN orders' = DOMAIN orders
      /\ orders'[o].state = "cancelled"
      /\ \A u \in DOMAIN orders : u # o => orders'[u] = orders[u]
      /\ \A u \in DOMAIN orders : OrderOK(orders[u])'
      /\ \A c : CallOK(c) => CallOK(c)'
  <2>1. "cancelled" \in OrderState
    BY DEF OrderState
  <2> QED BY <1>1, <2>1, OrderStep
<1>3. CallsOK'
  <2>1. \A c : (\E m \in DOMAIN calls : c = calls[m]) => CallOK(c)'
    BY <1>2 DEF Traded, CallsOK
  <2> QED BY <1>1, <2>1, CallsStay
<1>4. FirmOrdersOK'
  <2>1. \A u \in DOMAIN orders' : Firm(u)' =>
          u \in DOMAIN orders /\ Firm(u) /\ orders'[u] = orders[u]
    BY <1>1, <1>2 DEF Firm, books
  <2> QED BY <1>1, <2>1 DEF Traded, OrdersOK, FirmOrdersOK, Stores
<1> QED BY <1>1, <1>2, <1>3, <1>4
        DEF Traded, CallsTyped, OrdersOK

LEMMA TransitionKeeps ==
    ASSUME Traded, NEW n \in DOMAIN calls, Transition(n)
    PROVE  Traded'
<1>1. PICK c \in Call : c = calls[n]
  BY CallFacts
<1>2. PICK step \in {<<"approve", "approved", "confirm">>, <<"confirm", "confirmed", "commit">>} :
        /\ At(n, step[1])
        /\ orders' = [orders EXCEPT ![c.order].state = step[2]]
        /\ Goes(n, step[3])
        /\ UNCHANGED <<carts, books, payments, quotes, ordered, overlapped>>
  BY <1>1 DEF Transition
<1>3. PICK at \in {"confirm", "commit"} : at = step[3]
  BY <1>2
<1>4. PICK s \in {"approved", "confirmed"} : s = step[2]
  BY <1>2
<1>5. /\ c.at = step[1] /\ c.at \in {"approve", "confirm"}
      /\ c.at = "approve" => s = "approved" /\ at = "confirm"
      /\ c.at = "confirm" => s = "confirmed" /\ at = "commit"
  BY <1>1, <1>2, <1>3, <1>4 DEF At
<1>6. PICK new : new = [c EXCEPT !.at = at]
  OBVIOUS
<1>7. /\ CallOK(c) /\ HasOrder(c) /\ ~Over(c) /\ c.flow \in {"direct", "approval"}
      /\ c.at = "approve" => c.flow = "approval"
      /\ \A o : ~Stores(c, o)
  <2>1. CallOK(c) /\ c.flow \in Flow
    BY <1>1, CallFacts
  <2> QED BY <1>5, <2>1 DEF CallOK, StageOK, Flow, HasOrder, Over, Stores
<1>8. PICK o \in DOMAIN orders : o = c.order
  BY <1>7 DEF CallOK, OwnOrderOK
<1>9. orders[o].flow = c.flow /\ orders[o].key = c.key /\ orders[o].held = c.held
  BY <1>7, <1>8 DEF CallOK, OwnOrderOK
<1>10. /\ new \in Call /\ new.at = at /\ new.flow = c.flow /\ new.key = c.key
       /\ new.cart = c.cart /\ new.order = c.order /\ new.held = c.held
  <2>1. at \in Step
    BY DEF Step
  <2> QED BY <1>6, <2>1, Moved
<1>11. calls' = [calls EXCEPT ![n] = new]
  BY <1>1, <1>2, <1>3, <1>6 DEF Goes
<1>12. orders' = [orders EXCEPT ![o].state = s]
  BY <1>2, <1>4, <1>8
<1>13. /\ OrdersTyped' /\ PaymentsApart' /\ DOMAIN orders' = DOMAIN orders
       /\ orders'[o].flow = orders[o].flow /\ orders'[o].key = orders[o].key
       /\ orders'[o].held = orders[o].held /\ orders'[o].state = s
       /\ orders'[o].payment = orders[o].payment
       /\ \A u \in DOMAIN orders : u # o => orders'[u] = orders[u]
       /\ \A u \in DOMAIN orders : OrderOK(orders[u])'
       /\ \A d : CallOK(d) /\ (HasOrder(d) /\ d.order = o => d.at \notin {"authorize", "capture"})
                 => CallOK(d)'
  <2>1. s = "confirmed" /\ orders[o].flow = "direct" =>
          payments[orders[o].payment].state \in {"captured", "cancelled"}
    BY <1>4, <1>5, <1>7, <1>8, <1>9 DEF CallOK, OwnOrderOK
  <2>2. s \in OrderState
    BY DEF OrderState
  <2> QED BY <1>2, <1>12, <2>1, <2>2, OrderStep
<1>14. CallOK(new)'
  <2>1. OwnOrderOK(new)'
    <3>1. new.flow = "direct" => new.at = "commit"
      BY <1>5, <1>7, <1>10
    <3> QED BY <1>8, <1>9, <1>10, <1>13, <3>1 DEF OwnOrderOK
  <2> QED BY <1>2, <1>5, <1>7, <1>10, <2>1 DEF CallOK, StageOK, HandsOK, KeyOK, Over
<1>15. /\ calls' \in Seq(Call) /\ DOMAIN calls' = DOMAIN calls
       /\ calls'[n] = new /\ \A m \in DOMAIN calls \ {n} : calls'[m] = calls[m]
       /\ CallsOK'
  <2>1. ASSUME NEW m \in DOMAIN calls \ {n}
        PROVE  CallOK(calls[m]) /\ ~(HasOrder(calls[m]) /\ calls[m].order = o)
    BY <1>1, <1>7, <1>8 DEF Traded, CallsOK, Apart
  <2>2. \A d : (\E m \in DOMAIN calls \ {n} : d = calls[m]) => CallOK(d)'
    BY <1>13, <2>1
  <2>3. HasOrder(new) => HasOrder(c) /\ new.order = c.order
    BY <1>7, <1>10
  <2> QED BY <1>1, <1>2, <1>7, <1>10, <1>11, <1>14, <2>2, <2>3, CallsFrame
<1>16. FirmOrdersOK'
  <2>1. ASSUME NEW u \in DOMAIN orders, Firm(u)', u # o
        PROVE  /\ Firm(u)
               /\ \/ ordered[orders[u].key] # 0
                  \/ \E m \in DOMAIN calls \ {n} : Stores(calls[m], u)
    <3>1. Firm(u)
      <4>1. orders'[u] = orders[u] /\ UNCHANGED <<reservations, overlapped>>
        BY <1>2, <1>13, <2>1 DEF books
      <4> QED BY <2>1, <4>1 DEF Firm
    <3> QED BY <1>1, <1>7, <3>1 DEF Traded, OrdersOK, FirmOrdersOK
  <2>2. ASSUME Firm(o)' PROVE Stores(new, o) /\ c.flow = "direct" /\ c.key \notin overlapped
    <3>1. orders'[o].flow = "direct" /\ orders'[o].state = "confirmed"
          /\ orders'[o].key \notin overlapped'
      BY <2>2 DEF Firm
    <3> QED BY <1>2, <1>5, <1>8, <1>9, <1>10, <1>13, <3>1 DEF Stores
  <2>3. ASSUME Firm(o)', NEW u \in DOMAIN orders, Firm(u)', u # o
        PROVE  orders[u].key # c.key
    <3>1. SUFFICES ASSUME orders[u].key = c.key PROVE FALSE
      OBVIOUS
    <3>2. ordered[c.key] = 0
      BY <1>7, <2>2, <2>3 DEF CallOK, KeyOK
    <3>3. PICK m \in DOMAIN calls \ {n} : Stores(calls[m], u)
      BY <2>1, <2>3, <3>1, <3>2
    <3>4. CallOK(calls[m]) /\ Apart(c, calls[m])
      BY <1>1 DEF Traded, CallsOK
    <3>5. calls[m].key = c.key /\ ~Over(calls[m])
      BY <3>1, <3>3, <3>4 DEF CallOK, OwnOrderOK, HasOrder, Stores, Over
    <3> QED BY <1>7, <2>2, <2>3, <3>4, <3>5 DEF Apart
  <2>4. ASSUME NEW u \in DOMAIN orders', Firm(u)'
        PROVE  \/ ordered'[orders'[u].key] # 0
               \/ \E m \in DOMAIN calls' : Stores(calls'[m], u)
    <3>1. CASE u = o
      BY <1>15, <2>2, <2>4, <3>1
    <3>2. CASE u # o
      BY <1>2, <1>13, <1>15, <2>1, <2>4, <3>2
    <3> QED BY <3>1, <3>2
  <2>5. \A u \in DOMAIN orders' : Firm(u)' =>
          ordered'[orders'[u].key] # 0 \/ \E m \in DOMAIN calls' : Stores(calls[m], u)'
    BY <2>4 DEF Stores
  <2>6. ASSUME NEW u \in DOMAIN orders', NEW v \in DOMAIN orders', Firm(u)', Firm(v)',
               orders'[u].key = orders'[v].key
        PROVE  u = v
    <3>1. CASE u # o /\ v # o
      BY <1>13, <2>1, <2>6, <3>1 DEF Traded, OrdersOK, FirmOrdersOK
    <3>2. CASE u = o \/ v = o
      BY <1>9, <1>13, <2>3, <2>6, <3>2
    <3> QED BY <3>1, <3>2
  <2> QED BY <2>5, <2>6 DEF FirmOrdersOK
<1> QED BY <1>2, <1>13, <1>15, <1>16 DEF Traded, CallsTyped, OrdersOK

(* The order of a direct checkout is stored for its key when its call,     *)
(* which stood for it so far, is over.                                     *)
LEMMA FinishKeeps ==
    ASSUME Traded, NEW n \in DOMAIN calls, Finish(n)
    PROVE  Traded'
<1>1. PICK c \in Call : c = calls[n]
  BY CallFacts
<1>2. PICK new : new = [c EXCEPT !.at = "finished"]
  OBVIOUS
<1>3. /\ CallOK(c) /\ c.at = "finish" /\ ~Over(c) /\ c.key \in Keys /\ c.cart \in DOMAIN carts
  BY <1>1, CallFacts DEF Finish, At, Over
<1>4. /\ new \in Call /\ new.at = "finished" /\ new.flow = c.flow /\ new.key = c.key
      /\ new.cart = c.cart
  <2>1. "finished" \in Step
    BY DEF Step
  <2> QED BY <1>2, <2>1, Moved
<1>5. /\ calls' = [calls EXCEPT ![n] = new]
      /\ carts' = [carts EXCEPT ![c.cart].open = FALSE]
      /\ ordered' = IF c.flow = "direct" THEN [ordered EXCEPT ![c.key] = c.order] ELSE ordered
      /\ UNCHANGED <<books, orders, payments, quotes, overlapped>>
  BY <1>1, <1>2 DEF Finish, Goes
<1>6. c.flow = "direct" =>
        /\ c.order \in DOMAIN orders /\ orders[c.order].key = c.key
        /\ c.order # 0 /\ c.order \in 0..Len(orders)
  <2>1. c.flow = "direct" => c.order \in DOMAIN orders /\ orders[c.order].key = c.key
    BY <1>3 DEF CallOK, OwnOrderOK, HasOrder
  <2> QED BY <2>1 DEF Traded, OrdersTyped
<1>7. /\ carts' \in Seq(Cart) /\ DOMAIN carts' = DOMAIN carts
      /\ \A k \in DOMAIN carts : carts'[k].lines = carts[k].lines
  <2>1. carts \in Seq(Cart)
    BY DEF Traded, CallsTyped
  <2>2. carts[c.cart] \in Cart
    BY <1>3, <2>1
  <2>3. PICK cart : cart = [carts[c.cart] EXCEPT !.open = FALSE]
    OBVIOUS
  <2>4. cart \in Cart /\ cart.lines = carts[c.cart].lines
    BY <2>2, <2>3 DEF Cart
  <2>5. carts' = [carts EXCEPT ![c.cart] = cart]
    BY <1>5, <2>3
  <2> QED BY <1>3, <2>1, <2>4, <2>5
<1>8. /\ ordered' \in [Keys -> 0..Len(orders)]
      /\ \A key \in Keys : key # c.key \/ c.flow # "direct" => ordered'[key] = ordered[key]
      /\ \A key \in Keys : ordered[key] # 0 => ordered'[key] # 0
      /\ c.flow = "direct" => ordered'[c.key] # 0
  BY <1>3, <1>5, <1>6 DEF Traded, OrdersTyped
<1>9. HoldsPersist
  BY <1>5 DEF HoldsPersist, books
<1>10. ASSUME NEW d, CallOK(d), KeyOK(d)' PROVE CallOK(d)'
  <2>1. HandsOK(d)'
    BY <1>5, <1>7, <1>9, <1>10, HoldsStay DEF CallOK, HandsOK, WithinContract
  <2>2. OwnOrderOK(d)'
    BY <1>5, <1>10 DEF CallOK, OwnOrderOK, HasOrder
  <2> QED BY <1>10, <2>1, <2>2 DEF CallOK, StageOK
<1>11. CallOK(new)'
  BY <1>3, <1>4, <1>7 DEF CallOK, StageOK, HandsOK, OwnOrderOK, KeyOK, HasOrder, Over
<1>12. ASSUME NEW m \in DOMAIN calls \ {n}, NEW d \in Call, d = calls[m] PROVE CallOK(d)'
  <2>1. CallOK(d) /\ Apart(c, d) /\ d.key \in Keys
    BY <1>1, <1>12, CallFacts DEF Traded, CallsOK
  <2>2. KeyOK(d)'
    BY <1>3, <1>5, <1>8, <2>1 DEF CallOK, KeyOK, Apart, Over
  <2> QED BY <1>10, <2>1, <2>2
<1>13. /\ calls' \in Seq(Call) /\ DOMAIN calls' = DOMAIN calls
       /\ calls'[n] = new /\ \A m \in DOMAIN calls \ {n} : calls'[m] = calls[m]
       /\ CallsOK'
  <2>1. \A m \in DOMAIN calls : calls[m] \in Call
    BY CallFacts
  <2>2. \A d : (\E m \in DOMAIN calls \ {n} : d = calls[m]) => CallOK(d)'
    BY <1>12, <2>1
  <2>3. ~HasOrder(new)
    BY <1>4 DEF HasOrder
  <2> QED BY <1>1, <1>3, <1>4, <1>5, <1>11, <2>2, <2>3, CallsFrame
<1>14. FirmOrdersOK'
  <2>1. \A o \in DOMAIN orders : Firm(o)' <=> Firm(o)
    BY <1>5 DEF Firm, books
  <2>2. ASSUME NEW o \in DOMAIN orders, Firm(o), ordered'[orders[o].key] = 0
        PROVE  \E m \in DOMAIN calls' : Stores(calls'[m], o)
    <3>1. orders[o].key \in Keys
      <4>1. orders[o] \in Order
        BY DEF Traded, OrdersTyped
      <4> QED BY <4>1 DEF Order
    <3>2. PICK m \in DOMAIN calls : Stores(calls[m], o)
      BY <1>8, <2>2, <3>1 DEF Traded, OrdersOK, FirmOrdersOK
    <3>3. m # n
      <4>1. SUFFICES ASSUME m = n PROVE FALSE
        OBVIOUS
      <4>2. c.flow = "direct" /\ c.order = o
        BY <1>1, <3>2, <4>1 DEF Stores
      <4> QED BY <1>6, <1>8, <2>2, <4>2
    <3> QED BY <1>13, <3>2, <3>3
  <2>3. \A o \in DOMAIN orders : Firm(o) =>
          ordered'[orders[o].key] # 0 \/ \E m \in DOMAIN calls' : Stores(calls[m], o)'
    BY <2>2 DEF Stores
  <2> QED BY <1>5, <2>1, <2>3 DEF Traded, OrdersOK, FirmOrdersOK
<1>15. \A o \in DOMAIN orders : OrderOK(orders[o])'
  <2> SUFFICES ASSUME NEW o \in DOMAIN orders PROVE OrderOK(orders[o])'
    OBVIOUS
  <2>1. OrderOK(orders[o])
    BY DEF Traded, OrdersOK
  <2> QED BY <1>5, <2>1 DEF OrderOK, HoldsStock, HoldsBudget, WithinContract, books
<1> QED BY <1>5, <1>7, <1>8, <1>13, <1>14, <1>15
        DEF Traded, OrdersTyped, CallsTyped, OrdersOK, PaymentsApart

(* A cart is changed, which makes the contract asked for it stale.         *)
LEMMA ChangeKeeps ==
    ASSUME Traded, NEW k \in DOMAIN carts, NEW lines \in Seq(Line), Change(k, lines)
    PROVE  Traded'
<1>1. /\ carts' = [carts EXCEPT ![k].lines = lines]
      /\ calls' = [n \in DOMAIN calls |->
                     IF At(n, "price") /\ calls[n].cart = k
                     THEN [calls[n] EXCEPT !.stale = TRUE] ELSE calls[n]]
      /\ UNCHANGED <<books, orders, payments, quotes, ordered, overlapped>>
  BY DEF Change
<1>2. /\ carts' \in Seq(Cart) /\ DOMAIN carts' = DOMAIN carts
      /\ \A j \in DOMAIN carts : j # k => carts'[j] = carts[j]
  <2>1. carts \in Seq(Cart)
    BY DEF Traded, CallsTyped
  <2>2. carts[k] \in Cart
    BY <2>1
  <2>3. PICK cart : cart = [carts[k] EXCEPT !.lines = lines]
    OBVIOUS
  <2>4. cart \in Cart
    BY <2>2, <2>3 DEF Cart
  <2>5. carts' = [carts EXCEPT ![k] = cart]
    BY <1>1, <2>3
  <2> QED BY <2>1, <2>4, <2>5
<1>3. ASSUME NEW n \in DOMAIN calls
      PROVE  LET c == calls[n]
                 d == calls'[n]
             IN  /\ d \in Call /\ d.flow = c.flow /\ d.key = c.key /\ d.cart = c.cart
                 /\ d.lines = c.lines /\ d.at = c.at /\ d.held = c.held
                 /\ d.order = c.order /\ d.quote = c.quote
                 /\ IF c.at = "price" /\ c.cart = k THEN d.stale = TRUE ELSE d.stale = c.stale
  <2>1. PICK c \in Call : c = calls[n]
    BY CallFacts
  <2>2. CASE c.at = "price" /\ c.cart = k
    <3>1. calls'[n] = [c EXCEPT !.stale = TRUE]
      BY <1>1, <2>1, <2>2 DEF At
    <3> QED BY <2>1, <2>2, <3>1 DEF Call
  <2>3. CASE ~(c.at = "price" /\ c.cart = k)
    <3>1. calls'[n] = c
      BY <1>1, <2>1, <2>3 DEF At
    <3> QED BY <2>1, <2>3, <3>1
  <2> QED BY <2>2, <2>3
<1>4. calls' \in Seq(Call) /\ DOMAIN calls' = DOMAIN calls
  <2>1. DOMAIN calls' = DOMAIN calls /\ calls' \in [DOMAIN calls -> Call]
    BY <1>1, <1>3
  <2>2. DOMAIN calls = 1..Len(calls) /\ Len(calls) \in Nat
    BY DEF Traded, CallsTyped
  <2> QED BY <2>1, <2>2, SeqDef
<1>5. HoldsPersist
  BY <1>1 DEF HoldsPersist, books
<1>6. ASSUME NEW n \in DOMAIN calls PROVE CallOK(calls[n])'
  <2>1. PICK c \in Call : c = calls[n]
    BY CallFacts
  <2>2. PICK d : d = calls'[n]
    OBVIOUS
  <2>3. CallOK(c)
    BY <2>1, CallFacts
  <2>4. /\ d.flow = c.flow /\ d.key = c.key /\ d.cart = c.cart
        /\ d.lines = c.lines /\ d.at = c.at /\ d.held = c.held
        /\ d.order = c.order /\ d.quote = c.quote
        /\ IF c.at = "price" /\ c.cart = k THEN d.stale = TRUE ELSE d.stale = c.stale
    BY <1>3, <2>1, <2>2
  <2>5. HandsOK(d)'
    <3>1. HandsOK(c)
      BY <2>3 DEF CallOK
    <3>2. d.at = "price" => d.stale \/ carts'[d.cart].lines = d.lines
      BY <1>2, <2>4, <3>1 DEF HandsOK
    <3> QED BY <1>1, <1>2, <1>5, <2>4, <3>1, <3>2, HoldsStay DEF HandsOK, WithinContract
  <2>6. OwnOrderOK(d)'
    <3>1. OwnOrderOK(d)
      BY <2>3, <2>4 DEF CallOK, OwnOrderOK, HasOrder
    <3> QED BY <1>1, <3>1 DEF OwnOrderOK, HasOrder
  <2>7. StageOK(d)' /\ KeyOK(d)'
    BY <1>1, <2>3, <2>4 DEF CallOK, StageOK, KeyOK, Over
  <2>8. CallOK(d)'
    BY <2>5, <2>6, <2>7 DEF CallOK
  <2> QED BY <2>2, <2>8 DEF CallOK, StageOK, HandsOK, OwnOrderOK, KeyOK, HasOrder, Over,
                            HoldsStock, HoldsBudget, WithinContract
<1>7. CallsOK'
  <2>1. ASSUME NEW n \in DOMAIN calls, NEW m \in DOMAIN calls, n # m
        PROVE  Apart(calls[n], calls[m])'
    <3>1. Apart(calls[n], calls[m])
      BY <2>1 DEF Traded, CallsOK
    <3> QED BY <1>1, <1>3, <3>1 DEF Apart, HasOrder, Over
  <2> QED BY <1>4, <1>6, <2>1 DEF CallsOK
<1>8. FirmOrdersOK'
  <2>1. \A m \in DOMAIN calls, o \in DOMAIN orders :
          Stores(calls[m], o) => m \in DOMAIN calls' /\ Stores(calls'[m], o)
    BY <1>3, <1>4 DEF Stores
  <2> QED BY <1>1, <2>1, FirmStay DEF books
<1>9. \A o \in DOMAIN orders : OrderOK(orders[o])'
  <2> SUFFICES ASSUME NEW o \in DOMAIN orders PROVE OrderOK(orders[o])'
    OBVIOUS
  <2>1. OrderOK(orders[o])
    BY DEF Traded, OrdersOK
  <2> QED BY <1>1, <2>1 DEF OrderOK, HoldsStock, HoldsBudget, WithinContract, books
<1> QED BY <1>1, <1>2, <1>4, <1>7, <1>8, <1>9
        DEF Traded, OrdersTyped, CallsTyped, OrdersOK, PaymentsApart

LEMMA CartLinesKeep ==
    ASSUME Traded, NEW k \in DOMAIN carts,
           \/ \E line \in Line : AddCartLine(k, line)
           \/ \E i \in DOMAIN carts[k].lines :
                RemoveCartLine(k, i) \/ \E q \in Quantities : UpdateCartLine(k, i, q)
    PROVE  Traded'
<1>1. PICK lines \in Seq(Line) : lines = carts[k].lines
  <2>1. carts[k] \in Cart
    BY DEF Traded, CallsTyped
  <2> QED BY <2>1 DEF Cart
<1>2. ASSUME NEW line \in Line, AddCartLine(k, line) PROVE Traded'
  <2>1. Append(lines, line) \in Seq(Line)
    BY <1>1
  <2> QED BY <1>1, <1>2, <2>1, ChangeKeeps DEF AddCartLine
<1>3. ASSUME NEW i \in DOMAIN lines, RemoveCartLine(k, i) PROVE Traded'
  <2> DEFINE after == [j \in 1..Len(lines) - 1 |-> lines[IF j < i THEN j ELSE j + 1]]
  <2>1. Len(lines) \in Nat /\ i \in 1..Len(lines) /\ DOMAIN lines = 1..Len(lines)
    BY <1>1
  <2>2. ASSUME NEW j \in 1..Len(lines) - 1 PROVE lines[IF j < i THEN j ELSE j + 1] \in Line
    <3>1. j \in DOMAIN lines /\ j + 1 \in DOMAIN lines
      BY <2>1
    <3>2. lines[j] \in Line /\ lines[j + 1] \in Line
      BY <3>1
    <3> QED BY <3>2
  <2>3. after \in [1..Len(lines) - 1 -> Line] /\ Len(lines) - 1 \in Nat
    BY <2>1, <2>2
  <2>4. after \in Seq(Line)
    BY <2>3, SeqDef
  <2>5. Change(k, after)
    BY <1>1, <1>3 DEF RemoveCartLine
  <2> QED BY <2>4, <2>5, ChangeKeeps
<1>4. ASSUME NEW i \in DOMAIN lines, NEW q \in Quantities, UpdateCartLine(k, i, q)
      PROVE  Traded'
  <2>1. [lines[i] EXCEPT !.quantity = q] \in Line
    <3>1. lines[i] \in Line
      BY <1>1
    <3> QED BY <3>1 DEF Line
  <2>2. [lines EXCEPT ![i].quantity = q] \in Seq(Line)
    BY <1>1, <2>1
  <2> QED BY <1>1, <1>4, <2>2, ChangeKeeps DEF UpdateCartLine
<1> QED BY <1>1, <1>2, <1>3, <1>4

(* A checkout that begins while another with its key runs overlaps it.     *)
LEMMA BeginKeeps ==
    ASSUME Traded, NEW flow \in Flow, NEW key \in Keys, NEW k \in DOMAIN carts, NEW at,
           Begin(flow, key, k, at),
           \/ flow = "direct" /\ at = "reserve" /\ ordered[key] = 0
           \/ flow = "quote" /\ at = "create"
           \/ flow = "approval" /\ at = "price" /\ WithinContract(carts[k].lines)
    PROVE  Traded'
<1>1. PICK new : new = [flow |-> flow, key |-> key, cart |-> k, lines |-> carts[k].lines,
                        at |-> at, held |-> 0, order |-> 0, quote |-> 0, stale |-> FALSE]
  OBVIOUS
<1>2. carts[k] \in Cart /\ k \in Nat
  BY DEF Traded, CallsTyped
<1>3. /\ new \in Call /\ new.flow = flow /\ new.key = key /\ new.cart = k
      /\ new.lines = carts[k].lines /\ new.at = at /\ ~HasOrder(new) /\ ~Over(new)
  BY <1>1, <1>2 DEF Call, Cart, Step, HasOrder, Over
<1>4. /\ calls' = Append(calls, new)
      /\ overlapped' = IF \E n \in DOMAIN calls : Running(n) /\ calls[n].key = key
                       THEN overlapped \cup {key} ELSE overlapped
      /\ UNCHANGED <<carts, books, orders, payments, quotes, ordered>>
  BY <1>1 DEF Begin
<1>5. PICK n : n = Len(calls) + 1
  OBVIOUS
<1>6. /\ calls' \in Seq(Call) /\ DOMAIN calls' = DOMAIN calls \union {n}
      /\ n \notin DOMAIN calls /\ calls'[n] = new
      /\ \A m \in DOMAIN calls : calls'[m] = calls[m]
  BY <1>3, <1>4, <1>5 DEF Traded, CallsTyped
<1>7. HoldsPersist /\ Grows /\ overlapped' \subseteq Keys
  BY <1>4 DEF HoldsPersist, Grows, books, Traded, CallsTyped, OrdersTyped
<1>8. CallOK(new)'
  BY <1>3, <1>4 DEF CallOK, StageOK, HandsOK, OwnOrderOK, KeyOK, HasOrder, Over, WithinContract
<1>9. ASSUME NEW m \in DOMAIN calls' PROVE CallOK(calls[m])'
  <2>1. PICK d : d = calls'[m]
    OBVIOUS
  <2>2. CallOK(d)'
    <3>1. CASE m = n
      BY <1>6, <1>8, <2>1, <3>1
    <3>2. CASE m \in DOMAIN calls
      BY <1>6, <1>7, <2>1, <3>2, CallsGrow
    <3> QED BY <1>6, <3>1, <3>2
  <2> QED BY <2>1, <2>2 DEF CallOK, StageOK, HandsOK, OwnOrderOK, KeyOK, HasOrder, Over,
                            HoldsStock, HoldsBudget, WithinContract
<1>10. ASSUME NEW i \in DOMAIN calls', NEW j \in DOMAIN calls', i # j
       PROVE  Apart(calls[i], calls[j])'
  <2>1. PICK c : c = calls'[i]
    OBVIOUS
  <2>2. PICK d : d = calls'[j]
    OBVIOUS
  <2>3. CASE i \in DOMAIN calls /\ j \in DOMAIN calls
    <3>1. Apart(c, d) /\ overlapped \subseteq overlapped'
      BY <1>6, <1>7, <1>10, <2>1, <2>2, <2>3 DEF Traded, CallsOK, Grows
    <3> QED BY <2>1, <2>2, <3>1 DEF Apart, HasOrder, Over
  <2>4. CASE i = n /\ j \in DOMAIN calls
    <3>1. c = new /\ d = calls[j]
      BY <1>6, <2>1, <2>2, <2>4
    <3>2. d.key = key /\ ~Over(d) => key \in overlapped'
      BY <1>4, <2>4, <3>1 DEF Running, Over
    <3> QED BY <1>3, <2>1, <2>2, <3>1, <3>2 DEF Apart, HasOrder, Over
  <2>5. CASE j = n /\ i \in DOMAIN calls
    <3>1. d = new /\ c = calls[i]
      BY <1>6, <2>1, <2>2, <2>5
    <3>2. c.key = key /\ ~Over(c) => key \in overlapped'
      BY <1>4, <2>5, <3>1 DEF Running, Over
    <3> QED BY <1>3, <2>1, <2>2, <3>1, <3>2 DEF Apart, HasOrder, Over
  <2> QED BY <1>6, <1>10, <2>3, <2>4, <2>5
<1>11. FirmOrdersOK'
  <2>1. \A m \in DOMAIN calls, o \in DOMAIN orders :
          Stores(calls[m], o) => m \in DOMAIN calls' /\ Stores(calls'[m], o)
    BY <1>6
  <2> QED BY <1>4, <1>7, <2>1, FirmGrow
<1> QED BY <1>4, <1>6, <1>7, <1>9, <1>10, <1>11, OrdersGrow
        DEF Traded, OrdersTyped, CallsTyped, CallsOK, OrdersOK, PaymentsApart

(* All of it holds at first, and every action keeps it.                    *)
LEMMA CommerceStarts == CommerceInit => CommerceParts
<1> SUFFICES ASSUME CommerceInit PROVE CommerceParts
  OBVIOUS
<1>1. BooksKept
  <2>1. Ids(reservations) = {} /\ Ids(budgetReservations) = {}
        /\ \A p : Singles(reservations, p) = {}
    BY DEF CommerceInit, Ids, Singles
  <2>2. \A f : SumOf(f, {}) = 0
    BY SumOfNothing
  <2>3. InitialStock \in [Products -> Nat] /\ InitialBudget \in Nat
    BY CommerceAssumption
  <2>4. BooksTyped
    BY <2>3 DEF CommerceInit, BooksTyped
  <2>5. SinglesFit
    BY <2>1, <2>2, <2>3 DEF SinglesFit
  <2>6. stock = InitialStock /\ budget = InitialBudget
    BY DEF CommerceInit
  <2>7. Balance
    BY <2>1, <2>2, <2>3, <2>6 DEF Balance
  <2> QED BY <2>4, <2>5, <2>7 DEF BooksKept
<1>2. Traded
  BY DEF CommerceInit, Traded, OrdersTyped, CallsTyped, CallsOK, OrdersOK, PaymentsApart,
         FirmOrdersOK
<1> QED BY <1>1, <1>2 DEF CommerceParts

LEMMA CommerceKept == CommerceParts /\ [CommerceNext]_commerceVars => CommerceParts'
<1> SUFFICES ASSUME CommerceParts, [CommerceNext]_commerceVars PROVE CommerceParts'
  OBVIOUS
<1> USE DEF CommerceParts
<1>1. ASSUME UNCHANGED books PROVE BooksKept'
  BY <1>1 DEF books, BooksKept, BooksTyped, Balance, SinglesFit, Ids, Singles, Held
<1>2. CASE Shop
  <2>1. Traded'
    BY <1>2, CreateCartKeeps, CartLinesKeep DEF Shop
  <2>2. UNCHANGED books
    BY <1>2 DEF Shop, CreateCart, AddCartLine, RemoveCartLine, UpdateCartLine, Change
  <2> QED BY <1>1, <2>1, <2>2
<1>3. CASE CheckOut
  <2>1. PICK key \in Keys, k \in DOMAIN carts :
          DirectCheckout(key, k) \/ QuoteCheckout(key, k) \/ ApprovalCheckout(key, k)
    BY <1>3 DEF CheckOut
  <2>2. {"direct", "quote", "approval"} \subseteq Flow
    BY DEF Flow
  <2>3. Traded'
    BY <2>1, <2>2, BeginKeeps DEF DirectCheckout, QuoteCheckout, ApprovalCheckout
  <2>4. UNCHANGED books
    BY <2>1 DEF DirectCheckout, QuoteCheckout, ApprovalCheckout, Begin
  <2> QED BY <1>1, <2>3, <2>4
<1>4. CASE \E n \in DOMAIN calls : Continue(n)
  <2>1. PICK n \in DOMAIN calls : Continue(n)
    BY <1>4
  <2>2. calls[n].lines \in Seq(Line) /\ BooksTyped
    BY CallFacts DEF BooksKept
  <2>3. CASE Reserve(n)
    BY <2>2, <2>3, ReserveKeepsBooks, ReserveKeeps
  <2>4. CASE ReserveBudget(n)
    BY <2>2, <2>4, BudgetKeepsBooks, ReserveBudgetKeeps
  <2>5. CASE \/ PriceApproval(n) \/ CreateOrder(n) \/ Authorize(n) \/ Capture(n)
             \/ Transition(n) \/ Commit(n) \/ Finish(n) \/ CreateQuote(n) \/ SendQuote(n)
             \/ Accept(n)
    <3>1. Traded'
      BY <2>5, PriceApprovalKeeps, CreateOrderKeeps, AuthorizeKeeps, CaptureKeeps,
         TransitionKeeps, CommitKeeps, FinishKeeps, CreateQuoteKeeps, SendQuoteKeeps, AcceptKeeps
    <3>2. UNCHANGED books
      BY <2>5 DEF PriceApproval, CreateOrder, Authorize, Capture, Transition, Commit, Finish,
                  CreateQuote, SendQuote, Accept
    <3> QED BY <1>1, <3>1, <3>2
  <2> QED BY <2>1, <2>3, <2>4, <2>5 DEF Continue
<1>5. CASE \E n \in DOMAIN calls : Refused(n)
  <2>1. Traded'
    BY <1>5, RefusedKeeps
  <2>2. UNCHANGED books
    BY <1>5 DEF Refused, ReserveRefused, PriceRefused, BudgetRefused, CaptureRefused,
                TransitionRefused, CommitRefused, AcceptRefused, Fails
  <2> QED BY <1>1, <2>1, <2>2
<1>6. CASE Intervene
  <2>1. CASE \E r \in Ids(reservations) : ReleaseInventory(r)
    BY <2>1, ReleaseKeepsBooks, ReleasesKeep DEF BooksKept
  <2>2. CASE \E r \in Ids(budgetReservations) : ReleaseBudget(r)
    BY <2>2, BudgetKeepsBooks, ReleasesKeep DEF BooksKept
  <2>3. CASE \/ \E q \in DOMAIN quotes : ClientAccepts(q) \/ ClientRejects(q)
             \/ \E o \in DOMAIN orders : CancelOrder(o)
             \/ \E p \in DOMAIN payments : CancelPayment(p)
    <3>1. Traded'
      BY <2>3, ClientAcceptsKeeps, ClientRejectsKeeps, CancelOrderKeeps, CancelPaymentKeeps
    <3>2. UNCHANGED books
      BY <2>3 DEF ClientAccepts, ClientRejects, CancelOrder, CancelPayment
    <3> QED BY <1>1, <3>1, <3>2
  <2> QED BY <1>6, <2>1, <2>2, <2>3 DEF Intervene
<1>7. CASE UNCHANGED commerceVars
  <2>1. Traded'
    BY <1>7 DEF commerceVars, books, Traded, OrdersTyped, CallsTyped, CallsOK, OrdersOK, CallOK,
                StageOK, HandsOK, OwnOrderOK, KeyOK, HasOrder, Over, Apart, OrderOK, HoldsStock,
                HoldsBudget, WithinContract, PaymentsApart, FirmOrdersOK, Firm, Stores
  <2> QED BY <1>1, <1>7, <2>1 DEF commerceVars
<1> QED BY <1>2, <1>3, <1>4, <1>5, <1>6, <1>7 DEF CommerceNext

(* In every state the books, the orders and the running checkouts fit      *)
(* together as above.                                                      *)
THEOREM CommerceInvariance == CommerceSpec => []CommerceParts
<1>1. CommerceInit => CommerceParts
  BY CommerceStarts
<1>2. CommerceParts /\ [CommerceNext]_commerceVars => CommerceParts'
  BY CommerceKept
<1> QED BY <1>1, <1>2, PTL DEF CommerceSpec

(* Every variable of the sandbox keeps its type, and every order and       *)
(* checkout names a payment and a cart that exist.                         *)
LEMMA CommerceTyped == CommerceParts => CommerceTypeOK
<1> SUFFICES ASSUME CommerceParts PROVE CommerceTypeOK
  OBVIOUS
<1>1. \A n \in DOMAIN calls : calls[n].cart \in DOMAIN carts
  BY CallFacts DEF CommerceParts
<1>2. \A o \in DOMAIN orders : orders[o].payment \in 0..Len(payments)
  BY DEF CommerceParts, Traded, OrdersOK, OrderOK
<1> QED BY <1>1, <1>2 DEF CommerceParts, CommerceTypeOK, BooksKept, BooksTyped, Traded,
                          OrdersTyped, CallsTyped, Reservation

(* What the parts say of the properties.                                   *)
LEMMA PartsBack == CommerceParts => ConfirmedIsBacked
  BY DEF CommerceParts, Traded, OrdersOK, OrderOK, HoldsStock, HoldsBudget, ConfirmedIsBacked

LEMMA PartsAreOne == CommerceParts => OneOrderPerKey
<1> SUFFICES ASSUME CommerceParts, NEW key \in Keys \ overlapped,
                    \A o \in ConfirmedFor(key) : reservations[orders[o].held] # Released
             PROVE  Cardinality(ConfirmedFor(key)) <= 1
  BY DEF OneOrderPerKey
<1>1. \A o \in ConfirmedFor(key) : o \in DOMAIN orders /\ Firm(o) /\ orders[o].key = key
  BY DEF ConfirmedFor, Firm
<1>2. \A o, u \in ConfirmedFor(key) : o = u
  BY <1>1 DEF CommerceParts, Traded, OrdersOK, FirmOrdersOK
<1>3. CASE ConfirmedFor(key) = {}
  BY <1>3, FS_EmptySet
<1>4. ASSUME NEW o \in ConfirmedFor(key) PROVE Cardinality(ConfirmedFor(key)) = 1
  <2>1. ConfirmedFor(key) = {o}
    BY <1>2
  <2> QED BY <2>1, FS_Singleton
<1> QED BY <1>3, <1>4

(* However checkouts, failures and releases interleave, stock and budget   *)
(* are on hand or reserved, and stock falls below nothing only through a   *)
(* reservation with several lines of one product.                          *)
THEOREM BooksBalanceHolds == CommerceSpec => []BooksBalance
<1>1. CommerceParts => BooksBalance
  BY KeptBooksBalance DEF CommerceParts
<1> QED BY <1>1, CommerceInvariance, PTL

(* An order names what was reserved for it and a payment of its total,     *)
(* which is captured, or was cancelled, by the time it is confirmed.       *)
THEOREM ConfirmedIsBackedHolds == CommerceSpec => []ConfirmedIsBacked
  BY PartsBack, CommerceInvariance, PTL

(* Direct checkouts that never ran together confirm one order for a key,   *)
(* unless somebody releases the stock of a confirmed one.                  *)
THEOREM OneOrderPerKeyHolds == CommerceSpec => []OneOrderPerKey
  BY PartsAreOne, CommerceInvariance, PTL

-----------------------------------------------------------------------------
(* Parties.  What a merge makes of each of them.                           *)
LEMMA MergedParties ==
    ASSUME PartyTypeOK, NEW survivor \in DOMAIN parties, NEW merged \in SUBSET DOMAIN parties,
           Merge(survivor, merged)
    PROVE  /\ parties' \in Seq(Party) /\ Len(parties) = Len(parties')
           /\ DOMAIN parties' = DOMAIN parties
           /\ \A q \in DOMAIN parties :
                LET old == parties[q]
                    new == parties'[q]
                IN  /\ new.into \in {old.into, survivor} /\ new.tenant = old.tenant
                    /\ new.own = old.own
                    /\ q \in merged => new.status = "Merged" /\ new.into = survivor
                    /\ q \notin merged => new.status = old.status /\ new.into = old.into
                    /\ q # survivor => new.identifiers = old.identifiers
                    /\ q = survivor =>
                         new.identifiers =
                           UNION {parties[p].identifiers : p \in merged \cup {survivor}}
<1> DEFINE all == UNION {parties[p].identifiers : p \in merged \cup {survivor}}
           with == [parties EXCEPT ![survivor].identifiers = all]
<1>1. parties \in Seq(Party) /\ DOMAIN parties = 1..Len(parties) /\ Len(parties) \in Nat
  BY DEF PartyTypeOK
<1>2. \A p \in DOMAIN parties : /\ parties[p] \in Party
                                /\ parties[p].identifiers \in SUBSET Identifiers
  <2>1. \A p \in DOMAIN parties : parties[p] \in Party
    BY <1>1
  <2> QED BY <2>1 DEF Party
<1>3. all \in SUBSET Identifiers
  BY <1>2
<1>4. parties' = [p \in DOMAIN parties |->
                    IF p \in merged THEN MergedParty(with[p], survivor) ELSE with[p]]
  BY DEF Merge
<1> HIDE DEF all
<1>5. ASSUME NEW q \in DOMAIN parties
      PROVE  /\ with[q] \in Party /\ with[q].into = parties[q].into
             /\ with[q].tenant = parties[q].tenant /\ with[q].own = parties[q].own
             /\ with[q].status = parties[q].status
             /\ with[q].identifiers = IF q = survivor THEN all ELSE parties[q].identifiers
  <2>1. PICK old \in Party : old = parties[q]
    BY <1>2
  <2>2. CASE q = survivor
    <3>1. with[q] = [old EXCEPT !.identifiers = all]
      BY <2>1, <2>2
    <3> QED BY <1>3, <2>1, <2>2, <3>1 DEF Party
  <2>3. CASE q # survivor
    <3>1. with[q] = old
      BY <2>1, <2>3
    <3> QED BY <2>1, <2>3, <3>1
  <2> QED BY <2>2, <2>3
<1> HIDE DEF with
<1>6. ASSUME NEW q \in DOMAIN parties
      PROVE  LET old == with[q]
                 new == parties'[q]
             IN  /\ new \in Party /\ new.tenant = old.tenant /\ new.own = old.own
                 /\ new.identifiers = old.identifiers
                 /\ q \in merged => new.status = "Merged" /\ new.into = survivor
                 /\ q \notin merged => new.status = old.status /\ new.into = old.into
  <2>1. PICK old \in Party : old = with[q]
    BY <1>5
  <2>2. CASE q \in merged
    <3>1. parties'[q] = [old EXCEPT !.status = "Merged", !.into = survivor]
      BY <1>4, <2>1, <2>2 DEF MergedParty
    <3>2. survivor \in Nat
      BY <1>1
    <3> QED BY <2>1, <2>2, <3>1, <3>2 DEF Party, PartyStatus
  <2>3. CASE q \notin merged
    <3>1. parties'[q] = old
      BY <1>4, <2>1, <2>3
    <3> QED BY <2>1, <2>3, <3>1
  <2> QED BY <2>2, <2>3
<1>7. parties' \in Seq(Party) /\ DOMAIN parties' = DOMAIN parties /\ Len(parties) = Len(parties')
  <2>1. parties' \in [1..Len(parties) -> Party]
    BY <1>1, <1>4, <1>6
  <2>2. parties' \in Seq(Party)
    BY <1>1, <2>1, SeqDef
  <2> QED BY <1>1, <2>1, <2>2, LenProperties
<1> QED BY <1>5, <1>6, <1>7 DEF all

(* Parties, relations and redirections name parties that exist, and a      *)
(* relationship is between two parties of one tenant.                      *)
THEOREM PartyTypeHolds == PartySpec => []PartyTypeOK
<1>1. PartyInit => PartyTypeOK
  BY DEF PartyInit, PartyTypeOK
<1>2. PartyTypeOK /\ [PartyNext]_partyVars => PartyTypeOK'
  <2> SUFFICES ASSUME PartyTypeOK, [PartyNext]_partyVars PROVE PartyTypeOK'
    OBVIOUS
  <2>1. ASSUME NEW tenant \in PartyTenants, NEW identifiers \in SUBSET Identifiers,
               Create(tenant, identifiers)
        PROVE  PartyTypeOK'
    <3>1. PICK new : new = [tenant |-> tenant, status |-> "Active", identifiers |-> identifiers,
                            into |-> 0, own |-> identifiers]
      OBVIOUS
    <3>2. new \in Party /\ new.into = 0
      BY <3>1 DEF Party, PartyStatus
    <3>3. parties' = Append(parties, new) /\ UNCHANGED <<relations, orderly>>
      BY <2>1, <3>1 DEF Create
    <3>4. /\ parties \in Seq(Party) /\ parties' \in Seq(Party) /\ Len(parties) <= Len(parties')
          /\ \A p \in DOMAIN parties : p \in DOMAIN parties' /\ parties'[p] = parties[p]
          /\ \A p \in DOMAIN parties' : p \in DOMAIN parties \/ parties'[p] = new
      BY <3>2, <3>3 DEF PartyTypeOK
    <3>5. \A p \in DOMAIN parties' : parties'[p].into \in 0..Len(parties')
      BY <3>2, <3>4 DEF PartyTypeOK
    <3> QED BY <3>3, <3>4, <3>5 DEF PartyTypeOK
  <2>2. ASSUME NEW p \in DOMAIN parties, Archive(p) PROVE PartyTypeOK'
    <3>1. PICK new : new = [parties[p] EXCEPT !.status = "Archived"]
      OBVIOUS
    <3>2. parties \in Seq(Party) /\ parties[p] \in Party
      BY DEF PartyTypeOK
    <3>3. new \in Party /\ new.into = parties[p].into /\ new.tenant = parties[p].tenant
      BY <3>1, <3>2 DEF Party, PartyStatus
    <3>4. parties' = [parties EXCEPT ![p] = new] /\ UNCHANGED relations
      BY <2>2, <3>1 DEF Archive
    <3>5. /\ parties' \in Seq(Party) /\ Len(parties) = Len(parties')
          /\ DOMAIN parties' = DOMAIN parties
          /\ \A q \in DOMAIN parties : /\ parties'[q].into = parties[q].into
                                       /\ parties'[q].tenant = parties[q].tenant
      BY <3>2, <3>3, <3>4
    <3>6. orderly' \in BOOLEAN
      BY <2>2 DEF Archive
    <3> QED BY <3>4, <3>5, <3>6 DEF PartyTypeOK
  <2>3. ASSUME NEW p \in DOMAIN parties, NEW q \in DOMAIN parties, NEW kind \in RelationKinds,
               Relate(p, q, kind)
        PROVE  PartyTypeOK'
    <3>1. PICK r : r = [from |-> p, to |-> q, kind |-> kind]
      OBVIOUS
    <3>2. p \in Nat /\ q \in Nat
      BY DEF PartyTypeOK
    <3>3. /\ r \in Relation /\ {r.from, r.to} \subseteq DOMAIN parties /\ r.from # r.to
          /\ parties[r.from].tenant = parties[r.to].tenant
      BY <2>3, <3>1, <3>2 DEF Relate, Relation
    <3>4. relations' = relations \cup {r} /\ UNCHANGED <<parties, orderly>>
      BY <2>3, <3>1 DEF Relate
    <3> QED BY <3>3, <3>4 DEF PartyTypeOK
  <2>4. ASSUME NEW p \in DOMAIN parties, NEW merged \in SUBSET DOMAIN parties, Merge(p, merged)
        PROVE  PartyTypeOK'
    <3>1. /\ parties' \in Seq(Party) /\ Len(parties) = Len(parties')
          /\ DOMAIN parties' = DOMAIN parties
          /\ \A q \in DOMAIN parties : /\ parties'[q].into \in {parties[q].into, p}
                                       /\ parties'[q].tenant = parties[q].tenant
      BY <2>4, MergedParties
    <3>2. orderly' \in BOOLEAN /\ UNCHANGED relations
      BY <2>4 DEF Merge
    <3>3. \A q \in DOMAIN parties' : parties'[q].into \in 0..Len(parties')
      BY <3>1 DEF PartyTypeOK
    <3> QED BY <3>1, <3>2, <3>3 DEF PartyTypeOK
  <2>5. CASE UNCHANGED partyVars
    BY <2>5 DEF partyVars, PartyTypeOK
  <2> QED BY <2>1, <2>2, <2>3, <2>4, <2>5 DEF PartyNext
<1> QED BY <1>1, <1>2, PTL DEF PartySpec

-----------------------------------------------------------------------------
(* Loops: what is done again and again has a result after every round.     *)
Iterates(f, N, a, G) == f = [n \in 0..N |-> IF n = 0 THEN a ELSE G[f[n - 1]]]

LEMMA Iterated ==
    ASSUME NEW N \in Nat, NEW A, NEW a \in A, NEW G \in [A -> A]
    PROVE  \E f \in [0..N -> A] : Iterates(f, N, a, G)
<1> DEFINE Rounds(f, n) == \A k \in 0..n : f[k] = IF k = 0 THEN a ELSE G[f[k - 1]]
           T == {n \in Nat : \E f \in [0..n -> A] : Rounds(f, n)}
<1>1. 0 \in T
  <2>1. PICK f \in [0..0 -> A] : f = [k \in 0..0 |-> a]
    OBVIOUS
  <2> QED BY <2>1
<1>2. ASSUME NEW n \in Nat, n \in T PROVE n + 1 \in T
  <2>1. PICK f \in [0..n -> A] : Rounds(f, n)
    BY <1>2
  <2>2. PICK g : g = [k \in 0..(n + 1) |-> IF k = n + 1 THEN G[f[n]] ELSE f[k]]
    OBVIOUS
  <2>3. f[n] \in A /\ G[f[n]] \in A
    OBVIOUS
  <2>4. g \in [0..(n + 1) -> A]
    BY <2>2, <2>3
  <2>5. Rounds(g, n + 1)
    BY <2>1, <2>2
  <2> QED BY <2>4, <2>5
<1>3. N \in T
  <2> HIDE DEF T
  <2> QED BY <1>1, <1>2, SetInduction
<1>4. PICK f \in [0..N -> A] : Rounds(f, N)
  BY <1>3
<1>5. f = [n \in 0..N |-> IF n = 0 THEN a ELSE G[f[n - 1]]]
  BY <1>4
<1> QED BY <1>5 DEF Iterates

(* The rounds of traverse, and what they have done by then.                *)
Walk(w, p, kind, direction) ==
    w = [n \in 0..Len(parties) |->
           IF n = 0 THEN [queue |-> {p}, found |-> {p}]
           ELSE IF w[n - 1].queue = {} THEN w[n - 1]
                ELSE Visit(w[n - 1], kind, direction)]

Walks == [queue : SUBSET DOMAIN parties, found : SUBSET DOMAIN parties]

LEMMA RelatedAreParties ==
    ASSUME PartyTypeOK, NEW p, NEW kind, NEW direction
    PROVE  Related(p, kind, direction) \in SUBSET DOMAIN parties
  BY DEF PartyTypeOK, Related

LEMMA Visited ==
    ASSUME PartyTypeOK, NEW x \in Walks, x.queue # {}, NEW kind, NEW direction
    PROVE  \E current \in x.queue :
             LET new == Related(current, kind, direction) \ x.found
             IN  /\ Visit(x, kind, direction) =
                      [queue |-> (x.queue \ {current}) \cup new, found |-> x.found \cup new]
                 /\ Visit(x, kind, direction) \in Walks
<1>1. PICK current \in x.queue : current = CHOOSE p \in x.queue : TRUE
  OBVIOUS
<1>2. Related(current, kind, direction) \in SUBSET DOMAIN parties
  BY RelatedAreParties
<1>3. Visit(x, kind, direction) =
        [queue |-> (x.queue \ {current}) \cup (Related(current, kind, direction) \ x.found),
         found |-> x.found \cup (Related(current, kind, direction) \ x.found)]
  BY <1>1 DEF Visit
<1>4. PICK new : new = Related(current, kind, direction) \ x.found
  OBVIOUS
<1>5. Visit(x, kind, direction) =
        [queue |-> (x.queue \ {current}) \cup new, found |-> x.found \cup new]
  BY <1>3, <1>4
<1>6. [queue |-> (x.queue \ {current}) \cup new, found |-> x.found \cup new] \in Walks
  BY <1>2, <1>4 DEF Walks
<1> QED BY <1>1, <1>4, <1>5, <1>6

(* The rounds are well defined.                                            *)
LEMMA TraverseWalks ==
    ASSUME PartyTypeOK, NEW p \in DOMAIN parties, NEW kind, NEW direction
    PROVE  \E w \in [0..Len(parties) -> Walks] :
             /\ Walk(w, p, kind, direction)
             /\ Traverse(p, kind, direction) = w[Len(parties)].found \ {p}
<1>1. Len(parties) \in Nat
  BY DEF PartyTypeOK
<1>2. PICK start \in Walks : start = [queue |-> {p}, found |-> {p}]
  BY DEF Walks
<1> DEFINE G == [x \in Walks |-> IF x.queue = {} THEN x ELSE Visit(x, kind, direction)]
<1>3. G \in [Walks -> Walks]
  BY Visited
<1>4. PICK f \in [0..Len(parties) -> Walks] : Iterates(f, Len(parties), start, G)
  <2> HIDE DEF G
  <2> QED BY <1>1, <1>2, <1>3, Iterated
<1>5. Walk(f, p, kind, direction)
  <2>1. \A n \in 0..Len(parties) : n # 0 => f[n - 1] \in Walks
    BY <1>1
  <2>2. \A n \in 0..Len(parties) : n # 0 =>
          G[f[n - 1]] = IF f[n - 1].queue = {} THEN f[n - 1] ELSE Visit(f[n - 1], kind, direction)
    BY <2>1
  <2> HIDE DEF G
  <2> QED BY <1>2, <1>4, <2>2 DEF Walk, Iterates
<1> DEFINE w == CHOOSE w : Walk(w, p, kind, direction)
<1>6. Walk(w, p, kind, direction)
  BY <1>5
<1>7. Traverse(p, kind, direction) = w[Len(parties)].found \ {p}
  BY DEF Traverse, Walk
<1> HIDE DEF w
<1>8. w = f
  <2> DEFINE T == {n \in Nat : n <= Len(parties) => w[n] = f[n]}
  <2>1. 0 \in T
    BY <1>1, <1>5, <1>6 DEF Walk
  <2>2. ASSUME NEW n \in Nat, n \in T PROVE n + 1 \in T
    <3> SUFFICES ASSUME n + 1 <= Len(parties) PROVE w[n + 1] = f[n + 1]
      OBVIOUS
    <3>1. n + 1 \in 0..Len(parties) /\ n + 1 # 0 /\ (n + 1) - 1 = n /\ w[n] = f[n]
      BY <1>1, <2>2
    <3>2. w[n + 1] = IF w[n].queue = {} THEN w[n] ELSE Visit(w[n], kind, direction)
      BY <1>6, <3>1 DEF Walk
    <3>3. f[n + 1] = IF f[n].queue = {} THEN f[n] ELSE Visit(f[n], kind, direction)
      BY <1>5, <3>1 DEF Walk
    <3> QED BY <3>1, <3>2, <3>3
  <2>3. \A n \in 0..Len(parties) : w[n] = f[n]
    <3> HIDE DEF T
    <3>1. Nat \subseteq T
      BY <2>1, <2>2, SetInduction
    <3> QED BY <1>1, <3>1 DEF T
  <2> QED BY <1>6, <2>3 DEF Walk
<1> QED BY <1>5, <1>7, <1>8

(* What is found is reached; what was found and is not queued any more has *)
(* its relations found; and every round that has one to take takes one.    *)
WalkOK(x, n, p, kind, direction) ==
    /\ p \in x.found /\ x.queue \subseteq x.found
    /\ \A s \in x.found \ x.queue : Related(s, kind, direction) \subseteq x.found
    /\ \A S \in SUBSET DOMAIN parties :
         p \in S /\ (\A s \in S : Related(s, kind, direction) \subseteq S) => x.found \subseteq S
    /\ x.queue = {} \/ n <= Cardinality(x.found \ x.queue)

LEMMA WalkStep ==
    ASSUME PartyTypeOK, NEW x \in Walks, NEW n \in Nat, NEW p, NEW kind, NEW direction,
           WalkOK(x, n, p, kind, direction), x.queue # {}
    PROVE  WalkOK(Visit(x, kind, direction), n + 1, p, kind, direction)
<1>1. PICK current \in x.queue :
        Visit(x, kind, direction) =
          [queue |-> (x.queue \ {current}) \cup (Related(current, kind, direction) \ x.found),
           found |-> x.found \cup (Related(current, kind, direction) \ x.found)]
  BY Visited
<1>2. PICK y : y = Visit(x, kind, direction)
  OBVIOUS
<1>3. PICK new : new = Related(current, kind, direction) \ x.found
  OBVIOUS
<1>4. y.queue = (x.queue \ {current}) \cup new /\ y.found = x.found \cup new
  BY <1>1, <1>2, <1>3
<1>5. current \in x.found /\ p \in x.found /\ x.queue \subseteq x.found
  BY DEF WalkOK
<1>6. y.found \ y.queue = (x.found \ x.queue) \union {current} /\ current \notin x.found \ x.queue
  BY <1>3, <1>4, <1>5
<1>7. \A s \in y.found \ y.queue : Related(s, kind, direction) \subseteq y.found
  BY <1>3, <1>4, <1>6 DEF WalkOK
<1>8. ASSUME NEW S \in SUBSET DOMAIN parties, p \in S,
             \A s \in S : Related(s, kind, direction) \subseteq S
      PROVE  y.found \subseteq S
  <2>1. x.found \subseteq S
    BY <1>8 DEF WalkOK
  <2> QED BY <1>3, <1>4, <1>5, <1>8, <2>1
<1>9. n + 1 <= Cardinality(y.found \ y.queue)
  <2>1. IsFiniteSet(x.found \ x.queue)
    <3>1. IsFiniteSet(DOMAIN parties)
      BY FS_Interval DEF PartyTypeOK
    <3>2. x.found \ x.queue \in SUBSET DOMAIN parties
      BY DEF Walks
    <3> QED BY <3>1, <3>2, FS_Subset
  <2>2. Cardinality((x.found \ x.queue) \union {current}) = Cardinality(x.found \ x.queue) + 1
    BY <1>6, <2>1, FS_AddElement
  <2>3. n <= Cardinality(x.found \ x.queue) /\ Cardinality(x.found \ x.queue) \in Nat
    BY <2>1, FS_CardinalityType DEF WalkOK
  <2> QED BY <1>6, <2>2, <2>3
<1> QED BY <1>2, <1>4, <1>5, <1>7, <1>8, <1>9 DEF WalkOK

(* Nothing is queued after as many rounds as there are parties, so what is *)
(* found is closed under the relation.                                     *)
LEMMA HierarchyComplete == PartyTypeOK => HierarchyIsComplete
<1> SUFFICES ASSUME PartyTypeOK, NEW p \in DOMAIN parties, NEW kind \in RelationKinds,
                    NEW direction \in {"Up", "Down"}
             PROVE  Traverse(p, kind, direction) = Reachable(p, kind, direction)
  BY DEF HierarchyIsComplete
<1> DEFINE N == Len(parties)
<1>1. N \in Nat /\ DOMAIN parties = 1..N
  BY DEF PartyTypeOK
<1>2. PICK w \in [0..N -> Walks] :
        Walk(w, p, kind, direction) /\ Traverse(p, kind, direction) = w[N].found \ {p}
  BY TraverseWalks
<1>3. WalkOK(w[N], N, p, kind, direction)
  <2> DEFINE T == {n \in Nat : n <= N => WalkOK(w[n], n, p, kind, direction)}
  <2>1. 0 \in T
    <3>1. PICK x : x = w[0]
      OBVIOUS
    <3>2. x = [queue |-> {p}, found |-> {p}]
      BY <1>1, <1>2, <3>1 DEF Walk
    <3>3. x.found = {p} /\ x.queue = {p} /\ x.found \ x.queue = {}
      BY <3>2
    <3>4. Cardinality(x.found \ x.queue) = 0
      BY <3>3, FS_EmptySet
    <3>5. WalkOK(x, 0, p, kind, direction)
      BY <3>3, <3>4 DEF WalkOK
    <3> QED BY <3>1, <3>5
  <2>2. ASSUME NEW n \in Nat, n \in T PROVE n + 1 \in T
    <3> SUFFICES ASSUME n + 1 <= N PROVE WalkOK(w[n + 1], n + 1, p, kind, direction)
      OBVIOUS
    <3>1. n \in 0..N /\ n + 1 \in 0..N /\ n + 1 # 0 /\ (n + 1) - 1 = n /\ w[n] \in Walks
      BY <1>1
    <3>2. WalkOK(w[n], n, p, kind, direction)
      BY <1>1, <2>2
    <3>3. CASE w[n].queue = {}
      <4>1. w[n + 1] = w[n]
        BY <1>2, <3>1, <3>3 DEF Walk
      <4> QED BY <3>2, <3>3, <4>1 DEF WalkOK
    <3>4. CASE w[n].queue # {}
      <4>1. w[n + 1] = Visit(w[n], kind, direction)
        BY <1>2, <3>1, <3>4 DEF Walk
      <4> QED BY <3>1, <3>2, <3>4, <4>1, WalkStep
    <3> QED BY <3>3, <3>4
  <2> HIDE DEF T
  <2>3. N \in T
    BY <1>1, <2>1, <2>2, SetInduction
  <2> QED BY <1>1, <2>3 DEF T
<1>4. PICK x \in Walks : x = w[N]
  BY <1>1
<1>5. x.queue = {}
  <2>1. SUFFICES ASSUME x.queue # {} PROVE FALSE
    OBVIOUS
  <2>2. N <= Cardinality(x.found \ x.queue)
    BY <1>3, <1>4, <2>1 DEF WalkOK
  <2>3. x.found \ x.queue \in SUBSET DOMAIN parties /\ x.queue \in SUBSET DOMAIN parties
    BY DEF Walks
  <2>4. IsFiniteSet(DOMAIN parties) /\ Cardinality(DOMAIN parties) = N
    BY <1>1, FS_Interval
  <2>5. x.found \ x.queue = DOMAIN parties
    <3>1. /\ Cardinality(x.found \ x.queue) \in Nat
          /\ Cardinality(x.found \ x.queue) <= N
          /\ Cardinality(x.found \ x.queue) = N => x.found \ x.queue = DOMAIN parties
      BY <1>1, <2>3, <2>4, FS_Subset, FS_CardinalityType
    <3> QED BY <1>1, <2>2, <3>1
  <2> QED BY <2>1, <2>3, <2>5
<1>6. \A s \in x.found : Related(s, kind, direction) \subseteq x.found
  BY <1>3, <1>4, <1>5 DEF WalkOK
<1>7. p \in x.found /\ x.found \in SUBSET DOMAIN parties
  BY <1>3, <1>4 DEF WalkOK, Walks
<1>8. Reachable(p, kind, direction) \subseteq x.found \ {p}
  BY <1>6, <1>7 DEF Reachable
<1>9. x.found \ {p} \subseteq Reachable(p, kind, direction)
  BY <1>3, <1>4, <1>7 DEF Reachable, WalkOK
<1> QED BY <1>2, <1>4, <1>8, <1>9

-----------------------------------------------------------------------------
(* Merging.  Every party has a root, where its redirections lead to, at    *)
(* most as many steps away as there are parties with redirections.         *)
Redirected == {p \in DOMAIN parties : parties[p].into # 0}

RootsOK(root, far) ==
    \A p \in DOMAIN parties :
      /\ parties[p].status = "Merged" <=> p \in Redirected
      /\ p \notin Redirected => root[p] = p /\ far[p] = 0
      /\ p \in Redirected => /\ parties[p].into \in DOMAIN parties
                             /\ root[p] = root[parties[p].into]
                             /\ far[parties[p].into] < far[p]
      /\ root[p] \notin Redirected /\ far[p] <= Cardinality(Redirected)
      /\ parties[root[p]].tenant = parties[p].tenant
      /\ parties[p].own \subseteq parties[root[p]].identifiers

Rooted ==
    \E root \in [DOMAIN parties -> DOMAIN parties], far \in [DOMAIN parties -> Nat] :
      RootsOK(root, far)

(* No two parties that are not Merged have an identifier in common.        *)
OneHolder ==
    \A p, q \in DOMAIN parties, i \in Identifiers :
      /\ parties[p].status # "Merged" /\ parties[q].status # "Merged"
      /\ parties[p].tenant = parties[q].tenant
      /\ i \in parties[p].identifiers /\ i \in parties[q].identifiers
      => p = q

PartyParts == PartyTypeOK /\ (orderly => Rooted /\ OneHolder)

LEMMA RedirectedIsFinite ==
    PartyTypeOK => /\ IsFiniteSet(Redirected) /\ Cardinality(Redirected) \in Nat
                   /\ Cardinality(Redirected) <= Len(parties)
<1> SUFFICES ASSUME PartyTypeOK
             PROVE  /\ IsFiniteSet(Redirected) /\ Cardinality(Redirected) \in Nat
                    /\ Cardinality(Redirected) <= Len(parties)
  OBVIOUS
<1>1. Len(parties) \in Nat /\ DOMAIN parties = 1..Len(parties)
  BY DEF PartyTypeOK
<1>2. IsFiniteSet(DOMAIN parties) /\ Cardinality(DOMAIN parties) = Len(parties)
  <2>1. ASSUME NEW N \in Nat PROVE IsFiniteSet(1..N) /\ Cardinality(1..N) = N
    BY FS_Interval
  <2> QED BY <1>1, <2>1
<1>3. Redirected \in SUBSET DOMAIN parties
  BY DEF Redirected
<1> QED BY <1>2, <1>3, FS_Subset, FS_CardinalityType

(* A party is created only when nobody has an identifier of it.            *)
LEMMA CreateKeepsRoots ==
    ASSUME PartyTypeOK, NEW tenant \in PartyTenants, NEW identifiers \in SUBSET Identifiers,
           Create(tenant, identifiers), Rooted, OneHolder
    PROVE  Rooted' /\ OneHolder'
<1>1. PICK new : new = [tenant |-> tenant, status |-> "Active", identifiers |-> identifiers,
                        into |-> 0, own |-> identifiers]
  OBVIOUS
<1>2. /\ new.tenant = tenant /\ new.status = "Active" /\ new.identifiers = identifiers
      /\ new.into = 0 /\ new.own = identifiers
  BY <1>1
<1>3. PICK id : id = Len(parties) + 1
  OBVIOUS
<1>4. parties' = Append(parties, new) /\ \A i \in identifiers : Holders(tenant, i) = {}
  BY <1>1 DEF Create
<1>5. /\ DOMAIN parties' = DOMAIN parties \union {id} /\ id \notin DOMAIN parties
      /\ parties'[id] = new /\ \A p \in DOMAIN parties : parties'[p] = parties[p]
  BY <1>3, <1>4 DEF PartyTypeOK
<1>6. PICK root \in [DOMAIN parties -> DOMAIN parties], far \in [DOMAIN parties -> Nat] :
        RootsOK(root, far)
  BY DEF Rooted
<1>7. PICK above : above = [p \in DOMAIN parties' |-> IF p = id THEN id ELSE root[p]]
  OBVIOUS
<1>8. PICK deep : deep = [p \in DOMAIN parties' |-> IF p = id THEN 0 ELSE far[p]]
  OBVIOUS
<1>9. /\ above \in [DOMAIN parties' -> DOMAIN parties'] /\ deep \in [DOMAIN parties' -> Nat]
      /\ above[id] = id /\ deep[id] = 0
      /\ \A p \in DOMAIN parties : above[p] = root[p] /\ deep[p] = far[p]
  BY <1>5, <1>7, <1>8
<1>10. Redirected' = Redirected /\ Cardinality(Redirected) \in Nat
  BY <1>2, <1>5, RedirectedIsFinite DEF Redirected
<1>11. RootsOK(above, deep)'
  <2>1. ASSUME NEW p \in DOMAIN parties
        PROVE  /\ parties'[p].status = "Merged" <=> p \in Redirected
               /\ p \notin Redirected => above[p] = p /\ deep[p] = 0
               /\ p \in Redirected => /\ parties'[p].into \in DOMAIN parties'
                                      /\ above[p] = above[parties'[p].into]
                                      /\ deep[parties'[p].into] < deep[p]
               /\ above[p] \notin Redirected /\ deep[p] <= Cardinality(Redirected)
               /\ parties'[above[p]].tenant = parties'[p].tenant
               /\ parties'[p].own \subseteq parties'[above[p]].identifiers
    <3>1. root[p] \in DOMAIN parties
      BY <1>6
    <3>2. parties'[p] = parties[p] /\ parties'[root[p]] = parties[root[p]] /\ above[p] = root[p]
      BY <1>5, <1>9, <3>1
    <3> QED BY <1>5, <1>6, <1>9, <3>2 DEF RootsOK
  <2>2. id \notin Redirected
    BY <1>5 DEF Redirected
  <2>3. /\ parties'[id].status # "Merged" /\ above[id] = id /\ deep[id] = 0
        /\ deep[id] <= Cardinality(Redirected)
        /\ parties'[id].own \subseteq parties'[above[id]].identifiers
    BY <1>2, <1>5, <1>9, <1>10
  <2> QED BY <1>5, <1>10, <2>1, <2>2, <2>3 DEF RootsOK
<1>12. Rooted'
  BY <1>9, <1>11 DEF Rooted
<1>13. OneHolder'
  <2>1. \A p \in DOMAIN parties, i \in identifiers :
          parties[p].tenant = tenant /\ parties[p].status # "Merged" => i \notin parties[p].identifiers
    BY <1>4 DEF Holders
  <2> QED BY <1>2, <1>5, <2>1 DEF OneHolder
<1> QED BY <1>12, <1>13

LEMMA ArchiveKeepsRoots ==
    ASSUME PartyTypeOK, NEW q \in DOMAIN parties, Archive(q), parties[q].into = 0,
           Rooted, OneHolder
    PROVE  Rooted' /\ OneHolder'
<1>1. /\ parties \in Seq(Party) /\ parties[q] \in Party
      /\ parties' = [parties EXCEPT ![q].status = "Archived"]
  BY DEF PartyTypeOK, Archive
<1>2. PICK new : new = [parties[q] EXCEPT !.status = "Archived"]
  OBVIOUS
<1>3. /\ new.status = "Archived" /\ new.into = parties[q].into /\ new.tenant = parties[q].tenant
      /\ new.own = parties[q].own /\ new.identifiers = parties[q].identifiers
  BY <1>1, <1>2 DEF Party
<1>4. parties' = [parties EXCEPT ![q] = new]
  BY <1>1, <1>2
<1>5. /\ DOMAIN parties' = DOMAIN parties
      /\ \A p \in DOMAIN parties :
           LET old == parties[p]
               now == parties'[p]
           IN  /\ now.into = old.into /\ now.tenant = old.tenant /\ now.own = old.own
               /\ now.identifiers = old.identifiers
               /\ now.status = IF p = q THEN "Archived" ELSE old.status
  BY <1>1, <1>3, <1>4
<1>6. PICK root \in [DOMAIN parties -> DOMAIN parties], far \in [DOMAIN parties -> Nat] :
        RootsOK(root, far)
  BY DEF Rooted
<1>7. Redirected' = Redirected /\ q \notin Redirected
  BY <1>5 DEF Redirected
<1>8. parties[q].status # "Merged"
  BY <1>6, <1>7 DEF RootsOK
<1>9. RootsOK(root, far)'
  BY <1>5, <1>6, <1>7 DEF RootsOK
<1> QED BY <1>5, <1>6, <1>8, <1>9 DEF Rooted, OneHolder

(* Who was led to a merged party is led to the survivor, one step further. *)
LEMMA MergeKeepsRoots ==
    ASSUME PartyTypeOK, NEW survivor \in DOMAIN parties, NEW merged \in SUBSET DOMAIN parties,
           merged # {}, Merge(survivor, merged), survivor \notin merged,
           \A p \in merged \cup {survivor} : parties[p].into = 0,
           Rooted, OneHolder
    PROVE  Rooted' /\ OneHolder'
<1>1. /\ DOMAIN parties' = DOMAIN parties
      /\ \A q \in DOMAIN parties :
           LET old == parties[q]
               new == parties'[q]
           IN  /\ new.tenant = old.tenant /\ new.own = old.own
               /\ q \in merged => new.status = "Merged" /\ new.into = survivor
               /\ q \notin merged => new.status = old.status /\ new.into = old.into
               /\ q # survivor => new.identifiers = old.identifiers
               /\ q = survivor =>
                    new.identifiers = UNION {parties[p].identifiers : p \in merged \cup {survivor}}
  BY MergedParties
<1>2. \A p \in merged : parties[p].tenant = parties[survivor].tenant
  BY DEF Merge
<1>3. survivor # 0 /\ survivor \notin Redirected /\ \A p \in merged : p \notin Redirected
  BY DEF PartyTypeOK, Redirected
<1>4. PICK root \in [DOMAIN parties -> DOMAIN parties], far \in [DOMAIN parties -> Nat] :
        RootsOK(root, far)
  BY DEF Rooted
<1>5. PICK above : above = [p \in DOMAIN parties |->
                              IF root[p] \in merged THEN survivor ELSE root[p]]
  OBVIOUS
<1>6. PICK deep : deep = [p \in DOMAIN parties |->
                            IF root[p] \in merged THEN far[p] + 1 ELSE far[p]]
  OBVIOUS
<1>7. Redirected' = Redirected \union merged
  BY <1>1, <1>3 DEF Redirected
<1>8. /\ Cardinality(Redirected) \in Nat /\ Cardinality(Redirected') \in Nat
      /\ Cardinality(Redirected) + 1 <= Cardinality(Redirected')
  <2>1. PICK m \in merged : TRUE
    OBVIOUS
  <2>2. IsFiniteSet(Redirected) /\ Cardinality(Redirected) \in Nat
    BY RedirectedIsFinite
  <2>3. IsFiniteSet(Redirected')
    <3>1. IsFiniteSet(DOMAIN parties)
      BY FS_Interval DEF PartyTypeOK
    <3>2. Redirected' \in SUBSET DOMAIN parties
      BY <1>7 DEF Redirected
    <3> QED BY <3>1, <3>2, FS_Subset
  <2>4. /\ Cardinality(Redirected \union {m}) = Cardinality(Redirected) + 1
        /\ Redirected \union {m} \in SUBSET (Redirected')
    BY <1>3, <1>7, <2>1, <2>2, FS_AddElement
  <2>5. Cardinality(Redirected \union {m}) <= Cardinality(Redirected')
    BY <2>3, <2>4, FS_Subset
  <2> QED BY <2>2, <2>3, <2>4, <2>5, FS_CardinalityType
<1>9. /\ above \in [DOMAIN parties' -> DOMAIN parties'] /\ deep \in [DOMAIN parties' -> Nat]
      /\ \A p \in DOMAIN parties :
           IF root[p] \in merged THEN above[p] = survivor /\ deep[p] = far[p] + 1
           ELSE above[p] = root[p] /\ deep[p] = far[p]
  BY <1>1, <1>4, <1>5, <1>6
<1>10. root[survivor] = survivor /\ above[survivor] = survivor /\ deep[survivor] = 0
  BY <1>3, <1>4, <1>9 DEF RootsOK
<1>11. ASSUME NEW p \in DOMAIN parties
       PROVE  /\ parties'[p].status = "Merged" <=> p \in Redirected'
              /\ p \notin Redirected' => above[p] = p /\ deep[p] = 0
              /\ p \in Redirected' => /\ parties'[p].into \in DOMAIN parties'
                                      /\ above[p] = above[parties'[p].into]
                                      /\ deep[parties'[p].into] < deep[p]
              /\ above[p] \notin Redirected' /\ deep[p] <= Cardinality(Redirected')
              /\ parties'[above[p]].tenant = parties'[p].tenant
              /\ parties'[p].own \subseteq parties'[above[p]].identifiers
  <2>1. /\ root[p] \in DOMAIN parties /\ root[p] \notin Redirected /\ far[p] \in Nat
        /\ far[p] <= Cardinality(Redirected)
        /\ parties[root[p]].tenant = parties[p].tenant
        /\ parties[p].own \subseteq parties[root[p]].identifiers
        /\ parties[p].status = "Merged" <=> p \in Redirected
        /\ p \notin Redirected => root[p] = p /\ far[p] = 0
        /\ p \in Redirected => /\ parties[p].into \in DOMAIN parties
                               /\ root[p] = root[parties[p].into]
                               /\ far[parties[p].into] < far[p]
    BY <1>4 DEF RootsOK
  <2>2. parties'[p].status = "Merged" <=> p \in Redirected'
    BY <1>1, <1>7, <2>1
  <2>3. p \notin Redirected' => above[p] = p /\ deep[p] = 0
    BY <1>7, <1>9, <2>1
  <2>4. p \in Redirected' => /\ parties'[p].into \in DOMAIN parties'
                             /\ above[p] = above[parties'[p].into]
                             /\ deep[parties'[p].into] < deep[p]
    <3>1. CASE p \in merged
      <4>1. parties'[p].into = survivor /\ root[p] = p /\ far[p] = 0
        BY <1>1, <1>3, <2>1, <3>1
      <4> QED BY <1>1, <1>9, <1>10, <3>1, <4>1
    <3>2. CASE p \notin merged /\ p \in Redirected
      <4>1. PICK q \in DOMAIN parties : q = parties[p].into /\ q = parties'[p].into
        BY <1>1, <2>1, <3>2
      <4>2. root[p] = root[q] /\ far[q] < far[p] /\ far[q] \in Nat
        BY <2>1, <3>2, <4>1
      <4> QED BY <1>1, <1>9, <2>1, <4>1, <4>2
    <3> QED BY <1>7, <3>1, <3>2
  <2>5. above[p] \notin Redirected' /\ deep[p] <= Cardinality(Redirected')
    BY <1>3, <1>7, <1>8, <1>9, <2>1
  <2>6. parties'[above[p]].tenant = parties'[p].tenant
    BY <1>1, <1>2, <1>9, <2>1
  <2>7. parties'[p].own \subseteq parties'[above[p]].identifiers
    <3>1. CASE root[p] \in merged \cup {survivor}
      <4>1. above[p] = survivor
        BY <1>9, <3>1
      <4>2. parties[root[p]].identifiers \subseteq parties'[survivor].identifiers
        BY <1>1, <3>1
      <4> QED BY <1>1, <2>1, <4>1, <4>2
    <3>2. CASE root[p] \notin merged \cup {survivor}
      BY <1>1, <1>9, <2>1, <3>2
    <3> QED BY <3>1, <3>2
  <2> QED BY <2>2, <2>3, <2>4, <2>5, <2>6, <2>7
<1>12. RootsOK(above, deep)'
  BY <1>1, <1>11 DEF RootsOK
<1>13. Rooted'
  BY <1>9, <1>12 DEF Rooted
<1>14. OneHolder'
  <2> SUFFICES ASSUME NEW p \in DOMAIN parties, NEW q \in DOMAIN parties, NEW i \in Identifiers,
                      parties'[p].status # "Merged", parties'[q].status # "Merged",
                      parties'[p].tenant = parties'[q].tenant,
                      i \in parties'[p].identifiers, i \in parties'[q].identifiers
               PROVE  p = q
    BY <1>1 DEF OneHolder
  <2>1. p \notin merged /\ q \notin merged
    BY <1>1
  <2>2. \A o \in merged \cup {survivor} : parties[o].status # "Merged"
    BY <1>3, <1>4 DEF RootsOK
  <2>3. ASSUME NEW o \in DOMAIN parties, o \notin merged, i \in parties'[o].identifiers
        PROVE  \E u \in DOMAIN parties :
                 /\ i \in parties[u].identifiers /\ parties[u].tenant = parties[o].tenant
                 /\ parties[u].status # "Merged" \/ u = o
                 /\ u = o \/ (o = survivor /\ u \in merged)
    <3>1. CASE o = survivor
      BY <1>1, <1>2, <2>2, <2>3, <3>1
    <3>2. CASE o # survivor
      BY <1>1, <2>3, <3>2
    <3> QED BY <3>1, <3>2
  <2>4. PICK u \in DOMAIN parties :
          /\ i \in parties[u].identifiers /\ parties[u].tenant = parties[p].tenant
          /\ parties[u].status # "Merged" \/ u = p
          /\ u = p \/ (p = survivor /\ u \in merged)
    BY <2>1, <2>3
  <2>5. PICK v \in DOMAIN parties :
          /\ i \in parties[v].identifiers /\ parties[v].tenant = parties[q].tenant
          /\ parties[v].status # "Merged" \/ v = q
          /\ v = q \/ (q = survivor /\ v \in merged)
    BY <2>1, <2>3
  <2>6. parties[u].status # "Merged" /\ parties[v].status # "Merged"
        /\ parties[u].tenant = parties[v].tenant
    BY <1>1, <2>1, <2>4, <2>5
  <2>7. u = v
    BY <2>4, <2>5, <2>6 DEF OneHolder
  <2> QED BY <2>1, <2>4, <2>5, <2>7
<1> QED BY <1>13, <1>14

(* The rounds of following redirections.                                   *)
Follows(w, p) ==
    w = [n \in 0..Len(parties) |->
           IF n = 0 THEN p
           ELSE IF parties[w[n - 1]].status = "Merged" THEN parties[w[n - 1]].into
                ELSE w[n - 1]]

LEMMA SurvivorIsRoot ==
    ASSUME PartyTypeOK, NEW root \in [DOMAIN parties -> DOMAIN parties],
           NEW far \in [DOMAIN parties -> Nat], RootsOK(root, far), NEW p \in DOMAIN parties
    PROVE  Survivor(p) = root[p]
<1> DEFINE N == Len(parties)
           G == [q \in DOMAIN parties |->
                   IF parties[q].status = "Merged" THEN parties[q].into ELSE q]
<1>1. N \in Nat
  BY DEF PartyTypeOK
<1>2. G \in [DOMAIN parties -> DOMAIN parties]
  BY DEF RootsOK
<1>3. PICK f \in [0..N -> DOMAIN parties] : Iterates(f, N, p, G)
  <2> HIDE DEF G
  <2> QED BY <1>1, <1>2, Iterated
<1>4. Follows(f, p)
  <2>1. \A n \in 0..N : n # 0 => f[n - 1] \in DOMAIN parties
    BY <1>1
  <2>2. \A n \in 0..N : n # 0 =>
          G[f[n - 1]] = IF parties[f[n - 1]].status = "Merged" THEN parties[f[n - 1]].into
                        ELSE f[n - 1]
    BY <2>1
  <2> HIDE DEF G
  <2> QED BY <1>3, <2>2 DEF Follows, Iterates
<1> DEFINE w == CHOOSE w : Follows(w, p)
<1>5. Follows(w, p)
  BY <1>4
<1>6. Survivor(p) = w[N]
  BY DEF Survivor, Follows
<1> HIDE DEF w
<1> DEFINE T == {n \in Nat : n <= N =>
                   /\ w[n] \in DOMAIN parties /\ root[w[n]] = root[p]
                   /\ w[n] \in Redirected => far[w[n]] + n <= far[p]}
<1>7. 0 \in T
  BY <1>1, <1>5 DEF Follows
<1>8. ASSUME NEW n \in Nat, n \in T PROVE n + 1 \in T
  <2> SUFFICES ASSUME n + 1 <= N
               PROVE  /\ w[n + 1] \in DOMAIN parties /\ root[w[n + 1]] = root[p]
                      /\ w[n + 1] \in Redirected => far[w[n + 1]] + (n + 1) <= far[p]
    OBVIOUS
  <2>1. PICK q \in DOMAIN parties : q = w[n]
    BY <1>1, <1>8
  <2>2. root[q] = root[p] /\ (q \in Redirected => far[q] + n <= far[p])
    BY <1>1, <1>8, <2>1
  <2>3. w[n + 1] = IF parties[q].status = "Merged" THEN parties[q].into ELSE q
    <3>1. n + 1 \in 0..N /\ n + 1 # 0 /\ (n + 1) - 1 = n
      BY <1>1
    <3> QED BY <1>5, <2>1, <3>1 DEF Follows
  <2>4. CASE q \in Redirected
    <3>1. PICK into \in DOMAIN parties : into = parties[q].into /\ into = w[n + 1]
      BY <2>3, <2>4 DEF RootsOK
    <3>2. root[q] = root[parties[q].into] /\ far[parties[q].into] < far[q]
      BY <2>4 DEF RootsOK
    <3>3. root[q] = root[into] /\ far[into] < far[q] /\ far[into] \in Nat /\ far[q] \in Nat
      BY <3>1, <3>2
    <3> QED BY <2>2, <2>4, <3>1, <3>3
  <2>5. CASE q \notin Redirected
    <3>1. w[n + 1] = q
      BY <2>3, <2>5 DEF RootsOK
    <3> QED BY <2>2, <2>5, <3>1
  <2> QED BY <2>4, <2>5
<1>9. N \in T
  <2> HIDE DEF T
  <2> QED BY <1>1, <1>7, <1>8, SetInduction
<1>10. PICK q \in DOMAIN parties : q = w[N]
  BY <1>9
<1>11. root[q] = root[p] /\ (q \in Redirected => far[q] + N <= far[p])
  BY <1>1, <1>9, <1>10
<1>12. q \notin Redirected
  <2>1. /\ far[p] <= Cardinality(Redirected) /\ Cardinality(Redirected) <= N
        /\ Cardinality(Redirected) \in Nat /\ far[p] \in Nat /\ far[q] \in Nat
    BY RedirectedIsFinite DEF RootsOK
  <2>2. q \in Redirected => parties[q].into \in DOMAIN parties /\ far[parties[q].into] < far[q]
                            /\ far[parties[q].into] \in Nat
    BY DEF RootsOK
  <2> QED BY <1>1, <1>11, <2>1, <2>2
<1>13. root[q] = q
  BY <1>12 DEF RootsOK
<1> QED BY <1>6, <1>10, <1>11, <1>13

LEMMA RootsResolve == PartyParts => RedirectsResolve
<1> SUFFICES ASSUME PartyParts, orderly, NEW p \in DOMAIN parties
             PROVE  /\ parties[Survivor(p)].status # "Merged"
                    /\ \A i \in parties[p].own :
                         /\ Holders(parties[p].tenant, i) = {Survivor(p)}
                         /\ FindByIdentifier(parties[p].tenant, i) = Survivor(p)
  BY DEF RedirectsResolve
<1>1. PICK root \in [DOMAIN parties -> DOMAIN parties], far \in [DOMAIN parties -> Nat] :
        RootsOK(root, far)
  BY DEF PartyParts, Rooted
<1>2. PICK s \in DOMAIN parties : s = root[p] /\ s = Survivor(p)
  BY <1>1, SurvivorIsRoot DEF PartyParts
<1>3. /\ parties[s].status # "Merged" /\ parties[s].tenant = parties[p].tenant
      /\ parties[p].own \subseteq parties[s].identifiers
  <2>1. /\ root[p] \notin Redirected /\ parties[root[p]].tenant = parties[p].tenant
        /\ parties[p].own \subseteq parties[root[p]].identifiers
    BY <1>1 DEF RootsOK
  <2>2. parties[s].status # "Merged"
    BY <1>1, <1>2, <2>1 DEF RootsOK
  <2> QED BY <1>2, <2>1, <2>2
<1>4. ASSUME NEW i \in parties[p].own
      PROVE  /\ Holders(parties[p].tenant, i) = {s}
             /\ FindByIdentifier(parties[p].tenant, i) = s
  <2>1. i \in Identifiers
    <3>1. parties[p] \in Party
      BY DEF PartyParts, PartyTypeOK
    <3> QED BY <1>4, <3>1 DEF Party
  <2>2. Holders(parties[p].tenant, i) = {s}
    BY <1>3, <1>4, <2>1 DEF Holders, PartyParts, OneHolder
  <2>3. s \in Nat
    BY DEF PartyParts, PartyTypeOK
  <2> QED BY <2>2, <2>3 DEF FindByIdentifier
<1> QED BY <1>2, <1>3, <1>4

(* While merged parties are left alone, each has a root.                   *)
THEOREM PartyInvariance == PartySpec => []PartyParts
<1>1. PartyInit => PartyParts
  <2> SUFFICES ASSUME PartyInit PROVE PartyParts
    OBVIOUS
  <2>1. PartyTypeOK /\ DOMAIN parties = {}
    BY DEF PartyInit, PartyTypeOK
  <2>2. Rooted /\ OneHolder
    <3>1. PICK f : f = [p \in {} |-> 0]
      OBVIOUS
    <3>2. f \in [DOMAIN parties -> DOMAIN parties] /\ f \in [DOMAIN parties -> Nat]
      BY <2>1, <3>1
    <3>3. RootsOK(f, f) /\ OneHolder
      BY <2>1 DEF RootsOK, OneHolder
    <3> QED BY <3>2, <3>3 DEF Rooted
  <2> QED BY <2>1, <2>2 DEF PartyParts
<1>2. PartyTypeOK /\ PartyTypeOK' /\ PartyParts /\ [PartyNext]_partyVars => PartyParts'
  <2> SUFFICES ASSUME PartyTypeOK, PartyTypeOK', orderly => Rooted /\ OneHolder,
                      [PartyNext]_partyVars, orderly'
               PROVE  Rooted' /\ OneHolder'
    BY DEF PartyParts
  <2>1. ASSUME NEW tenant \in PartyTenants, NEW identifiers \in SUBSET Identifiers,
               Create(tenant, identifiers)
        PROVE  Rooted' /\ OneHolder'
    <3>1. orderly
      BY <2>1 DEF Create
    <3> QED BY <2>1, <3>1, CreateKeepsRoots
  <2>2. ASSUME NEW p \in DOMAIN parties, Archive(p) PROVE Rooted' /\ OneHolder'
    <3>1. orderly /\ parties[p].into = 0
      BY <2>2 DEF Archive
    <3> QED BY <2>2, <3>1, ArchiveKeepsRoots
  <2>3. ASSUME NEW p \in DOMAIN parties, NEW merged \in (SUBSET DOMAIN parties) \ {{}},
               Merge(p, merged)
        PROVE  Rooted' /\ OneHolder'
    <3>1. /\ orderly /\ p \notin merged
          /\ \A q \in merged \cup {p} : parties[q].into = 0
      BY <2>3 DEF Merge
    <3> QED BY <2>3, <3>1, MergeKeepsRoots
  <2>4. ASSUME UNCHANGED <<parties, orderly>> PROVE Rooted' /\ OneHolder'
    <3>1. Redirected' = Redirected
      BY <2>4 DEF Redirected
    <3>2. \A root, far : RootsOK(root, far) => RootsOK(root, far)'
      BY <2>4, <3>1 DEF RootsOK
    <3>3. OneHolder'
      BY <2>4 DEF OneHolder
    <3> QED BY <2>4, <3>2, <3>3 DEF Rooted
  <2> QED BY <2>1, <2>2, <2>3, <2>4 DEF PartyNext, Relate, partyVars
<1> QED BY <1>1, <1>2, PartyTypeHolds, PTL DEF PartySpec

(* As long as merged parties are left alone, redirections from any party   *)
(* end at the one party that is found by each of its identifiers.          *)
THEOREM RedirectsResolveHolds == PartySpec => []RedirectsResolve
  BY RootsResolve, PartyInvariance, PTL

(* However relationships run, traverse finds what they lead to.            *)
THEOREM HierarchyIsCompleteHolds == PartySpec => []HierarchyIsComplete
  BY HierarchyComplete, PartyTypeHolds, PTL

-----------------------------------------------------------------------------
(* The five stores.  Each keeps its own state, so what holds of each holds *)
(* of all together: they are of their types, and the content store shows   *)
(* what was asked of it.                                                   *)
THEOREM FoundationInvHolds ==
    AssetSpec /\ PartySpec /\ AccessSpec /\ CommerceSpec /\ ContentSpec => []FoundationInv
<1>1. Parts => AssetTypeOK
  BY InvInParts DEF AssetInv
<1>2. AccessParts => AccessTypeOK
  BY AccessInParts
<1>3. CommerceParts => CommerceTypeOK
  BY CommerceTyped
<1>4. /\ AssetTypeOK /\ PartyTypeOK /\ AccessTypeOK /\ CommerceTypeOK
      /\ ContentTypeOK /\ ChannelsAsAsked /\ HistoryEndsInPresent
      => FoundationInv
  BY DEF FoundationInv, TypeOK
<1> QED BY <1>1, <1>2, <1>3, <1>4, Invariance, PartyTypeHolds, AccessInvariance,
           CommerceInvariance, ContentHolds, PTL

(* A behaviour that uses one of the five at a time, as the run explores    *)
(* them, is one of each.                                                   *)
THEOREM RunsAreBehaviours ==
    Spec => AssetSpec /\ PartySpec /\ AccessSpec /\ CommerceSpec /\ ContentSpec
<1> DEFINE all == <<assetVars, partyVars, accessVars, commerceVars, contentVars>>
<1>1. Init => AssetInit /\ PartyInit /\ AccessInit /\ CommerceInit /\ ContentInit
  BY DEF Init
<1>2. [Next]_all => [AssetNext]_assetVars
  BY DEF Next, UseAssets, UseParties, UseAccess, UseCommerce, UseContents
<1>3. [Next]_all => [PartyNext]_partyVars
  BY DEF Next, UseAssets, UseParties, UseAccess, UseCommerce, UseContents
<1>4. [Next]_all => [AccessNext]_accessVars
  BY DEF Next, UseAssets, UseParties, UseAccess, UseCommerce, UseContents
<1>5. [Next]_all => [CommerceNext]_commerceVars
  BY DEF Next, UseAssets, UseParties, UseAccess, UseCommerce, UseContents
<1>6. [Next]_all => [ContentNext]_contentVars
  BY DEF Next, UseAssets, UseParties, UseAccess, UseCommerce, UseContents
<1> QED BY <1>1, <1>2, <1>3, <1>4, <1>5, <1>6, PTL
        DEF Spec, AssetSpec, PartySpec, AccessSpec, CommerceSpec, ContentSpec
=============================================================================
