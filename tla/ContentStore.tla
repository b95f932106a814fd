---------------------------- MODULE ContentStore ----------------------------
(***************************************************************************)
(* The core content store, src/crates/sitegraph-db/src/lib.rs, over the    *)
(* schema in src/migrations: content objects, the versions of their data   *)
(* and their assignments to websites.                                      *)
(*                                                                         *)
(* Requests run at the same time, each in a transaction of PostgreSQL at   *)
(* its default level READ COMMITTED: a statement sees what was committed   *)
(* when it began, waits for rows that others have locked, and then goes on *)
(* with what became of these rows.  A transaction's writes are seen by     *)
(* others when it commits, and never if it fails.  Two that wait for each  *)
(* other are ended by the server, which fails one of them.                 *)
(*                                                                         *)
(* Abstracted: the n-th object has the id n; the versions of an object are *)
(* listed in the order they were committed in; types, overrides, instants  *)
(* and the audit log, which no write reads.                                *)
(*                                                                         *)
(* Definitions named Bug... are not the code: each is a mistake that a     *)
(* property below must notice when it replaces the definition after it.    *)
(***************************************************************************)
EXTENDS Naturals, Sequences, FiniteSets

CONSTANTS
    Organizations, Websites,
    WebsiteOrg,          \* the organization of each website
    Datas,               \* what an object's data may be
    Connections,         \* each runs one transaction at a time
    AssignmentInputs,    \* lists of websites that requests assign
    NoRow,               \* an object that is not there any more; no data
    Idle,                \* a connection without a transaction
    MaxContents, MaxHistory,
    MaxTime              \* of replacements that begin and end

VARIABLES
    contents, contentVersions, assigned,    \* what is committed
    transactions,                           \* of each connection
    asked,       \* the last set of websites that was committed (history)
    time         \* counts replacements that began and were committed (history)

contentVars == <<contents, contentVersions, assigned, transactions, asked, time>>

Content == [org : Organizations, status : {"draft", "published"}, data : Datas]

(* A row of content_channel_assignments: at and done, when the transaction *)
(* that inserted it began and was committed, make it different from any    *)
(* other row, as its id does.                                              *)
Assignment == [website : Websites, at : Nat, done : Nat]

(* A transaction is in one statement after another:                        *)
(* update    waits for the object's row (update_content_data, revert)      *)
(* delete    waits for the object's row (delete_content)                   *)
(* cascade   has it, and waits for the rows that refer to it               *)
(* owned     has seen that the object is the organization's                *)
(* clear     is deleting assignments, of which it is yet to look at left   *)
(* insert    is inserting the websites in todo, one by one                 *)
(* commit    has the object's row, and a version of its data               *)
Stages == {"update", "delete", "cascade", "owned", "clear", "insert", "commit"}

Transaction == [stage : Stages, object : Nat, org : Organizations, at : Nat,
                data : Datas \union {NoRow},
                left : SUBSET Assignment, cleared : SUBSET Assignment,
                todo : Seq(Websites), inserted : SUBSET Websites]

(* No row and no transaction are not rows or transactions.                 *)
ASSUME ContentStoreAssumption ==
    /\ {MaxContents, MaxHistory, MaxTime} \subseteq Nat
    /\ WebsiteOrg \in [Websites -> Organizations]
    /\ AssignmentInputs \subseteq Seq(Websites)
    /\ NoRow \notin Content /\ Idle \notin Transaction

HasRow(o) == contents[o] # NoRow

ContentTypeOK ==
    /\ contents \in Seq(Content \union {NoRow})
    /\ {DOMAIN contentVersions, DOMAIN assigned, DOMAIN asked} = {DOMAIN contents}
    /\ transactions \in [Connections -> Transaction \union {Idle}]
    /\ time \in Nat
    /\ \A o \in DOMAIN contents :
         /\ contentVersions[o] \in Seq(Datas)
         /\ assigned[o] \subseteq Assignment
         /\ \A r, s \in assigned[o] : r.website = s.website => r = s
         /\ \A r \in assigned[o] : WebsiteOrg[r.website] = contents[o].org
         /\ ~HasRow(o) => contentVersions[o] = <<>> /\ assigned[o] = {}

ContentInit ==
    /\ contents = <<>> /\ contentVersions = <<>> /\ assigned = <<>> /\ asked = <<>>
    /\ transactions = [c \in Connections |-> Idle]
    /\ time = 0

-----------------------------------------------------------------------------
(* The locks of PostgreSQL.                                                *)

OthersOn(c, o) ==
    {transactions[d] : d \in {e \in Connections \ {c} :
                               transactions[e] # Idle /\ transactions[e].object = o}}

(* An UPDATE locks the object's row against other writers of it,           *)
(* a DELETE against references to it too.                                  *)
Written(c, o) == \E t \in OthersOn(c, o) : t.stage \in {"commit", "cascade"}
BeingDeleted(c, o) == \E t \in OthersOn(c, o) : t.stage = "cascade"

(* Who has inserted a reference to the object keeps it from being deleted. *)
Referenced(c, o) == \E t \in OthersOn(c, o) : t.inserted # {}

(* A row that was deleted and whose deletion is not committed.             *)
RowLocked(c, o, row) == \E t \in OthersOn(c, o) : row \in t.cleared

(* The unique index on object and website waits for whoever has inserted   *)
(* or deleted a row with the same two.                                     *)
IndexLocked(c, o, w) ==
    \E t \in OthersOn(c, o) :
      w \in t.inserted \/ \E row \in t.cleared : row.website = w

-----------------------------------------------------------------------------
(* Transactions.                                                           *)

Ends(c) == transactions' = [transactions EXCEPT ![c] = Idle]

OfOrg(o, org) == o \in DOMAIN contents /\ HasRow(o) /\ contents[o].org = org

(* On an object that is not the organization's nothing is changed.         *)
StartsTransaction(c, stage, o, org, data, list) ==
    /\ transactions[c] = Idle /\ OfOrg(o, org)
    /\ transactions' = [transactions EXCEPT ![c] =
         [stage |-> stage, object |-> o, org |-> org, at |-> time', data |-> data,
          left |-> {}, cleared |-> {}, todo |-> list, inserted |-> {}]]

Reaches(c, stage) == transactions' = [transactions EXCEPT ![c].stage = stage]

(* An error, a client that has gone, or a deadlock.                        *)
TransactionFails(c) ==
    /\ transactions[c] # Idle
    /\ Ends(c)
    /\ UNCHANGED <<contents, contentVersions, assigned, asked, time>>

(* Nobody knows the object before it is committed.                         *)
CreateContent(org, data) ==
    /\ Len(contents) < MaxContents
    /\ contents' = Append(contents, [org |-> org, status |-> "draft", data |-> data])
    /\ contentVersions' = Append(contentVersions, <<data>>)
    /\ assigned' = Append(assigned, {})
    /\ asked' = Append(asked, [websites |-> {}, at |-> 0])
    /\ UNCHANGED <<transactions, time>>

UpdateContentData(c, o, org, data) ==
    /\ Len(contentVersions[o]) < MaxHistory
    /\ UNCHANGED <<contents, contentVersions, assigned, asked, time>>
    /\ StartsTransaction(c, "update", o, org, data, <<>>)

(* The version is read before the row is waited for.                       *)
RevertContent(c, o, org, v) ==
    /\ v \in DOMAIN contentVersions[o] /\ Len(contentVersions[o]) < MaxHistory
    /\ UNCHANGED <<contents, contentVersions, assigned, asked, time>>
    /\ StartsTransaction(c, "update", o, org, contentVersions[o][v], <<>>)

(* The UPDATE of either, and insert_version; or there is no row any more.  *)
UpdateRow(c) ==
    LET t == transactions[c] IN
    /\ t # Idle /\ t.stage = "update"
    /\ ~Written(c, t.object)
    /\ IF OfOrg(t.object, t.org) THEN Reaches(c, "commit") ELSE Ends(c)
    /\ UNCHANGED <<contents, contentVersions, assigned, asked, time>>

CommitUpdate(c) ==
    LET t == transactions[c] IN
    /\ t # Idle /\ t.stage = "commit"
    /\ contents' = [contents EXCEPT ![t.object].data = t.data]
    /\ contentVersions' = [contentVersions EXCEPT ![t.object] = Append(@, t.data)]
    /\ Ends(c)
    /\ UNCHANGED <<assigned, asked, time>>

(* One statement without a transaction around it; changes nothing when no  *)
(* row fits.                                                               *)
SetStatus(c, o, org, status) ==
    /\ transactions[c] = Idle
    /\ OfOrg(o, org) /\ ~Written(c, o)
    /\ contents' = [contents EXCEPT ![o].status = status]
    /\ UNCHANGED <<contentVersions, assigned, transactions, asked, time>>

-----------------------------------------------------------------------------
(* delete_content: one statement that locks the row, and whose cascade     *)
(* then deletes what refers to it.                                         *)

DeleteContent(c, o, org) ==
    /\ UNCHANGED <<contents, contentVersions, assigned, asked, time>>
    /\ StartsTransaction(c, "delete", o, org, NoRow, <<>>)

DeleteRow(c) ==
    LET t == transactions[c] IN
    /\ t # Idle /\ t.stage = "delete"
    /\ ~Written(c, t.object) /\ ~Referenced(c, t.object)
    /\ IF OfOrg(t.object, t.org) THEN Reaches(c, "cascade") ELSE Ends(c)
    /\ UNCHANGED <<contents, contentVersions, assigned, asked, time>>

Cascade(c) ==
    LET t == transactions[c] IN
    /\ t # Idle /\ t.stage = "cascade"
    /\ \A row \in assigned[t.object] : ~RowLocked(c, t.object, row)
    /\ contents' = [contents EXCEPT ![t.object] = NoRow]
    /\ contentVersions' = [contentVersions EXCEPT ![t.object] = <<>>]
    /\ assigned' = [assigned EXCEPT ![t.object] = {}]
    /\ asked' = [asked EXCEPT ![t.object].websites = {}]
    /\ Ends(c)
    /\ UNCHANGED time

-----------------------------------------------------------------------------
(* set_channel_assignments.                                                *)

SetChannelAssignments(c, o, org, list) ==
    /\ time < MaxTime /\ time' = time + 1
    /\ UNCHANGED <<contents, contentVersions, assigned, asked>>
    /\ StartsTransaction(c, "owned", o, org, NoRow, list)

BugToClear(t) == IF t.todo = <<>> THEN {} ELSE assigned[t.object]

(* What the DELETE sees: not what others have not committed yet.           *)
ToClear(t) == assigned[t.object]

Clear(c) ==
    LET t == transactions[c] IN
    /\ t # Idle /\ t.stage = "owned"
    /\ transactions' = [transactions EXCEPT
         ![c].stage = "clear", ![c].left = ToClear(t)]
    /\ UNCHANGED <<contents, contentVersions, assigned, asked, time>>

(* Rows are taken in the order of the scan, which may be any; one that     *)
(* somebody else has deleted meanwhile is passed over.                     *)
ClearRow(c) ==
    LET t == transactions[c] IN
    /\ t # Idle /\ t.stage = "clear"
    /\ \E row \in t.left :
         /\ ~RowLocked(c, t.object, row)
         /\ transactions' = [transactions EXCEPT
              ![c].left = @ \ {row},
              ![c].cleared = @ \union ({row} \intersect assigned[t.object])]
    /\ UNCHANGED <<contents, contentVersions, assigned, asked, time>>

Cleared(c) ==
    LET t == transactions[c] IN
    /\ t # Idle /\ t.stage = "clear" /\ t.left = {}
    /\ Reaches(c, "insert")
    /\ UNCHANGED <<contents, contentVersions, assigned, asked, time>>

(* Websites of the transaction that its own INSERTs would meet.            *)
Taken(t) ==
    t.inserted \union {row.website : row \in assigned[t.object] \ t.cleared}

(* One website; those of another organization are passed over.  A website  *)
(* that is assigned, or an object that is gone, fails the request.         *)
InsertRow(c) ==
    LET t == transactions[c]
        w == Head(t.todo)
    IN
    /\ t # Idle /\ t.stage = "insert" /\ t.todo # <<>>
    /\ \/ /\ WebsiteOrg[w] # t.org
          /\ transactions' = [transactions EXCEPT ![c].todo = Tail(@)]
       \/ /\ WebsiteOrg[w] = t.org
          /\ ~IndexLocked(c, t.object, w) /\ ~BeingDeleted(c, t.object)
          /\ IF w \in Taken(t) \/ ~HasRow(t.object)
             THEN Ends(c)
             ELSE transactions' = [transactions EXCEPT
                    ![c].todo = Tail(@), ![c].inserted = @ \union {w}]
    /\ UNCHANGED <<contents, contentVersions, assigned, asked, time>>

CommitAssignments(c) ==
    LET t == transactions[c]
        new == {[website |-> w, at |-> t.at, done |-> time + 1] : w \in t.inserted}
    IN
    /\ t # Idle /\ t.stage = "insert" /\ t.todo = <<>>
    /\ assigned' = [assigned EXCEPT ![t.object] = (@ \ t.cleared) \union new]
    /\ asked' = [asked EXCEPT ![t.object] = [websites |-> t.inserted, at |-> t.at]]
    /\ time' = time + 1
    /\ Ends(c)
    /\ UNCHANGED <<contents, contentVersions>>

-----------------------------------------------------------------------------
ContentStep(c) ==
    \/ UpdateRow(c) \/ CommitUpdate(c)
    \/ DeleteRow(c) \/ Cascade(c)
    \/ Clear(c) \/ ClearRow(c) \/ Cleared(c) \/ InsertRow(c) \/ CommitAssignments(c)
    \/ TransactionFails(c)

ContentRequest(c, o, org) ==
    \/ \E data \in Datas : UpdateContentData(c, o, org, data)
    \/ \E v \in 1..MaxHistory : RevertContent(c, o, org, v)
    \/ \E status \in {"draft", "published"} : SetStatus(c, o, org, status)
    \/ DeleteContent(c, o, org)
    \/ \E list \in AssignmentInputs : SetChannelAssignments(c, o, org, list)

ContentNext ==
    \/ \E org \in Organizations, data \in Datas : CreateContent(org, data)
    \/ \E c \in Connections : ContentStep(c)
    \/ \E c \in Connections, o \in DOMAIN contents, org \in Organizations :
         ContentRequest(c, o, org)

ContentSpec == ContentInit /\ [][ContentNext]_contentVars

-----------------------------------------------------------------------------
(* What an object is assigned to is what the last request that replaced    *)
(* its assignments asked for: all of it, and beside it at most what other  *)
(* requests committed while that one ran.  (set_channel_assignments,       *)
(* "Replace the full set"; a second DELETE does not see what a first       *)
(* transaction has inserted and not committed, so two that overlap can     *)
(* leave the union of both.)                                               *)
ChannelsAsAsked ==
    \A o \in DOMAIN contents :
      /\ asked[o].websites \subseteq {row.website : row \in assigned[o]}
      /\ \A row \in assigned[o] : row.at = asked[o].at \/ row.done > asked[o].at

(* An object's data is that of the version that was written last.          *)
(* (insert_version, and 0003_content_versions.sql: a snapshot is written   *)
(* on every create, update and revert.)                                    *)
HistoryEndsInPresent ==
    \A o \in DOMAIN contents : HasRow(o) =>
      /\ contentVersions[o] # <<>>
      /\ contents[o].data = contentVersions[o][Len(contentVersions[o])]
=============================================================================
