------------------------------- MODULE CaseItems -------------------------------
(***************************************************************************)
(* The material of one case: items, their immutable versions, the blobs    *)
(* the versions point to and the pins that make them evidence             *)
(* (api/graphlagoon/services/case_items.py).                               *)
(*                                                                         *)
(* The rows live in PostgreSQL and the bytes on a BlobStore that knows no  *)
(* transaction.  A handler loads the case and the item and checks them,    *)
(* stores the blob, then flushes rows that its commit makes visible; the   *)
(* checks are made on what was loaded and only the unique constraint on    *)
(* (item_id, version) is made again at the end.  Deleting the case commits *)
(* the rows first and removes the blobs afterwards.                        *)
(***************************************************************************)
EXTENDS Naturals, FiniteSets

CONSTANTS
    Items,        \* ids uuid4 may give to the items of the case
    Briefs,       \* those that are a document/brief
    References,   \* those that are a graph/exploration_ref of one exploration
    Reports,      \* those that are a rendered report (allow_closed)
    Contents,     \* what the bytes of a version may be; a sha256 stands for them
    NoContent,
    Labels,       \* what a pin carries: its author, time and label
    Unpinned,
    Requests,     \* the requests that may be in flight together
    Scenarios,    \* what a run lets happen: the operations, the items and pins they are
                  \* about and how many requests are under way at once
    Volume,       \* the blobs are on a Databricks Volume, not on local disk
    MaxVersions   \* bound: versions of one item

Ops == {"create", "add", "remove", "restore", "pin", "judge", "unreject", "brief", "close",
        "reopen", "delete"}

ASSUME KindsAssumption ==
    /\ Briefs \cup References \cup Reports \subseteq Items
    /\ Briefs \cap References = {}
ASSUME ValuesAssumption == NoContent \notin Contents /\ Unpinned \notin Labels
ASSUME ItemsBoundAssumption ==
    /\ MaxVersions \in Nat /\ Volume \in BOOLEAN
    /\ \A s \in Scenarios : s.atOnce \in Nat /\ s.ops \subseteq Ops

VARIABLES
    case,      \* the row of `investigations`, as far as the material is concerned
    items,     \* the committed rows of `case_items` with their `case_item_versions`
    evidence,  \* the versions the decisions of the case cite
    blobs,     \* the keys present on the BlobStore, relative to the prefix of the case
    session,   \* [Requests -> what the request has done so far]
    scenario

vars == <<case, items, evidence, blobs, session, scenario>>

-------------------------------------------------------------------------------
(* Data *)

Numbers == 1 .. MaxVersions

Version == [n : Numbers, content : Contents, pin : Labels \cup {Unpinned}]

Absent == [there |-> FALSE]

Item == {Absent} \cup
    [there : {TRUE}, live : BOOLEAN, status : {"suggested", "confirmed", "rejected"},
     current : 0 .. MaxVersions, versions : SUBSET Version]

\* Every key of the case is below {investigation_id}/items/{item_id}/.
Key(i, c) == <<"items", i, c>>

Keys == {Key(i, c) : i \in Items, c \in Contents}

Request ==
         [op : {"create"}, item : Items, content : Contents \cup {NoContent},
          status : {"suggested", "confirmed"}]
    \cup [op : {"add", "save"}, item : Items, content : Contents]
    \cup [op : {"remove", "restore", "unreject"}, item : Items]
    \cup [op : {"pin"}, item : Items, n : 0 .. MaxVersions,
          content : Contents \cup {NoContent}, label : Labels]
    \cup [op : {"judge"}, item : Items, to : {"confirmed", "rejected"}]
    \cup [op : {"close", "reopen", "delete"}]

\* add_version from its own endpoint, or from put_brief.
Adding == {"add", "save"}

OfTheCase == {"close", "reopen", "delete"}

Idle == [pc |-> "idle"]

\* briefed: put_brief has read the brief and will now create it or add to it.
Session == {Idle}
    \cup [pc : {"briefed"}, req : Request]
    \cup [pc : {"loaded", "stored"}, req : Request, seen : Item]
    \cup [pc : {"purging"}]

TypeOK ==
    /\ case \in [alive : BOOLEAN, closed : BOOLEAN, purged : BOOLEAN]
    /\ items \in [Items -> Item]
    /\ evidence \subseteq Items \X Numbers
    /\ blobs \subseteq Keys
    /\ session \in [Requests -> Session]
    /\ scenario \in Scenarios

-------------------------------------------------------------------------------
(* The checks *)

Live(i) == items[i].there /\ items[i].live

Numbered(row, n) == {v \in row.versions : v.n = n}

\* The version a request means: the current one by default.
Wanted(row, q) == IF q.n = 0 THEN row.current ELSE q.n

\* A live reference is frozen when no version is asked for.
Freezes(q) == q.item \in References /\ q.n = 0

Writes(q) ==
    \/ q.op = "create" /\ q.content # NoContent
    \/ q.op \in Adding
    \/ q.op = "pin" /\ Freezes(q)

\* mutant: only a new item is compared with the live ones
IsOnlyOne_Created(i) == items[i].there \/
    \A j \in Items \ {i} : Live(j) => ~({i, j} \subseteq Briefs \/ {i, j} \subseteq References)

\* ITEM_EXISTS: one live brief, one live reference to the exploration.
IsOnlyOne(i) ==
    \A j \in Items \ {i} : Live(j) => ~({i, j} \subseteq Briefs \/ {i, j} \subseteq References)

\* mutant: ALREADY_PINNED forgotten
Pinnable_Again(row, q) ==
    IF Freezes(q) THEN q.content # NoContent
                  ELSE q.content = NoContent /\ Numbered(row, Wanted(row, q)) # {}

\* VERSION_NOT_FOUND, ALREADY_PINNED
Pinnable(row, q) ==
    IF Freezes(q) THEN q.content # NoContent
                  ELSE /\ q.content = NoContent
                       /\ Numbered(row, Wanted(row, q)) # {}
                       /\ \A v \in Numbered(row, Wanted(row, q)) : v.pin = Unpinned

\* NOT_SUGGESTED
Judgeable(row) == row.status = "suggested"

\* What a closed case takes: a rendered report (allow_closed), reopening, deletion.
TakenClosed(q) == q.op \in {"reopen", "delete"} \/ (q.op = "create" /\ q.item \in Reports)

\* uuid4 gives an id that no session has.
Fresh(i, r) ==
    /\ ~items[i].there
    /\ \A k \in blobs : k[2] # i
    /\ \A s \in Requests \ {r} :
          session[s].pc \in {"briefed", "loaded", "stored"} =>
              ~(session[s].req.op = "create" /\ session[s].req.item = i)

Admits(q, r) ==
    /\ case.alive
    /\ case.closed => TakenClosed(q)
    /\ q.op = "reopen" => case.closed
    /\ q.op = "create" => Fresh(q.item, r) /\ IsOnlyOne(q.item)
    /\ q.op = "restore" => items[q.item].there /\ ~items[q.item].live /\ IsOnlyOne(q.item)
    /\ q.op \in Adding \cup {"remove", "pin", "judge", "unreject"} => Live(q.item)
    /\ q.op \in Adding => q.item \notin References
    /\ q.op = "pin" => Pinnable(items[q.item], q)
    /\ q.op = "judge" => Judgeable(items[q.item])
    /\ q.op = "unreject" => items[q.item].status = "rejected"

-------------------------------------------------------------------------------
Init ==
    /\ case = [alive |-> TRUE, closed |-> FALSE, purged |-> FALSE]
    /\ items = [i \in Items |-> Absent]
    /\ evidence = {}
    /\ blobs = {}
    /\ session = [r \in Requests |-> Idle]
    /\ scenario \in Scenarios

\* A slot is free, and the scenario has room for one more request.
Starts(r) ==
    /\ session[r] = Idle
    /\ Cardinality({s \in Requests : session[s] # Idle}) < scenario.atOnce
    /\ UNCHANGED scenario

Loaded(q) == [pc |-> "loaded", req |-> q,
              seen |-> IF q.op \in OfTheCase THEN Absent ELSE items[q.item]]

\* load_case, item_row and every check of the handler.
Load(r, q) ==
    /\ Starts(r)
    /\ q.op \in scenario.ops
    /\ "item" \in DOMAIN q => q.item \in scenario.items
    /\ "label" \in DOMAIN q => q.label \in scenario.labels
    /\ Admits(q, r)
    /\ session' = [session EXCEPT ![r] = Loaded(q)]
    /\ UNCHANGED <<case, items, evidence, blobs>>

\* mutant: the same text adds a version
TextDiffers_Always(i, c) == TRUE

\* unchanged text adds nothing
TextDiffers(i, c) == \A v \in Numbered(items[i], items[i].current) : v.content # c

\* put_brief, its first session (get_brief): is there a brief, and what does it say?
ReadBrief(r, c) ==
    /\ Starts(r)
    /\ "brief" \in scenario.ops
    /\ case.alive
    /\ \E i \in Briefs \cap scenario.items :
          IF \A b \in Briefs : ~Live(b)
          THEN /\ Fresh(i, r)
               /\ session' = [session EXCEPT ![r] = [pc |-> "briefed", req |->
                    [op |-> "create", item |-> i, content |-> c, status |-> "confirmed"]]]
          ELSE /\ Live(i)
               /\ TextDiffers(i, c)
               /\ session' = [session EXCEPT ![r] = [pc |-> "briefed", req |->
                    [op |-> "save", item |-> i, content |-> c]]]
    /\ UNCHANGED <<case, items, evidence, blobs>>

\* put_brief, its second session: create_item or add_version from the start.
LoadBrief(r) ==
    /\ session[r].pc = "briefed"
    /\ Admits(session[r].req, r)
    /\ session' = [session EXCEPT ![r] = Loaded(session[r].req)]
    /\ UNCHANGED <<case, items, evidence, blobs, scenario>>

\* mutant: the frozen reference gets its row and not its blob
Stores_NotFrozen(q) == Writes(q) /\ q.op # "pin"

Stores(q) == Writes(q)

\* _write_version, before its rows: the blob is there from now on, and a blob
\* already there under this sha256 is the same bytes (FileExistsError passes).
StoreBlob(r) ==
    /\ session[r].pc = "loaded"
    /\ Stores(session[r].req)
    /\ blobs' = blobs \cup {Key(session[r].req.item, session[r].req.content)}
    /\ session' = [session EXCEPT ![r].pc = "stored"]
    /\ UNCHANGED <<case, items, evidence, scenario>>

-------------------------------------------------------------------------------
(* The rows of a handler and its commit *)

\* mutant: the number of the version is not advanced
NextNumber_Current(row) == row.current

NextNumber(row) == row.current + 1

\* mutant: no uq_case_item_versions_version
NumberFree_Any(i, n) == TRUE

\* uq_case_item_versions_version: the INSERT of a number another session
\* committed meanwhile fails, and the handler with it.
NumberFree(i, n) == Numbered(items[i], n) = {}

\* The rows _write_version adds to row, whose loaded copy is seen.
WithVersion(row, seen, c, pin) ==
    [row EXCEPT !.versions = @ \cup {[n |-> NextNumber(seen), content |-> c, pin |-> pin]},
                !.current  = NextNumber(seen)]

\* The handler's work is done and nothing in the database refuses it.
Committable(r, op) ==
    /\ session[r].pc \in {"loaded", "stored"}
    /\ session[r].req.op = op
    /\ session[r].pc = IF Stores(session[r].req) THEN "stored" ELSE "loaded"
    /\ case.alive

\* The rows of one item become row, and the request is answered.
Save(r, row) ==
    /\ items' = [items EXCEPT ![session[r].req.item] = row]
    /\ session' = [session EXCEPT ![r] = Idle]
    /\ UNCHANGED <<case, evidence, blobs, scenario>>

CreateItem(r) ==
    /\ Committable(r, "create")
    /\ LET q == session[r].req
           new == [there |-> TRUE, live |-> TRUE, status |-> q.status, current |-> 0,
                   versions |-> {}]
       IN /\ Writes(q) => NextNumber(new) <= MaxVersions
          /\ Save(r, IF Writes(q) THEN WithVersion(new, new, q.content, Unpinned) ELSE new)

AddVersion(r) ==
    /\ \E op \in Adding : Committable(r, op)
    /\ LET q == session[r].req
           seen == session[r].seen
       IN /\ NextNumber(seen) <= MaxVersions
          /\ NumberFree(q.item, NextNumber(seen))
          /\ Save(r, WithVersion(items[q.item], seen, q.content, Unpinned))

\* mutant: the versions go with the item
Removed_WithVersions(row) == [row EXCEPT !.live = FALSE, !.versions = {}, !.current = 0]

\* Soft delete: the versions stay.
Removed(row) == [row EXCEPT !.live = FALSE]

RemoveItem(r) ==
    /\ Committable(r, "remove")
    /\ Save(r, Removed(items[session[r].req.item]))

RestoreItem(r) ==
    /\ Committable(r, "restore")
    /\ Save(r, [items[session[r].req.item] EXCEPT !.live = TRUE])

Pinned(row, n, label) ==
    [row EXCEPT !.versions = {IF v.n = n THEN [v EXCEPT !.pin = label] ELSE v : v \in @}]

PinVersion(r) ==
    /\ Committable(r, "pin")
    /\ LET q == session[r].req
           seen == session[r].seen
           row == items[q.item]
       IN IF Freezes(q)
          THEN /\ NextNumber(seen) <= MaxVersions
               /\ NumberFree(q.item, NextNumber(seen))
               /\ Save(r, WithVersion(row, seen, q.content, q.label))
          ELSE Save(r, Pinned(row, Wanted(seen, q), q.label))

SetStatus(r) ==
    /\ Committable(r, "judge")
    /\ Save(r, [items[session[r].req.item] EXCEPT !.status = session[r].req.to])

ReopenItem(r) ==
    /\ Committable(r, "unreject")
    /\ Save(r, [items[session[r].req.item] EXCEPT !.status = "suggested"])

\* The request ends before its commit: a later check, a failed blob write, the
\* unique constraint, a row that is gone, or a lost process.  The blob stays.
Abandon(r) ==
    /\ session[r] # Idle
    /\ session' = [session EXCEPT ![r] = Idle]
    /\ UNCHANGED <<case, items, evidence, blobs, scenario>>

-------------------------------------------------------------------------------
(* The case around its material (cases.py) *)

\* _pinned_evidence: the given pinned versions, or every pinned one.
Citable ==
    {e \in Items \X Numbers :
        items[e[1]].there /\ \E v \in Numbered(items[e[1]], e[2]) : v.pin # Unpinned}

\* record_decision with an outcome that closes the case.  A pin is never undone,
\* so what was pinned when the evidence was read is still pinned now.
RecordDecision(r) ==
    /\ Committable(r, "close")
    /\ \E cited \in SUBSET Citable : evidence' = evidence \cup cited
    /\ case' = [case EXCEPT !.closed = TRUE]
    /\ session' = [session EXCEPT ![r] = Idle]
    /\ UNCHANGED <<items, blobs, scenario>>

ReopenInvestigation(r) ==
    /\ Committable(r, "reopen")
    /\ case' = [case EXCEPT !.closed = FALSE]
    /\ session' = [session EXCEPT ![r] = Idle]
    /\ UNCHANGED <<items, evidence, blobs, scenario>>

\* delete_investigation: the rows and their children, committed.
DeleteRows(r) ==
    /\ Committable(r, "delete")
    /\ case' = [case EXCEPT !.alive = FALSE]
    /\ items' = [i \in Items |-> Absent]
    /\ evidence' = {}
    /\ session' = [session EXCEPT ![r] = [pc |-> "purging"]]
    /\ UNCHANGED <<blobs, scenario>>

\* mutant: the listing one level deep on every store
UnderPrefix_Direct(keys) == {k \in keys : DOMAIN k = {1}}

\* What delete_prefix finds below {investigation_id}/: LocalBlobStore removes the
\* tree, DatabricksBlobStore the files its listing names, which is one level deep
\* and skips directories.
UnderPrefix(keys) == IF Volume THEN {k \in keys : DOMAIN k = {1}} ELSE keys

\* ... then every blob of the case, and the answer.
PurgeBlobs(r) ==
    /\ session[r].pc = "purging"
    /\ blobs' = blobs \ UnderPrefix(blobs)
    /\ case' = [case EXCEPT !.purged = TRUE]
    /\ session' = [session EXCEPT ![r] = Idle]
    /\ UNCHANGED <<items, evidence, scenario>>

-------------------------------------------------------------------------------
Next ==
    \E r \in Requests :
        \/ \E q \in Request : Load(r, q)
        \/ \E c \in Contents : ReadBrief(r, c)
        \/ LoadBrief(r)
        \/ StoreBlob(r)
        \/ CreateItem(r) \/ AddVersion(r) \/ RemoveItem(r) \/ RestoreItem(r)
        \/ PinVersion(r) \/ SetStatus(r) \/ ReopenItem(r)
        \/ RecordDecision(r) \/ ReopenInvestigation(r)
        \/ DeleteRows(r) \/ PurgeBlobs(r)
        \/ Abandon(r)

Spec == Init /\ [][Next]_vars

-------------------------------------------------------------------------------
(* Properties that hold however requests overlap *)

\* Requests of the scenario do not overlap.
Alone == scenario.atOnce = 1

\* N immutable versions: an item's versions are numbered 1 to current_version,
\* one row each (_write_version takes the next number from the row it loaded).
VersionsNumbered ==
    \A i \in Items : items[i].there =>
        /\ {v.n : v \in items[i].versions} = 1 .. items[i].current
        /\ \A v, w \in items[i].versions : v.n = w.n => v = w

\* Every version of the case can be read: its blob was stored before its row and
\* nothing removes a blob while the case is there (get_content, CONTENT_MISSING).
ContentStored ==
    \A i \in Items : items[i].there => \A v \in items[i].versions : Key(i, v.content) \in blobs

\* The evidence of a decision stays: each version it cites is pinned and can be
\* read, also after the item was removed from the material.
EvidenceKept ==
    \A e \in evidence : \E v \in Numbered(items[e[1]], e[2]) :
        v.pin # Unpinned /\ Key(e[1], v.content) \in blobs

\* The versions of the case are all there, each with its bytes, those a decision
\* cites included.
VersionsStand == VersionsNumbered /\ ContentStored /\ EvidenceKept

-------------------------------------------------------------------------------
(* Properties that need requests on the case not to overlap *)

\* The case has one brief, and an exploration once (ITEM_EXISTS).
OneOfAKind ==
    \A i, j \in Items : Live(i) /\ Live(j) /\ i # j =>
        ~({i, j} \subseteq Briefs \/ {i, j} \subseteq References)

\* A pin is never undone, nor given another author, time or label.
PinNeverChanges ==
    [][Alone /\ case'.alive => \A i \in Items : items[i].there =>
         \A v \in items[i].versions : v.pin # Unpinned =>
            \E w \in items'[i].versions : w.n = v.n /\ w.pin = v.pin]_vars

\* put_brief with an unchanged text adds no version.
Saves(r) ==
    /\ session[r].pc = "stored" /\ session'[r] = Idle
    /\ session[r].req.op = "save" /\ items' # items

UnchangedTextAddsNothing ==
    [][\A r \in Requests : Alone /\ Saves(r) =>
         LET q == session[r].req
         IN \A v \in Numbered(items[q.item], items[q.item].current) : v.content # q.content]_vars

\* What a case has once is made once: its brief and its live references, the pin
\* of a version, the version of a text.
MadeOnce == [](Alone => OneOfAKind) /\ PinNeverChanges /\ UnchangedTextAddsNothing

\* Once its deletion was answered nothing of the case is left on the store.
DeletedLeavesNoBlob == Alone /\ case.purged => blobs = {}

\* What the case is made of: every version there is keeps its number, its bytes and, as
\* evidence, its item; and bytes are not kept for longer than the case.
MaterialStands == VersionsStand /\ DeletedLeavesNoBlob
===============================================================================
