------------------------------ MODULE CaseRecord ------------------------------
(***************************************************************************)
(* One case of graphlagoon: its status, its append-only decisions, its     *)
(* journal and who may do what, under requests that overlap               *)
(* (api/graphlagoon/services/cases.py).                                    *)
(*                                                                         *)
(* Every handler opens a session, loads the case row, checks what it read, *)
(* works on that copy, flushes its journal lines and commits.  No lock and *)
(* no version column is taken: under PostgreSQL's READ COMMITTED the       *)
(* commit writes the columns the session changed over whatever was         *)
(* committed meanwhile.  A request is therefore three steps:               *)
(*                                                                         *)
(*   Load    the row is read and every check of the handler is made on it; *)
(*   flush   the handler's own action: the copy is changed, the journal    *)
(*           lines get their created_at (append_event), the decision hash  *)
(*           is computed over the lines visible now;                       *)
(*   Commit  changed columns and lines become visible.                     *)
(*                                                                         *)
(* With Memory = TRUE the module is the in-memory store: handlers never    *)
(* suspend, so requests do not overlap, and nothing is rolled back when a  *)
(* handler fails half way.                                                 *)
(***************************************************************************)
EXTENDS Naturals, Sequences, FiniteSets

CONSTANTS
    People,         \* the e-mails that act on the case
    Superusers,     \* GRAPH_LAGOON_SUPERUSER_EMAILS
    Editors,        \* whom the case is already shared with when the model starts
    NoOne,          \* None where an e-mail is optional
    Requests,       \* the requests that may be in flight together
    CaseTypes,      \* the case types defined in the admin area
    FourEyesTypes,  \* those whose outcomes have requires_review
    Proposals,      \* decision_proposal annotations that may be written
    Memory,         \* the in-memory store instead of PostgreSQL
    Scenarios,      \* what a run lets happen: the operations clients send, the proposals
                    \* they name and how many requests are under way at once
    MaxLines        \* bound: journal lines stamped in a behaviour

Ops == {"status", "retype", "assign", "content", "propose", "dismiss", "record",
        "review", "reopen", "delete", "share", "unshare", "transfer"}

ASSUME PeopleAssumption   == Superusers \cup Editors \subseteq People /\ NoOne \notin People
ASSUME TypesAssumption    == FourEyesTypes \subseteq CaseTypes
ASSUME ProposalAssumption == NoOne \notin Proposals
ASSUME BoundAssumption    ==
    /\ MaxLines \in Nat /\ Memory \in BOOLEAN
    /\ \A s \in Scenarios : s.atOnce \in Nat /\ s.ops \subseteq Ops

VARIABLES
    row,      \* the committed case: columns of `investigations`, its shares and proposals
    journal,  \* the committed lines of `investigation_events`
    session,  \* [Requests -> the session of the request, or Idle]
    clock,    \* lines stamped so far; datetime.now() of the next one is clock + 1
    scenario

vars == <<row, journal, session, clock, scenario>>

-------------------------------------------------------------------------------
(* Data *)

Statuses == {"open", "analysis", "closed"}
Shares   == {"none", "reader", "editor"}
Stamps   == 1 .. MaxLines
SomeOne  == People \cup {NoOne}

LineKinds == {"case.updated", "content", "task.set", "decision_proposal.suggested",
              "decision_proposal.rejected", "decision_proposal.confirmed",
              "decision.recorded", "decision.approved", "decision.rejected",
              "case.closed", "case.reopened", "case.shared", "case.unshared",
              "case.transferred"}

\* A journal line; id is the decision it is about, 0 when there is none.
Line == [at : Stamps, kind : LineKinds, id : Nat]

\* An entry of the `decisions` column.  Its id is the created_at of its
\* decision.recorded line (both are unique); hash is the set of lines hashed.
Decision == [id : Nat, closes : BOOLEAN, by : People, reviewer : SomeOne,
             review : {"none", "pending", "approved", "rejected"},
             reviewedBy : SomeOne, closed : BOOLEAN, hash : SUBSET Nat]

Row == [status : Statuses, caseType : CaseTypes, decisions : Seq(Decision),
        owner : People, assignee : SomeOne, shares : [People -> Shares],
        proposals : [Proposals -> {"absent", "suggested", "confirmed", "rejected"}],
        alive : BOOLEAN]

Request ==
         [op : {"content", "reopen"}, by : People]
    \cup [op : {"status"}, by : People, to : {"open", "analysis"}]
    \cup [op : {"retype"}, by : People, to : CaseTypes]
    \cup [op : {"assign"}, by : People, who : SomeOne]
    \cup [op : {"propose", "dismiss"}, by : People, proposal : Proposals]
    \cup [op : {"record"}, by : People, closes : BOOLEAN, reviewer : SomeOne,
          tasks : BOOLEAN, proposal : Proposals \cup {NoOne}]
    \cup [op : {"review"}, by : People, id : Stamps, approve : BOOLEAN]
    \cup [op : {"delete"}, by : People, reason : BOOLEAN]
    \cup [op : {"share"}, by : People, who : People, role : {"reader", "editor"}]
    \cup [op : {"unshare", "transfer"}, by : People, who : People]

Idle == [pc |-> "idle"]

Session == {Idle}
    \cup [pc : {"loaded"}, req : Request, seen : Row]
    \cup [pc : {"flushed"}, req : Request, seen : Row, work : Row, lines : SUBSET Line]

TypeOK ==
    /\ row \in Row
    /\ journal \subseteq Line
    /\ session \in [Requests -> Session]
    /\ clock \in 0 .. MaxLines
    /\ scenario \in Scenarios

-------------------------------------------------------------------------------
(* Access *)

CanWrite(c, u) == u = c.owner \/ u = c.assignee \/ c.shares[u] = "editor"

CanRead(c, u) == CanWrite(c, u) \/ c.shares[u] = "reader" \/ u \in Superusers

CanManage(c, u) == u = c.owner \/ u \in Superusers

-------------------------------------------------------------------------------
(* The decisions of a row *)

Entries(c) == {c.decisions[i] : i \in DOMAIN c.decisions}

Pending(c) == {d \in Entries(c) : d.review = "pending"}

\* closing_decision: an entry that closes the case and has its closed_at.
Closing(c) == {d \in Entries(c) : d.closes /\ d.closed}

\* under_retention, inside the retention period.
Retained(c) == Closing(c) # {}

\* The lines decision_hash covers: the journal, in created_at order, up to and
\* including the decision's own decision.recorded line.
HashOf(lines, id) == {l.at : l \in {x \in lines : x.at <= id}}

-------------------------------------------------------------------------------
(* The checks each handler makes on the row it loaded *)

NeedsWrite == {"status", "retype", "assign", "content", "propose", "dismiss",
               "record", "review", "reopen"}

NeedsManage == {"assign", "delete", "share", "unshare"}

\* mutant: a handler that forgot ensure_not_closed
NeedsOpen_NotContent == {"status", "retype", "assign", "propose", "dismiss", "record"}

\* Handlers that call ensure_not_closed.
NeedsOpen == {"status", "retype", "assign", "content", "propose", "dismiss", "record"}

\* mutant: only a closed case is locked
MayRetype_Open(c, q) == TRUE

\* CASE_TYPE_LOCKED
MayRetype(c, q) == q.to = c.caseType \/ c.decisions = <<>>

\* mutant: forgets REVIEW_PENDING
MayRecord_WhileWaiting(c, q) ==
    /\ q.reviewer # q.by
    /\ q.reviewer # NoOne => CanWrite(c, q.reviewer)

\* REVIEW_PENDING, FOUR_EYES, REVIEWER_NO_ACCESS
MayRecord(c, q) ==
    /\ Pending(c) = {}
    /\ q.reviewer # q.by
    /\ q.reviewer # NoOne => CanWrite(c, q.reviewer)

\* mutant: the author may approve
MayJudge_Author(d, q) == q.by = d.by \/ d.reviewer \in {NoOne, q.by}

\* The author may withdraw, never approve; otherwise the named reviewer, if any.
MayJudge(d, q) ==
    IF q.by = d.by THEN ~q.approve
                   ELSE d.reviewer \in {NoOne, q.by}

\* The position of the decision with this id.
EntryOf(c, id) == CHOOSE i \in DOMAIN c.decisions : c.decisions[i].id = id

HasEntry(c, id) == \E i \in DOMAIN c.decisions : c.decisions[i].id = id

\* mutant: forgets NOT_PENDING
MayReview_Any(c, q) ==
    HasEntry(c, q.id) /\ MayJudge(c.decisions[EntryOf(c, q.id)], q)

\* DECISION_NOT_FOUND, NOT_PENDING, FOUR_EYES, NOT_THE_REVIEWER
MayReview(c, q) ==
    /\ HasEntry(c, q.id)
    /\ c.decisions[EntryOf(c, q.id)].review = "pending"
    /\ MayJudge(c.decisions[EntryOf(c, q.id)], q)

\* mutant: retention follows the status, so a reopened case is not retained
MayDelete_ByStatus(c, q) == c.status = "closed" => q.by \in Superusers /\ q.reason

\* INVESTIGATION_RETAINED
MayDelete(c, q) == Retained(c) => q.by \in Superusers /\ q.reason

Admits(c, q) ==
    /\ c.alive
    /\ CanRead(c, q.by)
    /\ q.op \in NeedsWrite => CanWrite(c, q.by)
    /\ q.op \in NeedsManage => CanManage(c, q.by)
    /\ q.op \in NeedsOpen => c.status # "closed"
    /\ q.op = "retype" => MayRetype(c, q)
    /\ q.op = "record" => MayRecord(c, q)
    /\ q.op = "review" => MayReview(c, q)
    /\ q.op = "reopen" => c.status = "closed"
    /\ q.op = "delete" => MayDelete(c, q)
    /\ q.op = "unshare" => c.shares[q.who] # "none"
    /\ q.op = "transfer" => q.by \in Superusers

-------------------------------------------------------------------------------
Init ==
    /\ \E o \in People, t \in CaseTypes :
          row = [status |-> "open", caseType |-> t, decisions |-> <<>>, owner |-> o,
                 assignee |-> NoOne,
                 shares |-> [u \in People |-> IF u \in Editors \ {o} THEN "editor" ELSE "none"],
                 proposals |-> [p \in Proposals |-> "absent"], alive |-> TRUE]
    /\ journal = {}
    /\ session = [r \in Requests |-> Idle]
    /\ clock = 0
    /\ scenario \in Scenarios

\* load_case and the checks; a request that fails one has no effect at all.
Load(r, q) ==
    /\ session[r] = Idle
    /\ Memory => \A s \in Requests : session[s] = Idle
    /\ Cardinality({s \in Requests : session[s] # Idle}) < scenario.atOnce
    /\ q.op \in scenario.ops
    /\ "proposal" \in DOMAIN q => q.proposal \in scenario.proposals \cup {NoOne}
    /\ clock < MaxLines
    /\ Admits(row, q)
    /\ session' = [session EXCEPT ![r] = [pc |-> "loaded", req |-> q, seen |-> row]]
    /\ UNCHANGED <<row, journal, clock, scenario>>

\* append_event for each kind: consecutive created_at, all about decision id.
Stamped(kinds, id) ==
    {[at |-> clock + i, kind |-> kinds[i], id |-> id] : i \in DOMAIN kinds}

Running(r, op) == session[r].pc = "loaded" /\ session[r].req.op = op

Flush(r, work, kinds, id) ==
    /\ clock + Len(kinds) <= MaxLines
    /\ clock' = clock + Len(kinds)
    /\ session' = [session EXCEPT ![r] =
                     [pc |-> "flushed", req |-> session[r].req, seen |-> session[r].seen,
                      work |-> work, lines |-> Stamped(kinds, id)]]
    /\ UNCHANGED <<row, journal, scenario>>

-------------------------------------------------------------------------------
(* update_investigation, one action per column it may change *)

\* check_transition lets any move between open and analysis through.
UpdateStatus(r) ==
    /\ Running(r, "status")
    /\ Flush(r, [session[r].seen EXCEPT !.status = session[r].req.to], <<"case.updated">>, 0)

UpdateCaseType(r) ==
    /\ Running(r, "retype")
    /\ Flush(r, [session[r].seen EXCEPT !.caseType = session[r].req.to], <<"case.updated">>, 0)

\* _assignee_share: the assignee becomes an editor of the case.
UpdateAssignee(r) ==
    /\ Running(r, "assign")
    /\ LET c == session[r].seen
           a == session[r].req.who
       IN Flush(r, [c EXCEPT !.assignee = a,
                             !.shares = [u \in People |->
                                IF u = a /\ u # c.owner THEN "editor" ELSE c.shares[u]]],
                <<"case.updated">>, 0)

\* Any journaled change of the material or of an annotation (ensure_not_closed).
WriteContent(r) ==
    /\ Running(r, "content")
    /\ Flush(r, session[r].seen, <<"content">>, 0)

\* mutant: refuses only a rejected proposal
IsSuggested_NotRejected(p) == row.proposals[p] \in {"suggested", "confirmed"}

\* The annotation row is read in the handler, after the case.
IsSuggested(p) == row.proposals[p] = "suggested"

\* create_annotation of a decision_proposal: always a draft.
ProposeDecision(r) ==
    /\ Running(r, "propose")
    /\ LET p == session[r].req.proposal
       IN /\ row.proposals[p] = "absent"
          /\ Flush(r, [session[r].seen EXCEPT !.proposals[p] = "suggested"],
                   <<"decision_proposal.suggested">>, 0)

\* set_status of a decision_proposal: it can only be rejected there.
DismissProposal(r) ==
    /\ Running(r, "dismiss")
    /\ LET p == session[r].req.proposal
       IN /\ IsSuggested(p)
          /\ Flush(r, [session[r].seen EXCEPT !.proposals[p] = "rejected"],
                   <<"decision_proposal.rejected">>, 0)

-------------------------------------------------------------------------------
(* Decisions *)

NeedsReview(c) == c.caseType \in FourEyesTypes

TaskLines(q) == IF q.tasks THEN <<"task.set">> ELSE <<>>

\* The lines record_decision writes before its decision.recorded.
Preamble(q) ==
    TaskLines(q) \o (IF q.proposal = NoOne THEN <<>> ELSE <<"decision_proposal.confirmed">>)

\* The decision's line comes after them, and its created_at is the id here.
NewId(q) == clock + Len(Preamble(q)) + 1

\* mutant: the hash is computed after the case.closed line was added
HashedNow_PlusClosing(id) == {l.at : l \in journal} \cup (clock + 1 .. id + 1)

\* decision_hash inside the session: the committed lines and its own, up to id.
HashedNow(id) == {l.at : l \in journal} \cup (clock + 1 .. id)

NewEntry(c, q) ==
    [id |-> NewId(q), closes |-> q.closes, by |-> q.by, reviewer |-> q.reviewer,
     review |-> IF NeedsReview(c) THEN "pending" ELSE "none", reviewedBy |-> NoOne,
     closed |-> q.closes /\ ~NeedsReview(c), hash |-> HashedNow(NewId(q))]

\* mutant: the entry replaces the last one
AddEntry_Replace(decisions, entry) ==
    IF decisions = <<>> THEN <<entry>> ELSE [decisions EXCEPT ![Len(decisions)] = entry]

\* The whole column is reassigned: what was read, and the new entry.
AddEntry(decisions, entry) == Append(decisions, entry)

\* mutant: the case is closed without its line
ClosingLine_Silent(shut) == <<>>

ClosingLine(shut) == IF shut THEN <<"case.closed">> ELSE <<>>

TakenUp(c, q) ==
    [p \in Proposals |-> IF p = q.proposal THEN "confirmed" ELSE c.proposals[p]]

RecordDecision(r) ==
    /\ Running(r, "record")
    /\ LET q == session[r].req
           c == session[r].seen
           e == NewEntry(c, q)
       IN /\ q.proposal # NoOne => IsSuggested(q.proposal)
          /\ Flush(r, [c EXCEPT !.decisions = AddEntry(@, e),
                                !.status = IF e.closed THEN "closed" ELSE @,
                                !.proposals = TakenUp(c, q)],
                   Preamble(q) \o <<"decision.recorded">> \o ClosingLine(e.closed), e.id)

\* mutant: the tasks are committed before the evidence is checked
Leftover_Always(lines) == lines

\* What a failed handler leaves: the in-memory store keeps what was written.
Leftover(lines) == IF Memory THEN lines ELSE {}

\* EVIDENCE_NOT_PINNED, found after the tasks were added.
EvidenceMissing(r) ==
    /\ Running(r, "record")
    /\ LET q == session[r].req
       IN /\ NewId(q) <= MaxLines
          /\ clock' = NewId(q)
          /\ journal' = journal \cup Leftover(Stamped(TaskLines(q), NewId(q)))
    /\ session' = [session EXCEPT ![r] = Idle]
    /\ UNCHANGED <<row, scenario>>

\* mutant: a withdrawal is stored as a review of its own
Reviewed_Withdrawn(d, q) ==
    [d EXCEPT !.review     = IF q.approve THEN "approved"
                             ELSE IF q.by = d.by THEN "withdrawn" ELSE "rejected",
              !.reviewedBy = q.by,
              !.closed     = q.approve /\ d.closes]

\* The entry after its review.
Reviewed(d, q) ==
    [d EXCEPT !.review     = IF q.approve THEN "approved" ELSE "rejected",
              !.reviewedBy = q.by,
              !.closed     = q.approve /\ d.closes]

ReviewDecision(r) ==
    /\ Running(r, "review")
    /\ LET q == session[r].req
           c == session[r].seen
           i == EntryOf(c, q.id)
           shut == q.approve /\ c.decisions[i].closes
       IN Flush(r, [c EXCEPT !.decisions[i] = Reviewed(@, q),
                             !.status = IF shut THEN "closed" ELSE @],
                <<IF q.approve THEN "decision.approved" ELSE "decision.rejected">>
                  \o ClosingLine(shut), q.id)

ReopenInvestigation(r) ==
    /\ Running(r, "reopen")
    /\ Flush(r, [session[r].seen EXCEPT !.status = "analysis"], <<"case.reopened">>, 0)

-------------------------------------------------------------------------------
(* Sharing, transfer, deletion *)

ShareInvestigation(r) ==
    /\ Running(r, "share")
    /\ LET q == session[r].req
       IN Flush(r, [session[r].seen EXCEPT !.shares[q.who] = q.role], <<"case.shared">>, 0)

UnshareInvestigation(r) ==
    /\ Running(r, "unshare")
    /\ LET q == session[r].req
       IN Flush(r, [session[r].seen EXCEPT !.shares[q.who] = "none"], <<"case.unshared">>, 0)

\* transfer_owner: a share held by the new owner goes; the previous owner
\* keeps no implicit access.
TransferOwner(r) ==
    /\ Running(r, "transfer")
    /\ LET q == session[r].req
       IN Flush(r, [session[r].seen EXCEPT !.owner = q.who, !.shares[q.who] = "none"],
                <<"case.transferred">>, 0)

DeleteInvestigation(r) ==
    /\ Running(r, "delete")
    /\ Flush(r, [session[r].seen EXCEPT !.alive = FALSE], <<>>, 0)

-------------------------------------------------------------------------------
(* Commit *)

\* The session writes a column only when its value changed.
Written(new, old, current) == IF new # old THEN new ELSE current

Merge(c, seen, work) ==
    [status    |-> Written(work.status, seen.status, c.status),
     caseType  |-> Written(work.caseType, seen.caseType, c.caseType),
     decisions |-> Written(work.decisions, seen.decisions, c.decisions),
     owner     |-> Written(work.owner, seen.owner, c.owner),
     assignee  |-> Written(work.assignee, seen.assignee, c.assignee),
     shares    |-> [u \in People |-> Written(work.shares[u], seen.shares[u], c.shares[u])],
     proposals |-> [p \in Proposals |->
                      Written(work.proposals[p], seen.proposals[p], c.proposals[p])],
     alive     |-> Written(work.alive, seen.alive, c.alive)]

\* A share row is inserted twice (the unique constraint refuses it), or updated
\* after another session removed it (no row matched).
ShareConflict(c, seen, work) ==
    \E u \in People :
        /\ work.shares[u] \notin {"none", seen.shares[u]}
        /\ (seen.shares[u] = "none") # (c.shares[u] = "none")

Committable(r) ==
    /\ session[r].pc = "flushed"
    /\ row.alive
    /\ ~ShareConflict(row, session[r].seen, session[r].work)

Commit(r) ==
    /\ Committable(r)
    /\ row' = Merge(row, session[r].seen, session[r].work)
    /\ journal' = journal \cup session[r].lines
    /\ session' = [session EXCEPT ![r] = Idle]
    /\ UNCHANGED <<clock, scenario>>

\* The request ends without its commit: a later check of the handler fails,
\* the database refuses it, or the process is lost.  The session is rolled
\* back; the in-memory store has nothing to roll back before the first write.
Rollback(r) ==
    /\ session[r] # Idle
    /\ Memory => session[r].pc = "loaded"
    /\ session' = [session EXCEPT ![r] = Idle]
    /\ UNCHANGED <<row, journal, clock, scenario>>

-------------------------------------------------------------------------------
Handler(r) ==
    \/ UpdateStatus(r) \/ UpdateCaseType(r) \/ UpdateAssignee(r)
    \/ WriteContent(r) \/ ProposeDecision(r) \/ DismissProposal(r)
    \/ RecordDecision(r) \/ EvidenceMissing(r) \/ ReviewDecision(r)
    \/ ReopenInvestigation(r)
    \/ ShareInvestigation(r) \/ UnshareInvestigation(r) \/ TransferOwner(r)
    \/ DeleteInvestigation(r)

Next ==
    \E r \in Requests :
        \/ \E q \in Request : Load(r, q)
        \/ Handler(r)
        \/ Commit(r)
        \/ Rollback(r)

Spec == Init /\ [][Next]_vars

-------------------------------------------------------------------------------
(* Properties that hold however requests overlap *)

\* Four eyes: an approved decision was approved by another person than its
\* author, and by the named reviewer when there is one (review_decision).
JudgedByAnother(d) ==
    d.review = "approved" =>
        /\ d.reviewedBy \in People \ {d.by}
        /\ d.reviewer # NoOne => d.reviewedBy = d.reviewer

FourEyes == \A d \in Entries(row) : JudgedByAnother(d)

\* Nothing else is decided while one waits: the column never holds two pending
\* decisions, even when two people record at the same time.
OnePending ==
    \A i, j \in DOMAIN row.decisions :
        row.decisions[i].review = "pending" /\ row.decisions[j].review = "pending" => i = j

\* What a review may be, and that one is waited for at a time.
ReviewRules == FourEyes /\ OnePending

\* The journal backs the column: each decision has its decision.recorded line,
\* a reviewed one the line of its review, one that closed the case its
\* case.closed (record_decision and review_decision commit both together).
BackedByJournal ==
    row.alive =>
    \A d \in Entries(row) :
        LET Has(kind) == \E l \in journal : l.kind = kind /\ l.id = d.id
        IN /\ Has("decision.recorded")
           /\ d.review = "approved" => Has("decision.approved")
           /\ d.review = "rejected" => Has("decision.rejected")
           /\ d.closed => Has("case.closed")

\* A follow-up task names a decision that was recorded (_decision_tasks runs
\* before the checks on the evidence).
TasksHaveDecision ==
    \A t \in journal : t.kind = "task.set" =>
        \E l \in journal : l.kind = "decision.recorded" /\ l.id = t.id

\* The journal and the row tell the same story, whichever handler wrote first.
JournalAgrees == BackedByJournal /\ TasksHaveDecision

-------------------------------------------------------------------------------
(* Properties that need requests on the case not to overlap *)

Alone == scenario.atOnce = 1

\* The column is append-only: a decision the journal records is still there.
NothingLost ==
    \A l \in journal : l.kind = "decision.recorded" => \E d \in Entries(row) : d.id = l.id

\* Every recorded hash can be recomputed from the journal (verify_decisions).
HashVerifies == \A d \in Entries(row) : d.hash = HashOf(journal, d.id)

\* The decisions and the journal tell one story: the decisions are all there and each can
\* be verified, what they say was journaled, and what they asked for has its decision.
DecisionsStand == JournalAgrees /\ (Alone => NothingLost /\ HashVerifies)

\* A decision is reviewed once (NOT_PENDING).
ReviewedOnce ==
    \A l, m \in journal :
        {l.kind, m.kind} \subseteq {"decision.approved", "decision.rejected"} /\ l.id = m.id
            => l = m

\* A closed case is read-only: nothing but case.reopened, sharing and the
\* tasks is journaled on it (ensure_not_closed).
FreezeExempt == {"case.reopened", "case.shared", "case.unshared", "case.transferred"}

ClosedIsReadOnly ==
    [][Alone /\ row.status = "closed" =>
         \A l \in journal' \ journal : l.kind \in FreezeExempt]_vars

\* The case type is fixed once there is a decision (CASE_TYPE_LOCKED).
TypeFixedByDecision ==
    [][Alone /\ row.decisions # <<>> => row'.caseType = row.caseType]_vars

\* A case that a decision closed is deleted only by a superuser who gives a
\* reason (under_retention).
Forced(r) ==
    /\ session[r] # Idle
    /\ session'[r] = Idle
    /\ session[r].req.op = "delete"
    /\ session[r].req.by \in Superusers
    /\ session[r].req.reason

RetainedUnlessForced ==
    [][Alone /\ row.alive /\ ~row'.alive /\ (\E l \in journal : l.kind = "case.closed") =>
         \E r \in Requests : Forced(r)]_vars

\* A proposal that a decision took up stays confirmed (NOT_SUGGESTED).
ProposalStaysTaken ==
    [][\A p \in Proposals :
         Alone /\ row.proposals[p] = "confirmed" => row'.proposals[p] = "confirmed"]_vars

\* What a decision binds stays bound until a person reopens or deletes the case
\* the way the guide allows: its review, the content, the type, the case itself
\* and the proposal it took up (docs/guide/investigations.md, "Decisions").
DecisionBinds ==
    /\ [](Alone => ReviewedOnce)
    /\ ClosedIsReadOnly
    /\ TypeFixedByDecision
    /\ RetainedUnlessForced
    /\ ProposalStaysTaken

-------------------------------------------------------------------------------
(* A promise the code does not keep: it does not survive unshare and transfer *)

\* The named reviewer of a waiting decision can edit the case, else it waits
\* for someone who cannot open it (the check of record_decision).
ReviewerHasAccess ==
    row.alive => \A d \in Pending(row) : d.reviewer # NoOne => CanWrite(row, d.reviewer)

-------------------------------------------------------------------------------
(* The abstract book of decisions *)

Book == INSTANCE DecisionBook WITH
          phase <- IF ~Alone THEN "open" ELSE IF row.alive THEN row.status ELSE "deleted",
          book  <- [i \in {j \in DOMAIN row.decisions : Alone} |->
                      [closes |-> row.decisions[i].closes,
                       review |-> row.decisions[i].review]]

\* Requests that do not overlap implement the book: every commit is one of its
\* steps or changes neither the phase nor the book.  (Those that do overlap lose
\* decisions, so they are not mapped: the book stays as it started.)
ImplementsBook == Book!Spec
===============================================================================
