--------------------------- MODULE CaseRecordProofs ---------------------------
(****************************************************************************)
(* Proofs about CaseRecord for every set of people, case types, request     *)
(* slots and proposals.  First, in both storage modes: type correctness,    *)
(* four eyes and at most one waiting decision, however requests overlap.    *)
(* Then the decisions and their journal, and the refinement of              *)
(* DecisionBook.                                                            *)
(*                                                                          *)
(* Why the first survive without a lock: whatever a session commits over,   *)
(* the `decisions` it writes is a whole column derived from a column that   *)
(* was committed before.  The inductive invariant therefore speaks of every *)
(* copy of the column (the row, what each session read, what it is about    *)
(* to write) and remembers that a session's request was admitted by the     *)
(* row it read.                                                             *)
(****************************************************************************)
EXTENDS CaseRecord, FiniteSetTheorems, TLAPS

AtMostOneWaits(c) ==
    \A i, j \in DOMAIN c.decisions :
        c.decisions[i].review = "pending" /\ c.decisions[j].review = "pending" => i = j

Sound(c) ==
    /\ \A i \in DOMAIN c.decisions : JudgedByAnother(c.decisions[i])
    /\ AtMostOneWaits(c)

SessionSound(r) ==
    /\ session[r].pc \in {"loaded", "flushed"} =>
          Sound(session[r].seen) /\ Admits(session[r].seen, session[r].req)
    /\ session[r].pc = "flushed" => Sound(session[r].work)

IInv ==
    /\ TypeOK
    /\ Sound(row)
    /\ \A r \in Requests : SessionSound(r)

-------------------------------------------------------------------------------
(* Facts about the sessions and the lines *)

LEMMA SessionCases ==
    ASSUME TypeOK, NEW r \in Requests
    PROVE  /\ session[r].pc = "loaded" =>
                session[r].req \in Request /\ session[r].seen \in Row
           /\ session[r].pc = "flushed" =>
                /\ session[r].req \in Request
                /\ session[r].seen \in Row
                /\ session[r].work \in Row
                /\ session[r].lines \subseteq Line
BY DEF TypeOK, Session, Idle

LEMMA StampedType ==
    ASSUME NEW kinds \in Seq(LineKinds), NEW id \in Nat, clock \in 0 .. MaxLines,
           clock + Len(kinds) <= MaxLines, MaxLines \in Nat
    PROVE  Stamped(kinds, id) \subseteq Line
<1> SUFFICES ASSUME NEW i \in DOMAIN kinds
             PROVE  [at |-> clock + i, kind |-> kinds[i], id |-> id] \in Line
  BY DEF Stamped
<1>1. clock + i \in Stamps  BY DEF Stamps
<1>2. kinds[i] \in LineKinds  OBVIOUS
<1> QED  BY <1>1, <1>2 DEF Line

\* Flush keeps the types when what it is given has them.
LEMMA FlushType ==
    ASSUME TypeOK, NEW r \in Requests, session[r].pc = "loaded", NEW work \in Row,
           NEW kinds \in Seq(LineKinds), NEW id \in Nat, Flush(r, work, kinds, id)
    PROVE  TypeOK'
<1>1. session[r].req \in Request /\ session[r].seen \in Row  BY SessionCases
<1>2. Stamped(kinds, id) \subseteq Line
  BY StampedType, BoundAssumption DEF TypeOK, Flush
<1>3. [pc |-> "flushed", req |-> session[r].req, seen |-> session[r].seen,
       work |-> work, lines |-> Stamped(kinds, id)] \in Session
  BY <1>1, <1>2 DEF Session
<1>4. session' \in [Requests -> Session]  BY <1>3 DEF TypeOK, Flush
<1>5. clock' \in 0 .. MaxLines  BY BoundAssumption DEF TypeOK, Flush
<1> QED  BY <1>4, <1>5 DEF TypeOK, Flush

\* Flush keeps the invariant when the copy it is given is typed and sound.
LEMMA FlushKeeps ==
    ASSUME IInv, NEW r \in Requests, session[r].pc = "loaded", NEW work \in Row,
           Sound(work), NEW kinds \in Seq(LineKinds), NEW id \in Nat,
           Flush(r, work, kinds, id)
    PROVE  IInv'
<1>1. TypeOK'  BY FlushType DEF IInv
<1>2. Sound(row)'  BY DEF IInv, Flush, Sound, AtMostOneWaits
<1>3. ASSUME NEW s \in Requests PROVE SessionSound(s)'
  <2>1. CASE s = r
    <3>1. session'[s] = [pc |-> "flushed", req |-> session[r].req,
                         seen |-> session[r].seen, work |-> work,
                         lines |-> Stamped(kinds, id)]
      BY <2>1 DEF IInv, TypeOK, Flush
    <3>2. Sound(session[r].seen) /\ Admits(session[r].seen, session[r].req)
      BY DEF IInv, SessionSound
    <3> QED  BY <3>1, <3>2 DEF SessionSound
  <2>2. CASE s # r
    <3>1. session'[s] = session[s]  BY <2>2 DEF IInv, TypeOK, Flush
    <3> QED  BY <3>1 DEF IInv, SessionSound
  <2> QED  BY <2>1, <2>2
<1> QED  BY <1>1, <1>2, <1>3 DEF IInv

\* A copy with the same decisions is as sound.
LEMMA SameDecisions ==
    ASSUME NEW c, NEW d, Sound(c), d.decisions = c.decisions
    PROVE  Sound(d)
BY DEF Sound, AtMostOneWaits

-------------------------------------------------------------------------------
(* The initial state *)

LEMMA InitSound == Init => IInv
<1> SUFFICES ASSUME Init PROVE IInv  OBVIOUS
<1>1. TypeOK
  <2>1. row \in Row
    BY DEF Init, Row, Statuses, Shares, SomeOne
  <2>2. session \in [Requests -> Session]  BY DEF Init, Session
  <2>3. journal \subseteq Line /\ clock \in 0 .. MaxLines
    BY BoundAssumption DEF Init
  <2>4. scenario \in Scenarios  BY DEF Init
  <2> QED  BY <2>1, <2>2, <2>3, <2>4 DEF TypeOK
<1>2. row.decisions = <<>>  BY DEF Init
<1>3. Sound(row)  BY <1>2 DEF Sound, AtMostOneWaits
<1>4. \A r \in Requests : SessionSound(r)  BY DEF Init, SessionSound, Idle
<1> QED  BY <1>1, <1>3, <1>4 DEF IInv

-------------------------------------------------------------------------------
(* Loading *)

LEMMA LoadKeeps ==
    ASSUME IInv, NEW r \in Requests, NEW q \in Request, Load(r, q)
    PROVE  IInv'
<1>1. row \in Row  BY DEF IInv, TypeOK
<1>2. [pc |-> "loaded", req |-> q, seen |-> row] \in Session  BY <1>1 DEF Session
<1>3. TypeOK'  BY <1>2 DEF IInv, TypeOK, Load
<1>4. Sound(row)'  BY DEF IInv, Load, Sound, AtMostOneWaits
<1>5. ASSUME NEW s \in Requests PROVE SessionSound(s)'
  <2>1. CASE s = r
    <3>1. session'[s] = [pc |-> "loaded", req |-> q, seen |-> row]
      BY <2>1 DEF IInv, TypeOK, Load
    <3> QED  BY <3>1 DEF IInv, SessionSound, Load
  <2>2. CASE s # r
    <3>1. session'[s] = session[s]  BY <2>2 DEF IInv, TypeOK, Load
    <3> QED  BY <3>1 DEF IInv, SessionSound
  <2> QED  BY <2>1, <2>2
<1> QED  BY <1>3, <1>4, <1>5 DEF IInv

-------------------------------------------------------------------------------
(* Handlers that leave the decisions as they read them *)

\* What a running handler works on.
LEMMA Read ==
    ASSUME IInv, NEW r \in Requests, session[r].pc = "loaded"
    PROVE  /\ session[r].req \in Request
           /\ session[r].seen \in Row
           /\ Sound(session[r].seen)
           /\ Admits(session[r].seen, session[r].req)
BY SessionCases DEF IInv, SessionSound

\* The fields of a request, by operation.
LEMMA RequestFields ==
    ASSUME NEW q \in Request
    PROVE  /\ q.by \in People
           /\ q.op = "status" => q.to \in {"open", "analysis"}
           /\ q.op = "retype" => q.to \in CaseTypes
           /\ q.op = "assign" => q.who \in SomeOne
           /\ q.op \in {"propose", "dismiss"} => q.proposal \in Proposals
           /\ q.op = "record" =>
                 /\ q.closes \in BOOLEAN
                 /\ q.reviewer \in SomeOne
                 /\ q.tasks \in BOOLEAN
                 /\ q.proposal \in Proposals \cup {NoOne}
           /\ q.op = "review" => q.id \in Stamps /\ q.approve \in BOOLEAN
           /\ q.op = "share" => q.who \in People /\ q.role \in {"reader", "editor"}
           /\ q.op \in {"unshare", "transfer"} => q.who \in People
BY DEF Request

LEMMA UpdateKeeps ==
    ASSUME IInv, NEW r \in Requests,
           UpdateStatus(r) \/ UpdateCaseType(r) \/ UpdateAssignee(r) \/ WriteContent(r)
    PROVE  IInv'
<1> DEFINE c == session[r].seen
           q == session[r].req
           kinds == IF q.op = "content" THEN <<"content">> ELSE <<"case.updated">>
<1>1. session[r].pc = "loaded"
  BY DEF UpdateStatus, UpdateCaseType, UpdateAssignee, WriteContent, Running
<1>2. q \in Request /\ c \in Row /\ Sound(c)  BY <1>1, Read
<1>3. <<"case.updated">> \in Seq(LineKinds) /\ <<"content">> \in Seq(LineKinds)
  BY DEF LineKinds
<1>4. CASE UpdateStatus(r)
  <2> DEFINE work == [c EXCEPT !.status = q.to]
  <2>1. work \in Row  BY <1>2, <1>4, RequestFields DEF Row, Statuses, UpdateStatus, Running
  <2>2. Sound(work)  BY <1>2, SameDecisions DEF Row
  <2>3. Flush(r, work, <<"case.updated">>, 0)  BY <1>4 DEF UpdateStatus
  <2> HIDE DEF work
  <2> QED  BY <1>1, <1>3, <2>1, <2>2, <2>3, FlushKeeps
<1>5. CASE UpdateCaseType(r)
  <2> DEFINE work == [c EXCEPT !.caseType = q.to]
  <2>1. work \in Row  BY <1>2, <1>5, RequestFields DEF Row, UpdateCaseType, Running
  <2>2. Sound(work)  BY <1>2, SameDecisions DEF Row
  <2>3. Flush(r, work, <<"case.updated">>, 0)  BY <1>5 DEF UpdateCaseType
  <2> HIDE DEF work
  <2> QED  BY <1>1, <1>3, <2>1, <2>2, <2>3, FlushKeeps
<1>6. CASE UpdateAssignee(r)
  <2> DEFINE sh == [u \in People |-> IF u = q.who /\ u # c.owner THEN "editor" ELSE c.shares[u]]
             work == [c EXCEPT !.assignee = q.who, !.shares = sh]
  <2>1. sh \in [People -> Shares]  BY <1>2 DEF Row, Shares
  <2>2. q.who \in SomeOne  BY <1>2, <1>6, RequestFields DEF UpdateAssignee, Running
  <2>3. Flush(r, work, <<"case.updated">>, 0)  BY <1>6 DEF UpdateAssignee
  <2> HIDE DEF sh
  <2>4. work \in Row  BY <1>2, <2>1, <2>2 DEF Row
  <2>5. Sound(work)  BY <1>2, SameDecisions DEF Row
  <2> HIDE DEF work
  <2> QED  BY <1>1, <1>3, <2>3, <2>4, <2>5, FlushKeeps
<1>7. CASE WriteContent(r)
  <2>1. Flush(r, c, <<"content">>, 0)  BY <1>7 DEF WriteContent
  <2> QED  BY <1>1, <1>2, <1>3, <2>1, FlushKeeps
<1> QED  BY <1>4, <1>5, <1>6, <1>7

LEMMA ProposalKeeps ==
    ASSUME IInv, NEW r \in Requests, ProposeDecision(r) \/ DismissProposal(r)
    PROVE  IInv'
<1> DEFINE c == session[r].seen
           p == session[r].req.proposal
<1>1. session[r].pc = "loaded"  BY DEF ProposeDecision, DismissProposal, Running
<1>2. c \in Row /\ Sound(c)  BY <1>1, Read
<1>3. ASSUME NEW to \in {"suggested", "rejected"}
      PROVE  /\ [c EXCEPT !.proposals[p] = to] \in Row
             /\ Sound([c EXCEPT !.proposals[p] = to])
  <2>1. [c EXCEPT !.proposals[p] = to] \in Row  BY <1>2 DEF Row
  <2>2. [c EXCEPT !.proposals[p] = to].decisions = c.decisions  BY <1>2 DEF Row
  <2> QED  BY <1>2, <2>1, <2>2, SameDecisions
<1>4. CASE ProposeDecision(r)
  <2> DEFINE work == [c EXCEPT !.proposals[p] = "suggested"]
  <2>1. Flush(r, work, <<"decision_proposal.suggested">>, 0)  BY <1>4 DEF ProposeDecision
  <2>2. work \in Row /\ Sound(work)  BY <1>3
  <2>3. <<"decision_proposal.suggested">> \in Seq(LineKinds)  BY DEF LineKinds
  <2> HIDE DEF work
  <2> QED  BY <1>1, <2>1, <2>2, <2>3, FlushKeeps
<1>5. CASE DismissProposal(r)
  <2> DEFINE work == [c EXCEPT !.proposals[p] = "rejected"]
  <2>1. Flush(r, work, <<"decision_proposal.rejected">>, 0)  BY <1>5 DEF DismissProposal
  <2>2. work \in Row /\ Sound(work)  BY <1>3
  <2>3. <<"decision_proposal.rejected">> \in Seq(LineKinds)  BY DEF LineKinds
  <2> HIDE DEF work
  <2> QED  BY <1>1, <2>1, <2>2, <2>3, FlushKeeps
<1> QED  BY <1>4, <1>5

LEMMA SharingKeeps ==
    ASSUME IInv, NEW r \in Requests,
           \/ ShareInvestigation(r) \/ UnshareInvestigation(r)
           \/ TransferOwner(r) \/ DeleteInvestigation(r)
    PROVE  IInv'
<1> DEFINE c == session[r].seen
           q == session[r].req
<1>1. session[r].pc = "loaded"
  BY DEF ShareInvestigation, UnshareInvestigation, TransferOwner, DeleteInvestigation, Running
<1>2. q \in Request /\ c \in Row /\ Sound(c)  BY <1>1, Read
<1>3. CASE ShareInvestigation(r)
  <2> DEFINE work == [c EXCEPT !.shares[q.who] = q.role]
  <2>1. Flush(r, work, <<"case.shared">>, 0)  BY <1>3 DEF ShareInvestigation
  <2>2. q.role \in Shares  BY <1>2, <1>3, RequestFields DEF ShareInvestigation, Running, Shares
  <2>3. work \in Row  BY <1>2, <2>2 DEF Row
  <2>4. Sound(work)  BY <1>2, SameDecisions DEF Row
  <2>5. <<"case.shared">> \in Seq(LineKinds)  BY DEF LineKinds
  <2> HIDE DEF work
  <2> QED  BY <1>1, <2>1, <2>3, <2>4, <2>5, FlushKeeps
<1>4. CASE UnshareInvestigation(r)
  <2> DEFINE work == [c EXCEPT !.shares[q.who] = "none"]
  <2>1. Flush(r, work, <<"case.unshared">>, 0)  BY <1>4 DEF UnshareInvestigation
  <2>2. work \in Row  BY <1>2 DEF Row, Shares
  <2>3. Sound(work)  BY <1>2, SameDecisions DEF Row
  <2>4. <<"case.unshared">> \in Seq(LineKinds)  BY DEF LineKinds
  <2> HIDE DEF work
  <2> QED  BY <1>1, <2>1, <2>2, <2>3, <2>4, FlushKeeps
<1>5. CASE TransferOwner(r)
  <2> DEFINE work == [c EXCEPT !.owner = q.who, !.shares[q.who] = "none"]
  <2>1. Flush(r, work, <<"case.transferred">>, 0)  BY <1>5 DEF TransferOwner
  <2>2. q.who \in People  BY <1>2, <1>5, RequestFields DEF TransferOwner, Running
  <2>3. work \in Row  BY <1>2, <2>2 DEF Row, Shares
  <2>4. Sound(work)  BY <1>2, SameDecisions DEF Row
  <2>5. <<"case.transferred">> \in Seq(LineKinds)  BY DEF LineKinds
  <2> HIDE DEF work
  <2> QED  BY <1>1, <2>1, <2>3, <2>4, <2>5, FlushKeeps
<1>6. CASE DeleteInvestigation(r)
  <2> DEFINE work == [c EXCEPT !.alive = FALSE]
  <2>1. Flush(r, work, <<>>, 0)  BY <1>6 DEF DeleteInvestigation
  <2>2. work \in Row  BY <1>2 DEF Row
  <2>3. Sound(work)  BY <1>2, SameDecisions DEF Row
  <2>4. <<>> \in Seq(LineKinds)  OBVIOUS
  <2> HIDE DEF work
  <2> QED  BY <1>1, <2>1, <2>2, <2>3, <2>4, FlushKeeps
<1> QED  BY <1>3, <1>4, <1>5, <1>6

LEMMA ReopenKeeps ==
    ASSUME IInv, NEW r \in Requests, ReopenInvestigation(r)
    PROVE  IInv'
<1> DEFINE work == [session[r].seen EXCEPT !.status = "analysis"]
<1>1. session[r].pc = "loaded"  BY DEF ReopenInvestigation, Running
<1>2. session[r].seen \in Row /\ Sound(session[r].seen)  BY <1>1, Read
<1>3. work \in Row  BY <1>2 DEF Row, Statuses
<1>4. Sound(work)  BY <1>2, SameDecisions DEF Row
<1>5. Flush(r, work, <<"case.reopened">>, 0)  BY DEF ReopenInvestigation
<1>6. <<"case.reopened">> \in Seq(LineKinds)  BY DEF LineKinds
<1> HIDE DEF work
<1> QED  BY <1>1, <1>3, <1>4, <1>5, <1>6, FlushKeeps

-------------------------------------------------------------------------------
(* Recording and reviewing *)

\* The lines written before the decision's own.
LEMMA PreambleType ==
    ASSUME NEW q PROVE Preamble(q) \in Seq(LineKinds) /\ Len(Preamble(q)) \in Nat
<1>1. TaskLines(q) \in Seq(LineKinds)  BY DEF TaskLines, LineKinds
<1>2. (IF q.proposal = NoOne THEN <<>> ELSE <<"decision_proposal.confirmed">>) \in Seq(LineKinds)
  BY DEF LineKinds
<1>3. Preamble(q) \in Seq(LineKinds)  BY <1>1, <1>2 DEF Preamble
<1> QED  BY <1>3

LEMMA ClosingLineType ==
    ASSUME NEW shut \in BOOLEAN PROVE ClosingLine(shut) \in Seq(LineKinds)
<1>1. CASE shut = TRUE  BY <1>1 DEF ClosingLine, LineKinds
<1>2. CASE shut = FALSE  BY <1>2 DEF ClosingLine
<1> QED  BY <1>1, <1>2

\* A new decision is well formed and not yet judged by anybody.
LEMMA NewEntryType ==
    ASSUME TypeOK, NEW c \in Row, NEW q \in Request, q.op = "record"
    PROVE  /\ NewEntry(c, q) \in Decision
           /\ NewEntry(c, q).review # "approved"
           /\ NewEntry(c, q).id \in Nat
<1>1. NewId(q) \in Nat  BY PreambleType, BoundAssumption DEF NewId, TypeOK
<1>2. HashedNow(NewId(q)) \subseteq Nat
  <2>1. {l.at : l \in journal} \subseteq Nat
    BY BoundAssumption DEF TypeOK, Line, Stamps
  <2>2. (clock + 1 .. NewId(q)) \subseteq Nat  BY <1>1, BoundAssumption DEF TypeOK
  <2> QED  BY <2>1, <2>2 DEF HashedNow
<1>3. q.by \in People /\ q.closes \in BOOLEAN /\ q.reviewer \in SomeOne  BY RequestFields
<1>4. NeedsReview(c) \in BOOLEAN  BY DEF NeedsReview
<1> QED  BY <1>1, <1>2, <1>3, <1>4 DEF NewEntry, Decision, SomeOne

LEMMA RecordKeeps ==
    ASSUME IInv, NEW r \in Requests, RecordDecision(r)
    PROVE  IInv'
<1> DEFINE c == session[r].seen
           q == session[r].req
           e == NewEntry(c, q)
           ds == AddEntry(c.decisions, e)
           st == IF e.closed THEN "closed" ELSE c.status
           ps == TakenUp(c, q)
           work == [c EXCEPT !.decisions = ds, !.status = st, !.proposals = ps]
           kinds == Preamble(q) \o <<"decision.recorded">> \o ClosingLine(e.closed)
<1>1. session[r].pc = "loaded" /\ q.op = "record"  BY DEF RecordDecision, Running
<1>2. q \in Request /\ c \in Row /\ Sound(c) /\ Admits(c, q)  BY <1>1, Read
<1>3. e \in Decision /\ e.review # "approved" /\ e.id \in Nat
  BY <1>1, <1>2, NewEntryType DEF IInv
<1>4. c.decisions \in Seq(Decision)  BY <1>2 DEF Row
<1> HIDE DEF e
<1>5. ds \in Seq(Decision)  BY <1>3, <1>4 DEF AddEntry
<1>6. work \in Row
  <2>1. st \in Statuses  BY <1>2 DEF Row, Statuses
  <2>2. ps \in [Proposals -> {"absent", "suggested", "confirmed", "rejected"}]
    BY <1>2 DEF TakenUp, Row
  <2> HIDE DEF ds, st, ps
  <2> QED  BY <1>2, <1>5, <2>1, <2>2 DEF Row
<1>7. Sound(work)
  <2>1. work.decisions = ds  BY <1>2 DEF Row
  <2>2. ASSUME NEW i \in DOMAIN ds
        PROVE  \/ i \in DOMAIN c.decisions /\ ds[i] = c.decisions[i]
               \/ i = Len(c.decisions) + 1 /\ ds[i] = e
    BY <1>3, <1>4 DEF AddEntry
  <2>3. \A i \in DOMAIN ds : JudgedByAnother(ds[i])
    BY <1>2, <1>3, <2>2 DEF Sound, JudgedByAnother
  <2>4. \A i \in DOMAIN c.decisions : c.decisions[i].review # "pending"
    BY <1>1, <1>2 DEF Admits, MayRecord, Pending, Entries
  <2>5. AtMostOneWaits([decisions |-> ds])
    BY <2>2, <2>4 DEF AtMostOneWaits
  <2> HIDE DEF ds, work
  <2> QED  BY <2>1, <2>3, <2>5 DEF Sound, AtMostOneWaits
<1>8. kinds \in Seq(LineKinds)
  <2>1. Preamble(q) \in Seq(LineKinds)  BY PreambleType
  <2>2. <<"decision.recorded">> \in Seq(LineKinds)  BY DEF LineKinds
  <2>3. ClosingLine(e.closed) \in Seq(LineKinds)  BY <1>3, ClosingLineType DEF Decision
  <2> QED  BY <2>1, <2>2, <2>3
<1>9. Flush(r, work, kinds, e.id)  BY <1>2 DEF RecordDecision, e, Row
<1> HIDE DEF work, kinds
<1> QED  BY <1>1, <1>3, <1>6, <1>7, <1>8, <1>9, FlushKeeps

\* A request that ends: nothing is committed, or only lines of the journal.
LEMMA EndKeeps ==
    ASSUME IInv, NEW r \in Requests, session' = [session EXCEPT ![r] = Idle],
           row' \in Row, Sound(row'), journal' \subseteq Line, clock' \in 0 .. MaxLines,
           UNCHANGED scenario
    PROVE  IInv'
<1>1. TypeOK'  BY DEF IInv, TypeOK, Session
<1>2. Sound(row)'  BY DEF Sound, AtMostOneWaits
<1>3. ASSUME NEW s \in Requests PROVE SessionSound(s)'
  <2>1. CASE s = r
    <3>1. session'[s] = Idle  BY <2>1 DEF IInv, TypeOK
    <3> QED  BY <3>1 DEF SessionSound, Idle
  <2>2. CASE s # r
    <3>1. session'[s] = session[s]  BY <2>2 DEF IInv, TypeOK
    <3> QED  BY <3>1 DEF IInv, SessionSound
  <2> QED  BY <2>1, <2>2
<1> QED  BY <1>1, <1>2, <1>3 DEF IInv

LEMMA EvidenceMissingKeeps ==
    ASSUME IInv, NEW r \in Requests, EvidenceMissing(r)
    PROVE  IInv'
<1> DEFINE q == session[r].req
           id == NewId(q)
<1>1. id \in Nat /\ id <= MaxLines
  BY PreambleType, BoundAssumption DEF IInv, TypeOK, EvidenceMissing, NewId
<1>2. TaskLines(q) \in Seq(LineKinds) /\ clock + Len(TaskLines(q)) <= id
  <2>1. CASE q.tasks = TRUE
    <3>1. TaskLines(q) = <<"task.set">>  BY <2>1 DEF TaskLines
    <3>2. Len(Preamble(q)) >= 1  BY <3>1 DEF Preamble
    <3> QED  BY <3>1, <3>2, PreambleType, BoundAssumption DEF NewId, LineKinds, IInv, TypeOK
  <2>2. CASE TaskLines(q) = <<>>
    BY <2>2, PreambleType, BoundAssumption DEF NewId, IInv, TypeOK
  <2>3. q.tasks = TRUE \/ TaskLines(q) = <<>>
    <3>1. q \in Request /\ q.op = "record"  BY Read DEF EvidenceMissing, Running
    <3>2. q.tasks \in BOOLEAN  BY <3>1, RequestFields
    <3> QED  BY <3>2 DEF TaskLines
  <2> QED  BY <2>1, <2>2, <2>3
<1>3. Stamped(TaskLines(q), id) \subseteq Line
  <2>1. clock + Len(TaskLines(q)) <= MaxLines
    BY <1>1, <1>2, BoundAssumption DEF IInv, TypeOK
  <2> QED  BY <1>1, <1>2, <2>1, StampedType, BoundAssumption DEF IInv, TypeOK
<1>4. journal' \subseteq Line
  BY <1>3 DEF EvidenceMissing, Leftover, IInv, TypeOK
<1>5. clock' \in 0 .. MaxLines  BY <1>1, BoundAssumption DEF EvidenceMissing
<1>6. row' \in Row /\ Sound(row')  BY DEF EvidenceMissing, IInv, TypeOK
<1> QED  BY <1>4, <1>5, <1>6, EndKeeps DEF EvidenceMissing

LEMMA ReviewKeeps ==
    ASSUME IInv, NEW r \in Requests, ReviewDecision(r)
    PROVE  IInv'
<1> DEFINE c == session[r].seen
           q == session[r].req
           i == EntryOf(c, q.id)
           d == c.decisions[i]
           n == Reviewed(d, q)
           ds == [c.decisions EXCEPT ![i] = n]
           shut == q.approve /\ d.closes
           st == IF shut THEN "closed" ELSE c.status
           work == [c EXCEPT !.decisions[i] = Reviewed(@, q), !.status = st]
           judged == <<IF q.approve THEN "decision.approved" ELSE "decision.rejected">>
           kinds == judged \o ClosingLine(shut)
<1>1. session[r].pc = "loaded" /\ q.op = "review"  BY DEF ReviewDecision, Running
<1>2. q \in Request /\ c \in Row /\ Sound(c) /\ Admits(c, q)  BY <1>1, Read
<1>3. q.by \in People /\ q.id \in Nat /\ q.approve \in BOOLEAN
  BY <1>1, <1>2, RequestFields, BoundAssumption DEF Stamps
<1>4. HasEntry(c, q.id) /\ d.review = "pending" /\ MayJudge(d, q)
  BY <1>1, <1>2 DEF Admits, MayReview
<1>5. i \in DOMAIN c.decisions  BY <1>4 DEF HasEntry, EntryOf
<1>6. c.decisions \in Seq(Decision) /\ d \in Decision  BY <1>2, <1>5 DEF Row
<1> HIDE DEF i
<1>7. n \in Decision /\ n.review # "pending" /\ JudgedByAnother(n)
  <2>1. n \in Decision  BY <1>3, <1>6 DEF Reviewed, Decision, SomeOne
  <2>2. n.review # "pending"  BY <1>6 DEF Reviewed, Decision
  <2>3. n.review = "approved" => q.approve  BY <1>3, <1>6 DEF Reviewed, Decision
  <2>4. n.by = d.by /\ n.reviewer = d.reviewer /\ n.reviewedBy = q.by
    BY <1>6 DEF Reviewed, Decision
  <2>5. q.approve => q.by # d.by /\ d.reviewer \in {NoOne, q.by}
    BY <1>4 DEF MayJudge
  <2> QED  BY <1>3, <2>1, <2>2, <2>3, <2>4, <2>5 DEF JudgedByAnother
<1>8. ds \in Seq(Decision)  BY <1>5, <1>6, <1>7
<1>9. work = [c EXCEPT !.decisions = ds, !.status = st]  BY <1>2 DEF Row
<1>10. st \in Statuses  BY <1>2 DEF Row, Statuses
<1>11. work \in Row
  <2> HIDE DEF ds, st, work
  <2> QED  BY <1>2, <1>8, <1>9, <1>10 DEF Row
<1>12. Sound(work)
  <2> HIDE DEF n
  <2>1. DOMAIN ds = DOMAIN c.decisions  BY <1>6
  <2>2. \A j \in DOMAIN ds : ds[j] = IF j = i THEN n ELSE c.decisions[j]  BY <1>6
  <2>3. \A j \in DOMAIN ds : JudgedByAnother(ds[j])  BY <1>2, <1>7, <2>1, <2>2 DEF Sound
  <2>4. \A j \in DOMAIN ds : ds[j].review = "pending" => c.decisions[j].review = "pending"
    BY <1>7, <2>1, <2>2
  <2>5. AtMostOneWaits([decisions |-> ds])
    BY <1>2, <2>1, <2>4 DEF Sound, AtMostOneWaits
  <2>6. work.decisions = ds
    <3> HIDE DEF ds, work
    <3> QED  BY <1>2, <1>9 DEF Row
  <2> HIDE DEF ds, work
  <2> QED  BY <2>3, <2>5, <2>6 DEF Sound, AtMostOneWaits
<1>13. kinds \in Seq(LineKinds)
  <2>1. judged \in Seq(LineKinds)  BY DEF LineKinds
  <2>2. shut \in BOOLEAN  BY <1>3, <1>6 DEF Decision
  <2>3. ClosingLine(shut) \in Seq(LineKinds)  BY <2>2, ClosingLineType
  <2> QED  BY <2>1, <2>3
<1>14. Flush(r, work, kinds, q.id)  BY DEF ReviewDecision, i
<1> HIDE DEF work, kinds
<1> QED  BY <1>1, <1>3, <1>11, <1>12, <1>13, <1>14, FlushKeeps

-------------------------------------------------------------------------------
(* Commit and rollback *)

LEMMA MergeType ==
    ASSUME NEW c \in Row, NEW old \in Row, NEW new \in Row
    PROVE  Merge(c, old, new) \in Row
BY DEF Merge, Written, Row

LEMMA CommitKeeps ==
    ASSUME IInv, NEW r \in Requests, Commit(r)
    PROVE  IInv'
<1> DEFINE old == session[r].seen
           new == session[r].work
<1>1. session[r].pc = "flushed"  BY DEF Commit, Committable
<1>2. old \in Row /\ new \in Row /\ session[r].lines \subseteq Line
  BY <1>1, SessionCases DEF IInv
<1>3. Sound(new) /\ Sound(row) /\ row \in Row  BY <1>1 DEF IInv, SessionSound, TypeOK
<1>4. row' \in Row  BY <1>2, <1>3, MergeType DEF Commit
<1>5. row'.decisions \in {new.decisions, row.decisions}
  BY DEF Commit, Merge, Written
<1>6. Sound(row')  BY <1>3, <1>5, SameDecisions
<1>7. journal' \subseteq Line  BY <1>2 DEF Commit, IInv, TypeOK
<1>8. clock' \in 0 .. MaxLines  BY DEF Commit, IInv, TypeOK
<1> QED  BY <1>4, <1>6, <1>7, <1>8, EndKeeps DEF Commit

LEMMA RollbackKeeps ==
    ASSUME IInv, NEW r \in Requests, Rollback(r)
    PROVE  IInv'
<1>1. row' \in Row /\ Sound(row') /\ journal' \subseteq Line /\ clock' \in 0 .. MaxLines
  BY DEF Rollback, IInv, TypeOK
<1> QED  BY <1>1, EndKeeps DEF Rollback

-------------------------------------------------------------------------------
(* The theorems *)

\* Every step of every request keeps the invariant.
LEMMA NextKeeps == IInv /\ [Next]_vars => IInv'
<1> SUFFICES ASSUME IInv, [Next]_vars PROVE IInv'  OBVIOUS
<1>1. CASE UNCHANGED vars
  BY <1>1 DEF vars, IInv, TypeOK, SessionSound, Sound, AtMostOneWaits
<1>2. ASSUME NEW r \in Requests, NEW q \in Request, Load(r, q) PROVE IInv'
  BY <1>2, LoadKeeps
<1>3. ASSUME NEW r \in Requests, Handler(r) PROVE IInv'
  BY <1>3, UpdateKeeps, ProposalKeeps, RecordKeeps, EvidenceMissingKeeps, ReviewKeeps,
     ReopenKeeps, SharingKeeps DEF Handler
<1>4. ASSUME NEW r \in Requests, Commit(r) PROVE IInv'  BY <1>4, CommitKeeps
<1>5. ASSUME NEW r \in Requests, Rollback(r) PROVE IInv'  BY <1>5, RollbackKeeps
<1> QED  BY <1>1, <1>2, <1>3, <1>4, <1>5 DEF Next

\* The inductive invariant holds in every reachable state.
THEOREM Invariance == Spec => []IInv
<1>1. Init => IInv  BY InitSound
<1>2. IInv /\ [Next]_vars => IInv'  BY NextKeeps
<1> QED  BY <1>1, <1>2, PTL DEF Spec

\* The row, the journal and the sessions keep their types.
THEOREM TypeCorrect == Spec => []TypeOK
<1>1. IInv => TypeOK  BY DEF IInv
<1> QED  BY <1>1, Invariance, PTL

\* An approved decision was approved by another person than its author, the
\* named reviewer when there is one, and at most one decision waits, however
\* requests overlap.
THEOREM ReviewRulesHold == Spec => []ReviewRules
<1>1. IInv => FourEyes  BY DEF IInv, Sound, FourEyes, Entries
<1>2. IInv => OnePending  BY DEF IInv, Sound, AtMostOneWaits, OnePending
<1>3. IInv => ReviewRules  BY <1>1, <1>2 DEF ReviewRules
<1> QED  BY <1>3, Invariance, PTL

-------------------------------------------------------------------------------
(*****************************************************************************)
(* The decisions and their journal: the journal backs the column however     *)
(* requests overlap; when they do not, nothing is lost, every hash can be    *)
(* recomputed, what a decision binds stays bound, and the case implements    *)
(* DecisionBook.                                                             *)
(*                                                                           *)
(* A handler decides long before its commit.  The invariant therefore says   *)
(* of each copy that was flushed what will be said of the row: it agrees     *)
(* with the journal and the lines that go with it.  Alone, the row a session *)
(* has read is still the row, so that its commit writes exactly that copy.   *)
(*****************************************************************************)

\* The journal has what the column says of a decision.
Backed(d, lines) ==
    LET Has(kind) == \E l \in lines : l.kind = kind /\ l.id = d.id
    IN /\ Has("decision.recorded")
       /\ d.review = "approved" => Has("decision.approved")
       /\ d.review = "rejected" => Has("decision.rejected")
       /\ d.closed => Has("case.closed")

Backs(c, lines) == \A i \in DOMAIN c.decisions : Backed(c.decisions[i], lines)

\* A task names a decision.
TasksNamed(lines) ==
    \A t \in lines : t.kind = "task.set" =>
        \E l \in lines : l.kind = "decision.recorded" /\ l.id = t.id

Verdicts == {"decision.approved", "decision.rejected"}

\* The decisions of a case and a journal whose last stamp is now tell one story.
Told(c, lines, now) ==
    LET ds == c.decisions IN
    /\ \A i \in DOMAIN ds : ds[i].id <= now /\ ds[i].hash = HashOf(lines, ds[i].id)
    /\ \A i, j \in DOMAIN ds : ds[i].id = ds[j].id => i = j
    /\ \A i \in DOMAIN ds : ds[i].review = "pending" => ~ds[i].closed /\ c.status # "closed"
    /\ \A l \in lines : l.kind = "decision.recorded" => \E i \in DOMAIN ds : ds[i].id = l.id
    /\ \A l \in lines : l.kind \in Verdicts =>
          \E i \in DOMAIN ds : ds[i].id = l.id /\ ds[i].review \in {"approved", "rejected"}
    /\ \A l, m \in lines : {l.kind, m.kind} \subseteq Verdicts /\ l.id = m.id => l = m
    /\ (\E l \in lines : l.kind = "case.closed") =>
          \E i \in DOMAIN ds : ds[i].closes /\ ds[i].closed

\* What a handler asked by q makes of the row it has read.
Moved(c, w, q) ==
    /\ w.alive = (c.alive /\ q.op # "delete")
    /\ w.caseType # c.caseType => c.decisions = <<>>
    /\ \A p \in Proposals : c.proposals[p] = "confirmed" => w.proposals[p] = "confirmed"
    /\ q.op = "record" => \E e \in Entries(w) :
          /\ w.decisions = Append(c.decisions, e) /\ e.review \in {"none", "pending"}
          /\ w.status = IF e.closes /\ e.review = "none" THEN "closed" ELSE c.status
    /\ q.op = "review" => \E i \in DOMAIN c.decisions :
          /\ c.decisions[i].review = "pending"
          /\ w.decisions = [c.decisions EXCEPT ![i] = Reviewed(c.decisions[i], q)]
          /\ w.status = IF q.approve /\ c.decisions[i].closes THEN "closed" ELSE c.status
    /\ q.op \notin {"record", "review"} =>
          /\ w.decisions = c.decisions
          /\ w.status = IF q.op = "status" THEN q.to
                        ELSE IF q.op = "reopen" THEN "analysis" ELSE c.status

Busy == {r \in Requests : session[r] # Idle}

\* What holds of the journal and of the copies of the column, however requests overlap.
Kept ==
    /\ IsFiniteSet(Busy)
    /\ \A l \in journal : l.at <= clock
    /\ Backs(row, journal)
    /\ ~Memory => TasksNamed(journal)
    /\ \A r \in Busy : Backs(session[r].seen, journal)
    /\ \A r \in Busy : session[r].pc = "flushed" =>
          /\ TasksNamed(session[r].lines)
          /\ \A l \in session[r].lines : l.at <= clock
          /\ Backs(session[r].work, journal \cup session[r].lines)

\* What holds of them when requests do not.
AloneKept ==
    Alone =>
        /\ \A r, s \in Busy : r = s
        /\ Told(row, journal, clock)
        /\ \A r \in Busy :
              /\ session[r].seen = row /\ row.alive
              /\ session[r].pc = "flushed" =>
                    /\ Told(session[r].work, journal \cup session[r].lines, clock)
                    /\ Moved(row, session[r].work, session[r].req)
                    /\ row.status = "closed" =>
                          \A l \in session[r].lines : l.kind \in FreezeExempt

BInv == IInv /\ Kept /\ AloneKept

-------------------------------------------------------------------------------
(* Lines and columns. *)

\* What the journal has it keeps.
LEMMA BacksMore ==
    ASSUME NEW c, NEW lines, NEW more, Backs(c, lines), lines \subseteq more
    PROVE  Backs(c, more)
BY DEF Backs, Backed

\* Entries and positions of a column.
LEMMA EntriesBacked ==
    ASSUME NEW c, NEW lines
    PROVE  Backs(c, lines) <=> \A d \in Entries(c) : Backed(d, lines)
BY DEF Backs, Entries

\* The lines of one flush: one stamp each, after the clock, all about one decision.
LEMMA StampedLines ==
    ASSUME NEW kinds \in Seq(LineKinds), NEW id \in Nat, clock \in Nat
    PROVE  /\ \A l \in Stamped(kinds, id) :
                 /\ l.id = id /\ l.at \in Nat /\ l.at > clock /\ l.at <= clock + Len(kinds)
                 /\ \E k \in DOMAIN kinds : l.kind = kinds[k] /\ l.at = clock + k
           /\ \A k \in DOMAIN kinds : \E l \in Stamped(kinds, id) :
                 l.kind = kinds[k] /\ l.id = id /\ l.at = clock + k
           /\ \A l, m \in Stamped(kinds, id) : l.at = m.at => l = m
<1>1. \A k \in DOMAIN kinds : k \in Nat /\ k >= 1 /\ k <= Len(kinds)
  OBVIOUS
<1>2. ASSUME NEW l \in Stamped(kinds, id)
      PROVE  \E k \in DOMAIN kinds : l = [at |-> clock + k, kind |-> kinds[k], id |-> id]
  BY DEF Stamped
<1>3. ASSUME NEW l \in Stamped(kinds, id)
      PROVE  \E k \in DOMAIN kinds : l = [at |-> clock + k, kind |-> kinds[k], id |-> id]
                                      /\ l.kind = kinds[k] /\ l.at = clock + k /\ l.id = id
  BY <1>2
<1>4. \A l \in Stamped(kinds, id) :
         /\ l.id = id /\ l.at \in Nat /\ l.at > clock /\ l.at <= clock + Len(kinds)
         /\ \E k \in DOMAIN kinds : l.kind = kinds[k] /\ l.at = clock + k
  BY <1>1, <1>3
<1>5. ASSUME NEW k \in DOMAIN kinds
      PROVE  \E l \in Stamped(kinds, id) : l.kind = kinds[k] /\ l.id = id /\ l.at = clock + k
  <2>1. [at |-> clock + k, kind |-> kinds[k], id |-> id] \in Stamped(kinds, id)
    BY DEF Stamped
  <2>2. QED
    BY <2>1
<1>6. ASSUME NEW l \in Stamped(kinds, id), NEW m \in Stamped(kinds, id), l.at = m.at
      PROVE  l = m
  <2>1. PICK k \in DOMAIN kinds :
           l = [at |-> clock + k, kind |-> kinds[k], id |-> id] /\ l.at = clock + k
    BY <1>3
  <2>2. PICK n \in DOMAIN kinds :
           m = [at |-> clock + n, kind |-> kinds[n], id |-> id] /\ m.at = clock + n
    BY <1>3
  <2>3. k = n
    BY <1>1, <1>6, <2>1, <2>2
  <2>4. QED
    BY <2>1, <2>2, <2>3
<1>7. QED
  BY <1>4, <1>5, <1>6

\* What the lines of one flush say, whatever their order.
LEMMA StampedKinds ==
    ASSUME NEW kinds \in Seq(LineKinds), NEW id \in Nat, clock \in Nat
    PROVE  /\ \A l \in Stamped(kinds, id) :
                 /\ l.id = id /\ l.at \in Nat /\ l.at > clock
                 /\ \E k \in DOMAIN kinds : l.kind = kinds[k]
           /\ \A k \in DOMAIN kinds : \E l \in Stamped(kinds, id) :
                 l.kind = kinds[k] /\ l.id = id
<1>1. \A l \in Stamped(kinds, id) : l.id = id /\ l.at \in Nat /\ l.at > clock
  BY StampedLines
<1>2. \A l \in Stamped(kinds, id) : \E k \in DOMAIN kinds : l.kind = kinds[k]
  BY StampedLines
<1>3. ASSUME NEW k \in DOMAIN kinds
      PROVE  \E l \in Stamped(kinds, id) : l.kind = kinds[k] /\ l.id = id
  <2>1. PICK l \in Stamped(kinds, id) : l.kind = kinds[k] /\ l.id = id /\ l.at = clock + k
    BY StampedLines
  <2>2. QED
    BY <2>1
<1>4. QED
  BY <1>1, <1>2, <1>3

\* The entries of a column are decisions.
LEMMA EntryTypes ==
    ASSUME NEW c \in Row
    PROVE  /\ c.decisions \in Seq(Decision)
           /\ \A i \in DOMAIN c.decisions :
                 /\ c.decisions[i] \in Decision /\ c.decisions[i].id \in Nat
                 /\ i \in Nat /\ i >= 1 /\ i <= Len(c.decisions)
<1>1. c.decisions \in Seq(Decision)
  BY DEF Row
<1>2. \A i \in DOMAIN c.decisions : c.decisions[i] \in Decision
  BY <1>1
<1>3. \A d \in Decision : d.id \in Nat
  BY DEF Decision
<1>4. \A i \in DOMAIN c.decisions : i \in Nat /\ i >= 1 /\ i <= Len(c.decisions)
  BY <1>1
<1>5. QED
  BY <1>1, <1>2, <1>3, <1>4

\* A story that is told stays told while only time passes.
LEMMA ToldLater ==
    ASSUME NEW c \in Row, NEW lines, NEW now \in Nat, NEW later \in Nat,
           Told(c, lines, now), now <= later
    PROVE  Told(c, lines, later)
<1>1. \A i \in DOMAIN c.decisions : c.decisions[i].id \in Nat
  BY EntryTypes
<1>2. QED
  BY <1>1 DEF Told

\* Lines written after a decision do not change its hash.
LEMMA HashStands ==
    ASSUME NEW lines, NEW new, NEW now \in Nat, NEW id \in Nat, id <= now,
           \A l \in new : l.at \in Nat /\ l.at > now
    PROVE  HashOf(lines \cup new, id) = HashOf(lines, id)
<1>1. \A l \in new : ~(l.at <= id)
  OBVIOUS
<1>2. QED
  BY <1>1 DEF HashOf

TellingKinds == Verdicts \cup {"decision.recorded", "case.closed"}

\* ... nor while lines are written that are about no decision.
LEMMA ToldPlain ==
    ASSUME NEW c \in Row, NEW w, NEW lines, NEW new, NEW now \in Nat, NEW later \in Nat,
           Told(c, lines, now), now <= later, w.decisions = c.decisions,
           w.status = "closed" => c.status = "closed",
           \A l \in new : l.at \in Nat /\ l.at > now /\ l.kind \notin TellingKinds
    PROVE  Told(w, lines \cup new, later)
<1> DEFINE ds == c.decisions
<1>0. \A l \in new : l.at \in Nat /\ l.at > now
  OBVIOUS
<1>1. \A i \in DOMAIN ds : ds[i].id \in Nat
  BY EntryTypes
<1>2. ASSUME NEW i \in DOMAIN ds
      PROVE  ds[i].id <= later /\ ds[i].hash = HashOf(lines \cup new, ds[i].id)
  <2>1. ds[i].id <= now /\ ds[i].hash = HashOf(lines, ds[i].id)
    BY DEF Told
  <2>2. HashOf(lines \cup new, ds[i].id) = HashOf(lines, ds[i].id)
    <3> DEFINE id == ds[i].id
    <3>1. id \in Nat /\ id <= now
      BY <1>1, <2>1
    <3> HIDE DEF id
    <3>2. HashOf(lines \cup new, id) = HashOf(lines, id)
      BY <1>0, <3>1, HashStands
    <3>3. QED
      BY <3>2 DEF id
  <2>3. QED
    BY <1>1, <2>1, <2>2
<1>3. \A l \in lines \cup new : l.kind \in TellingKinds => l \in lines
  OBVIOUS
<1>4. \A l \in lines \cup new :
         l.kind \in Verdicts \/ l.kind \in {"decision.recorded", "case.closed"} => l \in lines
  BY <1>3 DEF TellingKinds
<1>5. \A i, j \in DOMAIN ds : ds[i].id = ds[j].id => i = j
  BY DEF Told
<1>6. \A i \in DOMAIN ds : ds[i].review = "pending" => ~ds[i].closed /\ w.status # "closed"
  BY DEF Told
<1>7. \A l \in lines \cup new : l.kind = "decision.recorded" =>
         \E i \in DOMAIN ds : ds[i].id = l.id
  BY <1>4 DEF Told
<1>8. \A l \in lines \cup new : l.kind \in Verdicts =>
         \E i \in DOMAIN ds : ds[i].id = l.id /\ ds[i].review \in {"approved", "rejected"}
  BY <1>4 DEF Told
<1>9. \A l, m \in lines \cup new : {l.kind, m.kind} \subseteq Verdicts /\ l.id = m.id => l = m
  BY <1>4 DEF Told
<1>10. (\E l \in lines \cup new : l.kind = "case.closed") =>
          \E i \in DOMAIN ds : ds[i].closes /\ ds[i].closed
  BY <1>4 DEF Told
<1> HIDE DEF ds
<1>11. QED
  BY <1>2, <1>5, <1>6, <1>7, <1>8, <1>9, <1>10 DEF Told, ds

-------------------------------------------------------------------------------
(* Steps in general. *)

\* A handler that flushes keeps the invariant when its copy agrees with its lines.
LEMMA FlushBooks ==
    ASSUME BInv, NEW r \in Requests, session[r].pc = "loaded", NEW work,
           NEW kinds \in Seq(LineKinds), NEW id \in Nat, Flush(r, work, kinds, id),
           TasksNamed(Stamped(kinds, id)), Backs(work, journal \cup Stamped(kinds, id)),
           Alone =>
              /\ Told(work, journal \cup Stamped(kinds, id), clock + Len(kinds))
              /\ Moved(row, work, session[r].req)
              /\ row.status = "closed" => \A l \in Stamped(kinds, id) : l.kind \in FreezeExempt
    PROVE  Kept' /\ AloneKept'
<1> DEFINE new == Stamped(kinds, id)
<1>0. /\ DOMAIN session = Requests /\ clock \in Nat /\ clock' = clock + Len(kinds)
      /\ Len(kinds) \in Nat /\ row \in Row /\ UNCHANGED <<row, journal, scenario>>
      /\ \A l \in journal : l.at \in Nat
  BY BoundAssumption DEF BInv, IInv, TypeOK, Flush, Line, Stamps
<1>1. session'[r] = [pc |-> "flushed", req |-> session[r].req, seen |-> session[r].seen,
                     work |-> work, lines |-> new]
  BY <1>0 DEF Flush
<1>2. /\ session'[r].pc = "flushed" /\ session'[r].req = session[r].req
      /\ session'[r].seen = session[r].seen /\ session'[r].work = work
      /\ session'[r].lines = new
  BY <1>1
<1>3. \A s \in Requests : s # r => session'[s] = session[s]
  BY <1>0 DEF Flush
<1>4. session[r] # Idle /\ session'[r] # Idle
  BY <1>2 DEF Idle
<1>5. Busy' = Busy
  BY <1>3, <1>4 DEF Busy
<1>6. \A l \in new : l.at <= clock'
  BY <1>0, StampedLines
<1>7. ASSUME NEW lines, lines \subseteq journal \/ \E s \in Busy :
                 session[s].pc = "flushed" /\ lines = session[s].lines,
             \A l \in lines : l.at <= clock
      PROVE  \A l \in lines : l.at <= clock'
  <2>1. \A l \in lines : l.at \in Nat
    BY <1>0, <1>7, SessionCases, BoundAssumption DEF BInv, IInv, Busy, Line, Stamps
  <2>2. QED
    BY <1>0, <1>7, <2>1
<1>8. Kept'
  <2>1. IsFiniteSet(Busy)'
    BY <1>5 DEF BInv, Kept
  <2>2. (\A l \in journal : l.at <= clock)'
    BY <1>0, <1>7 DEF BInv, Kept
  <2>3. Backs(row, journal)' /\ (~Memory => TasksNamed(journal))'
    BY <1>0 DEF BInv, Kept, Backs, TasksNamed
  <2>4. ASSUME NEW s \in Busy
        PROVE  /\ Backs(session'[s].seen, journal)
               /\ session'[s].pc = "flushed" =>
                     /\ TasksNamed(session'[s].lines)
                     /\ \A l \in session'[s].lines : l.at <= clock'
                     /\ Backs(session'[s].work, journal \cup session'[s].lines)
    <3>1. CASE s = r
      BY <1>2, <1>6, <3>1 DEF BInv, Kept
    <3>2. CASE s # r
      <4>1. session'[s] = session[s]
        BY <1>3, <3>2 DEF Busy
      <4>2. QED
        BY <1>7, <4>1 DEF BInv, Kept
    <3>3. QED
      BY <3>1, <3>2
  <2>5. QED
    BY <1>0, <1>5, <2>1, <2>2, <2>3, <2>4 DEF Kept, Backs, Backed, TasksNamed
<1>9. AloneKept'
  <2> SUFFICES ASSUME Alone PROVE AloneKept'
    BY <1>0 DEF AloneKept, Alone
  <2>1. \A s \in Busy : s = r
    BY <1>4 DEF BInv, AloneKept, Busy
  <2>2. Told(row, journal, clock')
    BY <1>0, ToldLater DEF BInv, AloneKept
  <2>3. session[r].seen = row /\ row.alive
    BY <1>4 DEF BInv, AloneKept, Busy
  <2>4. \A l \in new : row.status = "closed" => l.kind \in FreezeExempt
    OBVIOUS
  <2>5. /\ session'[r].seen = row /\ row.alive
        /\ Told(session'[r].work, journal \cup session'[r].lines, clock')
        /\ Moved(row, session'[r].work, session'[r].req)
        /\ row.status = "closed" => \A l \in session'[r].lines : l.kind \in FreezeExempt
    BY <1>0, <1>2, <2>3, <2>4
  <2>6. /\ row' = row /\ journal' = journal
    BY <1>0
  <2>7. Told(row', journal', clock')
    BY <2>2, <2>6
  <2>8. ASSUME NEW s \in Busy
        PROVE /\ session'[s].seen = row' /\ row'.alive
              /\ Told(session'[s].work, journal' \cup session'[s].lines, clock')
              /\ Moved(row', session'[s].work, session'[s].req)
              /\ row'.status = "closed" => \A l \in session'[s].lines : l.kind \in FreezeExempt
    BY <2>1, <2>5, <2>6
  <2>9. /\ (\A s, u \in Busy : s = u)'
        /\ Told(row, journal, clock)'
        /\ (\A s \in Busy :
              /\ session[s].seen = row /\ row.alive
              /\ session[s].pc = "flushed" =>
                    /\ Told(session[s].work, journal \cup session[s].lines, clock)
                    /\ Moved(row, session[s].work, session[s].req)
                    /\ row.status = "closed" =>
                          \A l \in session[s].lines : l.kind \in FreezeExempt)'
    BY <1>5, <2>1, <2>7, <2>8
  <2>10. QED
    BY <2>9 DEF AloneKept
<1>10. QED
  BY <1>8, <1>9

\* A request that ends keeps the invariant when the row and the journal it leaves agree.
LEMMA EndBooks ==
    ASSUME BInv, NEW r \in Busy, session' = [session EXCEPT ![r] = Idle], UNCHANGED scenario,
           journal \subseteq journal', clock' \in Nat, clock <= clock',
           \A l \in journal' : l.at <= clock',
           Backs(row', journal'), ~Memory => TasksNamed(journal'),
           Alone => Told(row', journal', clock')
    PROVE  Kept' /\ AloneKept'
<1>0. /\ DOMAIN session = Requests /\ clock \in Nat /\ r \in Requests
  BY BoundAssumption DEF BInv, IInv, TypeOK, Busy
<1>1. session'[r] = Idle /\ \A s \in Requests : s # r => session'[s] = session[s]
  BY <1>0
<1>2. Busy' = Busy \ {r}
  BY <1>0, <1>1 DEF Busy
<1>3. ASSUME NEW s \in Busy \ {r}
      PROVE  /\ Backs(session'[s].seen, journal')
             /\ session'[s].pc = "flushed" =>
                   /\ TasksNamed(session'[s].lines)
                   /\ \A l \in session'[s].lines : l.at <= clock'
                   /\ Backs(session'[s].work, journal' \cup session'[s].lines)
  <2>1. session'[s] = session[s]
    BY <1>1 DEF Busy
  <2>2. Backs(session[s].seen, journal')
    BY BacksMore DEF BInv, Kept
  <2>3. ASSUME session[s].pc = "flushed"
        PROVE  /\ TasksNamed(session[s].lines)
               /\ \A l \in session[s].lines : l.at <= clock'
               /\ Backs(session[s].work, journal' \cup session[s].lines)
    <3>1. session[s].lines \subseteq Line
      BY <2>3, SessionCases DEF BInv, IInv, Busy
    <3>2. \A l \in session[s].lines : l.at \in Nat /\ l.at <= clock
      <4>1. \A l \in Line : l.at \in Nat
        BY BoundAssumption DEF Line, Stamps
      <4>2. QED
        BY <2>3, <3>1, <4>1 DEF BInv, Kept
    <3>3. \A l \in session[s].lines : l.at <= clock'
      BY <1>0, <3>2
    <3>4. Backs(session[s].work, journal \cup session[s].lines)
          /\ journal \cup session[s].lines \subseteq journal' \cup session[s].lines
      BY <2>3 DEF BInv, Kept
    <3>5. Backs(session[s].work, journal' \cup session[s].lines)
      BY <3>4, BacksMore
    <3>6. QED
      BY <2>3, <3>3, <3>5 DEF BInv, Kept
  <2>4. QED
    BY <2>1, <2>2, <2>3
<1>4. Kept'
  <2>1. IsFiniteSet(Busy \ {r})
    BY FS_RemoveElement DEF BInv, Kept
  <2>2. QED
    BY <1>2, <1>3, <2>1 DEF Kept
<1>5. AloneKept'
  <2> SUFFICES ASSUME Alone PROVE AloneKept'
    BY DEF AloneKept, Alone
  <2>1. Busy' = {}
    BY <1>2 DEF BInv, AloneKept
  <2>2. QED
    BY <2>1 DEF AloneKept
<1>6. QED
  BY <1>4, <1>5

\* At first there is nothing to tell.
LEMMA InitBooks == Init => BInv
<1> SUFFICES ASSUME Init PROVE BInv
  OBVIOUS
<1>1. row.decisions = <<>> /\ DOMAIN row.decisions = {} /\ journal = {} /\ Busy = {}
  BY DEF Init, Busy
<1>2. Kept
  BY <1>1, FS_EmptySet DEF Kept, Backs, TasksNamed
<1>3. AloneKept
  BY <1>1 DEF AloneKept, Told
<1>4. QED
  BY <1>2, <1>3, InitSound DEF BInv

\* A request that is alone reads the row that its commit will find.
LEMMA LoadBooks ==
    ASSUME BInv, NEW r \in Requests, NEW q \in Request, Load(r, q)
    PROVE  Kept' /\ AloneKept'
<1>0. /\ DOMAIN session = Requests /\ UNCHANGED <<row, journal, clock, scenario>>
      /\ session[r] = Idle
  BY DEF BInv, IInv, TypeOK, Load
<1>1. session'[r] = [pc |-> "loaded", req |-> q, seen |-> row]
  BY <1>0 DEF Load
<1>2. session'[r].pc = "loaded" /\ session'[r].seen = row /\ session'[r] # Idle
  BY <1>1 DEF Idle
<1>3. \A s \in Requests : s # r => session'[s] = session[s]
  BY <1>0 DEF Load
<1>4. Busy' = Busy \cup {r}
  BY <1>2, <1>3 DEF Busy
<1>5. row.alive
  BY DEF Load, Admits
<1>6. ASSUME NEW s \in Busy \cup {r}
      PROVE  /\ Backs(session'[s].seen, journal)
             /\ session'[s].pc = "flushed" =>
                   /\ TasksNamed(session'[s].lines)
                   /\ \A l \in session'[s].lines : l.at <= clock
                   /\ Backs(session'[s].work, journal \cup session'[s].lines)
  <2>1. CASE s = r
    BY <1>2, <2>1 DEF BInv, Kept
  <2>2. CASE s # r
    <3>1. session'[s] = session[s]
      BY <1>3, <2>2 DEF Busy
    <3>2. QED
      BY <2>2, <3>1 DEF BInv, Kept
  <2>3. QED
    BY <2>1, <2>2
<1>7. Kept'
  <2>1. IsFiniteSet(Busy \cup {r})
    BY FS_AddElement DEF BInv, Kept
  <2>2. QED
    BY <1>0, <1>4, <1>6, <2>1 DEF Kept, BInv
<1>8. AloneKept'
  <2> SUFFICES ASSUME Alone PROVE AloneKept'
    BY <1>0 DEF AloneKept, Alone
  <2>1. Cardinality(Busy) < 1
    BY DEF Load, Busy, Alone
  <2>2. Busy = {}
    BY <2>1, FS_EmptySet, FS_CardinalityType DEF BInv, Kept
  <2>3. Busy' = {r}
    BY <1>4, <2>2
  <2>4. Told(row', journal', clock')
    BY <1>0 DEF BInv, AloneKept
  <2>5. session'[r].seen = row' /\ row'.alive /\ session'[r].pc # "flushed"
    BY <1>0, <1>2, <1>5
  <2>6. QED
    BY <2>3, <2>4, <2>5 DEF AloneKept
<1>9. QED
  BY <1>7, <1>8

\* The lines of a handler that is about no decision.
PlainKinds == {<<>>} \cup {<<k>> : k \in LineKinds \ (TellingKinds \cup {"task.set"})}

\* A handler that leaves the decisions keeps the invariant.
LEMMA PlainBooks ==
    ASSUME BInv, NEW r \in Requests, session[r].pc = "loaded", NEW work,
           NEW kinds \in PlainKinds, Flush(r, work, kinds, 0),
           work.decisions = session[r].seen.decisions,
           work.status = "closed" => session[r].seen.status = "closed",
           Alone => Moved(row, work, session[r].req),
           session[r].seen.status = "closed" =>
              \A k \in DOMAIN kinds : kinds[k] \in FreezeExempt
    PROVE  Kept' /\ AloneKept'
<1> DEFINE new == Stamped(kinds, 0)
           c == session[r].seen
<1>a. kinds \in Seq(LineKinds) /\ Len(kinds) \in Nat
  <2>1. \A k \in LineKinds : <<k>> \in Seq(LineKinds)
    OBVIOUS
  <2>2. kinds = <<>> \/ \E k \in LineKinds : kinds = <<k>>
    BY DEF PlainKinds
  <2>3. <<>> \in Seq(LineKinds)
    OBVIOUS
  <2>4. kinds \in Seq(LineKinds)
    BY <2>1, <2>2, <2>3
  <2>5. QED
    BY <2>4
<1>0. /\ r \in Busy /\ clock \in Nat /\ kinds \in Seq(LineKinds) /\ Len(kinds) \in Nat
      /\ row \in Row
  BY <1>a, BoundAssumption DEF BInv, IInv, TypeOK, Busy, Idle
<1>1. \A k \in DOMAIN kinds : kinds[k] \notin TellingKinds \cup {"task.set"}
  BY DEF PlainKinds
<1>2. \A l \in new : /\ l.at \in Nat /\ l.at > clock
                     /\ l.kind \notin TellingKinds /\ l.kind # "task.set"
                     /\ \E k \in DOMAIN kinds : l.kind = kinds[k]
  BY <1>0, <1>1, StampedLines
<1>3. TasksNamed(new)
  BY <1>2 DEF TasksNamed
<1>4. Backs(work, journal \cup new)
  <2>1. Backs(c, journal)
    BY <1>0 DEF BInv, Kept
  <2>2. QED
    BY <2>1, BacksMore DEF Backs
<1>5. ASSUME Alone
      PROVE  /\ Told(work, journal \cup new, clock + Len(kinds))
             /\ row.status = "closed" => \A l \in new : l.kind \in FreezeExempt
  <2>1. c = row /\ Told(row, journal, clock)
    BY <1>0, <1>5 DEF BInv, AloneKept
  <2>2. Told(work, journal \cup new, clock + Len(kinds))
    <3> DEFINE later == clock + Len(kinds)
    <3>1. later \in Nat /\ clock <= later
      BY <1>0
    <3>2. \A l \in new : l.at \in Nat /\ l.at > clock /\ l.kind \notin TellingKinds
      BY <1>2
    <3>3. work.decisions = row.decisions /\ (work.status = "closed" => row.status = "closed")
      BY <2>1
    <3> HIDE DEF later, new
    <3>4. Told(work, journal \cup new, later)
      BY <1>0, <2>1, <3>1, <3>2, <3>3, ToldPlain
    <3>5. QED
      BY <3>4 DEF later
  <2>3. QED
    BY <1>2, <2>1, <2>2
<1>6. QED
  BY <1>0, <1>3, <1>4, <1>5, FlushBooks

-------------------------------------------------------------------------------
(* The handlers. *)

\* What a running handler goes by; alone, the row is what it read.
LEMMA Running_Reads ==
    ASSUME BInv, NEW r \in Requests, session[r].pc = "loaded"
    PROVE  /\ session[r].req \in Request /\ session[r].seen \in Row /\ r \in Busy
           /\ Admits(session[r].seen, session[r].req) /\ session[r].seen.alive
           /\ Sound(session[r].seen) /\ Backs(session[r].seen, journal)
           /\ Alone => session[r].seen = row
<1>1. r \in Busy
  BY DEF Busy, Idle
<1>2. QED
  BY <1>1, Read DEF BInv, Kept, AloneKept, Admits

\* The lines of a handler that is about no decision.
LEMMA PlainLines ==
    /\ <<>> \in PlainKinds /\ <<"case.updated">> \in PlainKinds /\ <<"content">> \in PlainKinds
    /\ <<"decision_proposal.suggested">> \in PlainKinds
    /\ <<"decision_proposal.rejected">> \in PlainKinds
    /\ <<"case.reopened">> \in PlainKinds /\ <<"case.shared">> \in PlainKinds
    /\ <<"case.unshared">> \in PlainKinds /\ <<"case.transferred">> \in PlainKinds
<1>1. \A k \in {"case.updated", "content", "decision_proposal.suggested",
                "decision_proposal.rejected", "case.reopened", "case.shared", "case.unshared",
                "case.transferred"} : k \in LineKinds \ (TellingKinds \cup {"task.set"})
  BY DEF LineKinds, TellingKinds, Verdicts
<1>2. QED
  BY <1>1 DEF PlainKinds

\* update_investigation and the material.
LEMMA UpdateBooks ==
    ASSUME BInv, NEW r \in Requests,
           UpdateStatus(r) \/ UpdateCaseType(r) \/ UpdateAssignee(r) \/ WriteContent(r)
    PROVE  Kept' /\ AloneKept'
<1> DEFINE c == session[r].seen
           q == session[r].req
<1>1. session[r].pc = "loaded" /\ q.op \in {"status", "retype", "assign", "content"}
  BY DEF UpdateStatus, UpdateCaseType, UpdateAssignee, WriteContent, Running
<1>2. q \in Request /\ c \in Row /\ Admits(c, q) /\ c.alive /\ (Alone => c = row)
  BY <1>1, Running_Reads
<1>3. c.status # "closed"
  BY <1>1, <1>2 DEF Admits, NeedsOpen
<1>4. CASE UpdateStatus(r)
  <2> DEFINE work == [c EXCEPT !.status = q.to]
  <2>1. q.op = "status" /\ q.to \in {"open", "analysis"}
    BY <1>2, <1>4, RequestFields DEF UpdateStatus, Running
  <2>2. Flush(r, work, <<"case.updated">>, 0)
    BY <1>4 DEF UpdateStatus
  <2>3. /\ work.decisions = c.decisions /\ work.status = q.to /\ work.alive = c.alive
        /\ work.caseType = c.caseType /\ work.proposals = c.proposals
    BY <1>2 DEF Row
  <2> HIDE DEF work
  <2>4. Moved(c, work, q)
    BY <1>2, <2>1, <2>3 DEF Moved
  <2>5. QED
    BY <1>1, <1>2, <1>3, <2>1, <2>2, <2>3, <2>4, PlainLines, PlainBooks
<1>5. CASE UpdateCaseType(r)
  <2> DEFINE work == [c EXCEPT !.caseType = q.to]
  <2>1. q.op = "retype" /\ (q.to = c.caseType \/ c.decisions = <<>>)
    BY <1>2, <1>5 DEF UpdateCaseType, Running, Admits, MayRetype
  <2>2. Flush(r, work, <<"case.updated">>, 0)
    BY <1>5 DEF UpdateCaseType
  <2>3. /\ work.decisions = c.decisions /\ work.status = c.status /\ work.alive = c.alive
        /\ work.caseType = q.to /\ work.proposals = c.proposals
    BY <1>2 DEF Row
  <2> HIDE DEF work
  <2>4. Moved(c, work, q)
    BY <1>2, <2>1, <2>3 DEF Moved
  <2>5. QED
    BY <1>1, <1>2, <1>3, <2>2, <2>3, <2>4, PlainLines, PlainBooks
<1>6. CASE UpdateAssignee(r)
  <2> DEFINE sh == [u \in People |-> IF u = q.who /\ u # c.owner THEN "editor" ELSE c.shares[u]]
             work == [c EXCEPT !.assignee = q.who, !.shares = sh]
  <2>1. q.op = "assign"
    BY <1>6 DEF UpdateAssignee, Running
  <2>2. Flush(r, work, <<"case.updated">>, 0)
    BY <1>6 DEF UpdateAssignee
  <2> HIDE DEF sh
  <2>3. /\ work.decisions = c.decisions /\ work.status = c.status /\ work.alive = c.alive
        /\ work.caseType = c.caseType /\ work.proposals = c.proposals
    BY <1>2 DEF Row
  <2> HIDE DEF work
  <2>4. Moved(c, work, q)
    BY <1>2, <2>1, <2>3 DEF Moved
  <2>5. QED
    BY <1>1, <1>2, <1>3, <2>2, <2>3, <2>4, PlainLines, PlainBooks
<1>7. CASE WriteContent(r)
  <2>1. q.op = "content" /\ Flush(r, c, <<"content">>, 0)
    BY <1>7 DEF WriteContent, Running
  <2>2. Moved(c, c, q)
    BY <1>2, <2>1 DEF Moved
  <2>3. QED
    BY <1>1, <1>2, <1>3, <2>1, <2>2, PlainLines, PlainBooks
<1>8. QED
  BY <1>4, <1>5, <1>6, <1>7

\* create_annotation and set_status of a decision_proposal.
LEMMA ProposalBooks ==
    ASSUME BInv, NEW r \in Requests, ProposeDecision(r) \/ DismissProposal(r)
    PROVE  Kept' /\ AloneKept'
<1> DEFINE c == session[r].seen
           q == session[r].req
           p == q.proposal
<1>1. session[r].pc = "loaded" /\ q.op \in {"propose", "dismiss"}
  BY DEF ProposeDecision, DismissProposal, Running
<1>2. q \in Request /\ c \in Row /\ Admits(c, q) /\ c.alive /\ (Alone => c = row)
  BY <1>1, Running_Reads
<1>3. c.status # "closed"
  BY <1>1, <1>2 DEF Admits, NeedsOpen
<1>4. row.proposals[p] # "confirmed"
  BY DEF ProposeDecision, DismissProposal, IsSuggested
<1>5. ASSUME NEW to, NEW work, work = [c EXCEPT !.proposals[p] = to]
      PROVE  /\ work.decisions = c.decisions /\ work.status = c.status
             /\ Alone => Moved(c, work, q)
  <2>1. /\ work.decisions = c.decisions /\ work.status = c.status /\ work.alive = c.alive
        /\ work.caseType = c.caseType
        /\ work.proposals = [c.proposals EXCEPT ![p] = to]
    BY <1>2, <1>5 DEF Row
  <2>2. \A o \in Proposals : o # p => work.proposals[o] = c.proposals[o]
    BY <1>2, <2>1 DEF Row
  <2>3. QED
    BY <1>1, <1>2, <1>4, <2>1, <2>2 DEF Moved
<1>6. CASE ProposeDecision(r)
  <2> DEFINE work == [c EXCEPT !.proposals[p] = "suggested"]
  <2>1. Flush(r, work, <<"decision_proposal.suggested">>, 0)
    BY <1>6 DEF ProposeDecision
  <2>2. work.decisions = c.decisions /\ work.status = c.status /\ (Alone => Moved(c, work, q))
    BY <1>5
  <2> HIDE DEF work
  <2>3. QED
    BY <1>1, <1>2, <1>3, <2>1, <2>2, PlainLines, PlainBooks
<1>7. CASE DismissProposal(r)
  <2> DEFINE work == [c EXCEPT !.proposals[p] = "rejected"]
  <2>1. Flush(r, work, <<"decision_proposal.rejected">>, 0)
    BY <1>7 DEF DismissProposal
  <2>2. work.decisions = c.decisions /\ work.status = c.status /\ (Alone => Moved(c, work, q))
    BY <1>5
  <2> HIDE DEF work
  <2>3. QED
    BY <1>1, <1>2, <1>3, <2>1, <2>2, PlainLines, PlainBooks
<1>8. QED
  BY <1>6, <1>7

\* What a closed case lets happen: it is reopened, shared, transferred and deleted.
LEMMA ExemptBooks ==
    ASSUME BInv, NEW r \in Requests,
           \/ ReopenInvestigation(r) \/ ShareInvestigation(r) \/ UnshareInvestigation(r)
           \/ TransferOwner(r) \/ DeleteInvestigation(r)
    PROVE  Kept' /\ AloneKept'
<1> DEFINE c == session[r].seen
           q == session[r].req
<1>1. session[r].pc = "loaded" /\ q.op \in {"reopen", "share", "unshare", "transfer", "delete"}
  BY DEF ReopenInvestigation, ShareInvestigation, UnshareInvestigation, TransferOwner,
         DeleteInvestigation, Running
<1>2. q \in Request /\ c \in Row /\ c.alive /\ (Alone => c = row)
  BY <1>1, Running_Reads
<1>3. ASSUME NEW work, NEW kinds, Flush(r, work, kinds, 0),
             kinds \in {<<>>, <<"case.reopened">>, <<"case.shared">>, <<"case.unshared">>,
                        <<"case.transferred">>},
             work.decisions = c.decisions, work.caseType = c.caseType,
             work.proposals = c.proposals, work.alive = (c.alive /\ q.op # "delete"),
             work.status = IF q.op = "reopen" THEN "analysis" ELSE c.status
      PROVE  Kept' /\ AloneKept'
  <2>1. kinds \in PlainKinds
    BY <1>3, PlainLines
  <2>2. \A k \in DOMAIN kinds : kinds[k] \in FreezeExempt
    BY <1>3 DEF FreezeExempt
  <2>3. Moved(c, work, q)
    BY <1>1, <1>3 DEF Moved
  <2>4. work.status = "closed" => c.status = "closed"
    BY <1>3
  <2>5. QED
    BY <1>1, <1>2, <1>3, <2>1, <2>2, <2>3, <2>4, PlainBooks
<1>4. CASE ReopenInvestigation(r)
  <2> DEFINE work == [c EXCEPT !.status = "analysis"]
  <2>1. Flush(r, work, <<"case.reopened">>, 0) /\ q.op = "reopen"
    BY <1>4 DEF ReopenInvestigation, Running
  <2>2. /\ work.decisions = c.decisions /\ work.caseType = c.caseType
        /\ work.proposals = c.proposals /\ work.alive = c.alive /\ work.status = "analysis"
    BY <1>2 DEF Row
  <2> HIDE DEF work
  <2>3. QED
    BY <1>2, <1>3, <2>1, <2>2
<1>5. CASE ShareInvestigation(r)
  <2> DEFINE work == [c EXCEPT !.shares[q.who] = q.role]
  <2>1. Flush(r, work, <<"case.shared">>, 0) /\ q.op = "share"
    BY <1>5 DEF ShareInvestigation, Running
  <2>2. /\ work.decisions = c.decisions /\ work.caseType = c.caseType
        /\ work.proposals = c.proposals /\ work.alive = c.alive /\ work.status = c.status
    BY <1>2 DEF Row
  <2> HIDE DEF work
  <2>3. QED
    BY <1>2, <1>3, <2>1, <2>2
<1>6. CASE UnshareInvestigation(r)
  <2> DEFINE work == [c EXCEPT !.shares[q.who] = "none"]
  <2>1. Flush(r, work, <<"case.unshared">>, 0) /\ q.op = "unshare"
    BY <1>6 DEF UnshareInvestigation, Running
  <2>2. /\ work.decisions = c.decisions /\ work.caseType = c.caseType
        /\ work.proposals = c.proposals /\ work.alive = c.alive /\ work.status = c.status
    BY <1>2 DEF Row
  <2> HIDE DEF work
  <2>3. QED
    BY <1>2, <1>3, <2>1, <2>2
<1>7. CASE TransferOwner(r)
  <2> DEFINE work == [c EXCEPT !.owner = q.who, !.shares[q.who] = "none"]
  <2>1. Flush(r, work, <<"case.transferred">>, 0) /\ q.op = "transfer"
    BY <1>7 DEF TransferOwner, Running
  <2>2. /\ work.decisions = c.decisions /\ work.caseType = c.caseType
        /\ work.proposals = c.proposals /\ work.alive = c.alive /\ work.status = c.status
    BY <1>2 DEF Row
  <2> HIDE DEF work
  <2>3. QED
    BY <1>2, <1>3, <2>1, <2>2
<1>8. CASE DeleteInvestigation(r)
  <2> DEFINE work == [c EXCEPT !.alive = FALSE]
  <2>1. Flush(r, work, <<>>, 0) /\ q.op = "delete"
    BY <1>8 DEF DeleteInvestigation, Running
  <2>2. /\ work.decisions = c.decisions /\ work.caseType = c.caseType
        /\ work.proposals = c.proposals /\ work.alive = FALSE /\ work.status = c.status
    BY <1>2 DEF Row
  <2> HIDE DEF work
  <2>3. QED
    BY <1>2, <1>3, <2>1, <2>2
<1>9. QED
  BY <1>4, <1>5, <1>6, <1>7, <1>8

-------------------------------------------------------------------------------
(* Recording and reviewing. *)

\* What is written before the line of a decision, and after it.
LEMMA RecordLines ==
    ASSUME NEW q, NEW shut \in BOOLEAN
    PROVE  LET before == Len(Preamble(q))
               kinds == Preamble(q) \o <<"decision.recorded">> \o ClosingLine(shut)
           IN  /\ before \in Nat /\ kinds \in Seq(LineKinds)
               /\ shut => Len(kinds) = before + 2 /\ kinds[before + 2] = "case.closed"
               /\ ~shut => Len(kinds) = before + 1
               /\ \A k \in 1 .. before : kinds[k] \in {"task.set", "decision_proposal.confirmed"}
               /\ kinds[before + 1] = "decision.recorded"
<1> DEFINE lead == Preamble(q)
           before == Len(lead)
           kinds == lead \o <<"decision.recorded">> \o ClosingLine(shut)
<1>1. lead \in Seq(LineKinds) /\ before \in Nat
  BY PreambleType
<1>2. \A k \in 1 .. before : lead[k] \in {"task.set", "decision_proposal.confirmed"}
  <2>1. TaskLines(q) = <<>> \/ TaskLines(q) = <<"task.set">>
    BY DEF TaskLines
  <2>2. \/ Preamble(q) = TaskLines(q) \o <<>>
        \/ Preamble(q) = TaskLines(q) \o <<"decision_proposal.confirmed">>
    BY DEF Preamble
  <2>3. CASE TaskLines(q) = <<>>
    BY <2>2, <2>3
  <2>4. CASE TaskLines(q) = <<"task.set">>
    BY <2>2, <2>4
  <2>5. QED
    BY <2>1, <2>3, <2>4
<1>3. "decision.recorded" \in LineKinds /\ "case.closed" \in LineKinds
  BY DEF LineKinds
<1> HIDE DEF lead
<1>4. ASSUME shut = TRUE
      PROVE  /\ before \in Nat /\ kinds \in Seq(LineKinds) /\ kinds[before + 1] = "decision.recorded"
             /\ \A k \in 1 .. before : kinds[k] \in {"task.set", "decision_proposal.confirmed"}
             /\ Len(kinds) = before + 2 /\ kinds[before + 2] = "case.closed"
  <2>1. ClosingLine(shut) = <<"case.closed">>
    BY <1>4 DEF ClosingLine
  <2> DEFINE all == lead \o <<"decision.recorded">> \o <<"case.closed">>
  <2>2. kinds = all
    BY <2>1
  <2>3. all \in Seq(LineKinds) /\ Len(all) = before + 2
    BY <1>1, <1>3
  <2>4. all[before + 1] = "decision.recorded" /\ all[before + 2] = "case.closed"
    BY <1>1, <1>3
  <2>5. \A k \in 1 .. before : all[k] = lead[k]
    BY <1>1, <1>3
  <2> HIDE DEF all, kinds
  <2>6. QED
    BY <1>1, <1>2, <2>2, <2>3, <2>4, <2>5
<1>5. ASSUME shut = FALSE
      PROVE  /\ before \in Nat /\ kinds \in Seq(LineKinds) /\ kinds[before + 1] = "decision.recorded"
             /\ \A k \in 1 .. before : kinds[k] \in {"task.set", "decision_proposal.confirmed"}
             /\ Len(kinds) = before + 1
  <2>1. ClosingLine(shut) = <<>>
    BY <1>5 DEF ClosingLine
  <2> DEFINE all == lead \o <<"decision.recorded">> \o <<>>
  <2>2. kinds = all
    BY <2>1
  <2>3. all \in Seq(LineKinds) /\ Len(all) = before + 1
    BY <1>1, <1>3
  <2>4. all[before + 1] = "decision.recorded"
    BY <1>1, <1>3
  <2>5. \A k \in 1 .. before : all[k] = lead[k]
    BY <1>1, <1>3
  <2> HIDE DEF all, kinds
  <2>6. QED
    BY <1>1, <1>2, <2>2, <2>3, <2>4, <2>5
<1>6. shut = TRUE \/ shut = FALSE
  OBVIOUS
<1> HIDE DEF kinds, before
<1>7. QED
  BY <1>4, <1>5, <1>6 DEF kinds, before, lead

\* The hash of a decision is over the journal and its own lines, whatever comes after.
LEMMA NewHash ==
    ASSUME NEW kinds \in Seq(LineKinds), NEW at \in Nat, NEW id \in Nat,
           clock \in Nat, \A l \in journal : l.at \in Nat /\ l.at <= clock,
           clock <= id, id <= clock + Len(kinds)
    PROVE  HashedNow(id) = HashOf(journal \cup Stamped(kinds, at), id)
<1> DEFINE new == Stamped(kinds, at)
<1>1. /\ \A l \in new : l.at \in Nat /\ l.at > clock
      /\ \A k \in DOMAIN kinds : \E l \in new : l.at = clock + k
  BY StampedLines
<1>2. ASSUME NEW x \in clock + 1 .. id PROVE \E l \in new : l.at = x
  <2>1. x - clock \in DOMAIN kinds /\ clock + (x - clock) = x
    BY <1>2
  <2>2. QED
    BY <1>1, <2>1
<1> HIDE DEF new
<1>3. \A l \in new : l.at <= id => l.at \in clock + 1 .. id
  BY <1>1
<1>4. \A l \in journal : l.at <= id
  OBVIOUS
<1>5. \A x : x \in HashedNow(id) <=> x \in HashOf(journal \cup new, id)
  <2>1. ASSUME NEW x \in HashedNow(id) PROVE x \in HashOf(journal \cup new, id)
    BY <1>2, <1>4 DEF HashedNow, HashOf
  <2>2. ASSUME NEW x \in HashOf(journal \cup new, id) PROVE x \in HashedNow(id)
    BY <1>3 DEF HashedNow, HashOf
  <2>3. QED
    BY <2>1, <2>2
<1>6. HashedNow(id) = HashOf(journal \cup new, id)
  BY <1>5
<1>7. QED
  BY <1>6 DEF new

\* A decision added to the column, with its lines.
LEMMA ToldRecord ==
    ASSUME NEW c \in Row, NEW w, NEW e, NEW lines, NEW new, NEW now \in Nat, NEW later \in Nat,
           Told(c, lines, now), Pending(c) = {}, c.status # "closed",
           w.decisions = Append(c.decisions, e),
           e.id \in Nat, now < e.id, e.id <= later,
           e.hash = HashOf(lines \cup new, e.id), e.review \in {"none", "pending"},
           e.review = "pending" => ~e.closed /\ w.status = c.status,
           e.closed => e.closes,
           \A l \in new : /\ l.at \in Nat /\ l.at > now /\ l.kind \notin Verdicts /\ l.id = e.id
                          /\ l.kind = "case.closed" => e.closed
    PROVE  Told(w, lines \cup new, later)
<1> DEFINE ds == c.decisions
           es == Append(ds, e)
           n == Len(ds) + 1
<1>1. /\ ds \in Seq(Decision) /\ Len(ds) \in Nat
      /\ \A i \in DOMAIN ds : ds[i].id \in Nat /\ i \in Nat /\ i < n
  BY EntryTypes
<1>2. /\ DOMAIN es = DOMAIN ds \cup {n} /\ n \notin DOMAIN ds /\ es[n] = e
      /\ \A i \in DOMAIN ds : es[i] = ds[i]
  BY <1>1
<1> HIDE DEF es, ds, n
<1>3. /\ \A i \in DOMAIN ds : ds[i].id <= now /\ ds[i].hash = HashOf(lines, ds[i].id)
      /\ \A i, j \in DOMAIN ds : ds[i].id = ds[j].id => i = j
      /\ \A l \in lines : l.kind = "decision.recorded" => \E i \in DOMAIN ds : ds[i].id = l.id
      /\ \A l \in lines : l.kind \in Verdicts =>
            \E i \in DOMAIN ds : ds[i].id = l.id /\ ds[i].review \in {"approved", "rejected"}
      /\ \A l, m \in lines : {l.kind, m.kind} \subseteq Verdicts /\ l.id = m.id => l = m
      /\ (\E l \in lines : l.kind = "case.closed") =>
            \E i \in DOMAIN ds : ds[i].closes /\ ds[i].closed
  BY DEF Told, ds
<1>4. ASSUME NEW i \in DOMAIN es
      PROVE  es[i].id <= later /\ es[i].hash = HashOf(lines \cup new, es[i].id)
  <2>1. CASE i = n
    BY <1>2, <2>1
  <2>2. CASE i \in DOMAIN ds
    <3> DEFINE id == ds[i].id
    <3>1. id \in Nat /\ id <= now /\ ds[i].hash = HashOf(lines, id)
      BY <1>1, <1>3, <2>2
    <3> HIDE DEF id
    <3>2. \A l \in new : ~(l.at <= id)
      BY <3>1
    <3>3. HashOf(lines \cup new, id) = HashOf(lines, id)
      BY <3>2 DEF HashOf
    <3>4. id <= later
      BY <3>1
    <3>5. QED
      BY <1>2, <2>2, <3>1, <3>3, <3>4 DEF id
  <2>3. QED
    BY <1>2, <2>1, <2>2
<1>5. ASSUME NEW i \in DOMAIN es, NEW j \in DOMAIN es, es[i].id = es[j].id PROVE i = j
  <2>1. \A k \in DOMAIN ds : ds[k].id # e.id
    BY <1>1, <1>3
  <2>2. QED
    BY <1>2, <1>3, <1>5, <2>1
<1>6. \A i \in DOMAIN es : es[i].review = "pending" => ~es[i].closed /\ w.status # "closed"
  <2>1. \A i \in DOMAIN ds : ds[i].review # "pending"
    BY DEF Pending, Entries, ds
  <2>2. QED
    BY <1>2, <2>1
<1>7. \A l \in lines \cup new : l.kind = "decision.recorded" =>
         \E i \in DOMAIN es : es[i].id = l.id
  BY <1>2, <1>3
<1>8. \A l \in lines \cup new : l.kind \in Verdicts =>
         \E i \in DOMAIN es : es[i].id = l.id /\ es[i].review \in {"approved", "rejected"}
  BY <1>2, <1>3
<1>9. \A l, m \in lines \cup new : {l.kind, m.kind} \subseteq Verdicts /\ l.id = m.id => l = m
  BY <1>3
<1>10. (\E l \in lines \cup new : l.kind = "case.closed") =>
          \E i \in DOMAIN es : es[i].closes /\ es[i].closed
  BY <1>2, <1>3
<1>11. w.decisions = es
  BY DEF es, ds
<1>12. QED
  BY ONLY <1>4, <1>5, <1>6, <1>7, <1>8, <1>9, <1>10, <1>11 DEF Told

\* record_decision: the column it flushes and its lines agree.
LEMMA RecordBooks ==
    ASSUME BInv, NEW r \in Requests, RecordDecision(r)
    PROVE  Kept' /\ AloneKept'
<1> DEFINE c == session[r].seen
           q == session[r].req
           e == NewEntry(c, q)
           before == Len(Preamble(q))
           kinds == Preamble(q) \o <<"decision.recorded">> \o ClosingLine(e.closed)
           st == IF e.closed THEN "closed" ELSE c.status
           work == [c EXCEPT !.decisions = AddEntry(@, e), !.status = st,
                             !.proposals = TakenUp(c, q)]
<1>1. session[r].pc = "loaded" /\ q.op = "record"
  BY DEF RecordDecision, Running
<1>2. /\ q \in Request /\ c \in Row /\ Admits(c, q) /\ c.alive /\ (Alone => c = row)
      /\ r \in Busy /\ Backs(c, journal)
  BY <1>1, Running_Reads
<1>3. c.status # "closed" /\ Pending(c) = {}
  BY <1>1, <1>2 DEF Admits, NeedsOpen, MayRecord
<1>4. /\ e \in Decision /\ e.id \in Nat /\ e.review \in {"none", "pending"}
      /\ e.id = clock + before + 1 /\ e.hash = HashedNow(e.id) /\ e.closes = q.closes
      /\ e.review = "pending" => ~e.closed
      /\ e.closed <=> e.closes /\ e.review = "none"
      /\ e.closes \in BOOLEAN /\ e.closed \in BOOLEAN
  <2>1. e \in Decision /\ e.id \in Nat
    BY <1>1, <1>2, NewEntryType DEF BInv, IInv
  <2>2. /\ e.review = IF NeedsReview(c) THEN "pending" ELSE "none"
        /\ e.closed = (q.closes /\ ~NeedsReview(c))
        /\ e.id = clock + before + 1 /\ e.hash = HashedNow(e.id) /\ e.closes = q.closes
    BY DEF NewEntry, NewId
  <2>3. e.closes \in BOOLEAN /\ e.closed \in BOOLEAN
    BY <2>1 DEF Decision
  <2> HIDE DEF e
  <2>4. QED
    BY <2>1, <2>2, <2>3
<1>5. /\ work.decisions = Append(c.decisions, e) /\ work.status = st /\ work.alive = c.alive
      /\ work.caseType = c.caseType /\ work.proposals = TakenUp(c, q)
  <2> HIDE DEF e, st
  <2>1. QED
    BY <1>2 DEF Row, AddEntry
<1>6. Flush(r, work, kinds, e.id)
  BY <1>2 DEF RecordDecision, Row
<1> HIDE DEF e, work
<1>7. /\ before \in Nat /\ kinds \in Seq(LineKinds) /\ kinds[before + 1] = "decision.recorded"
      /\ \A k \in 1 .. before : kinds[k] \in {"task.set", "decision_proposal.confirmed"}
      /\ e.closed => Len(kinds) = before + 2 /\ kinds[before + 2] = "case.closed"
      /\ ~e.closed => Len(kinds) = before + 1
  BY <1>4, RecordLines
<1> HIDE DEF before, kinds
<1> DEFINE new == Stamped(kinds, e.id)
<1>8. /\ clock \in Nat /\ Len(kinds) \in Nat /\ before + 1 \in DOMAIN kinds
      /\ e.closed => before + 2 \in DOMAIN kinds
      /\ \A k \in DOMAIN kinds : 
            k \in 1 .. before \/ k = before + 1 \/ (k = before + 2 /\ e.closed)
      /\ clock + before + 1 <= clock + Len(kinds)
  <2>1. clock \in Nat
    BY BoundAssumption DEF BInv, IInv, TypeOK
  <2>2. DOMAIN kinds = 1 .. Len(kinds) /\ Len(kinds) \in Nat
    BY <1>7
  <2>3. before \in Nat /\ before + 1 <= Len(kinds)
    <3>1. before \in Nat /\ Len(kinds) \in {before + 1, before + 2}
      BY <1>7, Zenon
    <3>2. QED
      BY <3>1
  <2>4. e.closed => before + 2 \in DOMAIN kinds
    BY <1>7, <2>2
  <2>5. ASSUME NEW k \in DOMAIN kinds, k \notin 1 .. before, k # before + 1
        PROVE  k = before + 2 /\ e.closed
    <3>1. k \in Nat /\ k > before + 1 /\ k <= Len(kinds)
      BY <2>2, <2>3, <2>5
    <3>2. QED
      BY <1>7, <2>3, <3>1
  <2>6. before + 1 \in DOMAIN kinds /\ clock + before + 1 <= clock + Len(kinds)
    BY <2>1, <2>2, <2>3
  <2>7. QED
    BY <2>1, <2>2, <2>4, <2>5, <2>6
<1>9. /\ \A k \in DOMAIN kinds : kinds[k] \notin Verdicts
                                   /\ (kinds[k] = "case.closed" => e.closed)
  BY <1>7, <1>8 DEF Verdicts
<1>10. /\ \A l \in new : /\ l.at \in Nat /\ l.at > clock /\ l.kind \notin Verdicts /\ l.id = e.id
                         /\ l.kind = "case.closed" => e.closed
       /\ \E l \in new : l.kind = "decision.recorded" /\ l.id = e.id
       /\ e.closed => \E l \in new : l.kind = "case.closed" /\ l.id = e.id
  <2>0. e.id \in Nat /\ kinds \in Seq(LineKinds) /\ clock \in Nat
    BY <1>4, <1>7, <1>8
  <2>2. /\ \A l \in new : /\ l.id = e.id /\ l.at \in Nat /\ l.at > clock
                           /\ \E k \in DOMAIN kinds : l.kind = kinds[k]
        /\ \A k \in DOMAIN kinds : \E l \in new : l.kind = kinds[k] /\ l.id = e.id
    BY ONLY <2>0, StampedKinds
  <2> HIDE DEF new
  <2>3. QED
    BY <1>7, <1>8, <1>9, <2>2
<1>11. TasksNamed(new)
  BY <1>10 DEF TasksNamed
<1>12. Backs(work, journal \cup new)
  <2>1. Backs(c, journal \cup new)
    BY <1>2, BacksMore
  <2>2. Backed(e, journal \cup new)
    BY <1>4, <1>10 DEF Backed
  <2>3. c.decisions \in Seq(Decision)
    BY <1>2, EntryTypes
  <2>4. \A i \in DOMAIN work.decisions :
           \/ i \in DOMAIN c.decisions /\ work.decisions[i] = c.decisions[i]
           \/ work.decisions[i] = e
    BY <1>4, <1>5, <2>3
  <2>5. QED
    BY <2>1, <2>2, <2>4 DEF Backs
<1>13. ASSUME Alone
       PROVE  /\ Told(work, journal \cup new, clock + Len(kinds))
              /\ Moved(row, work, q)
              /\ row.status = "closed" => \A l \in new : l.kind \in FreezeExempt
  <2>1. c = row /\ Told(c, journal, clock)
    BY <1>2, <1>13 DEF BInv, AloneKept
  <2>2. \A l \in journal : l.at \in Nat /\ l.at <= clock
    <3>1. \A l \in Line : l.at \in Nat
      BY BoundAssumption DEF Line, Stamps
    <3>2. QED
      BY <3>1 DEF BInv, Kept, IInv, TypeOK
  <2>3. clock < e.id /\ clock <= e.id /\ e.id <= clock + Len(kinds)
    BY <1>4, <1>7, <1>8
  <2>4. e.hash = HashOf(journal \cup new, e.id)
    BY <1>4, <1>7, <1>8, <2>2, <2>3, NewHash
  <2>5. Told(work, journal \cup new, clock + Len(kinds))
    <3> DEFINE later == clock + Len(kinds)
    <3>1. later \in Nat /\ e.id <= later
      BY <1>8, <2>3
    <3>2. e.review = "pending" => ~e.closed /\ work.status = c.status
      BY <1>4, <1>5
    <3>3. e.closed => e.closes
      BY <1>4
    <3> HIDE DEF later, new
    <3>4. Told(work, journal \cup new, later)
      BY ONLY <1>2, <1>3, <1>4, <1>5, <1>8, <1>10, <2>1, <2>3, <2>4, <3>1, <3>2, <3>3, ToldRecord
    <3>5. QED
      BY <3>4 DEF later
  <2>6. Moved(c, work, q)
    <3>1. e \in Entries(work)
      <4>1. c.decisions \in Seq(Decision)
        BY <1>2, EntryTypes
      <4>2. Len(c.decisions) + 1 \in DOMAIN work.decisions
            /\ work.decisions[Len(c.decisions) + 1] = e
        BY <1>4, <1>5, <4>1
      <4>3. QED
        BY <4>2 DEF Entries
    <3>2. work.status = IF e.closes /\ e.review = "none" THEN "closed" ELSE c.status
      BY <1>4, <1>5
    <3>3. \A p \in Proposals : c.proposals[p] = "confirmed" => work.proposals[p] = "confirmed"
      BY <1>5 DEF TakenUp
    <3>4. QED
      BY <1>1, <1>2, <1>4, <1>5, <3>1, <3>2, <3>3 DEF Moved
  <2>7. QED
    BY <1>3, <2>1, <2>5, <2>6
<1>14. QED
  BY <1>1, <1>4, <1>6, <1>7, <1>11, <1>12, <1>13, FlushBooks

\* A decision reviewed, with the lines of its review.
LEMMA ToldReview ==
    ASSUME NEW c \in Row, NEW w, NEW i \in DOMAIN c.decisions, NEW n, NEW lines, NEW new,
           NEW now \in Nat, NEW later \in Nat, now <= later,
           Told(c, lines, now), AtMostOneWaits(c), c.decisions[i].review = "pending",
           w.decisions = [c.decisions EXCEPT ![i] = n],
           n.id = c.decisions[i].id, n.hash = c.decisions[i].hash,
           n.review \in {"approved", "rejected"},
           \A l \in new : /\ l.at \in Nat /\ l.at > now /\ l.id = n.id
                          /\ l.kind # "decision.recorded"
                          /\ l.kind = "case.closed" => n.closes /\ n.closed,
           \A l, m \in new : {l.kind, m.kind} \subseteq Verdicts => l = m
    PROVE  Told(w, lines \cup new, later)
<1> DEFINE ds == c.decisions
           es == [ds EXCEPT ![i] = n]
<1>1. /\ \A j \in DOMAIN ds : ds[j].id \in Nat
      /\ DOMAIN es = DOMAIN ds /\ es[i] = n
      /\ \A j \in DOMAIN ds : j # i => es[j] = ds[j]
      /\ i \in DOMAIN ds
  BY EntryTypes
<1>2. \A j \in DOMAIN ds : ds[j].review = "pending" => j = i
  BY DEF AtMostOneWaits
<1>3. ds[i].review = "pending" /\ n.id = ds[i].id /\ n.hash = ds[i].hash
  OBVIOUS
<1>4. w.decisions = es
  OBVIOUS
<1>5. /\ \A j \in DOMAIN ds : ds[j].id <= now /\ ds[j].hash = HashOf(lines, ds[j].id)
      /\ \A j, k \in DOMAIN ds : ds[j].id = ds[k].id => j = k
      /\ \A l \in lines : l.kind = "decision.recorded" => \E j \in DOMAIN ds : ds[j].id = l.id
      /\ \A l \in lines : l.kind \in Verdicts =>
            \E j \in DOMAIN ds : ds[j].id = l.id /\ ds[j].review \in {"approved", "rejected"}
      /\ \A l, m \in lines : {l.kind, m.kind} \subseteq Verdicts /\ l.id = m.id => l = m
      /\ (\E l \in lines : l.kind = "case.closed") =>
            \E j \in DOMAIN ds : ds[j].closes /\ ds[j].closed
  BY DEF Told
<1>6. ~ds[i].closed
  BY DEF Told
<1> HIDE DEF es, ds
<1>7. \A j \in DOMAIN es : es[j].id = ds[j].id /\ es[j].hash = ds[j].hash
  BY <1>1, <1>3
<1>8. ASSUME NEW j \in DOMAIN es
      PROVE  es[j].id <= later /\ es[j].hash = HashOf(lines \cup new, es[j].id)
  <2> DEFINE id == ds[j].id
  <2>1. id \in Nat /\ id <= now /\ ds[j].hash = HashOf(lines, id)
    BY <1>1, <1>5
  <2>2. es[j].id = id /\ es[j].hash = ds[j].hash
    BY <1>7
  <2> HIDE DEF id
  <2>3. \A l \in new : ~(l.at <= id)
    BY <2>1
  <2>4. HashOf(lines \cup new, id) = HashOf(lines, id)
    BY <2>3 DEF HashOf
  <2>5. id <= later
    BY <2>1
  <2>6. QED
    BY <2>1, <2>2, <2>4, <2>5
<1>9. \A j, k \in DOMAIN es : es[j].id = es[k].id => j = k
  BY <1>1, <1>5, <1>7
<1>10. \A j \in DOMAIN es : es[j].review = "pending" => ~es[j].closed /\ w.status # "closed"
  BY <1>1, <1>2
<1>11. \A l \in lines \cup new : l.kind = "decision.recorded" =>
          \E j \in DOMAIN es : es[j].id = l.id
  BY <1>1, <1>5, <1>7
<1>12. \A l \in lines \cup new : l.kind \in Verdicts =>
          \E j \in DOMAIN es : es[j].id = l.id /\ es[j].review \in {"approved", "rejected"}
  <2>1. ASSUME NEW l \in lines, l.kind \in Verdicts
        PROVE  \E j \in DOMAIN es : es[j].id = l.id /\ es[j].review \in {"approved", "rejected"}
    <3>1. PICK j \in DOMAIN ds : ds[j].id = l.id /\ ds[j].review \in {"approved", "rejected"}
      BY <1>5, <2>1
    <3>2. j # i
      BY <1>3, <3>1
    <3>3. QED
      BY <1>1, <3>1, <3>2
  <2>2. QED
    BY <1>1, <2>1
<1>13. ASSUME NEW l \in lines \cup new, NEW m \in lines \cup new,
              {l.kind, m.kind} \subseteq Verdicts, l.id = m.id
       PROVE  l = m
  <2>1. \A x \in lines : x.kind \in Verdicts => x.id # ds[i].id
    <3>1. SUFFICES ASSUME NEW x \in lines, x.kind \in Verdicts, x.id = ds[i].id PROVE FALSE
      OBVIOUS
    <3>2. PICK j \in DOMAIN ds : ds[j].id = x.id /\ ds[j].review \in {"approved", "rejected"}
      BY <1>5, <3>1
    <3>3. QED
      BY <1>1, <1>3, <1>5, <3>1, <3>2
  <2>2. QED
    BY <1>3, <1>5, <1>13, <2>1
<1>14. (\E l \in lines \cup new : l.kind = "case.closed") =>
          \E j \in DOMAIN es : es[j].closes /\ es[j].closed
  <2>1. ASSUME NEW l \in lines, l.kind = "case.closed"
        PROVE  \E j \in DOMAIN es : es[j].closes /\ es[j].closed
    <3>1. PICK j \in DOMAIN ds : ds[j].closes /\ ds[j].closed
      BY <1>5, <2>1
    <3>2. j # i
      BY <1>6, <3>1
    <3>3. QED
      BY <1>1, <3>1, <3>2
  <2>2. QED
    BY <1>1, <2>1
<1>15. QED
  BY ONLY <1>4, <1>8, <1>9, <1>10, <1>11, <1>12, <1>13, <1>14 DEF Told

\* The lines of a review: that of the judgement, and the closing one when it closes the case.
LEMMA ReviewLines ==
    ASSUME NEW judged \in Verdicts, NEW shut \in BOOLEAN
    PROVE  LET kinds == <<judged>> \o ClosingLine(shut)
           IN  /\ kinds \in Seq(LineKinds) /\ 1 \in DOMAIN kinds /\ kinds[1] = judged
               /\ \A k \in DOMAIN kinds : k = 1 \/ (kinds[k] = "case.closed" /\ shut)
               /\ shut => \E k \in DOMAIN kinds : kinds[k] = "case.closed"
<1>1. judged \in LineKinds /\ "case.closed" \in LineKinds
  BY DEF Verdicts, LineKinds
<1>2. CASE shut = TRUE
  <2> DEFINE all == <<judged>> \o <<"case.closed">>
  <2>1. ClosingLine(shut) = <<"case.closed">>
    BY <1>2 DEF ClosingLine
  <2>2. <<judged>> \o <<"case.closed">> = all
    OBVIOUS
  <2>3. /\ all \in Seq(LineKinds) /\ 1 \in DOMAIN all /\ all[1] = judged
        /\ 2 \in DOMAIN all /\ all[2] = "case.closed"
        /\ \A k \in DOMAIN all : k = 1 \/ k = 2
    BY <1>1
  <2> HIDE DEF all
  <2>4. QED
    BY <1>2, <2>1, <2>2, <2>3
<1>3. CASE shut = FALSE
  <2> DEFINE all == <<judged>> \o <<>>
  <2>1. ClosingLine(shut) = <<>>
    BY <1>3 DEF ClosingLine
  <2>2. <<judged>> \o <<>> = all
    OBVIOUS
  <2>3. /\ all \in Seq(LineKinds) /\ 1 \in DOMAIN all /\ all[1] = judged
        /\ \A k \in DOMAIN all : k = 1
    BY <1>1
  <2> HIDE DEF all
  <2>4. QED
    BY <1>3, <2>1, <2>2, <2>3
<1>4. QED
  BY <1>2, <1>3

\* review_decision: the entry it rewrites and its lines agree.
LEMMA ReviewBooks ==
    ASSUME BInv, NEW r \in Requests, ReviewDecision(r)
    PROVE  Kept' /\ AloneKept'
<1> DEFINE c == session[r].seen
           q == session[r].req
           i == EntryOf(c, q.id)
           d == c.decisions[i]
           n == Reviewed(d, q)
           shut == q.approve /\ d.closes
           st == IF shut THEN "closed" ELSE c.status
           work == [c EXCEPT !.decisions[i] = Reviewed(@, q), !.status = st]
           judged == IF q.approve THEN "decision.approved" ELSE "decision.rejected"
           kinds == <<judged>> \o ClosingLine(shut)
<1>1. session[r].pc = "loaded" /\ q.op = "review"
  BY DEF ReviewDecision, Running
<1>2. /\ q \in Request /\ c \in Row /\ Admits(c, q) /\ c.alive /\ (Alone => c = row)
      /\ AtMostOneWaits(c) /\ Backs(c, journal)
  BY <1>1, Running_Reads DEF Sound
<1>3. q.approve \in BOOLEAN /\ q.id \in Nat
  BY <1>1, <1>2, RequestFields, BoundAssumption DEF Stamps
<1>4. HasEntry(c, q.id) /\ d.review = "pending"
  BY <1>1, <1>2 DEF Admits, MayReview
<1>5. i \in DOMAIN c.decisions /\ d.id = q.id
  BY <1>4 DEF HasEntry, EntryOf
<1>6. c.decisions \in Seq(Decision) /\ d \in Decision
  BY <1>2, <1>5 DEF Row
<1> HIDE DEF i
<1>7. /\ n.id = d.id /\ n.hash = d.hash /\ n.closes = d.closes /\ n.closed = shut
      /\ n.review = IF q.approve THEN "approved" ELSE "rejected"
  BY <1>6 DEF Reviewed, Decision
<1>8. shut \in BOOLEAN /\ d.closes \in BOOLEAN
  BY <1>3, <1>6 DEF Decision
<1>9. /\ work.decisions = [c.decisions EXCEPT ![i] = n] /\ work.status = st
      /\ work.alive = c.alive /\ work.caseType = c.caseType /\ work.proposals = c.proposals
  BY <1>2 DEF Row
<1>10. Flush(r, work, kinds, q.id)
  BY DEF ReviewDecision, i
<1>11. n.review \in {"approved", "rejected"} /\ (shut => n.closes /\ n.closed)
  BY <1>7, <1>8
<1>12. judged \in Verdicts
  BY DEF Verdicts
<1> HIDE DEF work, n
<1>13. /\ kinds \in Seq(LineKinds) /\ 1 \in DOMAIN kinds /\ kinds[1] = judged
       /\ \A k \in DOMAIN kinds : k = 1 \/ (kinds[k] = "case.closed" /\ shut)
       /\ shut => \E k \in DOMAIN kinds : kinds[k] = "case.closed"
  <2> HIDE DEF judged, shut
  <2>1. QED
    BY <1>8, <1>12, ReviewLines
<1> HIDE DEF kinds
<1> DEFINE new == Stamped(kinds, q.id)
<1>14. clock \in Nat /\ Len(kinds) \in Nat /\ clock <= clock + Len(kinds)
       /\ clock + Len(kinds) \in Nat
  BY <1>13, BoundAssumption DEF BInv, IInv, TypeOK
<1>15. /\ \A l \in new : /\ l.id = q.id /\ l.at \in Nat /\ l.at > clock
                         /\ \E k \in DOMAIN kinds : l.kind = kinds[k]
       /\ \A k \in DOMAIN kinds : \E l \in new : l.kind = kinds[k] /\ l.id = q.id
  <2>1. q.id \in Nat /\ kinds \in Seq(LineKinds) /\ clock \in Nat
    BY <1>3, <1>13, <1>14
  <2>2. QED
    BY ONLY <2>1, StampedKinds
<1>16. \A l, m \in new : {l.kind, m.kind} \subseteq Verdicts => l = m
  <2>1. \A l \in new : l.kind \in Verdicts => l.at = clock + 1
    <3>1. \A l \in new : \E k \in DOMAIN kinds : l.kind = kinds[k] /\ l.at = clock + k
      BY <1>3, <1>13, <1>14, StampedLines
    <3> HIDE DEF new
    <3>2. QED
      BY <1>13, <3>1 DEF Verdicts
  <2>2. \A l, m \in new : l.at = m.at => l = m
    BY <1>3, <1>13, <1>14, StampedLines
  <2> HIDE DEF new
  <2>3. QED
    BY <2>1, <2>2
<1> HIDE DEF new, shut, judged
<1>17. /\ \A l \in new : l.kind = judged \/ (l.kind = "case.closed" /\ shut)
       /\ \E l \in new : l.kind = judged /\ l.id = q.id
       /\ shut => \E l \in new : l.kind = "case.closed" /\ l.id = q.id
  BY <1>13, <1>15
<1>18. TasksNamed(new)
  BY <1>12, <1>17 DEF TasksNamed, Verdicts
<1>19. Backs(work, journal \cup new)
  <2>1. Backs(c, journal \cup new)
    BY <1>2, BacksMore
  <2>2. Backed(d, journal \cup new)
    BY <1>5, <2>1 DEF Backs
  <2>3. Backed(n, journal \cup new)
    <3>1. \E l \in journal \cup new : l.kind = "decision.recorded" /\ l.id = d.id
      BY <2>2 DEF Backed
    <3>2. n.review = "approved" => judged = "decision.approved"
      BY <1>7 DEF judged
    <3>3. n.review = "rejected" => judged = "decision.rejected"
      BY <1>7 DEF judged
    <3>4. n.id = q.id /\ n.id = d.id /\ n.closed = shut
      BY <1>5, <1>7
    <3>5. QED
      BY <1>17, <3>1, <3>2, <3>3, <3>4 DEF Backed
  <2>4. \A j \in DOMAIN work.decisions :
           j \in DOMAIN c.decisions /\ work.decisions[j] = IF j = i THEN n ELSE c.decisions[j]
    BY <1>6, <1>9
  <2>5. QED
    BY <2>1, <2>3, <2>4 DEF Backs
<1>20. ASSUME Alone
       PROVE  /\ Told(work, journal \cup new, clock + Len(kinds))
              /\ Moved(row, work, q)
              /\ row.status = "closed" => \A l \in new : l.kind \in FreezeExempt
  <2>1. c = row /\ Told(c, journal, clock)
    BY <1>2, <1>20 DEF BInv, AloneKept
  <2>2. \A l \in new : /\ l.at \in Nat /\ l.at > clock /\ l.id = n.id
                       /\ l.kind # "decision.recorded"
                       /\ l.kind = "case.closed" => n.closes /\ n.closed
    BY <1>5, <1>7, <1>11, <1>12, <1>15, <1>17 DEF Verdicts
  <2>3. Told(work, journal \cup new, clock + Len(kinds))
    BY <1>2, <1>4, <1>5, <1>7, <1>9, <1>11, <1>14, <1>16, <2>1, <2>2, ToldReview
  <2>4. Moved(c, work, q)
    <3>1. work.status = IF q.approve /\ c.decisions[i].closes THEN "closed" ELSE c.status
      BY <1>9 DEF shut
    <3>2. work.decisions = [c.decisions EXCEPT ![i] = Reviewed(c.decisions[i], q)]
      BY <1>9 DEF n
    <3>3. QED
      BY <1>1, <1>2, <1>4, <1>5, <1>9, <3>1, <3>2 DEF Moved
  <2>5. c.status # "closed"
    BY <1>4, <1>5, <2>1 DEF Told
  <2>6. QED
    BY <2>1, <2>3, <2>4, <2>5
<1>21. QED
  BY <1>1, <1>3, <1>10, <1>13, <1>18, <1>19, <1>20, FlushBooks DEF new

-------------------------------------------------------------------------------
(* How a request ends. *)

\* A decision refused for its evidence: what is left of it is about no decision.
LEMMA EvidenceBooks ==
    ASSUME BInv, NEW r \in Requests, EvidenceMissing(r)
    PROVE  Kept' /\ AloneKept'
<1> DEFINE q == session[r].req
           left == Leftover(Stamped(TaskLines(q), NewId(q)))
<1>1. r \in Busy
  BY DEF EvidenceMissing, Running, Busy, Idle
<1>2. /\ session' = [session EXCEPT ![r] = Idle] /\ UNCHANGED <<row, scenario>>
      /\ clock' = NewId(q) /\ journal' = journal \cup left
  BY DEF EvidenceMissing
<1>3. Len(Preamble(q)) \in Nat /\ clock \in Nat
  BY PreambleType, BoundAssumption DEF BInv, IInv, TypeOK
<1>4. clock' \in Nat /\ clock < clock'
  BY <1>2, <1>3 DEF NewId
<1>5. \A l \in left : l.at \in Nat /\ l.at = clock + 1 /\ l.kind = "task.set"
  <2>1. TaskLines(q) = <<>> \/ TaskLines(q) = <<"task.set">>
    BY DEF TaskLines
  <2>2. \A k \in DOMAIN TaskLines(q) : k = 1 /\ TaskLines(q)[k] = "task.set"
    BY <2>1
  <2>3. \A l \in left : \E k \in DOMAIN TaskLines(q) :
           l = [at |-> clock + k, kind |-> TaskLines(q)[k], id |-> NewId(q)]
    BY DEF Leftover, Stamped
  <2> HIDE DEF left
  <2>4. QED
    BY <1>3, <2>2, <2>3
<1>6. ~Memory => left = {}
  BY DEF Leftover
<1> HIDE DEF left
<1>7. \A l \in left : l.at > clock /\ l.at <= clock' /\ l.kind \notin TellingKinds
  BY <1>3, <1>4, <1>5 DEF TellingKinds, Verdicts
<1>8. \A l \in journal : l.at \in Nat /\ l.at <= clock
  <2>1. \A l \in Line : l.at \in Nat
    BY BoundAssumption DEF Line, Stamps
  <2>2. QED
    BY <2>1 DEF BInv, Kept, IInv, TypeOK
<1>9. \A l \in journal' : l.at <= clock'
  BY <1>2, <1>3, <1>4, <1>7, <1>8
<1>10. Backs(row', journal')
  <2>1. Backs(row, journal')
    BY <1>2, BacksMore DEF BInv, Kept
  <2>2. QED
    BY <1>2, <2>1
<1>11. ~Memory => TasksNamed(journal')
  BY <1>2, <1>6 DEF BInv, Kept, TasksNamed
<1>12. Alone => Told(row', journal', clock')
  <2> SUFFICES ASSUME Alone PROVE Told(row, journal \cup left, clock')
    BY <1>2
  <2>1. row \in Row /\ Told(row, journal, clock)
    BY DEF BInv, IInv, TypeOK, AloneKept
  <2>2. \A l \in left : l.at \in Nat /\ l.at > clock /\ l.kind \notin TellingKinds
    BY <1>5, <1>7
  <2>3. clock <= clock'
    BY <1>3, <1>4
  <2>4. QED
    BY <1>3, <1>4, <2>1, <2>2, <2>3, ToldPlain
<1>13. clock <= clock' /\ journal \subseteq journal'
  BY <1>2, <1>3, <1>4
<1>14. QED
  BY <1>1, <1>2, <1>4, <1>9, <1>10, <1>11, <1>12, <1>13, EndBooks

\* A request that is rolled back leaves what it found.
LEMMA RollbackBooks ==
    ASSUME BInv, NEW r \in Requests, Rollback(r)
    PROVE  Kept' /\ AloneKept'
<1>1. r \in Busy /\ session' = [session EXCEPT ![r] = Idle]
      /\ UNCHANGED <<row, journal, clock, scenario>>
  BY DEF Rollback, Busy
<1>2. clock \in Nat /\ clock <= clock
  BY BoundAssumption DEF BInv, IInv, TypeOK
<1>3. QED
  BY <1>1, <1>2, EndBooks DEF BInv, Kept, AloneKept

\* A commit over the row that was read writes the copy.
LEMMA MergeAlone ==
    ASSUME NEW c \in Row, NEW w \in Row
    PROVE  /\ Merge(c, c, w).status = w.status /\ Merge(c, c, w).decisions = w.decisions
           /\ Merge(c, c, w).caseType = w.caseType /\ Merge(c, c, w).alive = w.alive
           /\ \A p \in Proposals : Merge(c, c, w).proposals[p] = w.proposals[p]
<1>1. \A x, y : Written(x, y, y) = x
  BY DEF Written
<1>2. QED
  BY <1>1 DEF Merge

\* What a commit finds and leaves.
LEMMA CommitReads ==
    ASSUME BInv, NEW r \in Requests, Commit(r)
    PROVE  /\ r \in Busy /\ session[r].pc = "flushed" /\ session[r].req \in Request
           /\ session[r].seen \in Row /\ session[r].work \in Row
           /\ session[r].lines \subseteq Line
           /\ row' = Merge(row, session[r].seen, session[r].work)
           /\ journal' = journal \cup session[r].lines
           /\ session' = [session EXCEPT ![r] = Idle] /\ UNCHANGED <<clock, scenario>>
           /\ row'.decisions \in {session[r].work.decisions, row.decisions}
           /\ Alone => /\ row \in Row /\ session[r].seen = row
                       /\ row'.status = session[r].work.status
                       /\ row'.decisions = session[r].work.decisions
                       /\ row'.caseType = session[r].work.caseType
                       /\ row'.alive = session[r].work.alive
                       /\ \A p \in Proposals : row'.proposals[p] = session[r].work.proposals[p]
<1>1. session[r].pc = "flushed"
  BY DEF Commit, Committable
<1>2. r \in Busy
  BY <1>1 DEF Busy, Idle
<1>3. /\ session[r].req \in Request /\ session[r].seen \in Row /\ session[r].work \in Row
      /\ session[r].lines \subseteq Line
  BY <1>1, SessionCases DEF BInv, IInv
<1>4. /\ row' = Merge(row, session[r].seen, session[r].work)
      /\ journal' = journal \cup session[r].lines
      /\ session' = [session EXCEPT ![r] = Idle] /\ UNCHANGED <<clock, scenario>>
  BY DEF Commit
<1>5. row'.decisions \in {session[r].work.decisions, row.decisions}
  BY <1>4 DEF Merge, Written
<1>6. Alone => row \in Row /\ session[r].seen = row
  BY <1>2 DEF BInv, IInv, TypeOK, AloneKept
<1>7. ASSUME Alone
      PROVE  /\ row'.status = session[r].work.status
             /\ row'.decisions = session[r].work.decisions
             /\ row'.caseType = session[r].work.caseType
             /\ row'.alive = session[r].work.alive
             /\ \A p \in Proposals : row'.proposals[p] = session[r].work.proposals[p]
  <2>1. row' = Merge(row, row, session[r].work)
    BY <1>4, <1>6, <1>7
  <2>2. QED
    BY <1>3, <1>6, <1>7, <2>1, MergeAlone
<1>8. QED
  BY <1>1, <1>2, <1>3, <1>4, <1>5, <1>6, <1>7

\* A commit makes the row what its copy said, and the journal what its lines say.
LEMMA CommitBooks ==
    ASSUME BInv, NEW r \in Requests, Commit(r)
    PROVE  Kept' /\ AloneKept'
<1> DEFINE w == session[r].work
           lines == session[r].lines
<1>1. /\ r \in Busy /\ session[r].pc = "flushed"
      /\ session' = [session EXCEPT ![r] = Idle] /\ UNCHANGED <<clock, scenario>>
      /\ journal' = journal \cup lines /\ row'.decisions \in {w.decisions, row.decisions}
      /\ Alone => row'.status = w.status /\ row'.decisions = w.decisions
  BY CommitReads
<1>2. /\ TasksNamed(lines) /\ \A l \in lines : l.at <= clock
      /\ Backs(w, journal \cup lines) /\ Backs(row, journal)
      /\ ~Memory => TasksNamed(journal)
      /\ \A l \in journal : l.at <= clock
      /\ Alone => Told(w, journal \cup lines, clock)
  BY <1>1 DEF BInv, Kept, AloneKept
<1>3. clock \in Nat /\ clock <= clock'
  BY <1>1, BoundAssumption DEF BInv, IInv, TypeOK
<1>4. Backs(row', journal')
  <2>1. Backs(row, journal \cup lines)
    BY <1>2, BacksMore
  <2>2. \A i \in DOMAIN row'.decisions : Backed(row'.decisions[i], journal \cup lines)
    BY <1>1, <1>2, <2>1 DEF Backs
  <2>3. \A i \in DOMAIN row'.decisions : Backed(row'.decisions[i], journal')
    BY <1>1, <2>2
  <2>4. QED
    BY <2>3 DEF Backs
<1>5. ~Memory => TasksNamed(journal')
  BY <1>1, <1>2 DEF TasksNamed
<1>6. \A l \in journal' : l.at <= clock'
  BY <1>1, <1>2
<1>7. Alone => Told(row', journal', clock')
  <2>1. ASSUME NEW v, NEW ls, NEW x, Told(v, ls, clock), x.decisions = v.decisions,
               x.status = v.status
        PROVE  Told(x, ls, clock)
    BY <2>1 DEF Told
  <2>2. Alone => Told(row', journal \cup lines, clock)
    BY <1>1, <1>2, <2>1
  <2>3. QED
    BY <1>1, <2>2
<1>8. QED
  BY <1>1, <1>3, <1>4, <1>5, <1>6, <1>7, EndBooks

-------------------------------------------------------------------------------
(* The invariant. *)

\* Every step of every request keeps the invariant.
LEMMA StepBooks == BInv /\ [Next]_vars => BInv'
<1> SUFFICES ASSUME BInv, [Next]_vars PROVE BInv'
  OBVIOUS
<1>1. IInv'
  BY NextKeeps DEF BInv
<1>2. CASE UNCHANGED vars
  <2>1. /\ row' = row /\ journal' = journal /\ session' = session /\ clock' = clock
        /\ scenario' = scenario /\ Busy' = Busy
    BY <1>2 DEF vars, Busy
  <2>2. Kept'
    BY <2>1 DEF BInv, Kept
  <2>3. AloneKept'
    BY <2>1 DEF BInv, AloneKept, Alone
  <2>4. QED
    BY <1>1, <2>2, <2>3 DEF BInv
<1>3. ASSUME NEW r \in Requests, NEW q \in Request, Load(r, q) PROVE Kept' /\ AloneKept'
  BY <1>3, LoadBooks
<1>4. ASSUME NEW r \in Requests, Handler(r) PROVE Kept' /\ AloneKept'
  BY <1>4, UpdateBooks, ProposalBooks, RecordBooks, EvidenceBooks, ReviewBooks, ExemptBooks
     DEF Handler
<1>5. ASSUME NEW r \in Requests, Commit(r) PROVE Kept' /\ AloneKept'
  BY <1>5, CommitBooks
<1>6. ASSUME NEW r \in Requests, Rollback(r) PROVE Kept' /\ AloneKept'
  BY <1>6, RollbackBooks
<1>7. QED
  BY <1>1, <1>2, <1>3, <1>4, <1>5, <1>6 DEF Next, BInv

\* The journal, the column and the copies agree in every reachable state.
THEOREM BooksAgree == Spec => []BInv
<1>1. QED
  BY InitBooks, StepBooks, PTL DEF Spec

\* PostgreSQL: every decision has its lines and every task its decision, however
\* requests overlap; when they do not, no decision is lost and every hash can be
\* recomputed.
THEOREM DecisionsHold ==
    ASSUME ~Memory
    PROVE  Spec => []DecisionsStand
<1>1. BInv => BackedByJournal
  <2>1. BInv => \A d \in Entries(row) : Backed(d, journal)
    BY EntriesBacked DEF BInv, Kept
  <2>2. QED
    BY <2>1 DEF BackedByJournal, Backed
<1>2. BInv => TasksHaveDecision
  BY DEF BInv, Kept, TasksNamed, TasksHaveDecision
<1>3. BInv /\ Alone => NothingLost /\ HashVerifies
  <2> SUFFICES ASSUME BInv, Alone PROVE NothingLost /\ HashVerifies
    OBVIOUS
  <2>1. Told(row, journal, clock)
    BY DEF BInv, AloneKept
  <2>2. QED
    BY <2>1 DEF Told, NothingLost, HashVerifies, Entries
<1>4. BInv => DecisionsStand
  BY <1>1, <1>2, <1>3 DEF DecisionsStand, JournalAgrees
<1>5. QED
  BY <1>4, BooksAgree, PTL

-------------------------------------------------------------------------------
(* What a decision binds. *)

\* Only a commit changes the row, and nothing else adds a line while a case is closed.
LEMMA OnlyCommits ==
    ASSUME BInv, [Next]_vars
    PROVE  /\ scenario' = scenario
           /\ \/ \E r \in Requests : Commit(r)
              \/ /\ row' = row
                 /\ Alone /\ row.status = "closed" => journal' = journal
<1>1. CASE UNCHANGED vars
  BY <1>1 DEF vars
<1>2. ASSUME NEW r \in Requests, NEW q \in Request, Load(r, q)
      PROVE  row' = row /\ journal' = journal /\ scenario' = scenario
  BY <1>2 DEF Load
<1>3. ASSUME NEW r \in Requests, Handler(r)
      PROVE  /\ row' = row /\ scenario' = scenario
             /\ Alone /\ row.status = "closed" => journal' = journal
  <2>1. CASE EvidenceMissing(r)
    <3>1. session[r].pc = "loaded" /\ session[r].req.op = "record"
      BY <2>1 DEF EvidenceMissing, Running
    <3>2. Alone => row.status # "closed"
      BY <3>1, Running_Reads DEF Admits, NeedsOpen
    <3>3. QED
      BY <2>1, <3>2 DEF EvidenceMissing
  <2>2. CASE ~EvidenceMissing(r)
    <3>1. \E work, kinds, id : Flush(r, work, kinds, id)
      BY <1>3, <2>2 DEF Handler, UpdateStatus, UpdateCaseType, UpdateAssignee, WriteContent,
         ProposeDecision, DismissProposal, RecordDecision, ReviewDecision, ReopenInvestigation,
         ShareInvestigation, UnshareInvestigation, TransferOwner, DeleteInvestigation
    <3>2. QED
      BY <3>1 DEF Flush
  <2>3. QED
    BY <2>1, <2>2
<1>4. ASSUME NEW r \in Requests, Rollback(r)
      PROVE  row' = row /\ journal' = journal /\ scenario' = scenario
  BY <1>4 DEF Rollback
<1>5. ASSUME NEW r \in Requests, Commit(r) PROVE scenario' = scenario
  BY <1>5 DEF Commit
<1>6. QED
  BY <1>1, <1>2, <1>3, <1>4, <1>5 DEF Next

\* Alone, a commit writes what its handler made of the row.
LEMMA AloneCommit ==
    ASSUME BInv, Alone, NEW r \in Requests, Commit(r)
    PROVE  /\ row \in Row /\ row.alive /\ Told(row, journal, clock)
           /\ session[r].req \in Request /\ Admits(row, session[r].req)
           /\ session[r].work \in Row /\ Moved(row, session[r].work, session[r].req)
           /\ row.status = "closed" => \A l \in session[r].lines : l.kind \in FreezeExempt
           /\ journal' = journal \cup session[r].lines
           /\ session[r] # Idle /\ session'[r] = Idle
           /\ row'.status = session[r].work.status
           /\ row'.decisions = session[r].work.decisions
           /\ row'.caseType = session[r].work.caseType
           /\ row'.alive = session[r].work.alive
           /\ \A p \in Proposals : row'.proposals[p] = session[r].work.proposals[p]
<1>1. /\ r \in Busy /\ session[r].pc = "flushed" /\ session[r].req \in Request
      /\ session[r].work \in Row /\ journal' = journal \cup session[r].lines
      /\ session' = [session EXCEPT ![r] = Idle]
      /\ row \in Row /\ session[r].seen = row
      /\ row'.status = session[r].work.status
      /\ row'.decisions = session[r].work.decisions
      /\ row'.caseType = session[r].work.caseType
      /\ row'.alive = session[r].work.alive
      /\ \A p \in Proposals : row'.proposals[p] = session[r].work.proposals[p]
  BY CommitReads
<1>2. Admits(row, session[r].req)
  BY <1>1 DEF BInv, IInv, SessionSound
<1>3. /\ row.alive /\ Told(row, journal, clock) /\ Moved(row, session[r].work, session[r].req)
      /\ row.status = "closed" => \A l \in session[r].lines : l.kind \in FreezeExempt
  BY <1>1 DEF BInv, AloneKept
<1>4. session[r] # Idle /\ session'[r] = Idle
  BY <1>1 DEF Busy, BInv, IInv, TypeOK
<1>5. QED
  BY <1>1, <1>2, <1>3, <1>4

\* When requests on a case do not overlap: a decision is reviewed once; a closed
\* case is read-only; the case type is fixed once there is a decision; a case
\* that a decision closed is deleted only by a superuser who gives a reason; a
\* proposal that was taken up stays confirmed.
THEOREM DecisionsBind == Spec => DecisionBinds
<1>1. BInv => (Alone => ReviewedOnce)
  BY DEF BInv, AloneKept, Told, ReviewedOnce, Verdicts
<1>2. BInv /\ [Next]_vars =>
         (Alone /\ row.status = "closed" => \A l \in journal' \ journal : l.kind \in FreezeExempt)
  <2> SUFFICES ASSUME BInv, [Next]_vars, Alone, row.status = "closed",
                      NEW l \in journal' \ journal
               PROVE  l.kind \in FreezeExempt
    OBVIOUS
  <2>1. PICK r \in Requests : Commit(r)
    BY OnlyCommits
  <2>2. QED
    BY <2>1, AloneCommit
<1>3. BInv /\ [Next]_vars =>
         (Alone /\ row.decisions # <<>> => row'.caseType = row.caseType)
  <2> SUFFICES ASSUME BInv, [Next]_vars, Alone, row.decisions # <<>>
               PROVE  row'.caseType = row.caseType
    OBVIOUS
  <2>1. CASE row' = row
    BY <2>1
  <2>2. ASSUME NEW r \in Requests, Commit(r) PROVE row'.caseType = row.caseType
    BY <2>2, AloneCommit DEF Moved
  <2>3. QED
    BY <2>1, <2>2, OnlyCommits
<1>4. BInv /\ [Next]_vars =>
         (Alone /\ row.alive /\ ~row'.alive /\ (\E l \in journal : l.kind = "case.closed") =>
            \E r \in Requests : Forced(r))
  <2> SUFFICES ASSUME BInv, [Next]_vars, Alone, row.alive, ~row'.alive,
                      NEW l \in journal, l.kind = "case.closed"
               PROVE  \E r \in Requests : Forced(r)
    OBVIOUS
  <2>1. PICK r \in Requests : Commit(r)
    BY OnlyCommits
  <2>2. /\ Told(row, journal, clock) /\ Admits(row, session[r].req)
        /\ Moved(row, session[r].work, session[r].req)
        /\ session[r] # Idle /\ session'[r] = Idle /\ row'.alive = session[r].work.alive
    BY <2>1, AloneCommit
  <2>3. session[r].req.op = "delete"
    BY <2>2 DEF Moved
  <2>4. Retained(row)
    BY <2>2 DEF Told, Retained, Closing, Entries
  <2>5. QED
    BY <2>2, <2>3, <2>4 DEF Admits, MayDelete, Forced
<1>5. BInv /\ [Next]_vars =>
         (\A p \in Proposals :
            Alone /\ row.proposals[p] = "confirmed" => row'.proposals[p] = "confirmed")
  <2> SUFFICES ASSUME BInv, [Next]_vars, Alone, NEW p \in Proposals,
                      row.proposals[p] = "confirmed"
               PROVE  row'.proposals[p] = "confirmed"
    OBVIOUS
  <2>1. CASE row' = row
    BY <2>1
  <2>2. ASSUME NEW r \in Requests, Commit(r) PROVE row'.proposals[p] = "confirmed"
    BY <2>2, AloneCommit DEF Moved
  <2>3. QED
    BY <2>1, <2>2, OnlyCommits
<1>6. Spec => [](Alone => ReviewedOnce)
  BY <1>1, BooksAgree, PTL
<1>7. Spec => ClosedIsReadOnly
  BY <1>2, BooksAgree, PTL DEF Spec, ClosedIsReadOnly
<1>8. Spec => TypeFixedByDecision
  BY <1>3, BooksAgree, PTL DEF Spec, TypeFixedByDecision
<1>9. Spec => RetainedUnlessForced
  BY <1>4, BooksAgree, PTL DEF Spec, RetainedUnlessForced
<1>10. Spec => ProposalStaysTaken
  BY <1>5, BooksAgree, PTL DEF Spec, ProposalStaysTaken
<1>11. QED
  BY <1>6, <1>7, <1>8, <1>9, <1>10 DEF DecisionBinds

-------------------------------------------------------------------------------
(* The case implements the book of decisions. *)

\* The phase and the book that a case shows.
Phase == IF ~Alone THEN "open" ELSE IF row.alive THEN row.status ELSE "deleted"

Entered(d) == [closes |-> d.closes, review |-> d.review]

Shown == [i \in {j \in DOMAIN row.decisions : Alone} |->
             [closes |-> row.decisions[i].closes, review |-> row.decisions[i].review]]

\* What the book shows of a row.
LEMMA ShownAlone ==
    ASSUME Alone
    PROVE  Shown = [i \in DOMAIN row.decisions |-> Entered(row.decisions[i])]
BY DEF Shown, Entered

\* A decision that is added is added to the book.
LEMMA EnteredAppend ==
    ASSUME NEW ds \in Seq(Decision), NEW e \in Decision
    PROVE  [i \in DOMAIN Append(ds, e) |-> Entered(Append(ds, e)[i])]
              = Append([i \in DOMAIN ds |-> Entered(ds[i])], Entered(e))
<1> DEFINE es == Append(ds, e)
           b == [i \in DOMAIN ds |-> Entered(ds[i])]
           left == [i \in DOMAIN es |-> Entered(es[i])]
           right == Append(b, Entered(e))
<1>1. /\ es \in Seq(Decision) /\ Len(es) = Len(ds) + 1 /\ Len(ds) \in Nat
      /\ es[Len(ds) + 1] = e /\ \A i \in 1 .. Len(ds) : es[i] = ds[i]
      /\ DOMAIN es = 1 .. Len(ds) + 1 /\ DOMAIN ds = 1 .. Len(ds)
  OBVIOUS
<1>2. \A d \in Decision : Entered(d) \in {Entered(x) : x \in Decision}
  OBVIOUS
<1> DEFINE Pages == {Entered(x) : x \in Decision}
<1>3. b \in Seq(Pages) /\ Len(b) = Len(ds)
  <2>1. \A i \in 1 .. Len(ds) : Entered(ds[i]) \in Pages
    OBVIOUS
  <2> HIDE DEF Pages
  <2>2. b = [i \in 1 .. Len(ds) |-> Entered(ds[i])]
    BY <1>1
  <2>3. QED
    BY <1>1, <2>1, <2>2
<1>4. /\ Len(right) = Len(ds) + 1 /\ DOMAIN right = 1 .. Len(ds) + 1
      /\ right[Len(ds) + 1] = Entered(e) /\ \A i \in 1 .. Len(ds) : right[i] = b[i]
      /\ right = [i \in 1 .. Len(ds) + 1 |-> right[i]]
  <2> HIDE DEF b, Pages
  <2>1. Entered(e) \in Pages
    BY <1>2 DEF Pages
  <2>2. right \in Seq(Pages) /\ Len(right) = Len(ds) + 1 /\ DOMAIN right = 1 .. Len(right)
    BY <1>1, <1>3, <2>1
  <2>3. right[Len(ds) + 1] = Entered(e)
    BY <1>1, <1>3, <2>1
  <2>4. \A i \in 1 .. Len(ds) : right[i] = b[i]
    BY <1>1, <1>3, <2>1
  <2> HIDE DEF right
  <2>5. right = [i \in 1 .. Len(right) |-> right[i]]
    BY <2>2
  <2>6. QED
    BY <2>2, <2>3, <2>4, <2>5
<1>5. \A i \in 1 .. Len(ds) + 1 : left[i] = right[i]
  <2>1. \A i \in 1 .. Len(ds) + 1 : i \in 1 .. Len(ds) \/ i = Len(ds) + 1
    BY <1>1
  <2> HIDE DEF right
  <2>2. \A i \in 1 .. Len(ds) : b[i] = Entered(ds[i])
    BY <1>1
  <2> HIDE DEF b, es
  <2>3. QED
    BY <1>1, <1>4, <2>1, <2>2
<1>6. left = [i \in 1 .. Len(ds) + 1 |-> left[i]]
  BY <1>1
<1> HIDE DEF left, right
<1>7. left = right
  BY <1>4, <1>5, <1>6
<1>8. QED
  BY <1>7 DEF left, right

\* A decision that is reviewed is reviewed in the book.
LEMMA EnteredReview ==
    ASSUME NEW ds \in Seq(Decision), NEW i \in DOMAIN ds, NEW n, NEW judged,
           n.closes = ds[i].closes, n.review = judged
    PROVE  [j \in DOMAIN [ds EXCEPT ![i] = n] |-> Entered([ds EXCEPT ![i] = n][j])]
              = [[j \in DOMAIN ds |-> Entered(ds[j])] EXCEPT ![i].review = judged]
<1> DEFINE es == [ds EXCEPT ![i] = n]
           b == [j \in DOMAIN ds |-> Entered(ds[j])]
<1>1. DOMAIN es = DOMAIN ds /\ es[i] = n /\ \A j \in DOMAIN ds : j # i => es[j] = ds[j]
  OBVIOUS
<1>2. Entered(n) = [Entered(ds[i]) EXCEPT !.review = judged]
  BY DEF Entered
<1>3. [b EXCEPT ![i].review = judged] = [b EXCEPT ![i] = [Entered(ds[i]) EXCEPT !.review = judged]]
  OBVIOUS
<1>4. [b EXCEPT ![i].review = judged]
         = [j \in DOMAIN ds |-> IF j = i THEN Entered(n) ELSE Entered(ds[j])]
  BY <1>2, <1>3
<1> HIDE DEF es
<1>5. [j \in DOMAIN es |-> Entered(es[j])]
         = [j \in DOMAIN ds |-> IF j = i THEN Entered(n) ELSE Entered(ds[j])]
  BY <1>1
<1>6. QED
  BY <1>4, <1>5 DEF es

\* A new case is an open one with an empty book.
LEMMA BookStarts == Init => Book!Init
<1> SUFFICES ASSUME Init PROVE Book!Init
  OBVIOUS
<1>1. row.decisions = <<>> /\ row.alive /\ row.status = "open"
  BY DEF Init
<1>2. Phase = "open"
  BY <1>1 DEF Phase
<1>3. {j \in DOMAIN row.decisions : Alone} = {}
  BY <1>1
<1>4. Shown = <<>>
  BY <1>3 DEF Shown
<1>5. QED
  BY <1>2, <1>4 DEF Book!Init, Phase, Shown

\* A commit that is alone is a step of the book, or changes neither it nor the phase.
LEMMA BookCommits ==
    ASSUME BInv, Alone, scenario' = scenario, NEW r \in Requests, Commit(r)
    PROVE  Book!Next \/ UNCHANGED Book!vars
<1> DEFINE q == session[r].req
           w == session[r].work
           ds == row.decisions
<1>1. /\ row \in Row /\ row.alive /\ Told(row, journal, clock)
      /\ q \in Request /\ Admits(row, q) /\ w \in Row /\ Moved(row, w, q)
      /\ row'.status = w.status /\ row'.decisions = w.decisions /\ row'.alive = w.alive
  BY AloneCommit
<1>2. Alone'
  BY DEF Alone
<1>3. /\ Phase = row.status /\ Phase \in {"open", "analysis", "closed"}
      /\ Phase' = IF w.alive THEN w.status ELSE "deleted"
  BY <1>1, <1>2 DEF Phase, Row, Statuses
<1>4. /\ Shown = [i \in DOMAIN ds |-> Entered(ds[i])]
      /\ Shown' = [i \in DOMAIN w.decisions |-> Entered(w.decisions[i])]
  <2>1. Shown' = [i \in DOMAIN row'.decisions |-> Entered(row'.decisions[i])]
    BY <1>2 DEF Shown, Entered
  <2>2. QED
    BY <1>1, <2>1, ShownAlone
<1>5. w.alive = (q.op # "delete")
  BY <1>1 DEF Moved
<1>6. ds \in Seq(Decision)
  BY <1>1, EntryTypes
<1>7. \A i \in DOMAIN ds : Shown[i] = Entered(ds[i]) /\ Shown[i].closes = ds[i].closes
                             /\ Shown[i].review = ds[i].review
  BY <1>4 DEF Entered
<1>8. DOMAIN Shown = DOMAIN ds
  BY <1>4
<1>9. CASE q.op = "record"
  <2>1. PICK e \in Entries(w) :
           /\ w.decisions = Append(ds, e) /\ e.review \in {"none", "pending"}
           /\ w.status = IF e.closes /\ e.review = "none" THEN "closed" ELSE row.status
    BY <1>1, <1>9 DEF Moved
  <2>2. e \in Decision /\ e.closes \in BOOLEAN
    BY <1>1, EntryTypes DEF Entries, Decision
  <2>3. row.status # "closed" /\ Pending(row) = {}
    BY <1>1, <1>9 DEF Admits, NeedsOpen, MayRecord
  <2>4. Shown' = Append(Shown, Entered(e))
    BY <1>4, <1>6, <2>1, <2>2, EnteredAppend
  <2>5. \A i \in DOMAIN Shown : Shown[i].review # "pending"
    BY <1>7, <1>8, <2>3 DEF Pending, Entries
  <2> DEFINE waits == e.review = "pending"
  <2>6. waits \in BOOLEAN /\ e.review = IF waits THEN "pending" ELSE "none"
    BY <2>1
  <2>7. Shown' = Append(Shown, [closes |-> e.closes,
                                review |-> IF waits THEN "pending" ELSE "none"])
    BY <2>4, <2>6 DEF Entered
  <2>8. Phase' = IF e.closes /\ ~waits THEN "closed" ELSE Phase
    BY <1>3, <1>5, <1>9, <2>1
  <2>9. Phase \in {"open", "analysis"}
    BY <1>3, <2>3
  <2> HIDE DEF waits
  <2>10. \E closes, pends \in BOOLEAN :
            /\ Shown' = Append(Shown, [closes |-> closes,
                                       review |-> IF pends THEN "pending" ELSE "none"])
            /\ Phase' = IF closes /\ ~pends THEN "closed" ELSE Phase
    BY <2>2, <2>6, <2>7, <2>8
  <2>11. Book!Decide
    BY <2>5, <2>9, <2>10 DEF Book!Decide, Book!Waiting, Book!Worked, Phase, Shown
  <2>12. QED
    BY <2>11 DEF Book!Next
<1>10. CASE q.op = "review"
  <2>1. PICK i \in DOMAIN ds :
           /\ ds[i].review = "pending"
           /\ w.decisions = [ds EXCEPT ![i] = Reviewed(ds[i], q)]
           /\ w.status = IF q.approve /\ ds[i].closes THEN "closed" ELSE row.status
    BY <1>1, <1>10 DEF Moved
  <2> DEFINE n == Reviewed(ds[i], q)
             judged == IF q.approve THEN "approved" ELSE "rejected"
  <2>2. q.approve \in BOOLEAN
    BY <1>1, <1>10, RequestFields
  <2>3. n.closes = ds[i].closes /\ n.review = judged
    <3>1. ds[i] \in Decision
      BY <1>6
    <3>2. QED
      BY <3>1 DEF Reviewed, Decision
  <2>4. Shown' = [Shown EXCEPT ![i].review = judged]
    <3>1. w.decisions = [ds EXCEPT ![i] = n]
      BY <2>1
    <3>2. ds \in Seq(Decision) /\ i \in DOMAIN ds
      BY <1>6
    <3> HIDE DEF n, judged, ds
    <3>3. [j \in DOMAIN [ds EXCEPT ![i] = n] |-> Entered([ds EXCEPT ![i] = n][j])]
             = [[j \in DOMAIN ds |-> Entered(ds[j])] EXCEPT ![i].review = judged]
      BY ONLY <2>3, <3>2, EnteredReview
    <3>4. QED
      BY ONLY <1>4, <3>1, <3>3
  <2>5. Phase \in {"open", "analysis"}
    BY <1>1, <1>3, <2>1 DEF Told
  <2>6. i \in DOMAIN Shown /\ Shown[i].review = "pending" /\ Shown[i].closes = ds[i].closes
    BY <1>7, <1>8, <2>1
  <2>7. CASE q.approve = TRUE
    <3>1. Shown' = [Shown EXCEPT ![i].review = "approved"]
      BY <2>4, <2>7
    <3>2. Phase' = IF Shown[i].closes THEN "closed" ELSE Phase
      BY <1>3, <1>5, <1>10, <2>1, <2>6, <2>7
    <3>3. Book!Approve
      BY <2>5, <2>6, <3>1, <3>2 DEF Book!Approve, Book!Waiting, Book!Worked, Phase, Shown
    <3>4. QED
      BY <3>3 DEF Book!Next
  <2>8. CASE q.approve = FALSE
    <3>1. Shown' = [Shown EXCEPT ![i].review = "rejected"]
      BY <2>4, <2>8
    <3>2. Phase' = Phase
      BY <1>3, <1>5, <1>10, <2>1, <2>8
    <3>3. Book!Reject
      BY <2>5, <2>6, <3>1, <3>2 DEF Book!Reject, Book!Waiting, Book!Worked, Phase, Shown
    <3>4. QED
      BY <3>3 DEF Book!Next
  <2>9. QED
    BY <2>2, <2>7, <2>8
<1>11. CASE q.op \notin {"record", "review"}
  <2>1. w.decisions = ds /\ w.status = IF q.op = "status" THEN q.to
                                       ELSE IF q.op = "reopen" THEN "analysis" ELSE row.status
    BY <1>1, <1>11 DEF Moved
  <2>2. Shown' = Shown
    BY <1>4, <2>1
  <2>3. CASE q.op = "status"
    <3>1. row.status # "closed" /\ q.to \in {"open", "analysis"}
      BY <1>1, <2>3, RequestFields DEF Admits, NeedsOpen
    <3>2. Phase \in {"open", "analysis"} /\ Phase' \in {"open", "analysis"}
      BY <1>3, <1>5, <2>1, <2>3, <3>1
    <3>3. Book!Move
      BY <2>2, <3>2 DEF Book!Move, Book!Worked, Phase, Shown
    <3>4. QED
      BY <3>3 DEF Book!Next
  <2>4. CASE q.op = "reopen"
    <3>1. Phase = "closed" /\ Phase' = "analysis"
      BY <1>1, <1>3, <1>5, <2>1, <2>4 DEF Admits
    <3>2. Book!Reopen
      BY <2>2, <3>1 DEF Book!Reopen, Phase, Shown
    <3>3. QED
      BY <3>2 DEF Book!Next
  <2>5. CASE q.op = "delete"
    <3>1. Phase # "deleted" /\ Phase' = "deleted"
      BY <1>3, <1>5, <2>5
    <3>2. Book!Discard
      BY <2>2, <3>1 DEF Book!Discard, Phase, Shown
    <3>3. QED
      BY <3>2 DEF Book!Next
  <2>6. CASE q.op \notin {"status", "reopen", "delete"}
    <3>1. Phase' = Phase
      BY <1>3, <1>5, <2>1, <2>6
    <3>2. QED
      BY <2>2, <3>1 DEF Book!vars, Phase, Shown
  <2>7. QED
    BY <2>3, <2>4, <2>5, <2>6
<1>12. QED
  BY <1>9, <1>10, <1>11

\* Every step of the case is a step of the book or changes nothing in it.
LEMMA BookSteps ==
    ASSUME BInv, [Next]_vars
    PROVE  [Book!Next]_(Book!vars)
<1>1. scenario' = scenario /\ (row' = row \/ \E r \in Requests : Commit(r))
  BY OnlyCommits
<1>2. CASE ~Alone
  <2>1. ~Alone'
    BY <1>1, <1>2 DEF Alone
  <2>2. Phase' = Phase
    BY <1>2, <2>1 DEF Phase
  <2>3. {j \in DOMAIN row.decisions : Alone} = {} /\ {j \in DOMAIN row'.decisions : Alone'} = {}
    BY <1>2, <2>1
  <2>4. Shown' = Shown
    BY <2>3 DEF Shown
  <2>5. QED
    BY <2>2, <2>4 DEF Book!vars, Phase, Shown
<1>3. CASE Alone /\ row' = row
  <2>1. Phase' = Phase /\ Shown' = Shown
    BY <1>1, <1>3 DEF Phase, Shown, Alone
  <2>2. QED
    BY <2>1 DEF Book!vars, Phase, Shown
<1>4. ASSUME Alone, NEW r \in Requests, Commit(r) PROVE [Book!Next]_(Book!vars)
  BY <1>1, <1>4, BookCommits
<1>5. QED
  BY <1>1, <1>2, <1>3, <1>4

\* A case whose requests do not overlap implements the book of decisions: it
\* only grows, one decision waits at a time, the book closes the case and only
\* reopening leaves it.
THEOREM BookImplemented == Spec => ImplementsBook
<1>1. Init => Book!Init
  BY BookStarts
<1>2. BInv /\ [Next]_vars => [Book!Next]_(Book!vars)
  BY BookSteps
<1>3. QED
  BY <1>1, <1>2, BooksAgree, PTL DEF Spec, ImplementsBook, Book!Spec

===============================================================================
