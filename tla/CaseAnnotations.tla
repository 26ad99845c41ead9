---------------------------- MODULE CaseAnnotations ----------------------------
(***************************************************************************)
(* The annotations of one case: what people confirm and what agents        *)
(* suggest (api/graphlagoon/services/case_annotations.py, with the agent   *)
(* branch of update_investigation and the proposal of record_decision in   *)
(* cases.py).                                                              *)
(*                                                                         *)
(* A request loads the case and the rows, works on its copy and commits:   *)
(* the columns whose value changed are written over what was committed     *)
(* meanwhile.  With Memory = TRUE the in-memory store is written as the    *)
(* handler goes, so requests do not overlap but a handler that fails       *)
(* leaves what it had written.                                             *)
(***************************************************************************)
EXTENDS Naturals, FiniteSets

CONSTANTS
    Notes,         \* ids uuid4 may give to annotations
    Entities,      \* what a role is about
    Words,         \* role names, texts and titles
    Nothing,       \* a field that does not apply
    Kinds,         \* the kinds written in this instance
    SuggestKinds,  \* settings.agent_suggest_kinds
    RolesMulti,    \* the case type's roles_multi
    Requests,
    Memory,
    Scenarios      \* what a run lets happen: the operations, the kinds and words they
                   \* write and how many requests are under way at once

AllKinds == {"role", "tag", "hypothesis", "hypothesis_status", "status_change", "task",
             "decision_proposal"}

Ops == {"create", "edit", "retarget", "agent_edit", "remove", "judge", "judge_many",
        "reopen", "move", "decide", "reopen_case"}

ASSUME AnnotationKindsAssumption == Kinds \subseteq AllKinds /\ SuggestKinds \subseteq AllKinds
ASSUME AnnotationWordsAssumption ==
    Nothing \notin Words \cup Entities \cup Notes /\ Entities \cap Notes = {}
ASSUME AnnotationTrafficAssumption ==
    /\ Memory \in BOOLEAN /\ RolesMulti \in BOOLEAN
    /\ \A s \in Scenarios : s.atOnce \in Nat /\ s.ops \subseteq Ops

VARIABLES
    rows,     \* [Notes -> the committed row of case_annotations, or Absent]
    status,   \* investigations.status
    taken,    \* [Notes -> how many decisions name this proposal], at most 2 counted
    session,  \* [Requests -> what the request has loaded, or Idle]
    answer,   \* [Requests -> how the request of this slot ended, until the next one starts]
    scenario

vars == <<rows, status, taken, session, answer, scenario>>

-------------------------------------------------------------------------------
(* Data *)

CaseStatuses == {"open", "analysis", "closed"}
Authors      == {"human", "agent"}

\* States of a hypothesis, of a task, of the case (status_change), or none.
States == {"open", "supported", "done", "analysis", "closed", "none"}

\* The JSON column `value`.
Value == [word : Words \cup {Nothing}, state : States]

Unseen == [word |-> Nothing, state |-> "none"]

Absent == [kind |-> "absent"]

\* vouched is no column: the value a person last wrote or confirmed.
Annotation == {Absent} \cup
    [kind : AllKinds, target : Entities \cup Notes \cup {Nothing}, value : Value,
     status : {"suggested", "confirmed", "rejected"}, author : Authors, vouched : Value]

StatesOf(kind) ==
    CASE kind \in {"hypothesis", "hypothesis_status"} -> {"open", "supported"}
      [] kind = "task"          -> {"open", "done"}
      [] kind = "status_change" -> CaseStatuses
      [] OTHER                  -> {"none"}

\* validate: a role names its entity, a hypothesis_status its hypothesis.
TargetsOf(kind) ==
    CASE kind = "role"              -> Entities
      [] kind = "hypothesis_status" -> Notes
      [] OTHER                      -> {Nothing}

WordsOf(kind) ==
    IF kind \in {"hypothesis_status", "status_change"} THEN {Nothing} ELSE Words

Fields(kind) ==
    [target : TargetsOf(kind), value : [word : WordsOf(kind), state : StatesOf(kind)]]

\* status_change annotations are written by update_investigation ("move").
Written == Kinds \ {"status_change"}

Request ==
    (UNION {[op : {"create"}, by : Authors, note : Notes, kind : {k}, new : Fields(k)]
              : k \in Written})
    \cup (UNION {[op : {"edit"}, by : Authors, note : Notes, kind : {k}, new : Fields(k)]
                   : k \in Kinds})
    \cup [op : {"remove", "reopen", "decide"}, by : {"human"}, note : Notes]
    \cup [op : {"judge"}, by : {"human"}, note : Notes, to : {"confirmed", "rejected"}]
    \cup [op : {"judge_many"}, by : {"human"}, notes : {s \in Notes \X Notes : s[1] # s[2]},
          to : {"confirmed", "rejected"}]
    \cup [op : {"move"}, by : Authors, note : Notes, to : CaseStatuses]
    \cup [op : {"reopen_case"}, by : {"human"}]

Idle == [pc |-> "idle"]

\* What a handler reads and writes: the rows and the status of the case.
Book == [rows : [Notes -> Annotation], status : CaseStatuses]

TypeOK ==
    /\ rows \in [Notes -> Annotation]
    /\ status \in CaseStatuses
    /\ taken \in [Notes -> 0 .. 2]
    /\ session \in [Requests -> {Idle} \cup [pc : {"loaded"}, req : Request, seen : Book]]
    /\ answer \in [Requests -> {"none", "ok", "failed"}]
    /\ scenario \in Scenarios

-------------------------------------------------------------------------------
(* Rules *)

\* mutant: an agent's write of any kind is confirmed
WriteStatus_Confirmed(kind, by) == IF kind = "decision_proposal" THEN "suggested" ELSE "confirmed"

\* write_status; a decision_proposal is a draft whoever writes it.
WriteStatus(kind, by) ==
    IF kind = "decision_proposal" \/ (by = "agent" /\ kind \in SuggestKinds)
    THEN "suggested" ELSE "confirmed"

\* FREEZE_EXEMPT
FreezeExempt == {"task"}

\* mutant: the freeze is forgotten
Guard_None(b, kind) == TRUE

\* The freeze: 409 on a closed case, except for the exempt kinds.
Guard(b, kind) == b.status = "closed" => kind \in FreezeExempt

\* An agent edits what an agent wrote; which tasks it may edit besides (the ones
\* assigned to it) is left open.
AgentMayEdit(row) == row.kind = "task" \/ row.author = "agent"

\* mutant: the agent may set the state of a hypothesis
AgentMayWrite_State(row, new) == TRUE

\* USE_HYPOTHESIS_STATUS
AgentMayWrite(row, new) == row.kind = "hypothesis" => new.value.state = row.value.state

\* STATUS_TRANSITIONS and check_transition: only a decision closes the case.
MayMove(b, to) == to = b.status \/ {to, b.status} = {"open", "analysis"}

Present(b, n) == b.rows[n] # Absent

-------------------------------------------------------------------------------
(* What a handler does to its copy.  ok says whether it got to its commit;  *)
(* when it is FALSE, the book is what had been written before the exception. *)

Done(b)   == [book |-> b, ok |-> TRUE]
Failed(b) == [book |-> b, ok |-> FALSE]

\* mutant: confirming a role keeps the entity's previous one
ReplaceRoles_None(b, target, word, keep) == b

\* _replace_roles: one confirmed role per entity; with roles_multi, the same
\* role is not held twice.
ReplaceRoles(b, target, word, keep) ==
    LET replaced(n) ==
          /\ b.rows[n].kind = "role"
          /\ b.rows[n].status = "confirmed"
          /\ b.rows[n].target = target
          /\ n # keep
          /\ RolesMulti => b.rows[n].value.word = word
    IN [b EXCEPT !.rows = [n \in Notes |-> IF replaced(n) THEN Absent ELSE b.rows[n]]]

\* _apply_hypothesis_status; the hypothesis may be gone (404).
MoveHypothesis(b, n) ==
    LET h == b.rows[n].target
        to == b.rows[n].value.state
    IN IF Present(b, h)
       THEN Done([b EXCEPT !.rows[h].value.state = to, !.rows[h].vouched.state = to])
       ELSE Failed(b)

MoveCase(b, n) ==
    LET to == b.rows[n].value.state
    IN IF MayMove(b, to) THEN Done([b EXCEPT !.status = to]) ELSE Failed(b)

Marked(b, n, to) ==
    [b EXCEPT !.rows[n].status = to,
              !.rows[n].vouched = IF to = "confirmed" THEN b.rows[n].value ELSE @]

\* mutant: a status change is confirmed without moving the case
Effect_NoMove(b, n) ==
    CASE b.rows[n].kind = "role" ->
             Done(ReplaceRoles(b, b.rows[n].target, b.rows[n].value.word, n))
      [] b.rows[n].kind = "hypothesis_status" -> MoveHypothesis(b, n)
      [] OTHER -> Done(b)

\* Confirming applies it.
Effect(b, n) ==
    CASE b.rows[n].kind = "role" ->
             Done(ReplaceRoles(b, b.rows[n].target, b.rows[n].value.word, n))
      [] b.rows[n].kind = "hypothesis_status" -> MoveHypothesis(b, n)
      [] b.rows[n].kind = "status_change"     -> MoveCase(b, n)
      [] OTHER -> Done(b)

Judgeable(b, n, to) ==
    /\ Guard(b, b.rows[n].kind)
    /\ b.rows[n].status = "suggested"
    /\ ~(b.rows[n].kind = "decision_proposal" /\ to = "confirmed")

\* _apply_status: the row is written first, then its effect, which may fail.
ApplyStatus(b, n, to) ==
    IF ~Judgeable(b, n, to) THEN Failed(b)
    ELSE IF to = "confirmed" THEN Effect(Marked(b, n, to), n)
    ELSE Done(Marked(b, n, to))

\* The loop of set_status_many: ones no longer suggested are skipped.
ApplyNext(result, n, to) ==
    IF ~result.ok \/ ~Present(result.book, n) \/ result.book.rows[n].status # "suggested"
    THEN result
    ELSE ApplyStatus(result.book, n, to)

\* Two at once; each is checked before any is applied.
JudgeMany(b, ns, to) ==
    IF \E i \in 1 .. 2 :
          \/ ~Present(b, ns[i])
          \/ ~Guard(b, b.rows[ns[i]].kind)
          \/ b.rows[ns[i]].kind = "decision_proposal" /\ to = "confirmed"
    THEN Failed(b)
    ELSE ApplyNext(ApplyNext(Done(b), ns[1], to), ns[2], to)

\* mutant: what a person writes is stored as applied
Row_Applied(kind, new, by, st) ==
    [kind |-> kind, target |-> new.target, value |-> new.value,
     status |-> IF by = "human" THEN "applied" ELSE st, author |-> by,
     vouched |-> IF by = "human" THEN new.value ELSE Unseen]

Row(kind, new, by, st) ==
    [kind |-> kind, target |-> new.target, value |-> new.value, status |-> st, author |-> by,
     vouched |-> IF by = "human" THEN new.value ELSE Unseen]

\* The row is added, then a confirmed hypothesis_status moves its hypothesis.
Create(b, q) ==
    LET st == WriteStatus(q.kind, q.by)
        cleared == IF q.kind = "role" /\ st = "confirmed"
                   THEN ReplaceRoles(b, q.new.target, q.new.value.word, q.note) ELSE b
        added == [cleared EXCEPT !.rows[q.note] = Row(q.kind, q.new, q.by, st)]
    IN IF q.kind = "hypothesis_status"
          /\ ~(Present(b, q.new.target) /\ b.rows[q.new.target].kind = "hypothesis")
       THEN Failed(b)
       ELSE IF q.kind = "hypothesis_status" /\ st = "confirmed" THEN MoveHypothesis(added, q.note)
       ELSE Done(added)

\* mutant: the agent's edit leaves the status alone
EditedStatus_Kept(row, by) == row.status

\* An agent's edit of a suggest kind is a suggestion again.
EditedStatus(row, by) ==
    IF by = "agent" /\ row.kind # "task" THEN WriteStatus(row.kind, by) ELSE row.status

\* update_annotation replaces no other role of the entity.
Edit(b, q) ==
    LET row == b.rows[q.note]
    IN [b EXCEPT !.rows[q.note] =
          [row EXCEPT !.target = q.new.target, !.value = q.new.value,
                      !.status = EditedStatus(row, q.by),
                      !.vouched = IF q.by = "human" THEN q.new.value ELSE @]]

\* update_investigation: an agent suggests the change in place.
Suggests(q) == q.by = "agent" /\ "status_change" \in SuggestKinds

Move(b, q) ==
    IF Suggests(q)
    THEN Done([b EXCEPT !.rows[q.note] =
           Row("status_change", [target |-> Nothing, value |-> [word |-> Nothing, state |-> q.to]],
               q.by, "suggested")])
    ELSE IF MayMove(b, q.to) THEN Done([b EXCEPT !.status = q.to]) ELSE Failed(b)

-------------------------------------------------------------------------------
Init ==
    /\ rows = [n \in Notes |-> Absent]
    /\ status = "analysis"
    /\ taken = [n \in Notes |-> 0]
    /\ session = [r \in Requests |-> Idle]
    /\ answer = [r \in Requests |-> "none"]
    /\ scenario \in Scenarios

\* uuid4: nobody holds this id, not even a stale copy or a dangling target.
Fresh(n) ==
    /\ rows[n] = Absent /\ taken[n] = 0
    /\ \A m \in Notes : rows[m] # Absent => rows[m].target # n
    /\ \A s \in Requests : session[s] # Idle =>
          /\ session[s].seen.rows[n] = Absent
          /\ "note" \in DOMAIN session[s].req => session[s].req.note # n
          /\ "new" \in DOMAIN session[s].req => session[s].req.new.target # n

\* The handlers' checks on the case and on the row they are about.
Admits(b, q) ==
    /\ q.op = "create" => Fresh(q.note) /\ Guard(b, q.kind)
    /\ q.op = "move" => b.status # "closed" /\ (IF Suggests(q) THEN Fresh(q.note)
                                                ELSE q.note = CHOOSE n \in Notes : TRUE)
    /\ q.op \in {"edit", "remove", "judge", "reopen", "decide"} => Present(b, q.note)
    /\ q.op = "edit" =>
          /\ q.kind = b.rows[q.note].kind
          /\ Guard(b, q.kind)
          /\ q.by = "agent" => /\ "agent_edit" \in scenario.ops
                               /\ AgentMayEdit(b.rows[q.note])
                               /\ AgentMayWrite(b.rows[q.note], q.new)
          /\ q.new.target # b.rows[q.note].target => "retarget" \in scenario.ops
    /\ q.op = "remove" => Guard(b, b.rows[q.note].kind)
    /\ q.op = "reopen" => Guard(b, b.rows[q.note].kind) /\ b.rows[q.note].status = "rejected"
    /\ q.op = "decide" => /\ b.status # "closed"
                          /\ b.rows[q.note].kind = "decision_proposal"
                          /\ b.rows[q.note].status = "suggested"
    /\ q.op = "reopen_case" => b.status = "closed"

\* The case and the rows are read; all later steps work on this copy.
Load(r, q) ==
    LET b == [rows |-> rows, status |-> status]
    IN /\ session[r] = Idle
       /\ Memory => \A s \in Requests : session[s] = Idle
       /\ Cardinality({s \in Requests : session[s] # Idle}) < scenario.atOnce
       /\ q.op \in scenario.ops
       /\ "kind" \in DOMAIN q => /\ q.kind \in scenario.kinds
                                 /\ q.new.value.word \in scenario.words \cup {Nothing}
       /\ Admits(b, q)
       /\ session' = [session EXCEPT ![r] = [pc |-> "loaded", req |-> q, seen |-> b]]
       /\ answer' = [s \in Requests |-> "none"]
       /\ UNCHANGED <<rows, status, taken, scenario>>

\* The session writes a column only when its value changed.
Column(new, old, current) == IF new # old THEN new ELSE current

MergeRow(current, seen, work) ==
    IF seen = Absent \/ work = Absent \/ current = Absent
    THEN (IF work # seen THEN work ELSE current)
    ELSE [kind    |-> current.kind,
          target  |-> Column(work.target, seen.target, current.target),
          value   |-> Column(work.value, seen.value, current.value),
          status  |-> Column(work.status, seen.status, current.status),
          author  |-> current.author,
          vouched |-> Column(work.vouched, seen.vouched, current.vouched)]

\* An UPDATE of a row that was deleted meanwhile matches nothing and fails.
Conflict(seen, work) ==
    \E n \in Notes : /\ seen.rows[n] # Absent /\ work.rows[n] # seen.rows[n]
                     /\ work.rows[n] # Absent /\ rows[n] = Absent

Close(r, how) ==
    /\ session' = [session EXCEPT ![r] = Idle]
    /\ answer' = [answer EXCEPT ![r] = how]

Commit(r, work) ==
    LET seen == session[r].seen
    IN /\ ~Conflict(seen, work)
       /\ rows' = [n \in Notes |-> MergeRow(rows[n], seen.rows[n], work.rows[n])]
       /\ status' = Column(work.status, seen.status, status)
       /\ Close(r, "ok")

\* mutant: what was flushed is committed although the handler failed
Leftover_Flushed(seen, work) == work

\* What a failed handler leaves: the session is rolled back, the in-memory store not.
Leftover(seen, work) == IF Memory THEN work ELSE seen

\* The handler ends with result: its commit, or the exception.
Finish(r, result) ==
    /\ IF result.ok
       THEN Commit(r, result.book)
       ELSE LET seen == session[r].seen
                left == Leftover(seen, result.book)
            IN /\ rows' = [n \in Notes |-> MergeRow(rows[n], seen.rows[n], left.rows[n])]
               /\ status' = Column(left.status, seen.status, status)
               /\ Close(r, "failed")
    /\ UNCHANGED <<taken, scenario>>

Running(r, op) == session[r] # Idle /\ session[r].req.op = op

CreateAnnotation(r) ==
    /\ Running(r, "create")
    /\ Finish(r, Create(session[r].seen, session[r].req))

UpdateAnnotation(r) ==
    /\ Running(r, "edit")
    /\ Finish(r, Done(Edit(session[r].seen, session[r].req)))

DeleteAnnotation(r) ==
    /\ Running(r, "remove")
    /\ Finish(r, Done([session[r].seen EXCEPT !.rows[session[r].req.note] = Absent]))

SetStatus(r) ==
    /\ Running(r, "judge")
    /\ Finish(r, ApplyStatus(session[r].seen, session[r].req.note, session[r].req.to))

SetStatusMany(r) ==
    /\ Running(r, "judge_many")
    /\ Finish(r, JudgeMany(session[r].seen, session[r].req.notes, session[r].req.to))

Reopen(r) ==
    /\ Running(r, "reopen")
    /\ Finish(r, Done([session[r].seen EXCEPT !.rows[session[r].req.note].status = "suggested"]))

UpdateInvestigation(r) ==
    /\ Running(r, "move")
    /\ Finish(r, Move(session[r].seen, session[r].req))

\* record_decision with this proposal_id; the outcome closes the case or not.
RecordDecision(r) ==
    /\ Running(r, "decide")
    /\ \E closes \in BOOLEAN :
          LET n == session[r].req.note
              b == session[r].seen
          IN /\ taken[n] < 2
             /\ Commit(r, [Marked(b, n, "confirmed")
                             EXCEPT !.status = IF closes THEN "closed" ELSE @])
             /\ taken' = [taken EXCEPT ![n] = @ + 1]
    /\ UNCHANGED scenario

ReopenInvestigation(r) ==
    /\ Running(r, "reopen_case")
    /\ Finish(r, Done([session[r].seen EXCEPT !.status = "analysis"]))

\* The database refuses the commit (a row is gone) or the process is lost.
Abandon(r) ==
    /\ session[r] # Idle
    /\ Close(r, "failed")
    /\ UNCHANGED <<rows, status, taken, scenario>>

Next ==
    \E r \in Requests :
        \/ \E q \in Request : Load(r, q)
        \/ CreateAnnotation(r) \/ UpdateAnnotation(r) \/ DeleteAnnotation(r)
        \/ SetStatus(r) \/ SetStatusMany(r) \/ Reopen(r)
        \/ UpdateInvestigation(r) \/ RecordDecision(r) \/ ReopenInvestigation(r)
        \/ Abandon(r)

Spec == Init /\ [][Next]_vars

-------------------------------------------------------------------------------
(* Properties *)

\* Requests of the scenario do not overlap.
Alone == scenario.atOnce = 1

Ends(r)    == session[r] # Idle /\ session'[r] = Idle
ByPerson   == \E r \in Requests : Ends(r) /\ session[r].req.by = "human"
Suggestive(n) == rows[n].author = "agent" /\ rows[n].kind \in SuggestKinds

\* One confirmed role per entity: a new one replaces the previous (_replace_roles).
OneRole ==
    \A m, n \in Notes :
        /\ m # n
        /\ rows[m].kind = "role" /\ rows[n].kind = "role"
        /\ rows[m].status = "confirmed" /\ rows[n].status = "confirmed"
        /\ rows[m].target = rows[n].target
        => RolesMulti /\ rows[m].value.word # rows[n].value.word

\* An agent's annotation of a suggest kind is confirmed by a person, never by an
\* agent, however requests overlap (write_status, forbid_agents).
ConfirmedByPerson ==
    [][\A n \in Notes :
         (rows[n] = Absent \/ rows[n].status # "confirmed")
         /\ rows'[n] # Absent /\ rows'[n].status = "confirmed"
         /\ rows'[n].author = "agent" /\ rows'[n].kind \in SuggestKinds
         => ByPerson]_vars

\* What stands confirmed is what a person confirmed or wrote: an agent cannot
\* change it afterwards without it being a suggestion again (update_annotation),
\* except for tasks, which agents work on.
PersonSawIt ==
    \A n \in Notes : rows[n] # Absent /\ Suggestive(n) /\ rows[n].kind # "task"
               /\ rows[n].status = "confirmed" => rows[n].value = rows[n].vouched

\* What is confirmed stands as it was confirmed, as long as requests do not overlap
\* (nothing edits the target of a role here: README, section 5).
ConfirmedStands == Alone => OneRole /\ PersonSawIt

\* An agent moves no hypothesis and no case by itself (USE_HYPOTHESIS_STATUS, the
\* agent branch of update_investigation) where both arrive suggested.
AgentMovesNothing ==
    [][Alone =>
        /\ (\E n \in Notes : rows[n].kind = "hypothesis" /\ rows'[n].kind = "hypothesis"
                              /\ rows'[n].value.state # rows[n].value.state)
              /\ "hypothesis_status" \in SuggestKinds => ByPerson
        /\ status' # status /\ "status_change" \in SuggestKinds => ByPerson]_vars

\* Confirming applies it: a confirmed hypothesis_status moved its hypothesis, a
\* confirmed status_change the case, in the same commit (_apply_status).  Of
\* several confirmed together one has the last word.
Confirms(n) ==
    rows[n] # Absent /\ rows'[n] # Absent
    /\ rows[n].status = "suggested" /\ rows'[n].status = "confirmed"

ConfirmingApplies ==
    [][\A n \in Notes : Alone /\ Confirms(n) /\ rows[n].kind \in {"hypothesis_status", "status_change"} =>
         \E m \in Notes :
            /\ Confirms(m)
            /\ rows[m].kind = rows[n].kind /\ rows[m].target = rows[n].target
            /\ IF rows[n].kind = "status_change" THEN status' = rows[m].value.state
               ELSE /\ rows'[rows[n].target] # Absent
                    /\ rows'[rows[n].target].value.state = rows[m].value.state]_vars

\* A request that is refused changes nothing; several suggestions are applied
\* together or not at all (set_status_many).
FailedChangesNothing ==
    [][\A r \in Requests : Ends(r) /\ answer'[r] = "failed" => UNCHANGED <<rows, status>>]_vars

\* However requests overlap, nothing is confirmed but by the person who confirms it,
\* and what is refused leaves no trace.
OnlyWhatSucceeds == ConfirmedByPerson /\ FailedChangesNothing

\* A closed case still takes its tasks and nothing else (FREEZE_EXEMPT).
ClosedTakesTasks ==
    [][Alone /\ status = "closed" =>
         \A n \in Notes : rows'[n] # rows[n] => "task" \in {rows[n].kind, rows'[n].kind}]_vars

\* Something takes effect when a person confirms it, then and there, and only on
\* a case that is not closed.
EffectsAreVouched == AgentMovesNothing /\ ConfirmingApplies /\ ClosedTakesTasks

\* A proposal is taken up by the one decision that names it (NOT_SUGGESTED).
ProposalTakenOnce == \A n \in Notes : taken[n] <= 1
===============================================================================
