------------------------- MODULE CaseAnnotationsProofs -------------------------
(****************************************************************************)
(* Proofs about CaseAnnotations: nothing is confirmed but by a person, what *)
(* is refused leaves no trace, and what stands confirmed is what a person   *)
(* confirmed.                                                               *)
(*                                                                          *)
(* The invariant speaks of the requests under way: what a request read and  *)
(* what is stored now are about the same annotations (Kin), the id that a   *)
(* request is about to create is nobody else's (Reserved), what admitted    *)
(* the request still holds of what it read (Checked), and a request that is *)
(* the only one has read what is stored now (SoloStand).                    *)
(****************************************************************************)
EXTENDS CaseAnnotations, FiniteSetTheorems, TLAPS

Busy == {r \in Requests : session[r] # Idle}
Now == [rows |-> rows, status |-> status]

\* The requests that write a row that was not there.
Creates(q) == q.op = "create" \/ (q.op = "move" /\ Suggests(q))

\* What the handlers check of the case and the row they are about.
Checked(b, q) ==
    /\ q.op = "create" => Guard(b, q.kind)
    /\ Creates(q) => b.rows[q.note] = Absent
    /\ q.op = "move" => b.status # "closed"
    /\ q.op \in {"edit", "remove", "judge", "reopen", "decide"} => Present(b, q.note)
    /\ q.op = "edit" =>
          /\ q.kind = b.rows[q.note].kind
          /\ Guard(b, q.kind)
          /\ q.by = "agent" => AgentMayWrite(b.rows[q.note], q.new)
          /\ q.new.target # b.rows[q.note].target => "retarget" \in scenario.ops
    /\ q.op \in {"remove", "reopen"} => Guard(b, b.rows[q.note].kind)
    /\ q.op = "reopen" => b.rows[q.note].status = "rejected"
    /\ q.op = "decide" => b.status # "closed" /\ b.rows[q.note].kind = "decision_proposal"
    /\ q.op \in scenario.ops

SameKind(b, w) ==
    \A n \in Notes : b.rows[n] # Absent /\ w.rows[n] # Absent =>
        w.rows[n].kind = b.rows[n].kind /\ w.rows[n].author = b.rows[n].author

Kin == \A r \in Busy : SameKind(session[r].seen, Now)

\* A hypothesis_status names an annotation, there or gone.
Pointed(b) == \A n \in Notes : b.rows[n].kind = "hypothesis_status" => b.rows[n].target \in Notes

Reserved ==
    \A r \in Busy : Creates(session[r].req) =>
        /\ rows[session[r].req.note] = Absent
        /\ \A s \in Busy :
              /\ session[s].seen.rows[session[r].req.note] = Absent
              /\ s # r /\ Creates(session[s].req) => session[s].req.note # session[r].req.note

Solo == Alone \/ Memory

\* Nobody names a row that is about to be created.
Unnamed(b, q) == Creates(q) => \A m \in Notes : b.rows[m] # Absent => b.rows[m].target # q.note

\* What is confirmed in a book, as long as requests do not overlap.
OneRoleIn(b) ==
    \A m, n \in Notes :
        /\ m # n
        /\ b.rows[m].kind = "role" /\ b.rows[n].kind = "role"
        /\ b.rows[m].status = "confirmed" /\ b.rows[n].status = "confirmed"
        /\ b.rows[m].target = b.rows[n].target
        => RolesMulti /\ b.rows[m].value.word # b.rows[n].value.word

SeenIn(b, n) ==
    b.rows[n] # Absent /\ b.rows[n].author = "agent" /\ b.rows[n].kind \in SuggestKinds
          /\ b.rows[n].kind # "task" /\ b.rows[n].status = "confirmed" =>
       b.rows[n].value = b.rows[n].vouched

\* Nothing is proposed that needs no confirmation.
ProposedIn(b, n) ==
    b.rows[n] # Absent /\ b.rows[n].status # "confirmed" =>
        b.rows[n].kind \in SuggestKinds \cup {"decision_proposal"}

\* A hypothesis_status is about a hypothesis, or about one that is gone; a
\* status_change is about the case.
TargetIn(b, n) ==
    /\ b.rows[n].kind = "hypothesis_status" =>
          \/ b.rows[b.rows[n].target] = Absent
          \/ b.rows[b.rows[n].target].kind = "hypothesis"
    /\ b.rows[n].kind = "status_change" => b.rows[n].target = Nothing

Stands(b) ==
    OneRoleIn(b) /\ \A n \in Notes : SeenIn(b, n) /\ ProposedIn(b, n) /\ TargetIn(b, n)

SoloStand ==
    /\ Solo => \A r \in Busy : session[r].seen = Now /\ \A s \in Busy : s = r
    /\ Alone => \A r \in Busy : Unnamed(Now, session[r].req)

IInv ==
    /\ TypeOK /\ IsFiniteSet(Busy) /\ Kin /\ Reserved /\ SoloStand
    /\ Pointed(Now)
    /\ \A r \in Busy : Pointed(session[r].seen) /\ Checked(session[r].seen, session[r].req)

\* Nobody edits what a confirmed role is about, nor, where an entity may hold several
\* roles, which role it is.
NoRoleEdited ==
    \A s \in Scenarios : s.atOnce = 1 =>
        "retarget" \notin s.ops /\ (RolesMulti => "edit" \notin s.ops)

StandsAlone == Alone => Stands(Now)

-------------------------------------------------------------------------------
(* Data.                                                                     *)

Live == [kind : AllKinds, target : Entities \cup Notes \cup {Nothing}, value : Value,
         status : {"suggested", "confirmed", "rejected"}, author : Authors, vouched : Value]

\* A row is absent or has all its columns.
LEMMA LiveRows == Annotation = {Absent} \cup Live /\ Absent \notin Live /\ Absent.kind \notin AllKinds
  BY DEF Annotation, Live, Absent, AllKinds

LEMMA FieldsTyped ==
    ASSUME NEW kind \in AllKinds, NEW new \in Fields(kind)
    PROVE  /\ new.target \in Entities \cup Notes \cup {Nothing} /\ new.value \in Value
           /\ kind = "hypothesis_status" => new.target \in Notes
           /\ kind = "status_change" => new.target = Nothing
<1>1. new.target \in TargetsOf(kind) /\ new.value \in [word : WordsOf(kind), state : StatesOf(kind)]
  BY DEF Fields
<1>2. StatesOf(kind) \subseteq States
  BY DEF StatesOf, States, CaseStatuses, AllKinds
<1>3. WordsOf(kind) \subseteq Words \cup {Nothing}
  BY DEF WordsOf
<1>4. new.value \in Value
  BY <1>1, <1>2, <1>3 DEF Value
<1>5. TargetsOf(kind) \subseteq Entities \cup Notes \cup {Nothing}
  BY DEF TargetsOf, AllKinds
<1>6. /\ kind = "hypothesis_status" => TargetsOf(kind) = Notes
      /\ kind = "status_change" => TargetsOf(kind) = {Nothing}
  BY DEF TargetsOf
<1>7. QED
  BY <1>1, <1>4, <1>5, <1>6

\* What a request carries (the bodies of the routes).
Carries(q) ==
    /\ q.op \in Ops /\ q.by \in Authors
    /\ q.op \in {"create", "edit"} =>
          /\ q.note \in Notes /\ q.kind \in AllKinds
          /\ q.new \in Fields(q.kind)
          /\ q.new.target \in Entities \cup Notes \cup {Nothing} /\ q.new.value \in Value
          /\ q.kind = "hypothesis_status" => q.new.target \in Notes
          /\ q.kind = "status_change" => q.new.target = Nothing
    /\ q.op \in {"remove", "reopen", "decide", "judge", "move"} => q.note \in Notes
    /\ q.op = "judge" => q.to \in {"confirmed", "rejected"}
    /\ q.op = "judge_many" =>
          /\ q.notes[1] \in Notes /\ q.notes[2] \in Notes /\ q.notes[1] # q.notes[2]
          /\ q.to \in {"confirmed", "rejected"}
    /\ q.op = "move" => q.to \in CaseStatuses
    /\ q.op \notin {"create", "edit", "move"} => q.by = "human"
    /\ q.op = "create" => q.kind # "status_change"

LEMMA RequestFields ==
    ASSUME NEW q \in Request
    PROVE  Carries(q) /\ (Creates(q) => "note" \in DOMAIN q)
<1>1. CASE q \in UNION {[op : {"create"}, by : Authors, note : Notes, kind : {k}, new : Fields(k)]
                           : k \in Written}
  <2>1. PICK k \in Written :
            q \in [op : {"create"}, by : Authors, note : Notes, kind : {k}, new : Fields(k)]
    BY <1>1
  <2>2. k \in AllKinds /\ k # "status_change"
    BY AnnotationKindsAssumption DEF Written
  <2>3. /\ q.op = "create" /\ q.by \in Authors /\ q.note \in Notes /\ q.kind = k
        /\ q.new \in Fields(k) /\ "note" \in DOMAIN q
    BY <2>1
  <2>4. /\ q.new.target \in Entities \cup Notes \cup {Nothing} /\ q.new.value \in Value
        /\ k = "hypothesis_status" => q.new.target \in Notes
        /\ k = "status_change" => q.new.target = Nothing
    BY <2>2, <2>3, FieldsTyped
  <2>5. QED
    BY <2>2, <2>3, <2>4 DEF Carries, Ops
<1>2. CASE q \in UNION {[op : {"edit"}, by : Authors, note : Notes, kind : {k}, new : Fields(k)]
                           : k \in Kinds}
  <2>1. PICK k \in Kinds :
            q \in [op : {"edit"}, by : Authors, note : Notes, kind : {k}, new : Fields(k)]
    BY <1>2
  <2>2. k \in AllKinds
    BY AnnotationKindsAssumption
  <2>3. /\ q.op = "edit" /\ q.by \in Authors /\ q.note \in Notes /\ q.kind = k
        /\ q.new \in Fields(k)
    BY <2>1
  <2>4. /\ q.new.target \in Entities \cup Notes \cup {Nothing} /\ q.new.value \in Value
        /\ k = "hypothesis_status" => q.new.target \in Notes
        /\ k = "status_change" => q.new.target = Nothing
    BY <2>2, <2>3, FieldsTyped
  <2>5. QED
    BY <2>2, <2>3, <2>4 DEF Carries, Ops, Creates
<1>3. CASE q \in [op : {"remove", "reopen", "decide"}, by : {"human"}, note : Notes]
  BY <1>3 DEF Carries, Ops, Creates, Authors
<1>4. CASE q \in [op : {"judge"}, by : {"human"}, note : Notes, to : {"confirmed", "rejected"}]
  BY <1>4 DEF Carries, Ops, Creates, Authors
<1>5. CASE q \in [op : {"judge_many"}, by : {"human"},
                  notes : {s \in Notes \X Notes : s[1] # s[2]}, to : {"confirmed", "rejected"}]
  <2>1. q.op = "judge_many" /\ q.by = "human" /\ q.to \in {"confirmed", "rejected"}
        /\ q.notes \in {s \in Notes \X Notes : s[1] # s[2]}
    BY <1>5
  <2>2. q.notes[1] \in Notes /\ q.notes[2] \in Notes /\ q.notes[1] # q.notes[2]
    BY <2>1
  <2>3. QED
    BY <2>1, <2>2 DEF Carries, Ops, Creates, Authors
<1>6. CASE q \in [op : {"move"}, by : Authors, note : Notes, to : CaseStatuses]
  BY <1>6 DEF Carries, Ops, Creates
<1>7. CASE q \in [op : {"reopen_case"}, by : {"human"}]
  BY <1>7 DEF Carries, Ops, Creates, Authors
<1>8. QED
  BY <1>1, <1>2, <1>3, <1>4, <1>5, <1>6, <1>7 DEF Request

-------------------------------------------------------------------------------
(* What a handler does to its copy.                                          *)

\* Rows may change or go, none is new.
InPlace(b, w) ==
    /\ w \in Book
    /\ \A n \in Notes : w.rows[n] # Absent =>
          /\ b.rows[n] # Absent
          /\ w.rows[n].kind = b.rows[n].kind /\ w.rows[n].author = b.rows[n].author
          /\ w.rows[n].target = b.rows[n].target

LEMMA InPlaceAgain ==
    ASSUME NEW b, NEW c, NEW w, InPlace(b, c), InPlace(c, w)
    PROVE  InPlace(b, w)
  BY DEF InPlace

LEMMA BookRows ==
    ASSUME NEW b \in Book, NEW n \in Notes
    PROVE  b.rows[n] \in Annotation /\ (b.rows[n] # Absent <=> b.rows[n] \in Live)
           /\ InPlace(b, b)
  BY LiveRows DEF Book, InPlace

\* The roles a new one replaces (_replace_roles).
Replaced(b, target, word, keep, n) ==
    /\ b.rows[n].kind = "role"
    /\ b.rows[n].status = "confirmed"
    /\ b.rows[n].target = target
    /\ n # keep
    /\ RolesMulti => b.rows[n].value.word = word

LEMMA ReplaceRolesIs ==
    ASSUME NEW b \in Book, NEW target, NEW word, NEW keep,
           NEW w, w = ReplaceRoles(b, target, word, keep)
    PROVE  /\ InPlace(b, w) /\ w.status = b.status
           /\ \A n \in Notes : w.rows[n] = IF Replaced(b, target, word, keep, n)
                                              THEN Absent ELSE b.rows[n]
<1>1. PICK f : f = [n \in Notes |-> IF Replaced(b, target, word, keep, n)
                                       THEN Absent ELSE b.rows[n]]
  OBVIOUS
<1>2. w = [b EXCEPT !.rows = f]
  BY <1>1 DEF ReplaceRoles, Replaced
<1>3. f \in [Notes -> Annotation]
  BY <1>1, LiveRows DEF Book
<1>4. w \in Book /\ w.rows = f /\ w.status = b.status
  BY <1>2, <1>3 DEF Book
<1>5. QED
  BY <1>1, <1>4 DEF InPlace

\* A row that is written over with one of its kind.
SameRow(was, row) ==
    was # Absent /\ row.kind = was.kind /\ row.author = was.author /\ row.target = was.target

LEMMA MarkedIs ==
    ASSUME NEW b \in Book, NEW n \in Notes, b.rows[n] # Absent,
           NEW to \in {"confirmed", "rejected"}, NEW w, w = Marked(b, n, to)
    PROVE  /\ InPlace(b, w) /\ w.status = b.status
           /\ \A m \in Notes : m # n => w.rows[m] = b.rows[m]
           /\ w.rows[n] # Absent
           /\ w.rows[n].kind = b.rows[n].kind /\ w.rows[n].author = b.rows[n].author
           /\ w.rows[n].target = b.rows[n].target /\ w.rows[n].value = b.rows[n].value
           /\ w.rows[n].status = to
           /\ w.rows[n].vouched = IF to = "confirmed" THEN b.rows[n].value ELSE b.rows[n].vouched
<1>1. b.rows[n] \in Live
  BY BookRows
<1>2. PICK given : given = IF to = "confirmed" THEN b.rows[n].value ELSE b.rows[n].vouched
  OBVIOUS
<1>3. PICK row : row = [b.rows[n] EXCEPT !.status = to, !.vouched = given]
  OBVIOUS
<1>4. /\ row \in Live
      /\ row.kind = b.rows[n].kind /\ row.author = b.rows[n].author
      /\ row.target = b.rows[n].target /\ row.value = b.rows[n].value
      /\ row.status = to /\ row.vouched = given
  BY <1>1, <1>2, <1>3 DEF Live
<1>5. w = [b EXCEPT !.rows[n] = row]
  BY <1>2, <1>3 DEF Marked, Book
<1>6. row \in Annotation /\ row # Absent
  BY <1>4, LiveRows
<1>7. /\ InPlace(b, w) /\ w.status = b.status
      /\ \A m \in Notes : w.rows[m] = IF m = n THEN row ELSE b.rows[m]
  <2>1. SameRow(b.rows[n], row)
    BY <1>4 DEF SameRow
  <2>2. /\ w \in Book /\ w.status = b.status
        /\ \A m \in Notes : w.rows[m] = IF m = n THEN row ELSE b.rows[m]
    BY <1>5, <1>6 DEF Book
  <2>3. QED
    BY <2>1, <2>2 DEF InPlace, SameRow
<1>8. QED
  BY <1>2, <1>4, <1>6, <1>7

\* A hypothesis is moved to the state a hypothesis_status names.
HypothesisMoved(b, n, h, res) ==
    /\ res.ok <=> b.rows[h] # Absent
    /\ ~res.ok => res.book = b
    /\ res.ok =>
          /\ InPlace(b, res.book) /\ res.book.status = b.status
          /\ \A m \in Notes : m # h => res.book.rows[m] = b.rows[m]
          /\ res.book.rows[h] # Absent
          /\ res.book.rows[h].kind = b.rows[h].kind
          /\ res.book.rows[h].author = b.rows[h].author
          /\ res.book.rows[h].target = b.rows[h].target
          /\ res.book.rows[h].status = b.rows[h].status
          /\ res.book.rows[h].value.word = b.rows[h].value.word
          /\ res.book.rows[h].value.state = b.rows[n].value.state
          /\ b.rows[h].value = b.rows[h].vouched =>
                res.book.rows[h].value = res.book.rows[h].vouched

LEMMA MoveHypothesisIs ==
    ASSUME NEW b \in Book, NEW n \in Notes, b.rows[n] # Absent,
           b.rows[n].target \in Notes,
           NEW h, h = b.rows[n].target,
           NEW res, res = MoveHypothesis(b, n)
    PROVE  HypothesisMoved(b, n, h, res)
<1>1. h \in Notes /\ b.rows[n] \in Live
  BY BookRows
<1>2. CASE b.rows[h] = Absent
  <2>1. res = Failed(b)
    BY <1>2 DEF MoveHypothesis, Present
  <2>2. QED
    BY <1>2, <2>1 DEF Failed, HypothesisMoved
<1>3. CASE b.rows[h] # Absent
  <2>1. b.rows[h] \in Live
    BY <1>1, <1>3, BookRows
  <2>2. PICK to : to = b.rows[n].value.state
    OBVIOUS
  <2>3. to \in States
    BY <1>1, <2>2 DEF Live, Value
  <2>4. PICK was : was = b.rows[h]
    OBVIOUS
  <2>5. PICK value : value = [was.value EXCEPT !.state = to]
    OBVIOUS
  <2>6. PICK vouched : vouched = [was.vouched EXCEPT !.state = to]
    OBVIOUS
  <2>7. /\ value \in Value /\ value.word = was.value.word /\ value.state = to
        /\ vouched \in Value
        /\ was.value = was.vouched => value = vouched
    BY <2>1, <2>3, <2>4, <2>5, <2>6 DEF Live, Value
  <2>8. PICK row : row = [was EXCEPT !.value = value, !.vouched = vouched]
    OBVIOUS
  <2>9. /\ row \in Live
        /\ row.kind = was.kind /\ row.author = was.author /\ row.target = was.target
        /\ row.status = was.status /\ row.value = value /\ row.vouched = vouched
    BY <2>1, <2>4, <2>7, <2>8 DEF Live
  <2>10. PICK w : w = [b EXCEPT !.rows[h] = row]
    OBVIOUS
  <2>11. [b EXCEPT !.rows[h].value.state = to, !.rows[h].vouched.state = to] = w
    BY <1>1, <2>1, <2>4, <2>5, <2>6, <2>8, <2>10 DEF Book, Live
  <2>12. res.ok = TRUE /\ res.book = w
    BY <1>3, <2>2, <2>11 DEF MoveHypothesis, Present, Done
  <2>13. row \in Annotation /\ row # Absent
    BY <2>9, LiveRows
  <2>14. /\ InPlace(b, w) /\ w.status = b.status
         /\ \A m \in Notes : w.rows[m] = IF m = h THEN row ELSE b.rows[m]
    <3>1. SameRow(b.rows[h], row)
      BY <1>3, <2>4, <2>9 DEF SameRow
    <3>2. /\ w \in Book /\ w.status = b.status
          /\ \A m \in Notes : w.rows[m] = IF m = h THEN row ELSE b.rows[m]
      BY <1>1, <2>10, <2>13 DEF Book
    <3>3. QED
      BY <3>1, <3>2 DEF InPlace, SameRow
  <2>15. w.rows[h] = row
    BY <1>1, <2>14
  <2>16. \A m \in Notes : m # h => w.rows[m] = b.rows[m]
    BY <2>14
  <2>17. QED
    BY <1>3, <2>2, <2>4, <2>7, <2>9, <2>12, <2>13, <2>14, <2>15, <2>16
       DEF HypothesisMoved
<1>4. QED
  BY <1>2, <1>3

\* What a confirmation does besides marking the row, whether it fails or not.
LEMMA EffectInPlace ==
    ASSUME NEW b \in Book, Pointed(b), NEW n \in Notes, b.rows[n] # Absent
    PROVE  InPlace(b, Effect(b, n).book)
<1>1. b.rows[n] \in Live /\ InPlace(b, b)
  BY BookRows
<1>2. CASE b.rows[n].kind = "role"
  <2>1. PICK w : w = ReplaceRoles(b, b.rows[n].target, b.rows[n].value.word, n)
    OBVIOUS
  <2>2. InPlace(b, w)
    BY <2>1, ReplaceRolesIs
  <2>3. QED
    BY <1>2, <2>1, <2>2 DEF Effect, Done
<1>3. CASE b.rows[n].kind = "hypothesis_status"
  <2>1. PICK res : res = MoveHypothesis(b, n)
    OBVIOUS
  <2>2. b.rows[n].target \in Notes
    BY <1>3 DEF Pointed
  <2>3. InPlace(b, res.book)
    BY <1>1, <1>3, <2>1, <2>2, MoveHypothesisIs DEF HypothesisMoved, InPlace
  <2>4. QED
    BY <1>3, <2>1, <2>3 DEF Effect
<1>4. CASE b.rows[n].kind = "status_change"
  <2>1. PICK to : to = b.rows[n].value.state
    OBVIOUS
  <2>2. MoveCase(b, n).book = b \/ (MayMove(b, to) /\ MoveCase(b, n).book = [b EXCEPT !.status = to])
    BY <2>1 DEF MoveCase, Done, Failed
  <2>3. MayMove(b, to) => to \in CaseStatuses
    BY DEF MayMove, CaseStatuses, Book
  <2>4. MayMove(b, to) => InPlace(b, [b EXCEPT !.status = to])
    BY <2>3 DEF InPlace, Book
  <2>5. QED
    BY <1>1, <1>4, <2>2, <2>4 DEF Effect
<1>5. CASE b.rows[n].kind \notin {"role", "hypothesis_status", "status_change"}
  BY <1>1, <1>5 DEF Effect, Done
<1>6. QED
  BY <1>2, <1>3, <1>4, <1>5

LEMMA PointedInPlace ==
    ASSUME NEW b \in Book, NEW w, InPlace(b, w), Pointed(b)
    PROVE  Pointed(w)
<1>1. Absent.kind # "hypothesis_status"
  BY DEF Absent
<1>2. QED
  BY <1>1 DEF InPlace, Pointed

\* One suggestion is judged (_apply_status).
LEMMA ApplyStatusInPlace ==
    ASSUME NEW b \in Book, Pointed(b), NEW n \in Notes, b.rows[n] # Absent,
           NEW to \in {"confirmed", "rejected"}
    PROVE  InPlace(b, ApplyStatus(b, n, to).book)
<1>1. CASE ~Judgeable(b, n, to)
  BY <1>1, BookRows DEF ApplyStatus, Failed
<1>2. CASE Judgeable(b, n, to)
  <2>1. PICK w : w = Marked(b, n, to)
    OBVIOUS
  <2>2. InPlace(b, w) /\ w.rows[n] # Absent /\ w \in Book
    BY <2>1, MarkedIs DEF InPlace
  <2>3. Pointed(w)
    BY <2>2, PointedInPlace
  <2>4. CASE to = "confirmed"
    <3>1. InPlace(w, Effect(w, n).book)
      BY <2>2, <2>3, EffectInPlace
    <3>2. PICK e : e = Effect(w, n).book
      OBVIOUS
    <3>3. InPlace(b, e)
      BY <2>2, <3>1, <3>2, InPlaceAgain
    <3>4. QED
      BY <1>2, <2>1, <2>4, <3>2, <3>3 DEF ApplyStatus
  <2>5. CASE to # "confirmed"
    BY <1>2, <2>1, <2>2, <2>5 DEF ApplyStatus, Done
  <2>6. QED
    BY <2>4, <2>5
<1>3. QED
  BY <1>1, <1>2

\* The next one of several (set_status_many).
LEMMA ApplyNextInPlace ==
    ASSUME NEW res, res.book \in Book, Pointed(res.book), NEW n \in Notes,
           NEW to \in {"confirmed", "rejected"}
    PROVE  InPlace(res.book, ApplyNext(res, n, to).book)
<1>1. PICK b : b = res.book
  OBVIOUS
<1>2. InPlace(b, b)
  BY <1>1, LiveRows DEF InPlace
<1>3. b.rows[n] # Absent => InPlace(b, ApplyStatus(b, n, to).book)
  BY <1>1, ApplyStatusInPlace
<1>4. QED
  BY <1>1, <1>2, <1>3 DEF ApplyNext, Present

LEMMA JudgeManyInPlace ==
    ASSUME NEW b \in Book, Pointed(b), NEW ns, ns[1] \in Notes, ns[2] \in Notes,
           NEW to \in {"confirmed", "rejected"}
    PROVE  InPlace(b, JudgeMany(b, ns, to).book)
<1>1. InPlace(b, b)
  BY LiveRows DEF InPlace
<1>2. PICK res : res = ApplyNext(Done(b), ns[1], to)
  OBVIOUS
<1>3. Done(b).book = b
  BY DEF Done
<1>4. InPlace(b, res.book)
  BY <1>2, <1>3, ApplyNextInPlace
<1>5. res.book \in Book
  BY <1>4 DEF InPlace
<1>6. Pointed(res.book)
  BY <1>4, PointedInPlace
<1>7. InPlace(res.book, ApplyNext(res, ns[2], to).book)
  BY <1>5, <1>6, ApplyNextInPlace
<1>8. PICK w : w = ApplyNext(res, ns[2], to).book
  OBVIOUS
<1>9. InPlace(b, w)
  BY <1>4, <1>7, <1>8, InPlaceAgain
<1>10. QED
  BY <1>1, <1>2, <1>8, <1>9 DEF JudgeMany, Failed

-------------------------------------------------------------------------------
(* What a handler is about to commit, or leaves behind.                      *)

\* Its rows are the ones it read, and the one it creates; what an agent's request
\* confirms needs no confirmation.
Proper(b, q, w) ==
    /\ w \in Book /\ Pointed(w) /\ SameKind(b, w)
    /\ \A n \in Notes : w.rows[n] # Absent /\ b.rows[n] = Absent => Creates(q) /\ n = q.note
    /\ q.by = "agent" => \A n \in Notes :
          w.rows[n] # Absent /\ w.rows[n].kind \in SuggestKinds /\ w.rows[n].status = "confirmed" =>
              b.rows[n] # Absent /\ b.rows[n].status = "confirmed"

LEMMA InPlaceProper ==
    ASSUME NEW b \in Book, Pointed(b), NEW q, q.by # "agent", NEW w, InPlace(b, w)
    PROVE  Proper(b, q, w)
<1>1. Pointed(w)
  BY PointedInPlace
<1>2. QED
  BY <1>1 DEF Proper, InPlace, SameKind

LEMMA SameProper ==
    ASSUME NEW b \in Book, Pointed(b), NEW q
    PROVE  Proper(b, q, b)
  BY DEF Proper, SameKind

\* create_annotation.
LEMMA CreateProper ==
    ASSUME NEW b \in Book, Pointed(b), NEW q, Carries(q), Checked(b, q), q.op = "create"
    PROVE  Proper(b, q, Create(b, q).book)
<1>1. /\ q.note \in Notes /\ q.kind \in AllKinds /\ q.by \in Authors
      /\ q.new.target \in Entities \cup Notes \cup {Nothing} /\ q.new.value \in Value
      /\ q.kind = "hypothesis_status" => q.new.target \in Notes
  BY DEF Carries
<1>2. b.rows[q.note] = Absent /\ Creates(q)
  BY DEF Checked, Creates
<1>3. PICK st : st = WriteStatus(q.kind, q.by)
  OBVIOUS
<1>4. /\ st \in {"suggested", "confirmed"}
      /\ q.by = "agent" /\ q.kind \in SuggestKinds => st = "suggested"
  BY <1>3 DEF WriteStatus
<1>5. PICK cleared : cleared = IF q.kind = "role" /\ st = "confirmed"
                               THEN ReplaceRoles(b, q.new.target, q.new.value.word, q.note) ELSE b
  OBVIOUS
<1>6. /\ InPlace(b, cleared) /\ cleared \in Book
      /\ \A n \in Notes : cleared.rows[n] \in {b.rows[n], Absent}
  BY <1>5, ReplaceRolesIs, LiveRows DEF InPlace
<1>7. PICK row : row = Row(q.kind, q.new, q.by, st)
  OBVIOUS
<1>8. /\ row \in Live /\ row.kind = q.kind /\ row.status = st
      /\ row.target = q.new.target
  <2>1. Unseen \in Value
    BY DEF Unseen, Value, States
  <2>2. QED
    BY <1>1, <1>4, <1>7, <2>1 DEF Row, Live, Authors
<1>9. row \in Annotation /\ row # Absent
  BY <1>8, LiveRows
<1>10. PICK added : added = [cleared EXCEPT !.rows[q.note] = row]
  OBVIOUS
<1>11. /\ added \in Book
       /\ \A n \in Notes : added.rows[n] = IF n = q.note THEN row ELSE cleared.rows[n]
  BY <1>1, <1>6, <1>9, <1>10 DEF Book
<1>12. Pointed(added)
  <2>1. Pointed(cleared)
    BY <1>6, PointedInPlace
  <2>2. QED
    BY <1>1, <1>8, <1>11, <2>1 DEF Pointed
<1>13. Proper(b, q, added)
  <2>1. SameKind(b, added)
    BY <1>2, <1>6, <1>11 DEF SameKind, InPlace
  <2>2. \A n \in Notes : added.rows[n] # Absent /\ b.rows[n] = Absent => n = q.note
    BY <1>6, <1>11 DEF InPlace
  <2>3. q.by = "agent" => \A n \in Notes :
            added.rows[n] # Absent /\ added.rows[n].kind \in SuggestKinds
                  /\ added.rows[n].status = "confirmed" =>
                b.rows[n] # Absent /\ b.rows[n].status = "confirmed"
    BY <1>4, <1>6, <1>8, <1>11
  <2>4. QED
    BY <1>2, <1>11, <1>12, <2>1, <2>2, <2>3 DEF Proper
<1>14. CASE Create(b, q).book = b
  BY <1>14, SameProper
<1>15. CASE Create(b, q).book = added
  BY <1>13, <1>15
<1>16. CASE q.kind = "hypothesis_status" /\ Create(b, q).book = MoveHypothesis(added, q.note).book
  <2>1. PICK res : res = MoveHypothesis(added, q.note)
    OBVIOUS
  <2>2. PICK h : h = q.new.target
    OBVIOUS
  <2>3. /\ added.rows[q.note] # Absent /\ added.rows[q.note].target = h /\ h \in Notes
        /\ added.rows[q.note].kind = "hypothesis_status"
    BY <1>1, <1>8, <1>9, <1>11, <1>16, <2>2
  <2>4. /\ res.ok <=> added.rows[h] # Absent
        /\ ~res.ok => res.book = added
        /\ res.ok =>
              /\ InPlace(added, res.book)
              /\ \A m \in Notes : m # h => res.book.rows[m] = added.rows[m]
              /\ res.book.rows[h].status = added.rows[h].status
    BY <1>1, <1>11, <2>1, <2>3, MoveHypothesisIs DEF HypothesisMoved
  <2>5. CASE ~res.ok
    BY <1>13, <1>16, <2>1, <2>4, <2>5
  <2>6. CASE res.ok
    <3>1. PICK w : w = res.book
      OBVIOUS
    <3>2. /\ InPlace(added, w)
          /\ \A m \in Notes : w.rows[m].status = added.rows[m].status
      BY <2>4, <2>6, <3>1
    <3>3. Pointed(w)
      BY <1>11, <1>12, <3>2, PointedInPlace
    <3>4. Proper(b, q, w)
      BY <1>13, <3>2, <3>3 DEF Proper, InPlace, SameKind
    <3>5. QED
      BY <1>16, <2>1, <3>1, <3>4
  <2>7. QED
    BY <2>5, <2>6
<1>17. \/ Create(b, q).book = b
       \/ Create(b, q).book = added
       \/ q.kind = "hypothesis_status" /\ Create(b, q).book = MoveHypothesis(added, q.note).book
  BY <1>3, <1>5, <1>7, <1>10 DEF Create, Done, Failed
<1>18. QED
  BY <1>14, <1>15, <1>16, <1>17

\* update_annotation.
LEMMA EditProper ==
    ASSUME NEW b \in Book, Pointed(b), NEW q, Carries(q), Checked(b, q), q.op = "edit"
    PROVE  Proper(b, q, Edit(b, q))
<1>1. /\ q.note \in Notes /\ q.by \in Authors
      /\ q.new.target \in Entities \cup Notes \cup {Nothing} /\ q.new.value \in Value
      /\ q.kind = "hypothesis_status" => q.new.target \in Notes
  BY DEF Carries
<1>2. PICK was : was = b.rows[q.note]
  OBVIOUS
<1>3. was # Absent /\ was.kind = q.kind /\ was \in Live
  BY <1>1, <1>2, BookRows DEF Checked, Present
<1>4. PICK st : st = EditedStatus(was, q.by)
  OBVIOUS
<1>5. /\ st \in {"suggested", "confirmed", "rejected"}
      /\ q.by = "agent" /\ was.kind \in SuggestKinds /\ st = "confirmed" => was.status = "confirmed"
  BY <1>3, <1>4 DEF EditedStatus, WriteStatus, Live
<1>6. PICK vouched : vouched = IF q.by = "human" THEN q.new.value ELSE was.vouched
  OBVIOUS
<1>7. PICK row : row = [was EXCEPT !.target = q.new.target, !.value = q.new.value,
                                   !.status = st, !.vouched = vouched]
  OBVIOUS
<1>8. /\ row \in Live /\ row.kind = was.kind /\ row.author = was.author
      /\ row.target = q.new.target /\ row.status = st
  BY <1>1, <1>3, <1>5, <1>6, <1>7 DEF Live
<1>9. PICK w : w = Edit(b, q)
  OBVIOUS
<1>10. w = [b EXCEPT !.rows[q.note] = row]
  BY <1>2, <1>4, <1>6, <1>7, <1>9 DEF Edit
<1>11. row \in Annotation /\ row # Absent
  BY <1>8, LiveRows
<1>12. w \in Book /\ \A n \in Notes : w.rows[n] = IF n = q.note THEN row ELSE b.rows[n]
  BY <1>1, <1>10, <1>11 DEF Book
<1>13. Pointed(w)
  BY <1>1, <1>3, <1>8, <1>12 DEF Pointed
<1>14. SameKind(b, w)
  BY <1>2, <1>8, <1>12 DEF SameKind
<1>15. \A n \in Notes : w.rows[n] # Absent => b.rows[n] # Absent
  BY <1>2, <1>3, <1>12
<1>16. q.by = "agent" => \A n \in Notes :
           w.rows[n] # Absent /\ w.rows[n].kind \in SuggestKinds /\ w.rows[n].status = "confirmed" =>
               b.rows[n].status = "confirmed"
  BY <1>2, <1>5, <1>8, <1>12
<1>17. QED
  BY <1>9, <1>12, <1>13, <1>14, <1>15, <1>16 DEF Proper

\* delete_annotation.
LEMMA RemoveProper ==
    ASSUME NEW b \in Book, Pointed(b), NEW q, Carries(q), q.op = "remove",
           NEW w, w = [b EXCEPT !.rows[q.note] = Absent]
    PROVE  Proper(b, q, w)
<1>1. q.note \in Notes /\ q.by # "agent"
  BY DEF Carries
<1>2. w \in Book /\ \A n \in Notes : w.rows[n] = IF n = q.note THEN Absent ELSE b.rows[n]
  BY <1>1, LiveRows DEF Book
<1>3. InPlace(b, w)
  BY <1>2 DEF InPlace
<1>4. QED
  BY <1>1, <1>3, InPlaceProper

\* reopen: a rejected annotation is a suggestion again.
LEMMA ReopenProper ==
    ASSUME NEW b \in Book, Pointed(b), NEW q, Carries(q), Checked(b, q), q.op = "reopen",
           NEW w, w = [b EXCEPT !.rows[q.note].status = "suggested"]
    PROVE  Proper(b, q, w)
<1>1. q.note \in Notes /\ q.by # "agent"
  BY DEF Carries
<1>2. PICK row : row = [b.rows[q.note] EXCEPT !.status = "suggested"]
  OBVIOUS
<1>3. b.rows[q.note] \in Live
  BY <1>1, BookRows DEF Checked, Present
<1>4. /\ row \in Live /\ row.kind = b.rows[q.note].kind /\ row.author = b.rows[q.note].author
      /\ row.target = b.rows[q.note].target
  BY <1>2, <1>3 DEF Live
<1>5. row \in Annotation /\ b.rows[q.note] # Absent
  BY <1>3, <1>4, LiveRows
<1>6. w = [b EXCEPT !.rows[q.note] = row]
  BY <1>1, <1>2 DEF Book
<1>7. w \in Book /\ \A n \in Notes : w.rows[n] = IF n = q.note THEN row ELSE b.rows[n]
  BY <1>1, <1>5, <1>6 DEF Book
<1>8. InPlace(b, w)
  BY <1>4, <1>5, <1>7 DEF InPlace
<1>9. QED
  BY <1>1, <1>8, InPlaceProper

\* update_investigation.
LEMMA MoveProper ==
    ASSUME NEW b \in Book, Pointed(b), NEW q, Carries(q), Checked(b, q), q.op = "move"
    PROVE  Proper(b, q, Move(b, q).book)
<1>1. q.note \in Notes /\ q.to \in CaseStatuses /\ q.by \in Authors
  BY DEF Carries
<1>2. CASE Suggests(q)
  <2>1. PICK new : new = [target |-> Nothing, value |-> [word |-> Nothing, state |-> q.to]]
    OBVIOUS
  <2>2. new.target = Nothing /\ new.value \in Value
    BY <1>1, <2>1 DEF Value, States, CaseStatuses
  <2>3. PICK row : row = Row("status_change", new, q.by, "suggested")
    OBVIOUS
  <2>4. row \in Live /\ row.kind = "status_change" /\ row.status = "suggested"
    <3>1. Unseen \in Value
      BY DEF Unseen, Value, States
    <3>2. QED
      BY <1>1, <2>2, <2>3, <3>1 DEF Row, Live, AllKinds
  <2>5. row \in Annotation /\ row # Absent
    BY <2>4, LiveRows
  <2>6. PICK w : w = [b EXCEPT !.rows[q.note] = row]
    OBVIOUS
  <2>7. w \in Book /\ \A n \in Notes : w.rows[n] = IF n = q.note THEN row ELSE b.rows[n]
    BY <1>1, <2>5, <2>6 DEF Book
  <2>8. b.rows[q.note] = Absent /\ Creates(q)
    BY <1>2 DEF Checked, Creates
  <2>9. Pointed(w)
    BY <2>4, <2>7 DEF Pointed
  <2>10. Proper(b, q, w)
    BY <2>4, <2>7, <2>8, <2>9 DEF Proper, SameKind
  <2>11. Move(b, q).book = w
    BY <1>2, <2>1, <2>3, <2>6 DEF Move, Done
  <2>12. QED
    BY <2>10, <2>11
<1>3. CASE ~Suggests(q)
  <2>1. PICK w : w = Move(b, q).book
    OBVIOUS
  <2>2. w = b \/ w = [b EXCEPT !.status = q.to]
    BY <1>3, <2>1 DEF Move, Done, Failed
  <2>3. w \in Book /\ \A n \in Notes : w.rows[n] = b.rows[n]
    BY <1>1, <2>2 DEF Book
  <2>4. Proper(b, q, w)
    BY <2>3 DEF Proper, Pointed, SameKind
  <2>5. QED
    BY <2>1, <2>4
<1>4. QED
  BY <1>2, <1>3

\* record_decision and reopen_investigation.
LEMMA DecideProper ==
    ASSUME NEW b \in Book, Pointed(b), NEW q, Carries(q), Checked(b, q), q.op = "decide",
           NEW closes \in BOOLEAN,
           NEW w, w = [Marked(b, q.note, "confirmed") EXCEPT !.status = IF closes THEN "closed" ELSE @]
    PROVE  Proper(b, q, w)
<1>1. q.note \in Notes /\ q.by # "agent" /\ b.rows[q.note] # Absent
  BY DEF Carries, Checked, Present
<1>2. PICK m : m = Marked(b, q.note, "confirmed")
  OBVIOUS
<1>3. InPlace(b, m) /\ m \in Book
  BY <1>1, <1>2, MarkedIs DEF InPlace
<1>4. w \in Book /\ w.rows = m.rows
  BY <1>2, <1>3 DEF Book, CaseStatuses
<1>5. InPlace(b, w)
  BY <1>3, <1>4 DEF InPlace
<1>6. QED
  BY <1>1, <1>5, InPlaceProper

LEMMA ReopenCaseProper ==
    ASSUME NEW b \in Book, Pointed(b), NEW q, Carries(q), q.op = "reopen_case",
           NEW w, w = [b EXCEPT !.status = "analysis"]
    PROVE  Proper(b, q, w)
<1>1. w \in Book /\ w.rows = b.rows /\ q.by # "agent"
  BY DEF Book, CaseStatuses, Carries
<1>2. InPlace(b, w)
  BY <1>1 DEF InPlace
<1>3. QED
  BY <1>1, <1>2, InPlaceProper

\* set_status and set_status_many.
LEMMA JudgeProper ==
    ASSUME NEW b \in Book, Pointed(b), NEW q, Carries(q), Checked(b, q), q.op = "judge"
    PROVE  Proper(b, q, ApplyStatus(b, q.note, q.to).book)
<1>1. q.note \in Notes /\ q.to \in {"confirmed", "rejected"} /\ q.by # "agent"
      /\ b.rows[q.note] # Absent
  BY DEF Carries, Checked, Present
<1>2. QED
  BY <1>1, ApplyStatusInPlace, InPlaceProper

LEMMA JudgeManyProper ==
    ASSUME NEW b \in Book, Pointed(b), NEW q, Carries(q), q.op = "judge_many"
    PROVE  Proper(b, q, JudgeMany(b, q.notes, q.to).book)
<1>1. q.notes[1] \in Notes /\ q.notes[2] \in Notes /\ q.to \in {"confirmed", "rejected"}
      /\ q.by # "agent"
  BY DEF Carries
<1>2. QED
  BY <1>1, JudgeManyInPlace, InPlaceProper

-------------------------------------------------------------------------------
(* The commit.                                                               *)

PointedRow(row) == row.kind = "hypothesis_status" => row.target \in Notes

\* What the columns written over the committed row come to: the row keeps its kind
\* and its author, or is the one created.
LEMMA MergeIs ==
    ASSUME NEW cur \in Annotation, NEW old \in Annotation, NEW new \in Annotation,
           cur # Absent /\ old # Absent => cur.kind = old.kind,
           old # Absent /\ new # Absent => new.kind = old.kind,
           old # Absent /\ new # Absent /\ new # old => cur # Absent,
           PointedRow(cur), PointedRow(old), PointedRow(new),
           NEW row, row = MergeRow(cur, old, new)
    PROVE  /\ row \in Annotation /\ PointedRow(row)
           /\ row # Absent =>
                 \/ cur # Absent /\ row.kind = cur.kind /\ row.author = cur.author
                 \/ old = Absent /\ new # Absent
           /\ row # Absent /\ row.status = "confirmed" /\ (cur = Absent \/ cur.status # "confirmed") =>
                 /\ new # Absent /\ new.kind = row.kind /\ new.status = "confirmed"
                 /\ old = Absent \/ old.status # "confirmed"
<1>1. CASE old = Absent \/ new = Absent \/ cur = Absent
  BY <1>1 DEF MergeRow
<1>2. CASE old # Absent /\ new # Absent /\ cur # Absent
  <2>1. old \in Live /\ new \in Live /\ cur \in Live
    BY <1>2, LiveRows
  <2>2. /\ row = [kind |-> cur.kind, target |-> row.target, value |-> row.value,
                  status |-> row.status, author |-> cur.author, vouched |-> row.vouched]
        /\ row.target \in {new.target, cur.target} /\ row.value \in {new.value, cur.value}
        /\ row.status = Column(new.status, old.status, cur.status)
        /\ row.vouched \in {new.vouched, cur.vouched}
        /\ row.kind = cur.kind /\ row.author = cur.author
    BY <1>2 DEF MergeRow, Column
  <2>3. row \in Live
    BY <2>1, <2>2 DEF Live, Column
  <2>4. PointedRow(row)
    BY <1>2, <2>2 DEF PointedRow
  <2>5. row.status = "confirmed" /\ cur.status # "confirmed" =>
            new.status = "confirmed" /\ old.status # "confirmed"
    BY <2>2 DEF Column
  <2>6. QED
    BY <1>2, <2>2, <2>3, <2>4, <2>5, LiveRows
<1>3. QED
  BY <1>1, <1>2

\* Where nothing was written the committed row stays.
LEMMA MergeNothing ==
    ASSUME NEW cur \in Annotation, NEW old
    PROVE  MergeRow(cur, old, old) = cur
  BY LiveRows DEF MergeRow, Column, Live

\* The session r ends: what it wrote is merged over what is stored.
Ending(r, w) ==
    LET b == session[r].seen
    IN /\ rows' = [n \in Notes |-> MergeRow(rows[n], b.rows[n], w.rows[n])]
       /\ status' = Column(w.status, b.status, status)
       /\ session' = [session EXCEPT ![r] = Idle]
       /\ answer' \in [Requests -> {"none", "ok", "failed"}]
       /\ taken' \in [Notes -> 0 .. 2]
       /\ UNCHANGED scenario

LEMMA EndKeeps ==
    ASSUME IInv, NEW r \in Busy, NEW w, Proper(session[r].seen, session[r].req, w),
           ~Conflict(session[r].seen, w), Ending(r, w)
    PROVE  IInv'
<1>. DEFINE b == session[r].seen
            q == session[r].req
<1>1. /\ r \in Requests /\ session[r] \in [pc : {"loaded"}, req : Request, seen : Book]
      /\ b \in Book /\ q \in Request
  <2>1. r \in Requests /\ session[r] # Idle
    BY DEF Busy
  <2>2. session[r] \in {Idle} \cup [pc : {"loaded"}, req : Request, seen : Book]
    BY <2>1 DEF IInv, TypeOK
  <2>3. QED
    BY <2>1, <2>2
<1>2. /\ Busy' = Busy \ {r}
      /\ \A s \in Busy' : s \in Busy /\ s # r /\ session'[s] = session[s]
  <2>1. session \in [Requests -> {Idle} \cup [pc : {"loaded"}, req : Request, seen : Book]]
    BY DEF IInv, TypeOK
  <2>2. session' = [session EXCEPT ![r] = Idle]
    BY DEF Ending
  <2>3. QED
    BY <1>1, <2>1, <2>2 DEF Busy
<1>3. \A n \in Notes :
          /\ rows'[n] \in Annotation /\ PointedRow(rows'[n])
          /\ rows'[n] # Absent =>
                \/ rows[n] # Absent /\ rows'[n].kind = rows[n].kind /\ rows'[n].author = rows[n].author
                \/ Creates(q) /\ n = q.note
  <2>. SUFFICES ASSUME NEW n \in Notes
       PROVE  /\ rows'[n] \in Annotation /\ PointedRow(rows'[n])
              /\ rows'[n] # Absent =>
                    \/ rows[n] # Absent /\ rows'[n].kind = rows[n].kind
                                        /\ rows'[n].author = rows[n].author
                    \/ Creates(q) /\ n = q.note
    OBVIOUS
  <2>1. PICK cur : cur = rows[n]
    OBVIOUS
  <2>2. PICK old : old = b.rows[n]
    OBVIOUS
  <2>3. PICK new : new = w.rows[n]
    OBVIOUS
  <2>4. PICK row : row = MergeRow(cur, old, new)
    OBVIOUS
  <2>5. cur \in Annotation /\ old \in Annotation /\ new \in Annotation
    BY <1>1, <2>1, <2>2, <2>3 DEF IInv, TypeOK, Book, Proper
  <2>6. /\ cur # Absent /\ old # Absent => cur.kind = old.kind
        /\ old # Absent /\ new # Absent => new.kind = old.kind
        /\ old # Absent /\ new # Absent /\ new # old => cur # Absent
        /\ old = Absent /\ new # Absent => Creates(q) /\ n = q.note
    BY <2>1, <2>2, <2>3 DEF IInv, Kin, SameKind, Now, Proper, Conflict
  <2>7. PointedRow(cur) /\ PointedRow(old) /\ PointedRow(new)
    BY <2>1, <2>2, <2>3 DEF IInv, Proper, Pointed, PointedRow, Now
  <2>8. /\ row \in Annotation /\ PointedRow(row)
        /\ row # Absent =>
              \/ cur # Absent /\ row.kind = cur.kind /\ row.author = cur.author
              \/ old = Absent /\ new # Absent
    BY <2>4, <2>5, <2>6, <2>7, MergeIs
  <2>9. rows'[n] = row
    BY <2>1, <2>2, <2>3, <2>4 DEF Ending
  <2>10. QED
    BY <2>1, <2>6, <2>8, <2>9
<1>4. TypeOK'
  <2>1. rows' \in [Notes -> Annotation]
    BY <1>3 DEF Ending
  <2>2. status' \in CaseStatuses
    BY <1>1 DEF Ending, Column, Proper, Book, IInv, TypeOK
  <2>3. session' \in [Requests -> {Idle} \cup [pc : {"loaded"}, req : Request, seen : Book]]
    BY <1>1 DEF Ending, IInv, TypeOK
  <2>4. QED
    BY <2>1, <2>2, <2>3 DEF Ending, IInv, TypeOK
<1>5. IsFiniteSet(Busy)'
  BY <1>2, FS_RemoveElement DEF IInv
<1>6. Kin'
  <2>. SUFFICES ASSUME NEW s \in Busy', NEW n \in Notes,
                       session'[s].seen.rows[n] # Absent, rows'[n] # Absent
       PROVE  rows'[n].kind = session'[s].seen.rows[n].kind
              /\ rows'[n].author = session'[s].seen.rows[n].author
    BY DEF Kin, SameKind, Now
  <2>1. s \in Busy /\ s # r /\ session'[s] = session[s]
    BY <1>2
  <2>2. ~(Creates(q) /\ n = q.note)
    BY <2>1 DEF IInv, Reserved
  <2>3. rows[n] # Absent /\ rows'[n].kind = rows[n].kind /\ rows'[n].author = rows[n].author
    BY <1>3, <2>2
  <2>4. QED
    BY <2>1, <2>3 DEF IInv, Kin, SameKind, Now
<1>7. Reserved'
  <2>. SUFFICES ASSUME NEW s \in Busy', Creates(session'[s].req)
       PROVE  /\ rows'[session'[s].req.note] = Absent
              /\ \A t \in Busy' :
                    /\ session'[t].seen.rows[session'[s].req.note] = Absent
                    /\ t # s /\ Creates(session'[t].req) =>
                          session'[t].req.note # session'[s].req.note
    BY DEF Reserved, Creates, Suggests
  <2>1. s \in Busy /\ s # r /\ session'[s] = session[s]
    BY <1>2
  <2>2. session[s] \in [pc : {"loaded"}, req : Request, seen : Book]
    <3>1. s \in Requests /\ session[s] # Idle
      BY <2>1 DEF Busy
    <3>2. QED
      BY <3>1 DEF IInv, TypeOK
  <2>3. session[s].req.note \in Notes
    <3>1. Carries(session[s].req)
      BY <2>2, RequestFields
    <3>2. QED
      BY <2>1, <3>1 DEF Carries, Creates
  <2>4. rows'[session[s].req.note] = Absent
    <3>1. rows[session[s].req.note] = Absent
          /\ (Creates(q) => q.note # session[s].req.note)
      BY <2>1 DEF IInv, Reserved
    <3>2. QED
      BY <1>3, <2>3, <3>1
  <2>5. QED
    BY <1>2, <2>1, <2>4 DEF IInv, Reserved
<1>8. SoloStand'
  <2>1. scenario' = scenario
    BY DEF Ending
  <2>2. Solo => Busy' = {}
    BY <1>2 DEF IInv, SoloStand
  <2>3. QED
    BY <2>1, <2>2 DEF SoloStand, Solo, Alone
<1>9. Pointed(Now)'
  BY <1>3 DEF Pointed, PointedRow, Now
<1>10. (\A s \in Busy : Pointed(session[s].seen) /\ Checked(session[s].seen, session[s].req))'
  <2>1. scenario' = scenario
    BY DEF Ending
  <2>2. \A s \in Busy' : session'[s] = session[s] /\ Pointed(session[s].seen)
                            /\ Checked(session[s].seen, session[s].req)
    BY <1>2 DEF IInv
  <2>3. QED
    BY <2>1, <2>2 DEF Pointed, Checked, Creates, Suggests, Guard, Present, AgentMayWrite
<1>11. QED
  BY <1>4, <1>5, <1>6, <1>7, <1>8, <1>9, <1>10 DEF IInv

-------------------------------------------------------------------------------
(* The steps.                                                                *)

\* The requests under way are typed.
LEMMA BusyTyped ==
    ASSUME IInv, NEW r \in Busy
    PROVE  /\ r \in Requests /\ session[r].seen \in Book /\ session[r].req \in Request
           /\ Carries(session[r].req)
           /\ Creates(session[r].req) => /\ "note" \in DOMAIN session[r].req
                                         /\ session[r].req.note \in Notes
<1>1. r \in Requests /\ session[r] # Idle
  BY DEF Busy
<1>2. session[r] \in [pc : {"loaded"}, req : Request, seen : Book]
  BY <1>1 DEF IInv, TypeOK
<1>3. session[r].seen \in Book /\ session[r].req \in Request
  BY <1>2
<1>4. Carries(session[r].req) /\ (Creates(session[r].req) => "note" \in DOMAIN session[r].req)
  BY <1>3, RequestFields
<1>5. Creates(session[r].req) => session[r].req.note \in Notes
  BY <1>4 DEF Carries, Creates
<1>6. QED
  BY <1>1, <1>3, <1>4, <1>5

\* A request that must be the only one starts when none is under way.
LEMMA LoadsAlone ==
    ASSUME IInv, NEW r \in Requests, NEW q \in Request, Load(r, q), Solo
    PROVE  Busy = {}
<1>1. CASE Memory
  BY <1>1 DEF Load, Busy
<1>2. CASE Alone
  <2>1. Cardinality(Busy) < 1
    BY <1>2 DEF Load, Busy, Alone
  <2>2. IsFiniteSet(Busy)
    BY DEF IInv
  <2>3. Cardinality(Busy) \in Nat /\ (Cardinality(Busy) = 0 <=> Busy = {})
    BY <2>2, FS_CardinalityType, FS_EmptySet
  <2>4. QED
    BY <2>1, <2>3
<1>3. QED
  BY <1>1, <1>2 DEF Solo

LEMMA LoadKeeps ==
    ASSUME IInv, NEW r \in Requests, NEW q \in Request, Load(r, q)
    PROVE  IInv'
<1>. DEFINE loaded == [pc |-> "loaded", req |-> q, seen |-> Now]
<1>1. /\ session' = [session EXCEPT ![r] = loaded]
      /\ UNCHANGED <<rows, status, taken, scenario>>
      /\ answer' = [s \in Requests |-> "none"]
      /\ session[r] = Idle /\ Admits(Now, q) /\ q.op \in scenario.ops
  BY DEF Load, Now
<1>2. loaded # Idle /\ loaded \in [pc : {"loaded"}, req : Request, seen : Book]
      /\ loaded.req = q /\ loaded.seen = Now
  <2>1. Now \in Book
    BY DEF Now, Book, IInv, TypeOK
  <2>2. QED
    BY <2>1 DEF Idle
<1>. HIDE DEF loaded
<1>3. /\ r \notin Busy /\ Busy' = Busy \cup {r} /\ session'[r] = loaded
      /\ \A s \in Busy : session'[s] = session[s]
  BY <1>1, <1>2 DEF Busy, IInv, TypeOK
<1>4. Carries(q) /\ (Creates(q) => Fresh(q.note) /\ "note" \in DOMAIN q /\ q.note \in Notes)
  <2>1. Carries(q) /\ (Creates(q) => "note" \in DOMAIN q)
    BY RequestFields
  <2>2. Creates(q) => Fresh(q.note)
    BY <1>1 DEF Admits, Creates
  <2>3. Creates(q) => q.note \in Notes
    BY <2>1 DEF Carries, Creates
  <2>4. QED
    BY <2>1, <2>2, <2>3
<1>5. TypeOK'
  BY <1>1, <1>2 DEF IInv, TypeOK
<1>6. IsFiniteSet(Busy)'
  BY <1>3, FS_AddElement DEF IInv
<1>7. Kin'
  <2>1. Now' = Now
    BY <1>1 DEF Now
  <2>2. SameKind(Now, Now)
    BY DEF SameKind
  <2>3. \A s \in Busy' : SameKind(session'[s].seen, Now)
    BY <1>2, <1>3, <2>2 DEF IInv, Kin
  <2>4. QED
    BY <2>1, <2>3 DEF Kin, SameKind
<1>8. Reserved'
  <2>. SUFFICES ASSUME NEW s \in Busy', Creates(session'[s].req)
       PROVE  /\ rows'[session'[s].req.note] = Absent
              /\ \A t \in Busy' :
                    /\ session'[t].seen.rows[session'[s].req.note] = Absent
                    /\ t # s /\ Creates(session'[t].req) =>
                          session'[t].req.note # session'[s].req.note
    BY DEF Reserved, Creates, Suggests
  <2>1. CASE s = r
    <3>1. session'[s].req = q /\ Fresh(q.note)
      BY <1>2, <1>3, <1>4, <2>1
    <3>2. rows[q.note] = Absent
      BY <3>1 DEF Fresh
    <3>3. ASSUME NEW t \in Busy'
          PROVE  /\ session'[t].seen.rows[q.note] = Absent
                 /\ t # s /\ Creates(session'[t].req) => session'[t].req.note # q.note
      <4>1. CASE t = r
        BY <1>2, <1>3, <2>1, <3>2, <4>1 DEF Now
      <4>2. CASE t # r
        <5>1. t \in Busy /\ session'[t] = session[t]
          BY <1>3, <4>2
        <5>2. t \in Requests /\ session[t] # Idle
          BY <5>1 DEF Busy
        <5>3. Creates(session[t].req) => "note" \in DOMAIN session[t].req
          BY <5>1, BusyTyped
        <5>4. QED
          BY <3>1, <5>1, <5>2, <5>3 DEF Fresh
      <4>3. QED
        BY <4>1, <4>2
    <3>4. QED
      BY <1>1, <3>1, <3>2, <3>3
  <2>2. CASE s # r
    <3>1. s \in Busy /\ session'[s] = session[s]
      BY <1>3, <2>2
    <3>2. /\ rows[session[s].req.note] = Absent
          /\ \A t \in Busy :
                /\ session[t].seen.rows[session[s].req.note] = Absent
                /\ t # s /\ Creates(session[t].req) => session[t].req.note # session[s].req.note
      BY <3>1 DEF IInv, Reserved
    <3>3. Creates(q) => q.note # session[s].req.note
      <4>1. s \in Requests /\ session[s] # Idle
        BY <3>1 DEF Busy
      <4>2. "note" \in DOMAIN session[s].req
        BY <3>1, BusyTyped
      <4>3. QED
        BY <1>4, <4>1, <4>2 DEF Fresh
    <3>4. Now.rows[session[s].req.note] = Absent
      BY <3>2 DEF Now
    <3>5. QED
      BY <1>1, <1>2, <1>3, <3>1, <3>2, <3>3, <3>4
  <2>3. QED
    BY <2>1, <2>2
<1>9. SoloStand'
  <2>1. Now' = Now /\ scenario' = scenario
    BY <1>1 DEF Now
  <2>2. Solo => Busy' = {r}
    BY <1>3, LoadsAlone
  <2>3. Unnamed(Now, q)
    BY <1>4 DEF Unnamed, Fresh, Now
  <2>4. Solo => \A s \in Busy' : session'[s].seen = Now /\ \A t \in Busy' : t = s
    BY <1>2, <1>3, <2>2
  <2>5. Alone => \A s \in Busy' : Unnamed(Now, session'[s].req)
    BY <1>2, <1>3, <2>2, <2>3 DEF Solo
  <2>6. QED
    BY <2>1, <2>4, <2>5 DEF SoloStand, Solo, Alone, Unnamed, Creates, Suggests
<1>10. Pointed(Now)'
  BY <1>1 DEF IInv, Now, Pointed
<1>11. (\A s \in Busy : Pointed(session[s].seen) /\ Checked(session[s].seen, session[s].req))'
  <2>1. Checked(Now, q)
    BY <1>1 DEF Admits, Checked, Creates, Fresh, Now
  <2>2. scenario' = scenario
    BY <1>1
  <2>3. \A s \in Busy' : Pointed(session'[s].seen) /\ Checked(session'[s].seen, session'[s].req)
    BY <1>2, <1>3, <2>1 DEF IInv
  <2>4. QED
    BY <2>2, <2>3 DEF Pointed, Checked, Creates, Suggests, Guard, Present, AgentMayWrite
<1>12. QED
  BY <1>5, <1>6, <1>7, <1>8, <1>9, <1>10, <1>11 DEF IInv

\* The process that served a request is lost.
LEMMA AbandonKeeps ==
    ASSUME IInv, NEW r \in Requests, Abandon(r)
    PROVE  IInv'
<1>. DEFINE b == session[r].seen
            q == session[r].req
<1>1. r \in Busy
  BY DEF Abandon, Busy
<1>2. b \in Book /\ Pointed(b)
  BY <1>1, BusyTyped DEF IInv
<1>3. Proper(b, q, b)
  BY <1>2, SameProper
<1>4. ~Conflict(b, b)
  BY DEF Conflict
<1>5. Ending(r, b)
  <2>1. rows \in [Notes -> Annotation]
    BY DEF IInv, TypeOK
  <2>2. \A n \in Notes : MergeRow(rows[n], b.rows[n], b.rows[n]) = rows[n]
    BY <2>1, MergeNothing
  <2>3. rows' = [n \in Notes |-> MergeRow(rows[n], b.rows[n], b.rows[n])]
    BY <2>1, <2>2 DEF Abandon
  <2>4. status' = Column(b.status, b.status, status)
    BY DEF Column, Abandon
  <2>5. answer' \in [Requests -> {"none", "ok", "failed"}] /\ taken' \in [Notes -> 0 .. 2]
    BY DEF Abandon, Close, IInv, TypeOK
  <2>6. QED
    BY <2>3, <2>4, <2>5 DEF Ending, Abandon, Close
<1>6. QED
  BY <1>1, <1>3, <1>4, <1>5, EndKeeps

\* What a handler comes to is its result, or what a failed one leaves.
Ended(r, w) ==
    /\ Proper(session[r].seen, session[r].req, w) /\ ~Conflict(session[r].seen, w)
    /\ Ending(r, w)
    /\ answer'[r] = "failed" /\ ~Memory => w = session[r].seen

Outcome(r, res, w) ==
    /\ Ended(r, w) /\ w \in {res.book, session[r].seen}
    /\ res.ok => w = res.book
    /\ ~res.ok /\ ~Memory => w = session[r].seen

LEMMA FinishEnds ==
    ASSUME IInv, NEW r \in Busy, NEW result,
           Proper(session[r].seen, session[r].req, result.book), Finish(r, result)
    PROVE  \E w : Outcome(r, result, w)
<1>. DEFINE b == session[r].seen
<1>1. r \in Requests /\ b \in Book /\ Pointed(b) /\ r \in DOMAIN answer
      /\ answer \in [Requests -> {"none", "ok", "failed"}] /\ taken \in [Notes -> 0 .. 2]
  BY BusyTyped DEF IInv, TypeOK
<1>2. CASE result.ok
  <2>1. Commit(r, result.book) /\ UNCHANGED <<taken, scenario>>
    BY <1>2 DEF Finish
  <2>2. answer'[r] = "ok" /\ answer' \in [Requests -> {"none", "ok", "failed"}]
    BY <1>1, <2>1 DEF Commit, Close
  <2>3. Ended(r, result.book)
    BY <1>1, <2>1, <2>2 DEF Ended, Ending, Commit, Close
  <2>4. QED
    BY <1>2, <2>3 DEF Outcome
<1>3. CASE ~result.ok
  <2>1. PICK left : left = Leftover(b, result.book)
    OBVIOUS
  <2>2. /\ rows' = [n \in Notes |-> MergeRow(rows[n], b.rows[n], left.rows[n])]
        /\ status' = Column(left.status, b.status, status)
        /\ Close(r, "failed") /\ UNCHANGED <<taken, scenario>>
    BY <1>3, <2>1 DEF Finish
  <2>3. left = IF Memory THEN result.book ELSE b
    BY <2>1 DEF Leftover
  <2>4. Proper(b, session[r].req, left)
    BY <1>1, <2>3, SameProper
  <2>5. ~Conflict(b, left)
    <3>1. CASE Memory
      <4>1. b.rows = rows
        BY <3>1 DEF IInv, SoloStand, Solo, Now
      <4>2. QED
        BY <4>1 DEF Conflict
    <3>2. CASE ~Memory
      BY <2>3, <3>2 DEF Conflict
    <3>3. QED
      BY <3>1, <3>2
  <2>6. answer' \in [Requests -> {"none", "ok", "failed"}]
    BY <1>1, <2>2 DEF Close
  <2>7. Ended(r, left)
    BY <1>1, <2>2, <2>3, <2>4, <2>5, <2>6 DEF Ended, Ending, Close
  <2>8. QED
    BY <1>3, <2>3, <2>7 DEF Outcome
<1>4. QED
  BY <1>2, <1>3

\* What the handler of a request makes of the book it read.
IsResult(b, q, res) ==
    \/ q.op = "create" /\ res = Create(b, q)
    \/ q.op = "edit" /\ res = Done(Edit(b, q))
    \/ q.op = "remove" /\ res = Done([b EXCEPT !.rows[q.note] = Absent])
    \/ q.op = "judge" /\ res = ApplyStatus(b, q.note, q.to)
    \/ q.op = "judge_many" /\ res = JudgeMany(b, q.notes, q.to)
    \/ q.op = "reopen" /\ res = Done([b EXCEPT !.rows[q.note].status = "suggested"])
    \/ q.op = "move" /\ res = Move(b, q)
    \/ /\ q.op = "decide"
       /\ \E closes \in BOOLEAN :
             res = Done([Marked(b, q.note, "confirmed")
                           EXCEPT !.status = IF closes THEN "closed" ELSE @])
    \/ q.op = "reopen_case" /\ res = Done([b EXCEPT !.status = "analysis"])

LEMMA ResultProper ==
    ASSUME NEW b \in Book, Pointed(b), NEW q, Carries(q), Checked(b, q),
           NEW res, IsResult(b, q, res)
    PROVE  Proper(b, q, res.book)
<1>1. CASE q.op = "create" /\ res = Create(b, q)
  BY <1>1, CreateProper
<1>2. CASE q.op = "edit" /\ res = Done(Edit(b, q))
  BY <1>2, EditProper DEF Done
<1>3. CASE q.op = "remove" /\ res = Done([b EXCEPT !.rows[q.note] = Absent])
  BY <1>3, RemoveProper DEF Done
<1>4. CASE q.op = "judge" /\ res = ApplyStatus(b, q.note, q.to)
  BY <1>4, JudgeProper
<1>5. CASE q.op = "judge_many" /\ res = JudgeMany(b, q.notes, q.to)
  BY <1>5, JudgeManyProper
<1>6. CASE q.op = "reopen" /\ res = Done([b EXCEPT !.rows[q.note].status = "suggested"])
  BY <1>6, ReopenProper DEF Done
<1>7. CASE q.op = "move" /\ res = Move(b, q)
  BY <1>7, MoveProper
<1>8. CASE /\ q.op = "decide"
           /\ \E closes \in BOOLEAN :
                 res = Done([Marked(b, q.note, "confirmed")
                               EXCEPT !.status = IF closes THEN "closed" ELSE @])
  <2>1. PICK closes \in BOOLEAN :
            res = Done([Marked(b, q.note, "confirmed")
                          EXCEPT !.status = IF closes THEN "closed" ELSE @])
    BY <1>8
  <2>2. PICK w : w = [Marked(b, q.note, "confirmed") EXCEPT !.status = IF closes THEN "closed" ELSE @]
    OBVIOUS
  <2>3. Proper(b, q, w)
    BY <1>8, <2>2, DecideProper
  <2>4. QED
    BY <2>1, <2>2, <2>3 DEF Done
<1>9. CASE q.op = "reopen_case" /\ res = Done([b EXCEPT !.status = "analysis"])
  BY <1>9, ReopenCaseProper DEF Done
<1>10. QED
  BY <1>1, <1>2, <1>3, <1>4, <1>5, <1>6, <1>7, <1>8, <1>9 DEF IsResult

Handles(r) ==
    \/ CreateAnnotation(r) \/ UpdateAnnotation(r) \/ DeleteAnnotation(r)
    \/ SetStatus(r) \/ SetStatusMany(r) \/ Reopen(r)
    \/ UpdateInvestigation(r) \/ RecordDecision(r) \/ ReopenInvestigation(r)

\* The commit of record_decision, which counts the proposal it names.
LEMMA DecisionEnds ==
    ASSUME IInv, NEW r \in Busy, RecordDecision(r)
    PROVE  \E res, w : IsResult(session[r].seen, session[r].req, res) /\ Outcome(r, res, w)
<1>. DEFINE b == session[r].seen
            q == session[r].req
<1>1. /\ r \in Requests /\ b \in Book /\ Pointed(b) /\ Carries(q) /\ Checked(b, q)
      /\ answer \in [Requests -> {"none", "ok", "failed"}] /\ taken \in [Notes -> 0 .. 2]
      /\ q.op = "decide"
  BY BusyTyped DEF IInv, TypeOK, RecordDecision, Running
<1>2. q.note \in Notes
  BY <1>1 DEF Carries
<1>3. PICK closes \in BOOLEAN :
          /\ taken[q.note] < 2
          /\ Commit(r, [Marked(b, q.note, "confirmed")
                          EXCEPT !.status = IF closes THEN "closed" ELSE @])
          /\ taken' = [taken EXCEPT ![q.note] = @ + 1]
          /\ scenario' = scenario
  BY DEF RecordDecision
<1>4. PICK w : w = [Marked(b, q.note, "confirmed") EXCEPT !.status = IF closes THEN "closed" ELSE @]
  OBVIOUS
<1>5. Proper(b, q, w)
  BY <1>1, <1>4, DecideProper
<1>6. taken' \in [Notes -> 0 .. 2]
  <2>1. taken[q.note] \in 0 .. 2 /\ taken[q.note] < 2
    BY <1>1, <1>2, <1>3
  <2>2. taken[q.note] + 1 \in 0 .. 2
    BY <2>1
  <2>3. QED
    BY <1>1, <1>3, <2>2
<1>7. Commit(r, w)
  BY <1>3, <1>4
<1>8. answer'[r] = "ok" /\ answer' \in [Requests -> {"none", "ok", "failed"}]
  BY <1>1, <1>7 DEF Commit, Close
<1>9. Ended(r, w)
  BY <1>3, <1>5, <1>6, <1>7, <1>8 DEF Ended, Ending, Commit, Close
<1>10. IsResult(b, q, Done(w))
  BY <1>1, <1>4 DEF IsResult
<1>11. Done(w).ok /\ Done(w).book = w
  BY DEF Done
<1>12. QED
  BY <1>9, <1>10, <1>11 DEF Outcome

LEMMA HandledEnds ==
    ASSUME IInv, NEW r \in Requests, Handles(r)
    PROVE  /\ r \in Busy
           /\ \E res, w : IsResult(session[r].seen, session[r].req, res) /\ Outcome(r, res, w)
<1>. DEFINE b == session[r].seen
            q == session[r].req
<1>1. r \in Busy
  BY DEF Handles, Busy, CreateAnnotation, UpdateAnnotation, DeleteAnnotation, SetStatus,
         SetStatusMany, Reopen, UpdateInvestigation, RecordDecision, ReopenInvestigation, Running
<1>2. b \in Book /\ Pointed(b) /\ Carries(q) /\ Checked(b, q)
  BY <1>1, BusyTyped DEF IInv
<1>3. ASSUME NEW res, IsResult(b, q, res), Finish(r, res)
      PROVE  \E w : Outcome(r, res, w)
  <2>1. Proper(b, q, res.book)
    BY <1>2, <1>3, ResultProper
  <2>2. QED
    BY <1>1, <1>3, <2>1, FinishEnds
<1>4. RecordDecision(r) \/ \E res : IsResult(b, q, res) /\ Finish(r, res)
  <2>1. CASE CreateAnnotation(r)
    BY <2>1 DEF CreateAnnotation, Running, IsResult
  <2>2. CASE UpdateAnnotation(r)
    BY <2>2 DEF UpdateAnnotation, Running, IsResult
  <2>3. CASE DeleteAnnotation(r)
    BY <2>3 DEF DeleteAnnotation, Running, IsResult
  <2>4. CASE SetStatus(r)
    BY <2>4 DEF SetStatus, Running, IsResult
  <2>5. CASE SetStatusMany(r)
    BY <2>5 DEF SetStatusMany, Running, IsResult
  <2>6. CASE Reopen(r)
    BY <2>6 DEF Reopen, Running, IsResult
  <2>7. CASE UpdateInvestigation(r)
    BY <2>7 DEF UpdateInvestigation, Running, IsResult
  <2>8. CASE ReopenInvestigation(r)
    BY <2>8 DEF ReopenInvestigation, Running, IsResult
  <2>9. QED
    BY <2>1, <2>2, <2>3, <2>4, <2>5, <2>6, <2>7, <2>8 DEF Handles
<1>5. CASE RecordDecision(r)
  BY <1>1, <1>5, DecisionEnds
<1>6. CASE \E res : IsResult(b, q, res) /\ Finish(r, res)
  <2>1. PICK res : IsResult(b, q, res) /\ Finish(r, res)
    BY <1>6
  <2>2. \E w : Outcome(r, res, w)
    BY <1>3, <2>1
  <2>3. QED
    BY <1>1, <2>1, <2>2
<1>7. QED
  BY <1>1, <1>4, <1>5, <1>6

LEMMA InitHolds == Init => IInv
<1>. SUFFICES ASSUME Init PROVE IInv
  OBVIOUS
<1>1. TypeOK
  BY DEF Init, TypeOK, Annotation, CaseStatuses
<1>2. Busy = {}
  BY DEF Init, Busy
<1>3. Pointed(Now)
  <2>1. Absent.kind # "hypothesis_status"
    BY DEF Absent
  <2>2. QED
    BY <2>1 DEF Init, Now, Pointed
<1>4. IsFiniteSet(Busy)
  BY <1>2, FS_EmptySet
<1>5. QED
  BY <1>1, <1>2, <1>3, <1>4 DEF IInv, Kin, Reserved, SoloStand

LEMMA NextIs ==
    ASSUME Next
    PROVE  \E r \in Requests : (\E q \in Request : Load(r, q)) \/ Handles(r) \/ Abandon(r)
  BY DEF Next, Handles

LEMMA StepKeeps == IInv /\ [Next]_vars => IInv'
<1>. SUFFICES ASSUME IInv, [Next]_vars PROVE IInv'
  OBVIOUS
<1>1. CASE Next
  <2>1. PICK r \in Requests : (\E q \in Request : Load(r, q)) \/ Handles(r) \/ Abandon(r)
    BY <1>1, NextIs
  <2>2. CASE \E q \in Request : Load(r, q)
    BY <2>2, LoadKeeps
  <2>3. CASE Handles(r)
    <3>1. r \in Busy /\ \E w : Ended(r, w)
      BY <2>3, HandledEnds DEF Outcome
    <3>2. PICK w : Ended(r, w)
      BY <3>1
    <3>3. QED
      BY <3>1, <3>2, EndKeeps DEF Ended
  <2>4. CASE Abandon(r)
    BY <2>4, AbandonKeeps
  <2>5. QED
    BY <2>1, <2>2, <2>3, <2>4
<1>2. CASE UNCHANGED vars
  BY <1>2 DEF vars, IInv, TypeOK, Busy, Kin, SameKind, Now, Reserved, SoloStand, Solo, Alone,
              Pointed, Checked, Creates, Suggests, Guard, Present, AgentMayWrite, Unnamed
<1>3. QED
  BY <1>1, <1>2

LEMMA Always == Spec => []IInv
<1>1. IInv /\ [Next]_vars => IInv'
  BY StepKeeps
<1>2. QED
  BY InitHolds, <1>1, PTL DEF Spec

-------------------------------------------------------------------------------
(* What the service promises.                                                *)

\* The rows, the case and what the requests loaded are what they should be: above
\* all, what several requests write over each other is still an annotation, with
\* the columns of its kind.
THEOREM TypeCorrect == Spec => []TypeOK
<1>1. IInv => TypeOK
  BY DEF IInv
<1>2. QED
  BY <1>1, Always, PTL

\* The steps that write rows are a handler's; what it confirms that was not confirmed
\* is on its own copy.
LEMMA EndConfirms ==
    ASSUME IInv, NEW r \in Busy, NEW w, Ended(r, w), NEW n \in Notes,
           rows[n] = Absent \/ rows[n].status # "confirmed",
           rows'[n] # Absent, rows'[n].status = "confirmed"
    PROVE  LET old == session[r].seen.rows[n]
               new == w.rows[n]
           IN /\ new # Absent /\ new.kind = rows'[n].kind /\ new.status = "confirmed"
              /\ old = Absent \/ old.status # "confirmed"
<1>1. session[r].seen \in Book /\ rows \in [Notes -> Annotation] /\ w \in Book
  BY BusyTyped DEF IInv, TypeOK, Ended, Proper
<1>2. PICK cur : cur = rows[n]
  OBVIOUS
<1>3. PICK old : old = session[r].seen.rows[n]
  OBVIOUS
<1>4. PICK new : new = w.rows[n]
  OBVIOUS
<1>5. PICK row : row = MergeRow(cur, old, new)
  OBVIOUS
<1>6. cur \in Annotation /\ old \in Annotation /\ new \in Annotation
  BY <1>1, <1>2, <1>3, <1>4 DEF Book
<1>7. /\ cur # Absent /\ old # Absent => cur.kind = old.kind
      /\ old # Absent /\ new # Absent => new.kind = old.kind
      /\ old # Absent /\ new # Absent /\ new # old => cur # Absent
  BY <1>2, <1>3, <1>4 DEF IInv, Kin, SameKind, Now, Ended, Proper, Conflict
<1>8. PointedRow(cur) /\ PointedRow(old) /\ PointedRow(new)
  BY <1>2, <1>3, <1>4 DEF IInv, Ended, Proper, Pointed, PointedRow, Now
<1>9. row # Absent /\ row.status = "confirmed" /\ (cur = Absent \/ cur.status # "confirmed") =>
          /\ new # Absent /\ new.kind = row.kind /\ new.status = "confirmed"
          /\ old = Absent \/ old.status # "confirmed"
  BY <1>5, <1>6, <1>7, <1>8, MergeIs
<1>10. rows'[n] = row
  BY <1>2, <1>3, <1>4, <1>5 DEF Ended, Ending
<1>11. QED
  BY <1>2, <1>3, <1>4, <1>9, <1>10

\* An agent's annotation of a suggest kind is confirmed by a person, never by an
\* agent, however requests overlap and whatever the store (write_status, forbid_agents).
THEOREM PeopleConfirm == Spec => ConfirmedByPerson
<1>1. IInv /\ [Next]_vars =>
        [\A n \in Notes :
           (rows[n] = Absent \/ rows[n].status # "confirmed")
           /\ rows'[n] # Absent /\ rows'[n].status = "confirmed"
           /\ rows'[n].author = "agent" /\ rows'[n].kind \in SuggestKinds
           => ByPerson]_vars
  <2>. SUFFICES ASSUME IInv, Next, NEW n \in Notes,
                       rows[n] = Absent \/ rows[n].status # "confirmed",
                       rows'[n] # Absent, rows'[n].status = "confirmed",
                       rows'[n].kind \in SuggestKinds
       PROVE  ByPerson
    OBVIOUS
  <2>1. PICK r \in Requests : (\E q \in Request : Load(r, q)) \/ Handles(r) \/ Abandon(r)
    BY NextIs
  <2>2. CASE (\E q \in Request : Load(r, q)) \/ Abandon(r)
    BY <2>2 DEF Load, Abandon
  <2>3. CASE Handles(r)
    <3>1. r \in Busy /\ \E w : Ended(r, w)
      BY <2>3, HandledEnds DEF Outcome
    <3>2. PICK w : Ended(r, w)
      BY <3>1
    <3>3. /\ w.rows[n] # Absent /\ w.rows[n].kind \in SuggestKinds /\ w.rows[n].status = "confirmed"
          /\ \/ session[r].seen.rows[n] = Absent
             \/ session[r].seen.rows[n].status # "confirmed"
      BY <3>1, <3>2, EndConfirms
    <3>4. session[r].req.by # "agent"
      BY <3>2, <3>3 DEF Ended, Proper
    <3>5. session[r].req.by = "human"
      BY <3>1, <3>4, BusyTyped DEF Carries, Authors
    <3>6. session'[r] = Idle /\ session[r] # Idle
      BY <3>1, <3>2 DEF Ended, Ending, Busy, IInv, TypeOK
    <3>7. QED
      BY <3>5, <3>6 DEF ByPerson, Ends
  <2>4. QED
    BY <2>1, <2>2, <2>3
<1>2. QED
  BY <1>1, Always, PTL DEF Spec, ConfirmedByPerson

\* With a database, a request that is refused changes nothing: several suggestions
\* are applied together or not at all (set_status_many).
THEOREM RefusalsChangeNothing == ASSUME ~Memory PROVE Spec => FailedChangesNothing
<1>1. IInv /\ [Next]_vars =>
        [\A r \in Requests : Ends(r) /\ answer'[r] = "failed" => UNCHANGED <<rows, status>>]_vars
  <2>. SUFFICES ASSUME IInv, Next, NEW r \in Requests, Ends(r), answer'[r] = "failed"
       PROVE  UNCHANGED <<rows, status>>
    OBVIOUS
  <2>1. PICK s \in Requests : (\E q \in Request : Load(s, q)) \/ Handles(s) \/ Abandon(s)
    BY NextIs
  <2>2. CASE (\E q \in Request : Load(s, q)) \/ Abandon(s)
    BY <2>2 DEF Load, Abandon
  <2>3. CASE Handles(s)
    <3>1. s \in Busy /\ \E w : Ended(s, w)
      BY <2>3, HandledEnds DEF Outcome
    <3>2. PICK w : Ended(s, w)
      BY <3>1
    <3>3. r = s
      BY <3>2 DEF Ended, Ending, Ends, IInv, TypeOK
    <3>4. w = session[s].seen
      BY <3>2, <3>3 DEF Ended
    <3>5. rows' = [n \in Notes |-> MergeRow(rows[n], w.rows[n], w.rows[n])]
          /\ status' = Column(w.status, w.status, status)
      BY <3>2, <3>4 DEF Ended, Ending
    <3>6. rows \in [Notes -> Annotation]
      BY DEF IInv, TypeOK
    <3>7. \A n \in Notes : MergeRow(rows[n], w.rows[n], w.rows[n]) = rows[n]
      BY <3>6, MergeNothing
    <3>8. QED
      BY <3>5, <3>6, <3>7 DEF Column
  <2>4. QED
    BY <2>1, <2>2, <2>3
<1>2. QED
  BY <1>1, Always, PTL DEF Spec, FailedChangesNothing

\* However requests overlap, nothing is confirmed but by the person who confirms it,
\* and what is refused leaves no trace in the database.
THEOREM OnlySuccessCounts == ASSUME ~Memory PROVE Spec => OnlyWhatSucceeds
  BY PeopleConfirm, RefusalsChangeNothing DEF OnlyWhatSucceeds

-------------------------------------------------------------------------------
(* What stands confirmed, as long as requests do not overlap.                *)

LEMMA NoRow ==
    /\ Absent.kind # "role" /\ Absent.kind # "hypothesis_status" /\ Absent.kind # "status_change"
    /\ Absent.kind # "hypothesis"
  BY DEF Absent

\* Rows that go leave the rest standing.
LEMMA RemovalStands ==
    ASSUME NEW b \in Book, Pointed(b), Stands(b), NEW w,
           \A n \in Notes : w.rows[n] \in {b.rows[n], Absent}
    PROVE  Stands(w)
<1>1. OneRoleIn(w)
  <2>. SUFFICES ASSUME NEW m \in Notes, NEW n \in Notes, m # n,
                       w.rows[m].kind = "role", w.rows[n].kind = "role",
                       w.rows[m].status = "confirmed", w.rows[n].status = "confirmed",
                       w.rows[m].target = w.rows[n].target
       PROVE  RolesMulti /\ w.rows[m].value.word # w.rows[n].value.word
    BY DEF OneRoleIn
  <2>1. w.rows[m] = b.rows[m] /\ w.rows[n] = b.rows[n]
    BY NoRow
  <2>2. QED
    BY <2>1 DEF Stands, OneRoleIn
<1>2. ASSUME NEW n \in Notes
      PROVE  SeenIn(w, n) /\ ProposedIn(w, n) /\ TargetIn(w, n)
  <2>1. SeenIn(b, n) /\ ProposedIn(b, n) /\ TargetIn(b, n)
    BY DEF Stands
  <2>2. CASE w.rows[n] = Absent
    BY <2>2, NoRow DEF SeenIn, ProposedIn, TargetIn
  <2>3. CASE w.rows[n] = b.rows[n]
    BY <2>1, <2>3 DEF SeenIn, ProposedIn, TargetIn, Pointed
  <2>4. QED
    BY <2>2, <2>3
<1>3. QED
  BY <1>1, <1>2 DEF Stands

\* One row is written: a new one or one of its kind.
Written1(b, n, row) ==
    /\ row \in Live
    /\ \/ b.rows[n] # Absent /\ row.kind = b.rows[n].kind
       \/ b.rows[n] = Absent /\ \A m \in Notes : b.rows[m] # Absent => b.rows[m].target # n
    /\ row.kind = "role" /\ row.status = "confirmed" =>
          \A m \in Notes :
             m # n /\ b.rows[m].kind = "role" /\ b.rows[m].status = "confirmed"
                   /\ b.rows[m].target = row.target =>
                RolesMulti /\ b.rows[m].value.word # row.value.word
    /\ row.author = "agent" /\ row.kind \in SuggestKinds /\ row.kind # "task"
           /\ row.status = "confirmed" => row.value = row.vouched
    /\ row.status # "confirmed" => row.kind \in SuggestKinds \cup {"decision_proposal"}
    /\ row.kind = "hypothesis_status" =>
          /\ row.target \in Notes
          /\ \/ b.rows[row.target] = Absent /\ row.target # n
             \/ b.rows[row.target].kind = "hypothesis"
    /\ row.kind = "status_change" => row.target = Nothing

LEMMA RowStands ==
    ASSUME NEW b \in Book, Pointed(b), Stands(b), NEW n \in Notes, NEW row, Written1(b, n, row),
           NEW w, \A m \in Notes : w.rows[m] = IF m = n THEN row ELSE b.rows[m]
    PROVE  Stands(w)
<1>1. OneRoleIn(w)
  <2>. SUFFICES ASSUME NEW i \in Notes, NEW j \in Notes, i # j,
                       w.rows[i].kind = "role", w.rows[j].kind = "role",
                       w.rows[i].status = "confirmed", w.rows[j].status = "confirmed",
                       w.rows[i].target = w.rows[j].target
       PROVE  RolesMulti /\ w.rows[i].value.word # w.rows[j].value.word
    BY DEF OneRoleIn
  <2>1. CASE i # n /\ j # n
    BY <2>1 DEF Stands, OneRoleIn
  <2>2. CASE i = n
    <3>1. w.rows[i] = row /\ w.rows[j] = b.rows[j]
      BY <2>2
    <3>2. QED
      BY <2>2, <3>1 DEF Written1
  <2>3. CASE j = n
    <3>1. w.rows[j] = row /\ w.rows[i] = b.rows[i]
      BY <2>3
    <3>2. QED
      BY <2>3, <3>1 DEF Written1
  <2>4. QED
    BY <2>1, <2>2, <2>3
<1>2. ASSUME NEW m \in Notes
      PROVE  SeenIn(w, m) /\ ProposedIn(w, m) /\ TargetIn(w, m)
  <2>1. CASE m = n
    <3>1. w.rows[m] = row
      BY <2>1
    <3>2. SeenIn(w, m) /\ ProposedIn(w, m)
      BY <3>1 DEF SeenIn, ProposedIn, Written1
    <3>3. row.kind = "hypothesis_status" =>
              w.rows[row.target] = Absent \/ w.rows[row.target].kind = "hypothesis"
      <4>. SUFFICES ASSUME row.kind = "hypothesis_status"
           PROVE  w.rows[row.target] = Absent \/ w.rows[row.target].kind = "hypothesis"
        OBVIOUS
      <4>1. /\ row.target \in Notes
            /\ \/ b.rows[row.target] = Absent /\ row.target # n
               \/ b.rows[row.target].kind = "hypothesis"
        BY DEF Written1
      <4>2. CASE row.target = n
        <5>1. b.rows[n].kind = "hypothesis" /\ b.rows[n] # Absent
          BY <4>1, <4>2, NoRow
        <5>2. row.kind = "hypothesis"
          BY <5>1 DEF Written1
        <5>3. QED
          BY <5>2
      <4>3. CASE row.target # n
        BY <4>1, <4>3
      <4>4. QED
        BY <4>2, <4>3
    <3>4. TargetIn(w, m)
      BY <3>1, <3>3 DEF TargetIn, Written1
    <3>5. QED
      BY <3>2, <3>4
  <2>2. CASE m # n
    <3>1. w.rows[m] = b.rows[m]
      BY <2>2
    <3>2. SeenIn(b, m) /\ ProposedIn(b, m) /\ TargetIn(b, m)
      BY DEF Stands
    <3>3. SeenIn(w, m) /\ ProposedIn(w, m)
      BY <3>1, <3>2 DEF SeenIn, ProposedIn
    <3>4. b.rows[m].kind = "hypothesis_status" =>
              w.rows[b.rows[m].target] = Absent \/ w.rows[b.rows[m].target].kind = "hypothesis"
      <4>. SUFFICES ASSUME b.rows[m].kind = "hypothesis_status"
           PROVE  w.rows[b.rows[m].target] = Absent \/ w.rows[b.rows[m].target].kind = "hypothesis"
        OBVIOUS
      <4>1. PICK h : h = b.rows[m].target
        OBVIOUS
      <4>2. h \in Notes /\ (b.rows[h] = Absent \/ b.rows[h].kind = "hypothesis") /\ b.rows[m] # Absent
        BY <3>2, <4>1, NoRow DEF Pointed, TargetIn
      <4>3. CASE h = n
        <5>1. b.rows[n] # Absent
          BY <4>1, <4>2, <4>3 DEF Written1
        <5>2. row.kind = "hypothesis"
          BY <4>2, <4>3, <5>1 DEF Written1
        <5>3. w.rows[h] = row
          BY <4>2, <4>3
        <5>4. QED
          BY <4>1, <5>2, <5>3
      <4>4. CASE h # n
        BY <4>1, <4>2, <4>4
      <4>5. QED
        BY <4>3, <4>4
    <3>5. TargetIn(w, m)
      BY <3>1, <3>2, <3>4 DEF TargetIn
    <3>6. QED
      BY <3>3, <3>5
  <2>3. QED
    BY <2>1, <2>2
<1>3. QED
  BY <1>1, <1>2 DEF Stands

\* A row of a book that stands may be written over itself.
LEMMA OwnRow ==
    ASSUME NEW b \in Book, Pointed(b), Stands(b), NEW n \in Notes, b.rows[n] # Absent
    PROVE  Written1(b, n, b.rows[n])
<1>1. b.rows[n] \in Live
  BY BookRows
<1>2. SeenIn(b, n) /\ ProposedIn(b, n) /\ TargetIn(b, n) /\ OneRoleIn(b)
  BY DEF Stands
<1>3. b.rows[n].kind = "hypothesis_status" =>
          /\ b.rows[n].target \in Notes
          /\ \/ b.rows[b.rows[n].target] = Absent /\ b.rows[n].target # n
             \/ b.rows[b.rows[n].target].kind = "hypothesis"
  BY <1>2 DEF TargetIn, Pointed
<1>4. b.rows[n].kind = "role" /\ b.rows[n].status = "confirmed" =>
          \A m \in Notes :
             m # n /\ b.rows[m].kind = "role" /\ b.rows[m].status = "confirmed"
                   /\ b.rows[m].target = b.rows[n].target =>
                RolesMulti /\ b.rows[m].value.word # b.rows[n].value.word
  BY <1>2 DEF OneRoleIn
<1>5. QED
  BY <1>1, <1>2, <1>3, <1>4 DEF Written1, SeenIn, ProposedIn, TargetIn

\* Marking a suggestion: all but one role of an entity, which its effect sees to.
LEMMA MarkedStands ==
    ASSUME NEW b \in Book, Pointed(b), Stands(b), NEW n \in Notes, b.rows[n] # Absent,
           NEW to \in {"confirmed", "rejected"},
           to = "rejected" => b.rows[n].status = "suggested",
           NEW c \in Book, \A m \in Notes : c.rows[m] \in {b.rows[m], Absent},
           c.rows[n] = b.rows[n],
           b.rows[n].kind = "role" /\ to = "confirmed" =>
              \A m \in Notes :
                 m # n /\ c.rows[m].kind = "role" /\ c.rows[m].status = "confirmed"
                       /\ c.rows[m].target = b.rows[n].target =>
                    RolesMulti /\ c.rows[m].value.word # b.rows[n].value.word,
           NEW w, \A m \in Notes : w.rows[m] = IF m = n THEN Marked(b, n, to).rows[n] ELSE c.rows[m]
    PROVE  Stands(w)
<1>1. PICK d : d = Marked(b, n, to)
  OBVIOUS
<1>2. PICK row : row = d.rows[n]
  OBVIOUS
<1>3. /\ InPlace(b, d) /\ row # Absent
      /\ row.kind = b.rows[n].kind /\ row.author = b.rows[n].author
      /\ row.target = b.rows[n].target /\ row.value = b.rows[n].value /\ row.status = to
      /\ row.vouched = IF to = "confirmed" THEN b.rows[n].value ELSE b.rows[n].vouched
  BY <1>1, <1>2, MarkedIs
<1>4. row \in Live
  BY <1>2, <1>3, LiveRows DEF InPlace, Book
<1>5. Pointed(c)
  BY NoRow DEF Pointed
<1>6. Stands(c)
  BY RemovalStands
<1>7. Written1(c, n, c.rows[n])
  BY <1>5, <1>6, OwnRow
<1>8. ProposedIn(b, n)
  BY DEF Stands
<1>9. Written1(c, n, row)
  BY <1>3, <1>4, <1>7, <1>8 DEF Written1, ProposedIn
<1>10. \A m \in Notes : w.rows[m] = IF m = n THEN row ELSE c.rows[m]
  BY <1>1, <1>2
<1>11. QED
  BY <1>5, <1>6, <1>9, <1>10, RowStands

LEMMA MarkedOnly ==
    ASSUME NEW b \in Book, Pointed(b), Stands(b), NEW n \in Notes, b.rows[n] # Absent,
           NEW to \in {"confirmed", "rejected"},
           to = "rejected" => b.rows[n].status = "suggested",
           ~(b.rows[n].kind = "role" /\ to = "confirmed"),
           NEW w, \A m \in Notes : w.rows[m] = IF m = n THEN Marked(b, n, to).rows[n] ELSE b.rows[m]
    PROVE  Stands(w)
  BY MarkedStands

\* Moving the hypothesis leaves what is confirmed of it as a person wrote it.
LEMMA MoveHypothesisStands ==
    ASSUME NEW b \in Book, Pointed(b), Stands(b), NEW n \in Notes, b.rows[n] # Absent,
           b.rows[n].target \in Notes
    PROVE  Stands(MoveHypothesis(b, n).book)
<1>1. PICK h : h = b.rows[n].target
  OBVIOUS
<1>2. PICK res : res = MoveHypothesis(b, n)
  OBVIOUS
<1>3. HypothesisMoved(b, n, h, res)
  BY <1>1, <1>2, MoveHypothesisIs
<1>4. CASE res.ok
  <2>1. PICK row : row = res.book.rows[h]
    OBVIOUS
  <2>2. h \in Notes /\ b.rows[h] # Absent
    BY <1>1, <1>3, <1>4 DEF HypothesisMoved
  <2>3. Written1(b, h, b.rows[h])
    BY <2>2, OwnRow
  <2>4. row \in Live
    BY <1>3, <1>4, <2>1, <2>2, LiveRows DEF InPlace, Book, HypothesisMoved
  <2>5. Written1(b, h, row)
    BY <1>3, <1>4, <2>1, <2>2, <2>3, <2>4 DEF Written1, HypothesisMoved
  <2>6. \A m \in Notes : res.book.rows[m] = IF m = h THEN row ELSE b.rows[m]
    BY <1>3, <1>4, <2>1 DEF HypothesisMoved
  <2>7. Stands(res.book)
    BY <2>2, <2>5, <2>6, RowStands
  <2>8. QED
    BY <1>2, <2>7
<1>5. CASE ~res.ok
  BY <1>2, <1>3, <1>5 DEF HypothesisMoved
<1>6. QED
  BY <1>4, <1>5

LEMMA ApplyStatusStands ==
    ASSUME NEW b \in Book, Pointed(b), Stands(b), NEW n \in Notes, b.rows[n] # Absent,
           NEW to \in {"confirmed", "rejected"}
    PROVE  Stands(ApplyStatus(b, n, to).book)
<1>1. CASE ~Judgeable(b, n, to)
  BY <1>1 DEF ApplyStatus, Failed
<1>2. CASE Judgeable(b, n, to)
  <2>1. PICK d : d = Marked(b, n, to)
    OBVIOUS
  <2>2. /\ InPlace(b, d) /\ d \in Book
        /\ \A m \in Notes : m # n => d.rows[m] = b.rows[m]
        /\ d.rows[n] # Absent /\ d.rows[n].kind = b.rows[n].kind
        /\ d.rows[n].target = b.rows[n].target /\ d.rows[n].value = b.rows[n].value
    BY <2>1, MarkedIs DEF InPlace
  <2>3. Pointed(d)
    BY <2>2, PointedInPlace
  <2>4. b.rows[n].status = "suggested"
    BY <1>2 DEF Judgeable
  <2>5. ~(b.rows[n].kind = "role" /\ to = "confirmed") => Stands(d)
    <3>. SUFFICES ASSUME ~(b.rows[n].kind = "role" /\ to = "confirmed") PROVE Stands(d)
      OBVIOUS
    <3>1. \A m \in Notes : d.rows[m] = IF m = n THEN Marked(b, n, to).rows[n] ELSE b.rows[m]
      BY <2>1, <2>2
    <3>2. QED
      BY <2>4, <3>1, MarkedOnly
  <2>6. CASE to = "rejected"
    BY <1>2, <2>1, <2>5, <2>6 DEF ApplyStatus, Done
  <2>7. CASE to = "confirmed" /\ b.rows[n].kind = "role"
    <3>1. PICK target : target = b.rows[n].target
      OBVIOUS
    <3>2. PICK word : word = b.rows[n].value.word
      OBVIOUS
    <3>3. PICK c : c = ReplaceRoles(b, target, word, n)
      OBVIOUS
    <3>4. PICK e : e = ReplaceRoles(d, target, word, n)
      OBVIOUS
    <3>5. \A m \in Notes : c.rows[m] = IF Replaced(b, target, word, n, m) THEN Absent ELSE b.rows[m]
      BY <3>3, ReplaceRolesIs
    <3>6. c \in Book
      BY <3>3, ReplaceRolesIs DEF InPlace
    <3>7. \A m \in Notes : e.rows[m] = IF Replaced(d, target, word, n, m) THEN Absent ELSE d.rows[m]
      BY <2>2, <3>4, ReplaceRolesIs
    <3>8. \A m \in Notes : e.rows[m] = IF m = n THEN Marked(b, n, to).rows[n] ELSE c.rows[m]
      BY <2>1, <2>2, <3>5, <3>7 DEF Replaced
    <3>9. c.rows[n] = b.rows[n] /\ \A m \in Notes : c.rows[m] \in {b.rows[m], Absent}
      BY <3>5 DEF Replaced
    <3>10. \A m \in Notes :
              m # n /\ c.rows[m].kind = "role" /\ c.rows[m].status = "confirmed"
                    /\ c.rows[m].target = b.rows[n].target =>
                 RolesMulti /\ c.rows[m].value.word # b.rows[n].value.word
      BY <3>1, <3>2, <3>5, NoRow DEF Replaced
    <3>11. Stands(e)
      BY <2>4, <3>6, <3>8, <3>9, <3>10, MarkedStands
    <3>12. ApplyStatus(b, n, to) = Effect(d, n)
      BY <1>2, <2>1, <2>7 DEF ApplyStatus
    <3>13. Effect(d, n) = Done(e)
      BY <2>2, <2>7, <3>1, <3>2, <3>4 DEF Effect
    <3>14. QED
      BY <3>11, <3>12, <3>13 DEF Done
  <2>8. CASE to = "confirmed" /\ b.rows[n].kind # "role"
    <3>1. ApplyStatus(b, n, to) = Effect(d, n)
      BY <1>2, <2>1, <2>8 DEF ApplyStatus
    <3>2. Stands(d)
      BY <2>5, <2>8
    <3>3. CASE b.rows[n].kind = "hypothesis_status"
      <4>1. d.rows[n].target \in Notes
        BY <2>2, <3>3 DEF Pointed
      <4>2. Stands(MoveHypothesis(d, n).book)
        BY <2>2, <2>3, <3>2, <4>1, MoveHypothesisStands
      <4>3. QED
        BY <2>2, <3>1, <3>3, <4>2 DEF Effect
    <3>4. CASE b.rows[n].kind = "status_change"
      <4>1. MoveCase(d, n).book.rows = d.rows
        BY <2>2 DEF MoveCase, Done, Failed, Book
      <4>2. PICK e : e = MoveCase(d, n).book
        OBVIOUS
      <4>3. \A m \in Notes : e.rows[m] \in {d.rows[m], Absent}
        BY <4>1, <4>2
      <4>4. Stands(e)
        BY <2>2, <2>3, <3>2, <4>3, RemovalStands
      <4>5. QED
        BY <2>2, <3>1, <3>4, <4>2, <4>4 DEF Effect
    <3>5. CASE b.rows[n].kind \notin {"hypothesis_status", "status_change"}
      BY <2>2, <2>8, <3>1, <3>2, <3>5 DEF Effect, Done
    <3>6. QED
      BY <3>3, <3>4, <3>5
  <2>9. QED
    BY <2>6, <2>7, <2>8
<1>3. QED
  BY <1>1, <1>2

LEMMA JudgeManyStands ==
    ASSUME NEW b \in Book, Pointed(b), Stands(b), NEW ns, ns[1] \in Notes, ns[2] \in Notes,
           NEW to \in {"confirmed", "rejected"}
    PROVE  Stands(JudgeMany(b, ns, to).book)
<1>1. ASSUME NEW res, res.book \in Book, Pointed(res.book), Stands(res.book), NEW n \in Notes
      PROVE  Stands(ApplyNext(res, n, to).book)
  <2>1. PICK c : c = res.book
    OBVIOUS
  <2>2. c.rows[n] # Absent => Stands(ApplyStatus(c, n, to).book)
    BY <1>1, <2>1, ApplyStatusStands
  <2>3. QED
    BY <1>1, <2>1, <2>2 DEF ApplyNext, Present
<1>2. PICK res : res = ApplyNext(Done(b), ns[1], to)
  OBVIOUS
<1>3. Done(b).book = b
  BY DEF Done
<1>4. InPlace(b, res.book)
  BY <1>2, <1>3, ApplyNextInPlace
<1>5. res.book \in Book /\ Pointed(res.book)
  BY <1>4, PointedInPlace DEF InPlace
<1>6. Stands(res.book)
  BY <1>1, <1>2, <1>3
<1>7. Stands(ApplyNext(res, ns[2], to).book)
  BY <1>1, <1>5, <1>6
<1>8. QED
  BY <1>2, <1>7 DEF JudgeMany, Failed

\* What the scenario lets a lone request do.
Lone == Alone /\ NoRoleEdited /\ scenario \in Scenarios

LEMMA CreateStands ==
    ASSUME NEW b \in Book, Pointed(b), Stands(b), NEW q, Carries(q), Checked(b, q),
           Unnamed(b, q), q.op = "create"
    PROVE  Stands(Create(b, q).book)
<1>1. /\ q.note \in Notes /\ q.kind \in AllKinds /\ q.by \in Authors
      /\ q.new.target \in Entities \cup Notes \cup {Nothing} /\ q.new.value \in Value
      /\ q.kind = "hypothesis_status" => q.new.target \in Notes
      /\ q.kind = "status_change" => q.new.target = Nothing
  BY DEF Carries
<1>2. /\ b.rows[q.note] = Absent
      /\ \A m \in Notes : b.rows[m] # Absent => b.rows[m].target # q.note
  BY DEF Checked, Creates, Unnamed
<1>3. PICK st : st = WriteStatus(q.kind, q.by)
  OBVIOUS
<1>4. /\ st \in {"suggested", "confirmed"}
      /\ q.by = "agent" /\ q.kind \in SuggestKinds => st = "suggested"
      /\ st = "suggested" => q.kind \in SuggestKinds \cup {"decision_proposal"}
  BY <1>3 DEF WriteStatus
<1>5. PICK cleared : cleared = IF q.kind = "role" /\ st = "confirmed"
                               THEN ReplaceRoles(b, q.new.target, q.new.value.word, q.note) ELSE b
  OBVIOUS
<1>6. /\ InPlace(b, cleared) /\ cleared \in Book
      /\ \A n \in Notes : cleared.rows[n] \in {b.rows[n], Absent}
      /\ q.kind = "role" /\ st = "confirmed" =>
            \A n \in Notes : cleared.rows[n] =
                IF Replaced(b, q.new.target, q.new.value.word, q.note, n) THEN Absent ELSE b.rows[n]
  BY <1>5, ReplaceRolesIs, LiveRows DEF InPlace
<1>7. Stands(cleared) /\ Pointed(cleared)
  BY <1>6, RemovalStands, PointedInPlace
<1>8. PICK row : row = Row(q.kind, q.new, q.by, st)
  OBVIOUS
<1>9. /\ row \in Live /\ row.kind = q.kind /\ row.status = st /\ row.author = q.by
      /\ row.target = q.new.target /\ row.value = q.new.value
  <2>1. Unseen \in Value
    BY DEF Unseen, Value, States
  <2>2. QED
    BY <1>1, <1>4, <1>8, <2>1 DEF Row, Live, Authors
<1>10. row \in Annotation /\ row # Absent
  BY <1>9, LiveRows
<1>11. PICK added : added = [cleared EXCEPT !.rows[q.note] = row]
  OBVIOUS
<1>12. /\ added \in Book
       /\ \A n \in Notes : added.rows[n] = IF n = q.note THEN row ELSE cleared.rows[n]
  BY <1>1, <1>6, <1>10, <1>11 DEF Book
<1>13. Create(b, q).book = b \/ Stands(added)
  <2>. SUFFICES ASSUME Create(b, q).book # b PROVE Stands(added)
    OBVIOUS
  <2>1. q.kind = "hypothesis_status" => b.rows[q.new.target].kind = "hypothesis" /\ cleared = b
    BY <1>5 DEF Create, Failed
  <2>2. row.kind = "role" /\ row.status = "confirmed" =>
            \A m \in Notes :
               m # q.note /\ cleared.rows[m].kind = "role" /\ cleared.rows[m].status = "confirmed"
                     /\ cleared.rows[m].target = row.target =>
                  RolesMulti /\ cleared.rows[m].value.word # row.value.word
    BY <1>6, <1>9, NoRow DEF Replaced
  <2>3. /\ cleared.rows[q.note] = Absent
        /\ \A m \in Notes : cleared.rows[m] # Absent => cleared.rows[m].target # q.note
    BY <1>1, <1>2, <1>6
  <2>4. Written1(cleared, q.note, row)
    BY <1>1, <1>4, <1>9, <2>1, <2>2, <2>3 DEF Written1
  <2>5. QED
    BY <1>1, <1>6, <1>7, <1>12, <2>4, RowStands
<1>14. CASE Create(b, q).book = b
  BY <1>14
<1>15. CASE Create(b, q).book = added
  BY <1>13, <1>15
<1>16. CASE q.kind = "hypothesis_status" /\ Create(b, q).book = MoveHypothesis(added, q.note).book
            /\ Create(b, q).book # b
  <2>1. added.rows[q.note] # Absent /\ added.rows[q.note].target \in Notes
    BY <1>1, <1>9, <1>10, <1>12, <1>16
  <2>2. Pointed(added)
    BY <1>1, <1>7, <1>9, <1>12 DEF Pointed
  <2>3. Stands(added)
    BY <1>13, <1>16
  <2>4. Stands(MoveHypothesis(added, q.note).book)
    BY <1>1, <1>12, <2>1, <2>2, <2>3, MoveHypothesisStands
  <2>5. QED
    BY <1>16, <2>4
<1>17. \/ Create(b, q).book = b
       \/ Create(b, q).book = added
       \/ q.kind = "hypothesis_status" /\ Create(b, q).book = MoveHypothesis(added, q.note).book
  BY <1>3, <1>5, <1>8, <1>11 DEF Create, Done, Failed
<1>18. QED
  BY <1>14, <1>15, <1>16, <1>17

LEMMA EditStands ==
    ASSUME NEW b \in Book, Pointed(b), Stands(b), NEW q, Carries(q), Checked(b, q), Lone,
           q.op = "edit"
    PROVE  Stands(Edit(b, q))
<1>1. /\ q.note \in Notes /\ q.by \in Authors /\ q.new.value \in Value
      /\ q.kind = "status_change" => q.new.target = Nothing
  BY DEF Carries
<1>2. PICK was : was = b.rows[q.note]
  OBVIOUS
<1>3. was # Absent /\ was.kind = q.kind /\ was \in Live
  BY <1>1, <1>2, BookRows DEF Checked, Present
<1>4. q.new.target = was.target /\ ~RolesMulti
  BY <1>2 DEF Checked, Lone, NoRoleEdited, Alone
<1>5. PICK st : st = EditedStatus(was, q.by)
  OBVIOUS
<1>6. SeenIn(b, q.note) /\ ProposedIn(b, q.note) /\ Written1(b, q.note, was)
  BY <1>1, <1>2, <1>3, OwnRow DEF Stands
<1>7. /\ st \in {"suggested", "confirmed", "rejected"}
      /\ st # "confirmed" => was.kind \in SuggestKinds \cup {"decision_proposal"}
      /\ was.kind = "role" /\ st = "confirmed" => was.status = "confirmed"
      /\ q.by = "agent" /\ was.kind \in SuggestKinds /\ was.kind # "task" => st = "suggested"
  BY <1>2, <1>3, <1>5, <1>6 DEF EditedStatus, WriteStatus, Live, ProposedIn
<1>8. PICK vouched : vouched = IF q.by = "human" THEN q.new.value ELSE was.vouched
  OBVIOUS
<1>9. PICK row : row = [was EXCEPT !.target = q.new.target, !.value = q.new.value,
                                   !.status = st, !.vouched = vouched]
  OBVIOUS
<1>10. /\ row \in Live /\ row.kind = was.kind /\ row.author = was.author
       /\ row.target = was.target /\ row.status = st /\ row.value = q.new.value
       /\ row.vouched = vouched
  BY <1>1, <1>3, <1>4, <1>7, <1>8, <1>9 DEF Live
<1>11. PICK w : w = Edit(b, q)
  OBVIOUS
<1>12. w = [b EXCEPT !.rows[q.note] = row]
  BY <1>2, <1>5, <1>8, <1>9, <1>11 DEF Edit
<1>13. \A n \in Notes : w.rows[n] = IF n = q.note THEN row ELSE b.rows[n]
  BY <1>1, <1>12 DEF Book
<1>14. row.kind = "role" /\ row.status = "confirmed" =>
           \A m \in Notes : ~(m # q.note /\ b.rows[m].kind = "role"
                                /\ b.rows[m].status = "confirmed" /\ b.rows[m].target = row.target)
  BY <1>4, <1>6, <1>7, <1>10 DEF Written1
<1>15. row.author = "agent" /\ row.kind \in SuggestKinds /\ row.kind # "task"
           /\ row.status = "confirmed" => row.value = row.vouched
  BY <1>1, <1>7, <1>8, <1>10 DEF Authors
<1>16. Written1(b, q.note, row)
  BY <1>1, <1>2, <1>3, <1>6, <1>7, <1>10, <1>14, <1>15 DEF Written1
<1>17. QED
  BY <1>1, <1>11, <1>13, <1>16, RowStands

LEMMA MoveStands ==
    ASSUME NEW b \in Book, Pointed(b), Stands(b), NEW q, Carries(q), Checked(b, q),
           Unnamed(b, q), q.op = "move"
    PROVE  Stands(Move(b, q).book)
<1>1. q.note \in Notes /\ q.to \in CaseStatuses /\ q.by \in Authors
  BY DEF Carries
<1>2. CASE Suggests(q)
  <2>1. PICK new : new = [target |-> Nothing, value |-> [word |-> Nothing, state |-> q.to]]
    OBVIOUS
  <2>2. new.target = Nothing /\ new.value \in Value
    BY <1>1, <2>1 DEF Value, States, CaseStatuses
  <2>3. PICK row : row = Row("status_change", new, q.by, "suggested")
    OBVIOUS
  <2>4. row \in Live /\ row.kind = "status_change" /\ row.status = "suggested" /\ row.target = Nothing
    <3>1. Unseen \in Value
      BY DEF Unseen, Value, States
    <3>2. QED
      BY <1>1, <2>2, <2>3, <3>1 DEF Row, Live, AllKinds
  <2>5. PICK w : w = [b EXCEPT !.rows[q.note] = row]
    OBVIOUS
  <2>6. \A n \in Notes : w.rows[n] = IF n = q.note THEN row ELSE b.rows[n]
    BY <1>1, <2>5 DEF Book
  <2>7. /\ b.rows[q.note] = Absent
        /\ \A m \in Notes : b.rows[m] # Absent => b.rows[m].target # q.note
    BY <1>2 DEF Checked, Creates, Unnamed
  <2>8. Written1(b, q.note, row)
    BY <1>2, <2>4, <2>7 DEF Written1, Suggests
  <2>9. Stands(w)
    BY <1>1, <2>6, <2>8, RowStands
  <2>10. Move(b, q).book = w
    BY <1>2, <2>1, <2>3, <2>5 DEF Move, Done
  <2>11. QED
    BY <2>9, <2>10
<1>3. CASE ~Suggests(q)
  <2>1. PICK w : w = Move(b, q).book
    OBVIOUS
  <2>2. w = b \/ w = [b EXCEPT !.status = q.to]
    BY <1>3, <2>1 DEF Move, Done, Failed
  <2>3. \A n \in Notes : w.rows[n] \in {b.rows[n], Absent}
    BY <1>1, <2>2 DEF Book
  <2>4. QED
    BY <2>1, <2>3, RemovalStands
<1>4. QED
  BY <1>2, <1>3

LEMMA DecideStands ==
    ASSUME NEW b \in Book, Pointed(b), Stands(b), NEW q, Carries(q), Checked(b, q),
           q.op = "decide", NEW closes \in BOOLEAN,
           NEW w, w = [Marked(b, q.note, "confirmed") EXCEPT !.status = IF closes THEN "closed" ELSE @]
    PROVE  Stands(w)
<1>1. q.note \in Notes /\ b.rows[q.note] # Absent /\ b.rows[q.note].kind = "decision_proposal"
  BY DEF Carries, Checked, Present
<1>2. PICK d : d = Marked(b, q.note, "confirmed")
  OBVIOUS
<1>3. d \in Book /\ \A k \in Notes : k # q.note => d.rows[k] = b.rows[k]
  BY <1>1, <1>2, MarkedIs DEF InPlace
<1>4. w.rows = d.rows
  BY <1>2, <1>3 DEF Book
<1>5. \A k \in Notes : w.rows[k] = IF k = q.note THEN Marked(b, q.note, "confirmed").rows[q.note]
                                                 ELSE b.rows[k]
  BY <1>2, <1>3, <1>4
<1>6. PICK n \in Notes : n = q.note
  BY <1>1
<1>7. PICK to \in {"confirmed", "rejected"} : to = "confirmed"
  OBVIOUS
<1>8. /\ b.rows[n] # Absent /\ ~(b.rows[n].kind = "role" /\ to = "confirmed")
      /\ to = "rejected" => b.rows[n].status = "suggested"
      /\ \A m \in Notes : w.rows[m] = IF m = n THEN Marked(b, n, to).rows[n] ELSE b.rows[m]
  BY <1>1, <1>5, <1>6, <1>7
<1>9. \A v : (\A m \in Notes : v.rows[m] = IF m = n THEN Marked(b, n, to).rows[n] ELSE b.rows[m])
               => Stands(v)
  BY <1>8, MarkedOnly
<1>10. QED
  BY <1>8, <1>9

LEMMA ReopenStands ==
    ASSUME NEW b \in Book, Pointed(b), Stands(b), NEW q, Carries(q), Checked(b, q),
           q.op = "reopen", b.rows[q.note].status = "rejected",
           NEW w, w = [b EXCEPT !.rows[q.note].status = "suggested"]
    PROVE  Stands(w)
<1>1. q.note \in Notes /\ b.rows[q.note] # Absent
  BY DEF Carries, Checked, Present
<1>2. PICK row : row = [b.rows[q.note] EXCEPT !.status = "suggested"]
  OBVIOUS
<1>3. b.rows[q.note] \in Live /\ Written1(b, q.note, b.rows[q.note])
  BY <1>1, BookRows, OwnRow
<1>4. /\ row \in Live /\ row.kind = b.rows[q.note].kind /\ row.target = b.rows[q.note].target
      /\ row.status = "suggested"
  BY <1>2, <1>3 DEF Live
<1>5. Written1(b, q.note, row)
  BY <1>1, <1>3, <1>4 DEF Written1
<1>6. \A k \in Notes : w.rows[k] = IF k = q.note THEN row ELSE b.rows[k]
  BY <1>1, <1>2 DEF Book
<1>7. PICK n \in Notes : n = q.note
  BY <1>1
<1>8. Written1(b, n, row) /\ \A m \in Notes : w.rows[m] = IF m = n THEN row ELSE b.rows[m]
  BY <1>5, <1>6, <1>7
<1>9. QED
  BY <1>8, RowStands

LEMMA ResultStands ==
    ASSUME NEW b \in Book, Pointed(b), Stands(b), NEW q, Carries(q), Checked(b, q),
           Unnamed(b, q), Lone, NEW res, IsResult(b, q, res)
    PROVE  Stands(res.book)
<1>1. CASE q.op = "create" /\ res = Create(b, q)
  BY <1>1, CreateStands
<1>2. CASE q.op = "edit" /\ res = Done(Edit(b, q))
  BY <1>2, EditStands DEF Done
<1>3. CASE q.op = "remove" /\ res = Done([b EXCEPT !.rows[q.note] = Absent])
  <2>1. \A n \in Notes : res.book.rows[n] \in {b.rows[n], Absent}
    BY <1>3 DEF Done, Book
  <2>2. QED
    BY <2>1, RemovalStands
<1>4. CASE q.op = "judge" /\ res = ApplyStatus(b, q.note, q.to)
  BY <1>4, ApplyStatusStands DEF Carries, Checked, Present
<1>5. CASE q.op = "judge_many" /\ res = JudgeMany(b, q.notes, q.to)
  BY <1>5, JudgeManyStands DEF Carries
<1>6. CASE q.op = "reopen" /\ res = Done([b EXCEPT !.rows[q.note].status = "suggested"])
  BY <1>6, ReopenStands DEF Done, Checked
<1>7. CASE q.op = "move" /\ res = Move(b, q)
  BY <1>7, MoveStands
<1>8. CASE /\ q.op = "decide"
           /\ \E closes \in BOOLEAN :
                 res = Done([Marked(b, q.note, "confirmed")
                               EXCEPT !.status = IF closes THEN "closed" ELSE @])
  <2>1. PICK closes \in BOOLEAN :
            res = Done([Marked(b, q.note, "confirmed")
                          EXCEPT !.status = IF closes THEN "closed" ELSE @])
    BY <1>8
  <2>2. PICK w : w = [Marked(b, q.note, "confirmed") EXCEPT !.status = IF closes THEN "closed" ELSE @]
    OBVIOUS
  <2>3. Stands(w)
    BY <1>8, <2>2, DecideStands
  <2>4. QED
    BY <2>1, <2>2, <2>3 DEF Done
<1>9. CASE q.op = "reopen_case" /\ res = Done([b EXCEPT !.status = "analysis"])
  <2>1. \A n \in Notes : res.book.rows[n] \in {b.rows[n], Absent}
    BY <1>9 DEF Done, Book
  <2>2. QED
    BY <2>1, RemovalStands
<1>10. QED
  BY <1>1, <1>2, <1>3, <1>4, <1>5, <1>6, <1>7, <1>8, <1>9 DEF IsResult

\* A lone request commits just what it made of the case.
LEMMA AloneEnds ==
    ASSUME IInv, Alone, NEW r \in Busy, NEW w, Ended(r, w)
    PROVE  session[r].seen = Now /\ Now' = w
<1>1. session[r].seen = Now /\ Now.rows = rows /\ Now.status = status
  BY DEF IInv, SoloStand, Solo, Now
<1>2. rows \in [Notes -> Annotation] /\ w \in Book
  BY DEF IInv, TypeOK, Ended, Proper
<1>3. ASSUME NEW n \in Notes
      PROVE  MergeRow(rows[n], rows[n], w.rows[n]) = w.rows[n]
  <2>1. PICK old : old = rows[n]
    OBVIOUS
  <2>2. PICK new : new = w.rows[n]
    OBVIOUS
  <2>3. old \in Annotation /\ new \in Annotation
    BY <1>2, <2>1, <2>2 DEF Book
  <2>4. old # Absent /\ new # Absent => new.kind = old.kind /\ new.author = old.author
    BY <1>1, <2>1, <2>2 DEF Ended, Proper, SameKind
  <2>5. MergeRow(old, old, new) = new
    <3>1. CASE old = Absent \/ new = Absent
      BY <3>1 DEF MergeRow
    <3>2. CASE old # Absent /\ new # Absent
      <4>1. old \in Live /\ new \in Live
        BY <2>3, <3>2, LiveRows
      <4>2. MergeRow(old, old, new) =
                [kind |-> new.kind, target |-> new.target, value |-> new.value,
                 status |-> new.status, author |-> new.author, vouched |-> new.vouched]
        BY <2>4, <3>2 DEF MergeRow, Column
      <4>3. QED
        BY <4>1, <4>2 DEF Live
    <3>3. QED
      BY <3>1, <3>2
  <2>6. QED
    BY <2>1, <2>2, <2>5
<1>4. rows' = w.rows
  BY <1>1, <1>2, <1>3 DEF Ended, Ending, Book
<1>5. status' = w.status
  BY <1>1 DEF Ended, Ending, Column
<1>6. QED
  BY <1>1, <1>2, <1>4, <1>5 DEF Now, Book

\* What a lone request does, in full.
AloneStep(r, q, res) ==
    /\ r \in Busy /\ Carries(q) /\ Checked(Now, q) /\ Unnamed(Now, q)
    /\ q = session[r].req /\ session'[r] = Idle
    /\ Now \in Book /\ Pointed(Now)
    /\ IsResult(Now, q, res)
    /\ Now' \in {res.book, Now}
    /\ res.ok => Now' = res.book
    /\ ~res.ok /\ ~Memory => Now' = Now

LEMMA AloneHandles ==
    ASSUME IInv, Alone, NEW r \in Requests, Handles(r)
    PROVE  \E q, res : AloneStep(r, q, res)
<1>1. r \in Busy /\ \E res, w : /\ IsResult(session[r].seen, session[r].req, res)
                                /\ Outcome(r, res, w)
  BY HandledEnds
<1>2. PICK res, w : IsResult(session[r].seen, session[r].req, res) /\ Outcome(r, res, w)
  BY <1>1
<1>3. Ended(r, w)
  BY <1>2 DEF Outcome
<1>4. session[r].seen = Now /\ Now' = w
  BY <1>1, <1>3, AloneEnds
<1>5. PICK q : q = session[r].req
  OBVIOUS
<1>6. /\ Carries(q) /\ Checked(Now, q) /\ Unnamed(Now, q) /\ Now \in Book /\ Pointed(Now)
  BY <1>1, <1>4, <1>5, BusyTyped DEF IInv, SoloStand
<1>7. session'[r] = Idle
  BY <1>1, <1>3, BusyTyped DEF Ended, Ending, IInv, TypeOK
<1>8. AloneStep(r, q, res)
  BY <1>1, <1>2, <1>4, <1>5, <1>6, <1>7 DEF AloneStep, Outcome
<1>9. QED
  BY <1>8

\* What makes a book stand is in its rows.
LEMMA StandsByRows ==
    ASSUME NEW b \in Book, Pointed(b), Stands(b), NEW w, w.rows = b.rows
    PROVE  Stands(w)
  BY RemovalStands

LEMMA AlwaysAlone == ASSUME NoRoleEdited PROVE Spec => []StandsAlone
<1>1. Init => StandsAlone
  <2>1. Init => \A n \in Notes : Now.rows[n] = Absent
    BY DEF Init, Now
  <2>2. QED
    BY <2>1, NoRow DEF StandsAlone, Stands, OneRoleIn, SeenIn, ProposedIn, TargetIn
<1>2. IInv /\ StandsAlone /\ [Next]_vars => StandsAlone'
  <2>. SUFFICES ASSUME IInv, StandsAlone, [Next]_vars, Alone' PROVE Stands(Now')
    BY DEF StandsAlone, Stands, OneRoleIn, SeenIn, ProposedIn, TargetIn
  <2>1. CASE UNCHANGED vars
    <3>1. Now' = Now /\ Alone
      BY <2>1 DEF vars, Now, Alone
    <3>2. QED
      BY <3>1 DEF StandsAlone
  <2>2. CASE Next
    <3>1. PICK r \in Requests : (\E q \in Request : Load(r, q)) \/ Handles(r) \/ Abandon(r)
      BY <2>2, NextIs
    <3>2. CASE (\E q \in Request : Load(r, q)) \/ Abandon(r)
      <4>1. Now' = Now /\ Alone
        BY <3>2 DEF Load, Abandon, Now, Alone
      <4>2. QED
        BY <4>1 DEF StandsAlone
    <3>3. CASE Handles(r)
      <4>1. r \in Busy /\ \E w : Ended(r, w)
        BY <3>3, HandledEnds DEF Outcome
      <4>2. scenario' = scenario
        BY <4>1 DEF Ended, Ending
      <4>3. Alone /\ Lone
        BY <4>2 DEF Alone, Lone, IInv, TypeOK
      <4>4. PICK q, res : AloneStep(r, q, res)
        BY <3>3, <4>3, AloneHandles
      <4>5. Stands(Now)
        BY <4>3 DEF StandsAlone
      <4>6. Stands(res.book)
        BY <4>3, <4>4, <4>5, ResultStands DEF AloneStep
      <4>7. QED
        BY <4>4, <4>5, <4>6 DEF AloneStep
    <3>4. QED
      BY <3>1, <3>2, <3>3
  <2>3. QED
    BY <2>1, <2>2
<1>3. QED
  BY <1>1, <1>2, Always, PTL DEF Spec

\* As long as requests do not overlap, one confirmed role stands per entity (or, with
\* roles_multi, no role is held twice), and what stands confirmed of an agent's
\* suggestions is the value a person confirmed or wrote: provided that nobody edits
\* what a role is about (NoRoleEdited), which update_annotation does not look at.
THEOREM ConfirmedStandsAlone == ASSUME NoRoleEdited PROVE Spec => []ConfirmedStands
<1>1. StandsAlone => ConfirmedStands
  <2>. SUFFICES ASSUME StandsAlone, Alone PROVE OneRole /\ PersonSawIt
    BY DEF ConfirmedStands
  <2>1. Stands(Now) /\ Now.rows = rows
    BY DEF StandsAlone, Now
  <2>2. OneRole
    BY <2>1 DEF Stands, OneRoleIn, OneRole
  <2>3. PersonSawIt
    BY <2>1 DEF Stands, SeenIn, PersonSawIt, Suggestive
  <2>4. QED
    BY <2>2, <2>3
<1>2. QED
  BY <1>1, AlwaysAlone, PTL

-------------------------------------------------------------------------------
(* What takes effect.                                                        *)

\* What an agent writes of a hypothesis or of the case waits for a person.
LEMMA AgentResult ==
    ASSUME NEW b \in Book, NEW q, Carries(q), Checked(b, q), q.by = "agent",
           NEW res, IsResult(b, q, res)
    PROVE  /\ "hypothesis_status" \in SuggestKinds =>
                 \A n \in Notes : b.rows[n].kind = "hypothesis" /\ res.book.rows[n] # Absent =>
                     res.book.rows[n].value.state = b.rows[n].value.state
           /\ "status_change" \in SuggestKinds => res.book.status = b.status
<1>1. CASE q.op = "create" /\ res = Create(b, q)
  <2>1. PICK st : st = WriteStatus(q.kind, q.by)
    OBVIOUS
  <2>2. PICK cleared : cleared = IF q.kind = "role" /\ st = "confirmed"
                                 THEN ReplaceRoles(b, q.new.target, q.new.value.word, q.note) ELSE b
    OBVIOUS
  <2>3. cleared \in Book /\ cleared.status = b.status
        /\ \A n \in Notes : cleared.rows[n] \in {b.rows[n], Absent}
    BY <2>2, ReplaceRolesIs DEF InPlace
  <2>4. PICK row : row = Row(q.kind, q.new, q.by, st)
    OBVIOUS
  <2>5. PICK added : added = [cleared EXCEPT !.rows[q.note] = row]
    OBVIOUS
  <2>6. q.note \in Notes /\ b.rows[q.note] = Absent
    BY <1>1 DEF Carries, Checked, Creates
  <2>7. /\ added.status = b.status
        /\ \A n \in Notes : added.rows[n] = IF n = q.note THEN row ELSE cleared.rows[n]
    BY <2>3, <2>5, <2>6 DEF Book
  <2>8. \A n \in Notes : b.rows[n].kind = "hypothesis" /\ added.rows[n] # Absent =>
            added.rows[n].value.state = b.rows[n].value.state
    BY <2>3, <2>6, <2>7, NoRow
  <2>9. \/ res.book = b
        \/ res.book = added
        \/ /\ q.kind = "hypothesis_status" /\ st = "confirmed"
           /\ res.book = MoveHypothesis(added, q.note).book
    BY <1>1, <2>1, <2>2, <2>4, <2>5 DEF Create, Done, Failed
  <2>10. "hypothesis_status" \in SuggestKinds => res.book \in {b, added}
    BY <2>1, <2>9 DEF WriteStatus
  <2>11. MoveHypothesis(added, q.note).book.status = added.status
    <3>1. added \in [rows : {added.rows}, status : CaseStatuses]
      BY <2>3, <2>5 DEF Book
    <3>2. QED
      BY <3>1 DEF MoveHypothesis, Done, Failed
  <2>12. QED
    BY <2>7, <2>8, <2>9, <2>10, <2>11
<1>2. CASE q.op = "edit" /\ res = Done(Edit(b, q))
  <2>1. PICK was : was = b.rows[q.note]
    OBVIOUS
  <2>2. q.note \in Notes /\ was \in Live
    BY <1>2, <2>1, BookRows DEF Carries, Checked, Present
  <2>3. PICK row : row = [was EXCEPT !.target = q.new.target, !.value = q.new.value,
                              !.status = EditedStatus(was, q.by), !.vouched = was.vouched]
    OBVIOUS
  <2>4. res.book = [b EXCEPT !.rows[q.note] = row]
    BY <1>2, <2>1, <2>2, <2>3 DEF Edit, Done, Live
  <2>5. res.book.status = b.status
        /\ \A n \in Notes : res.book.rows[n] = IF n = q.note THEN row ELSE b.rows[n]
    BY <2>2, <2>4 DEF Book
  <2>6. row.value = q.new.value
    BY <2>2, <2>3 DEF Live
  <2>7. was.kind = "hypothesis" => q.new.value.state = was.value.state
    BY <1>2, <2>1 DEF Checked, AgentMayWrite
  <2>8. QED
    BY <2>1, <2>5, <2>6, <2>7
<1>3. CASE q.op = "move" /\ res = Move(b, q)
  <2>1. "status_change" \in SuggestKinds => Suggests(q)
    BY DEF Suggests
  <2>2. PICK row : row = Row("status_change",
                             [target |-> Nothing, value |-> [word |-> Nothing, state |-> q.to]],
                             q.by, "suggested")
    OBVIOUS
  <2>3. CASE Suggests(q)
    <3>1. q.note \in Notes /\ b.rows[q.note] = Absent
      BY <1>3, <2>3 DEF Carries, Checked, Creates
    <3>2. res.book = [b EXCEPT !.rows[q.note] = row]
      BY <1>3, <2>2, <2>3 DEF Move, Done
    <3>3. res.book.status = b.status
          /\ \A n \in Notes : n # q.note => res.book.rows[n] = b.rows[n]
      BY <3>1, <3>2 DEF Book
    <3>4. QED
      BY <3>1, <3>3, NoRow
  <2>4. CASE ~Suggests(q)
    <3>1. res.book.rows = b.rows
      BY <1>3, <2>4 DEF Move, Done, Failed, Book
    <3>2. QED
      BY <2>1, <2>4, <3>1
  <2>5. QED
    BY <2>3, <2>4
<1>4. q.op \in {"create", "edit", "move"}
  BY DEF Carries
<1>5. QED
  BY <1>1, <1>2, <1>3, <1>4 DEF IsResult

\* What the judgement of one suggestion comes to.
Judged(b, n, to, w) ==
    /\ InPlace(b, w) /\ b.rows[n].status = "suggested"
    /\ \A m \in Notes : m # n /\ w.rows[m] # Absent => w.rows[m].status = b.rows[m].status
    /\ \A m \in Notes : b.rows[m] # Absent /\ b.rows[m].kind # "role" => w.rows[m] # Absent
    /\ w.rows[n] # Absent /\ w.rows[n].status = to
    /\ \A m \in Notes :
          /\ b.rows[m] # Absent /\ b.rows[m].kind # "role"
          /\ ~(b.rows[n].kind = "hypothesis_status" /\ to = "confirmed" /\ m = b.rows[n].target)
          => w.rows[m].value = b.rows[m].value
    /\ to = "confirmed" /\ b.rows[n].kind = "hypothesis_status" =>
          /\ b.rows[b.rows[n].target].kind = "hypothesis"
          /\ w.rows[b.rows[n].target].value.state = b.rows[n].value.state
    /\ w.status = IF to = "confirmed" /\ b.rows[n].kind = "status_change"
                  THEN b.rows[n].value.state ELSE b.status

LEMMA ApplyStatusJudges ==
    ASSUME NEW b \in Book, Pointed(b), Stands(b), NEW n \in Notes, b.rows[n] # Absent,
           NEW to \in {"confirmed", "rejected"},
           NEW res, res = ApplyStatus(b, n, to), res.ok
    PROVE  Judged(b, n, to, res.book)
<1>1. Judgeable(b, n, to) /\ b.rows[n].status = "suggested"
  BY DEF ApplyStatus, Failed, Judgeable
<1>2. PICK d : d = Marked(b, n, to)
  OBVIOUS
<1>3. /\ InPlace(b, d) /\ d \in Book /\ d.status = b.status
      /\ \A m \in Notes : m # n => d.rows[m] = b.rows[m]
      /\ d.rows[n] # Absent /\ d.rows[n].kind = b.rows[n].kind /\ d.rows[n].status = to
      /\ d.rows[n].target = b.rows[n].target /\ d.rows[n].value = b.rows[n].value
  BY <1>2, MarkedIs DEF InPlace
<1>4. InPlace(b, res.book)
  BY ApplyStatusInPlace
<1>5. CASE res.book = d /\ ~(to = "confirmed" /\ b.rows[n].kind \in {"hypothesis_status", "status_change"})
  BY <1>1, <1>3, <1>5 DEF Judged
<1>6. CASE to = "rejected"
  BY <1>1, <1>2, <1>5, <1>6 DEF ApplyStatus, Done
<1>7. CASE to = "confirmed"
  <2>1. res = Effect(d, n)
    BY <1>1, <1>2, <1>7 DEF ApplyStatus
  <2>2. CASE b.rows[n].kind = "role"
    <3>1. PICK target, word : target = d.rows[n].target /\ word = d.rows[n].value.word
      OBVIOUS
    <3>2. PICK e : e = ReplaceRoles(d, target, word, n)
      OBVIOUS
    <3>3. res.book = e
      BY <1>3, <2>1, <2>2, <3>1, <3>2 DEF Effect, Done
    <3>4. /\ e.status = d.status
          /\ \A m \in Notes : e.rows[m] = IF Replaced(d, target, word, n, m) THEN Absent ELSE d.rows[m]
      BY <1>3, <3>2, ReplaceRolesIs
    <3>5. e.rows[n] = d.rows[n]
      BY <3>4 DEF Replaced
    <3>6. \A m \in Notes : b.rows[m].kind # "role" => e.rows[m] = d.rows[m]
      BY <1>3, <2>2, <3>4 DEF Replaced
    <3>7. QED
      BY <1>1, <1>3, <1>4, <2>2, <3>3, <3>4, <3>5, <3>6 DEF Judged
  <2>3. CASE b.rows[n].kind = "hypothesis_status"
    <3>1. res = MoveHypothesis(d, n)
      BY <1>3, <2>1, <2>3 DEF Effect
    <3>2. PICK h : h = b.rows[n].target
      OBVIOUS
    <3>3. h \in Notes /\ (b.rows[h] = Absent \/ b.rows[h].kind = "hypothesis")
      BY <2>3, <3>2 DEF Pointed, Stands, TargetIn
    <3>4. h # n
      BY <2>3, <3>3
    <3>5. HypothesisMoved(d, n, h, res)
      BY <1>3, <3>1, <3>2, <3>3, MoveHypothesisIs
    <3>6. /\ \A m \in Notes : m # h => res.book.rows[m] = d.rows[m]
          /\ d.rows[h] # Absent /\ res.book.rows[h] # Absent
          /\ res.book.rows[h].status = d.rows[h].status
          /\ res.book.rows[h].value.state = d.rows[n].value.state
          /\ res.book.status = d.status
      BY <3>5 DEF HypothesisMoved
    <3>7. b.rows[h].kind = "hypothesis" /\ d.rows[h] = b.rows[h]
      BY <1>3, <3>3, <3>4, <3>6
    <3>8. \A m \in Notes : m # n /\ res.book.rows[m] # Absent =>
              res.book.rows[m].status = b.rows[m].status
      BY <1>3, <3>6, <3>7
    <3>9. \A m \in Notes : b.rows[m] # Absent => res.book.rows[m] # Absent
      BY <1>3, <3>6
    <3>10. \A m \in Notes : m # h => res.book.rows[m].value = b.rows[m].value
      BY <1>3, <3>6
    <3>11. QED
      BY <1>1, <1>3, <1>4, <1>7, <2>3, <3>2, <3>3, <3>4, <3>6, <3>7, <3>8, <3>9, <3>10 DEF Judged
  <2>4. CASE b.rows[n].kind = "status_change"
    <3>1. res = MoveCase(d, n)
      BY <1>3, <2>1, <2>4 DEF Effect
    <3>2. PICK e : e = [d EXCEPT !.status = d.rows[n].value.state]
      OBVIOUS
    <3>3. res.book = e
      BY <3>1, <3>2 DEF MoveCase, Done, Failed
    <3>4. e.rows = d.rows /\ e.status = b.rows[n].value.state
      BY <1>3, <3>2 DEF Book
    <3>5. QED
      BY <1>1, <1>3, <1>4, <1>7, <2>4, <3>3, <3>4 DEF Judged
  <2>5. CASE b.rows[n].kind \notin {"role", "hypothesis_status", "status_change"}
    BY <1>3, <1>5, <2>1, <2>5 DEF Effect, Done
  <2>6. QED
    BY <2>2, <2>3, <2>4, <2>5
<1>8. QED
  BY <1>6, <1>7

TakesEffect == {"hypothesis_status", "status_change"}

\* n is confirmed between b and w.
Taken(b, w, n) ==
    b.rows[n] # Absent /\ w.rows[n] # Absent
    /\ b.rows[n].status = "suggested" /\ w.rows[n].status = "confirmed"

\* m has the last word on what n is about.
Applied(b, w, n, m) ==
    /\ Taken(b, w, m)
    /\ b.rows[m].kind = b.rows[n].kind /\ b.rows[m].target = b.rows[n].target
    /\ IF b.rows[n].kind = "status_change" THEN w.status = b.rows[m].value.state
       ELSE /\ w.rows[b.rows[n].target] # Absent
            /\ w.rows[b.rows[n].target].value.state = b.rows[m].value.state

Applies(b, w) ==
    \A n \in Notes : Taken(b, w, n) /\ b.rows[n].kind \in TakesEffect =>
        \E m \in Notes : Applied(b, w, n, m)

\* One is judged: it is the one that takes effect.
LEMMA JudgedApplies ==
    ASSUME NEW b \in Book, Pointed(b), NEW n \in Notes, b.rows[n] # Absent,
           NEW to \in {"confirmed", "rejected"}, NEW w, Judged(b, n, to, w)
    PROVE  Applies(b, w)
<1>. SUFFICES ASSUME NEW k \in Notes, Taken(b, w, k), b.rows[k].kind \in TakesEffect
     PROVE  Applied(b, w, k, k)
  BY DEF Applies
<1>1. k = n /\ to = "confirmed"
  BY DEF Judged, Taken
<1>2. CASE b.rows[n].kind = "status_change"
  BY <1>1, <1>2 DEF Judged, Applied
<1>3. CASE b.rows[n].kind = "hypothesis_status"
  <2>1. PICK h : h = b.rows[n].target
    OBVIOUS
  <2>2. h \in Notes /\ b.rows[h].kind = "hypothesis" /\ w.rows[h].value.state = b.rows[n].value.state
    BY <1>1, <1>3, <2>1 DEF Judged, Pointed
  <2>3. w.rows[h] # Absent
    BY <2>2, NoRow DEF Judged
  <2>4. QED
    BY <1>1, <1>3, <2>1, <2>2, <2>3 DEF Applied
<1>4. QED
  BY <1>1, <1>2, <1>3 DEF TakesEffect

\* Two are judged, one after the other: of two that are about the same, the second
\* takes effect.
LEMMA BothApply ==
    ASSUME NEW b \in Book, Pointed(b), Stands(b), NEW i \in Notes, NEW j \in Notes, i # j,
           b.rows[i] # Absent, NEW to \in {"confirmed", "rejected"},
           NEW c, Judged(b, i, to, c), c.rows[j] # Absent, NEW w, Judged(c, j, to, w)
    PROVE  Applies(b, w)
<1>. SUFFICES ASSUME NEW k \in Notes, Taken(b, w, k), b.rows[k].kind \in TakesEffect
     PROVE  \E m \in Notes : Applied(b, w, k, m)
  BY DEF Applies
<1>1. /\ InPlace(b, c) /\ c \in Book /\ InPlace(c, w)
      /\ \A m \in Notes : w.rows[m] # Absent => c.rows[m] # Absent
      /\ \A m \in Notes : c.rows[m] # Absent =>
            /\ b.rows[m] # Absent /\ c.rows[m].kind = b.rows[m].kind
            /\ c.rows[m].target = b.rows[m].target
  BY DEF Judged, InPlace
<1>2. k \in {i, j} /\ to = "confirmed"
  BY <1>1 DEF Judged, Taken
<1>3. b.rows[j] # Absent /\ b.rows[j].status = "suggested"
      /\ c.rows[j].kind = b.rows[j].kind /\ c.rows[j].target = b.rows[j].target
  BY <1>1 DEF Judged
<1>4. Taken(b, w, j)
  BY <1>2, <1>3 DEF Judged, Taken
<1>5. ASSUME b.rows[i].kind = "hypothesis_status"
      PROVE  /\ b.rows[i].target \in Notes
             /\ b.rows[b.rows[i].target].kind = "hypothesis" /\ b.rows[b.rows[i].target] # Absent
             /\ c.rows[b.rows[i].target] # Absent
             /\ c.rows[b.rows[i].target].value.state = b.rows[i].value.state
  BY <1>2, <1>5, NoRow DEF Judged, Pointed
<1>6. b.rows[j].kind \in TakesEffect => c.rows[j].value = b.rows[j].value
  <2>1. CASE b.rows[i].kind = "hypothesis_status"
    BY <1>3, <1>5, <2>1 DEF Judged, TakesEffect
  <2>2. CASE b.rows[i].kind # "hypothesis_status"
    BY <1>3, <2>2 DEF Judged, TakesEffect
  <2>3. QED
    BY <2>1, <2>2
<1>7. b.rows[j].kind = "status_change" => w.status = b.rows[j].value.state
  BY <1>2, <1>3, <1>6 DEF Judged, TakesEffect
<1>8. ASSUME b.rows[j].kind = "hypothesis_status"
      PROVE  /\ b.rows[j].target \in Notes
             /\ w.rows[b.rows[j].target] # Absent
             /\ w.rows[b.rows[j].target].value.state = b.rows[j].value.state
  <2>1. PICK h : h = b.rows[j].target
    OBVIOUS
  <2>2. h \in Notes
    BY <1>3, <1>8, <2>1 DEF Pointed
  <2>3. c.rows[h].kind = "hypothesis" /\ w.rows[h].value.state = c.rows[j].value.state
    BY <1>2, <1>3, <1>8, <2>1 DEF Judged
  <2>4. w.rows[h] # Absent
    BY <2>2, <2>3, NoRow DEF Judged
  <2>5. c.rows[j].value = b.rows[j].value
    BY <1>6, <1>8 DEF TakesEffect
  <2>6. QED
    BY <2>1, <2>2, <2>3, <2>4, <2>5
<1>9. CASE k = j
  <2>1. Applied(b, w, j, j)
    BY <1>4, <1>7, <1>8, <1>9 DEF Applied, TakesEffect
  <2>2. QED
    BY <1>9, <2>1
<1>10. CASE k = i /\ b.rows[i].kind = "status_change"
  <2>1. CASE b.rows[j].kind = "status_change"
    <3>1. b.rows[i].target = Nothing /\ b.rows[j].target = Nothing
      BY <1>10, <2>1 DEF Stands, TargetIn
    <3>2. Applied(b, w, i, j)
      BY <1>4, <1>7, <1>10, <2>1, <3>1 DEF Applied
    <3>3. QED
      BY <1>10, <3>2
  <2>2. CASE b.rows[j].kind # "status_change"
    <3>1. w.status = c.status /\ c.status = b.rows[i].value.state
      BY <1>2, <1>3, <1>10, <2>2 DEF Judged
    <3>2. Applied(b, w, i, i)
      BY <1>10, <3>1 DEF Applied
    <3>3. QED
      BY <1>10, <3>2
  <2>3. QED
    BY <2>1, <2>2
<1>11. CASE k = i /\ b.rows[i].kind = "hypothesis_status"
  <2>1. PICK h : h = b.rows[i].target
    OBVIOUS
  <2>2. /\ h \in Notes /\ b.rows[h].kind = "hypothesis" /\ c.rows[h] # Absent
        /\ c.rows[h].value.state = b.rows[i].value.state /\ c.rows[h].kind = "hypothesis"
    BY <1>1, <1>5, <1>11, <2>1
  <2>3. CASE b.rows[j].kind = "hypothesis_status" /\ b.rows[j].target = h
    <3>1. Applied(b, w, i, j)
      BY <1>4, <1>8, <1>11, <2>1, <2>3 DEF Applied
    <3>2. QED
      BY <1>11, <3>1
  <2>4. CASE ~(b.rows[j].kind = "hypothesis_status" /\ b.rows[j].target = h)
    <3>1. w.rows[h].value = c.rows[h].value /\ w.rows[h] # Absent
      BY <1>3, <2>2, <2>4 DEF Judged
    <3>2. Applied(b, w, i, i)
      BY <1>11, <2>1, <2>2, <3>1 DEF Applied
    <3>3. QED
      BY <1>11, <3>2
  <2>5. QED
    BY <2>3, <2>4
<1>12. QED
  BY <1>2, <1>9, <1>10, <1>11 DEF TakesEffect

LEMMA JudgeManyApplies ==
    ASSUME NEW b \in Book, Pointed(b), Stands(b), NEW ns, ns[1] \in Notes, ns[2] \in Notes,
           ns[1] # ns[2], NEW to \in {"confirmed", "rejected"},
           NEW res, res = JudgeMany(b, ns, to), res.ok
    PROVE  Applies(b, res.book)
<1>1. PICK first : first = ApplyNext(Done(b), ns[1], to)
  OBVIOUS
<1>2. res = ApplyNext(first, ns[2], to)
  BY <1>1 DEF JudgeMany, Failed
<1>3. Done(b).book = b /\ Done(b).ok
  BY DEF Done
<1>4. PICK i \in Notes : i = ns[1]
  OBVIOUS
<1>5. PICK j \in Notes : j = ns[2]
  OBVIOUS
<1>6. PICK c : c = first.book
  OBVIOUS
<1>7. first.ok
  BY <1>2 DEF ApplyNext
<1>8. first = Done(b) \/ (first = ApplyStatus(b, i, to) /\ b.rows[i] # Absent)
  BY <1>1, <1>3, <1>4 DEF ApplyNext, Present
<1>9. c = b \/ (Judged(b, i, to, c) /\ b.rows[i] # Absent)
  BY <1>3, <1>6, <1>7, <1>8, ApplyStatusJudges
<1>10. c \in Book /\ Pointed(c) /\ Stands(c)
  <2>1. CASE first = Done(b)
    BY <1>3, <1>6, <2>1
  <2>2. CASE first = ApplyStatus(b, i, to) /\ b.rows[i] # Absent
    <3>1. Stands(c) /\ InPlace(b, c)
      BY <1>6, <2>2, ApplyStatusStands, ApplyStatusInPlace
    <3>2. QED
      BY <3>1, PointedInPlace DEF InPlace
  <2>3. QED
    BY <1>8, <2>1, <2>2
<1>11. res = first \/ (res = ApplyStatus(c, j, to) /\ c.rows[j] # Absent)
  BY <1>2, <1>5, <1>6 DEF ApplyNext, Present
<1>12. PICK w : w = res.book
  OBVIOUS
<1>13. w = c \/ (Judged(c, j, to, w) /\ c.rows[j] # Absent)
  BY <1>6, <1>10, <1>11, <1>12, ApplyStatusJudges
<1>14. CASE w = c /\ c = b
  BY <1>12, <1>14 DEF Applies, Taken
<1>15. CASE w = c /\ Judged(b, i, to, c) /\ b.rows[i] # Absent
  BY <1>12, <1>15, JudgedApplies
<1>16. CASE c = b /\ Judged(c, j, to, w) /\ c.rows[j] # Absent
  BY <1>12, <1>16, JudgedApplies
<1>17. CASE Judged(b, i, to, c) /\ b.rows[i] # Absent /\ Judged(c, j, to, w) /\ c.rows[j] # Absent
  BY <1>4, <1>5, <1>12, <1>17, BothApply
<1>18. QED
  BY <1>9, <1>13, <1>14, <1>15, <1>16, <1>17

\* Confirming applies it, whatever the handler.
LEMMA ResultApplies ==
    ASSUME NEW b \in Book, Pointed(b), Stands(b), NEW q, Carries(q), Checked(b, q),
           NEW res, IsResult(b, q, res), res.ok
    PROVE  Applies(b, res.book)
<1>0. ASSUME NEW w, NEW n \in Notes, \A m \in Notes : m # n /\ w.rows[m] # Absent => w.rows[m] = b.rows[m],
             w.rows[n] # Absent /\ b.rows[n].status = "suggested" /\ w.rows[n].status = "confirmed" =>
                 b.rows[n].kind \notin TakesEffect
      PROVE  Applies(b, w)
  BY <1>0 DEF Applies, Taken
<1>1. CASE q.op = "create" /\ res = Create(b, q)
  <2>1. PICK st : st = WriteStatus(q.kind, q.by)
    OBVIOUS
  <2>2. PICK cleared : cleared = IF q.kind = "role" /\ st = "confirmed"
                                 THEN ReplaceRoles(b, q.new.target, q.new.value.word, q.note) ELSE b
    OBVIOUS
  <2>3. cleared \in Book /\ \A n \in Notes : cleared.rows[n] \in {b.rows[n], Absent}
    BY <2>2, ReplaceRolesIs DEF InPlace
  <2>4. PICK row : row = Row(q.kind, q.new, q.by, st)
    OBVIOUS
  <2>5. PICK added : added = [cleared EXCEPT !.rows[q.note] = row]
    OBVIOUS
  <2>6. q.note \in Notes /\ b.rows[q.note] = Absent
        /\ (q.kind = "hypothesis_status" => q.new.target \in Notes)
    BY <1>1 DEF Carries, Checked, Creates
  <2>7. row \in Live /\ row.kind = q.kind /\ row.target = q.new.target /\ row # Absent
    <3>1. Unseen \in Value
      BY DEF Unseen, Value, States
    <3>2. st \in {"suggested", "confirmed"}
      BY <2>1 DEF WriteStatus
    <3>3. row \in Live /\ row.kind = q.kind /\ row.target = q.new.target
      BY <1>1, <2>4, <3>1, <3>2 DEF Row, Live, Authors, Carries
    <3>4. QED
      BY <3>3, LiveRows
  <2>8. /\ added \in Book
        /\ \A n \in Notes : added.rows[n] = IF n = q.note THEN row ELSE cleared.rows[n]
    BY <2>3, <2>5, <2>6, <2>7, LiveRows DEF Book
  <2>9. \A n \in Notes : b.rows[n] # Absent /\ added.rows[n] # Absent => added.rows[n] = b.rows[n]
    BY <2>3, <2>6, <2>8
  <2>10. CASE res.book \in {b, added}
    BY <2>9, <2>10 DEF Applies, Taken
  <2>11. CASE q.kind = "hypothesis_status" /\ res = MoveHypothesis(added, q.note)
    <3>1. PICK h : h = q.new.target
      OBVIOUS
    <3>2. HypothesisMoved(added, q.note, h, res)
      BY <2>6, <2>7, <2>8, <2>11, <3>1, MoveHypothesisIs
    <3>3. \A n \in Notes : res.book.rows[n] # Absent =>
              added.rows[n] # Absent /\ res.book.rows[n].status = added.rows[n].status
      BY <3>2 DEF HypothesisMoved
    <3>4. QED
      BY <2>9, <3>3 DEF Applies, Taken
  <2>12. QED
    BY <1>1, <2>1, <2>2, <2>4, <2>5, <2>10, <2>11 DEF Create, Done, Failed
<1>2. CASE q.op = "edit" /\ res = Done(Edit(b, q))
  <2>1. PICK was : was = b.rows[q.note]
    OBVIOUS
  <2>2. q.note \in Notes /\ was \in Live /\ ProposedIn(b, q.note)
    BY <1>2, <2>1, BookRows DEF Carries, Checked, Present, Stands
  <2>3. PICK vouched : vouched = IF q.by = "human" THEN q.new.value ELSE was.vouched
    OBVIOUS
  <2>4. PICK row : row = [was EXCEPT !.target = q.new.target, !.value = q.new.value,
                              !.status = EditedStatus(was, q.by), !.vouched = vouched]
    OBVIOUS
  <2>5. res.book = [b EXCEPT !.rows[q.note] = row]
    BY <1>2, <2>1, <2>3, <2>4 DEF Edit, Done
  <2>6. \A n \in Notes : res.book.rows[n] = IF n = q.note THEN row ELSE b.rows[n]
    BY <2>2, <2>5 DEF Book
  <2>7. row.status = EditedStatus(was, q.by)
    BY <2>2, <2>4 DEF Live
  <2>8. was.status = "suggested" /\ row.status = "confirmed" => was.kind \notin TakesEffect
    BY <2>1, <2>2, <2>7, LiveRows DEF EditedStatus, WriteStatus, ProposedIn, TakesEffect
  <2>9. QED
    BY <1>0, <2>1, <2>2, <2>6, <2>8
<1>3. CASE q.op = "remove" /\ res = Done([b EXCEPT !.rows[q.note] = Absent])
  <2>1. \A n \in Notes : res.book.rows[n] \in {b.rows[n], Absent}
    BY <1>3 DEF Done, Book
  <2>2. QED
    BY <2>1 DEF Applies, Taken
<1>4. CASE q.op = "judge" /\ res = ApplyStatus(b, q.note, q.to)
  <2>1. PICK n \in Notes : n = q.note
    BY <1>4 DEF Carries
  <2>2. PICK to \in {"confirmed", "rejected"} : to = q.to
    BY <1>4 DEF Carries
  <2>3. b.rows[n] # Absent
    BY <1>4, <2>1 DEF Checked, Present
  <2>4. Judged(b, n, to, res.book)
    BY <1>4, <2>1, <2>2, <2>3, ApplyStatusJudges
  <2>5. QED
    BY <2>3, <2>4, JudgedApplies
<1>5. CASE q.op = "judge_many" /\ res = JudgeMany(b, q.notes, q.to)
  BY <1>5, JudgeManyApplies DEF Carries
<1>6. CASE q.op = "reopen" /\ res = Done([b EXCEPT !.rows[q.note].status = "suggested"])
  <2>1. PICK row : row = [b.rows[q.note] EXCEPT !.status = "suggested"]
    OBVIOUS
  <2>2. q.note \in Notes /\ b.rows[q.note] \in Live
    BY <1>6, BookRows DEF Carries, Checked, Present
  <2>3. row.status = "suggested"
    BY <2>1, <2>2 DEF Live
  <2>4. \A n \in Notes : res.book.rows[n] = IF n = q.note THEN row ELSE b.rows[n]
    BY <1>6, <2>1, <2>2 DEF Book, Done
  <2>5. QED
    BY <1>0, <2>2, <2>3, <2>4
<1>7. CASE q.op = "move" /\ res = Move(b, q)
  <2>1. \A n \in Notes : b.rows[n] # Absent => res.book.rows[n] = b.rows[n]
    <3>1. CASE Suggests(q)
      <4>1. q.note \in Notes /\ b.rows[q.note] = Absent
        BY <1>7, <3>1 DEF Carries, Checked, Creates
      <4>2. QED
        BY <1>7, <3>1, <4>1 DEF Move, Done, Book
    <3>2. CASE ~Suggests(q)
      BY <1>7, <3>2 DEF Move, Done, Failed, Book
    <3>3. QED
      BY <3>1, <3>2
  <2>2. QED
    BY <2>1 DEF Applies, Taken
<1>8. CASE /\ q.op = "decide"
           /\ \E closes \in BOOLEAN :
                 res = Done([Marked(b, q.note, "confirmed")
                               EXCEPT !.status = IF closes THEN "closed" ELSE @])
  <2>1. PICK closes \in BOOLEAN :
            res = Done([Marked(b, q.note, "confirmed")
                          EXCEPT !.status = IF closes THEN "closed" ELSE @])
    BY <1>8
  <2>2. q.note \in Notes /\ b.rows[q.note].kind = "decision_proposal" /\ b.rows[q.note] # Absent
    BY <1>8 DEF Carries, Checked, Present
  <2>3. PICK d : d = Marked(b, q.note, "confirmed")
    OBVIOUS
  <2>4. d \in Book /\ \A n \in Notes : n # q.note => d.rows[n] = b.rows[n]
    BY <2>2, <2>3, MarkedIs DEF InPlace
  <2>5. res.book.rows = d.rows
    BY <2>1, <2>3, <2>4 DEF Done, Book
  <2>6. QED
    BY <1>0, <2>2, <2>4, <2>5 DEF TakesEffect
<1>9. CASE q.op = "reopen_case" /\ res = Done([b EXCEPT !.status = "analysis"])
  <2>1. res.book.rows = b.rows
    BY <1>9 DEF Done, Book
  <2>2. QED
    BY <2>1 DEF Applies, Taken
<1>10. QED
  BY <1>1, <1>2, <1>3, <1>4, <1>5, <1>6, <1>7, <1>8, <1>9 DEF IsResult

\* On a closed case a judgement writes the one task it is about.
LEMMA ApplyStatusClosed ==
    ASSUME NEW b \in Book, b.status = "closed", NEW n \in Notes, b.rows[n] # Absent,
           NEW to \in {"confirmed", "rejected"}, NEW w, w = ApplyStatus(b, n, to).book
    PROVE  /\ w.status = "closed"
           /\ \A m \in Notes : w.rows[m] # b.rows[m] => m = n /\ b.rows[n].kind = "task"
<1>1. CASE ~Judgeable(b, n, to)
  BY <1>1 DEF ApplyStatus, Failed
<1>2. CASE Judgeable(b, n, to)
  <2>1. b.rows[n].kind = "task"
    BY <1>2 DEF Judgeable, Guard, FreezeExempt
  <2>2. PICK d : d = Marked(b, n, to)
    OBVIOUS
  <2>3. /\ d.status = b.status /\ d.rows[n].kind = "task"
        /\ \A m \in Notes : m # n => d.rows[m] = b.rows[m]
    BY <2>1, <2>2, MarkedIs
  <2>4. w = d
    BY <1>2, <2>2, <2>3 DEF ApplyStatus, Effect, Done
  <2>5. QED
    BY <2>1, <2>3, <2>4
<1>3. QED
  BY <1>1, <1>2

\* A closed case takes its tasks and nothing else, whatever the handler.
LEMMA ResultClosed ==
    ASSUME NEW b \in Book, Pointed(b), b.status = "closed",
           NEW q, Carries(q), Checked(b, q), NEW res, IsResult(b, q, res)
    PROVE  \A n \in Notes : res.book.rows[n] # b.rows[n] =>
               "task" \in {b.rows[n].kind, res.book.rows[n].kind}
<1>1. CASE q.op = "create" /\ res = Create(b, q)
  <2>1. q.kind = "task" /\ q.note \in Notes
    BY <1>1 DEF Carries, Checked, Guard, FreezeExempt
  <2>2. PICK row : row = Row(q.kind, q.new, q.by, WriteStatus(q.kind, q.by))
    OBVIOUS
  <2>3. res.book = [b EXCEPT !.rows[q.note] = row] /\ row.kind = "task"
    BY <1>1, <2>1, <2>2 DEF Create, Done, Row
  <2>4. \A n \in Notes : res.book.rows[n] = IF n = q.note THEN row ELSE b.rows[n]
    BY <2>1, <2>3 DEF Book
  <2>5. QED
    BY <2>3, <2>4
<1>2. CASE q.op = "edit" /\ res = Done(Edit(b, q))
  <2>1. b.rows[q.note].kind = "task" /\ q.note \in Notes
    BY <1>2 DEF Carries, Checked, Guard, FreezeExempt
  <2>2. \A n \in Notes : n # q.note => res.book.rows[n] = b.rows[n]
    BY <1>2, <2>1 DEF Edit, Done, Book
  <2>3. QED
    BY <2>1, <2>2
<1>3. CASE q.op = "remove" /\ res = Done([b EXCEPT !.rows[q.note] = Absent])
  <2>1. b.rows[q.note].kind = "task" /\ q.note \in Notes
    BY <1>3 DEF Carries, Checked, Guard, FreezeExempt
  <2>2. \A n \in Notes : n # q.note => res.book.rows[n] = b.rows[n]
    BY <1>3, <2>1 DEF Done, Book
  <2>3. QED
    BY <2>1, <2>2
<1>4. CASE q.op = "judge" /\ res = ApplyStatus(b, q.note, q.to)
  <2>1. q.note \in Notes /\ q.to \in {"confirmed", "rejected"} /\ b.rows[q.note] # Absent
    BY <1>4 DEF Carries, Checked, Present
  <2>2. \A m \in Notes : res.book.rows[m] # b.rows[m] => m = q.note /\ b.rows[q.note].kind = "task"
    BY <1>4, <2>1, ApplyStatusClosed
  <2>3. QED
    BY <2>2
<1>5. CASE q.op = "judge_many" /\ res = JudgeMany(b, q.notes, q.to)
  <2>1. PICK i \in Notes, j \in Notes : i = q.notes[1] /\ j = q.notes[2]
    BY <1>5 DEF Carries
  <2>2. PICK to \in {"confirmed", "rejected"} : to = q.to
    BY <1>5 DEF Carries
  <2>3. PICK first : first = ApplyNext(Done(b), i, to)
    OBVIOUS
  <2>4. PICK c : c = first.book
    OBVIOUS
  <2>5. PICK w : w = ApplyNext(first, j, to).book
    OBVIOUS
  <2>6. Done(b).book = b
    BY DEF Done
  <2>7. c = b \/ (b.rows[i] # Absent /\ c = ApplyStatus(b, i, to).book)
    BY <2>3, <2>4, <2>6 DEF ApplyNext, Present
  <2>8. /\ c.status = "closed"
        /\ \A m \in Notes : c.rows[m] # b.rows[m] => b.rows[m].kind = "task"
    BY <2>7, ApplyStatusClosed
  <2>9. InPlace(b, c) /\ c \in Book
    BY <2>3, <2>4, <2>6, ApplyNextInPlace DEF InPlace
  <2>10. w = c \/ (c.rows[j] # Absent /\ w = ApplyStatus(c, j, to).book)
    BY <2>4, <2>5 DEF ApplyNext, Present
  <2>11. \A m \in Notes : w.rows[m] # c.rows[m] => c.rows[m] # Absent /\ c.rows[m].kind = "task"
    BY <2>8, <2>9, <2>10, ApplyStatusClosed
  <2>12. \A m \in Notes : w.rows[m] # b.rows[m] => b.rows[m].kind = "task"
    BY <2>8, <2>9, <2>11 DEF InPlace
  <2>13. res.book \in {b, w}
    BY <1>5, <2>1, <2>2, <2>3, <2>5 DEF JudgeMany, Failed
  <2>14. QED
    BY <2>12, <2>13
<1>6. CASE q.op = "reopen" /\ res = Done([b EXCEPT !.rows[q.note].status = "suggested"])
  <2>1. b.rows[q.note].kind = "task" /\ q.note \in Notes
    BY <1>6 DEF Carries, Checked, Guard, FreezeExempt
  <2>2. \A n \in Notes : n # q.note => res.book.rows[n] = b.rows[n]
    BY <1>6, <2>1 DEF Done, Book
  <2>3. QED
    BY <2>1, <2>2
<1>7. CASE q.op = "reopen_case" /\ res = Done([b EXCEPT !.status = "analysis"])
  <2>1. res.book.rows = b.rows
    BY <1>7 DEF Done, Book
  <2>2. QED
    BY <2>1
<1>8. q.op \notin {"move", "decide"}
  BY DEF Checked
<1>9. QED
  BY <1>1, <1>2, <1>3, <1>4, <1>5, <1>6, <1>7, <1>8 DEF IsResult

\* The three promises about one step of a lone request.
LEMMA LoneStep ==
    ASSUME ~Memory, IInv, Alone, Stands(Now), Next
    PROVE  /\ (\E n \in Notes : rows[n].kind = "hypothesis" /\ rows'[n].kind = "hypothesis"
                                 /\ rows'[n].value.state # rows[n].value.state)
                 /\ "hypothesis_status" \in SuggestKinds => ByPerson
           /\ status' # status /\ "status_change" \in SuggestKinds => ByPerson
           /\ Applies(Now, Now')
           /\ status = "closed" =>
                 \A n \in Notes : rows'[n] # rows[n] => "task" \in {rows[n].kind, rows'[n].kind}
<1>1. PICK r \in Requests : (\E q \in Request : Load(r, q)) \/ Handles(r) \/ Abandon(r)
  BY NextIs
<1>2. /\ Now.rows = rows /\ Now.status = status /\ (Now').rows = rows' /\ (Now').status = status'
      /\ Applies(Now, Now)
  BY DEF Now, Applies, Taken
<1>3. CASE (\E q \in Request : Load(r, q)) \/ Abandon(r)
  <2>1. rows' = rows /\ status' = status /\ Now' = Now
    BY <1>3 DEF Load, Abandon, Now
  <2>2. QED
    BY <1>2, <2>1
<1>4. CASE Handles(r)
  <2>1. PICK q, res : AloneStep(r, q, res)
    BY <1>4, AloneHandles
  <2>2. /\ Carries(q) /\ Checked(Now, q) /\ Now \in Book /\ Pointed(Now) /\ IsResult(Now, q, res)
        /\ Now' \in {res.book, Now}
        /\ res.ok \/ Now' = Now
        /\ session[r] # Idle /\ session'[r] = Idle /\ q = session[r].req
    BY <2>1 DEF AloneStep, Busy
  <2>3. q.by = "human" => ByPerson
    BY <2>2 DEF ByPerson, Ends
  <2>4. q.by \in {"human", "agent"}
    BY <2>2 DEF Carries, Authors
  <2>5. PICK b : b = Now
    OBVIOUS
  <2>6. PICK w : w = res.book
    OBVIOUS
  <2>7. q.by = "agent" =>
            /\ "hypothesis_status" \in SuggestKinds =>
                  \A n \in Notes : b.rows[n].kind = "hypothesis" /\ w.rows[n] # Absent =>
                      w.rows[n].value.state = b.rows[n].value.state
            /\ "status_change" \in SuggestKinds => w.status = b.status
    BY <2>2, <2>5, <2>6, AgentResult
  <2>8. res.ok => Applies(b, w)
    BY <2>2, <2>5, <2>6, ResultApplies
  <2>9. b.status = "closed" =>
            \A n \in Notes : w.rows[n] # b.rows[n] => "task" \in {b.rows[n].kind, w.rows[n].kind}
    BY <2>2, <2>5, <2>6, ResultClosed
  <2>10. CASE Now' = Now
    BY <1>2, <2>10
  <2>11. CASE Now' = w /\ res.ok
    BY <1>2, <2>3, <2>4, <2>5, <2>7, <2>8, <2>9, <2>11, NoRow
  <2>12. QED
    BY <2>2, <2>6, <2>10, <2>11
<1>5. QED
  BY <1>1, <1>3, <1>4

\* As long as requests do not overlap, something takes effect when a person confirms
\* it, then and there, and only on a case that is not closed: an agent moves no
\* hypothesis and no case, and of what is confirmed together the last has its way.
THEOREM EffectsAreVouchedAlone ==
    ASSUME ~Memory, NoRoleEdited
    PROVE  Spec => EffectsAreVouched
<1>1. Spec => []StandsAlone
  BY AlwaysAlone
<1>2. IInv /\ StandsAlone /\ [Next]_vars =>
        [Alone =>
          /\ (\E n \in Notes : rows[n].kind = "hypothesis" /\ rows'[n].kind = "hypothesis"
                                /\ rows'[n].value.state # rows[n].value.state)
                /\ "hypothesis_status" \in SuggestKinds => ByPerson
          /\ status' # status /\ "status_change" \in SuggestKinds => ByPerson]_vars
  BY LoneStep DEF StandsAlone
<1>3. IInv /\ StandsAlone /\ [Next]_vars =>
        [\A n \in Notes : Alone /\ Confirms(n) /\ rows[n].kind \in {"hypothesis_status", "status_change"} =>
           \E m \in Notes :
              /\ Confirms(m)
              /\ rows[m].kind = rows[n].kind /\ rows[m].target = rows[n].target
              /\ IF rows[n].kind = "status_change" THEN status' = rows[m].value.state
                 ELSE /\ rows'[rows[n].target] # Absent
                      /\ rows'[rows[n].target].value.state = rows[m].value.state]_vars
  <2>. SUFFICES ASSUME IInv, StandsAlone, Next, Alone, NEW n \in Notes, Confirms(n),
                       rows[n].kind \in {"hypothesis_status", "status_change"}
       PROVE  \E m \in Notes :
                 /\ Confirms(m)
                 /\ rows[m].kind = rows[n].kind /\ rows[m].target = rows[n].target
                 /\ IF rows[n].kind = "status_change" THEN status' = rows[m].value.state
                    ELSE /\ rows'[rows[n].target] # Absent
                         /\ rows'[rows[n].target].value.state = rows[m].value.state
    OBVIOUS
  <2>1. Applies(Now, Now')
    BY LoneStep DEF StandsAlone
  <2>2. Now.rows = rows /\ Now.status = status /\ (Now').rows = rows' /\ (Now').status = status'
    BY DEF Now
  <2>3. Taken(Now, Now', n) /\ Now.rows[n].kind \in TakesEffect
    BY <2>2 DEF Confirms, Taken, TakesEffect
  <2>4. PICK m \in Notes : Applied(Now, Now', n, m)
    BY <2>1, <2>3 DEF Applies
  <2>5. QED
    BY <2>2, <2>4 DEF Applied, Taken, Confirms
<1>4. IInv /\ StandsAlone /\ [Next]_vars =>
        [Alone /\ status = "closed" =>
           \A n \in Notes : rows'[n] # rows[n] => "task" \in {rows[n].kind, rows'[n].kind}]_vars
  BY LoneStep DEF StandsAlone
<1>5. Spec => AgentMovesNothing
  BY <1>1, <1>2, Always, PTL DEF Spec, AgentMovesNothing
<1>6. Spec => ConfirmingApplies
  BY <1>1, <1>3, Always, PTL DEF Spec, ConfirmingApplies
<1>7. Spec => ClosedTakesTasks
  BY <1>1, <1>4, Always, PTL DEF Spec, ClosedTakesTasks
<1>8. QED
  BY <1>5, <1>6, <1>7 DEF EffectsAreVouched

================================================================================
