--------------------------- MODULE CaseItemsProofs ---------------------------
(***************************************************************************)
(* Proofs about CaseItems, for every set of items, contents, labels and    *)
(* requests: however requests overlap, the versions of an item are         *)
(* numbered, stored and kept as evidence; when they do not overlap, what a *)
(* case has once is made once and a deleted case leaves nothing behind.    *)
(*                                                                         *)
(* A request commits over rows it has not loaded.  The invariant says how  *)
(* far the rows may have moved away from the copy a request loaded (its    *)
(* item is still there, with at least as many versions, and its blob is    *)
(* stored) and that they have not moved at all when it is alone.           *)
(*                                                                         *)
(* The second part is about CaseCatalog as MCCaseItems runs it: the types  *)
(* cases are made from, the alerts they are opened for and who reads them. *)
(***************************************************************************)
EXTENDS MCCaseItems, Sequences, FiniteSetTheorems, TLAPS

Busy == {r \in Requests : session[r] # Idle}

\* The request has loaded what it is about.
Working(r) == session[r].pc \in {"loaded", "stored"}

Creating(r) == Working(r) /\ session[r].req.op = "create"

\* The versions of one item, and where their bytes are.
NumberedRow(row) ==
    /\ \A v \in row.versions : v.n \in 1 .. row.current
    /\ \A n \in 1 .. row.current : \E v \in row.versions : v.n = n
    /\ \A v, w \in row.versions : v.n = w.n => v = w

StoredRow(i, row) == \A v \in row.versions : Key(i, v.content) \in blobs

\* The item is in order.
Sound(i, row) == row.there => NumberedRow(row) /\ StoredRow(i, row)

\* What an overlapping request may rely on.
MayGoOn(r) ==
    LET q == session[r].req
        seen == session[r].seen
    IN /\ q.op = "create" => ~items[q.item].there
       /\ q.op \notin OfTheCase \cup {"create"} =>
            /\ seen.there /\ items[q.item].there
            /\ seen.current <= items[q.item].current
       /\ session[r].pc = "stored" /\ Writes(q) => Key(q.item, q.content) \in blobs

Kept ==
    /\ \A i \in Items : Sound(i, items[i])
    /\ EvidenceKept
    /\ \A e \in evidence : items[e[1]].there
    /\ \A r \in Requests : session[r].pc = "purging" => ~case.alive
    /\ case.alive => ~case.purged
    /\ \A r \in Requests : Working(r) /\ Writes(session[r].req) =>
          session[r].req.content \in Contents
    /\ case.alive => \A r \in Requests : Working(r) => MayGoOn(r)
    /\ ~case.alive => evidence = {} /\ \A i \in Items : items[i] = Absent
    /\ \A r, s \in Requests :
          Creating(r) /\ Creating(s) /\ session[r].req.item = session[s].req.item => r = s

\* What a request that is alone has in hand is still so.
StillSo(r) ==
    LET q == session[r].req IN
    /\ Working(r) =>
         /\ q.op \notin OfTheCase => session[r].seen = items[q.item]
         /\ q.op \in {"create", "restore"} => IsOnlyOne(q.item)
         /\ q.op = "pin" => Pinnable(items[q.item], q)
    /\ (Working(r) \/ session[r].pc = "briefed") /\ q.op = "save" =>
         TextDiffers(q.item, q.content)

AloneKept ==
    Alone =>
        /\ \A r, s \in Busy : r = s
        /\ OneOfAKind
        /\ ~Volume /\ case.purged => blobs = {}
        /\ case.alive => \A r \in Busy : StillSo(r)
        /\ ~case.alive => \A r \in Busy : session[r].pc = "purging"

IInv == TypeOK /\ IsFiniteSet(Busy) /\ Kept /\ AloneKept

-------------------------------------------------------------------------------
(* Data. *)

LEMMA Things ==
    /\ Absent \in Item /\ Absent.there = FALSE /\ Idle.pc = "idle" /\ Idle \in Session
    /\ MaxVersions \in Nat /\ NoContent \notin Contents /\ Unpinned \notin Labels
BY ItemsBoundAssumption, ValuesAssumption DEF Absent, Item, Idle, Session

LEMMA RowFields ==
    ASSUME NEW row \in Item, row.there
    PROVE  /\ row \in [there : {TRUE}, live : BOOLEAN,
                       status : {"suggested", "confirmed", "rejected"},
                       current : 0 .. MaxVersions, versions : SUBSET Version]
           /\ row.there = TRUE /\ row.live \in BOOLEAN /\ row.current \in 0 .. MaxVersions
           /\ row.current \in Nat /\ row.versions \subseteq Version
           /\ row.status \in {"suggested", "confirmed", "rejected"}
<1>1. row \in [there : {TRUE}, live : BOOLEAN,
               status : {"suggested", "confirmed", "rejected"},
               current : 0 .. MaxVersions, versions : SUBSET Version]
  BY Things DEF Item
<1>2. row.current \in 0 .. MaxVersions
  BY <1>1
<1>3. row.current \in Nat
  BY <1>2, Things
<1>4. QED
  BY <1>1, <1>2, <1>3

\* What a request carries.
LEMMA RequestFields ==
    ASSUME NEW q \in Request
    PROVE  /\ q.op \notin OfTheCase => q.item \in Items
           /\ q.op = "create" => q.content \in Contents \cup {NoContent}
                                 /\ q.status \in {"suggested", "confirmed"}
           /\ q.op \in Adding => q.content \in Contents
           /\ q.op = "pin" => /\ q.content \in Contents \cup {NoContent} /\ q.label \in Labels
                              /\ q.n \in 0 .. MaxVersions
           /\ q.op = "judge" => q.to \in {"confirmed", "rejected"}
           /\ q.op \in (Ops \ {"brief"}) \cup {"save"}
<1>1. CASE q \in [op : {"create"}, item : Items, content : Contents \cup {NoContent},
                  status : {"suggested", "confirmed"}]
  BY <1>1 DEF OfTheCase, Adding, Ops
<1>2. CASE q \in [op : {"add", "save"}, item : Items, content : Contents]
  BY <1>2 DEF OfTheCase, Adding, Ops
<1>3. CASE q \in [op : {"remove", "restore", "unreject"}, item : Items]
  BY <1>3 DEF OfTheCase, Adding, Ops
<1>4. CASE q \in [op : {"pin"}, item : Items, n : 0 .. MaxVersions,
                  content : Contents \cup {NoContent}, label : Labels]
  BY <1>4 DEF OfTheCase, Adding, Ops
<1>5. CASE q \in [op : {"judge"}, item : Items, to : {"confirmed", "rejected"}]
  BY <1>5 DEF OfTheCase, Adding, Ops
<1>6. CASE q \in [op : {"close", "reopen", "delete"}]
  BY <1>6 DEF OfTheCase, Adding, Ops
<1>7. QED
  BY <1>1, <1>2, <1>3, <1>4, <1>5, <1>6 DEF Request

\* Where a request is.
LEMMA SessionFields ==
    ASSUME NEW s \in Session
    PROVE  /\ s.pc \in {"idle", "briefed", "loaded", "stored", "purging"}
           /\ s.pc = "idle" <=> s = Idle
           /\ s.pc \in {"briefed", "loaded", "stored"} => s.req \in Request
           /\ s.pc \in {"loaded", "stored"} =>
                /\ s.seen \in Item
                /\ s \in [pc : {"loaded", "stored"}, req : Request, seen : Item]
<1>1. CASE s = Idle
  BY <1>1, Things
<1>2. CASE s \in [pc : {"briefed"}, req : Request]
  BY <1>2, Things
<1>3. CASE s \in [pc : {"loaded", "stored"}, req : Request, seen : Item]
  BY <1>3, Things
<1>4. CASE s \in [pc : {"purging"}]
  BY <1>4, Things
<1>5. QED
  BY <1>1, <1>2, <1>3, <1>4 DEF Session

LEMMA WorkingFields ==
    ASSUME TypeOK, NEW r \in Requests, Working(r)
    PROVE  /\ session[r].req \in Request /\ session[r].seen \in Item /\ r \in Busy
           /\ session[r].req.op \notin OfTheCase => session[r].req.item \in Items
<1>1. session[r] \in Session
  BY DEF TypeOK
<1>2. session[r].req \in Request /\ session[r].seen \in Item /\ session[r] # Idle
  BY <1>1, SessionFields, Things DEF Working
<1>3. QED
  BY <1>2, RequestFields DEF Busy

\* A request is over: the others stay where they are.
LEMMA OneEnds ==
    ASSUME TypeOK, IsFiniteSet(Busy), NEW r \in Requests, session' = [session EXCEPT ![r] = Idle]
    PROVE  /\ session' \in [Requests -> Session]
           /\ Busy' = Busy \ {r} /\ IsFiniteSet(Busy')
           /\ \A s \in Requests : session'[s] = IF s = r THEN Idle ELSE session[s]
           /\ \A s \in Requests : session'[s].pc # "idle" => s # r
<1>1. session' \in [Requests -> Session]
  BY Things DEF TypeOK
<1>2. \A s \in Requests : session'[s] = IF s = r THEN Idle ELSE session[s]
  BY DEF TypeOK
<1>3. Busy' = Busy \ {r}
  BY <1>2 DEF Busy
<1>4. IsFiniteSet(Busy')
  BY <1>3, FS_Subset
<1>5. QED
  BY <1>1, <1>2, <1>3, <1>4, Things

-------------------------------------------------------------------------------
(* A commit: the rows of one item become row. *)

\* What a handler may make of the rows of item i.
MayBecome(i, row) ==
    /\ row \in Item /\ row.there /\ Sound(i, row)
    /\ items[i].there =>
         /\ items[i].current <= row.current
         /\ \A v \in items[i].versions : v.pin # Unpinned =>
              \E w \in row.versions : w.n = v.n /\ w.content = v.content /\ w.pin # Unpinned
    /\ Alone /\ row.live => Live(i) \/ IsOnlyOne(i)

LEMMA SaveKeeps ==
    ASSUME IInv, NEW r \in Requests, Working(r), case.alive,
           session[r].req.op \notin OfTheCase,
           NEW row, MayBecome(session[r].req.item, row), Save(r, row)
    PROVE  IInv'
<1>. PICK i : i = session[r].req.item
  OBVIOUS
<1>1. i \in Items /\ row \in Item /\ row.there /\ MayBecome(i, row)
  BY WorkingFields DEF IInv, MayBecome
<1>2. /\ items' = [items EXCEPT ![i] = row]
      /\ session' = [session EXCEPT ![r] = Idle]
      /\ UNCHANGED <<case, evidence, blobs, scenario>>
  BY DEF Save
<1>3. /\ items' \in [Items -> Item]
      /\ \A j \in Items : items'[j] = IF j = i THEN row ELSE items[j]
  BY <1>1, <1>2 DEF IInv, TypeOK
<1>4. /\ session' \in [Requests -> Session] /\ Busy' = Busy \ {r} /\ IsFiniteSet(Busy')
      /\ \A s \in Requests : session'[s] = IF s = r THEN Idle ELSE session[s]
  BY <1>2, OneEnds DEF IInv
<1>5. TypeOK'
  BY <1>2, <1>3, <1>4 DEF IInv, TypeOK
<1>6. \A s \in Requests : Working(s)' => s # r /\ Working(s) /\ session'[s] = session[s]
  BY <1>4, Things DEF Working
<1>7. Kept'
  <2>1. \A j \in Items : Sound(j, items[j])'
    BY <1>1, <1>2, <1>3 DEF IInv, Kept, MayBecome, Sound, NumberedRow, StoredRow
  <2>2. \A e \in evidence : e[1] \in Items
    BY DEF IInv, TypeOK
  <2>3. ASSUME NEW e \in evidence
        PROVE  \E w \in Numbered(items'[e[1]], e[2]) :
                  w.pin # Unpinned /\ Key(e[1], w.content) \in blobs
    <3>1. PICK v \in Numbered(items[e[1]], e[2]) :
            v.pin # Unpinned /\ Key(e[1], v.content) \in blobs
      BY DEF IInv, Kept, EvidenceKept
    <3>2. items[e[1]].there /\ v \in items[e[1]].versions /\ v.n = e[2]
      BY <3>1 DEF IInv, Kept, Numbered
    <3>3. CASE e[1] # i
      BY <1>3, <2>2, <3>1, <3>3
    <3>4. CASE e[1] = i
      <4>1. PICK w \in row.versions : w.n = v.n /\ w.content = v.content /\ w.pin # Unpinned
        BY <1>1, <3>1, <3>2, <3>4 DEF MayBecome
      <4>2. items'[e[1]] = row
        BY <1>1, <1>3, <3>4
      <4>3. w \in Numbered(row, e[2]) /\ Key(e[1], w.content) \in blobs
        BY <3>1, <3>2, <4>1 DEF Numbered
      <4>4. QED
        BY <4>1, <4>2, <4>3
    <3>5. QED
      BY <3>3, <3>4
  <2>4. EvidenceKept'
    BY <1>2, <2>3 DEF EvidenceKept
  <2>5. \A e \in evidence' : items'[e[1]].there
    BY <1>1, <1>2, <1>3, <2>2 DEF IInv, Kept
  <2>6. \A s \in Requests : session'[s].pc = "purging" => ~case'.alive
    BY <1>2, <1>4, Things DEF IInv, Kept
  <2>7. case'.alive => ~case'.purged
    BY <1>2 DEF IInv, Kept
  <2>8. ASSUME NEW s \in Requests, Working(s)'
        PROVE  MayGoOn(s)'
    <3>. PICK q, seen : q = session[s].req /\ seen = session[s].seen
      OBVIOUS
    <3>1. s # r /\ Working(s) /\ session'[s] = session[s] /\ MayGoOn(s)
      BY <1>6, <2>8 DEF IInv, Kept
    <3>2. q \in Request /\ seen \in Item /\ (q.op \notin OfTheCase => q.item \in Items)
      BY <3>1, WorkingFields DEF IInv
    <3>3. CASE q.op \in OfTheCase
      BY <1>2, <3>1, <3>3 DEF MayGoOn, OfTheCase
    <3>4. CASE q.op = "create"
      <4>1. q.item \in Items
        BY <3>2, <3>4 DEF OfTheCase
      <4>2. q.item # i
        <5>1. CASE session[r].req.op = "create"
          BY <3>1, <3>4, <5>1 DEF IInv, Kept, Creating
        <5>2. CASE session[r].req.op # "create"
          <6>1. items[i].there
            BY <5>2 DEF IInv, Kept, MayGoOn
          <6>2. ~items[q.item].there
            BY <3>1, <3>4 DEF MayGoOn
          <6>3. QED
            BY <6>1, <6>2
        <5>3. QED
          BY <5>1, <5>2
      <4>3. items'[q.item] = items[q.item]
        BY <1>3, <4>1, <4>2
      <4>4. QED
        BY <1>2, <3>1, <3>4, <4>3 DEF MayGoOn, OfTheCase
    <3>5. CASE q.op \notin OfTheCase \cup {"create"}
      <4>1. /\ q.item \in Items /\ seen.there /\ items[q.item].there
            /\ seen.current <= items[q.item].current
        BY <3>1, <3>2, <3>5 DEF MayGoOn
      <4>2. items'[q.item].there /\ seen.current <= items'[q.item].current
        <5>1. CASE q.item # i
          BY <1>3, <4>1, <5>1
        <5>2. CASE q.item = i
          <6>1. items[i].current <= row.current
            BY <1>1, <4>1, <5>2 DEF MayBecome
          <6>2. items[i] \in Item
            BY <1>1 DEF IInv, TypeOK
          <6>3. seen.current \in Nat /\ items[i].current \in Nat /\ row.current \in Nat
            BY <1>1, <3>2, <4>1, <5>2, <6>2, RowFields
          <6>4. seen.current <= row.current
            BY <4>1, <5>2, <6>1, <6>3
          <6>5. QED
            BY <1>1, <1>3, <4>1, <5>2, <6>4
        <5>3. QED
          BY <5>1, <5>2
      <4>3. QED
        BY <1>2, <3>1, <3>5, <4>1, <4>2 DEF MayGoOn
    <3>6. QED
      BY <3>3, <3>4, <3>5
  <2>9. ~case'.alive => evidence' = {} /\ \A j \in Items : items'[j] = Absent
    BY <1>2
  <2>10. (\A s, t \in Requests :
            Creating(s) /\ Creating(t) /\ session[s].req.item = session[t].req.item => s = t)'
    BY <1>6 DEF IInv, Kept, Creating
  <2>11. (\A s \in Requests : Working(s) /\ Writes(session[s].req) =>
            session[s].req.content \in Contents)'
    BY <1>6 DEF IInv, Kept, Writes, Freezes
  <2>12. QED
    BY <2>1, <2>4, <2>5, <2>6, <2>7, <2>8, <2>9, <2>10, <2>11 DEF Kept
<1>8. AloneKept'
  <2>. SUFFICES ASSUME Alone
       PROVE  /\ (\A s, t \in Busy : s = t)'
              /\ OneOfAKind'
              /\ ~Volume /\ case'.purged => blobs' = {}
              /\ case'.alive => (\A s \in Busy : StillSo(s))'
              /\ ~case'.alive => (\A s \in Busy : session[s].pc = "purging")'
    BY <1>2 DEF AloneKept, Alone
  <2>1. Busy' = {}
    BY <1>4, WorkingFields DEF IInv, AloneKept
  <2>2. OneOfAKind'
    <3>1. \A j \in Items : Live(j)' <=> IF j = i THEN row.live ELSE Live(j)
      BY <1>1, <1>3 DEF Live
    <3>2. row.live => Live(i) \/ IsOnlyOne(i)
      BY <1>1 DEF MayBecome
    <3>3. OneOfAKind
      BY DEF IInv, AloneKept
    <3>4. \A j \in Items \ {i} : row.live /\ Live(j) =>
             ~({i, j} \subseteq Briefs \/ {i, j} \subseteq References)
      BY <1>1, <3>2, <3>3 DEF IsOnlyOne, OneOfAKind
    <3>5. ASSUME NEW j \in Items, NEW k \in Items, Live(j)', Live(k)', j # k
          PROVE  ~({j, k} \subseteq Briefs \/ {j, k} \subseteq References)
      <4>1. CASE j # i /\ k # i
        BY <3>1, <3>3, <3>5, <4>1 DEF OneOfAKind
      <4>2. CASE j = i
        BY <3>1, <3>4, <3>5, <4>2
      <4>3. CASE k = i
        <5>1. ~({i, j} \subseteq Briefs \/ {i, j} \subseteq References)
          BY <3>1, <3>4, <3>5, <4>3
        <5>2. QED
          BY <4>3, <5>1
      <4>4. QED
        BY <4>1, <4>2, <4>3
    <3>6. QED
      BY <3>5 DEF OneOfAKind
  <2>3. ~case'.purged
    BY <1>2 DEF IInv, Kept
  <2>4. QED
    BY <1>2, <2>1, <2>2, <2>3
<1>9. QED
  BY <1>4, <1>5, <1>7, <1>8 DEF IInv

-------------------------------------------------------------------------------
(* The handlers. *)

\* A version added under a number that is free takes the next number of the item.
LEMMA WithVersionSound ==
    ASSUME NEW i \in Items, NEW row \in Item, row.there, Sound(i, row),
           NEW seen, seen.current \in Nat, seen.current <= row.current,
           NextNumber(seen) <= MaxVersions, Numbered(row, NextNumber(seen)) = {},
           NEW c \in Contents, NEW pin \in Labels \cup {Unpinned}, Key(i, c) \in blobs
    PROVE  LET w == WithVersion(row, seen, c, pin)
           IN /\ w \in Item /\ w.there /\ Sound(i, w) /\ w.live = row.live
              /\ row.current <= w.current
              /\ \A v \in row.versions : v \in w.versions
<1>. PICK v : v = [n |-> NextNumber(seen), content |-> c, pin |-> pin]
  OBVIOUS
<1>. PICK w : w = WithVersion(row, seen, c, pin)
  OBVIOUS
<1>1. /\ row \in [there : {TRUE}, live : BOOLEAN,
                  status : {"suggested", "confirmed", "rejected"},
                  current : 0 .. MaxVersions, versions : SUBSET Version]
      /\ row.current \in Nat /\ row.versions \subseteq Version /\ MaxVersions \in Nat
  BY RowFields, Things
<1>2. seen.current = row.current
  <2>. SUFFICES ASSUME seen.current < row.current PROVE FALSE
    BY <1>1
  <2>1. seen.current + 1 \in 1 .. row.current
    BY <1>1
  <2>2. \E x \in row.versions : x.n = seen.current + 1
    BY <2>1 DEF Sound, NumberedRow
  <2>3. QED
    BY <2>2 DEF Numbered, NextNumber
<1>3. NextNumber(seen) = row.current + 1 /\ row.current + 1 \in Numbers
      /\ row.current + 1 \in 0 .. MaxVersions
  BY <1>1, <1>2 DEF NextNumber, Numbers
<1>4. v \in Version /\ v.n = row.current + 1 /\ v.content = c
  BY <1>3 DEF Version
<1>5. /\ w.there = TRUE /\ w.live = row.live /\ w.current = row.current + 1
      /\ w.versions = row.versions \cup {v}
  BY <1>1, <1>3 DEF WithVersion
<1>6. w \in Item
  BY <1>1, <1>3, <1>4 DEF WithVersion, Item
<1>7. NumberedRow(w)
  <2>1. \A x \in row.versions : x.n \in 1 .. row.current
    BY DEF Sound, NumberedRow
  <2>2. \A x \in w.versions : x.n \in 1 .. w.current
    BY <1>1, <1>4, <1>5, <2>1
  <2>3. \A n \in 1 .. w.current : \E x \in w.versions : x.n = n
    <3>. SUFFICES ASSUME NEW n \in 1 .. w.current PROVE \E x \in w.versions : x.n = n
      OBVIOUS
    <3>1. CASE n = row.current + 1
      BY <1>4, <1>5, <3>1
    <3>2. CASE n # row.current + 1
      <4>1. n \in 1 .. row.current
        BY <1>1, <1>5, <3>2
      <4>2. QED
        BY <1>5, <4>1 DEF Sound, NumberedRow
    <3>3. QED
      BY <3>1, <3>2
  <2>4. \A x \in row.versions : x.n # row.current + 1
    BY <1>1, <2>1
  <2>5. \A x, y \in w.versions : x.n = y.n => x = y
    BY <1>4, <1>5, <2>4 DEF Sound, NumberedRow
  <2>6. QED
    BY <2>2, <2>3, <2>5 DEF NumberedRow
<1>8. StoredRow(i, w)
  BY <1>4, <1>5 DEF StoredRow, Sound
<1>9. row.current <= w.current
  BY <1>1, <1>5
<1>10. QED
  BY <1>5, <1>6, <1>7, <1>8, <1>9 DEF Sound

\* A commit finds the case there, and what its handler could rely on.
LEMMA CommitFinds ==
    ASSUME IInv, NEW r \in Requests, NEW op, Committable(r, op)
    PROVE  /\ Working(r) /\ case.alive /\ MayGoOn(r) /\ session[r].req \in Request
           /\ session[r].req.op = op /\ session[r].seen \in Item /\ r \in Busy
           /\ Writes(session[r].req) =>
                session[r].pc = "stored" /\ session[r].req.content \in Contents
           /\ Alone => StillSo(r)
<1>1. Working(r) /\ case.alive /\ session[r].req.op = op
  BY DEF Committable, Working
<1>2. MayGoOn(r) /\ session[r].req \in Request /\ session[r].seen \in Item /\ r \in Busy
  BY <1>1, WorkingFields DEF IInv, Kept
<1>3. QED
  BY <1>1, <1>2 DEF Committable, Stores, IInv, Kept, AloneKept

LEMMA CreateKeeps ==
    ASSUME IInv, NEW r \in Requests, CreateItem(r)
    PROVE  IInv'
<1>. PICK q, i, c, st : q = session[r].req /\ i = q.item /\ c = q.content /\ st = q.status
  OBVIOUS
<1>. PICK new : new = [there |-> TRUE, live |-> TRUE, status |-> st, current |-> 0,
                       versions |-> {}]
  OBVIOUS
<1>1. /\ Working(r) /\ case.alive /\ MayGoOn(r) /\ q \in Request /\ q.op = "create"
      /\ Writes(q) => session[r].pc = "stored" /\ q.content \in Contents
      /\ Alone => StillSo(r)
  BY CommitFinds DEF CreateItem
<1>2. i \in Items /\ ~items[i].there /\ st \in {"suggested", "confirmed"}
  BY <1>1, RequestFields DEF MayGoOn, OfTheCase
<1>3. /\ new \in Item /\ new.there /\ new.live = TRUE /\ new.current = 0 /\ new.versions = {}
  BY <1>2, Things DEF Item
<1>4. 1 .. 0 = {}
  OBVIOUS
<1>5. Sound(i, new)
  BY <1>3, <1>4 DEF Sound, NumberedRow, StoredRow
<1>6. Alone => IsOnlyOne(i)
  BY <1>1 DEF StillSo
<1>7. CASE Writes(q)
  <2>1. c \in Contents /\ Key(i, c) \in blobs
    BY <1>1, <1>7 DEF MayGoOn
  <2>2. NextNumber(new) <= MaxVersions /\ Save(r, WithVersion(new, new, c, Unpinned))
    BY <1>7 DEF CreateItem
  <2>3. Numbered(new, NextNumber(new)) = {}
    BY <1>3 DEF Numbered
  <2>. PICK w : w = WithVersion(new, new, c, Unpinned)
    OBVIOUS
  <2>. PICK pin : pin = Unpinned
    OBVIOUS
  <2>4. /\ new.current \in Nat /\ new.current <= new.current /\ NextNumber(new) <= MaxVersions
        /\ pin \in Labels \cup {Unpinned}
    BY <1>3, <2>2
  <2>5. LET x == WithVersion(new, new, c, pin)
        IN x \in Item /\ x.there /\ Sound(i, x)
    BY <1>2, <1>3, <1>5, <2>1, <2>3, <2>4, WithVersionSound
  <2>6. w \in Item /\ w.there /\ Sound(i, w)
    BY <2>5
  <2>7. MayBecome(i, w)
    BY <1>2, <1>6, <2>6 DEF MayBecome
  <2>8. QED
    BY <1>1, <2>2, <2>7, SaveKeeps DEF OfTheCase
<1>8. CASE ~Writes(q)
  <2>1. Save(r, new)
    BY <1>8 DEF CreateItem
  <2>2. MayBecome(i, new)
    BY <1>2, <1>3, <1>5, <1>6 DEF MayBecome
  <2>3. QED
    BY <1>1, <2>1, <2>2, SaveKeeps DEF OfTheCase
<1>9. QED
  BY <1>7, <1>8

\* What a request on an item finds.
LEMMA ItemFound ==
    ASSUME IInv, NEW r \in Requests, NEW op, Committable(r, op),
           op \notin OfTheCase \cup {"create"}
    PROVE  LET q == session[r].req
           IN /\ q.item \in Items /\ items[q.item] \in Item /\ items[q.item].there
              /\ Sound(q.item, items[q.item])
              /\ session[r].seen.there /\ session[r].seen.current \in Nat
              /\ session[r].seen.current <= items[q.item].current
<1>. PICK q, seen : q = session[r].req /\ seen = session[r].seen
  OBVIOUS
<1>1. Working(r) /\ case.alive /\ MayGoOn(r) /\ q \in Request /\ q.op = op /\ seen \in Item
  BY CommitFinds
<1>2. q.item \in Items /\ seen.there /\ items[q.item].there /\ seen.current <= items[q.item].current
  BY <1>1, RequestFields DEF MayGoOn
<1>3. items[q.item] \in Item /\ Sound(q.item, items[q.item])
  BY <1>2 DEF IInv, TypeOK, Kept
<1>4. seen.current \in Nat
  BY <1>1, <1>2, RowFields
<1>5. QED
  BY <1>2, <1>3, <1>4

\* A version added to the item of a request.
LEMMA AddedBecomes ==
    ASSUME IInv, NEW r \in Requests, NEW op, Committable(r, op),
           op \in Adding \cup {"pin"}, Writes(session[r].req),
           NextNumber(session[r].seen) <= MaxVersions,
           NumberFree(session[r].req.item, NextNumber(session[r].seen)),
           NEW pin \in Labels \cup {Unpinned}
    PROVE  MayBecome(session[r].req.item,
                     WithVersion(items[session[r].req.item], session[r].seen,
                                 session[r].req.content, pin))
<1>. PICK q, seen, i, c, row : q = session[r].req /\ seen = session[r].seen
                               /\ i = q.item /\ c = q.content /\ row = items[i]
  OBVIOUS
<1>. PICK w : w = WithVersion(row, seen, c, pin)
  OBVIOUS
<1>1. op \notin OfTheCase \cup {"create"}
  BY DEF Adding, OfTheCase
<1>2. /\ i \in Items /\ row \in Item /\ row.there /\ Sound(i, row)
      /\ seen.current \in Nat /\ seen.current <= row.current
  BY <1>1, ItemFound
<1>3. MayGoOn(r) /\ session[r].pc = "stored" /\ c \in Contents
  BY CommitFinds
<1>4. c \in Contents /\ Key(i, c) \in blobs
  BY <1>3 DEF MayGoOn
<1>5. NextNumber(seen) <= MaxVersions /\ Numbered(row, NextNumber(seen)) = {}
  BY DEF NumberFree
<1>6. /\ w \in Item /\ w.there /\ Sound(i, w) /\ w.live = row.live /\ row.current <= w.current
      /\ \A v \in row.versions : v \in w.versions
  BY <1>2, <1>4, <1>5, WithVersionSound
<1>7. MayBecome(i, w)
  BY <1>2, <1>6 DEF MayBecome, Live
<1>8. QED
  BY <1>7

LEMMA AddKeeps ==
    ASSUME IInv, NEW r \in Requests, AddVersion(r)
    PROVE  IInv'
<1>1. PICK op \in Adding : Committable(r, op)
  BY DEF AddVersion
<1>2. Working(r) /\ case.alive /\ session[r].req.op = op
  BY <1>1, CommitFinds
<1>3. Writes(session[r].req) /\ op \notin OfTheCase
  BY <1>2 DEF Writes, Adding, OfTheCase
<1>4. MayBecome(session[r].req.item,
                WithVersion(items[session[r].req.item], session[r].seen,
                            session[r].req.content, Unpinned))
  BY <1>1, <1>3, AddedBecomes DEF AddVersion
<1>5. Save(r, WithVersion(items[session[r].req.item], session[r].seen,
                          session[r].req.content, Unpinned))
  BY DEF AddVersion
<1>. PICK w : w = WithVersion(items[session[r].req.item], session[r].seen,
                              session[r].req.content, Unpinned)
  OBVIOUS
<1>6. QED
  BY <1>2, <1>3, <1>4, <1>5, SaveKeeps

\* The versions stay as they are.
LEMMA SameVersions ==
    ASSUME NEW i \in Items, items[i] \in Item, items[i].there, Sound(i, items[i]),
           NEW row \in Item, row.there, row.versions = items[i].versions,
           row.current = items[i].current,
           Alone /\ row.live => items[i].live \/ IsOnlyOne(i)
    PROVE  MayBecome(i, row)
<1>1. items[i].current \in Nat
  BY RowFields
<1>2. Sound(i, row)
  BY DEF Sound, NumberedRow, StoredRow
<1>3. QED
  BY <1>1, <1>2 DEF MayBecome, Live

LEMMA PlainKeeps ==
    ASSUME IInv, NEW r \in Requests,
           RemoveItem(r) \/ RestoreItem(r) \/ SetStatus(r) \/ ReopenItem(r)
    PROVE  IInv'
<1>. PICK op \in {"remove", "restore", "judge", "unreject"} :
       /\ Committable(r, op)
       /\ op = "remove" => RemoveItem(r)
       /\ op = "restore" => RestoreItem(r)
       /\ op = "judge" => SetStatus(r)
       /\ op = "unreject" => ReopenItem(r)
  BY DEF RemoveItem, RestoreItem, SetStatus, ReopenItem
<1>. PICK q, i, row : q = session[r].req /\ i = q.item /\ row = items[i]
  OBVIOUS
<1>1. op \notin OfTheCase \cup {"create"}
  BY DEF OfTheCase
<1>2. i \in Items /\ row \in Item /\ row.there /\ Sound(i, row)
  BY <1>1, ItemFound
<1>3. Working(r) /\ case.alive /\ q \in Request /\ q.op = op /\ (Alone => StillSo(r))
  BY CommitFinds
<1>4. row \in [there : {TRUE}, live : BOOLEAN,
               status : {"suggested", "confirmed", "rejected"},
               current : 0 .. MaxVersions, versions : SUBSET Version]
  BY <1>2, RowFields
<1>5. \E new \in Item :
        /\ Save(r, new) /\ new.there /\ new.versions = row.versions /\ new.current = row.current
        /\ Alone /\ new.live => row.live \/ IsOnlyOne(i)
  <2>1. CASE op = "remove"
    <3>. PICK new : new = [row EXCEPT !.live = FALSE]
      OBVIOUS
    <3>1. new \in Item
      BY <1>4 DEF Item
    <3>2. Save(r, new)
      BY <2>1 DEF RemoveItem, Removed
    <3>3. QED
      BY <1>4, <3>1, <3>2
  <2>2. CASE op = "restore"
    <3>. PICK new : new = [row EXCEPT !.live = TRUE]
      OBVIOUS
    <3>1. new \in Item
      BY <1>4 DEF Item
    <3>2. Save(r, new)
      BY <2>2 DEF RestoreItem
    <3>3. Alone => IsOnlyOne(i)
      BY <1>3, <2>2 DEF StillSo
    <3>4. QED
      BY <1>4, <3>1, <3>2, <3>3
  <2>3. CASE op = "judge"
    <3>. PICK to : to = q.to
      OBVIOUS
    <3>. PICK new : new = [row EXCEPT !.status = to]
      OBVIOUS
    <3>1. to \in {"confirmed", "rejected"}
      BY <1>3, <2>3, RequestFields
    <3>2. new \in Item
      BY <1>4, <3>1 DEF Item
    <3>3. Save(r, new)
      BY <2>3 DEF SetStatus
    <3>4. QED
      BY <1>4, <3>2, <3>3
  <2>4. CASE op = "unreject"
    <3>. PICK new : new = [row EXCEPT !.status = "suggested"]
      OBVIOUS
    <3>1. new \in Item
      BY <1>4 DEF Item
    <3>2. Save(r, new)
      BY <2>4 DEF ReopenItem
    <3>3. QED
      BY <1>4, <3>1, <3>2
  <2>5. QED
    BY <2>1, <2>2, <2>3, <2>4
<1>. PICK new \in Item :
        /\ Save(r, new) /\ new.there /\ new.versions = row.versions /\ new.current = row.current
        /\ Alone /\ new.live => row.live \/ IsOnlyOne(i)
  BY <1>5
<1>6. MayBecome(i, new)
  BY <1>2, SameVersions
<1>7. QED
  BY <1>1, <1>3, <1>6, SaveKeeps

\* A pin changes what a version carries, not which versions there are.
LEMMA PinnedBecomes ==
    ASSUME NEW i \in Items, items[i] \in Item, items[i].there, Sound(i, items[i]),
           NEW n, NEW label \in Labels
    PROVE  MayBecome(i, Pinned(items[i], n, label))
<1>. PICK row : row = items[i]
  OBVIOUS
<1>. DEFINE Mark(v) == IF v.n = n THEN [v EXCEPT !.pin = label] ELSE v
<1>. PICK w : w = Pinned(row, n, label)
  OBVIOUS
<1>1. /\ row \in [there : {TRUE}, live : BOOLEAN,
                  status : {"suggested", "confirmed", "rejected"},
                  current : 0 .. MaxVersions, versions : SUBSET Version]
      /\ row.current \in Nat /\ row.versions \subseteq Version
  BY RowFields
<1>2. \A v \in Version : /\ Mark(v) \in Version /\ Mark(v).n = v.n
                         /\ Mark(v).content = v.content
                         /\ v.pin # Unpinned => Mark(v).pin # Unpinned
  BY Things DEF Version
<1>3. w.versions = {Mark(v) : v \in row.versions} /\ w.there = TRUE /\ w.live = row.live
      /\ w.current = row.current
  BY <1>1 DEF Pinned
<1>. HIDE DEF Mark
<1>4. {Mark(v) : v \in row.versions} \in SUBSET Version
  BY <1>1, <1>2
<1>5. w = [row EXCEPT !.versions = {Mark(v) : v \in row.versions}]
  BY DEF Pinned, Mark
<1>6. w \in Item
  BY <1>1, <1>4, <1>5 DEF Item
<1>7. NumberedRow(w)
  <2>1. \A x \in w.versions : \E v \in row.versions : x = Mark(v) /\ x.n = v.n
    BY <1>1, <1>2, <1>3
  <2>2. \A v \in row.versions : Mark(v) \in w.versions /\ Mark(v).n = v.n
    BY <1>1, <1>2, <1>3
  <2>3. \A x, y \in w.versions : x.n = y.n => x = y
    <3>. SUFFICES ASSUME NEW x \in w.versions, NEW y \in w.versions, x.n = y.n PROVE x = y
      OBVIOUS
    <3>1. PICK u \in row.versions : x = Mark(u) /\ x.n = u.n
      BY <2>1
    <3>2. PICK v \in row.versions : y = Mark(v) /\ y.n = v.n
      BY <2>1
    <3>3. u = v
      BY <3>1, <3>2 DEF Sound, NumberedRow
    <3>4. QED
      BY <3>1, <3>2, <3>3
  <2>4. \A x \in w.versions : x.n \in 1 .. w.current
    BY <1>3, <2>1 DEF Sound, NumberedRow
  <2>5. \A k \in 1 .. w.current : \E x \in w.versions : x.n = k
    BY <1>3, <2>2 DEF Sound, NumberedRow
  <2>6. QED
    BY <2>3, <2>4, <2>5 DEF NumberedRow
<1>8. StoredRow(i, w)
  BY <1>1, <1>2, <1>3 DEF StoredRow, Sound
<1>9. \A v \in row.versions : v.pin # Unpinned =>
         \E x \in w.versions : x.n = v.n /\ x.content = v.content /\ x.pin # Unpinned
  BY <1>1, <1>2, <1>3
<1>10. MayBecome(i, w)
  BY <1>1, <1>3, <1>6, <1>7, <1>8, <1>9 DEF MayBecome, Sound, Live
<1>11. QED
  BY <1>10

LEMMA PinKeeps ==
    ASSUME IInv, NEW r \in Requests, PinVersion(r)
    PROVE  IInv'
<1>1. Committable(r, "pin")
  BY DEF PinVersion
<1>. PICK q, seen, i, row : q = session[r].req /\ seen = session[r].seen /\ i = q.item
                            /\ row = items[i]
  OBVIOUS
<1>2. Working(r) /\ case.alive /\ q \in Request /\ q.op = "pin"
  BY <1>1, CommitFinds
<1>3. i \in Items /\ row \in Item /\ row.there /\ Sound(i, row)
  BY <1>1, ItemFound DEF OfTheCase
<1>4. q.label \in Labels
  BY <1>2, RequestFields
<1>. PICK label \in Labels : label = q.label
  BY <1>4
<1>5. CASE Freezes(q)
  <2>1. /\ Writes(q) /\ NextNumber(seen) <= MaxVersions /\ NumberFree(i, NextNumber(seen))
        /\ Save(r, WithVersion(row, seen, q.content, label))
    BY <1>2, <1>5 DEF PinVersion, Writes
  <2>2. MayBecome(i, WithVersion(row, seen, q.content, label))
    BY <1>1, <2>1, AddedBecomes
  <2>. PICK w : w = WithVersion(row, seen, q.content, label)
    OBVIOUS
  <2>3. QED
    BY <1>2, <2>1, <2>2, SaveKeeps DEF OfTheCase
<1>6. CASE ~Freezes(q)
  <2>. PICK n : n = Wanted(seen, q)
    OBVIOUS
  <2>. PICK w : w = Pinned(row, n, label)
    OBVIOUS
  <2>1. Save(r, w)
    BY <1>6 DEF PinVersion
  <2>2. MayBecome(i, w)
    BY <1>3, PinnedBecomes
  <2>3. QED
    BY <1>2, <2>1, <2>2, SaveKeeps DEF OfTheCase
<1>7. QED
  BY <1>5, <1>6

-------------------------------------------------------------------------------
(* Loading. *)

\* The checks of the handler, made on rows that are committed.
LEMMA LoadedKeeps ==
    ASSUME IInv, NEW r \in Requests, NEW q \in Request, Admits(q, r),
           session' = [session EXCEPT ![r] = Loaded(q)],
           UNCHANGED <<case, items, evidence, blobs, scenario>>,
           Alone => \A s \in Busy : s = r,
           Alone /\ q.op = "save" => TextDiffers(q.item, q.content)
    PROVE  IInv'
<1>. PICK loaded : loaded = Loaded(q)
  OBVIOUS
<1>1. /\ q.op \notin OfTheCase => q.item \in Items /\ items[q.item] \in Item
      /\ case.alive /\ q.op \in (Ops \ {"brief"}) \cup {"save"}
  BY RequestFields DEF Admits, IInv, TypeOK
<1>2. /\ loaded.pc = "loaded" /\ loaded.req = q
      /\ q.op \notin OfTheCase => loaded.seen = items[q.item]
  BY DEF Loaded
<1>3. loaded \in Session
  BY <1>1, Things DEF Loaded, Session
<1>4. /\ session' \in [Requests -> Session]
      /\ \A s \in Requests : session'[s] = IF s = r THEN loaded ELSE session[s]
  BY <1>3 DEF IInv, TypeOK
<1>5. TypeOK'
  BY <1>4 DEF IInv, TypeOK
<1>6. Busy' = Busy \cup {r} /\ IsFiniteSet(Busy')
  <2>1. Busy' = Busy \cup {r}
    BY <1>2, <1>4, Things DEF Busy
  <2>2. QED
    BY <2>1, FS_AddElement DEF IInv
<1>7. MayGoOn(r)' /\ (Writes(q) => q.content \in Contents)
  <2>1. Writes(q) => q.content \in Contents
    <3>1. CASE q.op = "create" /\ q.content # NoContent
      BY <3>1, RequestFields
    <3>2. CASE q.op \in Adding
      BY <3>2, RequestFields
    <3>3. CASE q.op = "pin" /\ Freezes(q)
      <4>1. q.content # NoContent
        BY <3>3 DEF Admits, Pinnable
      <4>2. QED
        BY <3>3, <4>1, RequestFields
    <3>4. QED
      BY <3>1, <3>2, <3>3 DEF Writes
  <2>2. q.op = "create" => ~items[q.item].there
    BY DEF Admits, Fresh
  <2>3. q.op \notin OfTheCase \cup {"create"} => items[q.item].there
    BY <1>1 DEF Admits, Live, Ops, OfTheCase, Adding
  <2>4. q.op \notin OfTheCase \cup {"create"} => items[q.item].current <= items[q.item].current
    <3>. SUFFICES ASSUME q.op \notin OfTheCase \cup {"create"}
         PROVE  items[q.item].current <= items[q.item].current
      OBVIOUS
    <3>1. items[q.item].current \in Nat
      BY <1>1, <2>3, RowFields
    <3>2. QED
      BY <3>1
  <2>5. session'[r].req = q /\ session'[r].pc = "loaded"
        /\ (q.op \notin OfTheCase => session'[r].seen = items[q.item])
    BY <1>2, <1>4
  <2>6. QED
    BY <2>1, <2>2, <2>3, <2>4, <2>5 DEF MayGoOn, Writes, Freezes
<1>8. Kept'
  <2>1. \A s \in Requests : s # r => (Working(s)' => Working(s)) /\ (MayGoOn(s) => MayGoOn(s)')
    BY <1>4 DEF Working, MayGoOn
  <2>2. (\A s \in Requests : Working(s) => MayGoOn(s))'
    BY <1>1, <1>7, <2>1 DEF IInv, Kept
  <2>3. (\A s \in Requests : session[s].pc = "purging" => ~case.alive)'
    BY <1>2, <1>4 DEF IInv, Kept
  <2>4. ASSUME NEW s \in Requests, NEW t \in Requests, Creating(s)', Creating(t)',
               session'[s].req.item = session'[t].req.item
        PROVE  s = t
    <3>1. CASE s # r /\ t # r
      BY <1>4, <2>4, <3>1 DEF IInv, Kept, Creating, Working
    <3>2. ASSUME NEW u \in Requests, u # r, Creating(u)', Creating(r)'
          PROVE  session'[u].req.item # session'[r].req.item
      <4>1. q.op = "create" /\ session'[r].req.item = q.item
        BY <1>2, <1>4, <3>2 DEF Creating
      <4>2. Fresh(q.item, r)
        BY <4>1 DEF Admits
      <4>3. Creating(u) /\ session'[u] = session[u]
        BY <1>4, <3>2 DEF Creating, Working
      <4>4. QED
        BY <3>2, <4>1, <4>2, <4>3 DEF Fresh, Creating, Working
    <3>3. QED
      BY <2>4, <3>1, <3>2
  <2>5. (\A i \in Items : Sound(i, items[i]))' /\ EvidenceKept'
        /\ (\A e \in evidence : items[e[1]].there)'
    BY DEF IInv, Kept, Sound, StoredRow, EvidenceKept, Numbered
  <2>6. (\A s, t \in Requests :
            Creating(s) /\ Creating(t) /\ session[s].req.item = session[t].req.item => s = t)'
    BY <2>4
  <2>7. (\A s \in Requests : Working(s) /\ Writes(session[s].req) =>
            session[s].req.content \in Contents)'
    <3>1. session'[r].req = q
      BY <1>2, <1>4
    <3>2. QED
      BY <1>4, <1>7, <3>1 DEF IInv, Kept, Working, Writes, Freezes
  <2>8. QED
    BY <1>1, <2>2, <2>3, <2>5, <2>6, <2>7 DEF IInv, Kept
<1>9. AloneKept'
  <2>. SUFFICES ASSUME Alone
       PROVE  /\ (\A s, t \in Busy : s = t)'
              /\ OneOfAKind'
              /\ ~Volume /\ case'.purged => blobs' = {}
              /\ case'.alive => (\A s \in Busy : StillSo(s))'
              /\ ~case'.alive => (\A s \in Busy : session[s].pc = "purging")'
    BY DEF AloneKept, Alone
  <2>1. \A s \in Busy' : s = r
    BY <1>6
  <2>2. OneOfAKind' /\ case' = case /\ blobs' = blobs
    BY DEF IInv, AloneKept, OneOfAKind, Live
  <2>3. StillSo(r)'
    <3>1. /\ session'[r].pc = "loaded" /\ session'[r].req = q
          /\ q.op \notin OfTheCase => session'[r].seen = items[q.item]
      BY <1>2, <1>4
    <3>2. /\ q.op \in {"create", "restore"} => IsOnlyOne(q.item)
          /\ q.op = "pin" => Pinnable(items[q.item], q)
      BY DEF Admits
    <3>3. QED
      BY <3>1, <3>2 DEF StillSo, IsOnlyOne, Live, Pinnable, Freezes, Numbered, Wanted,
         TextDiffers
  <2>4. QED
    BY <1>1, <2>1, <2>2, <2>3 DEF IInv, AloneKept
<1>10. QED
  BY <1>5, <1>6, <1>8, <1>9 DEF IInv

\* A request starts when there is room for it: alone, when nobody else is there.
LEMMA StartsAlone ==
    ASSUME IInv, NEW r \in Requests, Starts(r), Alone
    PROVE  Busy = {}
<1>1. Cardinality(Busy) < 1
  BY DEF Starts, Alone, Busy
<1>2. IsFiniteSet(Busy)
  BY DEF IInv
<1>3. Cardinality(Busy) \in Nat /\ (Cardinality(Busy) = 0 <=> Busy = {})
  BY <1>2, FS_CardinalityType, FS_EmptySet
<1>4. QED
  BY <1>1, <1>3

LEMMA LoadKeeps ==
    ASSUME IInv, NEW r \in Requests, NEW q \in Request, Load(r, q)
    PROVE  IInv'
<1>1. /\ Starts(r) /\ Admits(q, r) /\ session' = [session EXCEPT ![r] = Loaded(q)]
      /\ UNCHANGED <<case, items, evidence, blobs, scenario>> /\ q.op \in scenario.ops
  BY DEF Load, Starts
<1>2. q.op # "save"
  BY <1>1, ItemsBoundAssumption DEF IInv, TypeOK, Ops
<1>3. Alone => \A s \in Busy : s = r
  BY <1>1, StartsAlone
<1>4. QED
  BY <1>1, <1>2, <1>3, LoadedKeeps

LEMMA LoadBriefKeeps ==
    ASSUME IInv, NEW r \in Requests, LoadBrief(r)
    PROVE  IInv'
<1>. PICK q : q = session[r].req
  OBVIOUS
<1>1. /\ session[r].pc = "briefed" /\ Admits(q, r)
      /\ session' = [session EXCEPT ![r] = Loaded(q)]
      /\ UNCHANGED <<case, items, evidence, blobs, scenario>>
  BY DEF LoadBrief
<1>2. session[r] \in Session
  BY DEF IInv, TypeOK
<1>3. q \in Request /\ r \in Busy
  BY <1>1, <1>2, SessionFields, Things DEF Busy
<1>4. Alone => \A s \in Busy : s = r
  BY <1>3 DEF IInv, AloneKept
<1>5. Alone /\ q.op = "save" => TextDiffers(q.item, q.content)
  BY <1>1, <1>3 DEF IInv, AloneKept, StillSo, Admits
<1>6. QED
  BY <1>1, <1>3, <1>4, <1>5, LoadedKeeps

\* put_brief: what it will do is not admitted yet.
LEMMA ReadBriefKeeps ==
    ASSUME IInv, NEW r \in Requests, NEW c \in Contents, ReadBrief(r, c)
    PROVE  IInv'
<1>. PICK i \in Briefs :
       \/ session' = [session EXCEPT ![r] = [pc |-> "briefed", req |->
            [op |-> "create", item |-> i, content |-> c, status |-> "confirmed"]]]
       \/ /\ TextDiffers(i, c)
          /\ session' = [session EXCEPT ![r] = [pc |-> "briefed", req |->
               [op |-> "save", item |-> i, content |-> c]]]
  BY DEF ReadBrief
<1>. PICK q : /\ session' = [session EXCEPT ![r] = [pc |-> "briefed", req |-> q]]
              /\ \/ q = [op |-> "create", item |-> i, content |-> c, status |-> "confirmed"]
                 \/ q = [op |-> "save", item |-> i, content |-> c] /\ TextDiffers(i, c)
  OBVIOUS
<1>. PICK briefed : briefed = [pc |-> "briefed", req |-> q]
  OBVIOUS
<1>1. /\ case.alive /\ Starts(r) /\ UNCHANGED <<case, items, evidence, blobs, scenario>>
      /\ i \in Items
  BY KindsAssumption DEF ReadBrief, Starts
<1>2. q \in Request
  BY <1>1 DEF Request
<1>3. briefed \in Session /\ briefed.pc = "briefed" /\ briefed.req = q
  BY <1>2 DEF Session
<1>4. /\ session' \in [Requests -> Session]
      /\ \A s \in Requests : session'[s] = IF s = r THEN briefed ELSE session[s]
  BY <1>3 DEF IInv, TypeOK
<1>5. TypeOK'
  BY <1>1, <1>4 DEF IInv, TypeOK
<1>6. Busy' = Busy \cup {r} /\ IsFiniteSet(Busy')
  <2>1. Busy' = Busy \cup {r}
    BY <1>3, <1>4, Things DEF Busy
  <2>2. QED
    BY <2>1, FS_AddElement DEF IInv
<1>7. Kept'
  <2>1. \A s \in Requests : /\ Working(s)' => Working(s) /\ session'[s] = session[s]
                            /\ Creating(s)' => Creating(s)
                            /\ session'[s].pc = "purging" => session[s].pc = "purging"
    BY <1>3, <1>4 DEF Working, Creating
  <2>2. (\A s \in Requests : Working(s) => MayGoOn(s))'
    BY <1>1, <2>1 DEF IInv, Kept, MayGoOn
  <2>3. (\A s, t \in Requests :
            Creating(s) /\ Creating(t) /\ session[s].req.item = session[t].req.item => s = t)'
    BY <2>1 DEF IInv, Kept, Creating
  <2>4. (\A j \in Items : Sound(j, items[j]))' /\ EvidenceKept'
        /\ (\A e \in evidence : items[e[1]].there)'
    BY <1>1 DEF IInv, Kept, Sound, StoredRow, EvidenceKept, Numbered
  <2>5. (\A s \in Requests : Working(s) /\ Writes(session[s].req) =>
            session[s].req.content \in Contents)'
    BY <2>1 DEF IInv, Kept, Writes, Freezes
  <2>6. QED
    BY <1>1, <2>1, <2>2, <2>3, <2>4, <2>5 DEF IInv, Kept
<1>8. AloneKept'
  <2>. SUFFICES ASSUME Alone
       PROVE  /\ (\A s, t \in Busy : s = t)'
              /\ OneOfAKind'
              /\ ~Volume /\ case'.purged => blobs' = {}
              /\ case'.alive => (\A s \in Busy : StillSo(s))'
              /\ ~case'.alive => (\A s \in Busy : session[s].pc = "purging")'
    BY <1>1 DEF AloneKept, Alone
  <2>1. \A s \in Busy' : s = r
    BY <1>1, <1>6, StartsAlone
  <2>2. OneOfAKind'
    BY <1>1 DEF IInv, AloneKept, OneOfAKind, Live
  <2>3. q.op = "save" => TextDiffers(q.item, q.content)
    OBVIOUS
  <2>4. StillSo(r)'
    BY <1>1, <1>3, <1>4, <2>3 DEF StillSo, Working, TextDiffers, Numbered
  <2>5. QED
    BY <1>1, <2>1, <2>2, <2>4 DEF IInv, AloneKept
<1>9. QED
  BY <1>5, <1>6, <1>7, <1>8 DEF IInv

\* The bytes are stored before the rows.
LEMMA StoreKeeps ==
    ASSUME IInv, NEW r \in Requests, StoreBlob(r)
    PROVE  IInv'
<1>. PICK old, q : old = session[r] /\ q = old.req
  OBVIOUS
<1>. PICK new : new = [old EXCEPT !.pc = "stored"]
  OBVIOUS
<1>1. /\ Working(r) /\ old.pc = "loaded" /\ Writes(q)
      /\ blobs' = blobs \cup {Key(q.item, q.content)}
      /\ session' = [session EXCEPT ![r].pc = "stored"]
      /\ UNCHANGED <<case, items, evidence, scenario>>
  BY DEF StoreBlob, Stores, Working
<1>2. old \in Session /\ q \in Request /\ r \in Busy /\ (q.op \notin OfTheCase => q.item \in Items)
  BY <1>1, WorkingFields DEF IInv, TypeOK
<1>3. old \in [pc : {"loaded", "stored"}, req : Request, seen : Item]
  BY <1>1, <1>2, SessionFields
<1>4. /\ new \in [pc : {"loaded", "stored"}, req : Request, seen : Item]
      /\ new.pc = "stored" /\ new.req = q /\ new.seen = old.seen
  BY <1>3
<1>5. new \in Session /\ new # Idle
  BY <1>4, Things DEF Session
<1>6. /\ session' \in [Requests -> Session]
      /\ \A s \in Requests : session'[s] = IF s = r THEN new ELSE session[s]
  BY <1>1, <1>5 DEF IInv, TypeOK
<1>7. q.item \in Items /\ q.content \in Contents
  <2>1. q.op \in Adding \cup {"create", "pin"}
    BY <1>1 DEF Writes
  <2>2. q.op \notin OfTheCase
    BY <2>1 DEF Adding, OfTheCase
  <2>3. q.content \in Contents
    BY <1>1 DEF IInv, Kept
  <2>4. QED
    BY <1>2, <2>2, <2>3
<1>8. blobs' \subseteq Keys
  BY <1>1, <1>7 DEF IInv, TypeOK, Keys
<1>9. TypeOK'
  BY <1>1, <1>6, <1>8 DEF IInv, TypeOK
<1>10. Busy' = Busy
  BY <1>2, <1>5, <1>6 DEF Busy
<1>11. Kept'
  <2>1. \A s \in Requests :
          /\ Working(s)' = Working(s) /\ Creating(s)' = Creating(s)
          /\ session'[s].pc = "purging" => session[s].pc = "purging"
          /\ Working(s) => /\ session'[s].req = session[s].req
                           /\ session'[s].seen = session[s].seen
          /\ s # r => session'[s] = session[s]
    BY <1>1, <1>4, <1>6 DEF Working, Creating
  <2>2. ASSUME case'.alive, NEW s \in Requests, Working(s)' PROVE MayGoOn(s)'
    <3>1. MayGoOn(s)
      BY <1>1, <2>1, <2>2 DEF IInv, Kept
    <3>2. CASE s = r
      BY <1>1, <1>4, <1>6, <3>1, <3>2 DEF MayGoOn, Writes, Freezes
    <3>3. CASE s # r
      <4>1. session'[s] = session[s]
        BY <2>1, <3>3
      <4>2. QED
        BY <1>1, <3>1, <4>1 DEF MayGoOn, Writes, Freezes
    <3>4. QED
      BY <3>2, <3>3
  <2>3. (\A s, t \in Requests :
            Creating(s) /\ Creating(t) /\ session[s].req.item = session[t].req.item => s = t)'
    BY <2>1 DEF IInv, Kept, Creating
  <2>4. (\A j \in Items : Sound(j, items[j]))'
    BY <1>1 DEF IInv, Kept, Sound, StoredRow, NumberedRow
  <2>5. EvidenceKept' /\ (\A e \in evidence : items[e[1]].there)'
    BY <1>1 DEF IInv, Kept, EvidenceKept, Numbered
  <2>6. (\A s \in Requests : Working(s) /\ Writes(session[s].req) =>
            session[s].req.content \in Contents)'
    BY <2>1 DEF IInv, Kept, Writes, Freezes
  <2>7. QED
    BY <1>1, <2>1, <2>2, <2>3, <2>4, <2>5, <2>6 DEF IInv, Kept
<1>12. AloneKept'
  <2>. SUFFICES ASSUME Alone
       PROVE  /\ (\A s, t \in Busy : s = t)'
              /\ OneOfAKind'
              /\ ~Volume /\ case'.purged => blobs' = {}
              /\ case'.alive => (\A s \in Busy : StillSo(s))'
              /\ ~case'.alive => (\A s \in Busy : session[s].pc = "purging")'
    BY <1>1 DEF AloneKept, Alone
  <2>1. \A s \in Busy : s = r
    BY <1>2 DEF IInv, AloneKept
  <2>2. OneOfAKind'
    BY <1>1 DEF IInv, AloneKept, OneOfAKind, Live
  <2>3. case.alive /\ ~case.purged
    BY <1>1, <1>2 DEF IInv, AloneKept, Kept
  <2>4. StillSo(r)
    BY <1>2, <2>3 DEF IInv, AloneKept
  <2>5. StillSo(r)'
    BY <1>1, <1>4, <1>6, <2>4 DEF StillSo, Working, TextDiffers, Numbered, IsOnlyOne, Live,
       Pinnable, Freezes, Wanted
  <2>6. QED
    BY <1>1, <1>10, <2>1, <2>2, <2>3, <2>5
<1>13. QED
  BY <1>9, <1>10, <1>11, <1>12 DEF IInv

-------------------------------------------------------------------------------
(* The end of a request that leaves the rows of its item alone. *)

LEMMA EndKeeps ==
    ASSUME IInv, NEW r \in Requests, session' = [session EXCEPT ![r] = Idle],
           UNCHANGED <<items, blobs, scenario>>,
           case' \in [alive : BOOLEAN, closed : BOOLEAN, purged : BOOLEAN],
           case'.alive = case.alive, case'.purged = case.purged,
           NEW cited \in SUBSET Citable, evidence' = evidence \cup cited,
           ~case.alive => cited = {}
    PROVE  IInv'
<1>1. /\ session' \in [Requests -> Session] /\ Busy' = Busy \ {r} /\ IsFiniteSet(Busy')
      /\ \A s \in Requests : session'[s] = IF s = r THEN Idle ELSE session[s]
  BY OneEnds DEF IInv
<1>2. TypeOK'
  BY <1>1 DEF IInv, TypeOK, Citable
<1>3. \A s \in Requests : /\ Working(s)' => Working(s) /\ session'[s] = session[s]
                          /\ Creating(s)' => Creating(s)
                          /\ session'[s].pc = "purging" => session[s].pc = "purging"
  BY <1>1, Things DEF Working, Creating
<1>4. Kept'
  <2>1. (\A s \in Requests : Working(s) => MayGoOn(s))' \/ ~case'.alive
    BY <1>3 DEF IInv, Kept, MayGoOn
  <2>2. (\A s, t \in Requests :
            Creating(s) /\ Creating(t) /\ session[s].req.item = session[t].req.item => s = t)'
    BY <1>3 DEF IInv, Kept, Creating
  <2>3. (\A j \in Items : Sound(j, items[j]))'
    BY DEF IInv, Kept, Sound, StoredRow
  <2>4. ASSUME NEW e \in evidence'
        PROVE  /\ items[e[1]].there
               /\ \E v \in Numbered(items[e[1]], e[2]) :
                     v.pin # Unpinned /\ Key(e[1], v.content) \in blobs
    <3>1. CASE e \in evidence
      BY <3>1 DEF IInv, Kept, EvidenceKept
    <3>2. CASE e \in cited
      <4>1. /\ e \in Items \X Numbers /\ items[e[1]].there
            /\ \E v \in Numbered(items[e[1]], e[2]) : v.pin # Unpinned
        BY <3>2 DEF Citable
      <4>2. e[1] \in Items /\ StoredRow(e[1], items[e[1]])
        BY <4>1 DEF IInv, Kept, Sound
      <4>3. QED
        BY <4>1, <4>2 DEF StoredRow, Numbered
    <3>3. QED
      BY <3>1, <3>2
  <2>5. EvidenceKept' /\ (\A e \in evidence : items[e[1]].there)'
    BY <2>4 DEF EvidenceKept
  <2>6. (\A s \in Requests : Working(s) /\ Writes(session[s].req) =>
            session[s].req.content \in Contents)'
    BY <1>3 DEF IInv, Kept, Writes, Freezes
  <2>7. (\A s \in Requests : session[s].pc = "purging" => ~case.alive)'
    BY <1>3 DEF IInv, Kept
  <2>8. QED
    BY <2>1, <2>2, <2>3, <2>5, <2>6, <2>7 DEF IInv, Kept
<1>5. AloneKept'
  <2>. SUFFICES ASSUME Alone
       PROVE  /\ (\A s, t \in Busy : s = t)'
              /\ OneOfAKind'
              /\ ~Volume /\ case'.purged => blobs' = {}
              /\ case'.alive => (\A s \in Busy : StillSo(s))'
              /\ ~case'.alive => (\A s \in Busy : session[s].pc = "purging")'
    BY DEF AloneKept, Alone
  <2>1. OneOfAKind'
    BY DEF IInv, AloneKept, OneOfAKind, Live
  <2>2. CASE r \in Busy
    <3>1. Busy' = {}
      BY <1>1, <2>2 DEF IInv, AloneKept
    <3>2. QED
      BY <2>1, <3>1 DEF IInv, AloneKept
  <2>3. CASE r \notin Busy
    <3>1. session' = session
      <4>1. session \in [Requests -> Session] /\ session[r] = Idle
        BY <2>3 DEF Busy, IInv, TypeOK
      <4>2. QED
        BY <1>1, <4>1
    <3>2. QED
      BY <2>1, <3>1 DEF IInv, AloneKept, Busy, StillSo, Working, TextDiffers, Numbered,
         IsOnlyOne, Live, Pinnable, Freezes, Wanted
  <2>4. QED
    BY <2>2, <2>3
<1>6. QED
  BY <1>1, <1>2, <1>4, <1>5 DEF IInv

LEMMA EndingsKeep ==
    ASSUME IInv, NEW r \in Requests, Abandon(r) \/ RecordDecision(r) \/ ReopenInvestigation(r)
    PROVE  IInv'
<1>1. case \in [alive : BOOLEAN, closed : BOOLEAN, purged : BOOLEAN]
  BY DEF IInv, TypeOK
<1>2. CASE Abandon(r)
  <2>1. /\ session' = [session EXCEPT ![r] = Idle]
        /\ UNCHANGED <<case, items, evidence, blobs, scenario>>
    BY <1>2 DEF Abandon
  <2>2. {} \in SUBSET Citable /\ evidence' = evidence \cup {}
    BY <2>1
  <2>3. QED
    BY <1>1, <2>1, <2>2, EndKeeps
<1>3. CASE RecordDecision(r)
  <2>1. /\ session' = [session EXCEPT ![r] = Idle] /\ case' = [case EXCEPT !.closed = TRUE]
        /\ UNCHANGED <<items, blobs, scenario>> /\ case.alive
    BY <1>3 DEF RecordDecision, Committable
  <2>2. PICK cited \in SUBSET Citable : evidence' = evidence \cup cited
    BY <1>3 DEF RecordDecision
  <2>3. /\ case' \in [alive : BOOLEAN, closed : BOOLEAN, purged : BOOLEAN]
        /\ case'.alive = case.alive /\ case'.purged = case.purged
    BY <1>1, <2>1
  <2>4. QED
    BY <2>1, <2>2, <2>3, EndKeeps
<1>4. CASE ReopenInvestigation(r)
  <2>1. /\ session' = [session EXCEPT ![r] = Idle] /\ case' = [case EXCEPT !.closed = FALSE]
        /\ UNCHANGED <<items, evidence, blobs, scenario>>
    BY <1>4 DEF ReopenInvestigation
  <2>2. {} \in SUBSET Citable /\ evidence' = evidence \cup {}
    BY <2>1
  <2>3. /\ case' \in [alive : BOOLEAN, closed : BOOLEAN, purged : BOOLEAN]
        /\ case'.alive = case.alive /\ case'.purged = case.purged
    BY <1>1, <2>1
  <2>4. QED
    BY <2>1, <2>2, <2>3, EndKeeps
<1>5. QED
  BY <1>2, <1>3, <1>4

\* The rows are deleted: nobody goes on with them.
LEMMA DeleteKeeps ==
    ASSUME IInv, NEW r \in Requests, DeleteRows(r)
    PROVE  IInv'
<1>. PICK purging : purging = [pc |-> "purging"]
  OBVIOUS
<1>1. /\ case.alive /\ r \in Busy /\ case' = [case EXCEPT !.alive = FALSE]
      /\ items' = [i \in Items |-> Absent] /\ evidence' = {}
      /\ session' = [session EXCEPT ![r] = purging]
      /\ UNCHANGED <<blobs, scenario>>
  BY CommitFinds DEF DeleteRows
<1>2. purging \in Session /\ purging.pc = "purging"
  BY DEF Session
<1>3. /\ session' \in [Requests -> Session]
      /\ \A s \in Requests : session'[s] = IF s = r THEN purging ELSE session[s]
  BY <1>1, <1>2 DEF IInv, TypeOK
<1>4. /\ case' \in [alive : BOOLEAN, closed : BOOLEAN, purged : BOOLEAN]
      /\ case'.alive = FALSE /\ case'.purged = case.purged /\ ~case.purged
  BY <1>1 DEF IInv, TypeOK, Kept
<1>5. items' \in [Items -> Item] /\ \A i \in Items : items'[i] = Absent /\ ~items'[i].there
  BY <1>1, Things
<1>6. TypeOK'
  BY <1>1, <1>3, <1>4, <1>5 DEF IInv, TypeOK
<1>7. Busy' = Busy
  BY <1>1, <1>2, <1>3, Things DEF Busy
<1>8. Kept'
  <2>1. \A s \in Requests : /\ Working(s)' => Working(s) /\ session'[s] = session[s]
                            /\ Creating(s)' => Creating(s)
    BY <1>2, <1>3 DEF Working, Creating
  <2>2. (\A s, t \in Requests :
            Creating(s) /\ Creating(t) /\ session[s].req.item = session[t].req.item => s = t)'
    BY <2>1 DEF IInv, Kept, Creating
  <2>3. (\A s \in Requests : Working(s) /\ Writes(session[s].req) =>
            session[s].req.content \in Contents)'
    BY <2>1 DEF IInv, Kept, Writes, Freezes
  <2>4. (\A j \in Items : Sound(j, items[j]))' /\ EvidenceKept'
    BY <1>1, <1>5 DEF Sound, EvidenceKept
  <2>5. QED
    BY <1>1, <1>4, <1>5, <2>2, <2>3, <2>4 DEF Kept
<1>9. AloneKept'
  <2>1. Alone => \A s \in Busy : s = r
    BY <1>1 DEF IInv, AloneKept
  <2>2. OneOfAKind'
    BY <1>5 DEF OneOfAKind, Live
  <2>3. r \in Requests /\ session'[r].pc = "purging"
    BY <1>2, <1>3
  <2>4. Alone => (\A s \in Busy : session[s].pc = "purging")'
    BY <1>7, <2>1, <2>3
  <2>5. Alone => (\A s, t \in Busy : s = t)'
    BY <1>7, <2>1
  <2>6. Alone' = Alone
    BY <1>1 DEF Alone
  <2>7. QED
    BY <1>4, <2>2, <2>4, <2>5, <2>6 DEF AloneKept
<1>10. QED
  BY <1>6, <1>7, <1>8, <1>9 DEF IInv

\* The bytes of a deleted case: no row points to them any more.
LEMMA PurgeKeeps ==
    ASSUME IInv, NEW r \in Requests, PurgeBlobs(r)
    PROVE  IInv'
<1>1. /\ session[r].pc = "purging" /\ blobs' = blobs \ UnderPrefix(blobs)
      /\ case' = [case EXCEPT !.purged = TRUE]
      /\ session' = [session EXCEPT ![r] = Idle]
      /\ UNCHANGED <<items, evidence, scenario>>
  BY DEF PurgeBlobs
<1>2. ~case.alive /\ r \in Busy /\ evidence = {} /\ \A i \in Items : items[i] = Absent
  BY <1>1, Things DEF IInv, Kept, Busy
<1>3. /\ session' \in [Requests -> Session] /\ Busy' = Busy \ {r} /\ IsFiniteSet(Busy')
      /\ \A s \in Requests : session'[s] = IF s = r THEN Idle ELSE session[s]
  BY <1>1, OneEnds DEF IInv
<1>4. /\ case' \in [alive : BOOLEAN, closed : BOOLEAN, purged : BOOLEAN] /\ ~case'.alive
  BY <1>1, <1>2 DEF IInv, TypeOK
<1>5. TypeOK'
  BY <1>1, <1>3, <1>4 DEF IInv, TypeOK
<1>6. Kept'
  <2>1. \A s \in Requests : /\ Working(s)' => Working(s) /\ session'[s] = session[s]
                            /\ Creating(s)' => Creating(s)
    BY <1>3, Things DEF Working, Creating
  <2>2. (\A s, t \in Requests :
            Creating(s) /\ Creating(t) /\ session[s].req.item = session[t].req.item => s = t)'
    BY <2>1 DEF IInv, Kept, Creating
  <2>3. (\A s \in Requests : Working(s) /\ Writes(session[s].req) =>
            session[s].req.content \in Contents)'
    BY <2>1 DEF IInv, Kept, Writes, Freezes
  <2>4. (\A j \in Items : Sound(j, items[j]))' /\ EvidenceKept'
    BY <1>1, <1>2, Things DEF Sound, EvidenceKept
  <2>5. QED
    BY <1>1, <1>2, <1>4, <2>2, <2>3, <2>4 DEF Kept
<1>7. AloneKept'
  <2>1. Alone => Busy' = {}
    BY <1>2, <1>3 DEF IInv, AloneKept
  <2>2. OneOfAKind'
    BY <1>1, <1>2, Things DEF OneOfAKind, Live
  <2>3. ~Volume => blobs' = {}
    BY <1>1 DEF UnderPrefix
  <2>4. Alone' = Alone
    BY <1>1 DEF Alone
  <2>5. QED
    BY <1>4, <2>1, <2>2, <2>3, <2>4 DEF AloneKept
<1>8. QED
  BY <1>3, <1>5, <1>6, <1>7 DEF IInv

-------------------------------------------------------------------------------
(* Every step. *)

LEMMA InitHolds == Init => IInv
<1>. SUFFICES ASSUME Init PROVE IInv
  OBVIOUS
<1>1. TypeOK
  BY Things DEF Init, TypeOK
<1>2. Busy = {}
  BY DEF Init, Busy
<1>3. Kept
  BY Things DEF Init, Kept, Sound, EvidenceKept, Working, Creating
<1>4. OneOfAKind
  BY Things DEF Init, OneOfAKind, Live
<1>5. AloneKept
  BY <1>2, <1>4 DEF Init, AloneKept
<1>6. QED
  BY <1>1, <1>2, <1>3, <1>5, FS_EmptySet DEF IInv

LEMMA StepKeeps == IInv /\ [Next]_vars => IInv'
<1>. SUFFICES ASSUME IInv, [Next]_vars PROVE IInv'
  OBVIOUS
<1>1. CASE UNCHANGED vars
  BY <1>1 DEF vars, IInv, TypeOK, Busy, Kept, AloneKept, Alone, Sound, StoredRow, EvidenceKept,
     Working, Creating, MayGoOn, OneOfAKind, StillSo, TextDiffers, Numbered, IsOnlyOne, Live
<1>2. ASSUME NEW r \in Requests, NEW q \in Request, Load(r, q) PROVE IInv'
  BY <1>2, LoadKeeps
<1>3. ASSUME NEW r \in Requests, NEW c \in Contents, ReadBrief(r, c) PROVE IInv'
  BY <1>3, ReadBriefKeeps
<1>4. ASSUME NEW r \in Requests, LoadBrief(r) \/ StoreBlob(r) PROVE IInv'
  BY <1>4, LoadBriefKeeps, StoreKeeps
<1>5. ASSUME NEW r \in Requests,
             \/ CreateItem(r) \/ AddVersion(r) \/ RemoveItem(r) \/ RestoreItem(r)
             \/ PinVersion(r) \/ SetStatus(r) \/ ReopenItem(r)
      PROVE  IInv'
  BY <1>5, CreateKeeps, AddKeeps, PlainKeeps, PinKeeps
<1>6. ASSUME NEW r \in Requests,
             \/ RecordDecision(r) \/ ReopenInvestigation(r)
             \/ DeleteRows(r) \/ PurgeBlobs(r) \/ Abandon(r)
      PROVE  IInv'
  BY <1>6, EndingsKeep, DeleteKeeps, PurgeKeeps
<1>7. QED
  BY <1>1, <1>2, <1>3, <1>4, <1>5, <1>6 DEF Next

LEMMA Always == Spec => []IInv
<1>1. Init => IInv
  BY InitHolds
<1>2. IInv /\ [Next]_vars => IInv'
  BY StepKeeps
<1>3. QED
  BY <1>1, <1>2, PTL DEF Spec

-------------------------------------------------------------------------------
(* What the material of a case promises. *)

(* Rows, versions, blobs and what a request has in hand are what they are   *)
(* said to be, however requests overlap (services/case_items.py).           *)
THEOREM TypeCorrect == Spec => []TypeOK
<1>1. IInv => TypeOK
  BY DEF IInv
<1>2. QED
  BY <1>1, Always, PTL

LEMMA VersionsFromIInv == IInv => VersionsStand
<1>. SUFFICES ASSUME IInv PROVE VersionsStand
  OBVIOUS
<1>1. ASSUME NEW i \in Items, items[i].there
      PROVE  /\ {v.n : v \in items[i].versions} = 1 .. items[i].current
             /\ \A v, w \in items[i].versions : v.n = w.n => v = w
             /\ \A v \in items[i].versions : Key(i, v.content) \in blobs
  <2>1. NumberedRow(items[i]) /\ StoredRow(i, items[i])
    BY <1>1 DEF IInv, Kept, Sound
  <2>2. {v.n : v \in items[i].versions} = 1 .. items[i].current
    BY <2>1 DEF NumberedRow
  <2>3. QED
    BY <2>1, <2>2 DEF NumberedRow, StoredRow
<1>2. QED
  BY <1>1 DEF IInv, Kept, VersionsStand, VersionsNumbered, ContentStored

(* However requests overlap, on any store: an item's versions are numbered  *)
(* 1 to its current one, each of them can be read, and what a decision      *)
(* cites stays pinned and readable, although the number is taken from a row *)
(* loaded before and the bytes are stored outside the transaction           *)
(* (_write_version, get_content).                                           *)
THEOREM VersionsAlwaysStand == Spec => []VersionsStand
BY VersionsFromIInv, Always, PTL

(* ... and where deletion removes a tree of files, requests one after the   *)
(* other leave nothing of a deleted case behind (delete_prefix).            *)
THEOREM MaterialHolds ==
    ASSUME ~Volume
    PROVE  Spec => []MaterialStands
<1>1. IInv => DeletedLeavesNoBlob
  BY DEF IInv, AloneKept, DeletedLeavesNoBlob
<1>2. IInv => MaterialStands
  BY <1>1, VersionsFromIInv DEF MaterialStands
<1>3. QED
  BY <1>2, Always, PTL

\* The rows a commit writes keep the pins of the rows that are there.
KeepsPins(i, row) ==
    items[i].there => \A v \in items[i].versions : v.pin # Unpinned =>
        \E w \in row.versions : w.n = v.n /\ w.pin = v.pin

LEMMA SavedPins ==
    ASSUME IInv, Alone, NEW r \in Requests,
           \/ CreateItem(r) \/ AddVersion(r) \/ RemoveItem(r) \/ RestoreItem(r)
           \/ PinVersion(r) \/ SetStatus(r) \/ ReopenItem(r)
    PROVE  \E i \in Items : \E row :
                items' = [items EXCEPT ![i] = row] /\ KeepsPins(i, row)
<1>. PICK q, seen, i, row : q = session[r].req /\ seen = session[r].seen
                            /\ i = q.item /\ row = items[i]
  OBVIOUS
<1>1. CASE CreateItem(r)
  <2>1. MayGoOn(r) /\ q \in Request /\ q.op = "create"
    BY <1>1, CommitFinds DEF CreateItem
  <2>2. i \in Items /\ ~items[i].there
    BY <2>1, RequestFields DEF MayGoOn, OfTheCase
  <2>3. PICK new : items' = [items EXCEPT ![i] = new]
    BY <1>1 DEF CreateItem, Save
  <2>4. KeepsPins(i, new)
    BY <2>2 DEF KeepsPins
  <2>5. QED
    BY <2>2, <2>3, <2>4
<1>2. CASE \/ AddVersion(r) \/ RemoveItem(r) \/ RestoreItem(r)
           \/ PinVersion(r) \/ SetStatus(r) \/ ReopenItem(r)
  <2>1. PICK op \in Adding \cup {"remove", "restore", "pin", "judge", "unreject"} :
          Committable(r, op) /\ (PinVersion(r) => op = "pin")
    BY <1>2 DEF AddVersion, RemoveItem, RestoreItem, PinVersion, SetStatus, ReopenItem
  <2>2. op \notin OfTheCase \cup {"create"}
    BY DEF Adding, OfTheCase
  <2>3. i \in Items /\ row \in Item /\ row.there
    BY <2>1, <2>2, ItemFound
  <2>4. row \in [there : {TRUE}, live : BOOLEAN,
                 status : {"suggested", "confirmed", "rejected"},
                 current : 0 .. MaxVersions, versions : SUBSET Version]
    BY <2>3, RowFields
  <2>5. \A c, pin : \A v \in row.versions : v \in WithVersion(row, seen, c, pin).versions
    BY <2>4 DEF WithVersion
  <2>6. CASE AddVersion(r)
    <3>. PICK c, pin : c = q.content /\ pin = Unpinned
      OBVIOUS
    <3>. PICK new : new = WithVersion(row, seen, c, pin)
      OBVIOUS
    <3>1. items' = [items EXCEPT ![i] = new]
      BY <2>6 DEF AddVersion, Save
    <3>2. KeepsPins(i, new)
      BY <2>5 DEF KeepsPins
    <3>3. QED
      BY <2>3, <3>1, <3>2
  <2>7. CASE RemoveItem(r) \/ RestoreItem(r)
    <3>. PICK live : items' = [items EXCEPT ![i] = [row EXCEPT !.live = live]]
      BY <2>7 DEF RemoveItem, Removed, RestoreItem, Save
    <3>. PICK new : new = [row EXCEPT !.live = live]
      OBVIOUS
    <3>1. new.versions = row.versions
      BY <2>4
    <3>2. KeepsPins(i, new)
      BY <3>1 DEF KeepsPins
    <3>3. QED
      BY <2>3, <3>2
  <2>8. CASE SetStatus(r) \/ ReopenItem(r)
    <3>. PICK status : items' = [items EXCEPT ![i] = [row EXCEPT !.status = status]]
      BY <2>8 DEF SetStatus, ReopenItem, Save
    <3>. PICK new : new = [row EXCEPT !.status = status]
      OBVIOUS
    <3>1. new.versions = row.versions
      BY <2>4
    <3>2. KeepsPins(i, new)
      BY <3>1 DEF KeepsPins
    <3>3. QED
      BY <2>3, <3>2
  <2>9. CASE PinVersion(r) /\ Freezes(q)
    <3>. PICK c, pin : c = q.content /\ pin = q.label
      OBVIOUS
    <3>. PICK new : new = WithVersion(row, seen, c, pin)
      OBVIOUS
    <3>1. items' = [items EXCEPT ![i] = new]
      BY <2>9 DEF PinVersion, Save
    <3>2. KeepsPins(i, new)
      BY <2>5 DEF KeepsPins
    <3>3. QED
      BY <2>3, <3>1, <3>2
  <2>10. CASE PinVersion(r) /\ ~Freezes(q)
    <3>. PICK n, label : n = Wanted(seen, q) /\ label = q.label
      OBVIOUS
    <3>. PICK new : new = Pinned(row, n, label)
      OBVIOUS
    <3>1. items' = [items EXCEPT ![i] = new]
      BY <2>10 DEF PinVersion, Save
    <3>2. new.versions = {IF v.n = n THEN [v EXCEPT !.pin = label] ELSE v : v \in row.versions}
      BY <2>4 DEF Pinned
    <3>3. StillSo(r) /\ Working(r) /\ q.op = "pin"
      BY <2>1, <2>10, CommitFinds
    <3>4. seen = row /\ Pinnable(row, q)
      BY <3>3 DEF StillSo, OfTheCase
    <3>5. \A v \in row.versions : v.n = n => v.pin = Unpinned
      BY <2>10, <3>4 DEF Pinnable, Numbered
    <3>6. \A v \in row.versions : v.pin # Unpinned => v \in new.versions
      BY <3>2, <3>5
    <3>7. KeepsPins(i, new)
      BY <3>6 DEF KeepsPins
    <3>8. QED
      BY <2>3, <3>1, <3>7
  <2>11. QED
    BY <1>2, <2>6, <2>7, <2>8, <2>9, <2>10
<1>3. QED
  BY <1>1, <1>2

LEMMA PinsStand ==
    ASSUME IInv, [Next]_vars, Alone, case'.alive
    PROVE  \A i \in Items : items[i].there =>
             \A v \in items[i].versions : v.pin # Unpinned =>
                \E w \in items'[i].versions : w.n = v.n /\ w.pin = v.pin
<1>1. CASE items' = items
  BY <1>1
<1>2. ASSUME NEW r \in Requests,
             \/ CreateItem(r) \/ AddVersion(r) \/ RemoveItem(r) \/ RestoreItem(r)
             \/ PinVersion(r) \/ SetStatus(r) \/ ReopenItem(r)
      PROVE  \A i \in Items : items[i].there =>
               \A v \in items[i].versions : v.pin # Unpinned =>
                  \E w \in items'[i].versions : w.n = v.n /\ w.pin = v.pin
  <2>. PICK j \in Items :
         \E row : items' = [items EXCEPT ![j] = row] /\ KeepsPins(j, row)
    BY <1>2, SavedPins
  <2>1. PICK row : items' = [items EXCEPT ![j] = row] /\ KeepsPins(j, row)
    OBVIOUS
  <2>2. \A i \in Items : items'[i] = IF i = j THEN row ELSE items[i]
    BY <2>1 DEF IInv, TypeOK
  <2>3. QED
    BY <2>1, <2>2 DEF KeepsPins
<1>3. ASSUME NEW r \in Requests, DeleteRows(r) PROVE FALSE
  <2>1. case' = [case EXCEPT !.alive = FALSE]
    BY <1>3 DEF DeleteRows
  <2>2. QED
    BY <2>1 DEF IInv, TypeOK
<1>4. ASSUME NEW r \in Requests,
             \/ \E q \in Request : Load(r, q)
             \/ \E c \in Contents : ReadBrief(r, c)
             \/ LoadBrief(r) \/ StoreBlob(r) \/ RecordDecision(r) \/ ReopenInvestigation(r)
             \/ PurgeBlobs(r) \/ Abandon(r)
      PROVE  items' = items
  BY <1>4 DEF Load, ReadBrief, LoadBrief, StoreBlob, RecordDecision, ReopenInvestigation,
     PurgeBlobs, Abandon
<1>5. QED
  BY <1>1, <1>2, <1>3, <1>4 DEF Next, vars

LEMMA TextStands ==
    ASSUME IInv, Alone, NEW r \in Requests, Saves(r)
    PROVE  LET q == session[r].req
           IN \A v \in Numbered(items[q.item], items[q.item].current) : v.content # q.content
<1>1. session[r].pc = "stored" /\ session[r].req.op = "save" /\ Working(r)
  BY DEF Saves, Working
<1>2. r \in Busy
  BY <1>1, WorkingFields DEF IInv
<1>3. case.alive
  BY <1>1, <1>2 DEF IInv, AloneKept
<1>4. StillSo(r)
  BY <1>2, <1>3 DEF IInv, AloneKept
<1>5. QED
  BY <1>1, <1>4 DEF StillSo, TextDiffers

(* While requests on a case do not overlap: it has one brief and each live  *)
(* reference once (ITEM_EXISTS), a pin is never undone nor given again      *)
(* (ALREADY_PINNED), and saving an unchanged brief adds no version          *)
(* (put_brief).                                                             *)
THEOREM MadeOnceHolds == Spec => MadeOnce
<1>1. IInv => (Alone => OneOfAKind)
  BY DEF IInv, AloneKept
<1>2. IInv /\ [Next]_vars =>
        [Alone /\ case'.alive => \A i \in Items : items[i].there =>
           \A v \in items[i].versions : v.pin # Unpinned =>
              \E w \in items'[i].versions : w.n = v.n /\ w.pin = v.pin]_vars
  BY PinsStand
<1>3. IInv /\ [Next]_vars =>
        [\A r \in Requests : Alone /\ Saves(r) =>
           LET q == session[r].req
           IN \A v \in Numbered(items[q.item], items[q.item].current) :
                v.content # q.content]_vars
  BY TextStands
<1>4. QED
  BY <1>1, <1>2, <1>3, Always, PTL
     DEF Spec, MadeOnce, PinNeverChanges, UnchangedTextAddsNothing

-------------------------------------------------------------------------------
(* What cases are made from.  A request checks its fields against the type *)
(* it has read and writes them later, so the invariant says what each      *)
(* request carries, what still holds of it while it is alone, and that one *)
(* about to open a case has looked: it read no case of the alert then, and *)
(* none that is opened or shared since has been read ever since it asked.  *)

Kinds == {"general", "typed"}

\* What the requests carry.
PutCalls == [op : {"put type"}, pc : {"write"}, spec : Specs]
DropCalls == [op : {"drop type"}, pc : {"count", "write"}]
CreateCalls ==
    [op : {"create"}, pc : {"look", "write", "start"}, of : Kinds, fields : SUBSET Catalog!Fields,
     by : People, ref : BOOLEAN, spec : Specs \cup {Catalog!General}, at : Nat, knew : SUBSET Nat]
ChangeCalls ==
    [op : {"change"}, pc : {"type", "write"}, at : Nat, moved : BOOLEAN, of : Kinds,
     removed : SUBSET Catalog!Fields, added : SUBSET Catalog!Fields, fields : SUBSET Catalog!Fields,
     spec : Specs \cup {Catalog!General, None}]

CallsOfCatalog == PutCalls \cup DropCalls \cup CreateCalls \cup ChangeCalls

CallTypes == call \in [Requests -> {Catalog!Idle} \cup CallsOfCatalog]

\* Every required field is there, and no other than the type's.
Fits(spec, fields) == spec.required \subseteq fields /\ fields \subseteq spec.fields

\* What a request of this kind checks its fields against.
Of(of, spec) == IF of = "general" THEN spec = Catalog!General ELSE spec \in Specs

\* It has looked for the alert and found no case.
Looked(q) == q.op = "create" /\ q.pc = "write" /\ q.ref

\* The fields a request is about to write are those of the type it read, and the cases of
\* the alert that a request has read ever since it asked are none once it has looked.
Prepared(q) ==
    /\ q.op = "create" => Of(q.of, q.spec) /\ Fits(q.spec, q.fields)
    /\ q.op = "create" /\ q.pc = "start" => q.at \in DOMAIN cases
    /\ q.op = "change" => q.at \in DOMAIN cases
    /\ q.op = "change" /\ q.pc = "write" => Of(q.of, q.spec) /\ Fits(q.spec, q.fields)
    /\ q.op = "create" => \A i \in q.knew : i \in Catalog!HasRef /\ Catalog!Reads(q.by, cases[i])
    /\ q.op = "create" /\ (Looked(q) \/ ~q.ref) => q.knew = {}

CasesFit ==
    \A i \in DOMAIN cases :
       Fits(IF cases[i].as = None THEN Catalog!General ELSE cases[i].as, cases[i].fields)

\* Nobody opened a case of the alert beside one they read.
NewToAll == \A i \in Catalog!HasRef : cases[i].knew = {}

\* What a request relies on while it is alone.
StillHolds(q) ==
    /\ q.op = "drop type" /\ q.pc = "write" => \A i \in DOMAIN cases : cases[i].of # "typed"
    /\ q.op = "create" /\ q.pc \in {"look", "write"} /\ q.of = "typed" => type # None
    /\ q.op = "change" /\ q.pc = "write" /\ q.of = "typed" => type # None

AloneStands ==
    ~history.overlapped =>
        /\ \A r, s \in Catalog!Busy : r = s
        /\ \A r \in Requests : StillHolds(call[r])
        /\ \A i \in DOMAIN cases : cases[i].of = "typed" => type # None

CatalogInv ==
    /\ Catalog!TypeOK /\ asked \in Openings /\ CallTypes
    /\ (\A r \in Requests : Prepared(call[r])) /\ CasesFit
    /\ AloneStands /\ NewToAll

-------------------------------------------------------------------------------

\* A request is of one kind, and none is idle.
LEMMA CallOps ==
    /\ Catalog!Idle.op = "none" /\ Catalog!Idle.pc = "idle"
    /\ \A q \in PutCalls : q.op = "put type"
    /\ \A q \in DropCalls : q.op = "drop type"
    /\ \A q \in CreateCalls : q.op = "create"
    /\ \A q \in ChangeCalls : q.op = "change"
    /\ \A q \in CallsOfCatalog : q # Catalog!Idle
<1>1. Catalog!Idle.op = "none" /\ Catalog!Idle.pc = "idle"
  BY DEF Catalog!Idle
<1>2. \A q \in PutCalls : q.op = "put type"
  BY DEF PutCalls
<1>3. \A q \in DropCalls : q.op = "drop type"
  BY DEF DropCalls
<1>4. \A q \in CreateCalls : q.op = "create"
  BY DEF CreateCalls
<1>5. \A q \in ChangeCalls : q.op = "change"
  BY DEF ChangeCalls
<1>6. QED
  BY <1>1, <1>2, <1>3, <1>4, <1>5 DEF CallsOfCatalog

CallsNamed ==
    \A r \in Requests :
       call[r] = Catalog!Idle \/
         /\ call[r].op \in {"put type", "drop type", "create", "change"}
         /\ call[r].pc \in {"count", "look", "type", "write", "start"}

LEMMA RequestsTyped == CallTypes => CallsNamed
BY DEF CallsNamed, CallTypes, CallsOfCatalog, PutCalls, DropCalls, CreateCalls, ChangeCalls

\* A request moves on.
LEMMA Moves ==
    ASSUME CallTypes, NEW r \in Requests, NEW q \in {Catalog!Idle} \cup CallsOfCatalog, Catalog!GoesOn(r, q)
    PROVE  /\ CallTypes' /\ call'[r] = q
           /\ \A s \in Requests : s # r => call'[s] = call[s]
BY DEF CallTypes, Catalog!GoesOn

\* The cases and what is looked up in them are left alone.
LEMMA NoCaseMoves ==
    ASSUME CatalogInv, cases' = cases
    PROVE  Catalog!HasRef' = Catalog!HasRef /\ CasesFit' /\ NewToAll' /\ (\A q : Prepared(q) <=> Prepared(q)')
BY DEF CatalogInv, Catalog!HasRef, Catalog!Reads, CasesFit, NewToAll, Prepared, Looked

-------------------------------------------------------------------------------
(* One step *)

\* A request that is begun carries what it has been checked for.
LEMMA Started ==
    ASSUME CatalogInv, NEW r \in Requests, NEW asks \in CallsOfCatalog,
           Catalog!Begins(r, asks), Prepared(asks),
           ~history'.overlapped => StillHolds(asks),
           UNCHANGED <<type, doc, cases, asked>>
    PROVE  CatalogInv'
<1>. USE DEF CatalogInv
<1>1. /\ call[r] = Catalog!Idle /\ Catalog!GoesOn(r, asks)
      /\ history' = [history EXCEPT !.overlapped = @ \/ Catalog!Busy # {}]
  BY DEF Catalog!Begins, Catalog!GoesOn
<1>2. /\ CallTypes' /\ call'[r] = asks
      /\ \A s \in Requests : s # r => call'[s] = call[s]
  BY <1>1, Moves
<1>3. CasesFit' /\ NewToAll'
  BY NoCaseMoves
<1>4. \A s \in Requests : Prepared(call[s])'
  BY <1>2, NoCaseMoves DEF Prepared, Looked, Catalog!HasRef, Catalog!Reads
<1>5. /\ history' \in [overlapped : BOOLEAN, cut : BOOLEAN]
      /\ ~history'.overlapped => ~history.overlapped /\ Catalog!Busy = {}
  BY <1>1 DEF Catalog!TypeOK
<1>6. Catalog!TypeOK'
  <2>1. CallsNamed'
    BY <1>2, RequestsTyped, PTL
  <2>2. QED
    BY <1>5, <2>1 DEF Catalog!TypeOK, CallsNamed
<1>9. AloneStands'
  <2>1. ASSUME ~history'.overlapped
        PROVE  /\ \A s \in Requests : s # r => call'[s] = Catalog!Idle
               /\ ~history.overlapped
    BY <1>2, <1>5, <2>1 DEF Catalog!Busy
  <2>2. StillHolds(Catalog!Idle) /\ StillHolds(Catalog!Idle)' /\ (~history'.overlapped => StillHolds(asks)')
    BY DEF StillHolds, Catalog!Idle
  <2>3. ASSUME ~history'.overlapped, NEW s \in Requests PROVE StillHolds(call[s])'
    BY <1>2, <2>1, <2>2, <2>3 DEF StillHolds
  <2>4. ~history'.overlapped => \A s, t \in Catalog!Busy' : s = t
    BY <1>2, <2>1 DEF Catalog!Busy
  <2>5. QED
    BY <2>1, <2>3, <2>4 DEF AloneStands
<1>10. QED
  BY <1>2, <1>3, <1>4, <1>6, <1>9

\* A request goes on without touching the cases or the type.
LEMMA Continues ==
    ASSUME CatalogInv, NEW r \in Requests, call[r] # Catalog!Idle,
           NEW q \in {Catalog!Idle} \cup CallsOfCatalog, Catalog!GoesOn(r, q),
           Prepared(q),
           ~history.overlapped => StillHolds(q),
           UNCHANGED <<type, doc, cases, history, asked>>
    PROVE  CatalogInv'
<1>. USE DEF CatalogInv
<1>2. /\ CallTypes' /\ call'[r] = q
      /\ \A s \in Requests : s # r => call'[s] = call[s]
  BY Moves
<1>3. CasesFit' /\ NewToAll'
  BY NoCaseMoves
<1>4. \A s \in Requests : Prepared(call[s])'
  BY <1>2, NoCaseMoves DEF Prepared, Looked, Catalog!HasRef, Catalog!Reads
<1>6. Catalog!TypeOK'
  <2>1. CallsNamed'
    BY <1>2, RequestsTyped, PTL
  <2>2. QED
    BY <2>1 DEF Catalog!TypeOK, CallsNamed
<1>9. AloneStands'
  <2>1. ASSUME ~history.overlapped, NEW s \in Requests PROVE StillHolds(call[s])'
    BY <1>2, <2>1 DEF AloneStands, StillHolds
  <2>2. Catalog!Busy' \subseteq Catalog!Busy
    BY <1>2 DEF Catalog!Busy
  <2>3. QED
    BY <2>1, <2>2 DEF AloneStands
<1>10. QED
  BY <1>2, <1>3, <1>4, <1>6, <1>9

\* A request at one of its steps is of its kind.
LEMMA CallAt ==
    ASSUME CallTypes, NEW r \in Requests
    PROVE  /\ call[r] # Catalog!Idle <=> call[r] \in CallsOfCatalog
           /\ call[r].op = "put type" => call[r] \in PutCalls
           /\ call[r].op = "drop type" => call[r] \in DropCalls
           /\ call[r].op = "create" => call[r] \in CreateCalls
           /\ call[r].op = "change" => call[r] \in ChangeCalls
BY CallOps DEF CallTypes, CallsOfCatalog

LEMMA DocKeeps == CatalogInv /\ (Catalog!PutDoc \/ Catalog!DeleteDoc) => CatalogInv'
BY DEF CatalogInv, Catalog!PutDoc, Catalog!DeleteDoc, Catalog!TypeOK, CallTypes, Prepared, CasesFit, AloneStands, Catalog!Busy, Catalog!HasRef,
   Catalog!Reads, StillHolds, Looked, NewToAll

LEMMA PutTypeKeeps ==
    ASSUME CatalogInv, NEW r \in Requests, NEW spec \in Specs, Catalog!PutType(r, spec)
    PROVE  CatalogInv'
<1>. DEFINE asks == [op |-> "put type", pc |-> "write", spec |-> spec]
<1>1. asks \in CallsOfCatalog /\ Prepared(asks) /\ StillHolds(asks)
  BY DEF CallsOfCatalog, PutCalls, Prepared, Looked, StillHolds
<1>2. QED
  BY <1>1, Started DEF Catalog!PutType

LEMMA DeleteTypeKeeps ==
    ASSUME CatalogInv, NEW r \in Requests, Catalog!DeleteType(r)
    PROVE  CatalogInv'
<1>. DEFINE asks == [op |-> "drop type", pc |-> "count"]
<1>1. asks \in CallsOfCatalog /\ Prepared(asks) /\ StillHolds(asks)
  BY DEF CallsOfCatalog, DropCalls, Prepared, Looked, StillHolds
<1>2. QED
  BY <1>1, Started DEF Catalog!DeleteType

\* require_case_type answers with a type of that kind.
LEMMA SpecOfKind ==
    ASSUME Catalog!TypeOK, NEW of \in Kinds, Catalog!SpecOf(of) # None
    PROVE  Of(of, Catalog!SpecOf(of)) /\ (of = "typed" => type # None)
BY DEF Catalog!TypeOK, Kinds, Catalog!SpecOf, Of

LEMMA Fitting ==
    ASSUME NEW spec, NEW removed, NEW added, NEW current, Catalog!Acceptable(spec, removed, added, current)
    PROVE  Fits(spec, Catalog!Cleaned(spec, removed, added, current))
BY DEF Catalog!Acceptable, Fits, Catalog!Cleaned

LEMMA CasesNumbered ==
    ASSUME Catalog!TypeOK
    PROVE  cases \in Seq(Catalog!Cases) /\ DOMAIN cases \subseteq Nat /\ \A i \in DOMAIN cases : cases[i] \in Catalog!Cases
<1>1. cases \in Seq(Catalog!Cases)
  BY DEF Catalog!TypeOK
<1>2. QED
  BY <1>1

LEMMA CreateCaseKeeps ==
    ASSUME CatalogInv, NEW r \in Requests, NEW person \in People, NEW of \in Kinds,
           NEW fields \in SUBSET Catalog!Fields, NEW ref \in BOOLEAN,
           Catalog!CreateCase(r, person, of, fields, ref)
    PROVE  CatalogInv'
<1>. DEFINE read == {i \in Catalog!HasRef : ref /\ Catalog!Reads(person, cases[i])}
            asks == [op |-> "create", pc |-> IF ref THEN "look" ELSE "write", by |-> person, of |-> of,
                     fields |-> fields, ref |-> ref, spec |-> Catalog!SpecOf(of), at |-> 0, knew |-> read]
<1>1. /\ Catalog!SpecOf(of) # None /\ Catalog!Acceptable(Catalog!SpecOf(of), {}, fields, {})
      /\ Catalog!Begins(r, asks) /\ UNCHANGED <<type, doc, cases, asked>>
  BY DEF Catalog!CreateCase
<1>2. Of(of, Catalog!SpecOf(of)) /\ (of = "typed" => type # None)
  BY <1>1, SpecOfKind DEF CatalogInv
<1>3. Fits(Catalog!SpecOf(of), fields)
  BY <1>1 DEF Catalog!Acceptable, Fits, Catalog!Cleaned
<1>4. asks \in CreateCalls
  <2>1. read \in SUBSET Nat
    BY CasesNumbered DEF CatalogInv, Catalog!HasRef
  <2>2. QED
    BY <1>2, <2>1 DEF CreateCalls, Of
<1>5. Prepared(asks) /\ StillHolds(asks)
  BY <1>2, <1>3 DEF Prepared, Looked, StillHolds
<1>6. QED
  BY <1>1, <1>4, <1>5, Started DEF CallsOfCatalog

LEMMA ChangeCaseKeeps ==
    ASSUME CatalogInv, NEW r \in Requests, NEW i \in DOMAIN cases,
           NEW moved \in BOOLEAN, NEW of \in Kinds, NEW removed \in SUBSET Catalog!Fields,
           NEW added \in SUBSET Catalog!Fields, Catalog!ChangeCase(r, i, moved, of, removed, added)
    PROVE  CatalogInv'
<1>. DEFINE asks == [op |-> "change", pc |-> "type", at |-> i, moved |-> moved, of |-> of,
                     removed |-> removed, added |-> added, fields |-> cases[i].fields, spec |-> None]
<1>1. cases[i].fields \in SUBSET Catalog!Fields /\ i \in Nat
  <2>1. cases \in Seq(Catalog!Cases)
    BY DEF CatalogInv, Catalog!TypeOK
  <2>2. cases[i] \in Catalog!Cases /\ i \in Nat
    BY <2>1
  <2>3. QED
    BY <2>2 DEF Catalog!Cases
<1>2. asks \in ChangeCalls
  BY <1>1 DEF ChangeCalls
<1>3. Prepared(asks) /\ StillHolds(asks)
  BY DEF Prepared, Looked, StillHolds
<1>4. QED
  BY <1>2, <1>3, Started DEF Catalog!ChangeCase, CallsOfCatalog

\* The catalog counts as this module does.
LEMMA CountsAlike == \A S : Catalog!Cardinality(S) = Cardinality(S)
BY DEF Catalog!Cardinality, Cardinality, Catalog!IsFiniteSet, IsFiniteSet

LEMMA CountsKeeps ==
    ASSUME CatalogInv, NEW r \in Requests, Catalog!CountsCases(r)
    PROVE  CatalogInv'
<1>. PICK q : q = call[r]
  OBVIOUS
<1>1. q.op = "drop type" /\ q.pc = "count" /\ q \in DropCalls /\ call[r] # Catalog!Idle
  BY CallAt, CallOps DEF Catalog!CountsCases, Catalog!At, CatalogInv
<1>2. CASE Catalog!Uses = 0 /\ Catalog!GoesOn(r, [q EXCEPT !.pc = "write"])
  <2>. DEFINE w == [q EXCEPT !.pc = "write"]
  <2>1. w \in DropCalls /\ w.op = "drop type"
    BY <1>1 DEF DropCalls
  <2>2. IsFiniteSet({i \in DOMAIN cases : cases[i].of = "typed"})
    <3>1. cases \in Seq(Catalog!Cases)
      BY DEF CatalogInv, Catalog!TypeOK
    <3>2. DOMAIN cases = 1 .. Len(cases) /\ Len(cases) \in Nat
      BY <3>1
    <3>3. IsFiniteSet(DOMAIN cases)
      BY <3>2, FS_Interval
    <3>4. QED
      BY <3>3, FS_Subset
  <2>3. \A i \in DOMAIN cases : cases[i].of # "typed"
    <3>1. {i \in DOMAIN cases : cases[i].of = "typed"} = {}
      BY <1>2, <2>2, FS_EmptySet, CountsAlike DEF Catalog!Uses
    <3>2. QED
      BY <3>1
  <2>4. Prepared(w) /\ StillHolds(w)
    BY <2>1, <2>3 DEF Prepared, Looked, StillHolds
  <2>5. w \in CallsOfCatalog
    BY <2>1 DEF CallsOfCatalog
  <2>6. QED
    BY <1>1, <1>2, <2>4, <2>5, Continues DEF Catalog!CountsCases
<1>3. CASE Catalog!GoesOn(r, Catalog!Idle)
  <2>1. Prepared(Catalog!Idle) /\ StillHolds(Catalog!Idle)
    BY DEF Prepared, Looked, StillHolds, Catalog!Idle
  <2>2. QED
    BY <1>1, <1>3, <2>1, Continues DEF Catalog!CountsCases
<1>4. QED
  BY <1>2, <1>3 DEF Catalog!CountsCases, Catalog!Ends

LEMMA LooksUpKeeps ==
    ASSUME CatalogInv, NEW r \in Requests, Catalog!LooksUp(r)
    PROVE  CatalogInv'
<1>. PICK q : q = call[r]
  OBVIOUS
<1>1. q.op = "create" /\ q.pc = "look" /\ q \in CreateCalls /\ call[r] # Catalog!Idle
  BY CallAt, CallOps DEF Catalog!LooksUp, Catalog!At, CatalogInv
<1>2. CASE ~Catalog!KnownRef(q.by) /\ Catalog!GoesOn(r, [q EXCEPT !.pc = "write"])
  <2>. DEFINE w == [q EXCEPT !.pc = "write"]
  <2>1. /\ w \in CreateCalls /\ w.op = "create" /\ w.pc = "write" /\ w.of = q.of
        /\ w.spec = q.spec /\ w.fields = q.fields /\ w.knew = q.knew
    BY <1>1 DEF CreateCalls
  <2>2. Prepared(w)
    <3>1. q.knew = {}
      BY <1>1, <1>2 DEF Prepared, CatalogInv, Catalog!KnownRef
    <3>2. QED
      BY <1>1, <2>1, <3>1 DEF Prepared, CatalogInv
  <2>3. ~history.overlapped => StillHolds(w)
    BY <1>1, <2>1 DEF StillHolds, CatalogInv, AloneStands
  <2>4. w \in CallsOfCatalog
    BY <2>1 DEF CallsOfCatalog
  <2>5. QED
    BY <1>1, <1>2, <2>2, <2>3, <2>4, Continues DEF Catalog!LooksUp
<1>3. CASE Catalog!GoesOn(r, Catalog!Idle)
  <2>1. Prepared(Catalog!Idle) /\ StillHolds(Catalog!Idle)
    BY DEF Prepared, Looked, StillHolds, Catalog!Idle
  <2>2. QED
    BY <1>1, <1>3, <2>1, Continues DEF Catalog!LooksUp
<1>4. QED
  BY <1>2, <1>3 DEF Catalog!LooksUp, Catalog!Ends

LEMMA ReadsTypeKeeps ==
    ASSUME CatalogInv, NEW r \in Requests, Catalog!ReadsType(r)
    PROVE  CatalogInv'
<1>. PICK q : q = call[r]
  OBVIOUS
<1>1. q.op = "change" /\ q.pc = "type" /\ q \in ChangeCalls /\ call[r] # Catalog!Idle
  BY CallAt, CallOps DEF Catalog!ReadsType, Catalog!At, CatalogInv
<1>. PICK spec : spec = Catalog!SpecOf(q.of)
  OBVIOUS
<1>. PICK kept : kept = Catalog!Cleaned(spec, q.removed, q.added, q.fields)
  OBVIOUS
<1>2. CASE /\ spec # None /\ Catalog!Acceptable(spec, q.removed, q.added, q.fields)
           /\ Catalog!GoesOn(r, [q EXCEPT !.pc = "write", !.spec = spec, !.fields = kept])
  <2>. DEFINE w == [q EXCEPT !.pc = "write", !.spec = spec, !.fields = kept]
  <2>1. q.of \in Kinds /\ q.removed \subseteq Catalog!Fields /\ q.added \subseteq Catalog!Fields /\ q.fields \subseteq Catalog!Fields
    BY <1>1 DEF ChangeCalls
  <2>2. Of(q.of, spec) /\ (q.of = "typed" => type # None)
    BY <1>2, <2>1, SpecOfKind DEF CatalogInv
  <2>3. Fits(spec, kept) /\ kept \subseteq Catalog!Fields
    BY <1>2, <2>1, Fitting DEF Catalog!Cleaned
  <2>4. spec \in Specs \cup {Catalog!General, None}
    BY <2>2 DEF Of
  <2>5. w \in ChangeCalls
    BY <1>1, <2>3, <2>4 DEF ChangeCalls
  <2>6. /\ w.op = "change" /\ w.pc = "write" /\ w.of = q.of /\ w.at = q.at
        /\ w.spec = spec /\ w.fields = kept
    BY <1>1 DEF ChangeCalls
  <2>7. Prepared(w) /\ StillHolds(w)
    BY <1>1, <2>2, <2>3, <2>6 DEF Prepared, Looked, StillHolds, CatalogInv
  <2>8. w \in CallsOfCatalog
    BY <2>5 DEF CallsOfCatalog
  <2>9. QED
    BY <1>1, <1>2, <2>7, <2>8, Continues DEF Catalog!ReadsType
<1>3. CASE Catalog!GoesOn(r, Catalog!Idle)
  <2>1. Prepared(Catalog!Idle) /\ StillHolds(Catalog!Idle)
    BY DEF Prepared, Looked, StillHolds, Catalog!Idle
  <2>2. QED
    BY <1>1, <1>3, <2>1, Continues DEF Catalog!ReadsType
<1>4. QED
  BY <1>2, <1>3 DEF Catalog!ReadsType, Catalog!Ends

\* A request of somebody who is alone is the only one.
LEMMA OnlyOne ==
    ASSUME AloneStands, ~history.overlapped, NEW r \in Requests, call[r] # Catalog!Idle
    PROVE  \A s \in Requests : s # r => call[s] = Catalog!Idle
BY DEF AloneStands, Catalog!Busy

LEMMA NothingOfIdle == StillHolds(Catalog!Idle) /\ Prepared(Catalog!Idle)
BY DEF StillHolds, Prepared, Looked, Catalog!Idle

\* The type is written or deleted, and the request is over.
LEMMA TypeMoves ==
    ASSUME CatalogInv, NEW r \in Requests, call[r] # Catalog!Idle, Catalog!GoesOn(r, Catalog!Idle),
           type' \in Specs \cup {None},
           ~history.overlapped => type' # None \/ \A i \in DOMAIN cases : cases[i].of # "typed",
           UNCHANGED <<doc, cases, history, asked>>
    PROVE  CatalogInv'
<1>. USE DEF CatalogInv
<1>1. /\ CallTypes' /\ call'[r] = Catalog!Idle
      /\ \A s \in Requests : s # r => call'[s] = call[s]
  BY Moves
<1>2. CasesFit' /\ NewToAll'
  BY NoCaseMoves
<1>3. \A s \in Requests : Prepared(call[s])'
  BY <1>1, NoCaseMoves, NothingOfIdle DEF Prepared, Looked, Catalog!HasRef, Catalog!Reads
<1>4. Catalog!TypeOK'
  <2>1. CallsNamed'
    BY <1>1, RequestsTyped, PTL
  <2>2. QED
    BY <2>1 DEF Catalog!TypeOK, CallsNamed
<1>6. AloneStands'
  <2>1. ASSUME ~history.overlapped, NEW s \in Requests
        PROVE  call'[s] = Catalog!Idle /\ StillHolds(call[s])'
    <3>1. call'[s] = Catalog!Idle
      BY <1>1, <2>1, OnlyOne
    <3>2. QED
      BY <3>1 DEF StillHolds, Looked, Catalog!Idle
  <2>2. ~history.overlapped => \A s, t \in Catalog!Busy' : s = t
    BY <2>1 DEF Catalog!Busy
  <2>3. QED
    BY <1>2, <2>1, <2>2 DEF AloneStands
<1>7. QED
  BY <1>1, <1>2, <1>3, <1>4, <1>6

LEMMA TypeStoredKeeps ==
    ASSUME CatalogInv, NEW r \in Requests, Catalog!TypeStored(r)
    PROVE  CatalogInv'
<1>1. call[r] \in PutCalls /\ call[r] # Catalog!Idle
  BY CallAt, CallOps DEF Catalog!TypeStored, Catalog!At, CatalogInv
<1>2. type' \in Specs
  BY <1>1 DEF Catalog!TypeStored, PutCalls
<1>3. QED
  BY CatalogAssumption, <1>1, <1>2, TypeMoves DEF Catalog!TypeStored, Catalog!Ends

LEMMA TypeDeletedKeeps ==
    ASSUME CatalogInv, NEW r \in Requests, Catalog!TypeDeleted(r)
    PROVE  CatalogInv'
<1>1. call[r].op = "drop type" /\ call[r].pc = "write" /\ call[r] # Catalog!Idle
  BY CallOps DEF Catalog!TypeDeleted, Catalog!At
<1>2. ~history.overlapped => \A i \in DOMAIN cases : cases[i].of # "typed"
  BY <1>1 DEF CatalogInv, AloneStands, StillHolds
<1>3. QED
  BY <1>1, <1>2, TypeMoves DEF Catalog!TypeDeleted, Catalog!Ends

LEMMA CaseOpenedKeeps ==
    ASSUME CatalogInv, NEW r \in Requests, Catalog!CaseOpened(r)
    PROVE  CatalogInv'
<1>. USE DEF CatalogInv
<1>. PICK q : q = call[r]
  OBVIOUS
<1>. PICK n : n = Len(cases)
  OBVIOUS
<1>. PICK new : new = [of |-> q.of, fields |-> q.fields, ref |-> q.ref, queries |-> 0,
                       as |-> IF q.of = "general" THEN None ELSE q.spec,
                       owner |-> q.by, shared |-> {}, knew |-> q.knew]
  OBVIOUS
<1>. PICK w : w = [q EXCEPT !.pc = "start", !.at = n + 1, !.knew = {}]
  OBVIOUS
<1>1. q.op = "create" /\ q.pc = "write" /\ q \in CreateCalls /\ q # Catalog!Idle
  BY CallAt, CallOps DEF Catalog!CaseOpened, Catalog!At
<1>2. /\ cases' = Append(cases, new) /\ Catalog!GoesOn(r, w) /\ n < asked.cases
      /\ UNCHANGED <<type, doc, history, asked>>
  BY DEF Catalog!CaseOpened
<1>3. cases \in Seq(Catalog!Cases) /\ n \in Nat /\ n + 1 \in Nat /\ asked.cases \in Nat
  <2>1. cases \in Seq(Catalog!Cases)
    BY DEF Catalog!TypeOK
  <2>2. Len(cases) \in Nat
    BY <2>1
  <2>3. QED
    BY CatalogAssumption, <2>1, <2>2
<1>4. Of(q.of, q.spec) /\ Fits(q.spec, q.fields) /\ q.of \in Kinds
  BY <1>1 DEF Prepared, CreateCalls
<1>5. new \in Catalog!Cases
  BY <1>1, <1>4 DEF CreateCalls, Catalog!Cases, Of, Kinds
<1>6. /\ cases' \in Seq(Catalog!Cases) /\ Len(cases') = n + 1 /\ DOMAIN cases' = DOMAIN cases \cup {n + 1}
      /\ cases'[n + 1] = new /\ \A i \in DOMAIN cases : cases'[i] = cases[i]
      /\ n + 1 \notin DOMAIN cases
  BY <1>2, <1>3, <1>5
<1>7. /\ w \in CreateCalls /\ w.op = "create" /\ w.pc = "start" /\ w.at = n + 1
      /\ w.of = q.of /\ w.spec = q.spec /\ w.fields = q.fields /\ w.knew = {}
  <2>. PICK m \in Nat : m = n + 1
    BY <1>3
  <2>1. w = [q EXCEPT !.pc = "start", !.at = m, !.knew = {}]
    OBVIOUS
  <2>2. QED
    BY <1>1, <2>1 DEF CreateCalls
<1>8. /\ CallTypes' /\ call'[r] = w
      /\ \A s \in Requests : s # r => call'[s] = call[s]
  BY <1>2, <1>7, Moves DEF CallsOfCatalog
<1>9. Catalog!TypeOK'
  <2>1. CallsNamed'
    BY <1>8, RequestsTyped, PTL
  <2>2. Len(cases') <= asked'.cases
    BY <1>2, <1>3, <1>6
  <2>3. QED
    BY <1>2, <1>6, <2>1, <2>2 DEF Catalog!TypeOK, CallsNamed
<1>10. \A s \in Requests : Prepared(call[s])'
  <2>1. Prepared(call[r])'
    BY <1>4, <1>6, <1>7, <1>8 DEF Prepared
  <2>2. ASSUME NEW s \in Requests, s # r PROVE Prepared(call[s])'
    <3>1. call'[s] = call[s] /\ Prepared(call[s]) /\ DOMAIN cases \subseteq DOMAIN cases'
      BY <1>6, <1>8, <2>2
    <3>2. \A i \in Catalog!HasRef : i \in Catalog!HasRef' /\ cases'[i] = cases[i]
      BY <1>6 DEF Catalog!HasRef
    <3>3. QED
      BY <3>1, <3>2 DEF Prepared, Looked, Catalog!Reads
  <2>3. QED
    BY <2>1, <2>2
<1>11. CasesFit'
  <2>1. Fits(IF new.as = None THEN Catalog!General ELSE new.as, new.fields)
    BY CatalogAssumption, <1>4 DEF Of, Kinds
  <2>2. QED
    BY <1>6, <2>1 DEF CasesFit
<1>12. NewToAll'
  <2>1. q.ref => q.knew = {}
    BY <1>1 DEF Prepared, Looked
  <2>2. QED
    BY <1>6, <2>1 DEF NewToAll, Catalog!HasRef
<1>15. AloneStands'
  <2>1. ASSUME ~history.overlapped
        PROVE  /\ \A s \in Requests : s # r => call'[s] = Catalog!Idle
               /\ StillHolds(q)
               /\ \A i \in DOMAIN cases : cases[i].of = "typed" => type # None
    BY <1>1, <1>8, <2>1, OnlyOne DEF AloneStands
  <2>2. ASSUME ~history.overlapped, NEW s \in Requests PROVE StillHolds(call[s])'
    <3>1. CASE s = r
      <4>1. call'[s].op = "create" /\ call'[s].pc = "start"
        BY <1>7, <1>8, <3>1
      <4>2. QED
        BY <4>1 DEF StillHolds, Looked
    <3>2. CASE s # r
      <4>1. call'[s] = Catalog!Idle
        BY <2>1, <2>2, <3>2
      <4>2. QED
        BY <4>1 DEF StillHolds, Looked, Catalog!Idle
    <3>3. QED
      BY <3>1, <3>2
  <2>3. ~history.overlapped => \A s, t \in Catalog!Busy' : s = t
    BY <2>1 DEF Catalog!Busy
  <2>4. ASSUME ~history.overlapped PROVE \A i \in DOMAIN cases' : cases'[i].of = "typed" => type # None
    BY <1>1, <1>6, <2>1, <2>4 DEF StillHolds
  <2>6. QED
    BY <1>2, <2>2, <2>3, <2>4 DEF AloneStands
<1>16. QED
  BY <1>2, <1>8, <1>9, <1>10, <1>11, <1>12, <1>15

LEMMA OneReplaced ==
    ASSUME NEW S, NEW s \in Seq(S), NEW i \in DOMAIN s, NEW x \in S, NEW t, t = [s EXCEPT ![i] = x]
    PROVE  /\ t \in Seq(S) /\ Len(t) = Len(s) /\ DOMAIN t = DOMAIN s
           /\ t[i] = x /\ \A j \in DOMAIN s : j # i => t[j] = s[j]
OBVIOUS

LEMMA OneCaseReplaced ==
    ASSUME cases \in Seq(Catalog!Cases), NEW i \in DOMAIN cases, NEW new \in Catalog!Cases, cases' = [cases EXCEPT ![i] = new]
    PROVE  /\ cases' \in Seq(Catalog!Cases) /\ Len(cases') = Len(cases) /\ DOMAIN cases' = DOMAIN cases
           /\ cases'[i] = new /\ \A j \in DOMAIN cases : j # i => cases'[j] = cases[j]
BY OneReplaced

\* A case is given a query or changed, and its request goes on or is over.
LEMMA CaseMoves ==
    ASSUME CatalogInv, NEW r \in Requests, call[r] # Catalog!Idle,
           NEW q \in {Catalog!Idle} \cup CallsOfCatalog, Catalog!GoesOn(r, q),
           q = Catalog!Idle \/ q = call[r], q.op # "drop type", StillHolds(q),
           NEW i \in DOMAIN cases, NEW new \in Catalog!Cases, cases' = [cases EXCEPT ![i] = new],
           new.ref = cases[i].ref, new.owner = cases[i].owner,
           new.shared = cases[i].shared, new.knew = cases[i].knew,
           Fits(IF new.as = None THEN Catalog!General ELSE new.as, new.fields),
           ~history.overlapped => (new.of = "typed" => type # None),
           UNCHANGED <<type, doc, history, asked>>
    PROVE  CatalogInv'
<1>1. cases \in Seq(Catalog!Cases)
  BY DEF CatalogInv, Catalog!TypeOK
<1>2. /\ cases' \in Seq(Catalog!Cases) /\ Len(cases') = Len(cases) /\ DOMAIN cases' = DOMAIN cases
      /\ cases'[i] = new /\ \A j \in DOMAIN cases : j # i => cases'[j] = cases[j]
  BY <1>1, OneCaseReplaced
<1>. USE DEF CatalogInv
<1>3. /\ CallTypes' /\ call'[r] = q
      /\ \A s \in Requests : s # r => call'[s] = call[s]
  BY Moves
<1>4. Catalog!TypeOK'
  <2>1. CallsNamed'
    BY <1>3, RequestsTyped, PTL
  <2>2. QED
    BY <1>2, <2>1 DEF Catalog!TypeOK, CallsNamed
<1>5. \A s \in Requests : Prepared(call[s])'
  <2>1. ASSUME NEW s \in Requests PROVE Prepared(call[s])'
    <3>1. CASE call'[s] = Catalog!Idle
      BY <3>1, CallOps DEF Prepared
    <3>2. CASE call'[s] = call[s]
      <4>1. \A p : \A j \in DOMAIN cases : Catalog!Reads(p, cases[j]) => Catalog!Reads(p, cases[j])'
        BY <1>2 DEF Catalog!Reads
      <4>2. Catalog!HasRef' = Catalog!HasRef /\ Catalog!HasRef \subseteq DOMAIN cases
        BY <1>2 DEF Catalog!HasRef
      <4>3. Prepared(call[s])
        OBVIOUS
      <4>4. QED
        BY <1>2, <3>2, <4>1, <4>2, <4>3 DEF Prepared, Looked
    <3>3. QED
      BY <1>3, <3>1, <3>2
  <2>2. QED
    BY <2>1
<1>6. CasesFit'
  BY <1>2 DEF CasesFit
<1>7. NewToAll'
  BY <1>2 DEF NewToAll, Catalog!HasRef
<1>9. AloneStands'
  <2>1. ASSUME ~history.overlapped
        PROVE  \A s \in Requests : s # r => call'[s] = Catalog!Idle
    BY <1>3, <2>1, OnlyOne
  <2>2. ASSUME ~history.overlapped, NEW s \in Requests PROVE StillHolds(call[s])'
    <3>1. CASE s = r
      <4>1. /\ q.op = "create" /\ q.pc \in {"look", "write"} /\ q.of = "typed" => type # None
            /\ q.op = "change" /\ q.pc = "write" /\ q.of = "typed" => type # None
        BY DEF StillHolds
      <4>2. call'[s] = q /\ type' = type
        BY <1>3, <3>1
      <4>3. QED
        BY <4>1, <4>2 DEF StillHolds
    <3>2. CASE s # r
      <4>1. call'[s].op = "none"
        BY <2>1, <2>2, <3>2, CallOps
      <4>2. QED
        BY <4>1 DEF StillHolds, Looked
    <3>3. QED
      BY <3>1, <3>2
  <2>3. ~history.overlapped => \A s, t \in Catalog!Busy' : s = t
    BY <2>1 DEF Catalog!Busy
  <2>4. ASSUME ~history.overlapped PROVE \A j \in DOMAIN cases' : cases'[j].of = "typed" => type # None
    BY <1>2, <2>4 DEF AloneStands
  <2>5. QED
    BY <2>2, <2>3, <2>4 DEF AloneStands
<1>10. QED
  BY <1>3, <1>4, <1>5, <1>6, <1>7, <1>9

LEMMA StartsKeeps ==
    ASSUME CatalogInv, NEW r \in Requests, Catalog!Starts(r)
    PROVE  CatalogInv'
<1>. USE DEF CatalogInv
<1>. PICK q : q = call[r]
  OBVIOUS
<1>1. q.op = "create" /\ q.pc = "start" /\ q \in CreateCalls /\ q # Catalog!Idle
  BY CallAt, CallOps DEF Catalog!Starts, Catalog!At
<1>2. q.at \in DOMAIN cases /\ Of(q.of, q.spec)
  BY <1>1 DEF Prepared
<1>. PICK i : i = q.at
  OBVIOUS
<1>3. cases \in Seq(Catalog!Cases) /\ cases[i] \in Catalog!Cases
  <2>1. cases \in Seq(Catalog!Cases)
    BY DEF Catalog!TypeOK
  <2>2. QED
    BY <1>2, <2>1
<1>4. StillHolds(q)
  BY <1>1 DEF StillHolds
<1>5. CASE /\ cases[i].queries < q.spec.starters
           /\ cases' = [cases EXCEPT ![i].queries = @ + 1]
           /\ UNCHANGED <<call, history>>
  <2>1. q.spec.starters \in 0..2
    BY CatalogAssumption, <1>1, <1>2 DEF Of, Catalog!General
  <2>. PICK old \in Catalog!Cases : old = cases[i]
    BY <1>3
  <2>. PICK m : m = old.queries + 1
    OBVIOUS
  <2>2. old.queries \in 0..2 /\ m \in 0..2
    <3>1. old.queries \in 0..2
      BY DEF Catalog!Cases
    <3>2. QED
      BY <1>5, <2>1, <3>1
  <2>. PICK new : new = [old EXCEPT !.queries = m]
    OBVIOUS
  <2>3. /\ new \in Catalog!Cases /\ new.ref = old.ref /\ new.as = old.as /\ new.fields = old.fields /\ new.of = old.of
        /\ new.owner = old.owner /\ new.shared = old.shared /\ new.knew = old.knew
    BY <2>2 DEF Catalog!Cases
  <2>4. cases' = [cases EXCEPT ![i] = new]
    BY <1>5
  <2>5. Fits(IF new.as = None THEN Catalog!General ELSE new.as, new.fields)
    BY <1>2, <2>3 DEF CasesFit
  <2>6. ~history.overlapped => (new.of = "typed" => type # None)
    BY <1>2, <2>3 DEF AloneStands
  <2>7. call \in [Requests -> {Catalog!Idle} \cup CallsOfCatalog] /\ q \in CallsOfCatalog
    BY <1>1 DEF CallTypes, CallsOfCatalog
  <2>8. Catalog!GoesOn(r, q)
    BY <1>5, <2>7 DEF Catalog!GoesOn
  <2>9. /\ call[r] # Catalog!Idle /\ q \in {Catalog!Idle} \cup CallsOfCatalog /\ q = call[r] /\ q.op # "drop type"
        /\ i \in DOMAIN cases /\ new.ref = cases[i].ref /\ UNCHANGED <<type, doc, history, asked>>
        /\ new.owner = cases[i].owner /\ new.shared = cases[i].shared /\ new.knew = cases[i].knew
    BY <1>1, <1>2, <1>5, <2>3, <2>7 DEF Catalog!Starts
  <2>10. QED
    BY <1>4, <2>3, <2>4, <2>5, <2>6, <2>8, <2>9, CaseMoves
<1>6. CASE /\ Catalog!GoesOn(r, Catalog!Idle) /\ UNCHANGED cases
           /\ history' = [history EXCEPT !.cut = @ \/ cases[i].queries < q.spec.starters]
  <2>1. history \in [overlapped : BOOLEAN, cut : BOOLEAN]
    BY DEF Catalog!TypeOK
  <2>2. /\ history' \in [overlapped : BOOLEAN, cut : BOOLEAN]
        /\ history'.overlapped = history.overlapped
    BY <1>6, <2>1
  <2>3. /\ CallTypes' /\ call'[r] = Catalog!Idle
        /\ \A s \in Requests : s # r => call'[s] = call[s]
    BY <1>6, Moves
  <2>4. CasesFit' /\ NewToAll'
    BY <1>6, NoCaseMoves
  <2>5. Catalog!TypeOK'
    <3>1. CallsNamed'
      BY <2>3, RequestsTyped, PTL
    <3>2. QED
      BY <1>6, <2>2, <3>1 DEF Catalog!TypeOK, CallsNamed, Catalog!Starts
  <2>6. \A s \in Requests : Prepared(call[s])'
    BY <1>6, <2>3, NothingOfIdle DEF Prepared, Looked, Catalog!HasRef, Catalog!Reads
  <2>8. AloneStands'
    <3>1. ASSUME ~history.overlapped
          PROVE  \A s \in Requests : call'[s] = Catalog!Idle
      BY <1>1, <2>3, <3>1, OnlyOne
    <3>2. ASSUME ~history.overlapped, NEW s \in Requests PROVE StillHolds(call[s])'
      <4>1. call'[s] = Catalog!Idle
        BY <3>1, <3>2
      <4>2. QED
        BY <4>1 DEF StillHolds, Looked, Catalog!Idle
    <3>3. ~history.overlapped => \A s, t \in Catalog!Busy' : s = t
      BY <3>1 DEF Catalog!Busy
    <3>4. UNCHANGED type
      BY DEF Catalog!Starts
    <3>5. QED
      BY <1>6, <2>2, <3>2, <3>3, <3>4 DEF AloneStands
  <2>9. QED
    BY <2>3, <2>4, <2>5, <2>6, <2>8 DEF Catalog!Starts
<1>7. QED
  BY <1>5, <1>6 DEF Catalog!Starts, Catalog!Ends

LEMMA CaseChangedKeeps ==
    ASSUME CatalogInv, NEW r \in Requests, Catalog!CaseChanged(r)
    PROVE  CatalogInv'
<1>. USE DEF CatalogInv
<1>. PICK q : q = call[r]
  OBVIOUS
<1>1. q.op = "change" /\ q.pc = "write" /\ q \in ChangeCalls /\ q # Catalog!Idle
  BY CallAt, CallOps DEF Catalog!CaseChanged, Catalog!At
<1>2. q.at \in DOMAIN cases /\ Of(q.of, q.spec) /\ Fits(q.spec, q.fields)
  BY <1>1 DEF Prepared
<1>. PICK i : i = q.at
  OBVIOUS
<1>3. cases \in Seq(Catalog!Cases) /\ cases[i] \in Catalog!Cases
  <2>1. cases \in Seq(Catalog!Cases)
    BY DEF Catalog!TypeOK
  <2>2. QED
    BY <1>2, <2>1
<1>4. q.of \in Kinds /\ q.fields \in SUBSET Catalog!Fields
  BY <1>1 DEF ChangeCalls
<1>. PICK old \in Catalog!Cases : old = cases[i]
  BY <1>3
<1>. PICK of : of = IF q.moved THEN q.of ELSE old.of
  OBVIOUS
<1>. PICK as : as = IF q.of = "general" THEN None ELSE q.spec
  OBVIOUS
<1>. PICK new : new = [old EXCEPT !.of = of, !.fields = q.fields, !.as = as]
  OBVIOUS
<1>5. of \in Kinds /\ as \in Specs \cup {None}
  BY <1>2, <1>4 DEF Of, Kinds, Catalog!Cases
<1>6. /\ new \in Catalog!Cases /\ new.ref = old.ref /\ new.as = as /\ new.fields = q.fields /\ new.of = of
      /\ new.owner = old.owner /\ new.shared = old.shared /\ new.knew = old.knew
  BY <1>4, <1>5 DEF Catalog!Cases, Kinds
<1>7. cases' = [cases EXCEPT ![i] = new]
  BY DEF Catalog!CaseChanged
<1>8. Fits(IF new.as = None THEN Catalog!General ELSE new.as, new.fields)
  BY CatalogAssumption, <1>2, <1>4, <1>6 DEF Of, Kinds
<1>9. ~history.overlapped => (new.of = "typed" => type # None)
  <2>1. ~history.overlapped => (q.of = "typed" => type # None)
    BY <1>1 DEF AloneStands, StillHolds
  <2>2. ~history.overlapped => (old.of = "typed" => type # None)
    BY <1>2 DEF AloneStands
  <2>3. QED
    BY <1>6, <2>1, <2>2
<1>10. StillHolds(Catalog!Idle) /\ Catalog!Idle.op = "none"
  BY NothingOfIdle, CallOps
<1>11. /\ call[r] # Catalog!Idle /\ Catalog!GoesOn(r, Catalog!Idle) /\ i \in DOMAIN cases /\ new.ref = cases[i].ref
       /\ new.owner = cases[i].owner /\ new.shared = cases[i].shared /\ new.knew = cases[i].knew
       /\ UNCHANGED <<type, doc, history, asked>> /\ Catalog!Idle \in {Catalog!Idle} \cup CallsOfCatalog
  BY <1>1, <1>2, <1>6 DEF Catalog!CaseChanged, Catalog!Ends
<1>12. QED
  BY <1>6, <1>7, <1>8, <1>9, <1>10, <1>11, CaseMoves

\* Access to a case is given or taken: nothing else of it moves, and a request has still
\* read what it read before and reads now.
LEMMA AccessMoves ==
    ASSUME CatalogInv, NEW i \in DOMAIN cases, NEW new \in Catalog!Cases, cases' = [cases EXCEPT ![i] = new],
           new.of = cases[i].of, new.fields = cases[i].fields, new.ref = cases[i].ref,
           new.as = cases[i].as, new.knew = cases[i].knew,
           Catalog!StillRead, UNCHANGED <<type, doc, history, asked>>
    PROVE  CatalogInv'
<1>. USE DEF CatalogInv
<1>1. cases \in Seq(Catalog!Cases)
  BY CasesNumbered
<1>3. /\ cases' \in Seq(Catalog!Cases) /\ Len(cases') = Len(cases) /\ DOMAIN cases' = DOMAIN cases
      /\ cases'[i] = new /\ \A j \in DOMAIN cases : j # i => cases'[j] = cases[j]
  BY <1>1, OneCaseReplaced
<1>4. Catalog!HasRef' = Catalog!HasRef
  BY <1>3 DEF Catalog!HasRef
<1>5. ASSUME NEW s \in Requests
      PROVE  /\ call'[s] \in {Catalog!Idle} \cup CallsOfCatalog /\ Prepared(call[s])'
             /\ (StillHolds(call[s]) => StillHolds(call[s])') /\ (call'[s] = Catalog!Idle <=> call[s] = Catalog!Idle)
  <2>1. CASE call[s].op # "create"
    <3>1. call'[s] = call[s] /\ call[s] \in {Catalog!Idle} \cup CallsOfCatalog /\ Prepared(call[s])
      BY <2>1 DEF Catalog!StillRead, CallTypes
    <3>2. Prepared(call[s])'
      BY <1>3, <2>1, <3>1 DEF Prepared, Looked
    <3>3. StillHolds(call[s]) => StillHolds(call[s])'
      BY <1>3, <2>1, <3>1 DEF StillHolds
    <3>4. QED
      BY <3>1, <3>2, <3>3
  <2>2. CASE call[s].op = "create"
    <3>. PICK q \in CreateCalls : q = call[s]
      BY <2>2, CallAt
    <3>. PICK known : known = {j \in q.knew : Catalog!Reads(q.by, cases'[j])}
      OBVIOUS
    <3>1. call'[s] = [q EXCEPT !.knew = known] /\ known \subseteq q.knew
      BY <2>2 DEF Catalog!StillRead
    <3>. PICK w : w = call'[s]
      OBVIOUS
    <3>2. /\ w \in CreateCalls /\ w.op = "create" /\ w.pc = q.pc /\ w.by = q.by /\ w.of = q.of /\ w.fields = q.fields
          /\ w.ref = q.ref /\ w.spec = q.spec /\ w.at = q.at /\ w.knew = known
      BY <2>2, <3>1 DEF CreateCalls
    <3>3. Prepared(q)
      OBVIOUS
    <3>4. \A j \in w.knew : j \in Catalog!HasRef' /\ Catalog!Reads(w.by, cases[j])'
      BY <1>4, <2>2, <3>2, <3>3 DEF Prepared, Catalog!Reads
    <3>5. Prepared(call[s])'
      BY <1>3, <2>2, <3>1, <3>2, <3>3, <3>4 DEF Prepared, Looked
    <3>6. StillHolds(q) => StillHolds(call[s])'
      BY <2>2, <3>2 DEF StillHolds
    <3>7. QED
      BY <2>2, <3>2, <3>5, <3>6, CallOps DEF CallsOfCatalog
  <2>3. QED
    BY <2>1, <2>2
<1>6. CallTypes'
  BY <1>5 DEF CallTypes, Catalog!StillRead
<1>7. Catalog!TypeOK'
  <2>1. CallsNamed'
    BY <1>6, RequestsTyped, PTL
  <2>2. QED
    BY <1>3, <2>1 DEF Catalog!TypeOK, CallsNamed
<1>8. CasesFit' /\ NewToAll'
  BY <1>3, <1>4 DEF CasesFit, NewToAll, Catalog!HasRef
<1>9. AloneStands'
  <2>1. Catalog!Busy' = Catalog!Busy
    BY <1>5 DEF Catalog!Busy
  <2>2. \A j \in DOMAIN cases' : cases'[j].of = cases[j].of
    BY <1>3
  <2>3. QED
    BY <1>3, <1>5, <2>1, <2>2 DEF AloneStands
<1>10. QED
  BY <1>5, <1>6, <1>7, <1>8, <1>9

LEMMA AccessKeeps ==
    ASSUME CatalogInv, NEW i \in DOMAIN cases, NEW person \in People,
           Catalog!Share(i, person) \/ Catalog!Unshare(i, person) \/ Catalog!TransferOwner(i, person)
    PROVE  CatalogInv'
<1>. PICK old \in Catalog!Cases : old = cases[i]
  BY CasesNumbered DEF CatalogInv
<1>1. old.owner \in People /\ old.shared \in SUBSET People
  BY DEF Catalog!Cases
<1>2. CASE Catalog!Share(i, person)
  <2>. PICK new : new = [old EXCEPT !.shared = old.shared \cup {person}]
    OBVIOUS
  <2>1. /\ new \in Catalog!Cases /\ new.of = old.of /\ new.fields = old.fields /\ new.ref = old.ref
        /\ new.as = old.as /\ new.knew = old.knew
    BY <1>1 DEF Catalog!Cases
  <2>2. cases' = [cases EXCEPT ![i] = new] /\ Catalog!StillRead /\ UNCHANGED <<type, doc, history, asked>>
    BY <1>2 DEF Catalog!Share
  <2>3. QED
    BY <2>1, <2>2, AccessMoves
<1>3. CASE Catalog!Unshare(i, person)
  <2>. PICK new : new = [old EXCEPT !.shared = old.shared \ {person}]
    OBVIOUS
  <2>1. /\ new \in Catalog!Cases /\ new.of = old.of /\ new.fields = old.fields /\ new.ref = old.ref
        /\ new.as = old.as /\ new.knew = old.knew
    BY <1>1 DEF Catalog!Cases
  <2>2. cases' = [cases EXCEPT ![i] = new] /\ Catalog!StillRead /\ UNCHANGED <<type, doc, history, asked>>
    BY <1>3 DEF Catalog!Unshare
  <2>3. QED
    BY <2>1, <2>2, AccessMoves
<1>4. CASE Catalog!TransferOwner(i, person)
  <2>. PICK new : new = [old EXCEPT !.owner = person, !.shared = old.shared \ {person}]
    OBVIOUS
  <2>1. /\ new \in Catalog!Cases /\ new.of = old.of /\ new.fields = old.fields /\ new.ref = old.ref
        /\ new.as = old.as /\ new.knew = old.knew
    BY <1>1 DEF Catalog!Cases
  <2>2. cases' = [cases EXCEPT ![i] = new] /\ Catalog!StillRead /\ UNCHANGED <<type, doc, history, asked>>
    BY <1>4 DEF Catalog!TransferOwner
  <2>3. QED
    BY <2>1, <2>2, AccessMoves
<1>5. QED
  BY <1>2, <1>3, <1>4

LEMMA CatalogInitHolds == Catalog!Init => CatalogInv
<1>. SUFFICES ASSUME Catalog!Init PROVE CatalogInv
  OBVIOUS
<1>1. cases = <<>> /\ DOMAIN cases = {} /\ cases \in Seq(Catalog!Cases) /\ Len(cases) = 0
  BY DEF Catalog!Init
<1>2. CallTypes /\ \A r \in Requests : call[r] = Catalog!Idle
  BY DEF Catalog!Init, CallTypes
<1>3. Catalog!TypeOK
  <2>1. Len(cases) <= asked.cases
    BY CatalogAssumption, <1>1 DEF Catalog!Init
  <2>2. QED
    BY <1>1, <1>2, <2>1 DEF Catalog!Init, Catalog!TypeOK
<1>4. Catalog!HasRef = {} /\ NewToAll
  BY <1>1 DEF Catalog!HasRef, NewToAll
<1>5. \A r \in Requests : Prepared(call[r]) /\ StillHolds(call[r])
  <2>1. Prepared(Catalog!Idle) /\ StillHolds(Catalog!Idle)
    BY DEF Prepared, StillHolds, Looked, Catalog!Idle
  <2>2. QED
    BY <1>2, <2>1
<1>6. QED
  BY <1>1, <1>2, <1>3, <1>4, <1>5 DEF Catalog!Init, CatalogInv, CasesFit, AloneStands, Catalog!Busy

LEMMA CatalogStepKeeps == CatalogInv /\ [Catalog!Next]_(Catalog!vars) => CatalogInv'
<1>. SUFFICES ASSUME CatalogInv, [Catalog!Next]_(Catalog!vars) PROVE CatalogInv'
  OBVIOUS
<1>1. CASE UNCHANGED Catalog!vars
  BY <1>1 DEF Catalog!vars, CatalogInv, Catalog!TypeOK, CallTypes, Prepared, CasesFit, AloneStands, Catalog!Busy, Catalog!HasRef,
     Catalog!Reads, StillHolds, Looked, NewToAll
<1>2. ASSUME NEW r \in Requests, Catalog!GoesOnWith(r) PROVE CatalogInv'
  BY <1>2, TypeStoredKeeps, CountsKeeps, TypeDeletedKeeps, LooksUpKeeps, CaseOpenedKeeps, StartsKeeps,
     ReadsTypeKeeps, CaseChangedKeeps DEF Catalog!GoesOnWith
<1>3. CASE Catalog!Next
  <2>1. asked.people \subseteq People /\ asked.kinds \subseteq Kinds
    BY CatalogAssumption DEF CatalogInv, Kinds
  <2>2. QED
    BY <1>2, <1>3, <2>1, DocKeeps, AccessKeeps, PutTypeKeeps, DeleteTypeKeeps, CreateCaseKeeps, ChangeCaseKeeps
       DEF Catalog!Next
<1>4. QED
  BY <1>1, <1>3

\* What the property says follows from the invariant.
LEMMA CatalogInvSays == CatalogInv => Catalog!TypeOK /\ Catalog!CatalogStands
<1>. SUFFICES ASSUME CatalogInv PROVE Catalog!TypeOK /\ Catalog!CatalogStands
  OBVIOUS
<1>1. Catalog!TypesStay
  BY DEF CatalogInv, AloneStands, Catalog!TypesStay
<1>2. Catalog!FieldsFit
  BY DEF CatalogInv, CasesFit, Fits, Catalog!FieldsFit
<1>3. Catalog!OneCasePerAlert
  BY DEF CatalogInv, NewToAll, Catalog!OneCasePerAlert
<1>4. QED
  BY <1>1, <1>2, <1>3 DEF CatalogInv, Catalog!CatalogStands

\* A type that cases use is not deleted while no case is opened with it or moved to it, the
\* fields of a case are those of the type they were checked against, and however requests
\* overlap and access is given, taken or transferred, nobody opens a case for an alert
\* beside one that they have read ever since they asked (delete_case_type, clean_fields,
\* create_investigation with _by_external_ref).
THEOREM CatalogHolds == MCSpec => []CatalogStands
<1>1. MCInit => CatalogInv
  BY CatalogInitHolds DEF MCInit
<1>2. CatalogInv /\ [MCNext]_<<vars, catalog, part>> => CatalogInv'
  <2>1. [MCNext]_<<vars, catalog, part>> => [Catalog!Next]_(Catalog!vars)
    BY DEF MCNext, catalog, Catalog!vars
  <2>2. QED
    BY <2>1, CatalogStepKeeps
<1>3. CatalogInv => CatalogStands
  BY CatalogInvSays DEF CatalogStands
<1>4. QED
  BY <1>1, <1>2, <1>3, PTL DEF MCSpec

================================================================================
