---------------------------- MODULE SharingProofs ----------------------------
(***************************************************************************)
(* Proofs about Sharing: rows stand however requests overlap, every way in *)
(* gives the same answer, and while requests do not overlap one row is all *)
(* there is of each and access changes only at the hand of a manager.      *)
(*                                                                         *)
(* The invariant says of a request under way what its commit relies on:    *)
(* the row it is about to update is the row it found (Held), and, as long  *)
(* as nothing else is under way, what admitted it is still so (Vouched).   *)
(***************************************************************************)
EXTENDS Sharing, FiniteSetTheorems, TLAPS

Busy == {q \in Requests : pending[q] # Idle}

IdsUnique == \A s, x \in shares : s.id = x.id => s = x
AddressesMeant == \A s \in shares : s.address \in Addresses

FiniteDrop(p) == p.do = "transfer" => IsFiniteSet(p.drop)

\* The row that will be updated or removed is of the thing, and the address, that the
\* request was admitted for; nobody is about to let everybody write.
HeldBy(p) ==
    /\ p.do \in {"grant", "revoke"} => \A s \in shares : s.id = p.row => s.on = p.on
    /\ p.do = "grant" =>
          /\ \A s \in shares : s.id = p.row => s.address = p.address
          /\ p.address = Public => p.permission = "read"

\* What admitted an effect.
Vouched(p) ==
    /\ p.do \in {"grant", "revoke", "delete"} => Exists(p.on) /\ CanManage(p.by, p.on)
    /\ p.do = "grant" /\ p.row = NoRow => \A s \in RowsOn(p.on) : s.address # p.address
    /\ p.do = "transfer" => p.by \in Superusers
    /\ p.do = "open" => contexts[p.on] = Absent
    /\ p.do = "create" => explorations[p.on] = Absent /\ ~TitleTaken(p.context, p.title, {})
    /\ p.do = "rename" => ~TitleTaken(explorations[p.on].context, p.title, {p.on})
    /\ p.do = "compose" => templates[p.template] = Absent
    /\ p.do = "edit" =>
          /\ Exists(templates[p.template].context)
          /\ MayMutate(p.by, templates[p.template])
          /\ MayChangeVisibility(p.by, templates[p.template], p.visibility)

Finite ==
    /\ IsFiniteSet(shares) /\ IsFiniteSet(Busy)
    /\ \A q \in Requests : FiniteDrop(pending[q])
Held == \A q \in Requests : HeldBy(pending[q])
AtMostOne == \A q, x \in Busy : q = x
AloneStand == Alone => AtMostOne /\ \A q \in Requests : Vouched(pending[q])

IInv ==
    /\ TypeOK /\ Finite /\ IdsUnique /\ AddressesMeant /\ Held
    /\ RowsStand /\ AloneStand /\ RowsUnique

-------------------------------------------------------------------------------
(* Effects and rows.                                                         *)

\* What each kind of effect carries (the writes the handlers decide on).
Carries(p) ==
    /\ p.do = "nothing" => p = Idle
    /\ p.do = "grant" =>
          /\ p.by \in People /\ p.on \in Things /\ p.address \in Addresses
          /\ p.permission \in Permissions /\ p.row \in RowIds \cup {NoRow}
    /\ p.do = "revoke" => p.by \in People /\ p.on \in Things /\ p.row \in RowIds \cup {NoRow}
    /\ p.do = "delete" => p.by \in People /\ p.on \in Things
    /\ p.do = "transfer" =>
          p.by \in People /\ p.on \in Things /\ p.to \in People /\ p.drop \in SUBSET RowIds
    /\ p.do \in {"open", "settings"} => p.by \in People /\ p.on \in Contexts
    /\ p.do = "create" =>
          p.by \in People /\ p.on \in Explorations /\ p.context \in Contexts /\ p.title \in Titles
    /\ p.do = "rename" => p.by \in People /\ p.on \in Explorations /\ p.title \in Titles
    /\ p.do = "compose" =>
          /\ p.by \in People /\ p.template \in Templates /\ p.context \in Contexts
          /\ p.visibility \in {"shared", "private"}
    /\ p.do = "edit" =>
          /\ p.by \in People /\ p.template \in Templates
          /\ p.visibility \in {"shared", "private", "as it is"}
    /\ p.do = "discard" => p.by \in People /\ p.template \in Templates

LEMMA EffectFields == \A p \in Effects : Carries(p)
<1> SUFFICES ASSUME NEW p \in Effects PROVE Carries(p)
  OBVIOUS
<1>1. CASE p \in {Idle}
  <2>1. p = Idle /\ p.do = "nothing"
    BY <1>1 DEF Idle
  <2>2. QED
    BY <2>1 DEF Carries
<1>2. CASE p \in [do : {"grant"}, by : People, on : Things, address : Addresses,
                permission : Permissions, row : RowIds \cup {NoRow}]
  BY <1>2 DEF Carries, Idle
<1>3. CASE p \in [do : {"revoke"}, by : People, on : Things, row : RowIds \cup {NoRow}]
  BY <1>3 DEF Carries, Idle
<1>4. CASE p \in [do : {"delete"}, by : People, on : Things]
  BY <1>4 DEF Carries, Idle
<1>5. CASE p \in [do : {"transfer"}, by : People, on : Things, to : People, drop : SUBSET RowIds]
  BY <1>5 DEF Carries, Idle
<1>6. CASE p \in [do : {"open"}, by : People, on : Contexts]
  BY <1>6 DEF Carries, Idle
<1>7. CASE p \in [do : {"settings"}, by : People, on : Contexts]
  BY <1>7 DEF Carries, Idle
<1>8. CASE p \in [do : {"create"}, by : People, on : Explorations, context : Contexts, title : Titles]
  BY <1>8 DEF Carries, Idle
<1>9. CASE p \in [do : {"rename"}, by : People, on : Explorations, title : Titles]
  BY <1>9 DEF Carries, Idle
<1>10. CASE p \in [do : {"compose"}, by : People, template : Templates, context : Contexts,
                visibility : {"shared", "private"}]
  BY <1>10 DEF Carries, Idle
<1>11. CASE p \in [do : {"edit"}, by : People, template : Templates,
                visibility : {"shared", "private", "as it is"}]
  BY <1>11 DEF Carries, Idle
<1>12. CASE p \in [do : {"discard"}, by : People, template : Templates]
  BY <1>12 DEF Carries, Idle
<1>13. QED
  BY <1>1, <1>2, <1>3, <1>4, <1>5, <1>6, <1>7, <1>8, <1>9, <1>10, <1>11, <1>12 DEF Effects

\* Thing and Exists read contexts and explorations (the two halves of every handler).
LEMMA ThingIs ==
    ASSUME NEW t \in Things
    PROVE  /\ t \in Contexts => /\ Thing(t) = contexts[t] /\ Thing(t)' = contexts'[t]
                                /\ Exists(t) <=> contexts[t] \notin {Absent, Gone}
                                /\ Exists(t)' <=> contexts'[t] \notin {Absent, Gone}
           /\ t \in Explorations =>
                 /\ t \notin Contexts
                 /\ Thing(t) = explorations[t] /\ Thing(t)' = explorations'[t]
                 /\ Exists(t) <=> explorations[t] \notin {Absent, Gone}
                 /\ Exists(t)' <=> explorations'[t] \notin {Absent, Gone}
  BY ThingsAssumption DEF Thing, Exists

\* A function of a finite set has finitely many values.
LEMMA ImageFinite ==
    ASSUME NEW S, IsFiniteSet(S), NEW f, f = [x \in S |-> f[x]]
    PROVE  IsFiniteSet({f[x] : x \in S})
<1> DEFINE T == {f[x] : x \in S}
<1>1. f \in Surjection(S, T)
  BY DEF Surjection
<1>2. QED
  BY <1>1, FS_Surjection

\* Of the ids that rows and requests hold there are finitely many, so that there is a
\* new one (uuid4 of create_share).
LEMMA FreshIdIsNew ==
    ASSUME TypeOK, Finite
    PROVE  FreshId \in RowIds /\ FreshId \notin HeldIds
<1> DEFINE Ids == {s.id : s \in shares}
           Granting == {q \in Requests : pending[q].do \in {"grant", "revoke"}}
           Found1 == {pending[r].row : r \in Granting}
           Moving == {q \in Requests : pending[q].do = "transfer"}
           Drops == {pending[r].drop : r \in Moving}
           idOf == [s \in shares |-> s.id]
           rowOf == [r \in Granting |-> pending[r].row]
           dropOf == [r \in Moving |-> pending[r].drop]
<1>1. IsFiniteSet(Ids)
  <2>1. IsFiniteSet({idOf[s] : s \in shares})
    <3> HIDE DEF idOf
    <3> QED BY ImageFinite DEF idOf, Finite
  <2>2. QED
    BY <2>1
<1>2. Granting \subseteq Busy /\ Moving \subseteq Busy
  BY DEF Busy, Idle
<1>3. IsFiniteSet(Granting) /\ IsFiniteSet(Moving)
  BY <1>2, FS_Subset DEF Finite
<1>4. IsFiniteSet(Found1)
  <2>1. IsFiniteSet({rowOf[r] : r \in Granting})
    <3> HIDE DEF rowOf, Granting
    <3> QED BY <1>3, ImageFinite DEF rowOf
  <2>2. QED
    BY <2>1
<1>5. IsFiniteSet(Drops)
  <2>1. IsFiniteSet({dropOf[r] : r \in Moving})
    <3> HIDE DEF dropOf, Moving
    <3> QED BY <1>3, ImageFinite DEF dropOf
  <2>2. QED
    BY <2>1
<1>6. \A d \in Drops : IsFiniteSet(d)
  BY DEF Finite, FiniteDrop
<1>7. IsFiniteSet(UNION Drops)
  <2> HIDE DEF Drops
  <2> QED BY <1>5, <1>6, FS_UNION
<1>8. HeldIds = Ids \cup Found1 \cup UNION Drops
  BY DEF HeldIds
<1>9. IsFiniteSet(HeldIds)
  <2> HIDE DEF Ids, Found1, Drops
  <2>1. IsFiniteSet(Ids \cup Found1)
    BY <1>1, <1>4, FS_Union
  <2>2. QED
    BY <2>1, <1>7, <1>8, FS_Union
<1> HIDE DEF Ids, Found1, Drops, Granting, Moving, idOf, rowOf, dropOf
<1>10. PICK n : n = Cardinality(HeldIds)
  OBVIOUS
<1>11. n \in Nat
  BY <1>9, <1>10, FS_CardinalityType
<1>12. IsFiniteSet(1 .. n + 1) /\ Cardinality(1 .. n + 1) = n + 1
  BY <1>11, FS_Interval
<1>13. ~((1 .. n + 1) \subseteq HeldIds)
  <2>1. SUFFICES ASSUME (1 .. n + 1) \subseteq HeldIds PROVE FALSE
    OBVIOUS
  <2>2. PICK H : H = HeldIds
    OBVIOUS
  <2>3. Cardinality(1 .. n + 1) <= Cardinality(H)
    BY <1>9, <2>1, <2>2, FS_Subset
  <2>4. QED
    BY <1>10, <1>11, <1>12, <2>2, <2>3
<1>14. \E i \in 1 .. n + 1 : i \notin HeldIds
  BY <1>13
<1>15. FreshId \in 1 .. n + 1 /\ FreshId \notin HeldIds
  BY <1>10, <1>14 DEF FreshId
<1>16. QED
  BY <1>11, <1>15 DEF RowIds

-------------------------------------------------------------------------------
(* A request is admitted.                                                    *)

\* What admits an effect reads the rows only.
LEMMA VouchedSame ==
    ASSUME UNCHANGED rows, NEW p
    PROVE  Vouched(p) <=> Vouched(p)'
  BY DEF rows, Vouched, Exists, Thing, CanManage, RowsOn, TitleTaken, Inside, Living,
         MayMutate, MayChangeVisibility, CanWrite, WriteShared, Matches

\* Rows that do not change go on standing.
LEMMA RowsSame ==
    ASSUME UNCHANGED <<rows, scenario>>, IdsUnique, AddressesMeant, RowsStand, RowsUnique
    PROVE  IdsUnique' /\ AddressesMeant' /\ RowsStand' /\ RowsUnique'
  BY DEF rows, IdsUnique, AddressesMeant, RowsStand, RowsUnique, Exists, Thing, Living,
         InMemory, Alone

\* Admitting an effect whose claims are true keeps the invariant (every handler, up to
\* its first write).
LEMMA AdmitKeeps ==
    ASSUME IInv, NEW r \in Requests, NEW op, NEW e \in Effects, Admits(r, op, e),
           FiniteDrop(e), HeldBy(e), Alone => Vouched(e)
    PROVE  IInv'
<1>1. UNCHANGED <<rows, scenario>> /\ pending' = [pending EXCEPT ![r] = e]
  BY DEF Admits
<1>2. pending \in [Requests -> Effects] /\ Finite
  BY DEF IInv, TypeOK
<1>3. \A q \in Requests : pending'[q] = IF q = r THEN e ELSE pending[q]
  BY <1>1, <1>2
<1>4. TypeOK'
  BY <1>1, <1>2 DEF IInv, TypeOK, rows
<1>5. Finite'
  <2>1. IsFiniteSet(Busy \cup {r})
    BY <1>2, FS_AddElement DEF Finite
  <2>2. Busy' \subseteq Busy \cup {r}
    BY <1>3 DEF Busy
  <2>3. IsFiniteSet(Busy')
    <3>1. PICK B : B = Busy'
      OBVIOUS
    <3>2. PICK A : A = Busy \cup {r}
      OBVIOUS
    <3>3. QED
      BY <2>1, <2>2, <3>1, <3>2, FS_Subset
  <2>4. \A q \in Requests : FiniteDrop(pending'[q])
    BY <1>2, <1>3 DEF Finite
  <2>5. QED
    BY <1>1, <1>2, <2>3, <2>4 DEF Finite, rows, FiniteDrop
<1>6. Held'
  <2>1. \A q \in Requests : HeldBy(pending'[q])
    BY <1>3 DEF IInv, Held
  <2>2. shares' = shares
    BY <1>1 DEF rows
  <2>3. QED
    BY <2>1, <2>2 DEF Held, HeldBy
<1>7. AloneStand'
  <2>1. SUFFICES ASSUME Alone PROVE AtMostOne' /\ \A q \in Requests : Vouched(pending[q])'
    BY <1>1 DEF AloneStand, Alone
  <2>2. Cardinality(Busy) < 1
    BY <2>1 DEF Admits, Busy, Alone
  <2>3. Busy = {}
    <3>1. PICK B : B = Busy
      OBVIOUS
    <3>2. Cardinality(B) \in Nat
      BY <1>2, <3>1, FS_CardinalityType DEF Finite
    <3>3. QED
      BY <1>2, <2>2, <3>1, <3>2, FS_EmptySet DEF Finite
  <2>4. \A q \in Requests : q # r => pending'[q] = Idle
    BY <1>3, <2>3 DEF Busy
  <2>5. AtMostOne'
    BY <2>4 DEF AtMostOne, Busy
  <2>6. Vouched(e)'
    BY <1>1, <2>1, VouchedSame
  <2>7. Vouched(Idle)'
    BY DEF Vouched, Idle
  <2>8. QED
    BY <1>3, <2>4, <2>5, <2>6, <2>7
<1>8. QED
  BY <1>1, <1>4, <1>5, <1>6, <1>7, RowsSame DEF IInv

\* The row that was found is the row of its id.
LEMMA FoundIs ==
    ASSUME TypeOK, IdsUnique, NEW t, NEW address, NEW row \in Found(t, address)
    PROVE  /\ row \in RowIds \cup {NoRow}
           /\ \A s \in shares : s.id = row => s.on = t /\ s.address = address
           /\ row = NoRow => \A s \in RowsOn(t) : s.address # address
<1> DEFINE those == {x \in RowsOn(t) : x.address = address}
           there == {s.id : s \in those}
<1>1. \A s \in shares : s.id \in Nat
  BY DEF TypeOK, Row, RowIds
<1>2. \A s \in shares : s.id # NoRow
  BY <1>1, ThingsAssumption
<1>3. those \subseteq shares /\ \A s \in those : s.on = t /\ s.address = address
  BY DEF RowsOn
<1>4. Found(t, address) = IF there = {} THEN {NoRow} ELSE there
  BY DEF Found
<1>5. CASE there = {}
  <2>1. row = NoRow /\ those = {}
    BY <1>4, <1>5
  <2>2. QED
    BY <1>2, <2>1
<1>6. CASE there # {}
  <2>1. PICK x \in those : row = x.id
    BY <1>4, <1>6
  <2>2. row \in Nat /\ row # NoRow
    BY <1>1, <1>2, <1>3, <2>1
  <2>3. \A s \in shares : s.id = row => s = x
    BY <1>3, <2>1 DEF IdsUnique
  <2>4. QED
    BY <1>3, <2>1, <2>2, <2>3 DEF RowIds
<1>7. QED
  BY <1>5, <1>6

\* Sharing (share_graph_context, share_exploration).
LEMMA ShareKeeps ==
    ASSUME IInv, NEW r \in Requests, NEW op, NEW t \in Things, Share(r, op, t)
    PROVE  IInv'
<1>1. PICK u \in People, address \in Addresses, permission \in Permissions :
          /\ Exists(t) /\ CanManage(u, t)
          /\ \E row \in Found(t, address) :
                Admits(r, op, [do |-> "grant", by |-> u, on |-> t, address |-> address,
                               permission |-> Coerced(address, permission), row |-> row])
  BY DEF Share
<1>2. PICK row \in Found(t, address) :
          Admits(r, op, [do |-> "grant", by |-> u, on |-> t, address |-> address,
                         permission |-> Coerced(address, permission), row |-> row])
  BY <1>1
<1>3. /\ row \in RowIds \cup {NoRow}
      /\ \A s \in shares : s.id = row => s.on = t /\ s.address = address
      /\ row = NoRow => \A s \in RowsOn(t) : s.address # address
  BY FoundIs DEF IInv
<1>4. PICK given : given = Coerced(address, permission)
  OBVIOUS
<1>5. given \in Permissions /\ (address = Public => given = "read")
  BY <1>4 DEF Coerced, Permissions
<1>6. PICK e : e = [do |-> "grant", by |-> u, on |-> t, address |-> address,
                    permission |-> given, row |-> row]
  OBVIOUS
<1>7. e \in Effects
  BY <1>3, <1>5, <1>6 DEF Effects
<1>8. /\ e.do = "grant" /\ e.by = u /\ e.on = t /\ e.address = address
      /\ e.permission = given /\ e.row = row
  BY <1>6
<1>9. HeldBy(e) /\ FiniteDrop(e) /\ Vouched(e)
  BY <1>1, <1>3, <1>5, <1>8 DEF HeldBy, FiniteDrop, Vouched
<1>10. Admits(r, op, e)
  BY <1>2, <1>4, <1>6
<1>11. QED
  BY <1>7, <1>9, <1>10, AdmitKeeps

\* Removing a share (unshare_graph_context, unshare_exploration).
LEMMA UnshareKeeps ==
    ASSUME IInv, NEW r \in Requests, NEW op, NEW t \in Things, Unshare(r, op, t)
    PROVE  IInv'
<1>1. PICK u \in People, address \in Addresses :
          /\ Exists(t) /\ CanManage(u, t)
          /\ \E row \in Found(t, address) :
                Admits(r, op, [do |-> "revoke", by |-> u, on |-> t, row |-> row])
  BY DEF Unshare
<1>2. PICK row \in Found(t, address) :
          Admits(r, op, [do |-> "revoke", by |-> u, on |-> t, row |-> row])
  BY <1>1
<1>3. row \in RowIds \cup {NoRow} /\ \A s \in shares : s.id = row => s.on = t
  BY FoundIs DEF IInv
<1>4. PICK e : e = [do |-> "revoke", by |-> u, on |-> t, row |-> row]
  OBVIOUS
<1>5. e \in Effects
  BY <1>3, <1>4 DEF Effects
<1>6. e.do = "revoke" /\ e.by = u /\ e.on = t /\ e.row = row
  BY <1>4
<1>7. HeldBy(e) /\ FiniteDrop(e) /\ Vouched(e)
  BY <1>1, <1>3, <1>6 DEF HeldBy, FiniteDrop, Vouched
<1>8. QED
  BY <1>2, <1>4, <1>5, <1>7, AdmitKeeps

\* Deleting (delete_graph_context, delete_exploration).
LEMMA DeleteKeeps ==
    ASSUME IInv, NEW r \in Requests, NEW op, NEW t \in Things, Delete(r, op, t)
    PROVE  IInv'
<1>1. PICK u \in People :
          /\ Exists(t) /\ CanManage(u, t)
          /\ Admits(r, op, [do |-> "delete", by |-> u, on |-> t])
  BY DEF Delete
<1>2. PICK e : e = [do |-> "delete", by |-> u, on |-> t]
  OBVIOUS
<1>3. e \in Effects /\ e.do = "delete" /\ e.by = u /\ e.on = t
  BY <1>2 DEF Effects
<1>4. HeldBy(e) /\ FiniteDrop(e) /\ Vouched(e)
  BY <1>1, <1>3 DEF HeldBy, FiniteDrop, Vouched
<1>5. QED
  BY <1>1, <1>2, <1>3, <1>4, AdmitKeeps

\* Transferring (the transfers of admin.py).
LEMMA TransferKeeps ==
    ASSUME IInv, NEW r \in Requests, NEW op, NEW t \in Things, Transfer(r, op, t)
    PROVE  IInv'
<1>1. PICK u \in Superusers, to \in People :
          Admits(r, op, [do |-> "transfer", by |-> u, on |-> t, to |-> to,
                         drop |-> {s.id : s \in {x \in RowsOn(t) : x.address = to}}])
  BY DEF Transfer
<1>2. PICK those : those = {x \in RowsOn(t) : x.address = to}
  OBVIOUS
<1>3. PICK drop : drop = {s.id : s \in those}
  OBVIOUS
<1>4. those \subseteq shares
  BY <1>2 DEF RowsOn
<1>5. IsFiniteSet(those)
  BY <1>4, FS_Subset DEF IInv, Finite
<1>6. IsFiniteSet(drop)
  <2> DEFINE idOf == [s \in those |-> s.id]
  <2>1. IsFiniteSet({idOf[s] : s \in those})
    <3> HIDE DEF idOf
    <3> QED BY <1>5, ImageFinite DEF idOf
  <2>2. QED
    BY <1>3, <2>1
<1>7. drop \in SUBSET RowIds
  BY <1>3, <1>4 DEF IInv, TypeOK, Row
<1>8. PICK e : e = [do |-> "transfer", by |-> u, on |-> t, to |-> to, drop |-> drop]
  OBVIOUS
<1>9. e \in Effects
  BY <1>7, <1>8, PeopleAssumption DEF Effects
<1>10. e.do = "transfer" /\ e.by = u /\ e.drop = drop
  BY <1>8
<1>11. HeldBy(e) /\ FiniteDrop(e) /\ Vouched(e)
  BY <1>6, <1>10 DEF HeldBy, FiniteDrop, Vouched
<1>12. Admits(r, op, e)
  BY <1>1, <1>2, <1>3, <1>8
<1>13. QED
  BY <1>9, <1>11, <1>12, AdmitKeeps

\* A context (create_graph_context, update_graph_context).
LEMMA ContextKeeps ==
    ASSUME IInv, NEW r \in Requests, CreateGraphContext(r) \/ UpdateGraphContext(r)
    PROVE  IInv'
<1>1. CASE CreateGraphContext(r)
  <2>1. PICK u \in People, c \in Contexts :
            /\ contexts[c] = Absent
            /\ Admits(r, "context", [do |-> "open", by |-> u, on |-> c])
    BY <1>1 DEF CreateGraphContext
  <2>2. PICK e : e = [do |-> "open", by |-> u, on |-> c]
    OBVIOUS
  <2>3. e \in Effects /\ e.do = "open" /\ e.on = c
    BY <2>2 DEF Effects
  <2>4. HeldBy(e) /\ FiniteDrop(e) /\ Vouched(e)
    BY <2>1, <2>3 DEF HeldBy, FiniteDrop, Vouched
  <2>5. QED
    BY <2>1, <2>2, <2>3, <2>4, AdmitKeeps
<1>2. CASE UpdateGraphContext(r)
  <2>1. PICK u \in People, c \in Contexts :
            Admits(r, "settings", [do |-> "settings", by |-> u, on |-> c])
    BY <1>2 DEF UpdateGraphContext
  <2>2. PICK e : e = [do |-> "settings", by |-> u, on |-> c]
    OBVIOUS
  <2>3. e \in Effects /\ e.do = "settings"
    BY <2>2 DEF Effects
  <2>4. HeldBy(e) /\ FiniteDrop(e) /\ Vouched(e)
    BY <2>3 DEF HeldBy, FiniteDrop, Vouched
  <2>5. QED
    BY <2>1, <2>2, <2>3, <2>4, AdmitKeeps
<1>3. QED
  BY <1>1, <1>2

\* An exploration (create_exploration, update_exploration): the title is free.
LEMMA ExplorationKeeps ==
    ASSUME IInv, NEW r \in Requests, CreateExploration(r) \/ UpdateExploration(r)
    PROVE  IInv'
<1>1. CASE CreateExploration(r)
  <2>1. PICK u \in People, x \in Explorations, c \in Contexts, title \in Titles :
            /\ explorations[x] = Absent
            /\ ~TitleTaken(c, title, {})
            /\ Admits(r, "create", [do |-> "create", by |-> u, on |-> x,
                                    context |-> c, title |-> title])
    BY <1>1 DEF CreateExploration
  <2>2. PICK e : e = [do |-> "create", by |-> u, on |-> x, context |-> c, title |-> title]
    OBVIOUS
  <2>3. e \in Effects
    BY <2>2 DEF Effects
  <2>4. e.do = "create" /\ e.on = x /\ e.context = c /\ e.title = title
    BY <2>2
  <2>5. HeldBy(e) /\ FiniteDrop(e) /\ Vouched(e)
    BY <2>1, <2>4 DEF HeldBy, FiniteDrop, Vouched
  <2>6. QED
    BY <2>1, <2>2, <2>3, <2>5, AdmitKeeps
<1>2. CASE UpdateExploration(r)
  <2>1. PICK u \in People, x \in Explorations, title \in Titles :
            /\ ~TitleTaken(explorations[x].context, title, {x})
            /\ Admits(r, "rename", [do |-> "rename", by |-> u, on |-> x, title |-> title])
    BY <1>2 DEF UpdateExploration
  <2>2. PICK e : e = [do |-> "rename", by |-> u, on |-> x, title |-> title]
    OBVIOUS
  <2>3. e \in Effects
    BY <2>2 DEF Effects
  <2>4. e.do = "rename" /\ e.on = x /\ e.title = title
    BY <2>2
  <2>5. HeldBy(e) /\ FiniteDrop(e) /\ Vouched(e)
    BY <2>1, <2>4 DEF HeldBy, FiniteDrop, Vouched
  <2>6. QED
    BY <2>1, <2>2, <2>3, <2>5, AdmitKeeps
<1>3. QED
  BY <1>1, <1>2

\* A template (create_query_template, update_query_template, delete_query_template).
LEMMA TemplateKeeps ==
    ASSUME IInv, NEW r \in Requests,
           CreateQueryTemplate(r) \/ UpdateQueryTemplate(r) \/ DeleteQueryTemplate(r)
    PROVE  IInv'
<1>1. CASE CreateQueryTemplate(r)
  <2>1. PICK u \in People, t \in Templates, c \in Contexts, visibility \in {"shared", "private"} :
            /\ templates[t] = Absent
            /\ Admits(r, "template", [do |-> "compose", by |-> u, template |-> t,
                                      context |-> c, visibility |-> visibility])
    BY <1>1 DEF CreateQueryTemplate
  <2>2. PICK e : e = [do |-> "compose", by |-> u, template |-> t, context |-> c,
                      visibility |-> visibility]
    OBVIOUS
  <2>3. e \in Effects
    BY <2>2 DEF Effects
  <2>4. e.do = "compose" /\ e.template = t
    BY <2>2
  <2>5. HeldBy(e) /\ FiniteDrop(e) /\ Vouched(e)
    BY <2>1, <2>4 DEF HeldBy, FiniteDrop, Vouched
  <2>6. QED
    BY <2>1, <2>2, <2>3, <2>5, AdmitKeeps
<1>2. CASE UpdateQueryTemplate(r)
  <2>1. PICK u \in People, t \in Templates, visibility \in {"shared", "private", "as it is"} :
            /\ Reaches(u, t)
            /\ MayChangeVisibility(u, templates[t], visibility)
            /\ Admits(r, "template", [do |-> "edit", by |-> u, template |-> t,
                                      visibility |-> IF visibility = templates[t].visibility
                                                        THEN "as it is" ELSE visibility])
    BY <1>2 DEF UpdateQueryTemplate
  <2>2. PICK given : given = IF visibility = templates[t].visibility
                                THEN "as it is" ELSE visibility
    OBVIOUS
  <2>3. /\ given \in {"shared", "private", "as it is"}
        /\ MayChangeVisibility(u, templates[t], given)
    BY <2>1, <2>2 DEF MayChangeVisibility
  <2>4. PICK e : e = [do |-> "edit", by |-> u, template |-> t, visibility |-> given]
    OBVIOUS
  <2>5. e \in Effects
    BY <2>3, <2>4 DEF Effects
  <2>6. e.do = "edit" /\ e.by = u /\ e.template = t /\ e.visibility = given
    BY <2>4
  <2>7. HeldBy(e) /\ FiniteDrop(e) /\ Vouched(e)
    BY <2>1, <2>3, <2>6 DEF HeldBy, FiniteDrop, Vouched, Reaches
  <2>8. QED
    BY <2>1, <2>2, <2>4, <2>5, <2>7, AdmitKeeps
<1>3. CASE DeleteQueryTemplate(r)
  <2>1. PICK u \in People, t \in Templates :
            Admits(r, "template", [do |-> "discard", by |-> u, template |-> t])
    BY <1>3 DEF DeleteQueryTemplate
  <2>2. PICK e : e = [do |-> "discard", by |-> u, template |-> t]
    OBVIOUS
  <2>3. e \in Effects /\ e.do = "discard"
    BY <2>2 DEF Effects
  <2>4. HeldBy(e) /\ FiniteDrop(e) /\ Vouched(e)
    BY <2>3 DEF HeldBy, FiniteDrop, Vouched
  <2>5. QED
    BY <2>1, <2>2, <2>3, <2>4, AdmitKeeps
<1>4. QED
  BY <1>1, <1>2, <1>3

-------------------------------------------------------------------------------
(* What an admitted request decided reaches the store.                       *)

\* The request is over: no row takes the id of one that another request still holds,
\* and when nothing else was under way nothing is.
LEMMA EndKeeps ==
    ASSUME IInv, NEW r \in Requests, pending[r] # Idle,
           pending' = [pending EXCEPT ![r] = Idle], UNCHANGED scenario,
           \A x \in shares' :
              \/ \E s \in shares : s.id = x.id /\ s.on = x.on /\ s.address = x.address
              \/ x.id \notin HeldIds
    PROVE  /\ pending' \in [Requests -> Effects]
           /\ IsFiniteSet(Busy') /\ \A q \in Requests : FiniteDrop(pending[q])'
           /\ Held' /\ AloneStand'
<1>1. \A q \in Requests : pending'[q] = IF q = r THEN Idle ELSE pending[q]
  BY DEF IInv, TypeOK
<1>2. pending' \in [Requests -> Effects]
  BY DEF IInv, TypeOK, Effects
<1>3. Busy' \subseteq Busy
  BY <1>1 DEF Busy
<1>4. IsFiniteSet(Busy')
  <2>1. PICK B : B = Busy'
    OBVIOUS
  <2>2. PICK A : A = Busy
    OBVIOUS
  <2>3. QED
    BY <1>3, <2>1, <2>2, FS_Subset DEF IInv, Finite
<1>5. \A q \in Requests : FiniteDrop(pending[q])'
  BY <1>1 DEF IInv, Finite, FiniteDrop, Idle
<1>6. Held'
  <2>1. SUFFICES ASSUME NEW q \in Requests, pending'[q].do \in {"grant", "revoke"}
                 PROVE  HeldBy(pending[q])'
    BY DEF Held, HeldBy
  <2>2. q # r /\ pending'[q] = pending[q]
    BY <1>1, <2>1 DEF Idle
  <2>3. pending[q].row \in HeldIds
    BY <2>1, <2>2 DEF HeldIds
  <2>4. \A x \in shares' : x.id = pending[q].row =>
            \E s \in shares : s.id = x.id /\ s.on = x.on /\ s.address = x.address
    BY <2>3
  <2>5. HeldBy(pending[q])
    BY DEF IInv, Held
  <2>6. QED
    BY <2>2, <2>4, <2>5 DEF HeldBy
<1>7. AloneStand'
  <2>1. SUFFICES ASSUME Alone PROVE AtMostOne' /\ \A q \in Requests : Vouched(pending[q])'
    BY DEF AloneStand, Alone
  <2>2. \A q \in Requests : pending'[q] = Idle
    BY <1>1, <2>1 DEF IInv, AloneStand, AtMostOne, Busy
  <2>3. Vouched(Idle)'
    BY DEF Vouched, Idle
  <2>4. QED
    BY <2>2, <2>3 DEF AtMostOne, Busy
<1>8. QED
  BY <1>2, <1>4, <1>5, <1>6, <1>7

\* A request that fails leaves the rows alone.
LEMMA RollbackKeeps ==
    ASSUME IInv, NEW r \in Requests, Rollback(r)
    PROVE  IInv'
<1>1. pending[r] # Idle /\ pending' = [pending EXCEPT ![r] = Idle]
      /\ UNCHANGED <<rows, scenario>>
  BY DEF Rollback
<1>2. shares' = shares
  BY <1>1 DEF rows
<1>3. /\ pending' \in [Requests -> Effects]
      /\ IsFiniteSet(Busy') /\ \A q \in Requests : FiniteDrop(pending[q])'
      /\ Held' /\ AloneStand'
  BY <1>1, <1>2, EndKeeps
<1>4. Finite'
  BY <1>2, <1>3 DEF IInv, Finite
<1>5. TypeOK'
  BY <1>1, <1>3 DEF IInv, TypeOK, rows
<1>6. QED
  BY <1>1, <1>3, <1>4, <1>5, RowsSame DEF IInv

\* What the admitted request r is about, when it ends.
LEMMA ReadyIs ==
    ASSUME IInv, NEW r \in Requests, NEW do, do # "nothing", Ready(r, do)
    PROVE  /\ pending[r] \in Effects /\ pending[r].do = do /\ pending[r] # Idle
           /\ Carries(pending[r]) /\ HeldBy(pending[r])
           /\ Alone => Vouched(pending[r])
           /\ pending' = [pending EXCEPT ![r] = Idle] /\ UNCHANGED scenario
<1>1. pending[r] \in Effects
  BY DEF IInv, TypeOK
<1>2. QED
  BY <1>1, EffectFields DEF Ready, IInv, Held, AloneStand, Idle

\* A share is written (the end of share_graph_context and share_exploration).
LEMMA GrantKeeps ==
    ASSUME IInv, NEW r \in Requests, CommitGrant(r)
    PROVE  IInv'
<1>1. PICK p : p = pending[r]
  OBVIOUS
<1>2. /\ p \in Effects /\ p.do = "grant" /\ p # Idle
      /\ Carries(p) /\ HeldBy(p)
      /\ Alone => Vouched(p)
      /\ pending' = [pending EXCEPT ![r] = Idle] /\ UNCHANGED scenario
  BY <1>1, ReadyIs DEF CommitGrant
<1>3. /\ p.on \in Things /\ p.address \in Addresses
      /\ p.permission \in Permissions /\ p.row \in RowIds \cup {NoRow}
  BY <1>2 DEF Carries
<1>4. UNCHANGED <<contexts, explorations, templates>>
  BY DEF CommitGrant
<1>5. \A s \in shares : s \in Row /\ s.id \in Nat
  BY DEF IInv, TypeOK, Row, RowIds
<1>6. \A t : Exists(t)' <=> Exists(t)
  BY <1>4 DEF Exists, Thing
<1>7. CASE p.row = NoRow
  <2>1. PICK n : n = FreshId
    OBVIOUS
  <2>2. n \in RowIds /\ n \notin HeldIds
    BY <2>1, FreshIdIsNew DEF IInv
  <2>3. PICK x : x = [id |-> n, on |-> p.on, address |-> p.address, permission |-> p.permission]
    OBVIOUS
  <2>4. shares' = shares \cup {x} /\ Exists(p.on)
    BY <1>1, <1>7, <2>1, <2>3 DEF CommitGrant
  <2>5. /\ x \in Row /\ x.id = n /\ x.on = p.on /\ x.address = p.address
        /\ x.permission = p.permission
    BY <1>3, <2>2, <2>3, AddressAssumption DEF Row
  <2>6. \A s \in shares : s.id # n
    BY <2>2 DEF HeldIds
  <2>7. \A y \in shares' :
            \/ \E s \in shares : s.id = y.id /\ s.on = y.on /\ s.address = y.address
            \/ y.id \notin HeldIds
    BY <2>2, <2>4, <2>5
  <2>8. /\ pending' \in [Requests -> Effects]
        /\ IsFiniteSet(Busy') /\ \A q \in Requests : FiniteDrop(pending[q])'
        /\ Held' /\ AloneStand'
    BY <1>1, <1>2, <2>7, EndKeeps
  <2>9. TypeOK'
    BY <1>2, <1>4, <2>4, <2>5, <2>8 DEF IInv, TypeOK
  <2>10. Finite'
    <3>1. IsFiniteSet(shares \cup {x})
      BY FS_AddElement DEF IInv, Finite
    <3>2. QED
      BY <2>4, <2>8, <3>1 DEF Finite
  <2>11. IdsUnique' /\ AddressesMeant'
    BY <1>3, <2>4, <2>5, <2>6 DEF IInv, IdsUnique, AddressesMeant
  <2>12. RowsStand'
    <3>1. \A s \in shares' : Exists(s.on)'
      BY <1>6, <2>4, <2>5 DEF IInv, RowsStand
    <3>2. \A s \in shares' : s.address = Public => s.permission = "read"
      BY <1>2, <2>4, <2>5 DEF IInv, RowsStand, HeldBy
    <3>3. QED
      BY <1>2, <1>4, <1>6, <3>1, <3>2 DEF IInv, RowsStand, InMemory, Living
  <2>13. RowsUnique'
    <3>1. Alone => \A s \in shares : ~(s.on = x.on /\ s.address = x.address)
      BY <1>2, <1>7, <2>5 DEF Vouched, RowsOn
    <3>2. Alone => \A s, y \in shares' : s.on = y.on /\ s.address = y.address => s = y
      BY <2>4, <3>1 DEF IInv, RowsUnique
    <3>3. Alone' <=> Alone
      BY <1>2 DEF Alone
    <3>4. QED
      BY <1>4, <3>2, <3>3 DEF IInv, RowsUnique, Living
  <2>14. QED
    BY <2>8, <2>9, <2>10, <2>11, <2>12, <2>13 DEF IInv
<1>8. CASE p.row # NoRow
  <2> DEFINE Becomes(s) == IF s.id = p.row THEN [s EXCEPT !.permission = p.permission] ELSE s
  <2>1. shares' = {Becomes(s) : s \in shares}
    BY <1>1, <1>8 DEF CommitGrant
  <2>2. \A s \in shares :
            /\ Becomes(s) \in Row /\ Becomes(s).id = s.id /\ Becomes(s).on = s.on
            /\ Becomes(s).address = s.address
            /\ Becomes(s).permission = IF s.id = p.row THEN p.permission ELSE s.permission
    BY <1>3, <1>5 DEF Row
  <2> HIDE DEF Becomes
  <2>3. IsFiniteSet(shares')
    <3> DEFINE f == [s \in shares |-> Becomes(s)]
    <3>1. IsFiniteSet({f[s] : s \in shares})
      <4>1. IsFiniteSet(shares)
        BY DEF IInv, Finite
      <4> HIDE DEF f
      <4>2. QED
        BY <4>1, ImageFinite DEF f
    <3>2. QED
      BY <2>1, <3>1
  <2>4. \A y \in shares' : \E s \in shares :
            s.id = y.id /\ s.on = y.on /\ s.address = y.address /\ y = Becomes(s)
    BY <2>1, <2>2
  <2>5. /\ pending' \in [Requests -> Effects]
        /\ IsFiniteSet(Busy') /\ \A q \in Requests : FiniteDrop(pending[q])'
        /\ Held' /\ AloneStand'
    BY <1>1, <1>2, <2>4, EndKeeps
  <2>6. TypeOK'
    <3>1. shares' \subseteq Row
      BY <2>1, <2>2
    <3>2. QED
      BY <1>2, <1>4, <2>5, <3>1 DEF IInv, TypeOK
  <2>7. Finite'
    BY <2>3, <2>5 DEF Finite
  <2>8. IdsUnique'
    BY <2>4 DEF IInv, IdsUnique
  <2>9. AddressesMeant'
    BY <2>4 DEF IInv, AddressesMeant
  <2>10. RowsStand'
    <3>1. \A s \in shares' : Exists(s.on)'
      BY <1>6, <2>4 DEF IInv, RowsStand
    <3>2. ASSUME NEW y \in shares', y.address = Public PROVE y.permission = "read"
      <4>1. PICK s \in shares : s.address = y.address /\ y = Becomes(s)
        BY <2>4
      <4>2. s.permission = "read"
        BY <3>2, <4>1 DEF IInv, RowsStand
      <4>3. s.id = p.row => p.permission = "read"
        BY <1>2, <3>2, <4>1 DEF HeldBy
      <4>4. QED
        BY <2>2, <4>1, <4>2, <4>3
    <3>3. QED
      BY <1>2, <1>4, <1>6, <3>1, <3>2 DEF IInv, RowsStand, InMemory, Living
  <2>11. RowsUnique'
    <3>1. Alone => \A s, y \in shares' : s.on = y.on /\ s.address = y.address => s = y
      BY <2>4 DEF IInv, RowsUnique
    <3>2. Alone' <=> Alone
      BY <1>2 DEF Alone
    <3>3. QED
      BY <1>4, <3>1, <3>2 DEF IInv, RowsUnique, Living
  <2>12. QED
    BY <2>5, <2>6, <2>7, <2>8, <2>9, <2>10, <2>11 DEF IInv
<1>9. QED
  BY <1>7, <1>8

\* A request that ends with no new row.
LEMMA FewerKeeps ==
    ASSUME IInv, NEW r \in Requests, pending[r] # Idle,
           pending' = [pending EXCEPT ![r] = Idle], UNCHANGED scenario,
           shares' \subseteq shares
    PROVE  /\ pending' \in [Requests -> Effects] /\ shares' \subseteq Row
           /\ Finite' /\ Held' /\ AloneStand' /\ IdsUnique' /\ AddressesMeant'
           /\ \A s \in shares' : s.address = Public => s.permission = "read"
           /\ Alone' <=> Alone
           /\ Alone => \A s, x \in shares' : s.on = x.on /\ s.address = x.address => s = x
<1>1. /\ pending' \in [Requests -> Effects]
      /\ IsFiniteSet(Busy') /\ \A q \in Requests : FiniteDrop(pending[q])'
      /\ Held' /\ AloneStand'
  BY EndKeeps
<1>2. Finite'
  <2>1. PICK X : X = shares'
    OBVIOUS
  <2>2. IsFiniteSet(X)
    BY <2>1, FS_Subset DEF IInv, Finite
  <2>3. QED
    BY <1>1, <2>1, <2>2 DEF Finite
<1>3. shares' \subseteq Row
  BY DEF IInv, TypeOK
<1>4. IdsUnique' /\ AddressesMeant'
  BY DEF IInv, IdsUnique, AddressesMeant
<1>5. \A s \in shares' : s.address = Public => s.permission = "read"
  BY DEF IInv, RowsStand
<1>6. Alone => \A s, x \in shares' : s.on = x.on /\ s.address = x.address => s = x
  BY DEF IInv, RowsUnique
<1>7. Alone' <=> Alone
  BY DEF Alone
<1>8. QED
  BY <1>1, <1>2, <1>3, <1>4, <1>5, <1>6, <1>7

\* A share is removed (the end of unshare_graph_context and unshare_exploration).
LEMMA RevokeKeeps ==
    ASSUME IInv, NEW r \in Requests, CommitRevoke(r)
    PROVE  IInv'
<1>1. /\ pending[r] # Idle
      /\ pending' = [pending EXCEPT ![r] = Idle] /\ UNCHANGED scenario
  BY ReadyIs DEF CommitRevoke
<1>2. shares' \subseteq shares /\ UNCHANGED <<contexts, explorations, templates>>
  BY DEF CommitRevoke
<1>3. /\ pending' \in [Requests -> Effects] /\ shares' \subseteq Row
      /\ Finite' /\ Held' /\ AloneStand' /\ IdsUnique' /\ AddressesMeant'
  BY <1>1, <1>2, FewerKeeps
<1>4. TypeOK'
  BY <1>1, <1>2, <1>3 DEF IInv, TypeOK
<1>5. RowsStand'
  BY <1>1, <1>2 DEF IInv, RowsStand, Exists, Thing, InMemory, Living
<1>6. RowsUnique'
  BY <1>1, <1>2 DEF IInv, RowsUnique, Alone, Living
<1>7. QED
  BY <1>3, <1>4, <1>5, <1>6 DEF IInv

\* A context takes its explorations with it, each thing its shares, and in the database
\* a context its templates (the end of delete_graph_context and delete_exploration).
LEMMA DeletedKeeps ==
    ASSUME IInv, NEW r \in Requests, CommitDelete(r)
    PROVE  IInv'
<1>1. PICK p : p = pending[r]
  OBVIOUS
<1>2. /\ p # Idle /\ p.on \in Things
      /\ pending' = [pending EXCEPT ![r] = Idle] /\ UNCHANGED scenario
  BY <1>1, ReadyIs DEF CommitDelete, Carries
<1>3. PICK on : on = p.on
  OBVIOUS
<1>4. /\ contexts \in [Contexts -> Context \cup {Absent, Gone}]
      /\ explorations \in [Explorations -> Exploration \cup {Absent, Gone}]
      /\ templates \in [Templates -> Template \cup {Absent, Gone}]
  BY DEF IInv, TypeOK
<1>5. PICK those : those = Cascaded(on)
  OBVIOUS
<1>6. PICK theirs : theirs = IF on \in Contexts THEN TemplatesOf(on) ELSE {}
  OBVIOUS
<1>7. /\ contexts' = Cleared(contexts, Contexts \cap {on})
      /\ explorations' = Cleared(explorations, those \cap Explorations)
      /\ shares' = {s \in shares : s.on \notin those}
  BY <1>1, <1>3, <1>5 DEF CommitDelete
<1>8. /\ contexts' \in [Contexts -> Context \cup {Absent, Gone}]
      /\ \A c \in Contexts : contexts'[c] = IF c = on THEN Gone ELSE contexts[c]
  BY <1>4, <1>7 DEF Cleared
<1>9. /\ explorations' \in [Explorations -> Exploration \cup {Absent, Gone}]
      /\ \A e \in Explorations :
            explorations'[e] = IF e \in those THEN Gone ELSE explorations[e]
  BY <1>4, <1>7 DEF Cleared
<1>10. /\ templates' \in [Templates -> Template \cup {Absent, Gone}]
       /\ \A t \in Templates : templates'[t] = IF t \in theirs THEN Gone ELSE templates[t]
  <2>1. CASE on \in Contexts
    <3>1. templates' = Cleared(templates, theirs)
      BY <1>1, <1>3, <1>6, <2>1 DEF CommitDelete
    <3>2. QED
      BY <1>4, <3>1 DEF Cleared
  <2>2. CASE on \notin Contexts
    <3>1. templates' = templates /\ theirs = {}
      BY <1>1, <1>3, <1>6, <2>2 DEF CommitDelete
    <3>2. QED
      BY <1>4, <3>1
  <2>3. QED
    BY <2>1, <2>2
<1>11. shares' \subseteq shares
  BY <1>7
<1>12. /\ pending' \in [Requests -> Effects] /\ shares' \subseteq Row
       /\ Finite' /\ Held' /\ AloneStand' /\ IdsUnique' /\ AddressesMeant'
       /\ \A s \in shares' : s.address = Public => s.permission = "read"
       /\ Alone' <=> Alone
       /\ Alone => \A s, x \in shares' : s.on = x.on /\ s.address = x.address => s = x
  BY <1>1, <1>2, <1>11, FewerKeeps
<1>13. TypeOK'
  BY <1>2, <1>8, <1>9, <1>10, <1>12 DEF IInv, TypeOK
<1>14. \A e \in Living(explorations') :
           e \in Living(explorations) /\ e \notin those /\ explorations'[e] = explorations[e]
  BY <1>4, <1>9 DEF Living
<1>15. on \in those
  BY <1>5 DEF Cascaded
<1>16. \A e \in Living(explorations) : on \in Contexts /\ explorations[e].context = on => e \in those
  BY <1>5 DEF Cascaded, Inside
<1>17. \A e \in Living(explorations) : explorations[e].context \in Contexts
  BY <1>4 DEF Living, Exploration
<1>18. RowsStand'
  <2>1. ASSUME NEW e \in Living(explorations') PROVE Exists(explorations[e].context)'
    <3>1. PICK c : c = explorations[e].context
      OBVIOUS
    <3>2. c \in Contexts /\ c # on /\ Exists(c)
      BY <1>14, <1>16, <1>17, <2>1, <3>1 DEF IInv, RowsStand
    <3>3. Exists(c)'
      BY <1>8, <3>2 DEF Exists, Thing
    <3>4. c = explorations'[e].context
      BY <1>14, <2>1, <3>1
    <3>5. QED
      BY <3>3, <3>4
  <2>2. ASSUME NEW s \in shares' PROVE Exists(s.on)'
    <3>1. s \in shares /\ s.on \notin those /\ s.on \in Things
      BY <1>7, <2>2 DEF IInv, TypeOK, Row
    <3>2. Exists(s.on)
      BY <3>1 DEF IInv, RowsStand
    <3>3. s.on # on
      BY <1>15, <3>1
    <3>4. CASE s.on \in Contexts
      BY <1>8, <3>2, <3>3, <3>4 DEF Exists, Thing
    <3>5. CASE s.on \in Explorations /\ s.on \notin Contexts
      BY <1>9, <3>1, <3>2, <3>5 DEF Exists, Thing
    <3>6. QED
      BY <3>1, <3>4, <3>5 DEF Things
  <2>3. ASSUME ~InMemory, NEW t \in Living(templates') PROVE Exists(templates[t].context)'
    <3>1. t \in Living(templates) /\ t \notin theirs /\ templates'[t] = templates[t]
      BY <1>4, <1>10, <2>3 DEF Living
    <3>2. PICK c : c = templates[t].context
      OBVIOUS
    <3>3. c \in Contexts /\ Exists(c)
      BY <1>4, <2>3, <3>1, <3>2 DEF IInv, RowsStand, Living, Template
    <3>4. c # on
      BY <1>6, <2>3, <3>1, <3>2, <3>3 DEF TemplatesOf
    <3>5. Exists(c)'
      BY <1>8, <3>3, <3>4 DEF Exists, Thing
    <3>6. QED
      BY <3>1, <3>2, <3>5
  <2>4. InMemory' <=> InMemory
    BY <1>2 DEF InMemory
  <2>5. QED
    BY <1>12, <2>1, <2>2, <2>3, <2>4 DEF RowsStand
<1>19. RowsUnique'
  BY <1>12, <1>14 DEF IInv, RowsUnique
<1>20. QED
  BY <1>12, <1>13, <1>18, <1>19 DEF IInv

\* Where nothing goes away, rows stand if what is new in them is about something.
LEMMA StandsOn ==
    ASSUME IInv, UNCHANGED scenario, shares' \subseteq shares,
           \A t \in Things : Exists(t) => Exists(t)',
           \A e \in Living(explorations') :
               explorations'[e].context \in Things /\ Exists(explorations'[e].context),
           ~InMemory => \A t \in Living(templates') :
               templates'[t].context \in Things /\ Exists(templates'[t].context)
    PROVE  RowsStand'
<1>1. ASSUME NEW e \in Living(explorations') PROVE Exists(explorations[e].context)'
  <2>1. PICK c : c = explorations'[e].context
    OBVIOUS
  <2>2. Exists(c)'
    BY <1>1, <2>1
  <2>3. QED
    BY <2>1, <2>2
<1>2. ASSUME NEW s \in shares' PROVE Exists(s.on)'
  <2>1. s.on \in Things /\ Exists(s.on)
    BY DEF IInv, TypeOK, Row, RowsStand
  <2>2. QED
    BY <2>1
<1>3. ASSUME ~InMemory, NEW t \in Living(templates') PROVE Exists(templates[t].context)'
  <2>1. PICK c : c = templates'[t].context
    OBVIOUS
  <2>2. Exists(c)'
    BY <1>3, <2>1
  <2>3. QED
    BY <2>1, <2>2
<1>4. \A s \in shares' : s.address = Public => s.permission = "read"
  BY DEF IInv, RowsStand
<1>5. InMemory' <=> InMemory
  BY DEF InMemory
<1>6. QED
  BY <1>1, <1>2, <1>3, <1>4, <1>5 DEF RowsStand

\* What living rows are about.
LEMMA LivingRows ==
    ASSUME IInv
    PROVE  /\ \A e \in Living(explorations) :
                 /\ e \in Explorations /\ explorations[e] \in Exploration
                 /\ explorations[e].context \in Things /\ Exists(explorations[e].context)
           /\ \A t \in Living(templates) :
                 /\ t \in Templates /\ templates[t] \in Template
                 /\ templates[t].context \in Things
                 /\ ~InMemory => Exists(templates[t].context)
  BY DEF IInv, TypeOK, Living, Exploration, Template, RowsStand, Things

\* An owner is named (the end of the transfers).
LEMMA TransferredKeeps ==
    ASSUME IInv, NEW r \in Requests, CommitTransfer(r)
    PROVE  IInv'
<1>1. PICK p : p = pending[r]
  OBVIOUS
<1>2. /\ p # Idle /\ p.on \in Things /\ p.to \in People
      /\ pending' = [pending EXCEPT ![r] = Idle] /\ UNCHANGED scenario
  BY <1>1, ReadyIs DEF CommitTransfer, Carries
<1>3. shares' \subseteq shares /\ UNCHANGED templates /\ Exists(p.on)
  BY <1>1 DEF CommitTransfer
<1>4. /\ contexts \in [Contexts -> Context \cup {Absent, Gone}]
      /\ explorations \in [Explorations -> Exploration \cup {Absent, Gone}]
  BY DEF IInv, TypeOK
<1>5. /\ pending' \in [Requests -> Effects] /\ shares' \subseteq Row
      /\ Finite' /\ Held' /\ AloneStand' /\ IdsUnique' /\ AddressesMeant'
      /\ Alone' <=> Alone
      /\ Alone => \A s, x \in shares' : s.on = x.on /\ s.address = x.address => s = x
  BY <1>1, <1>2, <1>3, FewerKeeps
<1>6. /\ contexts' \in [Contexts -> Context \cup {Absent, Gone}]
      /\ \A c \in Contexts :
            contexts[c] \notin {Absent, Gone} => contexts'[c] \notin {Absent, Gone}
      /\ explorations' \in [Explorations -> Exploration \cup {Absent, Gone}]
      /\ \A e \in Explorations :
            /\ explorations[e] \notin {Absent, Gone} <=> explorations'[e] \notin {Absent, Gone}
            /\ explorations[e] \notin {Absent, Gone} =>
                  /\ explorations'[e].context = explorations[e].context
                  /\ explorations'[e].title = explorations[e].title
  <2>1. CASE p.on \in Contexts
    <3>1. UNCHANGED explorations /\ contexts' = [contexts EXCEPT ![p.on].owner = p.to]
      BY <1>1, <2>1 DEF CommitTransfer
    <3>2. contexts[p.on] \in Context
      BY <1>3, <1>4, <2>1 DEF Exists, Thing
    <3>3. PICK new : new = [contexts[p.on] EXCEPT !.owner = p.to]
      OBVIOUS
    <3>4. new \in Context
      BY <1>2, <3>2, <3>3 DEF Context
    <3>5. contexts' = [contexts EXCEPT ![p.on] = new]
      BY <3>1, <3>3
    <3>6. new \notin {Absent, Gone}
      BY <3>4, AbsentAssumption
    <3>7. QED
      BY <1>4, <2>1, <3>1, <3>4, <3>5, <3>6
  <2>2. CASE p.on \notin Contexts
    <3>1. UNCHANGED contexts /\ explorations' = [explorations EXCEPT ![p.on].owner = p.to]
      BY <1>1, <2>2 DEF CommitTransfer
    <3>2. p.on \in Explorations
      BY <1>2, <2>2 DEF Things
    <3>3. explorations[p.on] \in Exploration
      BY <1>3, <1>4, <2>2, <3>2 DEF Exists, Thing
    <3>4. PICK new : new = [explorations[p.on] EXCEPT !.owner = p.to]
      OBVIOUS
    <3>5. /\ new \in Exploration /\ new.context = explorations[p.on].context
          /\ new.title = explorations[p.on].title
      BY <1>2, <3>3, <3>4 DEF Exploration
    <3>6. explorations' = [explorations EXCEPT ![p.on] = new]
      BY <3>1, <3>4
    <3>7. new \notin {Absent, Gone} /\ explorations[p.on] \notin {Absent, Gone}
      BY <3>3, <3>5, AbsentAssumption
    <3>8. QED
      BY <1>4, <3>1, <3>2, <3>5, <3>6, <3>7
  <2>3. QED
    BY <2>1, <2>2
<1>7. TypeOK'
  BY <1>2, <1>3, <1>5, <1>6 DEF IInv, TypeOK
<1>8. \A t \in Things : Exists(t) => Exists(t)'
  BY <1>6, ThingIs DEF Things
<1>9. \A e \in Living(explorations') :
          /\ e \in Living(explorations) /\ explorations'[e].context = explorations[e].context
          /\ explorations'[e].title = explorations[e].title
  BY <1>4, <1>6 DEF Living
<1>10. RowsStand'
  <2>1. \A e \in Living(explorations') :
            explorations'[e].context \in Things /\ Exists(explorations'[e].context)
    BY <1>9, LivingRows
  <2>2. ~InMemory => \A t \in Living(templates') :
            templates'[t].context \in Things /\ Exists(templates'[t].context)
    BY <1>3, LivingRows
  <2>3. QED
    BY <1>2, <1>3, <1>8, <2>1, <2>2, StandsOn
<1>11. RowsUnique'
  BY <1>5, <1>9 DEF IInv, RowsUnique
<1>12. QED
  BY <1>5, <1>7, <1>10, <1>11 DEF IInv

\* A context is opened or described (the end of create_graph_context and
\* update_graph_context).
LEMMA ContextCommitKeeps ==
    ASSUME IInv, NEW r \in Requests, CommitContext(r)
    PROVE  IInv'
<1>1. PICK p : p = pending[r]
  OBVIOUS
<1>2. /\ p # Idle /\ p.on \in Contexts /\ p.by \in People
      /\ pending' = [pending EXCEPT ![r] = Idle] /\ UNCHANGED scenario
  BY <1>1, ReadyIs DEF CommitContext, Carries
<1>3. UNCHANGED <<explorations, templates, shares>>
  BY DEF CommitContext
<1>4. contexts \in [Contexts -> Context \cup {Absent, Gone}]
  BY DEF IInv, TypeOK
<1>5. PICK new : contexts' = [contexts EXCEPT ![p.on] = new] /\ new \in Context
  <2>1. CASE contexts' = [contexts EXCEPT ![p.on] = [owner |-> p.by, settings |-> p.by]]
    <3>1. PICK x : x = [owner |-> p.by, settings |-> p.by]
      OBVIOUS
    <3>2. x \in Context /\ contexts' = [contexts EXCEPT ![p.on] = x]
      BY <1>2, <2>1, <3>1 DEF Context
    <3>3. QED
      BY <3>2
  <2>2. CASE Exists(p.on) /\ contexts' = [contexts EXCEPT ![p.on].settings = p.by]
    <3>1. contexts[p.on] \in Context
      BY <1>2, <1>4, <2>2 DEF Exists, Thing
    <3>2. PICK x : x = [contexts[p.on] EXCEPT !.settings = p.by]
      OBVIOUS
    <3>3. x \in Context /\ contexts' = [contexts EXCEPT ![p.on] = x]
      BY <1>2, <2>2, <3>1, <3>2 DEF Context
    <3>4. QED
      BY <3>3
  <2>3. \/ contexts' = [contexts EXCEPT ![p.on] = [owner |-> p.by, settings |-> p.by]]
        \/ Exists(p.on) /\ contexts' = [contexts EXCEPT ![p.on].settings = p.by]
    BY <1>1 DEF CommitContext
  <2>4. QED
    BY <2>1, <2>2, <2>3
<1>6. contexts' \in [Contexts -> Context \cup {Absent, Gone}]
  BY <1>2, <1>4, <1>5
<1>7. new \notin {Absent, Gone}
  BY <1>5, AbsentAssumption
<1>8. \A t \in Things : Exists(t) => Exists(t)'
  BY <1>3, <1>4, <1>5, <1>7, ThingIs DEF Things
<1>9. /\ pending' \in [Requests -> Effects] /\ shares' \subseteq Row
      /\ Finite' /\ Held' /\ AloneStand' /\ IdsUnique' /\ AddressesMeant'
      /\ Alone' <=> Alone
  BY <1>1, <1>2, <1>3, FewerKeeps
<1>10. TypeOK'
  BY <1>2, <1>3, <1>6, <1>9 DEF IInv, TypeOK
<1>11. RowsStand'
  BY <1>2, <1>3, <1>8, LivingRows, StandsOn
<1>12. RowsUnique'
  BY <1>3, <1>9 DEF IInv, RowsUnique
<1>13. QED
  BY <1>9, <1>10, <1>11, <1>12 DEF IInv

\* An exploration is created or renamed (the end of create_exploration and
\* update_exploration): alone, its title is free.
LEMMA ExplorationCommitKeeps ==
    ASSUME IInv, NEW r \in Requests, CommitExploration(r)
    PROVE  IInv'
<1>1. PICK p : p = pending[r]
  OBVIOUS
<1>2. /\ p # Idle /\ Carries(p) /\ p.do \in {"create", "rename"}
      /\ Alone => Vouched(p)
      /\ pending' = [pending EXCEPT ![r] = Idle] /\ UNCHANGED scenario
  BY <1>1, ReadyIs DEF CommitExploration
<1>3. UNCHANGED <<contexts, templates, shares>>
  BY DEF CommitExploration
<1>4. explorations \in [Explorations -> Exploration \cup {Absent, Gone}]
  BY DEF IInv, TypeOK
<1>5. PICK on \in Explorations, new \in Exploration :
          /\ on = p.on /\ explorations' = [explorations EXCEPT ![on] = new]
          /\ Exists(new.context)
          /\ Alone => ~TitleTaken(new.context, new.title, {on})
  <2>1. CASE p.do = "create"
    <3>1. /\ Exists(p.context)
          /\ explorations' = [explorations EXCEPT ![p.on] =
                 [owner |-> p.by, context |-> p.context, title |-> p.title]]
      BY <1>1, <2>1 DEF CommitExploration, Ready
    <3>2. /\ p.by \in People /\ p.on \in Explorations /\ p.context \in Contexts
          /\ p.title \in Titles
      BY <1>2, <2>1 DEF Carries
    <3>3. PICK x : x = [owner |-> p.by, context |-> p.context, title |-> p.title]
      OBVIOUS
    <3>4. x \in Exploration /\ x.context = p.context /\ x.title = p.title
      BY <3>2, <3>3 DEF Exploration
    <3>5. Alone => ~TitleTaken(x.context, x.title, {p.on})
      BY <1>2, <2>1, <3>4 DEF Vouched, TitleTaken
    <3>6. explorations' = [explorations EXCEPT ![p.on] = x]
      BY <3>1, <3>3
    <3>7. QED
      BY <3>1, <3>2, <3>4, <3>5, <3>6
  <2>2. CASE p.do = "rename"
    <3>1. /\ Exists(p.on)
          /\ explorations' = [explorations EXCEPT ![p.on].title = p.title]
      BY <1>1, <2>2 DEF CommitExploration, Ready
    <3>2. p.on \in Explorations /\ p.title \in Titles
      BY <1>2, <2>2 DEF Carries
    <3>3. p.on \in Living(explorations) /\ explorations[p.on] \in Exploration
      BY <1>4, <3>1, <3>2, ThingIs DEF Living, Things
    <3>4. PICK x : x = [explorations[p.on] EXCEPT !.title = p.title]
      OBVIOUS
    <3>5. x \in Exploration /\ x.context = explorations[p.on].context /\ x.title = p.title
      BY <3>2, <3>3, <3>4 DEF Exploration
    <3>6. Alone => ~TitleTaken(x.context, x.title, {p.on})
      BY <1>2, <2>2, <3>5 DEF Vouched
    <3>7. Exists(x.context)
      BY <3>3, <3>5, LivingRows
    <3>8. explorations' = [explorations EXCEPT ![p.on] = x]
      BY <3>1, <3>4
    <3>9. QED
      BY <3>2, <3>5, <3>6, <3>7, <3>8
  <2>3. QED
    BY <1>2, <2>1, <2>2
<1>6. /\ explorations' \in [Explorations -> Exploration \cup {Absent, Gone}]
      /\ \A e \in Explorations : explorations'[e] = IF e = on THEN new ELSE explorations[e]
  BY <1>4, <1>5
<1>7. new \notin {Absent, Gone} /\ new.context \in Contexts
  BY AbsentAssumption DEF Exploration
<1>8. \A t \in Things : Exists(t) => Exists(t)'
  BY <1>3, <1>6, <1>7, ThingIs DEF Things
<1>9. /\ pending' \in [Requests -> Effects] /\ shares' \subseteq Row
      /\ Finite' /\ Held' /\ AloneStand' /\ IdsUnique' /\ AddressesMeant'
      /\ Alone' <=> Alone
  BY <1>1, <1>2, <1>3, FewerKeeps
<1>10. TypeOK'
  BY <1>2, <1>3, <1>6, <1>9 DEF IInv, TypeOK
<1>11. \A e \in Living(explorations') :
           /\ e \in Explorations
           /\ e = on => explorations'[e] = new
           /\ e # on => e \in Living(explorations) /\ explorations'[e] = explorations[e]
  BY <1>4, <1>6 DEF Living
<1>12. RowsStand'
  <2>1. \A e \in Living(explorations') :
            explorations'[e].context \in Things /\ Exists(explorations'[e].context)
    BY <1>5, <1>7, <1>11, LivingRows DEF Things
  <2>2. ~InMemory => \A t \in Living(templates') :
            templates'[t].context \in Things /\ Exists(templates'[t].context)
    BY <1>3, LivingRows
  <2>3. QED
    BY <1>2, <1>3, <1>8, <2>1, <2>2, StandsOn
<1>13. RowsUnique'
  <2>1. SUFFICES ASSUME Alone,
                        NEW e \in Living(explorations'), NEW x \in Living(explorations'),
                        explorations'[e].context = explorations'[x].context,
                        explorations'[e].title = explorations'[x].title
                 PROVE  e = x
    BY <1>3, <1>9 DEF IInv, RowsUnique
  <2>2. \A y \in Living(explorations) : y # on =>
            ~(explorations[y].context = new.context /\ explorations[y].title = new.title)
    BY <1>5, <2>1 DEF TitleTaken, Inside
  <2>3. QED
    BY <1>11, <2>1, <2>2 DEF IInv, RowsUnique
<1>14. QED
  BY <1>9, <1>10, <1>12, <1>13 DEF IInv

\* A template is written or removed (the end of create_query_template,
\* update_query_template and delete_query_template).
LEMMA TemplateCommitKeeps ==
    ASSUME IInv, NEW r \in Requests, CommitTemplate(r)
    PROVE  IInv'
<1>1. PICK p : p = pending[r]
  OBVIOUS
<1>2. /\ p # Idle /\ Carries(p) /\ p.do \in {"compose", "edit", "discard"}
      /\ pending' = [pending EXCEPT ![r] = Idle] /\ UNCHANGED scenario
  BY <1>1, ReadyIs DEF CommitTemplate
<1>3. UNCHANGED <<contexts, explorations, shares>>
  BY DEF CommitTemplate
<1>4. templates \in [Templates -> Template \cup {Absent, Gone}]
  BY DEF IInv, TypeOK
<1>5. PICK on \in Templates, new \in Template \cup {Gone} :
          /\ templates' = [templates EXCEPT ![on] = new]
          /\ new # Gone /\ ~InMemory => Exists(new.context)
  <2>1. CASE p.do = "compose"
    <3>1. /\ Exists(p.context)
          /\ templates' = [templates EXCEPT ![p.template] =
                 [context |-> p.context, owner |-> p.by, visibility |-> p.visibility,
                  text |-> p.by]]
      BY <1>1, <2>1 DEF CommitTemplate, Ready
    <3>2. PICK x : x = [context |-> p.context, owner |-> p.by, visibility |-> p.visibility,
                        text |-> p.by]
      OBVIOUS
    <3>3. x \in Template /\ x.context = p.context /\ p.template \in Templates
      BY <1>2, <2>1, <3>2 DEF Carries, Template
    <3>4. templates' = [templates EXCEPT ![p.template] = x] /\ Exists(x.context)
      BY <3>1, <3>2, <3>3
    <3>5. QED
      BY <3>3, <3>4
  <2>2. CASE p.do = "edit"
    <3>1. /\ p.template \in Living(templates)
          /\ templates' = [templates EXCEPT
                 ![p.template].text = p.by,
                 ![p.template].visibility = Changed(@, p.visibility)]
      BY <1>1, <2>2 DEF CommitTemplate, Ready
    <3>2. /\ p.template \in Templates /\ templates[p.template] \in Template
          /\ ~InMemory => Exists(templates[p.template].context)
      BY <3>1, LivingRows
    <3>3. PICK given : given = Changed(templates[p.template].visibility, p.visibility)
      OBVIOUS
    <3>4. p.by \in People /\ given \in {"shared", "private"}
      BY <1>2, <2>2, <3>2, <3>3 DEF Carries, Changed, Template
    <3>5. PICK x : x = [templates[p.template] EXCEPT !.text = p.by, !.visibility = given]
      OBVIOUS
    <3>6. x \in Template /\ x.context = templates[p.template].context
      BY <3>2, <3>4, <3>5 DEF Template
    <3>7. templates' = [templates EXCEPT ![p.template] = x]
      BY <1>4, <3>1, <3>2, <3>3, <3>5
    <3>8. QED
      BY <3>2, <3>6, <3>7
  <2>3. CASE p.do = "discard"
    <3>1. templates' = [templates EXCEPT ![p.template] = Gone]
      BY <1>1, <2>3 DEF CommitTemplate, Ready
    <3>2. p.template \in Templates
      BY <1>2, <2>3 DEF Carries
    <3>3. QED
      BY <3>1, <3>2
  <2>4. QED
    BY <1>2, <2>1, <2>2, <2>3
<1>6. /\ templates' \in [Templates -> Template \cup {Absent, Gone}]
      /\ \A t \in Templates : templates'[t] = IF t = on THEN new ELSE templates[t]
  BY <1>4, <1>5
<1>7. /\ pending' \in [Requests -> Effects] /\ shares' \subseteq Row
      /\ Finite' /\ Held' /\ AloneStand' /\ IdsUnique' /\ AddressesMeant'
      /\ Alone' <=> Alone
  BY <1>1, <1>2, <1>3, FewerKeeps
<1>8. TypeOK'
  BY <1>2, <1>3, <1>6, <1>7 DEF IInv, TypeOK
<1>9. \A t \in Things : Exists(t) => Exists(t)'
  BY <1>3 DEF Exists, Thing
<1>10. RowsStand'
  <2>1. \A e \in Living(explorations') :
            explorations'[e].context \in Things /\ Exists(explorations'[e].context)
    BY <1>3, LivingRows
  <2>2. ASSUME ~InMemory, NEW t \in Living(templates')
        PROVE  templates'[t].context \in Things /\ Exists(templates'[t].context)
    <3>1. t \in Templates /\ templates'[t] \notin {Absent, Gone}
      BY <1>6, <2>2 DEF Living
    <3>2. CASE t = on
      <4>1. templates'[t] = new /\ new # Gone /\ new \in Template
        BY <1>5, <1>6, <3>1, <3>2
      <4>2. new.context \in Things
        BY <4>1 DEF Template, Things
      <4>3. QED
        BY <1>5, <2>2, <4>1, <4>2
    <3>3. CASE t # on
      <4>1. t \in Living(templates) /\ templates'[t] = templates[t]
        BY <1>4, <1>6, <3>1, <3>3 DEF Living
      <4>2. QED
        BY <2>2, <4>1, LivingRows
    <3>4. QED
      BY <3>2, <3>3
  <2>3. QED
    BY <1>2, <1>3, <1>9, <2>1, <2>2, StandsOn
<1>11. RowsUnique'
  BY <1>3, <1>7 DEF IInv, RowsUnique
<1>12. QED
  BY <1>7, <1>8, <1>10, <1>11 DEF IInv

-------------------------------------------------------------------------------
(* The invariant.                                                            *)

LEMMA InitHolds == Init => IInv
<1> SUFFICES ASSUME Init PROVE IInv
  OBVIOUS
<1>1. \A q \in Requests : pending[q] = Idle /\ pending[q].do = "nothing"
  BY DEF Init, Idle
<1>2. shares = {} /\ Living(explorations) = {} /\ Living(templates) = {}
  BY DEF Init, Living
<1>3. TypeOK
  BY DEF Init, TypeOK, Effects
<1>4. Busy = {}
  BY <1>1 DEF Busy
<1>5. Finite
  BY <1>1, <1>2, <1>4, FS_EmptySet DEF Finite, FiniteDrop
<1>6. Held /\ AloneStand
  BY <1>1, <1>4 DEF Held, HeldBy, AloneStand, AtMostOne, Vouched
<1>7. IdsUnique /\ AddressesMeant /\ RowsStand /\ RowsUnique
  BY <1>2 DEF IdsUnique, AddressesMeant, RowsStand, RowsUnique
<1>8. QED
  BY <1>3, <1>5, <1>6, <1>7 DEF IInv

\* What a step does: it admits a request, ends one with its writes, or fails one.
Admission(r) ==
    \/ CreateGraphContext(r) \/ UpdateGraphContext(r) \/ DeleteGraphContext(r)
    \/ ShareGraphContext(r) \/ UnshareGraphContext(r) \/ TransferContext(r)
    \/ CreateExploration(r) \/ UpdateExploration(r) \/ DeleteExploration(r)
    \/ ShareExploration(r) \/ UnshareExploration(r) \/ TransferExploration(r)
    \/ CreateQueryTemplate(r) \/ UpdateQueryTemplate(r) \/ DeleteQueryTemplate(r)

LEMMA AdmissionKeeps ==
    ASSUME IInv, NEW r \in Requests, Admission(r)
    PROVE  IInv'
<1>1. CASE \/ CreateGraphContext(r) \/ UpdateGraphContext(r)
           \/ CreateExploration(r) \/ UpdateExploration(r)
           \/ CreateQueryTemplate(r) \/ UpdateQueryTemplate(r) \/ DeleteQueryTemplate(r)
  BY <1>1, ContextKeeps, ExplorationKeeps, TemplateKeeps
<1>2. CASE DeleteGraphContext(r) \/ DeleteExploration(r)
  BY <1>2, DeleteKeeps DEF DeleteGraphContext, DeleteExploration, Things
<1>3. CASE ShareGraphContext(r) \/ ShareExploration(r)
  BY <1>3, ShareKeeps DEF ShareGraphContext, ShareExploration, Things
<1>4. CASE UnshareGraphContext(r) \/ UnshareExploration(r)
  BY <1>4, UnshareKeeps DEF UnshareGraphContext, UnshareExploration, Things
<1>5. CASE TransferContext(r) \/ TransferExploration(r)
  BY <1>5, TransferKeeps DEF TransferContext, TransferExploration, Things
<1>6. QED
  BY <1>1, <1>2, <1>3, <1>4, <1>5 DEF Admission

LEMMA StepKeeps == IInv /\ [Next]_vars => IInv'
<1>1. ASSUME IInv, Next PROVE IInv'
  <2>1. PICK r \in Requests :
            \/ Admission(r)
            \/ CommitGrant(r) \/ CommitRevoke(r) \/ CommitDelete(r) \/ CommitTransfer(r)
            \/ CommitContext(r) \/ CommitExploration(r) \/ CommitTemplate(r)
            \/ Rollback(r)
    BY <1>1 DEF Next, Admission
  <2>2. QED
    BY <1>1, <2>1, AdmissionKeeps, GrantKeeps, RevokeKeeps, DeletedKeeps, TransferredKeeps,
       ContextCommitKeeps, ExplorationCommitKeeps, TemplateCommitKeeps, RollbackKeeps
<1>2. ASSUME IInv, UNCHANGED vars PROVE IInv'
  <2>1. UNCHANGED <<contexts, explorations, templates, shares, pending, scenario>>
    BY <1>2 DEF vars
  <2>2. TypeOK'
    BY <1>2, <2>1 DEF IInv, TypeOK
  <2>3. Finite'
    BY <1>2, <2>1 DEF IInv, Finite, Busy, FiniteDrop
  <2>4. Held'
    BY <1>2, <2>1 DEF IInv, Held, HeldBy
  <2>5. AloneStand'
    <3>1. \A q \in Requests : Vouched(pending[q]) => Vouched(pending[q])'
      <4>1. SUFFICES ASSUME NEW q \in Requests, Vouched(pending[q]) PROVE Vouched(pending[q])'
        OBVIOUS
      <4>2. PICK p : p = pending[q]
        OBVIOUS
      <4>3. Vouched(p)'
        BY <2>1, <4>1, <4>2, VouchedSame DEF rows
      <4>4. QED
        BY <2>1, <4>2, <4>3
    <3>2. AtMostOne => AtMostOne'
      BY <2>1 DEF AtMostOne, Busy
    <3>3. Alone' <=> Alone
      BY <2>1 DEF Alone
    <3>4. QED
      BY <1>2, <3>1, <3>2, <3>3 DEF IInv, AloneStand
  <2>6. QED
    BY <1>2, <2>1, <2>2, <2>3, <2>4, <2>5, RowsSame DEF IInv, rows
<1>3. QED
  BY <1>1, <1>2

LEMMA Always == Spec => []IInv
<1>1. QED
  BY InitHolds, StepKeeps, PTL DEF Spec

\* Rows and requests keep their types, whatever the people, the things and the number of
\* requests (the models of db/models.py and what a handler carries to its commit).
THEOREM TypeCorrect == Spec => []TypeOK
<1>1. IInv => TypeOK
  BY DEF IInv
<1>2. QED
  BY <1>1, Always, PTL

-------------------------------------------------------------------------------
(* Every way in.                                                             *)

\* A query of the database finds an address exactly when Python matches it, as long as
\* addresses are stored in lower case (share_match_emails and email_matches_share).
LEMMA FindsIsShared ==
    ASSUME IInv, Spelled \notin Addresses, NEW u, NEW t
    PROVE  Finds(u, t) <=> SharedWith(u, t)
<1>1. \A s \in shares : s.address # Spelled
  BY DEF IInv, AddressesMeant
<1>2. \A s \in RowsOn(t) : Matches(u, s.address) <=> s.address \in MatchEmails(u)
  BY <1>1 DEF RowsOn, Matches, MatchEmails
<1>3. QED
  BY <1>2 DEF Finds, SharedWith

LEMMA EveryWayIn ==
    ASSUME IInv, Spelled \notin Addresses
    PROVE  ViewsAgree
<1>1. \A u, t : Finds(u, t) <=> SharedWith(u, t)
  BY FindsIsShared
<1>2. \A c \in Contexts : Thing(c) = contexts[c]
  BY DEF Thing
<1>3. \A u \in People, c \in Contexts : MayQuery(u, c) <=> MayOpen(u, c)
  BY <1>2 DEF MayQuery, MayOpen, CanRead, CanManage
<1>4. \A u \in People, c \in Contexts : ListsContext(u, c) <=> MayOpen(u, c)
  BY <1>1 DEF ListsContext, MayOpen
<1>5. \A c \in Living(contexts) : c \in Contexts
  BY DEF IInv, TypeOK, Living
<1>6. \A e \in Living(explorations) : explorations[e].context \in Contexts
  BY DEF IInv, TypeOK, Living, Exploration
<1>7. \A u \in People, e \in Living(explorations) :
          SharedWith(u, e) => MayOpen(u, explorations[e].context)
  BY <1>1 DEF MayOpen, Inside
<1>8. \A u \in People, e \in Living(explorations) :
          /\ MayReadExploration(u, e) <=> MayReadState(u, e)
          /\ ListsExploration(u, e) => MayReadExploration(u, e)
  BY <1>1, <1>2, <1>3, <1>6
     DEF MayReadExploration, MayReadState, ListsExploration, CanRead, CanManage, MayOpen
<1>9. QED
  BY <1>3, <1>4, <1>5, <1>7, <1>8 DEF ViewsAgree

\* However requests overlap, rows are about something and no row lets everybody write;
\* the six ways to a context or an exploration agree; and while requests do not overlap
\* an address has one row and a title one exploration.  A share with a domain spelled in
\* capitals is left out: the list of the database does not find it.
THEOREM SharesHold ==
    ASSUME Spelled \notin Addresses
    PROVE  Spec => []SharesStand
<1>1. IInv => SharesStand
  BY EveryWayIn DEF IInv, SharesStand
<1>2. QED
  BY <1>1, Always, PTL

-------------------------------------------------------------------------------
(* Who decides.                                                              *)

ManagersAct ==
    Alone => \A t \in Things :
        Exists(t) /\ (Owner(t)' # Owner(t) \/ Addressed(t)' # Addressed(t)) =>
            \E r \in Requests : Ends(r) /\ MayDecide(pending[r].by, t)

PrivateKept ==
    Alone => \A t \in Living(templates) :
        templates[t].visibility = "private" /\ templates'[t] \notin {templates[t], Gone} =>
            \E r \in Requests : Ends(r)
                /\ pending[r].by \in {templates[t].owner} \cup Superusers
                /\ \/ templates'[t].visibility = "private"
                   \/ MayDecide(pending[r].by, templates[t].context)
                   \/ WriteShared(pending[r].by, templates[t].context)

\* A step that writes no row takes nothing from anybody.
LEMMA NothingDecided ==
    ASSUME UNCHANGED rows
    PROVE  ManagersAct /\ PrivateKept
<1>1. \A t : Owner(t)' = Owner(t) /\ Addressed(t)' = Addressed(t)
  BY DEF rows, Owner, Exists, Thing, Addressed, RowsOn
<1>2. \A t : templates'[t] = templates[t]
  BY DEF rows
<1>3. QED
  BY <1>1, <1>2 DEF ManagersAct, PrivateKept

\* The request that ends answers for the things whose owner or shares changed.
LEMMA DecidedBy ==
    ASSUME IInv, NEW r \in Requests, pending[r] # Idle,
           pending' = [pending EXCEPT ![r] = Idle],
           \A t \in Things :
               \/ MayDecide(pending[r].by, t)
               \/ Exists(t) => Owner(t)' = Owner(t) /\ Addressed(t)' = Addressed(t)
    PROVE  ManagersAct
<1>1. Ends(r)
  BY DEF Ends, IInv, TypeOK
<1>2. QED
  BY <1>1 DEF ManagersAct

LEMMA ManagerDecides ==
    ASSUME NEW u, NEW t, Exists(t), CanManage(u, t)
    PROVE  MayDecide(u, t)
  BY DEF CanManage, MayDecide, Owner

\* Rows that are the same for a thing name the same people.
LEMMA AddressedSame ==
    ASSUME NEW t, \A s \in shares : s.on = t => s \in shares',
           \A s \in shares' : s.on = t => s \in shares
    PROVE  Addressed(t)' = Addressed(t)
<1>1. RowsOn(t)' = RowsOn(t)
  BY DEF RowsOn
<1>2. QED
  BY <1>1 DEF Addressed

LEMMA GrantDecided ==
    ASSUME IInv, Alone, NEW r \in Requests, CommitGrant(r) \/ CommitRevoke(r)
    PROVE  ManagersAct
<1>1. PICK p : p = pending[r]
  OBVIOUS
<1>2. /\ p # Idle /\ p.do \in {"grant", "revoke"} /\ HeldBy(p) /\ Vouched(p)
      /\ pending' = [pending EXCEPT ![r] = Idle]
  BY <1>1, ReadyIs DEF CommitGrant, CommitRevoke
<1>3. UNCHANGED <<contexts, explorations>>
  BY DEF CommitGrant, CommitRevoke
<1>4. MayDecide(p.by, p.on)
  BY <1>2, ManagerDecides DEF Vouched
<1>5. ASSUME NEW t \in Things, t # p.on
      PROVE  Owner(t)' = Owner(t) /\ Addressed(t)' = Addressed(t)
  <2>1. Owner(t)' = Owner(t)
    BY <1>3 DEF Owner, Exists, Thing
  <2>2. \A s \in shares : s.on = t => s.id # p.row
    BY <1>2, <1>5 DEF HeldBy
  <2>3. (\A s \in shares : s.on = t => s \in shares') /\ \A s \in shares' : s.on = t => s \in shares
    <3>1. CASE CommitRevoke(r)
      BY <1>1, <2>2, <3>1 DEF CommitRevoke
    <3>2. CASE CommitGrant(r) /\ p.row = NoRow
      <4>1. PICK x : shares' = shares \cup {x} /\ x.on = p.on
        <5>1. PICK x : x = [id |-> FreshId, on |-> p.on, address |-> p.address,
                            permission |-> p.permission]
          OBVIOUS
        <5>2. shares' = shares \cup {x} /\ x.on = p.on
          BY <1>1, <3>2, <5>1 DEF CommitGrant
        <5>3. QED
          BY <5>2
      <4>2. QED
        BY <1>5, <4>1
    <3>3. CASE CommitGrant(r) /\ p.row # NoRow
      <4> DEFINE Becomes(s) == IF s.id = p.row THEN [s EXCEPT !.permission = p.permission] ELSE s
      <4>1. shares' = {Becomes(s) : s \in shares}
        BY <1>1, <3>3 DEF CommitGrant
      <4>2. \A s \in shares : s.on = t => Becomes(s) = s
        BY <2>2
      <4>3. \A s \in shares : Becomes(s).on = s.on
        BY DEF IInv, TypeOK, Row
      <4> HIDE DEF Becomes
      <4>4. QED
        BY <4>1, <4>2, <4>3
    <3>4. QED
      BY <3>1, <3>2, <3>3
  <2>4. QED
    BY <2>1, <2>3, AddressedSame
<1>6. QED
  BY <1>1, <1>2, <1>4, <1>5, DecidedBy

LEMMA DeleteDecided ==
    ASSUME IInv, Alone, NEW r \in Requests, CommitDelete(r)
    PROVE  ManagersAct
<1>1. PICK p : p = pending[r]
  OBVIOUS
<1>2. /\ p # Idle /\ p.do = "delete" /\ Carries(p) /\ Vouched(p)
      /\ pending' = [pending EXCEPT ![r] = Idle]
  BY <1>1, ReadyIs DEF CommitDelete
<1>3. PICK on : on = p.on
  OBVIOUS
<1>4. on \in Things /\ Exists(on) /\ CanManage(p.by, on)
  BY <1>2, <1>3 DEF Carries, Vouched
<1>5. MayDecide(p.by, on) /\ p.by \in Superusers \cup {Owner(on)}
  BY <1>4, ManagerDecides DEF CanManage, Owner
<1>6. PICK those : those = Cascaded(on)
  OBVIOUS
<1>7. /\ contexts' = Cleared(contexts, Contexts \cap {on})
      /\ explorations' = Cleared(explorations, those \cap Explorations)
      /\ shares' = {s \in shares : s.on \notin those}
  BY <1>1, <1>3, <1>6 DEF CommitDelete
<1>8. on \in those
  BY <1>6 DEF Cascaded
<1>9. \A t \in those : t # on => on \in Contexts /\ t \in Inside(on)
  BY <1>6 DEF Cascaded
<1>10. DOMAIN contexts = Contexts /\ DOMAIN explorations = Explorations
  BY DEF IInv, TypeOK
<1>11. ASSUME NEW t \in those PROVE MayDecide(p.by, t)
  <2>1. CASE t = on
    BY <1>5, <2>1
  <2>2. CASE t # on
    <3>1. t \in Explorations /\ explorations[t].context = on
      BY <1>9, <1>10, <1>11, <2>2 DEF Inside, Living
    <3>2. ContextOf(t) = on
      BY <3>1, ThingsAssumption DEF ContextOf
    <3>3. QED
      BY <1>5, <3>2 DEF MayDecide
  <2>3. QED
    BY <2>1, <2>2
<1>12. ASSUME NEW t \in Things, t \notin those
       PROVE  Owner(t)' = Owner(t) /\ Addressed(t)' = Addressed(t)
  <2>1. t # on
    BY <1>8, <1>12
  <2>2. t \in Contexts => contexts'[t] = contexts[t]
    BY <1>7, <1>10, <2>1 DEF Cleared
  <2>3. t \in Explorations => explorations'[t] = explorations[t]
    BY <1>7, <1>10, <1>12 DEF Cleared
  <2>4. Thing(t)' = Thing(t)
    BY <1>12, <2>2, <2>3 DEF Thing, Things
  <2>5. Owner(t)' = Owner(t)
    BY <2>4 DEF Owner, Exists
  <2>6. (\A s \in shares : s.on = t => s \in shares') /\ \A s \in shares' : s.on = t => s \in shares
    BY <1>7, <1>12
  <2>7. QED
    BY <2>5, <2>6, AddressedSame
<1>13. QED
  BY <1>1, <1>2, <1>11, <1>12, DecidedBy

LEMMA TransferDecided ==
    ASSUME IInv, Alone, NEW r \in Requests, CommitTransfer(r)
    PROVE  ManagersAct
<1>1. /\ pending[r] # Idle /\ pending[r].do = "transfer" /\ Vouched(pending[r])
      /\ pending' = [pending EXCEPT ![r] = Idle]
  BY ReadyIs DEF CommitTransfer
<1>2. \A t : MayDecide(pending[r].by, t)
  BY <1>1 DEF Vouched, MayDecide
<1>3. QED
  BY <1>1, <1>2, DecidedBy

LEMMA OthersDecided ==
    ASSUME IInv, Alone, NEW r \in Requests,
           CommitContext(r) \/ CommitExploration(r) \/ CommitTemplate(r)
    PROVE  ManagersAct
<1>1. PICK p : p = pending[r]
  OBVIOUS
<1>2. /\ p # Idle /\ Carries(p) /\ Vouched(p)
      /\ pending' = [pending EXCEPT ![r] = Idle]
  BY <1>1, ReadyIs DEF CommitContext, CommitExploration, CommitTemplate
<1>3. shares' = shares
  BY DEF CommitContext, CommitExploration, CommitTemplate
<1>4. \A t : Addressed(t)' = Addressed(t)
  BY <1>3 DEF Addressed, RowsOn
<1>5. /\ contexts \in [Contexts -> Context \cup {Absent, Gone}]
      /\ explorations \in [Explorations -> Exploration \cup {Absent, Gone}]
  BY DEF IInv, TypeOK
<1>6. ASSUME NEW t \in Things, Exists(t) PROVE Owner(t)' = Owner(t)
  <2>1. CASE t \in Contexts
    <3>1. contexts[t] \in Context
      BY <1>5, <1>6, <2>1 DEF Exists, Thing
    <3>2. contexts'[t].owner = contexts[t].owner /\ contexts'[t] \in Context
      <4>1. CASE UNCHANGED contexts
        BY <3>1, <4>1
      <4>2. CASE CommitContext(r) /\ p.do = "open"
        <5>1. /\ contexts' = [contexts EXCEPT ![p.on] = [owner |-> p.by, settings |-> p.by]]
              /\ p.on # t
          BY <1>1, <1>2, <3>1, <4>2, AbsentAssumption DEF CommitContext, Ready, Vouched
        <5>2. QED
          BY <1>5, <2>1, <3>1, <5>1
      <4>3. CASE CommitContext(r) /\ p.do = "settings"
        <5>1. contexts' = [contexts EXCEPT ![p.on].settings = p.by] /\ p.by \in People
          BY <1>1, <1>2, <4>3 DEF CommitContext, Ready, Carries
        <5>2. contexts'[t] \in {contexts[t], [contexts[t] EXCEPT !.settings = p.by]}
          BY <1>5, <2>1, <5>1
        <5>3. QED
          BY <3>1, <5>1, <5>2 DEF Context
      <4>4. QED
        BY <1>1, <4>1, <4>2, <4>3 DEF CommitContext, CommitExploration, CommitTemplate, Ready
    <3>3. contexts'[t] \notin {Absent, Gone}
      BY <3>2, AbsentAssumption
    <3>4. QED
      BY <1>6, <2>1, <3>2, <3>3 DEF Owner, Exists, Thing
  <2>2. CASE t \notin Contexts
    <3>1. t \in Explorations /\ explorations[t] \in Exploration
      BY <1>5, <1>6, <2>2 DEF Exists, Thing, Things
    <3>2. explorations'[t].owner = explorations[t].owner /\ explorations'[t] \in Exploration
      <4>1. CASE UNCHANGED explorations
        BY <3>1, <4>1
      <4>2. CASE CommitExploration(r) /\ p.do = "create"
        <5>1. /\ explorations' = [explorations EXCEPT ![p.on] =
                     [owner |-> p.by, context |-> p.context, title |-> p.title]]
              /\ p.on # t
          BY <1>1, <1>2, <3>1, <4>2, AbsentAssumption DEF CommitExploration, Ready, Vouched
        <5>2. QED
          BY <1>5, <3>1, <5>1
      <4>3. CASE CommitExploration(r) /\ p.do = "rename"
        <5>1. explorations' = [explorations EXCEPT ![p.on].title = p.title] /\ p.title \in Titles
          BY <1>1, <1>2, <4>3 DEF CommitExploration, Ready, Carries
        <5>2. explorations'[t] \in {explorations[t], [explorations[t] EXCEPT !.title = p.title]}
          BY <1>5, <3>1, <5>1
        <5>3. QED
          BY <3>1, <5>1, <5>2 DEF Exploration
      <4>4. QED
        BY <1>1, <4>1, <4>2, <4>3 DEF CommitContext, CommitExploration, CommitTemplate, Ready
    <3>3. explorations'[t] \notin {Absent, Gone}
      BY <3>2, AbsentAssumption
    <3>4. QED
      BY <1>6, <2>2, <3>2, <3>3 DEF Owner, Exists, Thing
  <2>3. QED
    BY <2>1, <2>2
<1>7. QED
  BY <1>1, <1>2, <1>4, <1>6, DecidedBy

\* Commits that write no template.
LEMMA TemplatesAlone ==
    ASSUME IInv, NEW r \in Requests,
           \/ CommitGrant(r) \/ CommitRevoke(r) \/ CommitDelete(r) \/ CommitTransfer(r)
           \/ CommitContext(r) \/ CommitExploration(r)
    PROVE  PrivateKept
<1>1. \A t \in Living(templates) : templates'[t] \in {templates[t], Gone}
  <2>1. CASE UNCHANGED templates
    BY <2>1
  <2>2. CASE CommitDelete(r)
    BY <2>2 DEF CommitDelete, Cleared, Living
  <2>3. QED
    BY <2>1, <2>2 DEF CommitGrant, CommitRevoke, CommitTransfer, CommitContext,
                      CommitExploration
<1>2. QED
  BY <1>1 DEF PrivateKept

LEMMA PrivateStays ==
    ASSUME IInv, Alone, NEW r \in Requests, CommitTemplate(r)
    PROVE  PrivateKept
<1>1. PICK p : p = pending[r]
  OBVIOUS
<1>2. /\ p # Idle /\ Carries(p) /\ Vouched(p) /\ p.do \in {"compose", "edit", "discard"}
      /\ pending' = [pending EXCEPT ![r] = Idle]
  BY <1>1, ReadyIs DEF CommitTemplate
<1>3. Ends(r)
  BY <1>1, <1>2 DEF Ends, IInv, TypeOK
<1>4. templates \in [Templates -> Template \cup {Absent, Gone}]
  BY DEF IInv, TypeOK
<1>5. SUFFICES ASSUME NEW t \in Living(templates), templates[t].visibility = "private",
                      templates'[t] \notin {templates[t], Gone}
               PROVE  /\ p.by \in {templates[t].owner} \cup Superusers
                      /\ \/ templates'[t].visibility = "private"
                         \/ MayDecide(p.by, templates[t].context)
                         \/ WriteShared(p.by, templates[t].context)
  BY <1>1, <1>3 DEF PrivateKept
<1>6. t \in Templates /\ templates[t] \in Template
  BY LivingRows
<1>7. p.do = "edit" /\ p.template = t
  <2>1. CASE p.do = "compose"
    <3>1. templates' = [templates EXCEPT ![p.template] =
              [context |-> p.context, owner |-> p.by, visibility |-> p.visibility,
               text |-> p.by]]
      BY <1>1, <2>1 DEF CommitTemplate, Ready
    <3>2. p.template # t
      BY <1>2, <1>6, <2>1, AbsentAssumption DEF Vouched
    <3>3. QED
      BY <1>4, <1>5, <1>6, <3>1, <3>2
  <2>2. CASE p.do = "edit"
    <3>1. templates' = [templates EXCEPT
              ![p.template].text = p.by,
              ![p.template].visibility = Changed(@, p.visibility)]
      BY <1>1, <2>2 DEF CommitTemplate, Ready
    <3>2. QED
      BY <1>4, <1>5, <1>6, <2>2, <3>1
  <2>3. CASE p.do = "discard"
    <3>1. templates' = [templates EXCEPT ![p.template] = Gone]
      BY <1>1, <2>3 DEF CommitTemplate, Ready
    <3>2. QED
      BY <1>4, <1>5, <1>6, <3>1
  <2>4. QED
    BY <1>2, <2>1, <2>2, <2>3
<1>8. /\ Exists(templates[t].context)
      /\ MayMutate(p.by, templates[t])
      /\ MayChangeVisibility(p.by, templates[t], p.visibility)
  BY <1>2, <1>7 DEF Vouched
<1>9. p.by \in {templates[t].owner} \cup Superusers
  BY <1>5, <1>8 DEF MayMutate
<1>10. templates'[t].visibility = Changed("private", p.visibility)
  <2>1. templates' = [templates EXCEPT
            ![t].text = p.by,
            ![t].visibility = Changed(@, p.visibility)]
    BY <1>1, <1>7 DEF CommitTemplate, Ready
  <2>2. QED
    BY <1>4, <1>5, <1>6, <2>1 DEF Template
<1>11. CASE p.visibility # "shared"
  <2>1. p.visibility \in {"private", "as it is"}
    BY <1>2, <1>7, <1>11 DEF Carries
  <2>2. QED
    BY <1>9, <1>10, <2>1 DEF Changed
<1>12. CASE p.visibility = "shared"
  <2>1. p.by \in Superusers \/ CanWrite(p.by, templates[t].context)
    BY <1>5, <1>8, <1>12 DEF MayChangeVisibility
  <2>2. \/ MayDecide(p.by, templates[t].context)
        \/ WriteShared(p.by, templates[t].context)
    BY <1>8, <2>1, ManagerDecides DEF CanWrite, MayDecide
  <2>3. QED
    BY <1>9, <2>2
<1>13. QED
  BY <1>11, <1>12

LEMMA StepDecided == IInv /\ [Next]_vars => [ManagersAct]_vars /\ [PrivateKept]_vars
<1>1. ASSUME IInv, Next PROVE ManagersAct /\ PrivateKept
  <2>1. CASE ~Alone
    BY <2>1 DEF ManagersAct, PrivateKept
  <2>2. CASE Alone
    <3>1. PICK r \in Requests :
              \/ Admission(r)
              \/ CommitGrant(r) \/ CommitRevoke(r) \/ CommitDelete(r) \/ CommitTransfer(r)
              \/ CommitContext(r) \/ CommitExploration(r) \/ CommitTemplate(r)
              \/ Rollback(r)
      BY <1>1 DEF Next, Admission
    <3>2. CASE Admission(r) \/ Rollback(r)
      <4>1. UNCHANGED rows
        BY <3>2 DEF Admission, Rollback, Admits,
            CreateGraphContext, UpdateGraphContext, DeleteGraphContext,
            ShareGraphContext, UnshareGraphContext, TransferContext,
            CreateExploration, UpdateExploration, DeleteExploration,
            ShareExploration, UnshareExploration, TransferExploration,
            CreateQueryTemplate, UpdateQueryTemplate, DeleteQueryTemplate,
            Share, Unshare, Delete, Transfer
      <4>2. QED
        BY <4>1, NothingDecided
    <3>3. CASE \/ CommitGrant(r) \/ CommitRevoke(r) \/ CommitDelete(r) \/ CommitTransfer(r)
               \/ CommitContext(r) \/ CommitExploration(r)
      BY <1>1, <2>2, <3>3, GrantDecided, DeleteDecided, TransferDecided, OthersDecided,
         TemplatesAlone
    <3>4. CASE CommitTemplate(r)
      BY <1>1, <2>2, <3>4, OthersDecided, PrivateStays
    <3>5. QED
      BY <3>1, <3>2, <3>3, <3>4
  <2>3. QED
    BY <2>1, <2>2
<1>2. QED
  BY <1>1

\* While requests do not overlap, who owns a thing and whom it is shared with changes only
\* at the hand of somebody who manages it or its context at that moment, and the text of a
\* private template only at its creator's or a superuser's (CanManage in front of every
\* share, delete and update; can_mutate_template).
THEOREM OwnersRule == Spec => OwnersDecide
<1>1. Spec => ManagersRule
  <2>1. IInv /\ [Next]_vars => [ManagersAct]_vars
    BY StepDecided
  <2>2. Spec => [][ManagersAct]_vars
    BY <2>1, Always, PTL DEF Spec
  <2>3. QED
    BY <2>2 DEF ManagersRule, ManagersAct
<1>2. Spec => PrivateIsMine
  <2>1. IInv /\ [Next]_vars => [PrivateKept]_vars
    BY StepDecided
  <2>2. Spec => [][PrivateKept]_vars
    BY <2>1, Always, PTL DEF Spec
  <2>3. QED
    BY <2>2 DEF PrivateIsMine, PrivateKept
<1>3. QED
  BY <1>1, <1>2 DEF OwnersDecide

================================================================================
