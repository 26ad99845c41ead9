------------------------------- MODULE Sharing -------------------------------
(***************************************************************************)
(* Who may see, write and manage graph contexts, explorations and query    *)
(* templates (api/graphlagoon/routers/graph_contexts.py, explorations.py,  *)
(* query_templates.py, the transfers of admin.py, utils/sharing.py,        *)
(* utils/authz.py, utils/context_access.py and db/memory_store.py).        *)
(*                                                                         *)
(* A request that changes something is two steps, as it is two moments of  *)
(* the code: it is admitted by what it reads, and what it decided then     *)
(* reaches the store (pending).  On PostgreSQL anything may be committed   *)
(* between the two; in the in-memory store only the warehouse call of an   *)
(* update lets another request in.                                         *)
(***************************************************************************)
EXTENDS Naturals, FiniteSets

CONSTANTS
    People, Superusers,
    Insiders,               \* the people of the domain that may be shared with
    Public,                 \* the share address "*"
    Domain,                 \* the address "*@domain" of the Insiders
    Spelled,                \* the same address, spelled with capitals
    Foreign,                \* "*@domain" of everybody else: not allow-listed
    Contexts, Explorations, Templates, Titles,
    Absent, Gone,           \* a row that is not there yet, and one that was deleted
    NoRow,                  \* the id of a share that has to be inserted
    Requests,
    MaxRows,                \* bound on the share rows of any scenario
    Addresses,              \* the addresses a run shares with
    Scenarios               \* what a run lets happen: the store, the operations, how many
                            \* requests are under way at once and how many shares there are

Wildcards == {Public, Domain, Spelled, Foreign}

ASSUME PeopleAssumption == Superusers \cup Insiders \subseteq People
ASSUME AddressAssumption == Addresses \subseteq People \cup Wildcards
ASSUME ThingsAssumption == Contexts \cap Explorations = {} /\ NoRow \notin Nat
ASSUME ScenarioAssumption ==
    MaxRows \in Nat /\
    \A s \in Scenarios :
        s.store \in {"database", "memory"} /\ s.atOnce \in Nat /\ s.maxRows \in 0 .. MaxRows

VARIABLES
    contexts,     \* owner and who wrote the settings last
    explorations, \* owner, context and title
    templates,    \* context, owner, visibility and who wrote the text last
    shares,       \* the rows [id, on, address, permission]
    pending,      \* what each admitted request is about to write
    scenario

vars == <<contexts, explorations, templates, shares, pending, scenario>>
rows == <<contexts, explorations, templates, shares>>

Things == Contexts \cup Explorations
Permissions == {"read", "write"}
RowIds == Nat
Living(map) == {x \in DOMAIN map : map[x] \notin {Absent, Gone}}
Thing(t) == IF t \in Contexts THEN contexts[t] ELSE explorations[t]
Exists(t) == Thing(t) \notin {Absent, Gone}
Row == [id : RowIds, on : Things, address : People \cup Wildcards, permission : Permissions]
RowsOn(t) == {s \in shares : s.on = t}
ContextOf(t) == IF t \in Contexts THEN t ELSE explorations[t].context
Inside(c) == {e \in Living(explorations) : explorations[e].context = c}

Idle == [do |-> "nothing"]
Effects ==
    {Idle}
    \cup [do : {"grant"}, by : People, on : Things, address : Addresses,
          permission : Permissions, row : RowIds \cup {NoRow}]
    \cup [do : {"revoke"}, by : People, on : Things, row : RowIds \cup {NoRow}]
    \cup [do : {"delete"}, by : People, on : Things]
    \cup [do : {"transfer"}, by : People, on : Things, to : People, drop : SUBSET RowIds]
    \cup [do : {"open"}, by : People, on : Contexts]
    \cup [do : {"settings"}, by : People, on : Contexts]
    \cup [do : {"create"}, by : People, on : Explorations, context : Contexts, title : Titles]
    \cup [do : {"rename"}, by : People, on : Explorations, title : Titles]
    \cup [do : {"compose"}, by : People, template : Templates, context : Contexts,
          visibility : {"shared", "private"}]
    \cup [do : {"edit"}, by : People, template : Templates,
          visibility : {"shared", "private", "as it is"}]
    \cup [do : {"discard"}, by : People, template : Templates]

Context == [owner : People, settings : People]
Exploration == [owner : People, context : Contexts, title : Titles]
Template == [context : Contexts, owner : People, visibility : {"shared", "private"}, text : People]

ASSUME AbsentAssumption == {Absent, Gone} \cap (Context \cup Exploration \cup Template) = {}

TypeOK ==
    /\ contexts \in [Contexts -> Context \cup {Absent, Gone}]
    /\ explorations \in [Explorations -> Exploration \cup {Absent, Gone}]
    /\ templates \in [Templates -> Template \cup {Absent, Gone}]
    /\ shares \subseteq Row
    /\ pending \in [Requests -> Effects]
    /\ scenario \in Scenarios

Init ==
    /\ contexts = [c \in Contexts |-> Absent]
    /\ explorations = [e \in Explorations |-> Absent]
    /\ templates = [t \in Templates |-> Absent]
    /\ shares = {}
    /\ pending = [r \in Requests |-> Idle]
    /\ scenario \in Scenarios

InMemory == scenario.store = "memory"

-------------------------------------------------------------------------------
(* Addresses and powers.                                                     *)

\* email_matches_share compares domains in lower case
Matches(u, address) ==
    \/ address = Public
    \/ address = u
    \/ address \in {Domain, Spelled} /\ u \in Insiders
    \/ address = Foreign /\ u \notin Insiders

\* mutant: the public address forgotten, as get_context_with_access once did
MatchEmailsPrivate(u) == {u} \cup IF u \in Insiders THEN {Domain} ELSE {Foreign}

\* share_match_emails: the addresses a listing of the database asks for
MatchEmails(u) == {u, Public} \cup IF u \in Insiders THEN {Domain} ELSE {Foreign}

\* validate_share_email: a wildcard only for an allow-listed domain
ValidShare(address) == address # Foreign

SharedWith(u, t) == \E s \in RowsOn(t) : Matches(u, s.address)
WriteShared(u, t) ==
    \E s \in RowsOn(t) : s.address # Public /\ Matches(u, s.address) /\ s.permission = "write"

\* mutant: whoever writes a thing also manages it
CanManageByWriting(u, t) == u = Thing(t).owner \/ u \in Superusers \/ WriteShared(u, t)

CanManage(u, t) == u = Thing(t).owner \/ u \in Superusers

CanWrite(u, t) == CanManage(u, t) \/ WriteShared(u, t)

CanRead(u, t) == CanManage(u, t) \/ SharedWith(u, t)

\* a query of the database compares addresses, Python compares emails
Finds(u, t) ==
    IF InMemory THEN SharedWith(u, t) ELSE \E s \in RowsOn(t) : s.address \in MatchEmails(u)

\* check_context_access_db and check_context_access_memory
MayOpen(u, c) ==
    \/ u \in Superusers
    \/ contexts[c].owner = u
    \/ SharedWith(u, c)
    \/ \E e \in Inside(c) : Finds(u, e)

\* get_context_with_access, in front of every query
MayQuery(u, c) == CanRead(u, c) \/ \E e \in Inside(c) : Finds(u, e)

\* get_exploration
MayReadExploration(u, e) == CanRead(u, e) \/ MayQuery(u, explorations[e].context)

\* _readable_state, in front of the snapshot and the layer
MayReadState(u, e) == CanRead(u, e) \/ MayOpen(u, explorations[e].context)

\* list_graph_contexts
ListsContext(u, c) ==
    \/ u \in Superusers
    \/ contexts[c].owner = u
    \/ Finds(u, c)
    \/ \E e \in Inside(c) : Finds(u, e)

\* list_all_explorations
ListsExploration(u, e) ==
    \/ u \in Superusers
    \/ contexts[explorations[e].context].owner = u
    \/ Finds(u, explorations[e].context)
    \/ Finds(u, e)

-------------------------------------------------------------------------------
(* A request is admitted.                                                    *)

\* only the warehouse call of an update suspends a handler of the in-memory store
Suspends(effect) == ~InMemory \/ effect.do = "settings"

Admits(r, op, effect) ==
    /\ op \in scenario.ops
    /\ pending[r] = Idle
    /\ Cardinality({q \in Requests : pending[q] # Idle}) < scenario.atOnce
    /\ \A q \in Requests : pending[q] # Idle => Suspends(pending[q])
    /\ pending' = [pending EXCEPT ![r] = effect]
    /\ UNCHANGED <<rows, scenario>>

RoomFor(row) ==
    row = NoRow =>
        Cardinality(shares) + Cardinality({q \in Requests :
            pending[q].do = "grant" /\ pending[q].row = NoRow}) < scenario.maxRows

\* mutant: a row is inserted without looking for the one that is there
FoundNone(t, address) == {NoRow}

\* the first row of the address is updated, or one is inserted
Found(t, address) ==
    LET there == {s.id : s \in {x \in RowsOn(t) : x.address = address}}
    IN  IF there = {} THEN {NoRow} ELSE there

\* mutant: the permission is taken as it came
CoercedNot(address, permission) == permission

\* ShareRequest: public access is read-only
Coerced(address, permission) == IF address = Public THEN "read" ELSE permission

Share(r, op, t) ==
    \E u \in People, address \in Addresses, permission \in Permissions :
        /\ Exists(t) /\ CanManage(u, t)
        /\ ValidShare(address)
        /\ \E row \in Found(t, address) :
              /\ RoomFor(row)
              /\ Admits(r, op, [do |-> "grant", by |-> u, on |-> t, address |-> address,
                                permission |-> Coerced(address, permission), row |-> row])

\* two rows of one address are an error, none is nothing to do
Unshare(r, op, t) ==
    \E u \in People, address \in Addresses :
        /\ Exists(t) /\ CanManage(u, t)
        /\ Cardinality(Found(t, address)) = 1
        /\ \E row \in Found(t, address) \ {NoRow} :
              Admits(r, op, [do |-> "revoke", by |-> u, on |-> t, row |-> row])

Delete(r, op, t) ==
    \E u \in People :
        /\ Exists(t) /\ CanManage(u, t)
        /\ Admits(r, op, [do |-> "delete", by |-> u, on |-> t])

\* a superuser names a new owner, whose own share is not needed any more
Transfer(r, op, t) ==
    \E u \in Superusers, to \in People :
        /\ Exists(t)
        /\ Admits(r, op, [do |-> "transfer", by |-> u, on |-> t, to |-> to,
                          drop |-> {s.id : s \in {x \in RowsOn(t) : x.address = to}}])

ShareGraphContext(r) == \E c \in Contexts : Share(r, "share context", c)
ShareExploration(r) == \E e \in Explorations : Share(r, "share", e)
UnshareGraphContext(r) == \E c \in Contexts : Unshare(r, "share context", c)
UnshareExploration(r) == \E e \in Explorations : Unshare(r, "share", e)
DeleteGraphContext(r) == \E c \in Contexts : Delete(r, "delete context", c)
DeleteExploration(r) == \E e \in Explorations : Delete(r, "delete", e)
TransferContext(r) == \E c \in Contexts : Transfer(r, "transfer context", c)
TransferExploration(r) == \E e \in Explorations : Transfer(r, "transfer", e)

CreateGraphContext(r) ==
    \E u \in People, c \in Contexts :
        /\ contexts[c] = Absent
        /\ \A q \in Requests : pending[q].do = "open" => pending[q].on # c
        /\ Admits(r, "context", [do |-> "open", by |-> u, on |-> c])

UpdateGraphContext(r) ==
    \E u \in People, c \in Contexts :
        /\ Exists(c) /\ CanWrite(u, c)
        /\ Admits(r, "settings", [do |-> "settings", by |-> u, on |-> c])

\* mutant: titles are not compared
TitleTakenNot(c, title, but) == FALSE

TitleTaken(c, title, but) == \E e \in Inside(c) \ but : explorations[e].title = title

CreateExploration(r) ==
    \E u \in People, e \in Explorations, c \in Contexts, title \in Titles :
        /\ explorations[e] = Absent
        /\ \A q \in Requests : pending[q].do = "create" => pending[q].on # e
        /\ Exists(c) /\ MayOpen(u, c)
        /\ ~TitleTaken(c, title, {})
        /\ Admits(r, "create", [do |-> "create", by |-> u, on |-> e,
                                context |-> c, title |-> title])

UpdateExploration(r) ==
    \E u \in People, e \in Explorations, title \in Titles :
        /\ Exists(e) /\ CanWrite(u, e)
        /\ title # explorations[e].title
        /\ ~TitleTaken(explorations[e].context, title, {e})
        /\ Admits(r, "rename", [do |-> "rename", by |-> u, on |-> e, title |-> title])

-------------------------------------------------------------------------------
(* Query templates.                                                          *)

\* mutant: whoever may write the context may write what is private in it
MayMutateAny(u, template) ==
    \/ u \in Superusers
    \/ template.owner = u
    \/ CanWrite(u, template.context)

MayMutate(u, template) ==
    \/ u \in Superusers
    \/ template.visibility = "private" /\ template.owner = u
    \/ template.visibility = "shared" /\ CanWrite(u, template.context)

MayChangeVisibility(u, template, visibility) ==
    \/ visibility \in {"as it is", template.visibility}
    \/ u \in Superusers
    \/ template.owner = u /\ (visibility = "shared" => CanWrite(u, template.context))

CreateQueryTemplate(r) ==
    \E u \in People, t \in Templates, c \in Contexts, visibility \in {"shared", "private"} :
        /\ templates[t] = Absent
        /\ \A q \in Requests : pending[q].do = "compose" => pending[q].template # t
        /\ Exists(c) /\ MayOpen(u, c)
        /\ visibility = "shared" => CanWrite(u, c)
        /\ Admits(r, "template", [do |-> "compose", by |-> u, template |-> t, context |-> c,
                                  visibility |-> visibility])

\* the context is looked up first: a template whose context is gone is out of reach
Reaches(u, t) ==
    /\ t \in Living(templates)
    /\ Exists(templates[t].context)
    /\ MayOpen(u, templates[t].context)
    /\ MayMutate(u, templates[t])

UpdateQueryTemplate(r) ==
    \E u \in People, t \in Templates, visibility \in {"shared", "private", "as it is"} :
        /\ Reaches(u, t)
        /\ MayChangeVisibility(u, templates[t], visibility)
        /\ Admits(r, "template", [do |-> "edit", by |-> u, template |-> t,
                                  visibility |-> IF visibility = templates[t].visibility
                                                    THEN "as it is" ELSE visibility])

DeleteQueryTemplate(r) ==
    \E u \in People, t \in Templates :
        /\ Reaches(u, t)
        /\ Admits(r, "template", [do |-> "discard", by |-> u, template |-> t])

-------------------------------------------------------------------------------
(* What an admitted request decided reaches the store.                       *)

Ready(r, do) ==
    /\ pending[r].do = do
    /\ InMemory => \A q \in Requests \ {r} : pending[q] # Idle => Suspends(pending[q])
    /\ pending' = [pending EXCEPT ![r] = Idle]
    /\ UNCHANGED scenario

\* uuid4 gives no id twice: none that a request still holds either
HeldIds ==
    {s.id : s \in shares}
        \cup {pending[r].row : r \in {q \in Requests : pending[q].do \in {"grant", "revoke"}}}
        \cup UNION {pending[r].drop : r \in {q \in Requests : pending[q].do = "transfer"}}
FreshId == CHOOSE i \in 1 .. Cardinality(HeldIds) + 1 : i \notin HeldIds

\* an update of a row that is gone fails; an insert needs the thing it is about
CommitGrant(r) ==
    LET p == pending[r] IN
    /\ Ready(r, "grant")
    /\ IF p.row = NoRow
          THEN /\ Exists(p.on)
               /\ shares' = shares \cup {[id |-> FreshId, on |-> p.on, address |-> p.address,
                                          permission |-> p.permission]}
          ELSE /\ \E s \in shares : s.id = p.row /\ s.on = p.on
               /\ shares' = {IF s.id = p.row THEN [s EXCEPT !.permission = p.permission]
                                             ELSE s : s \in shares}
    /\ UNCHANGED <<contexts, explorations, templates>>

\* a row that is already gone is deleted again, with a warning
CommitRevoke(r) ==
    /\ Ready(r, "revoke")
    /\ shares' = {s \in shares : s.id # pending[r].row}
    /\ UNCHANGED <<contexts, explorations, templates>>

Cleared(map, those) == [x \in DOMAIN map |-> IF x \in those THEN Gone ELSE map[x]]

\* the foreign keys of the database take the templates too
TemplatesOf(c) ==
    IF InMemory THEN {} ELSE {t \in Living(templates) : templates[t].context = c}

\* mutant: the shares of the explorations are left behind
CascadedNot(t) == {t}

\* delete-orphan: the explorations of a context, and the shares of both
Cascaded(t) == IF t \in Contexts THEN {t} \cup Inside(t) ELSE {t}

CommitDelete(r) ==
    LET on == pending[r].on IN
    /\ Ready(r, "delete")
    /\ contexts' = Cleared(contexts, Contexts \cap {on})
    /\ explorations' = Cleared(explorations, Cascaded(on) \cap Explorations)
    /\ templates' = IF on \in Contexts THEN Cleared(templates, TemplatesOf(on)) ELSE templates
    /\ shares' = {s \in shares : s.on \notin Cascaded(on)}

CommitTransfer(r) ==
    LET p == pending[r] IN
    /\ Ready(r, "transfer")
    /\ Exists(p.on)
    /\ IF p.on \in Contexts
          THEN /\ contexts' = [contexts EXCEPT ![p.on].owner = p.to]
               /\ UNCHANGED explorations
          ELSE /\ explorations' = [explorations EXCEPT ![p.on].owner = p.to]
               /\ UNCHANGED contexts
    /\ shares' = {s \in shares : s.id \notin p.drop}
    /\ UNCHANGED templates

CommitContext(r) ==
    LET p == pending[r] IN
    /\ \/ /\ Ready(r, "open")
          /\ contexts' = [contexts EXCEPT ![p.on] = [owner |-> p.by, settings |-> p.by]]
       \/ /\ Ready(r, "settings")
          /\ Exists(p.on)
          /\ contexts' = [contexts EXCEPT ![p.on].settings = p.by]
    /\ UNCHANGED <<explorations, templates, shares>>

CommitExploration(r) ==
    LET p == pending[r] IN
    /\ \/ /\ Ready(r, "create")
          /\ Exists(p.context)
          /\ explorations' = [explorations EXCEPT ![p.on] =
                 [owner |-> p.by, context |-> p.context, title |-> p.title]]
       \/ /\ Ready(r, "rename")
          /\ Exists(p.on)
          /\ explorations' = [explorations EXCEPT ![p.on].title = p.title]
    /\ UNCHANGED <<contexts, templates, shares>>

\* mutant: what is not given is written too
ChangedRaw(now, given) == given

\* a field that is not given keeps its value
Changed(now, given) == IF given = "as it is" THEN now ELSE given

CommitTemplate(r) ==
    LET p == pending[r] IN
    /\ \/ /\ Ready(r, "compose")
          /\ Exists(p.context)
          /\ templates' = [templates EXCEPT ![p.template] =
                 [context |-> p.context, owner |-> p.by, visibility |-> p.visibility,
                  text |-> p.by]]
       \/ /\ Ready(r, "edit")
          /\ p.template \in Living(templates)
          /\ templates' = [templates EXCEPT
                 ![p.template].text = p.by,
                 ![p.template].visibility = Changed(@, p.visibility)]
       \/ /\ Ready(r, "discard")
          /\ templates' = [templates EXCEPT ![p.template] = Gone]
    /\ UNCHANGED <<contexts, explorations, shares>>

\* an exception, a refusal after the checks, a lost process; the handlers of the
\* in-memory store fail only where they wait
Rollback(r) ==
    /\ pending[r] # Idle /\ Suspends(pending[r])
    /\ pending' = [pending EXCEPT ![r] = Idle]
    /\ UNCHANGED <<rows, scenario>>

Next ==
    \E r \in Requests :
        \/ CreateGraphContext(r) \/ UpdateGraphContext(r) \/ DeleteGraphContext(r)
        \/ ShareGraphContext(r) \/ UnshareGraphContext(r) \/ TransferContext(r)
        \/ CreateExploration(r) \/ UpdateExploration(r) \/ DeleteExploration(r)
        \/ ShareExploration(r) \/ UnshareExploration(r) \/ TransferExploration(r)
        \/ CreateQueryTemplate(r) \/ UpdateQueryTemplate(r) \/ DeleteQueryTemplate(r)
        \/ CommitGrant(r) \/ CommitRevoke(r) \/ CommitDelete(r) \/ CommitTransfer(r)
        \/ CommitContext(r) \/ CommitExploration(r) \/ CommitTemplate(r)
        \/ Rollback(r)

Spec == Init /\ [][Next]_vars

-------------------------------------------------------------------------------
(* Properties.                                                               *)

\* Whatever way a person comes to a context, the answer is the same: the list of
\* contexts names exactly those that check_context_access and get_context_with_access
\* let through, whoever reads an exploration reads its file, every exploration a list
\* names can be read, and whoever an exploration is shared with can open its context
\* (docs/guide/explorations.md:140).  Each of the six was written by hand, once for the
\* database and once for the in-memory store.
ViewsAgree ==
    \A u \in People :
        /\ \A c \in Living(contexts) :
              /\ ListsContext(u, c) <=> MayOpen(u, c)
              /\ MayQuery(u, c) <=> MayOpen(u, c)
        /\ \A e \in Living(explorations) :
              /\ MayReadExploration(u, e) <=> MayReadState(u, e)
              /\ ListsExploration(u, e) => MayReadExploration(u, e)
              /\ SharedWith(u, e) => MayOpen(u, explorations[e].context)

\* However requests overlap, no exploration outlives its context, no share outlives what
\* it is about, in the database no template does either, and no row gives write access to
\* everybody (docs/guide/explorations.md:136).
RowsStand ==
    /\ \A e \in Living(explorations) : Exists(explorations[e].context)
    /\ \A s \in shares : Exists(s.on)
    /\ ~InMemory => \A t \in Living(templates) : Exists(templates[t].context)
    /\ \A s \in shares : s.address = Public => s.permission = "read"

Alone == scenario.atOnce = 1

\* While requests do not overlap, an address has one row per thing, so that removing a
\* share removes it, and a title names one exploration of a context.
RowsUnique ==
    Alone =>
        /\ \A s, x \in shares : s.on = x.on /\ s.address = x.address => s = x
        /\ \A e, x \in Living(explorations) :
              explorations[e].context = explorations[x].context
                  /\ explorations[e].title = explorations[x].title => e = x

\* Rows are about something, one row is all there is of each, and every way in that reads
\* them gives the same answer.
SharesStand == RowsStand /\ RowsUnique /\ ViewsAgree

Ends(r) == pending[r] # Idle /\ pending'[r] = Idle
Owner(t) == IF Exists(t) THEN Thing(t).owner ELSE Absent
Addressed(t) == {<<s.address, s.permission>> : s \in RowsOn(t)}
MayDecide(u, t) == u \in Superusers \cup {Owner(t), Owner(ContextOf(t))}

\* While requests do not overlap, who owns a thing and whom it is shared with changes
\* only at the hand of somebody who manages it, or the context it is in, at that moment
\* (docs/guide/explorations.md:151): an owner whose context was transferred has no say left.
ManagersRule ==
    [][Alone => \A t \in Things :
          Exists(t) /\ (Owner(t)' # Owner(t) \/ Addressed(t)' # Addressed(t)) =>
              \E r \in Requests : Ends(r) /\ MayDecide(pending[r].by, t)]_vars

\* While requests do not overlap, the text of a template that is private is written by
\* its creator or a superuser only, and becomes shared only by one of them, who then may
\* write the context.
PrivateIsMine ==
    [][Alone => \A t \in Living(templates) :
          templates[t].visibility = "private" /\ templates'[t] \notin {templates[t], Gone} =>
              \E r \in Requests : Ends(r)
                  /\ pending[r].by \in {templates[t].owner} \cup Superusers
                  /\ \/ templates'[t].visibility = "private"
                     \/ MayDecide(pending[r].by, templates[t].context)
                     \/ WriteShared(pending[r].by, templates[t].context)]_vars

\* Access is changed by those who manage it, private text by those who own it.
OwnersDecide == ManagersRule /\ PrivateIsMine

\* Every exploration somebody can open is in the list of what they have access to
\* (the docstring of list_all_explorations, routers/explorations.py:283).  It is not: an
\* owner loses their own from the list with the share of the context, and who got in
\* by one exploration can open the others of its context and does not see them listed.
AllListed ==
    \A u \in People, e \in Living(explorations) :
        MayReadExploration(u, e) => ListsExploration(u, e)
===============================================================================
