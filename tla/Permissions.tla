------------------------------ MODULE Permissions ------------------------------
(***************************************************************************)
(* Groups, permission rules and the decision about a permission            *)
(* (api/graphlagoon/services/permissions.py, services/groups.py,           *)
(* routers/admin_groups.py, utils/authz.py).                               *)
(*                                                                         *)
(* A request of an administrator is admitted by what it reads and then     *)
(* commits; a check reads the modes, the rules and the groups one after    *)
(* the other, and may then wait for the workspace.  On PostgreSQL anything *)
(* may be committed in between; in the in-memory store only a check that   *)
(* waits for the workspace lets another request in.                        *)
(***************************************************************************)
EXTENDS Naturals, FiniteSets

CONSTANTS
    People, Superusers,
    Workspace,          \* the workspace group a permission group may have as a member
    Directory,          \* the people in it, as far as the workspace tells
    Groups, Names,
    Absent, Gone,       \* a group that is not there yet, and one that was deleted
    Catalog,            \* the permissions of permission_catalog.py
    Requests,
    Scenarios           \* what a run lets happen: the store, the operations, the permissions,
                        \* the names and members a group may be given, how many requests are under way
                        \* at once and how many configurations (Views) a check lives through

Members == People \cup {Workspace}
Modes == {"everyone", "restricted"}
Rules == [Groups -> {"none", "allow", "deny"}]

ASSUME PeopleAssumption ==
    Superusers \subseteq People /\ Directory \subseteq People /\ Workspace \notin People
ASSUME GroupAssumption == Absent # Gone /\ Absent \notin Groups /\ \A n \in Names, m \in SUBSET Members :
    [name |-> n, members |-> m] \notin {Absent, Gone}
ASSUME ScenarioAssumption == \A s \in Scenarios :
    /\ s.store \in {"database", "memory"} /\ s.atOnce \in Nat /\ s.ops \subseteq STRING
    /\ s.catalog \subseteq Catalog /\ s.members \subseteq Members /\ s.names \subseteq Names
    /\ s.views \in Nat

VARIABLES
    groups,   \* name and members of every group
    modes,    \* the mode of a permission, "unset" without a row
    rules,    \* per permission, what each group is ruled
    req,      \* where each request is, and what it has read
    seen,     \* history: what stood, about its question, while a check was under way
    scenario

tables == <<groups, modes, rules>>
vars == <<tables, req, seen, scenario>>

Idle == [pc |-> "idle"]
Group == [name : Names, members : SUBSET Members]
View == [mode : Modes, rules : Rules, named : SUBSET Groups, through : SUBSET Groups]
RequestStates ==
    {Idle}
    \cup [pc : {"create"}, name : Names, members : SUBSET Members]
    \cup [pc : {"update"}, group : Groups, was : Names, name : Names,
          members : SUBSET Members, drop : SUBSET Members]
    \cup [pc : {"delete"}, group : Groups]
    \cup [pc : {"set"}, perm : Catalog, was : Modes \cup {"unset"}, mode : Modes,
          rules : Rules, drop : SUBSET Groups]
    \cup [pc : {"modes"}, who : People, perm : Catalog, mode : Modes]
    \cup [pc : {"rules"}, who : People, perm : Catalog, mode : Modes, rules : Rules]
    \cup [pc : {"groups"}, who : People, perm : Catalog, mode : Modes, rules : Rules,
          named : SUBSET Groups, through : SUBSET Groups]
    \cup [pc : {"answered"}, who : People, perm : Catalog, allowed : BOOLEAN, resolved : BOOLEAN]

TypeOK ==
    /\ groups \in [Groups -> Group \cup {Absent, Gone}]
    /\ modes \in [Catalog -> Modes \cup {"unset"}]
    /\ rules \in [Catalog -> Rules]
    /\ req \in [Requests -> RequestStates]
    /\ seen \in [Requests -> SUBSET View]
    /\ scenario \in Scenarios

Unruled == [g \in Groups |-> "none"]

Init ==
    /\ groups = [g \in Groups |-> Absent]
    /\ modes = [p \in Catalog |-> "unset"]
    /\ rules = [p \in Catalog |-> Unruled]
    /\ req = [r \in Requests |-> Idle]
    /\ seen = [r \in Requests |-> {}]
    /\ scenario \in Scenarios

InMemory == scenario.store = "memory"
Living == {g \in Groups : groups[g] \notin {Absent, Gone}}

\* mutant: the mode of a permission that has no row is not supplied
ModeOfRow(p) == modes[p]

Mode(p) == IF modes[p] = "unset" THEN "everyone" ELSE modes[p]

-------------------------------------------------------------------------------
(* The decision.                                                             *)

\* mutant: an allow rule is looked for first
EvaluateAllowFirst(superuser, mode, ruled, memberOf) ==
    \/ superuser
    \/ \E g \in memberOf : ruled[g] = "allow"
    \/ mode = "everyone" /\ \A g \in memberOf : ruled[g] # "deny"

Evaluate(superuser, mode, ruled, memberOf) ==
    \/ superuser
    \/ /\ \A g \in memberOf : ruled[g] # "deny"
       /\ mode = "restricted" => \E g \in memberOf : ruled[g] = "allow"

Ruled(ruled) == {g \in Groups : ruled[g] # "none"}

\* the groups, among some, that name a person, and those that have the workspace group
NamedIn(u, among) == {g \in Living \cap among : u \in groups[g].members}
ThroughWorkspace(among) == {g \in Living \cap among : Workspace \in groups[g].members}

\* groups_for answers with what the workspace says, or with nothing when it never did
Resolved(u, through, answers) == IF answers /\ u \in Directory THEN through ELSE {}

\* user_member_group_ids
MemberOf(u, among, answers) ==
    NamedIn(u, among) \cup Resolved(u, ThroughWorkspace(among), answers)

\* check_permission, read at one moment
MayDo(u, p, answers) ==
    \/ Ruled(rules[p]) = {} /\ Mode(p) = "everyone"
    \/ Evaluate(u \in Superusers, Mode(p), rules[p], MemberOf(u, Ruled(rules[p]), answers))

\* mutant: only the groups somebody is allowed through are loaded
RuleGroupsAllowing == {g \in Groups : \E p \in Catalog : rules[p][g] = "allow"}

RuleGroups == UNION {Ruled(rules[p]) : p \in Catalog}

\* effective_permissions, what the page offers
EffectivePermissions(u, answers) ==
    IF u \in Superusers THEN Catalog ELSE
    {p \in Catalog : Evaluate(FALSE, Mode(p), rules[p], MemberOf(u, RuleGroups, answers))}

\* inspect_user, what the administrator is told, over every group there is
InspectUser(u, answers) ==
    {p \in Catalog :
        Evaluate(u \in Superusers, Mode(p), rules[p], MemberOf(u, Groups, answers))}

-------------------------------------------------------------------------------
(* The requests of an administrator.                                         *)

Suspended(r) == req[r].pc \in {"idle", "groups", "answered"}
MayRun(r) == InMemory => \A q \in Requests \ {r} : Suspended(q)

Starts(r, op, state) ==
    /\ op \in scenario.ops
    /\ req[r] = Idle /\ MayRun(r)
    /\ Cardinality({q \in Requests : req[q] # Idle}) < scenario.atOnce
    /\ req' = [req EXCEPT ![r] = state]

\* mutant: the name is taken as it is
NameTakenNever(name, but) == FALSE

NameTaken(name, but) == \E g \in Living \ {but} : groups[g].name = name

CreateGroup(r) ==
    \E name \in scenario.names, members \in SUBSET scenario.members :
        /\ ~NameTaken(name, Absent)
        /\ Starts(r, "create", [pc |-> "create", name |-> name, members |-> members])
        /\ UNCHANGED <<tables, seen, scenario>>

\* The rows of the members are deleted as they are seen now.  A name that changes is
\* written first and locks the row of the group; one that does not is not written.
UpdateGroup(r) ==
    \E g \in Living, name \in scenario.names, members \in SUBSET scenario.members :
        /\ ~NameTaken(name, g)
        /\ \A q \in Requests : req[q].pc = "update" /\ req[q].group = g => req[q].name = req[q].was
        /\ Starts(r, "update", [pc |-> "update", group |-> g, was |-> groups[g].name,
                                name |-> name, members |-> members, drop |-> groups[g].members])
        /\ UNCHANGED <<tables, seen, scenario>>

DeleteGroup(r) ==
    \E g \in Living :
        /\ Starts(r, "delete", [pc |-> "delete", group |-> g])
        /\ UNCHANGED <<tables, seen, scenario>>

\* set_permission: every group must exist; the mode is written, and its row locked, when it
\* changes; the rows of the rules are deleted as seen
SetPermission(r) ==
    \E p \in scenario.catalog, mode \in Modes, ruled \in Rules :
        /\ Ruled(ruled) \subseteq Living
        /\ \A q \in Requests : req[q].pc = "set" /\ req[q].perm = p =>
              req[q].was \in {"unset", req[q].mode}
        /\ Starts(r, "set", [pc |-> "set", perm |-> p, was |-> modes[p], mode |-> mode,
                             rules |-> ruled, drop |-> Ruled(rules[p])])
        /\ UNCHANGED <<tables, seen, scenario>>

-------------------------------------------------------------------------------
(* What an administrator asked for is committed.                             *)

Asking(r) == req[r].pc \in {"modes", "rules", "groups"}
Sight(u, p) == [mode |-> Mode(p), rules |-> rules[p],
                named |-> NamedIn(u, Groups), through |-> ThroughWorkspace(Groups)]

\* A commit ends its request, is seen by the checks under way, and takes from the
\* others the rows it has deleted: the members ms of group g, the rules gs of the
\* permissions ps.
Commits(r, g, ms, ps, gs) ==
    /\ MayRun(r)
    /\ req' = [q \in Requests |->
          IF q = r THEN Idle
          ELSE IF req[q].pc = "update" /\ req[q].group = g
               THEN [req[q] EXCEPT !.drop = @ \ ms]
          ELSE IF req[q].pc = "set" /\ req[q].perm \in ps
               THEN [req[q] EXCEPT !.drop = @ \ gs]
          ELSE req[q]]
    /\ seen' = [q \in Requests |->
          IF Asking(q) THEN seen[q] \cup {Sight(req[q].who, req[q].perm)'} ELSE seen[q]]
    /\ \A q \in Requests : Cardinality(seen'[q]) <= scenario.views
    /\ UNCHANGED scenario

\* groups.name is unique in the database
CommitCreate(r) ==
    /\ req[r].pc = "create"
    /\ ~InMemory => ~NameTaken(req[r].name, Absent)
    /\ \E g \in Groups :
          /\ groups[g] = Absent
          /\ groups' = [groups EXCEPT ![g] =
                 [name |-> req[r].name, members |-> req[r].members]]
          /\ UNCHANGED <<modes, rules>>
          /\ Commits(r, g, {}, {}, {})

\* a member row another request has inserted meanwhile stays, unless it is inserted twice
CommitUpdate(r) ==
    LET p == req[r]
        name == IF p.name = p.was THEN groups[p.group].name ELSE p.name
    IN  /\ p.pc = "update"
        /\ p.group \in Living
        /\ ~InMemory => ~NameTaken(name, p.group)
        /\ (groups[p.group].members \ p.drop) \cap p.members = {}
        /\ groups' = [groups EXCEPT ![p.group] =
               [name |-> name, members |-> (@.members \ p.drop) \cup p.members]]
        /\ UNCHANGED <<modes, rules>>
        /\ Commits(r, p.group, p.drop, {}, {})

\* mutant: the rules stay behind
UnruledNot(ruled, g) == ruled

\* ON DELETE CASCADE, mirrored by the in-memory store
UnruledFor(ruled, g) == [ruled EXCEPT ![g] = "none"]

CommitDelete(r) ==
    LET g == req[r].group IN
    /\ req[r].pc = "delete"
    /\ groups' = [groups EXCEPT ![g] = Gone]
    /\ rules' = [p \in Catalog |-> UnruledFor(rules[p], g)]
    /\ UNCHANGED modes
    /\ Commits(r, g, Members, Catalog, {g})

\* mutant: without the foreign key of the rules
ReferencesKept(ruled) == TRUE

References(ruled) == Ruled(ruled) \subseteq Living

CommitPermission(r) ==
    LET s == req[r] IN
    /\ s.pc = "set"
    /\ References(s.rules)
    /\ s.was = "unset" => modes[s.perm] = "unset"
    /\ (Ruled(rules[s.perm]) \ s.drop) \cap Ruled(s.rules) = {}
    /\ modes' = [modes EXCEPT ![s.perm] = IF s.mode = s.was THEN @ ELSE s.mode]
    /\ rules' = [rules EXCEPT ![s.perm] = [g \in Groups |->
           IF s.rules[g] # "none" THEN s.rules[g]
           ELSE IF g \in s.drop THEN "none" ELSE @[g]]]
    /\ UNCHANGED groups
    /\ Commits(r, Absent, {}, {s.perm}, s.drop)

\* a constraint of the database, or anything else, ends the transaction
Rollback(r) ==
    /\ ~InMemory
    /\ req[r].pc \in {"create", "update", "delete", "set"}
    /\ req' = [req EXCEPT ![r] = Idle]
    /\ UNCHANGED <<tables, seen, scenario>>

-------------------------------------------------------------------------------
(* A permission is asked for.                                                *)

Answers(r, allowed, resolved) ==
    req' = [req EXCEPT ![r] = [pc |-> "answered", who |-> req[r].who, perm |-> req[r].perm,
                               allowed |-> allowed, resolved |-> resolved]]

\* require_permission; the first SELECT of load_permission_state
CheckPermission(r) ==
    \E u \in People \ Superusers, p \in scenario.catalog :
        /\ Starts(r, "check", [pc |-> "modes", who |-> u, perm |-> p, mode |-> Mode(p)])
        /\ seen' = [seen EXCEPT ![r] = {Sight(u, p)}]
        /\ UNCHANGED <<tables, scenario>>

\* the second SELECT; nothing more is read when nothing is ruled
LoadRules(r) ==
    LET q == req[r] IN
    /\ q.pc = "modes" /\ MayRun(r)
    /\ IF Ruled(rules[q.perm]) = {} /\ q.mode = "everyone"
          THEN Answers(r, TRUE, TRUE)
          ELSE req' = [req EXCEPT ![r] =
                   [pc |-> "rules", who |-> q.who, perm |-> q.perm, mode |-> q.mode,
                    rules |-> rules[q.perm]]]
    /\ UNCHANGED <<tables, seen, scenario>>

\* list_groups; the workspace is asked only when a group of the rules needs it
LoadGroups(r) ==
    LET q == req[r]
        named == NamedIn(q.who, Ruled(q.rules))
        through == ThroughWorkspace(Ruled(q.rules))
    IN  /\ q.pc = "rules" /\ MayRun(r)
        /\ IF through = {}
              THEN Answers(r, Evaluate(FALSE, q.mode, q.rules, named), TRUE)
              ELSE req' = [req EXCEPT ![r] =
                       [pc |-> "groups", who |-> q.who, perm |-> q.perm, mode |-> q.mode,
                        rules |-> q.rules, named |-> named, through |-> through]]
        /\ UNCHANGED <<tables, seen, scenario>>

\* the resolver answers, from the workspace, its cache, or with nothing
GroupsFor(r) ==
    LET q == req[r] IN
    /\ q.pc = "groups" /\ MayRun(r)
    /\ \E answers \in BOOLEAN :
          Answers(r, Evaluate(FALSE, q.mode, q.rules,
                              q.named \cup Resolved(q.who, q.through, answers)), answers)
    /\ UNCHANGED <<tables, seen, scenario>>

\* the handler goes on, or answers 403
Leaves(r) ==
    /\ req[r].pc = "answered"
    /\ req' = [req EXCEPT ![r] = Idle]
    /\ seen' = [seen EXCEPT ![r] = {}]
    /\ UNCHANGED <<tables, scenario>>

Next ==
    \E r \in Requests :
        \/ CreateGroup(r) \/ UpdateGroup(r) \/ DeleteGroup(r) \/ SetPermission(r)
        \/ CommitCreate(r) \/ CommitUpdate(r) \/ CommitDelete(r) \/ CommitPermission(r)
        \/ Rollback(r)
        \/ CheckPermission(r) \/ LoadRules(r) \/ LoadGroups(r) \/ GroupsFor(r) \/ Leaves(r)

Spec == Init /\ [][Next]_vars

-------------------------------------------------------------------------------
(* Properties.                                                               *)

\* However the requests of administrators overlap, a rule is about a group that is there,
\* and no two groups have one name (the constraints of db/models.py and what
\* services/groups.py repeats of them for the in-memory store).
RulesStand ==
    /\ \A p \in Catalog : Ruled(rules[p]) \subseteq Living
    /\ \A g, h \in Living : groups[g].name = groups[h].name => g = h

\* The gate, the page and the inspector give one answer, whether the workspace can be
\* asked or not, although each loads the groups of its own choice: what the page offers
\* is what the gate lets through, and what the administrator is told.
SurfacesAgree ==
    \A u \in People, answers \in BOOLEAN :
        /\ EffectivePermissions(u, answers) = {p \in Catalog : MayDo(u, p, answers)}
        /\ InspectUser(u, answers) = EffectivePermissions(u, answers)

\* What administrators have configured is whole, and every surface reads it alike.
ConfigurationStands == RulesStand /\ SurfacesAgree

InGroups(r, v) == v.named \cup Resolved(req[r].who, v.through, req[r].resolved)
Allows(r, v) == Evaluate(FALSE, v.mode, v.rules, InGroups(r, v))

\* Who is let through while the rules change under the check: nobody whom one group
\* denied from the first moment to the last ("deny always wins", whatever the workspace
\* answers when the group names them), and nobody outside of every group that was allowed
\* while the permission was restricted all along.  In the in-memory store, whose check
\* reads everything at once, the answer is that of one moment.
Justified ==
    \A r \in Requests : req[r].pc = "answered" =>
        /\ req[r].allowed =>
              /\ ~\E g \in Groups : \A v \in seen[r] : v.rules[g] = "deny" /\ g \in v.named
              /\ \/ \E v \in seen[r] : v.mode = "everyone"
                 \/ \E g \in Groups : (\E v \in seen[r] : v.rules[g] = "allow")
                                          /\ \E v \in seen[r] : g \in InGroups(r, v)
        /\ InMemory => \E v \in seen[r] : req[r].allowed = Allows(r, v)

\* The answer of a check is one that some moment of it gives.  On PostgreSQL it is not:
\* the mode is read before a change and the rules after it, and somebody neither the old
\* nor the new configuration lets through is let through.
OneConfiguration ==
    \A r \in Requests : req[r].pc = "answered" /\ req[r].allowed =>
        \E v \in seen[r] : Allows(r, v)

\* "Full replacement" (services/groups.py:347): what stands after a change is what the
\* change asked for.  Two that overlap leave the rules of both, or the mode of one and the
\* rules of the other.
Replaces ==
    [][\A r \in Requests : req[r].pc = "set" /\ tables' # tables /\ req'[r] = Idle =>
          modes'[req[r].perm] = req[r].mode /\ rules'[req[r].perm] = req[r].rules]_vars

================================================================================
