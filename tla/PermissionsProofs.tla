--------------------------- MODULE PermissionsProofs ---------------------------
(****************************************************************************)
(* Proofs about Permissions, for any people, groups and permissions, any    *)
(* number of requests and either store: rules are about groups there are,   *)
(* every surface gives one answer, and nobody is let through whom what      *)
(* stood while they were checked does not justify.                          *)
(*                                                                          *)
(* RulesStand is not inductive: in memory no constraint of a database       *)
(* refuses a second name, so what a request was admitted by must still      *)
(* hold when it commits (NamesFree), and does because no other request      *)
(* runs in between (Serial).  Justified speaks of checks that have          *)
(* answered; Informed says of one under way that everything it has read     *)
(* stood at some moment of it, and AtOnce that in memory it was one moment. *)
(****************************************************************************)
EXTENDS Permissions, TLAPS

\* In memory one request at a time is not at an await.
Serial ==
    InMemory => \A q, r \in Requests : q # r => Suspended(q) \/ Suspended(r)

\* In memory the name a request was admitted with is still free.
NamesFree ==
    InMemory => \A r \in Requests :
        /\ req[r].pc = "create" => ~NameTaken(req[r].name, Absent)
        /\ req[r].pc = "update" => ~NameTaken(req[r].name, req[r].group)

\* What a check has loaded of the groups is what a moment showed, of those that are ruled.
Shows(v, q) ==
    /\ q.named = v.named \cap Ruled(q.rules)
    /\ q.through = v.through \cap Ruled(q.rules)

\* A check under way has seen this moment, and all that it has read.
Informed ==
    \A r \in Requests : Asking(r) =>
        /\ Sight(req[r].who, req[r].perm) \in seen[r]
        /\ \E v \in seen[r] : v.mode = req[r].mode
        /\ req[r].pc # "modes" => \E v \in seen[r] : v.rules = req[r].rules
        /\ req[r].pc = "groups" => \E v \in seen[r] : Shows(v, req[r])

\* In memory it was one moment, and until the check awaits that moment lasts.
AtOnce ==
    InMemory => \A r \in Requests :
        /\ req[r].pc \in {"modes", "rules"} => req[r].mode = Mode(req[r].perm)
        /\ req[r].pc = "rules" => req[r].rules = rules[req[r].perm]
        /\ req[r].pc = "groups" =>
              \E v \in seen[r] :
                  v.mode = req[r].mode /\ v.rules = req[r].rules /\ Shows(v, req[r])

IInv == TypeOK /\ Serial /\ NamesFree /\ RulesStand /\ Informed /\ AtOnce /\ Justified


-------------------------------------------------------------------------------
(* Types. *)

(* The store, the requests under way and what they saw have their types at first. *)
LEMMA InitTypes == Init => TypeOK
BY DEF Init, TypeOK, RequestStates, Idle, Unruled, Rules

(* What is to be seen of a permission is a view of it (Sight reads the three tables). *)
LEMMA SightTypes ==
    ASSUME modes \in [Catalog -> Modes \cup {"unset"}], rules \in [Catalog -> Rules],
           NEW u, NEW p \in Catalog
    PROVE  Sight(u, p) \in View
BY DEF Sight, View, Mode, Modes, NamedIn, ThroughWorkspace, Living

(* A request under way keeps its type when rows it would delete have gone. *)
LEMMA DropTypes ==
    ASSUME NEW q \in RequestStates, NEW some
    PROVE  /\ q.pc = "update" => [q EXCEPT !.drop = @ \ some] \in RequestStates
           /\ q.pc = "set" => [q EXCEPT !.drop = @ \ some] \in RequestStates
<1>1. ASSUME q.pc = "update" PROVE [q EXCEPT !.drop = @ \ some] \in RequestStates
  BY <1>1 DEF RequestStates, Idle
<1>2. ASSUME q.pc = "set" PROVE [q EXCEPT !.drop = @ \ some] \in RequestStates
  BY <1>2 DEF RequestStates, Idle
<1>3. QED
  BY <1>1, <1>2

(* The check of a person asks about a permission of the catalogue. *)
LEMMA AskingTypes ==
    ASSUME TypeOK, NEW q \in Requests, Asking(q)
    PROVE  req[q].who \in People /\ req[q].perm \in Catalog /\ req[q].mode \in Modes
BY DEF TypeOK, Asking, RequestStates, Idle

(* A commit that leaves tables of their types leaves everything of its type. *)
LEMMA CommitTypes ==
    ASSUME TypeOK, NEW r \in Requests, ~Asking(r),
           NEW g, NEW ms, NEW ps, NEW gs, Commits(r, g, ms, ps, gs),
           groups' \in [Groups -> Group \cup {Absent, Gone}],
           modes' \in [Catalog -> Modes \cup {"unset"}], rules' \in [Catalog -> Rules]
    PROVE  TypeOK'
<1>1. req' \in [Requests -> RequestStates]
  <2>1. Idle \in RequestStates
    BY DEF RequestStates
  <2>2. \A q \in Requests : req[q] \in RequestStates
    BY DEF TypeOK
  <2>3. QED
    BY <2>1, <2>2, DropTypes DEF Commits
<1>2. seen' \in [Requests -> SUBSET View]
  <2>1. ASSUME NEW q \in Requests, Asking(q)
        PROVE  Sight(req[q].who, req[q].perm)' \in View
    <3>1. req'[q].perm \in Catalog
      BY <2>1, AskingTypes DEF Commits, Asking, TypeOK, Idle
    <3>2. QED
      BY <3>1 DEF Sight, View, Mode, Modes, NamedIn, ThroughWorkspace, Living
  <2>2. \A q \in Requests : seen[q] \in SUBSET View
    BY DEF TypeOK
  <2>3. QED
    BY <2>1, <2>2 DEF Commits
<1>3. QED
  BY <1>1, <1>2 DEF TypeOK, Commits

(* What is asked for is written, and nothing else of a request (the four requests of *)
(* an administrator and the check of a person begin with it).                         *)
LEMMA StartTypes ==
    ASSUME TypeOK, NEW r \in Requests, NEW op, NEW state \in RequestStates, Starts(r, op, state)
    PROVE  req' \in [Requests -> RequestStates]
BY DEF TypeOK, Starts

LEMMA AdminTypes ==
    ASSUME TypeOK, NEW r \in Requests,
           CreateGroup(r) \/ UpdateGroup(r) \/ DeleteGroup(r) \/ SetPermission(r) \/ Rollback(r)
    PROVE  TypeOK'
<1>1. scenario.names \subseteq Names /\ scenario.members \subseteq Members
      /\ scenario.catalog \subseteq Catalog
  BY ScenarioAssumption DEF TypeOK
<1>2. CASE CreateGroup(r)
  BY <1>1, <1>2, StartTypes DEF CreateGroup, TypeOK, RequestStates, tables
<1>3. CASE UpdateGroup(r)
  <2>1. \A g \in Living : groups[g].name \in Names /\ groups[g].members \in SUBSET Members
    BY DEF TypeOK, Living, Group
  <2>2. QED
    BY <1>1, <1>3, <2>1, StartTypes DEF UpdateGroup, TypeOK, RequestStates, tables, Living
<1>4. CASE DeleteGroup(r)
  BY <1>4, StartTypes DEF DeleteGroup, TypeOK, RequestStates, tables, Living
<1>5. CASE SetPermission(r)
  <2>1. \A p \in Catalog : Ruled(rules[p]) \in SUBSET Groups /\ modes[p] \in Modes \cup {"unset"}
    BY DEF TypeOK, Ruled
  <2>2. QED
    BY <1>1, <1>5, <2>1, StartTypes DEF SetPermission, TypeOK, RequestStates, tables
<1>6. CASE Rollback(r)
  BY <1>6 DEF Rollback, TypeOK, RequestStates, tables
<1>7. QED
  BY <1>2, <1>3, <1>4, <1>5, <1>6

(* A commit leaves groups that are groups and rules that are rules. *)
LEMMA TableTypes ==
    ASSUME TypeOK, NEW r \in Requests,
           CommitCreate(r) \/ CommitUpdate(r) \/ CommitDelete(r) \/ CommitPermission(r)
    PROVE  TypeOK'
<1>0. /\ groups \in [Groups -> Group \cup {Absent, Gone}]
      /\ modes \in [Catalog -> Modes \cup {"unset"}]
      /\ rules \in [Catalog -> Rules]
      /\ req[r] \in RequestStates
  BY DEF TypeOK
<1>1. CASE CommitCreate(r)
  <2>1. req[r].name \in Names /\ req[r].members \in SUBSET Members
    BY <1>0, <1>1 DEF CommitCreate, RequestStates, Idle
  <2>2. groups' \in [Groups -> Group \cup {Absent, Gone}]
    BY <1>0, <1>1, <2>1 DEF CommitCreate, Group
  <2>3. PICK g \in Groups : Commits(r, g, {}, {}, {}) /\ UNCHANGED <<modes, rules>>
    BY <1>1 DEF CommitCreate
  <2>4. ~Asking(r)
    BY <1>1 DEF CommitCreate, Asking
  <2>5. QED
    BY <1>0, <2>2, <2>3, <2>4, CommitTypes
<1>2. CASE CommitUpdate(r)
  <2>1. req[r].group \in Groups /\ req[r].name \in Names /\ req[r].members \in SUBSET Members
    BY <1>0, <1>2 DEF CommitUpdate, RequestStates, Idle
  <2>2. groups[req[r].group] \in Group
    BY <1>0, <1>2, <2>1 DEF CommitUpdate, Living
  <2>3. groups' \in [Groups -> Group \cup {Absent, Gone}]
    BY <1>0, <1>2, <2>1, <2>2 DEF CommitUpdate, Group
  <2>4. Commits(r, req[r].group, req[r].drop, {}, {}) /\ UNCHANGED <<modes, rules>>
    BY <1>2 DEF CommitUpdate
  <2>5. ~Asking(r)
    BY <1>2 DEF CommitUpdate, Asking
  <2>6. QED
    BY <1>0, <2>3, <2>4, <2>5, CommitTypes
<1>3. CASE CommitDelete(r)
  <2>1. groups' \in [Groups -> Group \cup {Absent, Gone}] /\ rules' \in [Catalog -> Rules]
    BY <1>0, <1>3 DEF CommitDelete, UnruledFor, Rules
  <2>2. Commits(r, req[r].group, Members, Catalog, {req[r].group}) /\ UNCHANGED modes
    BY <1>3 DEF CommitDelete
  <2>3. ~Asking(r)
    BY <1>3 DEF CommitDelete, Asking
  <2>4. QED
    BY <1>0, <2>1, <2>2, <2>3, CommitTypes
<1>4. CASE CommitPermission(r)
  <2>1. /\ req[r].perm \in Catalog /\ req[r].mode \in Modes /\ req[r].rules \in Rules
    BY <1>0, <1>4 DEF CommitPermission, RequestStates, Idle
  <2>2. modes' \in [Catalog -> Modes \cup {"unset"}] /\ rules' \in [Catalog -> Rules]
    BY <1>0, <1>4, <2>1 DEF CommitPermission, Rules
  <2>3. Commits(r, Absent, {}, {req[r].perm}, req[r].drop) /\ UNCHANGED groups
    BY <1>4 DEF CommitPermission
  <2>4. ~Asking(r)
    BY <1>4 DEF CommitPermission, Asking
  <2>5. QED
    BY <1>0, <2>2, <2>3, <2>4, CommitTypes
<1>5. QED
  BY <1>1, <1>2, <1>3, <1>4

(* A check loads modes, rules and groups, and answers. *)
LEMMA CheckTypes ==
    ASSUME TypeOK, NEW r \in Requests,
           CheckPermission(r) \/ LoadRules(r) \/ LoadGroups(r) \/ GroupsFor(r) \/ Leaves(r)
    PROVE  TypeOK'
<1>0. req[r] \in RequestStates /\ \A p \in Catalog : Mode(p) \in Modes /\ rules[p] \in Rules
  BY DEF TypeOK, Mode, Modes
<1>1. CASE CheckPermission(r)
  <2>1. scenario.catalog \subseteq Catalog
    BY ScenarioAssumption DEF TypeOK
  <2>2. PICK u \in People, p \in Catalog :
           /\ Starts(r, "check", [pc |-> "modes", who |-> u, perm |-> p, mode |-> Mode(p)])
           /\ seen' = [seen EXCEPT ![r] = {Sight(u, p)}]
           /\ UNCHANGED <<tables, scenario>>
    BY <1>1, <2>1 DEF CheckPermission
  <2>3. Sight(u, p) \in View
    BY SightTypes DEF TypeOK
  <2>4. [pc |-> "modes", who |-> u, perm |-> p, mode |-> Mode(p)] \in RequestStates
    BY <1>0 DEF RequestStates
  <2>5. req' \in [Requests -> RequestStates]
    BY <2>2, <2>4, StartTypes
  <2>6. QED
    BY <2>2, <2>3, <2>5 DEF TypeOK, tables
<1>a. ASSUME NEW allowed \in BOOLEAN, NEW resolved \in BOOLEAN, Answers(r, allowed, resolved),
             Asking(r)
      PROVE  req' \in [Requests -> RequestStates]
  BY <1>0, <1>a, AskingTypes DEF Answers, TypeOK, RequestStates
<1>b. ASSUME NEW state \in RequestStates, req' = [req EXCEPT ![r] = state],
             UNCHANGED <<tables, seen, scenario>>
      PROVE  TypeOK'
  BY <1>b DEF TypeOK, tables
<1>e. \A mode, ruled, memberOf : Evaluate(FALSE, mode, ruled, memberOf) \in BOOLEAN
  BY DEF Evaluate
<1>2. CASE LoadRules(r)
  <2>1. Asking(r)
    BY <1>2 DEF LoadRules, Asking
  <2>2. CASE Answers(r, TRUE, TRUE)
    BY <1>2, <1>a, <2>1, <2>2 DEF LoadRules, TypeOK, tables
  <2>3. [pc |-> "rules", who |-> req[r].who, perm |-> req[r].perm, mode |-> req[r].mode,
         rules |-> rules[req[r].perm]] \in RequestStates
    BY <1>0, <2>1, AskingTypes DEF RequestStates
  <2>4. QED
    BY <1>2, <1>b, <2>2, <2>3 DEF LoadRules
<1>3. CASE LoadGroups(r)
  <2>1. Asking(r)
    BY <1>3 DEF LoadGroups, Asking
  <2>2. CASE ThroughWorkspace(Ruled(req[r].rules)) = {}
    BY <1>3, <1>a, <1>e, <2>1, <2>2 DEF LoadGroups, TypeOK, tables
  <2>3. CASE ThroughWorkspace(Ruled(req[r].rules)) # {}
    <3>1. req[r].rules \in Rules
      BY <1>0, <1>3 DEF LoadGroups, RequestStates, Idle
    <3>2. \A u, among : NamedIn(u, among) \in SUBSET Groups /\ ThroughWorkspace(among) \in SUBSET Groups
      BY DEF NamedIn, ThroughWorkspace, Living
    <3>3. [pc |-> "groups", who |-> req[r].who, perm |-> req[r].perm, mode |-> req[r].mode,
           rules |-> req[r].rules, named |-> NamedIn(req[r].who, Ruled(req[r].rules)),
           through |-> ThroughWorkspace(Ruled(req[r].rules))] \in RequestStates
      BY <2>1, <3>1, <3>2, AskingTypes DEF RequestStates
    <3>4. QED
      BY <1>3, <1>b, <2>3, <3>3 DEF LoadGroups
  <2>4. QED
    BY <2>2, <2>3
<1>4. CASE GroupsFor(r)
  <2>1. Asking(r)
    BY <1>4 DEF GroupsFor, Asking
  <2>2. QED
    BY <1>4, <1>a, <1>e, <2>1 DEF GroupsFor, TypeOK, tables
<1>5. CASE Leaves(r)
  BY <1>5 DEF Leaves, TypeOK, RequestStates, tables
<1>6. QED
  BY <1>1, <1>2, <1>3, <1>4, <1>5

LEMMA StepTypes == TypeOK /\ [Next]_vars => TypeOK'
<1> SUFFICES ASSUME TypeOK, [Next]_vars PROVE TypeOK'
  OBVIOUS
<1>1. CASE UNCHANGED vars
  BY <1>1 DEF TypeOK, vars, tables
<1>2. CASE Next
  BY <1>2, AdminTypes, TableTypes, CheckTypes DEF Next
<1>3. QED
  BY <1>1, <1>2

(* Whatever overlaps, the tables, the requests and the history keep their types. *)
THEOREM TypeCorrect == Spec => []TypeOK
<1>1. Init => TypeOK
  BY InitTypes
<1>2. TypeOK /\ [Next]_vars => TypeOK'
  BY StepTypes
<1>3. QED
  BY <1>1, <1>2, PTL DEF Spec

-------------------------------------------------------------------------------
(* The forms of a step. *)

Admits(r) == CreateGroup(r) \/ UpdateGroup(r) \/ DeleteGroup(r) \/ SetPermission(r)
Writes(r) == CommitCreate(r) \/ CommitUpdate(r) \/ CommitDelete(r) \/ CommitPermission(r)
Checks(r) == CheckPermission(r) \/ LoadRules(r) \/ LoadGroups(r) \/ GroupsFor(r) \/ Leaves(r)

(* A step that does not commit leaves the tables, and what the others read and saw. *)
LEMMA ReadsOnly ==
    ASSUME TypeOK, NEW r \in Requests, Admits(r) \/ Rollback(r) \/ Checks(r)
    PROVE  /\ UNCHANGED <<groups, modes, rules, scenario>>
           /\ \A q \in Requests : q # r => req'[q] = req[q] /\ seen'[q] = seen[q]
<1>1. CASE Admits(r)
  BY <1>1
  DEF Admits, CreateGroup, UpdateGroup, DeleteGroup, SetPermission, Starts, tables, TypeOK
<1>2. CASE Rollback(r)
  BY <1>2 DEF Rollback, tables, TypeOK
<1>3. CASE Checks(r)
  BY <1>3
  DEF Checks, CheckPermission, LoadRules, LoadGroups, GroupsFor, Leaves, Starts, Answers, tables,
      TypeOK
<1>4. QED
  BY <1>1, <1>2, <1>3

(* A commit ends its request, shows checks under way the new tables, and leaves others *)
(* where they are.                                                                      *)
LEMMA CommitsOnce ==
    ASSUME TypeOK, NEW r \in Requests, Writes(r)
    PROVE  /\ MayRun(r) /\ UNCHANGED scenario
           /\ req[r].pc \in {"create", "update", "delete", "set"} /\ req'[r] = Idle
           /\ \A q \in Requests : q # r =>
                 /\ req'[q].pc = req[q].pc
                 /\ req[q].pc \notin {"update", "set"} => req'[q] = req[q]
                 /\ seen'[q] = IF Asking(q)
                               THEN seen[q] \cup {Sight(req[q].who, req[q].perm)'} ELSE seen[q]
<1>1. PICK g, ms, ps, gs : Commits(r, g, ms, ps, gs)
  BY DEF Writes, CommitCreate, CommitUpdate, CommitDelete, CommitPermission
<1>2. req[r].pc \in {"create", "update", "delete", "set"}
  BY DEF Writes, CommitCreate, CommitUpdate, CommitDelete, CommitPermission
<1>3. ASSUME NEW q \in Requests, NEW some
      PROVE  /\ req[q].pc = "update" => [req[q] EXCEPT !.drop = @ \ some].pc = "update"
             /\ req[q].pc = "set" => [req[q] EXCEPT !.drop = @ \ some].pc = "set"
  <2>1. req[q] \in RequestStates
    BY DEF TypeOK
  <2>2. ASSUME req[q].pc = "update" PROVE [req[q] EXCEPT !.drop = @ \ some].pc = "update"
    BY <2>1, <2>2 DEF RequestStates, Idle
  <2>3. ASSUME req[q].pc = "set" PROVE [req[q] EXCEPT !.drop = @ \ some].pc = "set"
    BY <2>1, <2>3 DEF RequestStates, Idle
  <2>4. QED
    BY <2>2, <2>3
<1>4. QED
  BY <1>1, <1>2, <1>3 DEF Commits

(* Where a request is after its own step. *)
LEMMA NextPlaces ==
    ASSUME TypeOK, NEW r \in Requests
    PROVE  /\ CreateGroup(r) => req'[r].pc = "create"
           /\ UpdateGroup(r) => req'[r].pc = "update"
           /\ DeleteGroup(r) => req'[r].pc = "delete"
           /\ SetPermission(r) => req'[r].pc = "set"
           /\ CheckPermission(r) => req'[r].pc = "modes"
           /\ LoadRules(r) => req'[r].pc \in {"rules", "answered"}
           /\ LoadGroups(r) => req'[r].pc \in {"groups", "answered"}
           /\ GroupsFor(r) => req'[r].pc = "answered"
           /\ Rollback(r) \/ Leaves(r) => req'[r] = Idle
<1>0. DOMAIN req = Requests
  BY DEF TypeOK
<1>1. \A op, state : Starts(r, op, state) => req'[r] = state
  BY <1>0 DEF Starts
<1>2. \A allowed, resolved : Answers(r, allowed, resolved) => req'[r].pc = "answered"
  BY <1>0 DEF Answers
<1>a. CreateGroup(r) => req'[r].pc = "create"
  BY <1>1 DEF CreateGroup
<1>u. UpdateGroup(r) => req'[r].pc = "update"
  BY <1>1 DEF UpdateGroup
<1>3. DeleteGroup(r) => req'[r].pc = "delete"
  BY <1>1 DEF DeleteGroup
<1>4. SetPermission(r) => req'[r].pc = "set"
  BY <1>1 DEF SetPermission
<1>5. CheckPermission(r) => req'[r].pc = "modes"
  BY <1>1 DEF CheckPermission
<1>6. LoadRules(r) => req'[r].pc \in {"rules", "answered"}
  BY <1>0 DEF LoadRules, Answers
<1>7. LoadGroups(r) => req'[r].pc \in {"groups", "answered"}
  <2>1. CASE ThroughWorkspace(Ruled(req[r].rules)) = {}
    BY <1>2, <2>1 DEF LoadGroups
  <2>2. ASSUME LoadGroups(r), ThroughWorkspace(Ruled(req[r].rules)) # {}
        PROVE  req'[r].pc = "groups"
    <3>1. req' = [req EXCEPT ![r] =
                     [pc |-> "groups", who |-> req[r].who, perm |-> req[r].perm,
                      mode |-> req[r].mode, rules |-> req[r].rules,
                      named |-> NamedIn(req[r].who, Ruled(req[r].rules)),
                      through |-> ThroughWorkspace(Ruled(req[r].rules))]]
      BY <2>2 DEF LoadGroups
    <3>2. QED
      BY <1>0, <3>1
  <2>3. QED
    BY <2>1, <2>2
<1>8. GroupsFor(r) => req'[r].pc = "answered"
  BY <1>2 DEF GroupsFor
<1>9. Rollback(r) \/ Leaves(r) => req'[r] = Idle
  BY <1>0 DEF Rollback, Leaves
<1>10. QED
  BY <1>a, <1>u, <1>3, <1>4, <1>5, <1>6, <1>7, <1>8, <1>9

-------------------------------------------------------------------------------
(* One request at a time in memory. *)

LEMMA SerialKept == TypeOK /\ Serial /\ [Next]_vars => Serial'
<1> SUFFICES ASSUME TypeOK, Serial, [Next]_vars PROVE Serial'
  OBVIOUS
<1>1. CASE UNCHANGED vars
  BY <1>1 DEF Serial, vars, InMemory, Suspended
<1>2. ASSUME NEW r \in Requests, Admits(r) \/ Rollback(r) \/ Checks(r) PROVE Serial'
  <2>1. InMemory => MayRun(r) \/ req'[r] = Idle
    BY <1>2 DEF Admits, CreateGroup, UpdateGroup, DeleteGroup, SetPermission, Starts, Rollback,
        Checks, CheckPermission, LoadRules, LoadGroups, GroupsFor, Leaves, TypeOK
  <2>2. UNCHANGED scenario /\ \A q \in Requests : q # r => req'[q] = req[q]
    BY <1>2, ReadsOnly
  <2>3. QED
    BY <2>1, <2>2 DEF Serial, InMemory, Suspended, MayRun, Idle
<1>3. ASSUME NEW r \in Requests, Writes(r) PROVE Serial'
  BY <1>3, CommitsOnce DEF Serial, InMemory, Suspended, Idle
<1>4. QED
  BY <1>1, <1>2, <1>3 DEF Next, Admits, Writes, Checks

(* Nobody takes the name a request in memory was admitted with. *)
LEMMA NamesFreeKept == TypeOK /\ Serial /\ NamesFree /\ [Next]_vars => NamesFree'
<1> SUFFICES ASSUME TypeOK, Serial, NamesFree, [Next]_vars PROVE NamesFree'
  OBVIOUS
<1>1. CASE UNCHANGED vars
  BY <1>1 DEF NamesFree, vars, tables, InMemory, NameTaken, Living
<1>2. ASSUME NEW r \in Requests, Admits(r) \/ Rollback(r) \/ Checks(r) PROVE NamesFree'
  <2>1. /\ UNCHANGED <<groups, scenario>>
        /\ \A q \in Requests : q # r => req'[q] = req[q]
    BY <1>2, ReadsOnly
  <2>2. /\ req'[r].pc = "create" => ~NameTaken(req'[r].name, Absent)
        /\ req'[r].pc = "update" => ~NameTaken(req'[r].name, req'[r].group)
    <3>1. CASE CreateGroup(r)
      BY <3>1 DEF CreateGroup, Starts, TypeOK
    <3>2. CASE UpdateGroup(r)
      BY <3>2 DEF UpdateGroup, Starts, TypeOK
    <3>3. CASE DeleteGroup(r) \/ SetPermission(r) \/ Rollback(r) \/ Checks(r)
      <4>1. req'[r].pc \notin {"create", "update"}
        BY <3>3, NextPlaces DEF Checks, Idle
      <4>2. QED
        BY <4>1
    <3>4. QED
      BY <1>2, <3>1, <3>2, <3>3 DEF Admits
  <2>3. QED
    BY <2>1, <2>2 DEF NamesFree, InMemory, NameTaken, Living
<1>3. ASSUME NEW r \in Requests, Writes(r) PROVE NamesFree'
  <2>1. ASSUME InMemory', NEW q \in Requests PROVE req'[q].pc \notin {"create", "update"}
    <3>1. MayRun(r) /\ req'[r] = Idle /\ scenario' = scenario
      BY <1>3, CommitsOnce
    <3>2. q # r => req'[q].pc = req[q].pc
      BY <1>3, CommitsOnce
    <3>3. QED
      BY <2>1, <3>1, <3>2 DEF InMemory, MayRun, Suspended, Idle
  <2>2. QED
    BY <2>1 DEF NamesFree
<1>4. QED
  BY <1>1, <1>2, <1>3 DEF Next, Admits, Writes, Checks

-------------------------------------------------------------------------------
(* What administrators have configured. *)

(* A name and members are a group that is there (GroupAssumption). *)
LEMMA GroupsLive ==
    ASSUME TypeOK
    PROVE  /\ Group \cap {Absent, Gone} = {}
           /\ \A g \in Groups : g \in Living <=> groups[g] \in Group
BY GroupAssumption DEF TypeOK, Group, Living

(* Each commit leaves rules about groups there are, and one group of a name. *)
LEMMA RulesStandKept == TypeOK /\ NamesFree /\ RulesStand /\ [Next]_vars => RulesStand'
<1> SUFFICES ASSUME TypeOK, NamesFree, RulesStand, [Next]_vars PROVE RulesStand'
  OBVIOUS
<1>0. TypeOK'
  BY StepTypes
<1>1. CASE UNCHANGED vars
  BY <1>1 DEF RulesStand, vars, tables, Living, Ruled
<1>2. ASSUME NEW r \in Requests, Admits(r) \/ Rollback(r) \/ Checks(r) PROVE RulesStand'
  BY <1>2, ReadsOnly DEF RulesStand, Living, Ruled
<1>3. ASSUME NEW r \in Requests, CommitCreate(r) PROVE RulesStand'
  <2>1. ~NameTaken(req[r].name, Absent)
    BY <1>3 DEF CommitCreate, NamesFree
  <2>2. req[r].name \in Names /\ req[r].members \in SUBSET Members
    BY <1>3 DEF CommitCreate, TypeOK, RequestStates, Idle
  <2>3. PICK g \in Groups :
           /\ groups[g] = Absent /\ UNCHANGED <<modes, rules>>
           /\ groups' = [groups EXCEPT ![g] = [name |-> req[r].name, members |-> req[r].members]]
    BY <1>3 DEF CommitCreate
  <2>4. groups'[g].name = req[r].name /\ \A h \in Groups : h # g => groups'[h] = groups[h]
    BY <2>3 DEF TypeOK
  <2>5. g \notin Living /\ Living' = Living \cup {g}
    BY <2>2, <2>3, GroupAssumption DEF Living, TypeOK
  <2>6. \A h \in Living : h \in Groups /\ groups[h].name # req[r].name
    BY <2>1, GroupAssumption DEF NameTaken, Living
  <2>7. QED
    BY <2>3, <2>4, <2>5, <2>6 DEF RulesStand, Ruled
<1>4. ASSUME NEW r \in Requests, CommitUpdate(r) PROVE RulesStand'
  <2> DEFINE g == req[r].group
             name == IF req[r].name = req[r].was THEN groups[g].name ELSE req[r].name
  <2>1. g \in Living /\ UNCHANGED <<modes, rules>>
    BY <1>4 DEF CommitUpdate
  <2>2. \E ms : groups' = [groups EXCEPT ![g] = [name |-> name, members |-> ms]]
    BY <1>4 DEF CommitUpdate
  <2>3. groups'[g].name = name /\ \A h \in Groups : h # g => groups'[h] = groups[h]
    BY <2>1, <2>2 DEF TypeOK, Living
  <2>4. Living' = Living
    <3>1. groups'[g] \in Group
      <4>1. req[r].name \in Names /\ req[r].members \in SUBSET Members /\ groups[g] \in Group
        BY <1>4, <2>1, GroupsLive DEF CommitUpdate, TypeOK, RequestStates, Idle, Living
      <4>2. QED
        BY <1>4, <2>1, <4>1 DEF CommitUpdate, Group, TypeOK, Living
    <3>2. QED
      BY <2>1, <2>3, <3>1, GroupsLive DEF Living
  <2>5. \A h \in Living : h # g => groups[h].name # name
    <3>1. CASE req[r].name = req[r].was
      BY <2>1, <3>1 DEF RulesStand
    <3>2. CASE req[r].name # req[r].was
      <4>1. ~NameTaken(name, g)
        BY <1>4, <3>2 DEF CommitUpdate, NamesFree
      <4>2. QED
        BY <4>1 DEF NameTaken
    <3>3. QED
      BY <3>1, <3>2
  <2>6. \A h \in Living : h \in Groups
    BY DEF Living
  <2> HIDE DEF g, name
  <2>7. QED
    BY <2>1, <2>3, <2>4, <2>5, <2>6 DEF RulesStand, Ruled
<1>5. ASSUME NEW r \in Requests, CommitDelete(r) PROVE RulesStand'
  <2> DEFINE g == req[r].group
  <2>1. g \in Groups
    BY <1>5 DEF CommitDelete, TypeOK, RequestStates, Idle
  <2>2. /\ groups' = [groups EXCEPT ![g] = Gone]
        /\ rules' = [p \in Catalog |-> [rules[p] EXCEPT ![g] = "none"]]
    BY <1>5 DEF CommitDelete, UnruledFor
  <2>3. Living' = Living \ {g} /\ \A h \in Living' : groups'[h] = groups[h]
    BY <2>1, <2>2 DEF Living, TypeOK
  <2>4. \A p \in Catalog : Ruled(rules'[p]) = Ruled(rules[p]) \ {g}
    BY <2>1, <2>2 DEF Ruled, TypeOK, Rules
  <2> HIDE DEF g
  <2>5. QED
    BY <2>3, <2>4 DEF RulesStand, Ruled
<1>6. ASSUME NEW r \in Requests, CommitPermission(r) PROVE RulesStand'
  <2>1. Ruled(req[r].rules) \subseteq Living /\ UNCHANGED groups
    BY <1>6 DEF CommitPermission, References
  <2>2. \A p \in Catalog : Ruled(rules'[p]) \subseteq Ruled(rules[p]) \cup Ruled(req[r].rules)
    BY <1>6 DEF CommitPermission, Ruled, TypeOK, Rules
  <2>3. QED
    BY <2>1, <2>2 DEF RulesStand, Ruled, Living
<1>7. QED
  BY <1>1, <1>2, <1>3, <1>4, <1>5, <1>6 DEF Next, Admits, Checks

-------------------------------------------------------------------------------
(* What a check goes by. *)

(* A decision depends on the ruled groups a person is in, and on no other (evaluate). *)
LEMMA EvaluateRuled ==
    ASSUME NEW superuser, NEW mode, NEW ruled, NEW some \in SUBSET Groups, NEW more \in SUBSET Groups,
           some \cap Ruled(ruled) = more \cap Ruled(ruled)
    PROVE  Evaluate(superuser, mode, ruled, some) <=> Evaluate(superuser, mode, ruled, more)
BY DEF Evaluate, Ruled

(* Where a check is after its own step, and what it holds there. *)
LEMMA CheckForms ==
    ASSUME TypeOK, NEW r \in Requests
    PROVE  /\ CheckPermission(r) =>
                 /\ seen'[r] = {Sight(req'[r].who, req'[r].perm)}
                 /\ req'[r].pc = "modes" /\ req'[r].mode = Mode(req'[r].perm)
           /\ LoadRules(r) =>
                 /\ req[r].pc = "modes" /\ seen'[r] = seen[r]
                 /\ \/ /\ Ruled(rules[req[r].perm]) = {} /\ req[r].mode = "everyone"
                       /\ Answers(r, TRUE, TRUE)
                    \/ req'[r] = [pc |-> "rules", who |-> req[r].who, perm |-> req[r].perm,
                                  mode |-> req[r].mode, rules |-> rules[req[r].perm]]
           /\ LoadGroups(r) =>
                 /\ req[r].pc = "rules" /\ seen'[r] = seen[r]
                 /\ \/ /\ ThroughWorkspace(Ruled(req[r].rules)) = {}
                       /\ Answers(r, Evaluate(FALSE, req[r].mode, req[r].rules,
                                              NamedIn(req[r].who, Ruled(req[r].rules))), TRUE)
                    \/ req'[r] = [pc |-> "groups", who |-> req[r].who, perm |-> req[r].perm,
                                  mode |-> req[r].mode, rules |-> req[r].rules,
                                  named |-> NamedIn(req[r].who, Ruled(req[r].rules)),
                                  through |-> ThroughWorkspace(Ruled(req[r].rules))]
           /\ GroupsFor(r) =>
                 /\ req[r].pc = "groups" /\ seen'[r] = seen[r]
                 /\ \E answers \in BOOLEAN :
                       Answers(r, Evaluate(FALSE, req[r].mode, req[r].rules, req[r].named \cup
                                     Resolved(req[r].who, req[r].through, answers)), answers)
<1>0. DOMAIN req = Requests /\ DOMAIN seen = Requests
  BY DEF TypeOK
<1>1. ASSUME CheckPermission(r)
      PROVE  /\ seen'[r] = {Sight(req'[r].who, req'[r].perm)}
             /\ req'[r].pc = "modes" /\ req'[r].mode = Mode(req'[r].perm)
  <2>1. PICK u \in People, p \in scenario.catalog :
           /\ req' = [req EXCEPT ![r] = [pc |-> "modes", who |-> u, perm |-> p, mode |-> Mode(p)]]
           /\ seen' = [seen EXCEPT ![r] = {Sight(u, p)}]
    BY <1>1 DEF CheckPermission, Starts
  <2>2. req'[r] = [pc |-> "modes", who |-> u, perm |-> p, mode |-> Mode(p)]
    BY <1>0, <2>1
  <2>3. req'[r].who = u /\ req'[r].perm = p /\ req'[r].mode = Mode(p) /\ req'[r].pc = "modes"
    BY <2>2
  <2>4. QED
    BY <1>0, <2>1, <2>3
<1>2. \A state : req' = [req EXCEPT ![r] = state] => req'[r] = state
  BY <1>0
<1>3. ASSUME LoadRules(r)
      PROVE  /\ req[r].pc = "modes" /\ seen'[r] = seen[r]
             /\ \/ /\ Ruled(rules[req[r].perm]) = {} /\ req[r].mode = "everyone"
                   /\ Answers(r, TRUE, TRUE)
                \/ req'[r] = [pc |-> "rules", who |-> req[r].who, perm |-> req[r].perm,
                              mode |-> req[r].mode, rules |-> rules[req[r].perm]]
  BY <1>2, <1>3 DEF LoadRules
<1>4. ASSUME LoadGroups(r)
      PROVE  /\ req[r].pc = "rules" /\ seen'[r] = seen[r]
             /\ \/ /\ ThroughWorkspace(Ruled(req[r].rules)) = {}
                   /\ Answers(r, Evaluate(FALSE, req[r].mode, req[r].rules,
                                          NamedIn(req[r].who, Ruled(req[r].rules))), TRUE)
                \/ req'[r] = [pc |-> "groups", who |-> req[r].who, perm |-> req[r].perm,
                              mode |-> req[r].mode, rules |-> req[r].rules,
                              named |-> NamedIn(req[r].who, Ruled(req[r].rules)),
                              through |-> ThroughWorkspace(Ruled(req[r].rules))]
  BY <1>2, <1>4 DEF LoadGroups
<1>5. ASSUME GroupsFor(r)
      PROVE  /\ req[r].pc = "groups" /\ seen'[r] = seen[r]
             /\ \E answers \in BOOLEAN :
                   Answers(r, Evaluate(FALSE, req[r].mode, req[r].rules, req[r].named \cup
                                 Resolved(req[r].who, req[r].through, answers)), answers)
  BY <1>5 DEF GroupsFor
<1>6. QED
  BY <1>1, <1>3, <1>4, <1>5

(* A check under way sees every moment, and goes by what moments showed. *)
LEMMA InformedKept == TypeOK /\ Informed /\ [Next]_vars => Informed'
<1> SUFFICES ASSUME TypeOK, Informed, [Next]_vars PROVE Informed'
  OBVIOUS
<1>1. CASE UNCHANGED vars
  BY <1>1
  DEF Informed, vars, tables, Asking, Sight, Mode, NamedIn, ThroughWorkspace, Living, Shows, Ruled
<1>2. ASSUME NEW r \in Requests, Admits(r) \/ Rollback(r) \/ Checks(r) PROVE Informed'
  <2> SUFFICES ASSUME NEW q \in Requests, Asking(q)'
               PROVE  /\ Sight(req[q].who, req[q].perm)' \in seen'[q]
                      /\ \E v \in seen'[q] : v.mode = req'[q].mode
                      /\ req'[q].pc # "modes" => \E v \in seen'[q] : v.rules = req'[q].rules
                      /\ req'[q].pc = "groups" => \E v \in seen'[q] : Shows(v, req'[q])
    BY DEF Informed, Shows, Ruled
  <2>0. UNCHANGED <<groups, modes, rules>>
    BY <1>2, ReadsOnly
  <2>a. q = r => \A allowed, resolved : ~Answers(r, allowed, resolved)
    BY DEF Answers, Asking, TypeOK
  <2>1. Sight(req[q].who, req[q].perm)' = Sight(req'[q].who, req'[q].perm)
    BY <2>0 DEF Sight, Mode, NamedIn, ThroughWorkspace, Living
  <2>2. CASE q # r
    <3>1. req'[q] = req[q] /\ seen'[q] = seen[q]
      BY <1>2, <2>2, ReadsOnly
    <3>2. QED
      BY <2>1, <3>1 DEF Informed, Asking
  <2>3. CASE q = r /\ CheckPermission(r)
    BY <2>1, <2>3, CheckForms DEF Sight
  <2>4. CASE q = r /\ LoadRules(r)
    <3>1. req'[r] = [pc |-> "rules", who |-> req[r].who, perm |-> req[r].perm,
                     mode |-> req[r].mode, rules |-> rules[req[r].perm]]
          /\ seen'[r] = seen[r] /\ Asking(r)
      BY <2>a, <2>4, CheckForms DEF Asking
    <3>2. Sight(req[r].who, req[r].perm) \in seen[r] /\ \E v \in seen[r] : v.mode = req[r].mode
      BY <3>1 DEF Informed
    <3>3. Sight(req[r].who, req[r].perm).rules = rules[req[r].perm]
      BY DEF Sight
    <3>4. QED
      BY <2>1, <2>4, <3>1, <3>2, <3>3
  <2>5. CASE q = r /\ LoadGroups(r)
    <3>1. req'[r] = [pc |-> "groups", who |-> req[r].who, perm |-> req[r].perm,
                     mode |-> req[r].mode, rules |-> req[r].rules,
                     named |-> NamedIn(req[r].who, Ruled(req[r].rules)),
                     through |-> ThroughWorkspace(Ruled(req[r].rules))]
          /\ seen'[r] = seen[r] /\ Asking(r) /\ req[r].pc = "rules"
      BY <2>a, <2>5, CheckForms DEF Asking
    <3>2. /\ Sight(req[r].who, req[r].perm) \in seen[r]
          /\ \E v \in seen[r] : v.mode = req[r].mode
          /\ \E v \in seen[r] : v.rules = req[r].rules
      BY <3>1 DEF Informed
    <3>3. Shows(Sight(req[r].who, req[r].perm), req'[r])
      BY <3>1 DEF Sight, Shows, NamedIn, ThroughWorkspace, Living, Ruled
    <3>4. QED
      BY <2>1, <2>5, <3>1, <3>2, <3>3
  <2>6. CASE q = r /\ ~(CheckPermission(r) \/ LoadRules(r) \/ LoadGroups(r))
    <3>1. req'[r].pc \notin {"modes", "rules", "groups"}
      BY <1>2, <2>6, NextPlaces DEF Admits, Checks, Idle
    <3>2. QED
      BY <2>6, <3>1 DEF Asking
  <2>7. QED
    BY <2>2, <2>3, <2>4, <2>5, <2>6
<1>3. ASSUME NEW r \in Requests, Writes(r) PROVE Informed'
  <2> SUFFICES ASSUME NEW q \in Requests, Asking(q)'
               PROVE  /\ Sight(req[q].who, req[q].perm)' \in seen'[q]
                      /\ \E v \in seen'[q] : v.mode = req'[q].mode
                      /\ req'[q].pc # "modes" => \E v \in seen'[q] : v.rules = req'[q].rules
                      /\ req'[q].pc = "groups" => \E v \in seen'[q] : Shows(v, req'[q])
    BY DEF Informed, Shows, Ruled
  <2>1. q # r
    BY <1>3, CommitsOnce DEF Asking, Idle
  <2>2. Asking(q) /\ req'[q] = req[q]
        /\ seen'[q] = seen[q] \cup {Sight(req[q].who, req[q].perm)'}
    BY <1>3, <2>1, CommitsOnce DEF Asking
  <2>3. QED
    BY <2>2 DEF Informed
<1>4. QED
  BY <1>1, <1>2, <1>3 DEF Next, Admits, Writes, Checks

(* In memory a check goes by one moment. *)
LEMMA AtOnceKept == TypeOK /\ Serial /\ Informed /\ AtOnce /\ [Next]_vars => AtOnce'
<1> SUFFICES ASSUME TypeOK, Serial, Informed, AtOnce, [Next]_vars, InMemory' PROVE AtOnce'
  BY DEF AtOnce
<1>0. InMemory
  BY DEF InMemory, Next, vars, CreateGroup, UpdateGroup, DeleteGroup, SetPermission, CommitCreate,
      CommitUpdate, CommitDelete, CommitPermission, Commits, Rollback, CheckPermission, LoadRules,
      LoadGroups, GroupsFor, Leaves
<1>1. CASE UNCHANGED vars
  BY <1>1 DEF AtOnce, vars, tables, InMemory, Mode, Shows, Ruled
<1>2. ASSUME NEW r \in Requests, Admits(r) \/ Rollback(r) \/ Checks(r) PROVE AtOnce'
  <2> SUFFICES ASSUME NEW q \in Requests
               PROVE  /\ req'[q].pc \in {"modes", "rules"} => req'[q].mode = Mode(req'[q].perm)
                      /\ req'[q].pc = "rules" => req'[q].rules = rules[req'[q].perm]
                      /\ req'[q].pc = "groups" => \E v \in seen'[q] :
                            v.mode = req'[q].mode /\ v.rules = req'[q].rules /\ Shows(v, req'[q])
    <3>1. UNCHANGED <<modes, rules>>
      BY <1>2, ReadsOnly
    <3>2. QED
      BY <3>1 DEF AtOnce, Mode, Shows, Ruled
  <2>1. CASE q # r
    <3>1. req'[q] = req[q] /\ seen'[q] = seen[q]
      BY <1>2, <2>1, ReadsOnly
    <3>2. QED
      BY <1>0, <3>1 DEF AtOnce
  <2>a. \A allowed, resolved : Answers(r, allowed, resolved) => req'[r].pc = "answered"
    BY DEF Answers, TypeOK
  <2>2. CASE q = r /\ CheckPermission(r)
    BY <2>2, CheckForms
  <2>3. CASE q = r /\ LoadRules(r)
    <3>1. CASE req'[r].pc = "answered"
      BY <2>3, <3>1
    <3>2. CASE req'[r].pc # "answered"
      <4>1. /\ req'[r] = [pc |-> "rules", who |-> req[r].who, perm |-> req[r].perm,
                          mode |-> req[r].mode, rules |-> rules[req[r].perm]]
            /\ req[r].pc = "modes"
        BY <2>a, <2>3, <3>2, CheckForms
      <4>2. req[r].mode = Mode(req[r].perm)
        BY <1>0, <4>1 DEF AtOnce
      <4>3. QED
        BY <2>3, <4>1, <4>2
    <3>3. QED
      BY <3>1, <3>2
  <2>4. CASE q = r /\ LoadGroups(r)
    <3>1. CASE req'[r].pc = "answered"
      BY <2>4, <3>1
    <3>2. CASE req'[r].pc # "answered"
      <4>1. /\ req'[r] = [pc |-> "groups", who |-> req[r].who, perm |-> req[r].perm,
                          mode |-> req[r].mode, rules |-> req[r].rules,
                          named |-> NamedIn(req[r].who, Ruled(req[r].rules)),
                          through |-> ThroughWorkspace(Ruled(req[r].rules))]
            /\ seen'[r] = seen[r] /\ req[r].pc = "rules"
        BY <2>a, <2>4, <3>2, CheckForms
      <4>2. req[r].mode = Mode(req[r].perm) /\ req[r].rules = rules[req[r].perm]
        BY <1>0, <4>1 DEF AtOnce
      <4>3. Sight(req[r].who, req[r].perm) \in seen'[r]
        BY <4>1 DEF Informed, Asking
      <4>4. LET v == Sight(req[r].who, req[r].perm)
            IN  v.mode = req'[r].mode /\ v.rules = req'[r].rules /\ Shows(v, req'[r])
        BY <4>1, <4>2 DEF Sight, Shows, NamedIn, ThroughWorkspace, Living, Ruled
      <4>5. QED
        BY <2>4, <4>1, <4>3, <4>4
    <3>3. QED
      BY <3>1, <3>2
  <2>5. CASE q = r /\ ~(CheckPermission(r) \/ LoadRules(r) \/ LoadGroups(r))
    BY <1>2, <2>5, NextPlaces DEF Admits, Checks, Idle
  <2>6. QED
    BY <2>1, <2>2, <2>3, <2>4, <2>5
<1>3. ASSUME NEW r \in Requests, Writes(r) PROVE AtOnce'
  <2> SUFFICES ASSUME NEW q \in Requests
               PROVE  /\ req'[q].pc \notin {"modes", "rules"}
                      /\ req'[q].pc = "groups" => \E v \in seen'[q] :
                            v.mode = req'[q].mode /\ v.rules = req'[q].rules /\ Shows(v, req'[q])
    BY DEF AtOnce, Shows, Ruled
  <2>1. CASE q = r
    BY <1>3, <2>1, CommitsOnce DEF Idle
  <2>2. CASE q # r
    <3>1. Suspended(q) /\ req'[q].pc = req[q].pc
      BY <1>0, <1>3, <2>2, CommitsOnce DEF MayRun
    <3>2. req[q].pc = "groups" => req'[q] = req[q] /\ seen[q] \subseteq seen'[q]
      BY <1>3, <2>2, CommitsOnce
    <3>3. QED
      BY <1>0, <3>1, <3>2 DEF Suspended, AtOnce
  <2>3. QED
    BY <2>1, <2>2
<1>4. QED
  BY <1>1, <1>2, <1>3 DEF Next, Admits, Writes, Checks

-------------------------------------------------------------------------------
(* Who is let through. *)

\* What Justified says of one who is let through, given the moments the check has seen.
Fits(views, who, resolved) ==
    /\ ~\E g \in Groups : \A v \in views : v.rules[g] = "deny" /\ g \in v.named
    /\ \/ \E v \in views : v.mode = "everyone"
       \/ \E g \in Groups :
             /\ \E v \in views : v.rules[g] = "allow"
             /\ \E v \in views : g \in v.named \cup Resolved(who, v.through, resolved)

(* An answer made from parts of moments fits them; made from one it is the answer of *)
(* that moment.                                                                      *)
LEMMA AnswersFit ==
    ASSUME NEW views \in SUBSET View, NEW who, NEW q, NEW resolved \in BOOLEAN,
           \E v \in views : v.mode = q.mode, \E v \in views : v.rules = q.rules,
           \E v \in views : Shows(v, q)
    PROVE  LET some == q.named \cup Resolved(who, q.through, resolved)
           IN  /\ Evaluate(FALSE, q.mode, q.rules, some) => Fits(views, who, resolved)
               /\ \A v \in views : v.mode = q.mode /\ v.rules = q.rules /\ Shows(v, q) =>
                     (Evaluate(FALSE, q.mode, q.rules, some)
                        <=> Evaluate(FALSE, v.mode, v.rules,
                                     v.named \cup Resolved(who, v.through, resolved)))
<1> DEFINE allowed == Evaluate(FALSE, q.mode, q.rules,
                               q.named \cup Resolved(who, q.through, resolved))
<1>0. \A v \in views : v.named \in SUBSET Groups /\ v.through \in SUBSET Groups
  BY DEF View
<1>1. ASSUME allowed PROVE Fits(views, who, resolved)
  <2>1. PICK vr \in views : vr.rules = q.rules
    OBVIOUS
  <2>2. PICK vs \in views : Shows(vs, q)
    OBVIOUS
  <2>3. \A g \in q.named \cup q.through : g \in Groups /\ q.rules[g] # "none"
    BY <1>0, <2>2 DEF Shows, Ruled
  <2>4. \A g \in q.named \cup Resolved(who, q.through, resolved) : q.rules[g] # "deny"
    BY <1>1 DEF Evaluate
  <2>5. ~\E g \in Groups : \A v \in views : v.rules[g] = "deny" /\ g \in v.named
    <3> SUFFICES ASSUME NEW g \in Groups, \A v \in views : v.rules[g] = "deny" /\ g \in v.named
                 PROVE  FALSE
      OBVIOUS
    <3>1. q.rules[g] = "deny" /\ g \in vs.named
      BY <2>1, <2>2
    <3>2. g \in q.named
      BY <2>2, <3>1 DEF Shows, Ruled
    <3>3. QED
      BY <2>4, <3>1, <3>2
  <2>6. CASE q.mode = "everyone"
    BY <2>5, <2>6 DEF Fits
  <2>7. CASE q.mode # "everyone"
    <3>1. q.mode = "restricted"
      BY <2>7 DEF View, Modes
    <3>2. PICK g \in q.named \cup Resolved(who, q.through, resolved) : q.rules[g] = "allow"
      BY <1>1, <3>1 DEF Evaluate
    <3>3. g \in Groups
      BY <2>3, <3>2 DEF Resolved
    <3>4. g \in vs.named \cup Resolved(who, vs.through, resolved)
      BY <2>2, <3>2 DEF Resolved, Shows
    <3>5. QED
      BY <2>1, <2>5, <3>2, <3>3, <3>4 DEF Fits
  <2>8. QED
    BY <2>6, <2>7
<1>2. ASSUME NEW v \in views, v.mode = q.mode, v.rules = q.rules, Shows(v, q)
      PROVE  allowed <=> Evaluate(FALSE, v.mode, v.rules,
                                  v.named \cup Resolved(who, v.through, resolved))
  <2> DEFINE some == q.named \cup Resolved(who, q.through, resolved)
             more == v.named \cup Resolved(who, v.through, resolved)
  <2>1. some \in SUBSET Groups /\ more \in SUBSET Groups
    BY <1>0, <1>2 DEF Shows, Resolved
  <2>2. some \cap Ruled(q.rules) = more \cap Ruled(q.rules)
    BY <1>2 DEF Shows, Resolved
  <2>3. Evaluate(FALSE, q.mode, q.rules, some) <=> Evaluate(FALSE, q.mode, q.rules, more)
    BY <2>1, <2>2, EvaluateRuled
  <2>4. QED
    BY <1>2, <2>3
<1>3. QED
  BY <1>1, <1>2 DEF Fits

\* What Justified says of one request and the moments it has seen.
Sound(q, views) ==
    q.pc = "answered" =>
        /\ q.allowed => Fits(views, q.who, q.resolved)
        /\ InMemory => \E v \in views :
              q.allowed = Evaluate(FALSE, v.mode, v.rules,
                                   v.named \cup Resolved(q.who, v.through, q.resolved))

(* Leaving the answer made to one request, in the step that makes it. *)
LEMMA AnswerSound ==
    ASSUME TypeOK, NEW r \in Requests, NEW allowed, NEW resolved,
           Answers(r, allowed, resolved), allowed => Fits(seen[r], req[r].who, resolved),
           InMemory => \E v \in seen[r] :
              allowed = Evaluate(FALSE, v.mode, v.rules,
                                 v.named \cup Resolved(req[r].who, v.through, resolved))
    PROVE  Sound(req'[r], seen[r])
<1>1. req'[r] = [pc |-> "answered", who |-> req[r].who, perm |-> req[r].perm,
                 allowed |-> allowed, resolved |-> resolved]
  BY DEF Answers, TypeOK
<1>2. /\ req'[r].who = req[r].who /\ req'[r].allowed = allowed /\ req'[r].resolved = resolved
  BY <1>1
<1>3. QED
  BY <1>2 DEF Sound

(* The answer of a check is sound: with nothing ruled, with no group of the workspace, *)
(* and with what the workspace says or without it.                                     *)
LEMMA ChecksSound ==
    ASSUME TypeOK, Informed, AtOnce, NEW r \in Requests,
           LoadRules(r) \/ LoadGroups(r) \/ GroupsFor(r)
    PROVE  Sound(req'[r], seen[r])
<1>0. seen[r] \in SUBSET View
  BY DEF TypeOK
<1>1. CASE LoadRules(r) /\ req'[r].pc = "answered"
  <2>0. req'[r] # [pc |-> "rules", who |-> req[r].who, perm |-> req[r].perm,
                   mode |-> req[r].mode, rules |-> rules[req[r].perm]]
    BY <1>1
  <2>1. /\ Ruled(rules[req[r].perm]) = {} /\ req[r].mode = "everyone" /\ req[r].pc = "modes"
        /\ Answers(r, TRUE, TRUE)
    BY <1>1, <2>0, CheckForms
  <2>2. PICK v \in seen[r] : v = Sight(req[r].who, req[r].perm)
    BY <2>1 DEF Informed, Asking
  <2>3. \A g \in Groups : v.rules[g] # "deny"
    BY <2>1, <2>2 DEF Sight, Ruled
  <2>4. \E w \in seen[r] : w.mode = "everyone"
    BY <2>1 DEF Informed, Asking
  <2>5. Fits(seen[r], req[r].who, TRUE)
    BY <2>3, <2>4 DEF Fits
  <2>6. InMemory => v.mode = "everyone"
    BY <2>1, <2>2 DEF AtOnce, Sight
  <2>7. v.named \cup Resolved(req[r].who, v.through, TRUE) \in SUBSET Groups
    BY <1>0 DEF View, Resolved
  <2>8. InMemory => Evaluate(FALSE, v.mode, v.rules,
                             v.named \cup Resolved(req[r].who, v.through, TRUE))
    BY <2>3, <2>6, <2>7 DEF Evaluate
  <2>9. QED
    BY <2>1, <2>5, <2>8, AnswerSound
<1>2. CASE LoadGroups(r) /\ req'[r].pc = "answered"
  <2> DEFINE named == NamedIn(req[r].who, Ruled(req[r].rules))
             q == [mode |-> req[r].mode, rules |-> req[r].rules, named |-> named,
                   through |-> {}]
             allowed == Evaluate(FALSE, req[r].mode, req[r].rules, named)
             sight == Sight(req[r].who, req[r].perm)
  <2>0. req'[r] # [pc |-> "groups", who |-> req[r].who, perm |-> req[r].perm,
                   mode |-> req[r].mode, rules |-> req[r].rules, named |-> named,
                   through |-> ThroughWorkspace(Ruled(req[r].rules))]
    BY <1>2
  <2>1. /\ ThroughWorkspace(Ruled(req[r].rules)) = {} /\ req[r].pc = "rules"
        /\ Answers(r, allowed, TRUE)
    BY <1>2, <2>0, CheckForms
  <2>2. Shows(sight, q)
    BY <2>1 DEF Sight, Shows, NamedIn, ThroughWorkspace, Living, Ruled
  <2>3. /\ sight \in seen[r]
        /\ \E v \in seen[r] : v.mode = req[r].mode
        /\ \E v \in seen[r] : v.rules = req[r].rules
    BY <2>1 DEF Informed, Asking
  <2>4. q.named \cup Resolved(req[r].who, q.through, TRUE) = named
    BY DEF Resolved
  <2>6. /\ allowed => Fits(seen[r], req[r].who, TRUE)
        /\ \A v \in seen[r] : v.mode = q.mode /\ v.rules = q.rules /\ Shows(v, q) =>
              (allowed <=> Evaluate(FALSE, v.mode, v.rules,
                                    v.named \cup Resolved(req[r].who, v.through, TRUE)))
    <3>1. /\ \E v \in seen[r] : v.mode = q.mode
          /\ \E v \in seen[r] : v.rules = q.rules
          /\ \E v \in seen[r] : Shows(v, q)
      BY <2>2, <2>3
    <3>2. allowed <=> Evaluate(FALSE, q.mode, q.rules,
                               q.named \cup Resolved(req[r].who, q.through, TRUE))
      BY <2>4
    <3> HIDE DEF q
    <3>3. QED
      BY <1>0, <2>4, <3>1, <3>2, AnswersFit
  <2>7. InMemory => sight.mode = q.mode /\ sight.rules = q.rules
    BY <2>1 DEF AtOnce, Sight
  <2>8. InMemory => \E v \in seen[r] :
            allowed = Evaluate(FALSE, v.mode, v.rules,
                               v.named \cup Resolved(req[r].who, v.through, TRUE))
    BY <2>2, <2>3, <2>6, <2>7 DEF Evaluate
  <2>9. QED
    BY <2>1, <2>6, <2>8, AnswerSound
<1>3. CASE GroupsFor(r)
  <2>1. req[r].pc = "groups"
    BY <1>3, CheckForms
  <2>2. PICK answers \in BOOLEAN :
           Answers(r, Evaluate(FALSE, req[r].mode, req[r].rules, req[r].named \cup
                         Resolved(req[r].who, req[r].through, answers)), answers)
    BY <1>3, CheckForms
  <2> DEFINE allowed == Evaluate(FALSE, req[r].mode, req[r].rules, req[r].named \cup
                                 Resolved(req[r].who, req[r].through, answers))
  <2>3. /\ \E v \in seen[r] : v.mode = req[r].mode
        /\ \E v \in seen[r] : v.rules = req[r].rules
        /\ \E v \in seen[r] : Shows(v, req[r])
    BY <2>1 DEF Informed, Asking
  <2>4. /\ allowed => Fits(seen[r], req[r].who, answers)
        /\ \A v \in seen[r] : v.mode = req[r].mode /\ v.rules = req[r].rules /\ Shows(v, req[r]) =>
              (allowed <=> Evaluate(FALSE, v.mode, v.rules,
                                    v.named \cup Resolved(req[r].who, v.through, answers)))
    BY <1>0, <2>3, AnswersFit
  <2>5. InMemory => \E v \in seen[r] :
            v.mode = req[r].mode /\ v.rules = req[r].rules /\ Shows(v, req[r])
    BY <2>1 DEF AtOnce
  <2>6. InMemory => \E v \in seen[r] :
            allowed = Evaluate(FALSE, v.mode, v.rules,
                               v.named \cup Resolved(req[r].who, v.through, answers))
    BY <2>4, <2>5 DEF Evaluate
  <2>7. QED
    BY <2>2, <2>4, <2>6, AnswerSound
<1>4. QED
  BY <1>1, <1>2, <1>3 DEF Sound

(* Whoever is let through, some moments of their check let through; those do not go away. *)
LEMMA JustifiedKept ==
    TypeOK /\ Serial /\ Informed /\ AtOnce /\ Justified /\ [Next]_vars => Justified'
<1> SUFFICES ASSUME TypeOK, Serial, Informed, AtOnce, Justified, [Next]_vars,
                    NEW q \in Requests, req'[q].pc = "answered"
             PROVE  /\ req'[q].allowed => Fits(seen'[q], req'[q].who, req'[q].resolved)
                    /\ InMemory' => \E v \in seen'[q] :
                          req'[q].allowed = Evaluate(FALSE, v.mode, v.rules,
                              v.named \cup Resolved(req'[q].who, v.through, req'[q].resolved))
  BY DEF Justified, Fits, Allows, InGroups, Evaluate, Resolved
<1>a. req[q].pc = "answered" => Sound(req[q], seen[q])
  BY DEF Justified, Sound, Fits, Allows, InGroups
<1>b. InMemory' <=> InMemory
  BY DEF InMemory, Next, vars, CreateGroup, UpdateGroup, DeleteGroup, SetPermission, CommitCreate,
      CommitUpdate, CommitDelete, CommitPermission, Commits, Rollback, CheckPermission, LoadRules,
      LoadGroups, GroupsFor, Leaves
<1> SUFFICES Sound(req'[q], seen'[q])
  BY <1>b DEF Sound
<1>1. CASE UNCHANGED vars
  BY <1>1, <1>a DEF vars
<1>2. ASSUME NEW r \in Requests, Admits(r) \/ Rollback(r) \/ Checks(r)
      PROVE  Sound(req'[q], seen'[q])
  <2>1. CASE q # r
    <3>1. req'[q] = req[q] /\ seen'[q] = seen[q]
      BY <1>2, <2>1, ReadsOnly
    <3>2. QED
      BY <1>a, <3>1
  <2>2. CASE q = r
    <3>1. LoadRules(r) \/ LoadGroups(r) \/ GroupsFor(r)
      BY <1>2, <2>2, NextPlaces DEF Admits, Checks, Idle
    <3>2. seen'[q] = seen[q]
      BY <2>2, <3>1, CheckForms
    <3>3. QED
      BY <2>2, <3>1, <3>2, ChecksSound
  <2>3. QED
    BY <2>1, <2>2
<1>3. ASSUME NEW r \in Requests, Writes(r) PROVE Sound(req'[q], seen'[q])
  <2>1. q # r
    BY <1>3, CommitsOnce DEF Idle
  <2>2. req[q].pc = "answered" /\ req'[q] = req[q] /\ seen'[q] = seen[q]
    BY <1>3, <2>1, CommitsOnce DEF Asking
  <2>3. QED
    BY <1>a, <2>2
<1>4. QED
  BY <1>1, <1>2, <1>3 DEF Next, Admits, Writes, Checks

-------------------------------------------------------------------------------
(* The theorems. *)

(* At first nothing is configured, and nothing is under way. *)
LEMMA InitHolds == Init => IInv
<1> SUFFICES ASSUME Init PROVE IInv
  OBVIOUS
<1>1. TypeOK
  BY InitTypes
<1>2. \A r \in Requests : req[r].pc = "idle"
  BY DEF Init, Idle
<1>3. Serial /\ NamesFree /\ Informed /\ AtOnce /\ Justified
  BY <1>2 DEF Serial, Suspended, NamesFree, Informed, Asking, AtOnce, Justified
<1>4. RulesStand
  BY DEF Init, Unruled, RulesStand, Ruled, Living
<1>5. QED
  BY <1>1, <1>3, <1>4 DEF IInv

(* What stands of the tables and the requests stands after every step. *)
LEMMA Invariance == Spec => []IInv
<1>1. IInv /\ [Next]_vars => IInv'
  BY StepTypes, SerialKept, NamesFreeKept, RulesStandKept, InformedKept, AtOnceKept, JustifiedKept
  DEF IInv
<1>2. QED
  BY InitHolds, <1>1, PTL DEF Spec

(* Which groups are loaded makes no difference, as long as those that are ruled are. *)
LEMMA SurfacesAgreeAlways == TypeOK => SurfacesAgree
<1> SUFFICES ASSUME TypeOK, NEW u \in People, NEW answers \in BOOLEAN
             PROVE  /\ EffectivePermissions(u, answers) = {p \in Catalog : MayDo(u, p, answers)}
                    /\ InspectUser(u, answers) = EffectivePermissions(u, answers)
  BY DEF SurfacesAgree
<1>1. ASSUME NEW p \in Catalog, NEW among \in SUBSET Groups, Ruled(rules[p]) \subseteq among,
             NEW superuser
      PROVE  Evaluate(superuser, Mode(p), rules[p], MemberOf(u, among, answers))
                <=> Evaluate(superuser, Mode(p), rules[p],
                             MemberOf(u, Ruled(rules[p]), answers))
  <2>1. MemberOf(u, among, answers) \in SUBSET Groups
        /\ MemberOf(u, Ruled(rules[p]), answers) \in SUBSET Groups
    BY DEF MemberOf, NamedIn, Resolved, ThroughWorkspace, Living
  <2>2. MemberOf(u, among, answers) \cap Ruled(rules[p])
           = MemberOf(u, Ruled(rules[p]), answers) \cap Ruled(rules[p])
    BY <1>1 DEF MemberOf, NamedIn, Resolved, ThroughWorkspace
  <2>3. QED
    BY <2>1, <2>2, EvaluateRuled
<1>2. ASSUME NEW p \in Catalog
      PROVE  /\ Ruled(rules[p]) \subseteq RuleGroups /\ RuleGroups \in SUBSET Groups
             /\ Ruled(rules[p]) \subseteq Groups
  BY DEF RuleGroups, Ruled
<1>3. ASSUME NEW p \in Catalog, Ruled(rules[p]) = {}, Mode(p) = "everyone", NEW superuser
      PROVE  Evaluate(superuser, Mode(p), rules[p], MemberOf(u, Ruled(rules[p]), answers))
  BY <1>3 DEF Evaluate, MemberOf, NamedIn, Resolved, ThroughWorkspace
<1>4. \A p \in Catalog : Evaluate(TRUE, Mode(p), rules[p], MemberOf(u, Groups, answers))
  BY DEF Evaluate
<1>5. EffectivePermissions(u, answers) = {p \in Catalog : MayDo(u, p, answers)}
  <2>1. CASE u \in Superusers
    BY <2>1 DEF EffectivePermissions, MayDo, Evaluate
  <2>2. CASE u \notin Superusers
    <3>1. ASSUME NEW p \in Catalog
          PROVE  MayDo(u, p, answers) <=>
                    Evaluate(FALSE, Mode(p), rules[p], MemberOf(u, Ruled(rules[p]), answers))
      <4>1. Evaluate(u \in Superusers, Mode(p), rules[p], MemberOf(u, Ruled(rules[p]), answers))
               <=> Evaluate(FALSE, Mode(p), rules[p], MemberOf(u, Ruled(rules[p]), answers))
        BY <2>2 DEF Evaluate
      <4>2. QED
        BY <1>3, <4>1 DEF MayDo
    <3>2. \A p \in Catalog : MayDo(u, p, answers)
             <=> Evaluate(FALSE, Mode(p), rules[p], MemberOf(u, RuleGroups, answers))
      BY <1>1, <1>2, <3>1
    <3>3. QED
      BY <2>2, <3>2 DEF EffectivePermissions
  <2>3. QED
    BY <2>1, <2>2
<1>6. InspectUser(u, answers) = EffectivePermissions(u, answers)
  <2>1. CASE u \in Superusers
    BY <2>1 DEF EffectivePermissions, InspectUser, Evaluate
  <2>2. CASE u \notin Superusers
    <3>1. \A p \in Catalog :
             Evaluate(FALSE, Mode(p), rules[p], MemberOf(u, Groups, answers))
                <=> Evaluate(FALSE, Mode(p), rules[p], MemberOf(u, RuleGroups, answers))
      BY <1>1, <1>2
    <3>2. \A p \in Catalog :
             Evaluate(u \in Superusers, Mode(p), rules[p], MemberOf(u, Groups, answers))
                <=> Evaluate(FALSE, Mode(p), rules[p], MemberOf(u, Groups, answers))
      BY <2>2 DEF Evaluate
    <3>3. QED
      BY <2>2, <3>1, <3>2 DEF EffectivePermissions, InspectUser
  <2>3. QED
    BY <2>1, <2>2
<1>7. QED
  BY <1>5, <1>6

(* However requests of administrators overlap, on PostgreSQL and in memory, a rule is    *)
(* about a group that is there, no two groups have one name (db/models.py,               *)
(* services/groups.py), and the gate, the page and the inspector of                      *)
(* services/permissions.py give one answer.                                              *)
THEOREM ConfigurationHolds == Spec => []ConfigurationStands
<1>1. IInv => ConfigurationStands
  BY SurfacesAgreeAlways DEF IInv, ConfigurationStands
<1>2. QED
  BY Invariance, <1>1, PTL

(* check_permission lets nobody through whom one group denied all along, and nobody      *)
(* outside of every group that was allowed while the permission was restricted; in       *)
(* memory it gives the answer of one moment.                                             *)
THEOREM ChecksJustified == Spec => []Justified
<1>1. IInv => Justified
  BY DEF IInv
<1>2. QED
  BY Invariance, <1>1, PTL

================================================================================
