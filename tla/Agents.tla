-------------------------------- MODULE Agents ---------------------------------
(***************************************************************************)
(* Agent tokens: their life, the way of a call into the application, and   *)
(* what the token lets it reach once it is there                           *)
(* (api/graphlagoon/services/agent_tokens.py, middleware/auth.py,          *)
(* utils/authz.py, mcp/server.py).                                         *)
(*                                                                         *)
(* Every await between the arrival of a call and the last thing it writes  *)
(* is a place where tokens are revoked, permissions taken, cases closed    *)
(* and items removed.  Who holds the permission investigation.agent is     *)
(* what Permissions decides, who may open an exploration what Sharing      *)
(* decides; here they are given.                                           *)
(***************************************************************************)
EXTENDS Naturals, FiniteSets

CONSTANTS
    People, Tokens, Cases, Explorations, Requests,
    NoToken, Nobody,    \* a token that is not minted; a request with no person on it
    Limit, Window,      \* agent_rate_limit_per_minute, and the minute
    MaxDays, MaxTime,   \* the longest life of a token; a bound on the clock
    Scenarios           \* what a run lets happen: the store, auth_mode, the operations, how
                        \* many requests are under way at once, how many tokens there are, until when,
                        \* who their owners are and the cases a token may be kept to

Times == 0..MaxTime
Levels == {"none", "read", "write"}

ASSUME NumbersAssumption ==
    Limit \in Nat \ {0} /\ Window \in Nat \ {0} /\ MaxDays \in Nat /\ MaxTime \in Nat
ASSUME NobodyAssumption == Nobody \notin People
ASSUME ScenarioAssumption == \A s \in Scenarios :
    /\ s.store \in {"database", "memory"} /\ s.databricks \in BOOLEAN
    /\ s.atOnce \in Nat \ {0} /\ s.ops \subseteq STRING
    /\ s.tokens \in Nat /\ s.time \in Times /\ s.owners \subseteq People /\ s.cases \subseteq Cases

VARIABLES
    now,
    tokens,      \* the tokens of every owner, by hash
    holders,     \* the people who hold investigation.agent
    usage,       \* how many admitted calls of a token are recorded at a time
    access,      \* what a person may do in a case
    closed,      \* the cases that are closed
    references,  \* the cases that have an exploration among their items
    made,        \* the explorations there are
    call,        \* where each request is
    wrote,       \* history: what agents have changed, and under which cases
    scenario

people == <<holders, access, closed>>
vars == <<now, tokens, people, usage, references, made, call, wrote, scenario>>

\* A path of AGENT_ALLOWED_PATHS, any other one, or a tool behind /mcp.
Targets ==
    [path : {"case", "people", "tool", "create"}, on : Cases]
    \cup [path : {"exploration", "edit"}, on : Explorations]
    \cup {[path |-> "elsewhere"]}
Mcp == {"tool", "edit", "create"}

Token == [owner : People, scope : {"user", "case"}, cases : SUBSET Cases,
          expires : Nat, revoked : BOOLEAN]
ASSUME NoTokenAssumption == NoToken \notin Token

Idle == [pc |-> "idle"]
Call == [pc : {"resolved", "permitted", "counted", "recorded", "inside", "loaded", "taken", "made"},
         token : Tokens, target : Targets, person : People \cup {Nobody},
         came : Nat, at : Nat, new : SUBSET Explorations, held : BOOLEAN, under : SUBSET Cases]

TypeOK ==
    /\ now \in Times
    /\ tokens \in [Tokens -> Token \cup {NoToken}]
    /\ holders \subseteq People
    /\ usage \in [Tokens -> [Times -> Nat]]
    /\ access \in [Cases -> [People -> Levels]]
    /\ closed \subseteq Cases
    /\ references \in [Explorations -> SUBSET Cases]
    /\ made \subseteq Explorations
    /\ call \in [Requests -> Call \cup {Idle}]
    /\ wrote \subseteq [token : Tokens, path : {"case", "people", "tool", "exploration"},
                        on : Cases \cup Explorations, under : SUBSET Cases]
    /\ scenario \in Scenarios

Init ==
    /\ now = 0
    /\ tokens = [t \in Tokens |-> NoToken]
    /\ holders = People
    /\ usage = [t \in Tokens |-> [i \in Times |-> 0]]
    /\ access \in [Cases -> [People -> {"write"}]]
    /\ closed = {}
    /\ references = [x \in Explorations |-> {}]
    /\ made = {}
    /\ call = [r \in Requests |-> Idle]
    /\ wrote = {}
    /\ scenario \in Scenarios

InMemory == scenario.store = "memory"

\* mutant: a token that is over is still taken
ActiveUntilRevoked(t) == tokens[t] # NoToken /\ ~tokens[t].revoked

\* is_active
Active(t) == tokens[t] # NoToken /\ ~tokens[t].revoked /\ tokens[t].expires > now

-------------------------------------------------------------------------------
(* What a call may reach.                                                    *)

\* agent_path_allowed
PathAllowed(k, target) ==
    /\ target.path # "elsewhere"
    /\ k.scope = "case" =>
          \/ target.path \in Mcp
          \/ target.path \in {"case", "people"} /\ target.on \in k.cases

\* mutant: the token's cases are not looked at
CanReadAny(k, c) == access[c][k.owner] # "none"

\* can_read_case, and load_case for writing
CanRead(k, c) ==
    /\ k.scope = "case" => c \in k.cases
    /\ access[c][k.owner] # "none"

CanWrite(k, c) == CanRead(k, c) /\ access[c][k.owner] = "write"

\* mutant: a human-only route is guarded where it is declared only for people
ForbidsNobody(target) == FALSE

\* forbid_agents on the matched route, applied by agent_guard
ForbidsAgents(target) == target.path = "people"

\* mutant: every exploration of the owner is in scope
InScopeAlways(k, x) == TRUE

\* _exploration_in_scope: some readable case of the token has the exploration
InScope(k, x) ==
    k.scope = "case" => \E c \in k.cases : CanRead(k, c) /\ c \in references[x]

\* mutant: the person on the request is not looked at
BoundToAnyone(k, person) == TRUE

\* bind_agent_to_proxy_identity, once the workspace has said who the person is
Bound(k, person) == scenario.databricks => person \in {Nobody, k.owner}

-------------------------------------------------------------------------------
(* Tokens, and what people do meanwhile.                                     *)

\* The calls that stay under way take note of what has held since they came.
Notes(stay) ==
    call' = [r \in Requests |->
        IF call[r] = Idle \/ r \notin stay THEN Idle
        ELSE LET q == call[r] IN
             [q EXCEPT !.held = @ \/ tokens[q.token].owner \in holders',
                       !.under = @ \cup IF q.target.path = "edit"
                                        THEN references'[q.target.on] ELSE {}]]

\* create_agent_token, for a person who holds the permission
Mint(t) ==
    /\ "mint" \in scenario.ops
    /\ tokens[t] = NoToken
    /\ Cardinality({k \in Tokens : tokens[k] # NoToken}) < scenario.tokens
    /\ \E u \in holders \cap scenario.owners, days \in 1..MaxDays, cs \in SUBSET scenario.cases :
          tokens' = [tokens EXCEPT ![t] =
              [owner |-> u, scope |-> IF cs = {} THEN "user" ELSE "case", cases |-> cs,
               expires |-> now + days, revoked |-> FALSE]]
    /\ UNCHANGED <<now, people, usage, references, made, call, wrote, scenario>>

\* revoke_agent_token of the owner, revoke_any_agent_token of an administrator
Revoke(t) ==
    /\ "revoke" \in scenario.ops
    /\ tokens[t] # NoToken
    /\ tokens' = [tokens EXCEPT ![t].revoked = TRUE]
    /\ UNCHANGED <<now, people, usage, references, made, call, wrote, scenario>>

Tick ==
    /\ "clock" \in scenario.ops
    /\ now < scenario.time
    /\ now' = now + 1
    /\ UNCHANGED <<tokens, people, usage, references, made, call, wrote, scenario>>

\* a rule of investigation.agent, or a group, has changed
ChangeHolders ==
    /\ "holders" \in scenario.ops
    /\ \E u \in scenario.owners : holders' = IF u \in holders THEN holders \ {u} ELSE holders \cup {u}
    /\ Notes(Requests)
    /\ UNCHANGED <<now, tokens, access, closed, usage, references, made, wrote, scenario>>

\* share_investigation and unshare_investigation
ChangeAccess(c) ==
    /\ "access" \in scenario.ops
    /\ \E u \in scenario.owners, level \in Levels : access' = [access EXCEPT ![c][u] = level]
    /\ UNCHANGED <<now, tokens, holders, closed, usage, references, made, call, wrote, scenario>>

\* a decision closes the case, or it is reopened
CloseOrReopen(c) ==
    /\ "close" \in scenario.ops
    /\ closed' = IF c \in closed THEN closed \ {c} ELSE closed \cup {c}
    /\ UNCHANGED <<now, tokens, holders, access, usage, references, made, call, wrote, scenario>>

\* people make explorations, and put them among the items of a case or remove them
MakeExploration(x) ==
    /\ "items" \in scenario.ops
    /\ x \notin made
    /\ made' = made \cup {x}
    /\ UNCHANGED <<now, tokens, people, usage, references, call, wrote, scenario>>

ChangeReference(x, c) ==
    /\ "items" \in scenario.ops
    /\ x \in made /\ c \notin closed
    /\ references' = [references EXCEPT ![x] = IF c \in @ THEN @ \ {c} ELSE @ \cup {c}]
    /\ Notes(Requests)
    /\ UNCHANGED <<now, tokens, people, usage, made, wrote, scenario>>

-------------------------------------------------------------------------------
(* A call comes in: _dispatch_agent, authenticate_agent, _AgentEndpoint.     *)

Moves(r, pc) == call' = [call EXCEPT ![r].pc = pc]
Ends(r) == call' = [call EXCEPT ![r] = Idle]
Holder(r) == tokens[call[r].token]

\* resolve_token; a token that is not active is answered 401
Resolve(r) ==
    \E t \in Tokens, target \in Targets, person \in People \cup {Nobody} :
        /\ target.path \in scenario.ops
        /\ target.path \in {"exploration", "edit"} => target.on \in made
        /\ person # Nobody => scenario.databricks
        /\ call[r] = Idle
        /\ Cardinality({q \in Requests : call[q] # Idle}) < scenario.atOnce
        /\ Active(t)
        /\ call' = [call EXCEPT ![r] =
               [pc |-> "resolved", token |-> t, target |-> target, person |-> person,
                came |-> now, at |-> 0, new |-> {}, held |-> tokens[t].owner \in holders,
                under |-> IF target.path = "edit" THEN references[target.on] ELSE {}]]
        /\ UNCHANGED <<now, tokens, people, usage, references, made, wrote, scenario>>

\* mutant: holding the permission when the token was minted is enough
StillHolds(u) == TRUE

MayUseAgents(u) == u \in holders

\* mutant: the time of the call is left for the database to fill in
StampLater == Nobody

\* in the database the time of a call is read before its session is opened
Stamp == IF InMemory THEN 0 ELSE now

\* check_permission, which may wait for the workspace
CheckPermission(r) ==
    /\ call[r].pc = "resolved"
    /\ IF MayUseAgents(Holder(r).owner)
          THEN call' = [call EXCEPT ![r].pc = "permitted", ![r].at = Stamp]
          ELSE Ends(r)
    /\ UNCHANGED <<now, tokens, people, usage, references, made, wrote, scenario>>

\* mutant: the count of a minute leaves out the call that makes it full
OverLimit(n) == n > Limit

AtLimit(n) == n >= Limit

\* the rows of a token, those of one time numbered
Rows(t, times) == UNION {{i} \X (1 .. usage[t][i]) : i \in times}

Recorded(t, times) == Cardinality(Rows(t, times))

Records(t, at) == usage' = [usage EXCEPT ![t][at] = @ + 1]

\* _agent_rate_limited in the database: the rows of the last minute are counted
Count(r) ==
    LET q == call[r] IN
    /\ q.pc = "permitted" /\ ~InMemory
    /\ IF AtLimit(Recorded(q.token, {i \in Times : i + Window >= q.at}))
          THEN Ends(r) ELSE Moves(r, "counted")
    /\ UNCHANGED <<now, tokens, people, usage, references, made, wrote, scenario>>

\* ... and one is added, with the time read before, unless the commit fails
Record(r) ==
    /\ call[r].pc = "counted"
    /\ \/ Records(call[r].token, call[r].at) /\ Moves(r, "recorded")
       \/ UNCHANGED usage /\ Ends(r)
    /\ UNCHANGED <<now, tokens, people, references, made, wrote, scenario>>

\* ... and in memory, where nothing comes between
CountAndRecord(r) ==
    LET q == call[r] IN
    /\ q.pc = "permitted" /\ InMemory
    /\ IF AtLimit(Recorded(q.token, {i \in Times : i + Window > now}))
          THEN Ends(r) /\ UNCHANGED usage
          ELSE Records(q.token, now) /\ Moves(r, "recorded")
    /\ UNCHANGED <<now, tokens, people, references, made, wrote, scenario>>

\* The person on the request is verified, which may fail; then the path is looked at.
Enter(r) ==
    LET q == call[r] IN
    /\ q.pc = "recorded"
    /\ \/ Bound(Holder(r), q.person) /\ PathAllowed(Holder(r), q.target) /\ Moves(r, "inside")
       \/ ~(Bound(Holder(r), q.person) /\ PathAllowed(Holder(r), q.target)) /\ Ends(r)
       \/ q.person # Nobody /\ Ends(r)
    /\ UNCHANGED <<now, tokens, people, usage, references, made, wrote, scenario>>

-------------------------------------------------------------------------------
(* The handlers and the tools.                                               *)

Writes(r, path) ==
    wrote' = wrote \cup {[token |-> call[r].token, path |-> path, on |-> call[r].target.on,
                          under |-> call[r].under]}

\* a route of a case, or a tool that writes in one: add_item, annotate, update_case, ...
WorkOnCase(r) ==
    LET q == call[r] IN
    /\ q.pc = "inside" /\ q.target.path \in {"case", "people", "tool"}
    /\ IF ~ForbidsAgents(q.target) /\ CanWrite(Holder(r), q.target.on) /\ q.target.on \notin closed
          THEN Writes(r, q.target.path) ELSE UNCHANGED wrote
    /\ Ends(r)
    /\ UNCHANGED <<now, tokens, people, usage, references, made, scenario>>

\* PUT /api/explorations, for a token that is not kept to its cases
SaveExploration(r) ==
    /\ call[r].pc = "inside" /\ call[r].target.path = "exploration"
    /\ Writes(r, "exploration")
    /\ Ends(r)
    /\ UNCHANGED <<now, tokens, people, usage, references, made, scenario>>

\* _writable_exploration, then what the tool has to ask elsewhere
LoadExploration(r) ==
    /\ call[r].pc = "inside" /\ call[r].target.path = "edit"
    /\ IF InScope(Holder(r), call[r].target.on) THEN Moves(r, "loaded") ELSE Ends(r)
    /\ UNCHANGED <<now, tokens, people, usage, references, made, wrote, scenario>>

\* _save_exploration
EditExploration(r) ==
    /\ call[r].pc = "loaded"
    /\ Writes(r, "exploration")
    /\ Ends(r)
    /\ UNCHANGED <<now, tokens, people, usage, references, made, scenario>>

\* create_exploration with the case to attach it to: ensure_case_access
TakeCase(r) ==
    /\ call[r].pc = "inside" /\ call[r].target.path = "create"
    /\ IF CanWrite(Holder(r), call[r].target.on) THEN Moves(r, "taken") ELSE Ends(r)
    /\ UNCHANGED <<now, tokens, people, usage, references, made, wrote, scenario>>

CreateExploration(r) ==
    /\ call[r].pc = "taken"
    /\ \E x \in Explorations \ made :
          /\ made' = made \cup {x}
          /\ call' = [call EXCEPT ![r].pc = "made", ![r].new = {x}]
    /\ UNCHANGED <<now, tokens, people, usage, references, wrote, scenario>>

\* ... and create_item, in a transaction of its own
AttachExploration(r) ==
    LET c == call[r].target.on IN
    /\ call[r].pc = "made"
    /\ \E x \in call[r].new :
          IF CanWrite(Holder(r), c) /\ c \notin closed
             THEN /\ references' = [references EXCEPT ![x] = @ \cup {c}]
                  /\ Writes(r, "tool")
             ELSE UNCHANGED <<references, wrote>>
    /\ Notes(Requests \ {r})
    /\ UNCHANGED <<now, tokens, people, usage, made, scenario>>

Next ==
    \/ \E t \in Tokens : Mint(t) \/ Revoke(t)
    \/ Tick \/ ChangeHolders
    \/ \E c \in Cases : ChangeAccess(c) \/ CloseOrReopen(c)
    \/ \E x \in Explorations : MakeExploration(x) \/ \E c \in Cases : ChangeReference(x, c)
    \/ \E r \in Requests :
          \/ Resolve(r) \/ CheckPermission(r) \/ Count(r) \/ Record(r) \/ CountAndRecord(r)
          \/ Enter(r) \/ WorkOnCase(r) \/ SaveExploration(r)
          \/ LoadExploration(r) \/ EditExploration(r)
          \/ TakeCase(r) \/ CreateExploration(r) \/ AttachExploration(r)

Spec == Init /\ [][Next]_vars

-------------------------------------------------------------------------------
(* Properties.                                                               *)

\* A call that is inside came while its token had not expired, was recorded, belongs in
\* databricks mode to the person on the request, and its owner held the permission to use
\* agents at some moment after it came: having held it when the token was minted is not
\* enough ("a person who changed teams keeps the SSO login, not the agent").
Admitted ==
    \A r \in Requests : call[r] # Idle /\ call[r].pc \notin {"resolved", "permitted", "counted"} =>
        LET q == call[r]
            k == tokens[q.token]
        IN  /\ q.came < k.expires
            /\ q.held
            /\ usage[q.token][q.at] > 0 \/ InMemory
            /\ scenario.databricks /\ q.pc # "recorded" => q.person \in {Nobody, k.owner}

\* However the calls of a token overlap, with each other and with the clock, a minute holds
\* no more of them than the limit and those that were under way at once; in memory, whose
\* count and record are one step, no more than the limit.
RateHolds ==
    \A t \in Tokens, from \in Times :
        IF InMemory
        THEN Recorded(t, {i \in Times : from <= i /\ i < from + Window}) <= Limit
        ELSE Recorded(t, {i \in Times : from <= i /\ i <= from + Window})
                 <= Limit + scenario.atOnce - 1

\* What an agent has changed is not a person's to change, and lies, for a token kept to its
\* cases, in one of them: an exploration was among the items of such a case at some moment
\* of the call, whatever people removed or attached while the tool was waiting.
StaysInScope ==
    \A w \in wrote :
        LET k == tokens[w.token] IN
        /\ w.path # "people"
        /\ k.scope = "case" =>
              IF w.path = "exploration" THEN w.under \cap k.cases # {} ELSE w.on \in k.cases

\* From the door to the last write an agent stays what its token and its owner make it.
AgentsKeepBounds == Admitted /\ StaysInScope

\* "the case must take it before anything is written" (mcp/server.py:866): an exploration made
\* for a case is in the case when the call is over.  It is not when the case is closed, even
\* with one request at a time: ensure_case_access looks at the access and not at the status,
\* and create_item refuses after the exploration was written.
Attached ==
    [][\A r \in Requests : call[r] # Idle /\ call[r].pc = "made" /\ call'[r] = Idle =>
          \A x \in call[r].new : call[r].target.on \in references'[x]]_vars

================================================================================
