----------------------------- MODULE AgentsProofs ------------------------------
(***************************************************************************)
(* Proofs about the calls of agents, for every set of people, tokens,      *)
(* cases and explorations, every limit and every scenario: the state keeps *)
(* its types, an agent stays what its token and its owner make it, and a   *)
(* minute has no more calls than its limit and those counted at once.      *)
(*                                                                         *)
(* What lets a call go on is looked at in one step and used in a later     *)
(* one.  The inductive invariant says what each call has been granted up   *)
(* to the step it is at, and that nothing people do meanwhile takes it     *)
(* back: a token keeps its owner, its scope, its cases and its end, a row  *)
(* of usage stays, and what has held since the call came is on its record. *)
(*                                                                         *)
(* A call counts the rows of the minute in one transaction and adds its    *)
(* own in another.  The invariant of the limit adds the calls that have    *)
(* counted and not recorded yet to the rows of the minute.                 *)
(***************************************************************************)
EXTENDS Agents, FiniteSetTheorems, TLAPS

Waiting == {"resolved", "permitted", "counted"}

\* What a call at its step has been granted.
Granted(q) ==
    LET k == tokens[q.token] IN
    /\ k # NoToken /\ q.at \in Times /\ q.came < k.expires
    /\ k.owner \in holders => q.held
    /\ q.pc # "resolved" => q.held
    /\ q.pc \notin Waiting => usage[q.token][q.at] > 0 \/ InMemory
    /\ q.pc \notin Waiting \cup {"recorded"} => Bound(k, q.person) /\ PathAllowed(k, q.target)
    /\ q.target.path = "edit" => references[q.target.on] \subseteq q.under
    /\ q.pc = "loaded" =>
          q.target.path = "edit" /\ (k.scope = "case" => q.under \cap k.cases # {})
    /\ q.pc \in {"taken", "made"} => q.target.path = "create"

Under == {r \in Requests : call[r] # Idle}

\* What a write of an agent keeps to.
InBounds(w) ==
    LET k == tokens[w.token] IN
    /\ k # NoToken /\ w.path # "people"
    /\ k.scope = "case" =>
          IF w.path = "exploration" THEN w.under \cap k.cases # {} ELSE w.on \in k.cases

IInv ==
    /\ TypeOK
    /\ \A r \in Under : Granted(call[r])
    /\ \A w \in wrote : InBounds(w)

-------------------------------------------------------------------------------
(* Facts about the data. *)

\* What a path is about.
LEMMA TargetFields ==
    ASSUME NEW t \in Targets
    PROVE  /\ t.path \in {"case", "people", "tool", "create"} => t.on \in Cases
           /\ t.path \in {"exploration", "edit"} => t.on \in Explorations
BY DEF Targets

LEMMA CallFields ==
    ASSUME NEW q \in Call
    PROVE  /\ q.pc \in {"resolved", "permitted", "counted", "recorded", "inside", "loaded",
                        "taken", "made"}
           /\ q.token \in Tokens /\ q.target \in Targets /\ q.person \in People \cup {Nobody}
           /\ q.came \in Nat /\ q.at \in Nat /\ q.new \in SUBSET Explorations
           /\ q.held \in BOOLEAN /\ q.under \in SUBSET Cases /\ q # Idle
BY DEF Call, Idle

\* A call under way is one.
LEMMA UnderCalls ==
    ASSUME TypeOK, NEW r \in Requests, call[r].pc # "idle"
    PROVE  call[r] \in Call /\ r \in Under
BY DEF TypeOK, Idle, Under

\* What people do meanwhile takes nothing back.
LEMMA GrantedStays ==
    ASSUME NEW q \in Call, NEW p \in Call, Granted(q), scenario' = scenario,
           p.pc = q.pc, p.token = q.token, p.target = q.target, p.person = q.person,
           p.came = q.came, p.at = q.at, q.held => p.held, q.under \subseteq p.under,
           LET k == tokens[q.token]
               n == tokens'[q.token]
           IN  /\ n # NoToken /\ n.owner = k.owner /\ n.scope = k.scope /\ n.cases = k.cases
               /\ n.expires = k.expires /\ (n.owner \in holders' => p.held),
           usage[q.token][q.at] > 0 => usage'[q.token][q.at] > 0,
           p.target.path = "edit" => references'[p.target.on] \subseteq p.under
    PROVE  Granted(p)'
<1> DEFINE k == tokens[q.token]
           n == tokens'[q.token]
<1>1. Bound(k, q.person) => Bound(tokens[q.token], p.person)'
  BY DEF Bound
<1>2. PathAllowed(k, q.target) => PathAllowed(n, p.target)
  BY DEF PathAllowed
<1>3. /\ n # NoToken /\ p.at \in Times /\ p.came < n.expires
      /\ n.owner \in holders' => p.held
  BY DEF Granted
<1>4. p.pc # "resolved" => p.held
  BY DEF Granted
<1>5. p.pc \notin Waiting => usage'[p.token][p.at] > 0 \/ InMemory'
  BY DEF Granted, InMemory
<1>6. p.pc \notin Waiting \cup {"recorded"} =>
         Bound(tokens[q.token], p.person)' /\ PathAllowed(n, p.target)
  BY <1>1, <1>2 DEF Granted
<1>7. /\ p.pc = "loaded" =>
            p.target.path = "edit" /\ (n.scope = "case" => p.under \cap n.cases # {})
      /\ p.pc \in {"taken", "made"} => p.target.path = "create"
  BY DEF Granted
<1>8. QED
  BY <1>3, <1>4, <1>5, <1>6, <1>7 DEF Granted

-------------------------------------------------------------------------------
(* Steps in general. *)

\* A step of one call leaves the others what they have been granted.
LEMMA CallMoves ==
    ASSUME IInv, NEW r \in Requests, NEW p \in Call \cup {Idle}, call' = [call EXCEPT ![r] = p],
           UNCHANGED <<tokens, holders, references, scenario>>,
           \A t \in Tokens, i \in Times : usage[t][i] > 0 => usage'[t][i] > 0,
           p # Idle => Granted(p)'
    PROVE  /\ call' \in [Requests -> Call \cup {Idle}]
           /\ (\A s \in Under : Granted(call[s]))'
<1>1. call \in [Requests -> Call \cup {Idle}]
  BY DEF IInv, TypeOK
<1>2. call' \in [Requests -> Call \cup {Idle}]
  BY <1>1
<1>3. ASSUME NEW s \in Requests, call'[s] # Idle
      PROVE  Granted(call[s])'
  <2>1. CASE s = r
    BY <1>1, <1>3, <2>1
  <2>2. CASE s # r
    <3>1. call'[s] = call[s] /\ call[s] \in Call /\ s \in Under
      BY <1>1, <1>3, <2>2 DEF Under
    <3> PICK q : q = call[s]
      OBVIOUS
    <3>2. Granted(q) /\ q.token \in Tokens /\ q.at \in Times
      BY <3>1, CallFields DEF IInv, Granted
    <3>3. q \in Call
      BY <3>1
    <3>4. LET k == tokens[q.token] IN k # NoToken /\ (k.owner \in holders => q.held)
      BY <3>2 DEF Granted
    <3>5. q.target.path = "edit" => references[q.target.on] \subseteq q.under
      BY <3>2 DEF Granted
    <3>6. Granted(q)'
      BY <3>2, <3>3, <3>4, <3>5, GrantedStays
    <3>7. QED
      BY <3>1, <3>6
  <2>3. QED
    BY <2>1, <2>2
<1>4. QED
  BY <1>2, <1>3 DEF Under

\* A token that is there keeps its owner, its scope, its cases and its end.
Kept(t) ==
    tokens[t] # NoToken =>
        /\ tokens'[t] # NoToken
        /\ tokens'[t].owner = tokens[t].owner /\ tokens'[t].scope = tokens[t].scope
        /\ tokens'[t].cases = tokens[t].cases /\ tokens'[t].expires = tokens[t].expires

\* So do the calls when people make and revoke tokens.
LEMMA CallsRest ==
    ASSUME IInv, UNCHANGED <<call, holders, references, usage, scenario>>,
           \A t \in Tokens : Kept(t)
    PROVE  (\A s \in Under : Granted(call[s]))'
<1>1. ASSUME NEW s \in Under PROVE Granted(call[s])'
  <2> PICK q : q = call[s]
    OBVIOUS
  <2>1. q \in Call /\ Granted(q) /\ q.token \in Tokens
    BY CallFields DEF IInv, TypeOK, Under
  <2>2. call'[s] = q
    OBVIOUS
  <2>3. LET k == tokens[q.token] IN k # NoToken /\ (k.owner \in holders => q.held)
    BY <2>1 DEF Granted
  <2>4. q.target.path = "edit" => references[q.target.on] \subseteq q.under
    BY <2>1 DEF Granted
  <2>5. Granted(q)'
    BY <2>1, <2>3, <2>4, GrantedStays DEF Kept
  <2>6. QED
    BY <2>2, <2>5
<1>2. Under' = Under
  BY DEF Under
<1>3. QED
  BY <1>1, <1>2

\* What agents have changed stays in bounds.
LEMMA WritesRest ==
    ASSUME IInv, \A t \in Tokens : Kept(t), NEW w \in wrote
    PROVE  InBounds(w)'
<1>1. InBounds(w) /\ w.token \in Tokens
  BY DEF IInv, TypeOK
<1>2. QED
  BY <1>1 DEF InBounds, Kept

\* The calls that stay take note of what holds now.
LEMMA CallsNote ==
    ASSUME IInv, NEW stay \in SUBSET Requests, Notes(stay), UNCHANGED <<tokens, usage, scenario>>,
           references' \in [Explorations -> SUBSET Cases]
    PROVE  /\ call' \in [Requests -> Call \cup {Idle}]
           /\ (\A s \in Under : Granted(call[s]))'
<1>1. ASSUME NEW s \in Requests
      PROVE  call'[s] \in Call \cup {Idle} /\ (call'[s] # Idle => Granted(call[s])')
  <2>1. CASE call[s] = Idle \/ s \notin stay
    BY <2>1 DEF Notes
  <2>2. CASE call[s] # Idle /\ s \in stay
    <3> PICK q : q = call[s]
      OBVIOUS
    <3> PICK holds : holds = (q.held \/ tokens[q.token].owner \in holders')
      OBVIOUS
    <3> PICK seen : seen = q.under \cup IF q.target.path = "edit"
                                        THEN references'[q.target.on] ELSE {}
      OBVIOUS
    <3> PICK p : p = [q EXCEPT !.held = holds, !.under = seen]
      OBVIOUS
    <3>1. q \in Call /\ Granted(q) /\ q.token \in Tokens /\ q.target \in Targets
      BY <2>2, CallFields DEF IInv, TypeOK, Under
    <3>2. call'[s] = p
      BY <2>2 DEF Notes
    <3>3. holds \in BOOLEAN /\ seen \in SUBSET Cases
      BY <3>1, CallFields, TargetFields
    <3>4. p \in Call
      BY <3>1, <3>3 DEF Call
    <3>5. /\ p.pc = q.pc /\ p.token = q.token /\ p.target = q.target /\ p.person = q.person
          /\ p.came = q.came /\ p.at = q.at /\ p.held = holds /\ p.under = seen
      BY <3>1 DEF Call
    <3>6. (q.held => p.held) /\ q.under \subseteq p.under
      BY <3>5
    <3>7. tokens[q.token] # NoToken /\ (tokens[q.token].owner \in holders' => p.held)
      BY <3>1, <3>5 DEF Granted
    <3>8. p.target.path = "edit" => references'[p.target.on] \subseteq p.under
      BY <3>5
    <3>9. Granted(p)'
      BY <3>1, <3>4, <3>5, <3>6, <3>7, <3>8, GrantedStays
    <3>10. QED
      BY <3>2, <3>4, <3>9
  <2>3. QED
    BY <2>1, <2>2
<1>2. call' = [s \in Requests |-> call'[s]]
  BY DEF Notes
<1>3. QED
  BY <1>1, <1>2 DEF Under

LEMMA InitGranted == Init => IInv
<1> SUFFICES ASSUME Init PROVE IInv
  OBVIOUS
<1>1. TypeOK
  BY NumbersAssumption DEF Init, TypeOK, Times, Levels
<1>2. Under = {} /\ wrote = {}
  BY DEF Init, Under
<1>3. QED
  BY <1>1, <1>2 DEF IInv

-------------------------------------------------------------------------------
(* What people do. *)

LEMMA MintKeeps ==
    ASSUME IInv, NEW t \in Tokens, Mint(t)
    PROVE  IInv'
<1>1. PICK u \in holders \cap scenario.owners, days \in 1..MaxDays, cs \in SUBSET scenario.cases :
          tokens' = [tokens EXCEPT ![t] =
              [owner |-> u, scope |-> IF cs = {} THEN "user" ELSE "case", cases |-> cs,
               expires |-> now + days, revoked |-> FALSE]]
  BY DEF Mint
<1>2. /\ tokens[t] = NoToken
      /\ UNCHANGED <<now, people, usage, references, made, call, wrote, scenario>>
  BY DEF Mint
<1>3. now \in Nat /\ now + days \in Nat /\ u \in People /\ cs \in SUBSET Cases
  BY NumbersAssumption, ScenarioAssumption DEF IInv, TypeOK, Times
<1>4. tokens' \in [Tokens -> Token \cup {NoToken}]
  BY <1>1, <1>3 DEF IInv, TypeOK, Token
<1>5. TypeOK'
  BY <1>2, <1>4 DEF IInv, TypeOK, people
<1>6. \A k \in Tokens : Kept(k)
  BY <1>1, <1>2 DEF Kept, IInv, TypeOK
<1>7. (\A s \in Under : Granted(call[s]))'
  BY <1>2, <1>6, CallsRest DEF people
<1>8. QED
  BY <1>2, <1>5, <1>6, <1>7, WritesRest DEF IInv

LEMMA RevokeKeeps ==
    ASSUME IInv, NEW t \in Tokens, Revoke(t)
    PROVE  IInv'
<1>1. /\ tokens[t] # NoToken /\ tokens' = [tokens EXCEPT ![t].revoked = TRUE]
      /\ UNCHANGED <<now, people, usage, references, made, call, wrote, scenario>>
  BY DEF Revoke
<1>2. tokens[t] \in Token /\ tokens \in [Tokens -> Token \cup {NoToken}]
  BY <1>1 DEF IInv, TypeOK
<1> DEFINE n == [tokens[t] EXCEPT !.revoked = TRUE]
<1>3. /\ n \in Token /\ n.owner = tokens[t].owner /\ n.scope = tokens[t].scope
      /\ n.cases = tokens[t].cases /\ n.expires = tokens[t].expires
  BY <1>2 DEF Token
<1>4. tokens' = [tokens EXCEPT ![t] = n]
  BY <1>1
<1> HIDE DEF n
<1>5. TypeOK'
  BY <1>1, <1>2, <1>3, <1>4 DEF IInv, TypeOK, people
<1>6. \A k \in Tokens : Kept(k)
  BY <1>2, <1>3, <1>4, NoTokenAssumption DEF Kept
<1>7. (\A s \in Under : Granted(call[s]))'
  BY <1>1, <1>6, CallsRest DEF people
<1>8. QED
  BY <1>1, <1>5, <1>6, <1>7, WritesRest DEF IInv

\* The clock, the permissions, the cases and what is among their items.
LEMMA PeopleKeep ==
    ASSUME IInv,
           \/ Tick \/ ChangeHolders
           \/ \E c \in Cases : ChangeAccess(c) \/ CloseOrReopen(c)
           \/ \E x \in Explorations : MakeExploration(x) \/ \E c \in Cases : ChangeReference(x, c)
    PROVE  IInv'
<1>1. tokens' = tokens /\ wrote' = wrote /\ usage' = usage /\ scenario' = scenario
  BY DEF Tick, ChangeHolders, ChangeAccess, CloseOrReopen, MakeExploration, ChangeReference
<1>2. \A t \in Tokens : Kept(t)
  BY <1>1 DEF Kept
<1>3. (\A w \in wrote : InBounds(w))'
  BY <1>1, <1>2, WritesRest
<1>4. ASSUME TypeOK', call' = call, holders' = holders, references' = references PROVE IInv'
  <2>1. (\A s \in Under : Granted(call[s]))'
    BY <1>1, <1>2, <1>4, CallsRest
  <2>2. QED
    BY <1>3, <1>4, <2>1 DEF IInv
<1>5. CASE Tick
  <2>1. now' \in Times
    BY <1>5, NumbersAssumption, ScenarioAssumption DEF Tick, IInv, TypeOK, Times
  <2>2. TypeOK'
    BY <1>5, <2>1 DEF Tick, IInv, TypeOK, people
  <2>3. QED
    BY <1>4, <1>5, <2>2 DEF Tick, people
<1>6. CASE ChangeHolders
  <2>1. holders' \subseteq People /\ references' = references /\ Notes(Requests)
        /\ UNCHANGED <<now, tokens, access, closed, usage, references, made, wrote, scenario>>
    BY <1>6, ScenarioAssumption DEF ChangeHolders, IInv, TypeOK
  <2>2. references' \in [Explorations -> SUBSET Cases]
    BY <2>1 DEF IInv, TypeOK
  <2>3. /\ call' \in [Requests -> Call \cup {Idle}]
        /\ (\A s \in Under : Granted(call[s]))'
    BY <1>1, <2>1, <2>2, CallsNote
  <2>4. TypeOK'
    BY <2>1, <2>3 DEF IInv, TypeOK
  <2>5. QED
    BY <1>3, <2>3, <2>4 DEF IInv
<1>7. ASSUME NEW c \in Cases, ChangeAccess(c) PROVE IInv'
  <2>1. PICK u \in scenario.owners, level \in Levels : access' = [access EXCEPT ![c][u] = level]
    BY <1>7 DEF ChangeAccess
  <2>2. access' \in [Cases -> [People -> Levels]]
    BY <2>1 DEF IInv, TypeOK
  <2>3. TypeOK'
    BY <1>7, <2>2 DEF ChangeAccess, IInv, TypeOK
  <2>4. QED
    BY <1>4, <1>7, <2>3 DEF ChangeAccess
<1>8. ASSUME NEW c \in Cases, CloseOrReopen(c) PROVE IInv'
  <2>1. TypeOK'
    BY <1>8 DEF CloseOrReopen, IInv, TypeOK
  <2>2. QED
    BY <1>4, <1>8, <2>1 DEF CloseOrReopen
<1>9. ASSUME NEW x \in Explorations, MakeExploration(x) PROVE IInv'
  <2>1. TypeOK'
    BY <1>9 DEF MakeExploration, IInv, TypeOK, people
  <2>2. QED
    BY <1>4, <1>9, <2>1 DEF MakeExploration, people
<1>10. ASSUME NEW x \in Explorations, NEW c \in Cases, ChangeReference(x, c) PROVE IInv'
  <2>1. /\ references' \in [Explorations -> SUBSET Cases] /\ Notes(Requests)
        /\ UNCHANGED <<now, tokens, people, usage, made, wrote, scenario>>
    BY <1>10 DEF ChangeReference, IInv, TypeOK
  <2>2. /\ call' \in [Requests -> Call \cup {Idle}]
        /\ (\A s \in Under : Granted(call[s]))'
    BY <1>1, <2>1, CallsNote
  <2>3. TypeOK'
    BY <2>1, <2>2 DEF IInv, TypeOK, people
  <2>4. QED
    BY <1>3, <2>2, <2>3 DEF IInv
<1>11. QED
  BY <1>5, <1>6, <1>7, <1>8, <1>9, <1>10

-------------------------------------------------------------------------------
(* The steps of a call. *)

\* A call that only moves on, or ends, without a write.
LEMMA MovesKeep ==
    ASSUME IInv, NEW r \in Requests, NEW p \in Call \cup {Idle}, call' = [call EXCEPT ![r] = p],
           UNCHANGED <<now, tokens, people, references, made, wrote, scenario>>,
           usage' \in [Tokens -> [Times -> Nat]],
           \A t \in Tokens, i \in Times : usage[t][i] > 0 => usage'[t][i] > 0,
           p # Idle => Granted(p)'
    PROVE  IInv'
<1>1. /\ call' \in [Requests -> Call \cup {Idle}]
      /\ (\A s \in Under : Granted(call[s]))'
  BY CallMoves DEF people
<1>2. TypeOK'
  BY <1>1 DEF IInv, TypeOK, people
<1>3. (\A w \in wrote : InBounds(w))'
  BY WritesRest DEF Kept
<1>4. QED
  BY <1>1, <1>2, <1>3 DEF IInv

\* ... and one that ends with a write.
LEMMA WritesKeep ==
    ASSUME IInv, NEW r \in Requests, NEW path \in {"case", "people", "tool", "exploration"},
           call[r] \in Call, call[r].target.on \in Cases \cup Explorations,
           Writes(r, path), Ends(r),
           InBounds([token |-> call[r].token, path |-> path, on |-> call[r].target.on,
                     under |-> call[r].under]),
           UNCHANGED <<now, tokens, people, usage, references, made, scenario>>
    PROVE  IInv'
<1>1. PICK w : w = [token |-> call[r].token, path |-> path, on |-> call[r].target.on,
                    under |-> call[r].under]
  OBVIOUS
<1>2. /\ w \in [token : Tokens, path : {"case", "people", "tool", "exploration"},
                on : Cases \cup Explorations, under : SUBSET Cases]
      /\ InBounds(w) /\ wrote' = wrote \cup {w}
  BY <1>1, CallFields DEF Writes
<1>3. /\ call' \in [Requests -> Call \cup {Idle}]
      /\ (\A s \in Under : Granted(call[s]))'
  BY CallMoves DEF people, Ends
<1>4. TypeOK'
  BY <1>2, <1>3 DEF IInv, TypeOK, people
<1>5. \A x \in wrote : InBounds(x)'
  BY WritesRest DEF Kept
<1>6. InBounds(w)'
  BY <1>2 DEF InBounds
<1>7. (\A x \in wrote : InBounds(x))'
  BY <1>2, <1>5, <1>6
<1>8. QED
  BY <1>3, <1>4, <1>7 DEF IInv

\* resolve_token: the token has not expired, and what holds now is on record.
LEMMA ResolveKeeps ==
    ASSUME IInv, NEW r \in Requests, Resolve(r)
    PROVE  IInv'
<1>1. PICK t \in Tokens, target \in Targets, person \in People \cup {Nobody} :
        /\ Active(t)
        /\ call' = [call EXCEPT ![r] =
               [pc |-> "resolved", token |-> t, target |-> target, person |-> person,
                came |-> now, at |-> 0, new |-> {}, held |-> tokens[t].owner \in holders,
                under |-> IF target.path = "edit" THEN references[target.on] ELSE {}]]
        /\ UNCHANGED <<now, tokens, people, usage, references, made, wrote, scenario>>
  BY DEF Resolve
<1>2. PICK holds : holds = (tokens[t].owner \in holders)
  OBVIOUS
<1>3. PICK seen : seen = IF target.path = "edit" THEN references[target.on] ELSE {}
  OBVIOUS
<1>4. PICK p : p = [pc |-> "resolved", token |-> t, target |-> target, person |-> person,
                    came |-> now, at |-> 0, new |-> {}, held |-> holds, under |-> seen]
  OBVIOUS
<1>5. holds \in BOOLEAN /\ seen \in SUBSET Cases /\ now \in Nat
  BY <1>2, <1>3, TargetFields, NumbersAssumption DEF IInv, TypeOK, Times
<1>6. p \in Call
  BY <1>4, <1>5 DEF Call
<1>7. call' = [call EXCEPT ![r] = p]
  BY <1>1, <1>2, <1>3, <1>4
<1>8. /\ p.pc = "resolved" /\ p.token = t /\ p.at = 0 /\ p.came = now /\ p.held = holds
      /\ p.target = target /\ p.under = seen
  BY <1>4
<1>9. tokens[t] # NoToken /\ now < tokens[t].expires
  <2>1. tokens[t] # NoToken /\ tokens[t].expires > now
    BY <1>1 DEF Active
  <2>2. tokens[t].expires \in Nat
    BY <2>1 DEF IInv, TypeOK, Token
  <2>3. QED
    BY <1>5, <2>1, <2>2
<1>10. 0 \in Times
  BY NumbersAssumption DEF Times
<1>11. Granted(p)'
  BY <1>1, <1>2, <1>3, <1>8, <1>9, <1>10 DEF Granted, Waiting, people
<1>12. QED
  BY <1>1, <1>6, <1>7, <1>11, MovesKeep DEF IInv, TypeOK

\* A call under way that moves to a step for which it has been granted enough.
LEMMA StepKeeps ==
    ASSUME IInv, NEW r \in Requests, NEW pc, call[r] \in Call, Moves(r, pc),
           pc \in {"counted", "recorded", "inside", "loaded", "taken"},
           UNCHANGED <<now, tokens, people, references, made, wrote, scenario>>,
           usage' \in [Tokens -> [Times -> Nat]],
           \A t \in Tokens, i \in Times : usage[t][i] > 0 => usage'[t][i] > 0,
           call[r].pc # "resolved",
           pc # "counted" => usage'[call[r].token][call[r].at] > 0 \/ InMemory,
           pc \notin {"counted", "recorded"} =>
              /\ Bound(Holder(r), call[r].person) /\ PathAllowed(Holder(r), call[r].target),
           pc = "loaded" =>
              /\ call[r].target.path = "edit"
              /\ Holder(r).scope = "case" => call[r].under \cap Holder(r).cases # {},
           pc = "taken" => call[r].target.path = "create"
    PROVE  IInv'
<1>1. PICK q : q = call[r]
  OBVIOUS
<1>2. PICK p : p = [q EXCEPT !.pc = pc]
  OBVIOUS
<1>3. p \in Call
  BY <1>1, <1>2 DEF Call
<1>4. /\ p.pc = pc /\ p.token = q.token /\ p.target = q.target /\ p.person = q.person
      /\ p.came = q.came /\ p.at = q.at /\ p.held = q.held /\ p.under = q.under
  BY <1>1, <1>2 DEF Call
<1>5. call' = [call EXCEPT ![r] = p]
  BY <1>1, <1>2 DEF Moves
<1>6. Granted(q) /\ q.pc # "resolved"
  BY <1>1, CallFields DEF IInv, Under
<1>7. tokens' = tokens /\ holders' = holders /\ references' = references /\ scenario' = scenario
  BY DEF people
<1> DEFINE k == tokens[q.token]
<1>8. /\ k # NoToken /\ q.at \in Times /\ q.came < k.expires /\ q.held
      /\ q.target.path = "edit" => references[q.target.on] \subseteq q.under
  BY <1>6 DEF Granted
<1>9. p.pc \notin Waiting => usage'[p.token][p.at] > 0 \/ InMemory'
  BY <1>1, <1>4, <1>7 DEF Waiting, InMemory
<1>10. p.pc \notin Waiting \cup {"recorded"} =>
          Bound(tokens[p.token], p.person)' /\ PathAllowed(k, p.target)
  BY <1>1, <1>4, <1>7 DEF Waiting, Bound, Holder
<1>11. /\ p.pc = "loaded" =>
             p.target.path = "edit" /\ (k.scope = "case" => p.under \cap k.cases # {})
       /\ p.pc \in {"taken", "made"} => p.target.path = "create"
  BY <1>1, <1>4 DEF Holder
<1>12. Granted(p)'
  BY <1>4, <1>7, <1>8, <1>9, <1>10, <1>11 DEF Granted
<1>13. QED
  BY <1>3, <1>5, <1>12, MovesKeep

\* A call that ends without a write.
LEMMA EndKeeps ==
    ASSUME IInv, NEW r \in Requests, Ends(r),
           UNCHANGED <<now, tokens, people, usage, references, made, wrote, scenario>>
    PROVE  IInv'
BY MovesKeep DEF Ends, IInv, TypeOK

\* check_permission: the owner holds the permission now.
LEMMA PermissionKeeps ==
    ASSUME IInv, NEW r \in Requests, CheckPermission(r)
    PROVE  IInv'
<1>1. call[r].pc = "resolved" /\ call[r].pc # "idle"
      /\ UNCHANGED <<now, tokens, people, usage, references, made, wrote, scenario>>
  BY DEF CheckPermission
<1>2. call[r] \in Call /\ r \in Under
  BY <1>1, UnderCalls DEF IInv
<1>3. CASE MayUseAgents(Holder(r).owner)
  <2>1. PICK q : q = call[r]
    OBVIOUS
  <2>2. PICK p : p = [q EXCEPT !.pc = "permitted", !.at = Stamp]
    OBVIOUS
  <2>3. Stamp \in Times /\ Stamp \in Nat
    BY NumbersAssumption DEF Stamp, IInv, TypeOK, Times
  <2>4. p \in Call
    BY <1>2, <2>1, <2>2, <2>3 DEF Call
  <2>5. /\ p.pc = "permitted" /\ p.token = q.token /\ p.target = q.target
        /\ p.came = q.came /\ p.at = Stamp /\ p.held = q.held /\ p.under = q.under
    BY <1>2, <2>1, <2>2 DEF Call
  <2>6. call' = [call EXCEPT ![r] = p]
    BY <1>3, <2>1, <2>2 DEF CheckPermission
  <2>7. Granted(q) /\ tokens[q.token].owner \in holders
    BY <1>2, <1>3, <2>1 DEF IInv, MayUseAgents, Holder
  <2>8. /\ tokens[q.token] # NoToken /\ q.came < tokens[q.token].expires /\ q.held
        /\ q.target.path = "edit" => references[q.target.on] \subseteq q.under
    BY <2>7 DEF Granted
  <2>9. Granted(p)'
    BY <1>1, <2>3, <2>5, <2>8 DEF Granted, Waiting, people
  <2>10. QED
    BY <1>1, <2>4, <2>6, <2>9, MovesKeep DEF IInv, TypeOK
<1>4. CASE ~MayUseAgents(Holder(r).owner)
  BY <1>1, <1>4, EndKeeps DEF CheckPermission
<1>5. QED
  BY <1>3, <1>4

\* A row of usage that is added stays.
LEMMA RecordsMore ==
    ASSUME TypeOK, NEW t \in Tokens, NEW at \in Times, Records(t, at)
    PROVE  /\ usage' \in [Tokens -> [Times -> Nat]] /\ usage'[t][at] > 0
           /\ \A k \in Tokens, i \in Times : usage[k][i] > 0 => usage'[k][i] > 0
<1>1. usage \in [Tokens -> [Times -> Nat]] /\ usage[t] \in [Times -> Nat] /\ usage[t][at] \in Nat
  BY DEF TypeOK
<1>2. usage' = [usage EXCEPT ![t] = [usage[t] EXCEPT ![at] = usage[t][at] + 1]]
  BY DEF Records
<1>3. /\ usage'[t][at] = usage[t][at] + 1
      /\ \A k \in Tokens, i \in Times : k # t \/ i # at => usage'[k][i] = usage[k][i]
  BY <1>1, <1>2
<1>4. [usage[t] EXCEPT ![at] = usage[t][at] + 1] \in [Times -> Nat]
  BY <1>1
<1>5. usage' \in [Tokens -> [Times -> Nat]]
  BY <1>1, <1>2, <1>4
<1>6. usage'[t][at] > 0
  BY <1>1, <1>3
<1>7. QED
  BY <1>3, <1>5, <1>6

\* The rate: the row that is counted is added before the call goes on.
LEMMA RateKeeps ==
    ASSUME IInv, NEW r \in Requests, Count(r) \/ Record(r) \/ CountAndRecord(r)
    PROVE  IInv'
<1>1. /\ call[r].pc \in {"permitted", "counted"} /\ call[r].pc # "idle"
      /\ UNCHANGED <<now, tokens, people, references, made, wrote, scenario>>
  BY DEF Count, Record, CountAndRecord
<1>2. call[r] \in Call /\ r \in Under /\ usage \in [Tokens -> [Times -> Nat]]
  BY <1>1, UnderCalls DEF IInv, TypeOK
<1>3. call[r].token \in Tokens /\ call[r].at \in Times /\ now \in Times
  BY <1>2, CallFields DEF IInv, Granted, TypeOK
<1>4. CASE Ends(r) /\ UNCHANGED usage
  BY <1>1, <1>4, EndKeeps
<1>5. CASE Count(r) /\ Moves(r, "counted")
  BY <1>1, <1>2, <1>5, StepKeeps DEF Count
<1>6. CASE Record(r) /\ Records(call[r].token, call[r].at) /\ Moves(r, "recorded")
  <2>1. /\ usage' \in [Tokens -> [Times -> Nat]] /\ usage'[call[r].token][call[r].at] > 0
        /\ \A k \in Tokens, i \in Times : usage[k][i] > 0 => usage'[k][i] > 0
    BY <1>3, <1>6, RecordsMore DEF IInv
  <2>2. QED
    BY <1>1, <1>2, <1>6, <2>1, StepKeeps
<1>7. CASE CountAndRecord(r) /\ Records(call[r].token, now) /\ Moves(r, "recorded")
  <2>1. /\ usage' \in [Tokens -> [Times -> Nat]]
        /\ \A k \in Tokens, i \in Times : usage[k][i] > 0 => usage'[k][i] > 0
    BY <1>3, <1>7, RecordsMore DEF IInv
  <2>2. InMemory
    BY <1>7 DEF CountAndRecord
  <2>3. QED
    BY <1>1, <1>2, <1>7, <2>1, <2>2, StepKeeps
<1>8. QED
  BY <1>4, <1>5, <1>6, <1>7 DEF Count, Record, CountAndRecord

\* A call at a step past its record was admitted for its path.
LEMMA Inside ==
    ASSUME IInv, NEW r \in Requests, call[r].pc \in {"inside", "loaded", "taken", "made"}
    PROVE  /\ call[r] \in Call /\ r \in Under /\ call[r].token \in Tokens
           /\ call[r].target \in Targets /\ call[r].under \in SUBSET Cases
           /\ Holder(r) # NoToken /\ Holder(r) \in Token
           /\ Bound(Holder(r), call[r].person) /\ PathAllowed(Holder(r), call[r].target)
           /\ usage[call[r].token][call[r].at] > 0 \/ InMemory
<1>1. call[r] \in Call /\ r \in Under
  BY UnderCalls DEF IInv
<1>2. /\ call[r].token \in Tokens /\ call[r].target \in Targets
      /\ call[r].under \in SUBSET Cases
  BY <1>1, CallFields
<1>3. Granted(call[r])
  BY <1>1 DEF IInv
<1>4. Holder(r) # NoToken /\ (usage[call[r].token][call[r].at] > 0 \/ InMemory)
      /\ Bound(Holder(r), call[r].person) /\ PathAllowed(Holder(r), call[r].target)
  BY <1>3 DEF Granted, Waiting, Holder
<1>5. Holder(r) \in Token
  BY <1>2, <1>4 DEF Holder, IInv, TypeOK
<1>6. QED
  BY <1>1, <1>2, <1>4, <1>5

\* The door: the person on the request and the path are looked at.
LEMMA EnterKeeps ==
    ASSUME IInv, NEW r \in Requests, Enter(r)
    PROVE  IInv'
<1>1. /\ call[r].pc = "recorded" /\ call[r].pc # "idle"
      /\ UNCHANGED <<now, tokens, people, usage, references, made, wrote, scenario>>
  BY DEF Enter
<1>2. /\ call[r] \in Call /\ r \in Under /\ usage \in [Tokens -> [Times -> Nat]]
      /\ usage' = usage
  BY <1>1, UnderCalls DEF IInv, TypeOK
<1>3. usage[call[r].token][call[r].at] > 0 \/ InMemory
  BY <1>1, <1>2 DEF IInv, Granted, Waiting
<1>4. CASE Ends(r)
  BY <1>1, <1>4, EndKeeps
<1>5. CASE /\ Bound(Holder(r), call[r].person) /\ PathAllowed(Holder(r), call[r].target)
           /\ Moves(r, "inside")
  BY <1>1, <1>2, <1>3, <1>5, StepKeeps
<1>6. QED
  BY <1>4, <1>5 DEF Enter

\* The work in a case: no route of people, and a case the token is kept to.
LEMMA WorkKeeps ==
    ASSUME IInv, NEW r \in Requests, WorkOnCase(r)
    PROVE  IInv'
<1>1. /\ call[r].pc = "inside" /\ call[r].target.path \in {"case", "people", "tool"} /\ Ends(r)
      /\ UNCHANGED <<now, tokens, people, usage, references, made, scenario>>
  BY DEF WorkOnCase
<1>2. CASE UNCHANGED wrote
  BY <1>1, <1>2, EndKeeps
<1>3. CASE /\ ~ForbidsAgents(call[r].target) /\ CanWrite(Holder(r), call[r].target.on)
           /\ Writes(r, call[r].target.path)
  <2>1. /\ call[r] \in Call /\ Holder(r) # NoToken /\ call[r].target.on \in Cases
    BY <1>1, Inside, TargetFields
  <2>2. call[r].target.path \in {"case", "tool"}
    BY <1>1, <1>3 DEF ForbidsAgents
  <2>3. Holder(r).scope = "case" => call[r].target.on \in Holder(r).cases
    BY <1>3 DEF CanWrite, CanRead
  <2>4. InBounds([token |-> call[r].token, path |-> call[r].target.path,
                  on |-> call[r].target.on, under |-> call[r].under])
    BY <2>1, <2>2, <2>3 DEF InBounds, Holder
  <2>5. QED
    BY <1>1, <1>3, <2>1, <2>2, <2>4, WritesKeep
<1>4. QED
  BY <1>2, <1>3 DEF WorkOnCase

\* An exploration is saved over the API by a token that is kept to no case.
LEMMA SaveKeeps ==
    ASSUME IInv, NEW r \in Requests, SaveExploration(r)
    PROVE  IInv'
<1>1. /\ call[r].pc = "inside" /\ call[r].target.path = "exploration" /\ Ends(r)
      /\ Writes(r, "exploration")
      /\ UNCHANGED <<now, tokens, people, usage, references, made, scenario>>
  BY DEF SaveExploration
<1>2. /\ call[r] \in Call /\ Holder(r) # NoToken /\ call[r].target.on \in Explorations
      /\ PathAllowed(Holder(r), call[r].target)
  BY <1>1, Inside, TargetFields
<1>3. Holder(r).scope # "case"
  BY <1>1, <1>2 DEF PathAllowed, Mcp
<1>4. InBounds([token |-> call[r].token, path |-> "exploration",
                on |-> call[r].target.on, under |-> call[r].under])
  BY <1>2, <1>3 DEF InBounds, Holder
<1>5. QED
  BY <1>1, <1>2, <1>4, WritesKeep

\* An exploration is loaded by a tool when a case of the token has it, and that case is on record.
LEMMA LoadKeeps ==
    ASSUME IInv, NEW r \in Requests, LoadExploration(r)
    PROVE  IInv'
<1>1. /\ call[r].pc = "inside" /\ call[r].target.path = "edit"
      /\ UNCHANGED <<now, tokens, people, usage, references, made, wrote, scenario>>
  BY DEF LoadExploration
<1>2. CASE Ends(r)
  BY <1>1, <1>2, EndKeeps
<1>3. CASE InScope(Holder(r), call[r].target.on) /\ Moves(r, "loaded")
  <2>1. /\ call[r] \in Call /\ r \in Under
        /\ Bound(Holder(r), call[r].person) /\ PathAllowed(Holder(r), call[r].target)
        /\ usage[call[r].token][call[r].at] > 0 \/ InMemory
    BY <1>1, Inside
  <2>2. references[call[r].target.on] \subseteq call[r].under
    BY <1>1, <2>1 DEF IInv, Granted
  <2>3. Holder(r).scope = "case" => call[r].under \cap Holder(r).cases # {}
    BY <1>3, <2>2 DEF InScope
  <2>4. usage \in [Tokens -> [Times -> Nat]] /\ usage' = usage
    BY <1>1 DEF IInv, TypeOK
  <2>5. call[r].pc # "resolved"
    BY <1>1
  <2>6. QED
    BY <1>1, <1>3, <2>1, <2>3, <2>4, <2>5, StepKeeps
<1>4. QED
  BY <1>2, <1>3 DEF LoadExploration

LEMMA EditKeeps ==
    ASSUME IInv, NEW r \in Requests, EditExploration(r)
    PROVE  IInv'
<1>1. /\ call[r].pc = "loaded" /\ Ends(r) /\ Writes(r, "exploration")
      /\ UNCHANGED <<now, tokens, people, usage, references, made, scenario>>
  BY DEF EditExploration
<1>2. /\ call[r] \in Call /\ r \in Under /\ Holder(r) # NoToken /\ call[r].target \in Targets
  BY <1>1, Inside
<1>3. call[r].target.path = "edit"
      /\ (Holder(r).scope = "case" => call[r].under \cap Holder(r).cases # {})
  BY <1>1, <1>2 DEF IInv, Granted, Holder
<1>4. call[r].target.on \in Explorations
  BY <1>2, <1>3, TargetFields
<1>5. InBounds([token |-> call[r].token, path |-> "exploration",
                on |-> call[r].target.on, under |-> call[r].under])
  BY <1>2, <1>3 DEF InBounds, Holder
<1>6. QED
  BY <1>1, <1>2, <1>4, <1>5, WritesKeep

LEMMA TakeKeeps ==
    ASSUME IInv, NEW r \in Requests, TakeCase(r)
    PROVE  IInv'
<1>1. /\ call[r].pc = "inside" /\ call[r].target.path = "create"
      /\ UNCHANGED <<now, tokens, people, usage, references, made, wrote, scenario>>
  BY DEF TakeCase
<1>2. CASE Ends(r)
  BY <1>1, <1>2, EndKeeps
<1>3. CASE Moves(r, "taken")
  <2>1. /\ call[r] \in Call /\ call[r].pc # "resolved"
        /\ Bound(Holder(r), call[r].person) /\ PathAllowed(Holder(r), call[r].target)
        /\ usage[call[r].token][call[r].at] > 0 \/ InMemory
    BY <1>1, Inside
  <2>2. usage \in [Tokens -> [Times -> Nat]] /\ usage' = usage
    BY <1>1 DEF IInv, TypeOK
  <2>3. QED
    BY <1>1, <1>3, <2>1, <2>2, StepKeeps
<1>4. QED
  BY <1>2, <1>3 DEF TakeCase

LEMMA CreateKeeps ==
    ASSUME IInv, NEW r \in Requests, CreateExploration(r)
    PROVE  IInv'
<1>1. PICK x \in Explorations \ made :
         /\ made' = made \cup {x}
         /\ call' = [call EXCEPT ![r].pc = "made", ![r].new = {x}]
  BY DEF CreateExploration
<1>2. /\ call[r].pc = "taken"
      /\ UNCHANGED <<now, tokens, people, usage, references, wrote, scenario>>
  BY DEF CreateExploration
<1>3. PICK q : q = call[r]
  OBVIOUS
<1>4. PICK p : p = [q EXCEPT !.pc = "made", !.new = {x}]
  OBVIOUS
<1>5. q \in Call /\ r \in Under /\ Granted(q)
  BY <1>2, <1>3, Inside DEF IInv
<1>6. p \in Call
  BY <1>4, <1>5 DEF Call
<1>7. /\ p.pc = "made" /\ p.token = q.token /\ p.target = q.target /\ p.person = q.person
      /\ p.came = q.came /\ p.at = q.at /\ p.held = q.held /\ p.under = q.under
  BY <1>4, <1>5 DEF Call
<1>8. call' = [call EXCEPT ![r] = p]
  BY <1>1, <1>3, <1>4
<1>9. q.pc = "taken"
  BY <1>2, <1>3
<1>10. tokens' = tokens /\ holders' = holders /\ references' = references
       /\ scenario' = scenario /\ usage' = usage
  BY <1>2 DEF people
<1> DEFINE k == tokens[q.token]
<1>11. /\ k # NoToken /\ q.at \in Times /\ q.came < k.expires /\ q.held
       /\ q.target.path = "create"
       /\ usage[q.token][q.at] > 0 \/ InMemory
       /\ Bound(k, q.person) /\ PathAllowed(k, q.target)
  BY <1>5, <1>9 DEF Granted, Waiting
<1>12. Bound(tokens[p.token], p.person)' /\ (usage[p.token][p.at] > 0 \/ InMemory)'
  BY <1>7, <1>10, <1>11 DEF Bound, InMemory
<1>13. Granted(p)'
  BY <1>7, <1>10, <1>11, <1>12 DEF Granted
<1>14. /\ call' \in [Requests -> Call \cup {Idle}]
       /\ (\A s \in Under : Granted(call[s]))'
  BY <1>6, <1>8, <1>10, <1>13, CallMoves
<1>15. TypeOK'
  BY <1>1, <1>2, <1>14 DEF IInv, TypeOK, people
<1>16. (\A w \in wrote : InBounds(w))'
  BY <1>2, WritesRest DEF Kept
<1>17. QED
  BY <1>14, <1>15, <1>16 DEF IInv

\* The item is created in a case the token is kept to.
LEMMA AttachKeeps ==
    ASSUME IInv, NEW r \in Requests, AttachExploration(r)
    PROVE  IInv'
<1>1. /\ call[r].pc = "made" /\ Notes(Requests \ {r})
      /\ UNCHANGED <<now, tokens, people, usage, made, scenario>>
  BY DEF AttachExploration
<1>2. PICK x \in call[r].new :
        IF CanWrite(Holder(r), call[r].target.on) /\ call[r].target.on \notin closed
             THEN /\ references' = [references EXCEPT ![x] = @ \cup {call[r].target.on}]
                  /\ Writes(r, "tool")
             ELSE UNCHANGED <<references, wrote>>
  BY DEF AttachExploration
<1>3. /\ call[r] \in Call /\ r \in Under /\ Holder(r) # NoToken /\ call[r].target \in Targets
      /\ call[r].token \in Tokens /\ call[r].under \in SUBSET Cases /\ x \in Explorations
  BY <1>1, Inside, CallFields
<1>4. call[r].target.on \in Cases
  <2>1. call[r].target.path = "create"
    BY <1>1, <1>3 DEF IInv, Granted
  <2>2. QED
    BY <1>3, <2>1, TargetFields
<1>5. references' \in [Explorations -> SUBSET Cases]
  BY <1>2, <1>3, <1>4 DEF IInv, TypeOK
<1>6. /\ call' \in [Requests -> Call \cup {Idle}]
      /\ (\A s \in Under : Granted(call[s]))'
  BY <1>1, <1>5, CallsNote
<1>7. \A w \in wrote : InBounds(w)'
  BY <1>1, WritesRest DEF Kept
<1>8. CASE wrote' = wrote
  <2>1. TypeOK'
    BY <1>1, <1>5, <1>6, <1>8 DEF IInv, TypeOK, people
  <2>2. QED
    BY <1>6, <1>7, <1>8, <2>1 DEF IInv
<1>9. CASE CanWrite(Holder(r), call[r].target.on) /\ Writes(r, "tool")
  <2>1. PICK w : w = [token |-> call[r].token, path |-> "tool", on |-> call[r].target.on,
                      under |-> call[r].under]
    OBVIOUS
  <2>2. /\ w \in [token : Tokens, path : {"case", "people", "tool", "exploration"},
                  on : Cases \cup Explorations, under : SUBSET Cases]
        /\ wrote' = wrote \cup {w}
    BY <1>3, <1>4, <1>9, <2>1 DEF Writes
  <2>3. Holder(r).scope = "case" => call[r].target.on \in Holder(r).cases
    BY <1>9 DEF CanWrite, CanRead
  <2>4. InBounds(w)
    BY <1>3, <2>1, <2>3 DEF InBounds, Holder
  <2>5. InBounds(w)'
    BY <1>1, <2>4 DEF InBounds
  <2>6. TypeOK'
    BY <1>1, <1>5, <1>6, <2>2 DEF IInv, TypeOK, people
  <2>7. QED
    BY <1>6, <1>7, <2>2, <2>5, <2>6 DEF IInv
<1>10. QED
  BY <1>2, <1>8, <1>9

-------------------------------------------------------------------------------
(* The theorems. *)

\* Every step keeps what the calls have been granted.
LEMMA NextKeeps == IInv /\ [Next]_vars => IInv'
<1> SUFFICES ASSUME IInv, [Next]_vars PROVE IInv'
  OBVIOUS
<1>1. CASE UNCHANGED vars
  <2>1. TypeOK'
    BY <1>1 DEF vars, people, IInv, TypeOK
  <2>2. (\A s \in Under : Granted(call[s]))'
    BY <1>1, CallsRest DEF vars, people, Kept
  <2>3. (\A w \in wrote : InBounds(w))'
    BY <1>1, WritesRest DEF vars, Kept
  <2>4. QED
    BY <2>1, <2>2, <2>3 DEF IInv
<1>2. ASSUME NEW t \in Tokens, Mint(t) \/ Revoke(t) PROVE IInv'
  BY <1>2, MintKeeps, RevokeKeeps
<1>3. CASE \/ Tick \/ ChangeHolders
           \/ \E c \in Cases : ChangeAccess(c) \/ CloseOrReopen(c)
           \/ \E x \in Explorations : MakeExploration(x) \/ \E c \in Cases : ChangeReference(x, c)
  BY <1>3, PeopleKeep
<1>4. ASSUME NEW r \in Requests,
             \/ Resolve(r) \/ CheckPermission(r) \/ Count(r) \/ Record(r) \/ CountAndRecord(r)
             \/ Enter(r)
      PROVE  IInv'
  BY <1>4, ResolveKeeps, PermissionKeeps, RateKeeps, EnterKeeps
<1>5. ASSUME NEW r \in Requests,
             \/ WorkOnCase(r) \/ SaveExploration(r) \/ LoadExploration(r) \/ EditExploration(r)
             \/ TakeCase(r) \/ CreateExploration(r) \/ AttachExploration(r)
      PROVE  IInv'
  BY <1>5, WorkKeeps, SaveKeeps, LoadKeeps, EditKeeps, TakeKeeps, CreateKeeps, AttachKeeps
<1>6. QED
  BY <1>1, <1>2, <1>3, <1>4, <1>5 DEF Next

\* What a call has been granted holds in every reachable state.
THEOREM Invariance == Spec => []IInv
<1>1. QED
  BY InitGranted, NextKeeps, PTL DEF Spec

\* Tokens, calls, usage and what was written keep their types.
THEOREM TypeCorrect == Spec => []TypeOK
<1>1. IInv => TypeOK
  BY DEF IInv
<1>2. QED
  BY <1>1, Invariance, PTL

\* A call that is inside came before its token expired, was recorded, belongs to
\* the person on the request and to somebody who held the permission since it
\* came; what it writes is not a person's to change and lies in the token's cases.
THEOREM AgentsStayInBounds == Spec => []AgentsKeepBounds
<1>1. IInv => Admitted
  <2> SUFFICES ASSUME IInv, NEW r \in Requests, call[r] # Idle, call[r].pc \notin Waiting
               PROVE  LET q == call[r]
                          k == tokens[q.token]
                      IN  /\ q.came < k.expires
                          /\ q.held
                          /\ usage[q.token][q.at] > 0 \/ InMemory
                          /\ scenario.databricks /\ q.pc # "recorded" =>
                                q.person \in {Nobody, k.owner}
    BY DEF Admitted, Waiting
  <2>1. Granted(call[r])
    BY DEF IInv, Under
  <2>2. QED
    BY <2>1 DEF Granted, Waiting, Bound
<1>2. IInv => StaysInScope
  BY DEF IInv, InBounds, StaysInScope
<1>3. IInv => AgentsKeepBounds
  BY <1>1, <1>2 DEF AgentsKeepBounds
<1>4. QED
  BY <1>3, Invariance, PTL

-------------------------------------------------------------------------------
(* The limit of a minute. *)

\* The times a minute takes in: its end belongs to it in the database, not in memory.
Minute(from) ==
    IF InMemory THEN {i \in Times : from <= i /\ i < from + Window}
    ELSE {i \in Times : from <= i /\ i <= from + Window}

\* The calls of a token that were counted and whose row would fall in a minute.
Counted(t, from) ==
    {r \in Requests : call[r].pc = "counted" /\ call[r].token = t /\ call[r].at \in Minute(from)}

\* A call that was counted may still add its row: with those, a minute holds no more
\* than the count left room for and the calls that were under way with the last one.
MinuteKeeps(t, from) ==
    /\ IsFiniteSet(Rows(t, Times))
    /\ IF InMemory THEN Recorded(t, Minute(from)) <= Limit
       ELSE Recorded(t, Minute(from)) + Cardinality(Counted(t, from)) <= Limit + scenario.atOnce - 1

RateInv ==
    /\ IsFiniteSet(Under) /\ Cardinality(Under) <= scenario.atOnce
    /\ InMemory => \A r \in Requests : call[r].pc # "counted"
    /\ \A t \in Tokens, from \in Times : MinuteKeeps(t, from)

LEMMA RateNumbers ==
    ASSUME TypeOK
    PROVE  /\ Limit \in Nat /\ Window \in Nat /\ MaxTime \in Nat /\ Times \subseteq Nat
           /\ Limit >= 1 /\ scenario.atOnce \in Nat /\ scenario.atOnce >= 1 /\ now \in Times
BY NumbersAssumption, ScenarioAssumption DEF TypeOK, Times

\* Rows of fewer times are fewer.
LEMMA FewerRows ==
    ASSUME NEW t, IsFiniteSet(Rows(t, Times)), NEW few \in SUBSET Times, NEW many \in SUBSET Times,
           few \subseteq many
    PROVE  /\ IsFiniteSet(Rows(t, few)) /\ Recorded(t, few) \in Nat
           /\ Recorded(t, many) \in Nat /\ Recorded(t, few) <= Recorded(t, many)
<1>1. Rows(t, many) \in SUBSET Rows(t, Times) /\ Rows(t, few) \in SUBSET Rows(t, many)
  BY DEF Rows
<1>2. IsFiniteSet(Rows(t, many))
  BY <1>1, FS_Subset
<1>3. IsFiniteSet(Rows(t, few)) /\ Cardinality(Rows(t, few)) <= Cardinality(Rows(t, many))
  BY <1>1, <1>2, FS_Subset
<1>4. QED
  BY <1>2, <1>3, FS_CardinalityType DEF Recorded

\* A minute in numbers.
LEMMA MinuteCounts ==
    ASSUME TypeOK, RateInv, NEW t \in Tokens, NEW from \in Times
    PROVE  /\ Minute(from) \in SUBSET Times /\ Recorded(t, Minute(from)) \in Nat
           /\ IsFiniteSet(Rows(t, Minute(from)))
           /\ IsFiniteSet(Counted(t, from)) /\ Cardinality(Counted(t, from)) \in Nat
           /\ Cardinality(Counted(t, from)) <= Cardinality(Under) /\ Cardinality(Under) \in Nat
<1>1. Minute(from) \in SUBSET Times
  BY DEF Minute
<1>2. IsFiniteSet(Rows(t, Times))
  BY DEF RateInv, MinuteKeeps
<1>3. Recorded(t, Minute(from)) \in Nat /\ IsFiniteSet(Rows(t, Minute(from)))
  BY <1>1, <1>2, FewerRows
<1>4. Counted(t, from) \in SUBSET Under
  BY DEF Counted, Under, Idle
<1>5. IsFiniteSet(Counted(t, from)) /\ Cardinality(Counted(t, from)) <= Cardinality(Under)
  BY <1>4, FS_Subset DEF RateInv
<1>6. QED
  BY <1>1, <1>3, <1>5, FS_CardinalityType DEF RateInv

LEMMA InitRate == Init => RateInv
<1> SUFFICES ASSUME Init PROVE RateInv
  OBVIOUS
<1>1. TypeOK
  BY InitGranted DEF IInv
<1>2. Under = {} /\ \A r \in Requests : call[r].pc # "counted"
  BY DEF Init, Under, Idle
<1>3. IsFiniteSet({}) /\ Cardinality({}) = 0
  BY FS_EmptySet
<1>4. ASSUME NEW t \in Tokens, NEW from \in Times PROVE MinuteKeeps(t, from)
  <2>1. \A times \in SUBSET Times : Rows(t, times) = {}
    BY DEF Init, Rows
  <2>2. Counted(t, from) = {} /\ Minute(from) \in SUBSET Times
    BY <1>2 DEF Counted, Minute
  <2>3. Rows(t, Times) = {} /\ Rows(t, Minute(from)) = {}
    BY <2>1, <2>2
  <2>4. QED
    BY <1>1, <1>3, <2>2, <2>3, RateNumbers DEF MinuteKeeps, Recorded
<1>5. QED
  BY <1>1, <1>2, <1>3, <1>4, RateNumbers DEF RateInv

\* The calls there are, or one more below the limit of a scenario.
UnderStays ==
    /\ IsFiniteSet(Under') /\ Cardinality(Under') <= scenario.atOnce
    /\ \A r \in Requests : call'[r].pc = "counted" =>
          /\ call[r].pc = "counted"
          /\ call'[r].token = call[r].token /\ call'[r].at = call[r].at

\* Nobody is counted and no row is added.
LEMMA NobodyCounts ==
    ASSUME TypeOK, TypeOK', RateInv, usage' = usage, scenario' = scenario, UnderStays
    PROVE  RateInv'
<1>1. IsFiniteSet(Under') /\ Cardinality(Under') <= scenario'.atOnce
  BY DEF UnderStays
<1>2. InMemory' => \A r \in Requests : call'[r].pc # "counted"
  BY DEF UnderStays, RateInv, InMemory
<1>3. ASSUME NEW t \in Tokens, NEW from \in Times PROVE MinuteKeeps(t, from)'
  <2>1. Minute(from)' = Minute(from)
    BY DEF Minute, InMemory
  <2>2. Rows(t, Times)' = Rows(t, Times) /\ Recorded(t, Minute(from))' = Recorded(t, Minute(from))
    BY <2>1 DEF Rows, Recorded
  <2>3. Counted(t, from)' \in SUBSET Counted(t, from)
    BY <2>1 DEF Counted, UnderStays
  <2>4. /\ IsFiniteSet(Counted(t, from)) /\ Cardinality(Counted(t, from)) \in Nat
        /\ Recorded(t, Minute(from)) \in Nat
    BY MinuteCounts
  <2>5. /\ IsFiniteSet(Counted(t, from)')
        /\ Cardinality(Counted(t, from)') <= Cardinality(Counted(t, from))
    BY <2>3, <2>4, FS_Subset
  <2>6. Cardinality(Counted(t, from)') \in Nat
    BY <2>5, FS_CardinalityType
  <2>7. MinuteKeeps(t, from) /\ InMemory' = InMemory
    BY DEF RateInv, InMemory
  <2>8. QED
    BY <2>2, <2>4, <2>5, <2>6, <2>7, RateNumbers DEF MinuteKeeps
<1>4. QED
  BY <1>1, <1>2, <1>3 DEF RateInv

\* A row more.
LEMMA RowAdded ==
    ASSUME TypeOK, RateInv, NEW t \in Tokens, NEW at \in Times, Records(t, at),
           NEW times \in SUBSET Times
    PROVE  /\ \A k \in Tokens : k # t => Rows(k, times)' = Rows(k, times)
           /\ IsFiniteSet(Rows(t, times)')
           /\ at \in times => Recorded(t, times)' = Recorded(t, times) + 1
           /\ at \notin times => Recorded(t, times)' = Recorded(t, times)
<1> DEFINE n == usage[t][at]
<1>1. usage \in [Tokens -> [Times -> Nat]] /\ usage[t] \in [Times -> Nat] /\ n \in Nat
  BY DEF TypeOK
<1>2. usage' = [usage EXCEPT ![t] = [usage[t] EXCEPT ![at] = n + 1]]
  BY DEF Records
<1>3. /\ usage'[t][at] = n + 1 /\ \A i \in Times : i # at => usage'[t][i] = usage[t][i]
      /\ \A k \in Tokens : k # t => usage'[k] = usage[k]
  BY <1>1, <1>2
<1>4. \A k \in Tokens : k # t => Rows(k, times)' = Rows(k, times)
  BY <1>3 DEF Rows
<1>5. 1 .. (n + 1) = (1 .. n) \cup {n + 1} /\ n + 1 \notin 1 .. n
  BY <1>1
<1>6. /\ at \in times => Rows(t, times)' = Rows(t, times) \cup {<<at, n + 1>>}
      /\ at \notin times => Rows(t, times)' = Rows(t, times)
  BY <1>3, <1>5 DEF Rows
<1>7. <<at, n + 1>> \notin Rows(t, times)
  BY <1>5 DEF Rows
<1>8. IsFiniteSet(Rows(t, times))
  <2>1. IsFiniteSet(Rows(t, Times))
    BY RateNumbers DEF RateInv, MinuteKeeps
  <2>2. QED
    BY <2>1, FewerRows
<1>9. QED
  BY <1>4, <1>6, <1>7, <1>8, FS_AddElement DEF Recorded

\* A call goes on or ends, and is not counted.
LEMMA OneGoesOn ==
    ASSUME TypeOK, RateInv, NEW r \in Requests, call[r] # Idle, NEW p, call' = [call EXCEPT ![r] = p],
           p.pc # "counted"
    PROVE  UnderStays
<1>1. call \in [Requests -> Call \cup {Idle}]
  BY DEF TypeOK
<1>2. call'[r] = p /\ \A s \in Requests : s # r => call'[s] = call[s]
  BY <1>1
<1>3. Under' \in SUBSET Under
  BY <1>2 DEF Under
<1>4. IsFiniteSet(Under') /\ Cardinality(Under') <= Cardinality(Under)
  BY <1>3, FS_Subset DEF RateInv
<1>5. Cardinality(Under') \in Nat /\ Cardinality(Under) \in Nat
  BY <1>4, FS_CardinalityType DEF RateInv
<1>6. QED
  BY <1>2, <1>4, <1>5, RateNumbers DEF UnderStays, RateInv

LEMMA MovedOn ==
    ASSUME TypeOK, RateInv, NEW r \in Requests, NEW pc, pc # "counted", call[r].pc # "idle",
           Moves(r, pc) \/ Ends(r)
    PROVE  UnderStays
<1>1. call \in [Requests -> Call \cup {Idle}] /\ call[r] # Idle /\ call[r] \in Call
  BY DEF TypeOK, Idle
<1>2. CASE Moves(r, pc)
  <2>1. call' = [call EXCEPT ![r] = [call[r] EXCEPT !.pc = pc]]
    BY <1>2 DEF Moves
  <2>2. [call[r] EXCEPT !.pc = pc].pc = pc
    BY <1>1 DEF Call
  <2>3. QED
    BY <1>1, <2>1, <2>2, OneGoesOn
<1>3. CASE Ends(r)
  <2>1. call' = [call EXCEPT ![r] = Idle] /\ Idle.pc # "counted"
    BY <1>3 DEF Ends, Idle
  <2>2. QED
    BY <1>1, <2>1, OneGoesOn
<1>4. QED
  BY <1>2, <1>3

\* The calls take note of something.
LEMMA NotesStay ==
    ASSUME TypeOK, RateInv, NEW stay \in SUBSET Requests, Notes(stay)
    PROVE  UnderStays
<1>1. ASSUME NEW s \in Requests
      PROVE  /\ call[s] = Idle => call'[s] = Idle
             /\ call'[s].pc = "counted" =>
                   /\ call[s].pc = "counted"
                   /\ call'[s].token = call[s].token /\ call'[s].at = call[s].at
  <2> PICK q : q = call[s]
    OBVIOUS
  <2>1. CASE q = Idle \/ s \notin stay
    <3>1. call'[s] = Idle
      BY <2>1 DEF Notes
    <3>2. QED
      BY <3>1 DEF Idle
  <2>2. CASE q # Idle /\ s \in stay
    <3> PICK holds : holds = (q.held \/ tokens[q.token].owner \in holders')
      OBVIOUS
    <3> PICK seen : seen = q.under \cup IF q.target.path = "edit"
                                        THEN references'[q.target.on] ELSE {}
      OBVIOUS
    <3>1. call'[s] = [q EXCEPT !.held = holds, !.under = seen]
      BY <2>2 DEF Notes
    <3>2. q \in Call
      BY <2>2 DEF TypeOK
    <3>3. call'[s].pc = q.pc /\ call'[s].token = q.token /\ call'[s].at = q.at
      BY <3>1, <3>2 DEF Call
    <3>4. QED
      BY <2>2, <3>3
  <2>3. QED
    BY <2>1, <2>2
<1>2. Under' \in SUBSET Under
  BY <1>1 DEF Under
<1>3. IsFiniteSet(Under') /\ Cardinality(Under') <= Cardinality(Under)
  BY <1>2, FS_Subset DEF RateInv
<1>4. Cardinality(Under') \in Nat /\ Cardinality(Under) \in Nat
  BY <1>3, FS_CardinalityType DEF RateInv
<1>5. QED
  BY <1>1, <1>3, <1>4, RateNumbers DEF UnderStays, RateInv

\* A call comes.
LEMMA ResolveStays ==
    ASSUME TypeOK, RateInv, NEW r \in Requests, Resolve(r)
    PROVE  UnderStays
<1>. PICK t \in Tokens, target \in Targets, person \in People \cup {Nobody} :
        /\ call[r] = Idle /\ Cardinality({q \in Requests : call[q] # Idle}) < scenario.atOnce
        /\ call' = [call EXCEPT ![r] =
               [pc |-> "resolved", token |-> t, target |-> target, person |-> person,
                came |-> now, at |-> 0, new |-> {}, held |-> tokens[t].owner \in holders,
                under |-> IF target.path = "edit" THEN references[target.on] ELSE {}]]
  BY DEF Resolve
<1>. PICK holds, seen :
        call' = [call EXCEPT ![r] =
           [pc |-> "resolved", token |-> t, target |-> target, person |-> person,
            came |-> now, at |-> 0, new |-> {}, held |-> holds, under |-> seen]]
  OBVIOUS
<1>1. call[r] = Idle /\ Cardinality(Under) < scenario.atOnce
  BY DEF Under
<1>2. call \in [Requests -> Call \cup {Idle}]
  BY DEF TypeOK
<1>3. call'[r].pc = "resolved" /\ \A s \in Requests : s # r => call'[s] = call[s]
  BY <1>2
<1>4. Under' = Under \cup {r}
  BY <1>3 DEF Under, Idle
<1>5. /\ IsFiniteSet(Under \cup {r})
      /\ Cardinality(Under \cup {r}) = IF r \in Under THEN Cardinality(Under) ELSE Cardinality(Under) + 1
  BY FS_AddElement DEF RateInv
<1>6. Cardinality(Under) \in Nat
  BY FS_CardinalityType DEF RateInv
<1>7. QED
  BY <1>1, <1>3, <1>4, <1>5, <1>6, RateNumbers DEF UnderStays

\* A call is counted: the minutes that take in its time lie in what it has looked at.
LEMMA CountKeepsRate ==
    ASSUME TypeOK, TypeOK', RateInv, NEW r \in Requests, Count(r)
    PROVE  RateInv'
<1> DEFINE looked == {i \in Times : i + Window >= call[r].at}
<1>1. /\ call[r].pc = "permitted" /\ ~InMemory /\ usage' = usage /\ scenario' = scenario
      /\ \/ AtLimit(Recorded(call[r].token, looked)) /\ Ends(r)
         \/ ~AtLimit(Recorded(call[r].token, looked)) /\ Moves(r, "counted")
  BY DEF Count
<1>2. CASE Ends(r)
  <2>1. UnderStays
    BY <1>1, <1>2, MovedOn
  <2>2. QED
    BY <1>1, <2>1, NobodyCounts
<1>3. CASE ~AtLimit(Recorded(call[r].token, looked)) /\ Moves(r, "counted")
  <2>1. call \in [Requests -> Call \cup {Idle}] /\ call[r] \in Call /\ call[r] # Idle
    BY <1>1 DEF TypeOK, Idle
  <2>2. call' = [call EXCEPT ![r] = [call[r] EXCEPT !.pc = "counted"]]
    BY <1>3 DEF Moves
  <2>3. /\ call'[r] \in Call /\ call'[r].token = call[r].token /\ call'[r].at = call[r].at
        /\ call'[r].pc = "counted"
        /\ \A s \in Requests : s # r => call'[s] = call[s]
    BY <2>1, <2>2 DEF Call
  <2>4. Under' = Under
    BY <2>1, <2>3 DEF Under, Idle
  <2>5. ASSUME NEW t \in Tokens, NEW from \in Times PROVE MinuteKeeps(t, from)'
    <3>1. /\ Minute(from)' = Minute(from) /\ Rows(t, Times)' = Rows(t, Times)
          /\ Recorded(t, Minute(from))' = Recorded(t, Minute(from)) /\ ~InMemory'
      BY <1>1 DEF Minute, InMemory, Rows, Recorded
    <3>2. /\ Minute(from) \in SUBSET Times /\ Recorded(t, Minute(from)) \in Nat
          /\ IsFiniteSet(Counted(t, from)) /\ Cardinality(Counted(t, from)) \in Nat
          /\ Cardinality(Under) \in Nat /\ IsFiniteSet(Rows(t, Times))
      BY MinuteCounts DEF RateInv, MinuteKeeps
    <3>3. CASE t = call[r].token /\ call[r].at \in Minute(from)
      <4>1. \A i \in Minute(from) : i + Window >= call[r].at
        <5>1. \A i \in Minute(from) : i \in Nat /\ from \in Nat /\ from <= i
          BY <1>1, RateNumbers DEF Minute
        <5>2. call[r].at <= from + Window /\ call[r].at \in Nat
          BY <1>1, <3>3, RateNumbers DEF Minute
        <5>3. QED
          BY <5>1, <5>2, RateNumbers
      <4>2. Minute(from) \subseteq looked /\ looked \in SUBSET Times
        BY <3>2, <4>1
      <4>3. Recorded(t, Minute(from)) <= Recorded(t, looked) /\ Recorded(t, looked) \in Nat
        BY <3>2, <4>2, FewerRows
      <4>4. Recorded(t, looked) < Limit
        BY <1>3, <3>3, <4>3, RateNumbers DEF AtLimit
      <4>5. Counted(t, from)' \in SUBSET Under
        BY <2>4 DEF Counted, Under, Idle
      <4>6. /\ IsFiniteSet(Counted(t, from)')
            /\ Cardinality(Counted(t, from)') <= Cardinality(Under)
        BY <4>5, FS_Subset DEF RateInv
      <4>7. Cardinality(Counted(t, from)') \in Nat
        BY <4>6, FS_CardinalityType
      <4>8. QED
        BY <1>1, <3>1, <3>2, <4>3, <4>4, <4>6, <4>7, RateNumbers DEF MinuteKeeps, RateInv
    <3>4. CASE ~(t = call[r].token /\ call[r].at \in Minute(from))
      <4>1. Counted(t, from)' = Counted(t, from)
        BY <1>1, <2>3, <3>1, <3>4 DEF Counted
      <4>2. QED
        BY <1>1, <3>1, <4>1 DEF MinuteKeeps, RateInv
    <3>5. QED
      BY <3>3, <3>4
  <2>6. QED
    BY <1>1, <2>4, <2>5 DEF RateInv, InMemory
<1>4. QED
  BY <1>1, <1>2, <1>3

\* A counted call adds its row, or fails to.
LEMMA RecordKeepsRate ==
    ASSUME TypeOK, TypeOK', RateInv, NEW r \in Requests, Record(r), call[r].at \in Times
    PROVE  RateInv'
<1>1. /\ call[r].pc = "counted" /\ ~InMemory /\ scenario' = scenario
      /\ \/ Records(call[r].token, call[r].at) /\ Moves(r, "recorded")
         \/ usage' = usage /\ Ends(r)
  BY DEF Record, RateInv
<1>2. UnderStays
  BY <1>1, MovedOn
<1>3. CASE usage' = usage
  BY <1>1, <1>2, <1>3, NobodyCounts
<1>4. CASE Records(call[r].token, call[r].at) /\ Moves(r, "recorded")
  <2>1. call \in [Requests -> Call \cup {Idle}] /\ call[r] \in Call
    BY <1>1 DEF TypeOK, Idle
  <2>2. call' = [call EXCEPT ![r] = [call[r] EXCEPT !.pc = "recorded"]]
    BY <1>4 DEF Moves
  <2>3. call'[r].pc = "recorded" /\ \A s \in Requests : s # r => call'[s] = call[s]
    BY <2>1, <2>2 DEF Call
  <2>. PICK at \in Times, k \in Tokens : at = call[r].at /\ k = call[r].token
    BY <2>1 DEF Call
  <2>4. ASSUME NEW t \in Tokens, NEW from \in Times PROVE MinuteKeeps(t, from)'
    <3>1. Minute(from)' = Minute(from) /\ ~InMemory'
      BY <1>1 DEF Minute, InMemory
    <3>2. /\ Minute(from) \in SUBSET Times /\ Recorded(t, Minute(from)) \in Nat
          /\ IsFiniteSet(Counted(t, from)) /\ Cardinality(Counted(t, from)) \in Nat
          /\ IsFiniteSet(Rows(t, Times))
          /\ Recorded(t, Minute(from)) + Cardinality(Counted(t, from)) <= Limit + scenario.atOnce - 1
      BY <1>1, MinuteCounts DEF RateInv, MinuteKeeps
    <3>3. Counted(t, from)' = Counted(t, from) \ {r}
      BY <1>1, <2>3, <3>1 DEF Counted
    <3>4. CASE t = k
      <4>1. Times \in SUBSET Times
        OBVIOUS
      <4>2. IsFiniteSet(Rows(t, Times)')
        BY <1>4, <3>4, <4>1, RowAdded
      <4>3. Recorded(t, Minute(from))' =
               IF at \in Minute(from) THEN Recorded(t, Minute(from)) + 1 ELSE Recorded(t, Minute(from))
        <5>1. /\ at \in Minute(from) => Recorded(t, Minute(from))' = Recorded(t, Minute(from)) + 1
              /\ at \notin Minute(from) => Recorded(t, Minute(from))' = Recorded(t, Minute(from))
          <6>. PICK times \in SUBSET Times : times = Minute(from)
            BY <3>2
          <6>1. /\ at \in times => Recorded(t, times)' = Recorded(t, times) + 1
                /\ at \notin times => Recorded(t, times)' = Recorded(t, times)
            BY <1>4, <3>4, RowAdded
          <6>2. Recorded(t, Minute(from))' = Recorded(t, times)'
            BY <3>1 DEF Recorded, Rows
          <6>3. QED
            BY <6>1, <6>2
        <5>2. QED
          BY <5>1
      <4>4. r \in Counted(t, from) <=> at \in Minute(from)
        BY <1>1, <3>4 DEF Counted
      <4>5. Cardinality(Counted(t, from)') =
               IF at \in Minute(from) THEN Cardinality(Counted(t, from)) - 1 ELSE Cardinality(Counted(t, from))
        BY <3>2, <3>3, <4>4, FS_RemoveElement
      <4>6. QED
        BY <1>1, <3>1, <3>2, <4>2, <4>3, <4>5, RateNumbers DEF MinuteKeeps
    <3>5. CASE t # k
      <4>1. \A times \in SUBSET Times : Rows(t, times)' = Rows(t, times)
        BY <1>4, <3>5, RowAdded
      <4>2. Rows(t, Times)' = Rows(t, Times)
        BY <4>1
      <4>3. Recorded(t, Minute(from))' = Recorded(t, Minute(from))
        <5>. PICK times \in SUBSET Times : times = Minute(from)
          BY <3>2
        <5>1. Rows(t, times)' = Rows(t, times)
          BY <4>1
        <5>2. QED
          BY <3>1, <5>1 DEF Recorded, Rows
      <4>4. Counted(t, from)' = Counted(t, from)
        BY <3>3, <3>5 DEF Counted
      <4>5. QED
        BY <1>1, <3>1, <3>2, <4>2, <4>3, <4>4 DEF MinuteKeeps
    <3>6. QED
      BY <3>4, <3>5
  <2>5. QED
    BY <1>1, <1>2, <2>3, <2>4 DEF RateInv, UnderStays, InMemory
<1>5. QED
  BY <1>1, <1>3, <1>4

\* In memory the count and the row are one step.
LEMMA BothKeepRate ==
    ASSUME TypeOK, TypeOK', RateInv, NEW r \in Requests, CountAndRecord(r)
    PROVE  RateInv'
<1> DEFINE looked == {i \in Times : i + Window > now}
<1>1. /\ call[r].pc = "permitted" /\ InMemory /\ scenario' = scenario
      /\ \/ usage' = usage /\ Ends(r)
         \/ ~AtLimit(Recorded(call[r].token, looked)) /\ Records(call[r].token, now) /\ Moves(r, "recorded")
  BY DEF CountAndRecord
<1>2. UnderStays
  BY <1>1, MovedOn
<1>3. CASE usage' = usage
  BY <1>1, <1>2, <1>3, NobodyCounts
<1>4. CASE ~AtLimit(Recorded(call[r].token, looked)) /\ Records(call[r].token, now)
  <2>. PICK at \in Times, k \in Tokens : at = now /\ k = call[r].token
    BY <1>1, RateNumbers DEF TypeOK, Call, Idle
  <2>1. ASSUME NEW t \in Tokens, NEW from \in Times PROVE MinuteKeeps(t, from)'
    <3>1. Minute(from)' = Minute(from) /\ InMemory'
      BY <1>1 DEF Minute, InMemory
    <3>. PICK times \in SUBSET Times : times = Minute(from)
      BY DEF Minute
    <3>2. /\ Recorded(t, times) \in Nat /\ Recorded(t, times) <= Limit
          /\ IsFiniteSet(Rows(t, Times))
      BY <1>1, MinuteCounts DEF RateInv, MinuteKeeps
    <3>3. Recorded(t, Minute(from))' = Recorded(t, times)'
      BY <3>1 DEF Recorded, Rows
    <3>4. CASE t = k
      <4>1. /\ at \in times => Recorded(t, times)' = Recorded(t, times) + 1
            /\ at \notin times => Recorded(t, times)' = Recorded(t, times)
        BY <1>4, <3>4, RowAdded
      <4>2. Times \in SUBSET Times
        OBVIOUS
      <4>3. IsFiniteSet(Rows(t, Times)')
        BY <1>4, <3>4, <4>2, RowAdded
      <4>4. CASE at \in times
        <5>1. \A i \in times : i + Window > at
          <6>1. at < from + Window /\ \A i \in times : from <= i
            BY <1>1, <4>4 DEF Minute
          <6>2. QED
            BY <6>1, RateNumbers
        <5>2. times \subseteq looked /\ looked \in SUBSET Times
          BY <5>1
        <5>3. Recorded(t, times) <= Recorded(t, looked) /\ Recorded(t, looked) \in Nat
          BY <3>2, <5>2, FewerRows
        <5>4. Recorded(t, looked) < Limit
          BY <1>4, <3>4, <5>3, RateNumbers DEF AtLimit
        <5>5. QED
          BY <3>1, <3>2, <3>3, <4>1, <4>3, <4>4, <5>3, <5>4, RateNumbers DEF MinuteKeeps
      <4>5. CASE at \notin times
        BY <3>1, <3>2, <3>3, <4>1, <4>3, <4>5 DEF MinuteKeeps
      <4>6. QED
        BY <4>4, <4>5
    <3>5. CASE t # k
      <4>1. \A some \in SUBSET Times : Rows(t, some)' = Rows(t, some)
        BY <1>4, <3>5, RowAdded
      <4>2. Rows(t, Times)' = Rows(t, Times) /\ Recorded(t, times)' = Recorded(t, times)
        BY <4>1 DEF Recorded
      <4>3. QED
        BY <3>1, <3>2, <3>3, <4>2 DEF MinuteKeeps
    <3>6. QED
      BY <3>4, <3>5
  <2>2. QED
    BY <1>1, <1>2, <2>1 DEF RateInv, UnderStays, InMemory
<1>5. QED
  BY <1>1, <1>3, <1>4

LEMMA NextKeepsRate == IInv /\ IInv' /\ RateInv /\ [Next]_vars => RateInv'
<1> SUFFICES ASSUME IInv, IInv', RateInv, [Next]_vars PROVE RateInv'
  OBVIOUS
<1>. TypeOK /\ TypeOK'
  BY DEF IInv
<1>1. CASE call' = call /\ usage' = usage /\ scenario' = scenario
  <2>1. UnderStays
    BY <1>1 DEF UnderStays, RateInv, Under
  <2>2. QED
    BY <1>1, <2>1, NobodyCounts
<1>2. CASE UNCHANGED vars
  BY <1>1, <1>2 DEF vars
<1>3. CASE \/ \E t \in Tokens : Mint(t) \/ Revoke(t)
           \/ Tick
           \/ \E c \in Cases : ChangeAccess(c) \/ CloseOrReopen(c)
           \/ \E x \in Explorations : MakeExploration(x)
  <2>1. call' = call /\ usage' = usage /\ scenario' = scenario
    BY <1>3 DEF Mint, Revoke, Tick, ChangeAccess, CloseOrReopen, MakeExploration
  <2>2. QED
    BY <1>1, <2>1
<1>4. CASE ChangeHolders \/ \E x \in Explorations, c \in Cases : ChangeReference(x, c)
  <2>1. usage' = usage /\ scenario' = scenario /\ Notes(Requests)
    BY <1>4 DEF ChangeHolders, ChangeReference
  <2>2. UnderStays
    BY <2>1, NotesStay
  <2>3. QED
    BY <2>1, <2>2, NobodyCounts
<1>5. ASSUME NEW r \in Requests, Resolve(r) PROVE RateInv'
  <2>1. usage' = usage /\ scenario' = scenario /\ UnderStays
    BY <1>5, ResolveStays DEF Resolve
  <2>2. QED
    BY <2>1, NobodyCounts
<1>6. ASSUME NEW r \in Requests, CheckPermission(r) PROVE RateInv'
  <2>1. UnderStays
    <3>1. CASE Ends(r)
      BY <1>6, <3>1, MovedOn DEF CheckPermission
    <3>2. CASE call' = [call EXCEPT ![r].pc = "permitted", ![r].at = Stamp]
      <4>1. call \in [Requests -> Call \cup {Idle}] /\ call[r] \in Call /\ call[r] # Idle
        BY <1>6 DEF CheckPermission, TypeOK, Idle
      <4>. PICK p : p = [call[r] EXCEPT !.pc = "permitted", !.at = Stamp]
        OBVIOUS
      <4>2. call' = [call EXCEPT ![r] = p] /\ p.pc = "permitted"
        BY <3>2, <4>1 DEF Call
      <4>3. QED
        BY <4>1, <4>2, OneGoesOn
    <3>3. QED
      BY <1>6, <3>1, <3>2 DEF CheckPermission
  <2>2. QED
    BY <1>6, <2>1, NobodyCounts DEF CheckPermission
<1>7. ASSUME NEW r \in Requests, Count(r) \/ Record(r) \/ CountAndRecord(r) PROVE RateInv'
  <2>1. Record(r) => call[r].at \in Times
    BY DEF Record, IInv, Under, Granted, Idle
  <2>2. QED
    BY <1>7, <2>1, CountKeepsRate, RecordKeepsRate, BothKeepRate
<1>8. ASSUME NEW r \in Requests,
             \/ Enter(r) \/ WorkOnCase(r) \/ SaveExploration(r) \/ LoadExploration(r)
             \/ EditExploration(r) \/ TakeCase(r)
      PROVE  RateInv'
  <2>1. /\ usage' = usage /\ scenario' = scenario /\ call[r].pc # "idle"
        /\ \/ Ends(r)
           \/ \E pc \in {"inside", "loaded", "taken"} : Moves(r, pc)
    BY <1>8 DEF Enter, WorkOnCase, SaveExploration, LoadExploration, EditExploration, TakeCase
  <2>2. UnderStays
    BY <2>1, MovedOn
  <2>3. QED
    BY <2>1, <2>2, NobodyCounts
<1>9. ASSUME NEW r \in Requests, CreateExploration(r) PROVE RateInv'
  <2>1. call \in [Requests -> Call \cup {Idle}] /\ call[r] \in Call /\ call[r] # Idle
    BY <1>9 DEF CreateExploration, TypeOK, Idle
  <2>2. PICK x \in Explorations : call' = [call EXCEPT ![r].pc = "made", ![r].new = {x}]
    BY <1>9 DEF CreateExploration
  <2>. PICK p : p = [call[r] EXCEPT !.pc = "made", !.new = {x}]
    OBVIOUS
  <2>3. call' = [call EXCEPT ![r] = p] /\ p.pc = "made"
    BY <2>1, <2>2 DEF Call
  <2>4. UnderStays
    BY <2>1, <2>3, OneGoesOn
  <2>5. QED
    BY <1>9, <2>4, NobodyCounts DEF CreateExploration
<1>10. ASSUME NEW r \in Requests, AttachExploration(r) PROVE RateInv'
  <2>1. usage' = usage /\ scenario' = scenario /\ Notes(Requests \ {r})
    BY <1>10 DEF AttachExploration
  <2>2. UnderStays
    BY <2>1, NotesStay
  <2>3. QED
    BY <2>1, <2>2, NobodyCounts
<1>11. QED
  BY <1>2, <1>3, <1>4, <1>5, <1>6, <1>7, <1>8, <1>9, <1>10 DEF Next

\* However calls overlap with each other and with the clock, a minute holds no more calls
\* of a token than the limit and those that were under way at once; in memory no more
\* than the limit (_agent_rate_limited, _MemoryWindows).
THEOREM RateLimited == Spec => []RateHolds
<1>1. IInv /\ RateInv => RateHolds
  <2> SUFFICES ASSUME IInv, RateInv, NEW t \in Tokens, NEW from \in Times
               PROVE  Recorded(t, Minute(from)) <= IF InMemory THEN Limit ELSE Limit + scenario.atOnce - 1
    BY DEF RateHolds, Minute
  <2>1. TypeOK
    BY DEF IInv
  <2>2. MinuteKeeps(t, from)
    BY DEF RateInv
  <2>3. QED
    BY <2>1, <2>2, MinuteCounts, RateNumbers DEF MinuteKeeps
<1>2. QED
  BY InitRate, NextKeepsRate, Invariance, <1>1, PTL DEF Spec

================================================================================
