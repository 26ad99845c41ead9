------------------------------- MODULE Lookups -------------------------------
(***************************************************************************)
(* What the API process asks the Databricks workspace and remembers:       *)
(* whose a user token is (services/identity_verification.py), the groups   *)
(* of a user (services/group_resolution.py) and the token the process      *)
(* itself carries when it asks for them (services/databricks_oauth.py).    *)
(*                                                                         *)
(* One user token and one user: the keys of a cache share only a lock that *)
(* nobody holds across an await, so each cache is one entry.  The lock of  *)
(* the process's own token is held while it is exchanged.                  *)
(***************************************************************************)
EXTENDS Integers, Sequences, FiniteSets

CONSTANTS Requests,   \* coroutines that may look something up at once
          Traffic,    \* what they do in a behaviour: the cache of identities and
                      \* that of groups share nothing and may be explored apart
          Ttl,        \* an entry younger than this is served as it is
          StaleMax,   \* and an identity younger than this when nobody answers
          Life, Lead, \* expires_in of a token and the 300 s taken off it
          Patience,   \* the time-out of a call, in ticks
          MaxTime

ASSUME LookupTimes == /\ Traffic \subseteq SUBSET {"identity", "groups", "refresh"}
                      /\ {Ttl, StaleMax, Life, Lead, Patience, MaxTime} \subseteq Nat
                      /\ Ttl <= StaleMax
                      /\ 2 * Patience <= Lead

VARIABLES now,
          workspace,  \* since when the token is revoked and the groups changed
          identity,   \* _cache of the verifier
          groups,     \* _cache of the resolver
          token,      \* _current_token: when it is over, here and at the server
          lock,       \* _token_lock: its holder, then those who wait
          req,        \* the coroutines
          asked       \* a member of Traffic

vars == <<now, workspace, identity, groups, token, lock, req, asked>>
caches == <<identity, groups>>
world == <<now, workspace, asked>>

Times == 0 .. MaxTime
Never == MaxTime + 1
Absent == [there |-> FALSE]

(* An entry stored with fetched_at = 0.0 was due long ago. *)
LongAgo == 0 - StaleMax

Identities == {Absent} \cup [there : {TRUE}, says : {"valid", "rejected"}, at : Times]
Names == {"before", "after", "empty"}
Memberships == {Absent} \cup [there : {TRUE}, says : Names, at : Times \cup {LongAgo}]
Tokens == {Absent} \cup
          [there : {TRUE}, until : Int, over : 0 .. MaxTime + Life]

Idle == [op |-> "none", pc |-> "idle"]

(***************************************************************************)
(* A lookup: when it began, the entry it saw, when its call was sent, the  *)
(* end of the token it carries (groups), what it was told, how it answers. *)
(***************************************************************************)
Places == {"lock", "exchange", "issued", "asking", "told", "done"}

TypeOK ==
  /\ now \in Times
  /\ workspace \in [revoked : Times \cup {Never}, changed : Times \cup {Never}]
  /\ identity \in Identities
  /\ groups \in Memberships
  /\ token \in Tokens
  /\ asked \in Traffic
  /\ lock \in Seq(Requests)
  /\ \A r \in Requests :
       \/ req[r] = Idle
       \/ /\ req[r].pc \in Places
          /\ req[r].at \in Times /\ req[r].sent \in Times
          /\ \/ req[r].op = "identity" /\ req[r].entry \in Identities
             \/ req[r].op = "groups" /\ req[r].entry \in Memberships
          /\ req[r].source \in {"fresh", "cache", "stale", "none"}
          /\ req[r].pc = "done" /\ req[r].op = "groups" => req[r].says \in Names

Init ==
  /\ now = 0
  /\ workspace = [revoked |-> Never, changed |-> Never]
  /\ identity = Absent
  /\ groups = Absent
  /\ token = Absent
  /\ lock = <<>>
  /\ req = [r \in Requests |-> Idle]
  /\ asked \in Traffic

-----------------------------------------------------------------------------
(* The workspace and the clock *)

Revoked == workspace.revoked # Never
NamesNow == IF workspace.changed = Never THEN "before" ELSE "after"

(* Calls on their way to a server or back *)
Calling(r) == req[r].pc \in {"exchange", "issued", "asking", "told"}

(* No call takes longer than its time-out. *)
Tick ==
  /\ now < MaxTime
  /\ \A r \in Requests : Calling(r) => now < req[r].sent + Patience
  /\ now' = now + 1
  /\ UNCHANGED <<workspace, asked, caches, token, lock, req>>

Revoke ==
  /\ "identity" \in asked
  /\ ~Revoked
  /\ workspace' = [workspace EXCEPT !.revoked = now]
  /\ UNCHANGED <<now, asked, caches, token, lock, req>>

GroupsChange ==
  /\ "groups" \in asked
  /\ workspace.changed = Never
  /\ workspace' = [workspace EXCEPT !.changed = now]
  /\ UNCHANGED <<now, asked, caches, token, lock, req>>

-----------------------------------------------------------------------------
(* How a request goes on *)

Begun(op, entry) ==
  [op |-> op, pc |-> "asking", at |-> now, sent |-> now, entry |-> entry, carries |-> 0,
   says |-> "nothing", source |-> "none"]

Calls(r, to) == req' = [req EXCEPT ![r].pc = to, ![r].sent = now]
Told(r, what) ==
  req' = [req EXCEPT ![r].pc = "told", ![r].says = what,
                      ![r].entry = Absent, ![r].carries = 0]
Answers(r, what, source) ==
  req' = [req EXCEPT ![r] = [Begun(req[r].op, Absent) EXCEPT
                              !.pc = "done", !.at = req[r].at, !.says = what, !.source = source]]

Fresh(entry) == entry.there /\ now - entry.at < Ttl

(* verify and groups_for serve an entry within its time to live at once. *)
FromCache(r, op, entry) ==
  /\ Fresh(entry)
  /\ req' = [req EXCEPT ![r] = [Begun(op, Absent) EXCEPT
                                 !.pc = "done", !.says = entry.says, !.source = "cache"]]

(* The answer is used and the coroutine is over. *)
Leave(r) ==
  /\ req[r].pc = "done"
  /\ req' = [req EXCEPT ![r] = Idle]
  /\ UNCHANGED <<world, caches, token, lock>>

-----------------------------------------------------------------------------
(* Whose token it is: DatabricksIdentityVerifier.verify *)

Verify(r) ==
  /\ "identity" \in asked
  /\ req[r] = Idle
  /\ \/ FromCache(r, "identity", identity)
     \/ /\ ~Fresh(identity)
        /\ req' = [req EXCEPT ![r] = Begun("identity", identity)]
  /\ UNCHANGED <<world, caches, token, lock>>

MeAnswers(r) ==
  /\ req[r].op = "identity" /\ req[r].pc = "asking"
  /\ Told(r, IF Revoked THEN "rejected" ELSE "valid")
  /\ UNCHANGED <<world, caches, token, lock>>

\* mutant: the entry is dated when it is stored
MeReturnsLate(r) ==
  /\ req[r].op = "identity" /\ req[r].pc = "told"
  /\ identity' = [there |-> TRUE, says |-> req[r].says, at |-> now]
  /\ Answers(r, req[r].says, "fresh")
  /\ UNCHANGED <<world, groups, token, lock>>

(* The entry is as old as the request: `now` is read before the call. *)
MeReturns(r) ==
  /\ req[r].op = "identity" /\ req[r].pc = "told"
  /\ identity' = [there |-> TRUE, says |-> req[r].says, at |-> req[r].at]
  /\ Answers(r, req[r].says, "fresh")
  /\ UNCHANGED <<world, groups, token, lock>>

\* mutant: a check that failed is stored as a verdict
MeFailsStored(r) ==
  /\ req[r].op = "identity" /\ req[r].pc = "asking"
  /\ identity' = [there |-> TRUE, says |-> "nothing", at |-> req[r].at]
  /\ Answers(r, "nothing", "none")
  /\ UNCHANGED <<world, groups, token, lock>>

(* Without an answer, the entry seen at the start serves up to StaleMax. *)
MeFails(r) ==
  /\ req[r].op = "identity" /\ req[r].pc = "asking"
  /\ LET entry == req[r].entry
     IN IF entry.there /\ entry.says = "valid" /\ req[r].at - entry.at < StaleMax
        THEN Answers(r, "valid", "stale")
        ELSE Answers(r, "nothing", "none")
  /\ UNCHANGED <<world, caches, token, lock>>

-----------------------------------------------------------------------------
(* The token of the process: DatabricksOAuthService *)

Holds(r) == lock # <<>> /\ Head(lock) = r
Valid == token.there /\ now < token.until

(* The lock is released with the token in hand: a lookup sends its call with it. *)
Carries(r, over) ==
  /\ lock' = Tail(lock)
  /\ req' = [req EXCEPT ![r].pc = "asking", ![r].sent = now, ![r].carries = over]

TokenHeld(r) ==
  /\ req[r].pc = "lock"
  /\ Holds(r)
  /\ \/ Valid /\ Carries(r, token.over)
     \/ ~Valid /\ Calls(r, "exchange") /\ UNCHANGED lock
  /\ UNCHANGED <<world, caches, token>>

(* The workspace issues a token that lasts Life from now on. *)
TokenIssued(r) ==
  /\ req[r].pc = "exchange"
  /\ req' = [req EXCEPT ![r].pc = "issued", ![r].carries = now + Life]
  /\ UNCHANGED <<world, caches, token, lock>>

\* mutant: the token is kept for all the time the workspace gives it
ExchangeReturnsAll(r) ==
  /\ req[r].pc = "issued"
  /\ token' = [there |-> TRUE, until |-> now + Life, over |-> req[r].carries]
  /\ Carries(r, req[r].carries)
  /\ UNCHANGED <<world, caches>>

ExchangeReturns(r) ==
  /\ req[r].pc = "issued"
  /\ token' = [there |-> TRUE, until |-> now + Life - Lead, over |-> req[r].carries]
  /\ Carries(r, req[r].carries)
  /\ UNCHANGED <<world, caches>>

-----------------------------------------------------------------------------
(* The groups of a user: DatabricksScimResolver *)

GroupsFor(r) ==
  /\ "groups" \in asked
  /\ req[r] = Idle
  /\ \/ FromCache(r, "groups", groups) /\ UNCHANGED lock
     \/ /\ ~Fresh(groups)
        /\ req' = [req EXCEPT ![r] = [Begun("groups", groups) EXCEPT !.pc = "lock"]]
        /\ lock' = Append(lock, r)
  /\ UNCHANGED <<world, caches, token>>

ScimAnswers(r) ==
  /\ req[r].op = "groups" /\ req[r].pc = "asking"
  /\ now < req[r].carries
  /\ Told(r, NamesNow)
  /\ UNCHANGED <<world, caches, token, lock>>

ScimReturns(r) ==
  /\ req[r].op = "groups" /\ req[r].pc = "told"
  /\ groups' = [there |-> TRUE, says |-> req[r].says, at |-> req[r].at]
  /\ Answers(r, req[r].says, "fresh")
  /\ UNCHANGED <<world, identity, token, lock>>

\* mutant: a failure is kept for the time to live as well
FailedLate(r) ==
  IF req[r].entry.there
  THEN groups' = req[r].entry /\ Answers(r, req[r].entry.says, "stale")
  ELSE groups' = [there |-> TRUE, says |-> "empty", at |-> now] /\ Answers(r, "empty", "none")

(* The entry seen at the start is stored again, with its date; without one  *)
(* the failure is stored as an entry that is due.                           *)
Failed(r) ==
  IF req[r].entry.there
  THEN groups' = req[r].entry /\ Answers(r, req[r].entry.says, "stale")
  ELSE groups' = [there |-> TRUE, says |-> "empty", at |-> LongAgo] /\ Answers(r, "empty", "none")

ScimFails(r) ==
  /\ req[r].op = "groups" /\ req[r].pc = "asking"
  /\ Failed(r)
  /\ UNCHANGED <<world, identity, token, lock>>

\* mutant: the lock is only released by a token
ExchangeFailsHolding(r) ==
  /\ req[r].pc = "exchange"
  /\ UNCHANGED lock
  /\ Failed(r)
  /\ UNCHANGED <<world, identity, token>>

(* The exchange fails: the lock is released and the lookup fails with it.   *)
ExchangeFails(r) ==
  /\ req[r].pc = "exchange"
  /\ lock' = Tail(lock)
  /\ Failed(r)
  /\ UNCHANGED <<world, identity, token>>

(* refresh: an administrator drops the entry *)
Refresh ==
  /\ "refresh" \in asked
  /\ groups' = Absent
  /\ UNCHANGED <<world, identity, token, lock, req>>

-----------------------------------------------------------------------------

GoesOn(r) ==
  \/ Leave(r)
  \/ MeAnswers(r) \/ MeReturns(r) \/ MeFails(r)
  \/ TokenHeld(r) \/ TokenIssued(r) \/ ExchangeReturns(r) \/ ExchangeFails(r)
  \/ ScimAnswers(r) \/ ScimReturns(r) \/ ScimFails(r)

Next ==
  \/ Tick \/ Revoke \/ GroupsChange \/ Refresh
  \/ \E r \in Requests : \/ Verify(r) \/ GroupsFor(r)
                         \/ GoesOn(r)

Spec == Init /\ [][Next]_vars

(* Every call is answered or times out, and the event loop resumes who can  *)
(* go on.                                                                   *)
FairSpec == Spec /\ \A r \in Requests : WF_vars(GoesOn(r))

-----------------------------------------------------------------------------

Done(r, op) == req[r].op = op /\ req[r].pc = "done"

(* However long the workspace is silent and whichever lookup ends last: a   *)
(* revoked token is not accepted by a request that begins StaleMax after    *)
(* the revocation, nor, without asking the workspace, by one that begins    *)
(* Ttl after it (identity_verification.py, failure contract).               *)
RevokedIsRefused ==
  \A r \in Requests :
    Done(r, "identity") /\ req[r].says = "valid" /\ Revoked =>
      req[r].at < workspace.revoked +
        CASE req[r].source = "stale" -> StaleMax
          [] req[r].source = "cache" -> Ttl
          [] OTHER -> 1

(* Groups that the workspace does not list any more are not in an answer of *)
(* the workspace and are served from the cache for Ttl at most unless it is *)
(* silent, and what a failure left behind is never served as an answer of   *)
(* the workspace (group_resolution.py, failure contract).                   *)
GroupsAreRecent ==
  \A r \in Requests :
    Done(r, "groups") /\ req[r].source \in {"fresh", "cache"} =>
      /\ req[r].says # "empty"
      /\ req[r].says = "before" /\ workspace.changed # Never =>
            req[r].at < workspace.changed + IF req[r].source = "cache" THEN Ttl ELSE 1

(* A call never carries a token that is over when the workspace reads it:   *)
(* the Lead covers the exchange and the call (databricks_oauth.py).         *)
TokenIsAlive ==
  \A r \in Requests : req[r].op = "groups" /\ req[r].pc = "asking" => now < req[r].carries

(* What was answered was still good enough when it was, whichever lookup    *)
(* ended last.                                                             *)
AnswersAreGood == RevokedIsRefused /\ GroupsAreRecent /\ TokenIsAlive

(* Whoever asks is answered, also while the exchange of the token fails.    *)
Answered == \A r \in Requests : (req[r] # Idle) ~> (req[r] = Idle)

(* The properties below do not hold: README, section 5.                     *)

(* A token the workspace has rejected is not taken for valid again.          *)
RejectionSticks == [][identity.there /\ identity.says = "rejected"
                         => identity'.says = "rejected"]_vars

(* "SCIM error with a previously-resolved entry → serve the stale names":   *)
(* a resolved entry is not replaced by a failure.                           *)
ResolvedStays == [][groups.there /\ groups.says # "empty" /\ groups'.there
                      => groups'.says # "empty"]_vars
==============================================================================
