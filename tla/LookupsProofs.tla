---------------------------- MODULE LookupsProofs ----------------------------
(***************************************************************************)
(* Proofs about what the server asks others: of the workspace (Lookups)    *)
(* and of the warehouse (QueryJobs, Emulator and GraphRows, as MCQueries   *)
(* has them).                                                              *)
(*                                                                         *)
(* Lookups: what is answered is still good enough, however long the        *)
(* workspace is silent and whichever lookup ends last.  The invariant      *)
(* dates everything: an entry is as old as the request that asked for it,  *)
(* so that what it says was true at its date (Dated); a call under way is  *)
(* younger than its time-out; and a token is given up early enough for a   *)
(* call that starts just before (TokenLasts).                              *)
(***************************************************************************)
EXTENDS Lookups, MCQueries, SequenceTheorems, FiniteSetTheorems, WellFoundedInduction, TLAPS

Lookup ==
  [op : {"identity", "groups"}, pc : Places, at : Times, sent : Times,
   entry : Identities \cup Memberships, carries : 0 .. MaxTime + Life,
   says : {"nothing", "valid", "rejected"} \cup Names,
   source : {"fresh", "cache", "stale", "none"}]

(* A verdict dated at: the token was not revoked before. *)
Dated(says, at, world1) ==
  /\ says = "valid" /\ world1.revoked # Never => at <= world1.revoked
  /\ says = "before" /\ world1.changed # Never => at <= world1.changed

GoodIdentity(e, time, world1) ==
  /\ e \in Identities
  /\ e.there => e.at <= time /\ Dated(e.says, e.at, world1)

(* What a failure left behind is due. *)
GoodGroups(e, time, world1) ==
  /\ e \in Memberships
  /\ e.there => /\ e.at <= time /\ Dated(e.says, e.at, world1)
                /\ e.says = "empty" => e.at = LongAgo

TokenLasts == token \in Tokens /\ (token.there => token.until <= token.over - Patience)

InCall(q) == q.pc \in {"exchange", "issued", "asking", "told"}

(* A new token lasts longer than its exchange and the call it is for. *)
LongLived == 2 * Patience < Life

(* How far a lookup is, and what it may rely on. *)
GoodLookup(q, time, world1) ==
  /\ q \in Lookup
  /\ q.at <= time
  /\ InCall(q) => q.sent <= time /\ time <= q.sent + Patience
  /\ q.op = "identity" =>
       /\ q.pc \in {"asking", "told", "done"}
       /\ GoodIdentity(q.entry, q.at, world1)
       /\ q.pc = "told" => q.says \in {"valid", "rejected"} /\ Dated(q.says, q.at, world1)
       /\ q.pc = "done" /\ q.says = "valid" =>
            /\ q.source = "fresh" => Dated(q.says, q.at, world1)
            /\ q.source = "cache" =>
                 Ttl > 0 /\ (world1.revoked # Never => q.at < world1.revoked + Ttl)
            /\ q.source = "stale" =>
                 StaleMax > 0 /\ (world1.revoked # Never => q.at < world1.revoked + StaleMax)
            /\ q.source # "none"
  /\ q.op = "groups" =>
       /\ GoodGroups(q.entry, q.at, world1)
       /\ q.pc = "issued" => q.sent + Life <= q.carries
       /\ q.pc = "asking" /\ LongLived => q.sent + Patience < q.carries
       /\ q.pc = "told" => q.says \in {"before", "after"} /\ Dated(q.says, q.at, world1)
       /\ q.pc = "done" =>
            /\ q.says \in Names
            /\ q.source = "fresh" => q.says # "empty" /\ Dated(q.says, q.at, world1)
            /\ q.source = "cache" =>
                 /\ Ttl > 0 /\ q.says # "empty"
                 /\ q.says = "before" /\ world1.changed # Never => q.at < world1.changed + Ttl

(* Who exchanges the token holds the lock. *)
Holders == \A r \in Requests : req[r].pc \in {"exchange", "issued"} => Holds(r)

World ==
  /\ now \in Times /\ asked \in Traffic
  /\ workspace \in [revoked : Times \cup {Never}, changed : Times \cup {Never}]

IInv ==
  /\ World
  /\ GoodIdentity(identity, now, workspace)
  /\ GoodGroups(groups, now, workspace)
  /\ TokenLasts
  /\ lock \in Seq(Requests) /\ Holders
  /\ req \in [Requests -> {Idle} \cup Lookup]
  /\ \A r \in Requests : req[r] # Idle => GoodLookup(req[r], now, workspace)

-----------------------------------------------------------------------------
(* Data.                                                                    *)

LEMMA Numbers ==
  /\ Ttl \in Nat /\ StaleMax \in Nat /\ Life \in Nat /\ Lead \in Nat /\ Patience \in Nat
  /\ MaxTime \in Nat /\ Ttl <= StaleMax /\ 2 * Patience <= Lead /\ Times \subseteq Nat
  /\ Never \notin Times /\ LongAgo \in Int /\ LongAgo = 0 - StaleMax
  BY LookupTimes DEF Times, Never, LongAgo

LEMMA Things ==
  /\ Absent \in Identities /\ Absent \in Memberships /\ Absent.there = FALSE
  /\ Idle \notin Lookup /\ Idle.pc = "idle" /\ Idle.op = "none"
  BY DEF Absent, Identities, Memberships, Idle, Lookup

(* The verdicts of an entry. *)
LEMMA Ages ==
  /\ \A t \in Times : t \in Nat /\ t \in Int
  /\ \A t \in Times \cup {LongAgo} : t \in Int
<1>1. \A t \in Times : t \in Nat
  BY Numbers
<1>2. \A t \in Nat : t \in Int
  OBVIOUS
<1>3. LongAgo \in Int
  BY Numbers
<1>4. QED
  BY <1>1, <1>2, <1>3

LEMMA IdentityFields ==
  ASSUME NEW e \in Identities, e.there
  PROVE  e.says \in {"valid", "rejected"} /\ e.at \in Times /\ e.at \in Int
<1>1. CASE e = Absent
  BY <1>1, Things
<1>2. CASE e \in [there : {TRUE}, says : {"valid", "rejected"}, at : Times]
  BY <1>2, Ages
<1>3. QED
  BY <1>1, <1>2 DEF Identities

LEMMA MembershipFields ==
  ASSUME NEW e \in Memberships, e.there
  PROVE  e.says \in Names /\ e.at \in Times \cup {LongAgo} /\ e.at \in Int
<1>1. CASE e = Absent
  BY <1>1, Things
<1>2. CASE e \in [there : {TRUE}, says : Names, at : Times \cup {LongAgo}]
  BY <1>2, Ages
<1>3. QED
  BY <1>1, <1>2 DEF Memberships

(* A lookup under way stays good while the clock ticks, unless its call times out. *)
LEMMA TicksGood ==
  ASSUME NEW time \in Times, NEW world1, NEW q, GoodLookup(q, time, world1),
         InCall(q) => time < q.sent + Patience
  PROVE  GoodLookup(q, time + 1, world1)
<1>1. q.at \in Nat /\ q.sent \in Nat /\ time \in Nat /\ Patience \in Nat
  BY Numbers DEF GoodLookup, Lookup
<1>2. q.at <= time + 1 /\ (InCall(q) => q.sent <= time + 1 /\ time + 1 <= q.sent + Patience)
  BY <1>1 DEF GoodLookup
<1>3. QED
  BY <1>2 DEF GoodLookup

(* What was answered before the token is revoked, or before the groups change, is dated. *)
ChangesNow(time, old, new) ==
  /\ new.revoked = old.revoked \/ (old.revoked = Never /\ new.revoked = time)
  /\ new.changed = old.changed \/ (old.changed = Never /\ new.changed = time)

LEMMA ChangeDated ==
  ASSUME NEW time \in Times, NEW old, NEW new, ChangesNow(time, old, new),
         NEW says, NEW at \in Int, at <= time, Dated(says, at, old)
  PROVE  Dated(says, at, new)
<1>1. time \in Nat
  BY Numbers
<1>2. QED
  BY <1>1 DEF Dated, ChangesNow

LEMMA ChangeIdentity ==
  ASSUME NEW time \in Times, NEW old, NEW new, ChangesNow(time, old, new),
         NEW at \in Times, at <= time, NEW e, GoodIdentity(e, at, old)
  PROVE  GoodIdentity(e, at, new)
<1>1. CASE e.there
  <2>1. e.at \in Times /\ e.at <= at /\ Dated(e.says, e.at, old)
    BY <1>1, IdentityFields DEF GoodIdentity
  <2>2. e.at \in Int /\ e.at <= time
    <3>1. e.at \in Int /\ at \in Int /\ time \in Int
      BY <2>1, Ages
    <3>2. QED
      BY <2>1, <3>1
  <2>3. Dated(e.says, e.at, new)
    BY <2>1, <2>2, ChangeDated
  <2>4. QED
    BY <2>1, <2>3 DEF GoodIdentity
<1>2. CASE ~e.there
  BY <1>2 DEF GoodIdentity
<1>3. QED
  BY <1>1, <1>2

LEMMA ChangeGroups ==
  ASSUME NEW time \in Times, NEW old, NEW new, ChangesNow(time, old, new),
         NEW at \in Times, at <= time, NEW e, GoodGroups(e, at, old)
  PROVE  GoodGroups(e, at, new)
<1>1. CASE e.there
  <2>1. e.at \in Times \cup {LongAgo} /\ e.at <= at /\ Dated(e.says, e.at, old)
    BY <1>1, MembershipFields DEF GoodGroups
  <2>2. e.at \in Int /\ e.at <= time
    <3>1. e.at \in Int /\ at \in Int /\ time \in Int
      BY <2>1, Ages
    <3>2. QED
      BY <2>1, <3>1
  <2>3. Dated(e.says, e.at, new)
    BY <2>1, <2>2, ChangeDated
  <2>4. QED
    BY <2>1, <2>3 DEF GoodGroups
<1>2. CASE ~e.there
  BY <1>2 DEF GoodGroups
<1>3. QED
  BY <1>1, <1>2

LEMMA ChangeLookup ==
  ASSUME NEW time \in Times, NEW old, NEW new, ChangesNow(time, old, new),
         NEW q, GoodLookup(q, time, old)
  PROVE  GoodLookup(q, time, new)
<1>1. q \in Lookup /\ q.at \in Times /\ q.at <= time
  BY DEF GoodLookup, Lookup
<1>2. q.at \in Nat /\ time \in Nat /\ Ttl \in Nat /\ StaleMax \in Nat
  BY <1>1, Numbers
<1>3. Dated(q.says, q.at, old) => Dated(q.says, q.at, new)
  BY <1>1, <1>2, ChangeDated
<1>4. q.op = "identity" =>
        /\ q.pc \in {"asking", "told", "done"}
        /\ GoodIdentity(q.entry, q.at, new)
        /\ q.pc = "told" => q.says \in {"valid", "rejected"} /\ Dated(q.says, q.at, new)
        /\ q.pc = "done" /\ q.says = "valid" =>
             /\ q.source = "fresh" => Dated(q.says, q.at, new)
             /\ q.source = "cache" =>
                  Ttl > 0 /\ (new.revoked # Never => q.at < new.revoked + Ttl)
             /\ q.source = "stale" =>
                  StaleMax > 0 /\ (new.revoked # Never => q.at < new.revoked + StaleMax)
             /\ q.source # "none"
  <2>. SUFFICES ASSUME q.op = "identity"
       PROVE  /\ q.pc \in {"asking", "told", "done"}
              /\ GoodIdentity(q.entry, q.at, new)
              /\ q.pc = "told" => q.says \in {"valid", "rejected"} /\ Dated(q.says, q.at, new)
              /\ q.pc = "done" /\ q.says = "valid" =>
                   /\ q.source = "fresh" => Dated(q.says, q.at, new)
                   /\ q.source = "cache" =>
                        Ttl > 0 /\ (new.revoked # Never => q.at < new.revoked + Ttl)
                   /\ q.source = "stale" =>
                        StaleMax > 0 /\ (new.revoked # Never => q.at < new.revoked + StaleMax)
                   /\ q.source # "none"
    OBVIOUS
  <2>1. GoodIdentity(q.entry, q.at, old)
    BY DEF GoodLookup
  <2>2. GoodIdentity(q.entry, q.at, new)
    BY <1>1, <2>1, ChangeIdentity
  <2>3. Ttl > 0 /\ (old.revoked # Never => q.at < old.revoked + Ttl)
           => (new.revoked # Never => q.at < new.revoked + Ttl)
    BY <1>1, <1>2 DEF ChangesNow
  <2>4. StaleMax > 0 /\ (old.revoked # Never => q.at < old.revoked + StaleMax)
           => (new.revoked # Never => q.at < new.revoked + StaleMax)
    BY <1>1, <1>2 DEF ChangesNow
  <2>5. QED
    BY <1>3, <2>2, <2>3, <2>4 DEF GoodLookup
<1>5. q.op = "groups" =>
        /\ GoodGroups(q.entry, q.at, new)
        /\ q.pc = "told" => q.says \in {"before", "after"} /\ Dated(q.says, q.at, new)
        /\ q.pc = "done" =>
             /\ q.says \in Names
             /\ q.source = "fresh" => q.says # "empty" /\ Dated(q.says, q.at, new)
             /\ q.source = "cache" =>
                  /\ Ttl > 0 /\ q.says # "empty"
                  /\ q.says = "before" /\ new.changed # Never => q.at < new.changed + Ttl
  <2>. SUFFICES ASSUME q.op = "groups"
       PROVE  /\ GoodGroups(q.entry, q.at, new)
              /\ q.pc = "told" => q.says \in {"before", "after"} /\ Dated(q.says, q.at, new)
              /\ q.pc = "done" =>
                   /\ q.says \in Names
                   /\ q.source = "fresh" => q.says # "empty" /\ Dated(q.says, q.at, new)
                   /\ q.source = "cache" =>
                        /\ Ttl > 0 /\ q.says # "empty"
                        /\ q.says = "before" /\ new.changed # Never => q.at < new.changed + Ttl
    OBVIOUS
  <2>1. GoodGroups(q.entry, q.at, old)
    BY DEF GoodLookup
  <2>2. GoodGroups(q.entry, q.at, new)
    BY <1>1, <2>1, ChangeGroups
  <2>3. Ttl > 0 /\ (q.says = "before" /\ old.changed # Never => q.at < old.changed + Ttl)
           => (q.says = "before" /\ new.changed # Never => q.at < new.changed + Ttl)
    BY <1>1, <1>2 DEF ChangesNow
  <2>4. QED
    BY <1>3, <2>2, <2>3 DEF GoodLookup
<1>6. QED
  BY <1>4, <1>5 DEF GoodLookup

-----------------------------------------------------------------------------
(* The clock and the workspace.                                             *)

LEMMA InitHolds == Init => IInv
<1>. SUFFICES ASSUME Init PROVE IInv
  OBVIOUS
<1>1. World
  BY Numbers DEF Init, World, Times
<1>2. GoodIdentity(identity, now, workspace) /\ GoodGroups(groups, now, workspace) /\ TokenLasts
  BY Things DEF Init, GoodIdentity, GoodGroups, TokenLasts, Tokens
<1>3. lock \in Seq(Requests) /\ req \in [Requests -> {Idle} \cup Lookup]
  BY DEF Init
<1>4. Holders
  BY Things DEF Init, Holders
<1>5. QED
  BY <1>1, <1>2, <1>3, <1>4 DEF IInv, Init

LEMMA TickKeeps ==
  ASSUME IInv, Tick
  PROVE  IInv'
<1>1. /\ now \in Times /\ now' = now + 1 /\ now' \in Times /\ now \in Nat /\ now < MaxTime
      /\ UNCHANGED <<workspace, asked, identity, groups, token, lock, req>>
  BY Numbers DEF Tick, IInv, World, Times, caches
<1>2. World'
  BY <1>1 DEF IInv, World
<1>3. GoodIdentity(identity, now, workspace)' /\ GoodGroups(groups, now, workspace)'
  <2>1. identity.there => identity.at \in Int
    BY IdentityFields DEF IInv, GoodIdentity
  <2>2. groups.there => groups.at \in Int
    BY MembershipFields DEF IInv, GoodGroups
  <2>3. GoodIdentity(identity, now + 1, workspace)
    BY <1>1, <2>1 DEF IInv, GoodIdentity
  <2>4. GoodGroups(groups, now + 1, workspace)
    BY <1>1, <2>2 DEF IInv, GoodGroups
  <2>5. QED
    BY <1>1, <2>3, <2>4
<1>4. (\A r \in Requests : req[r] # Idle => GoodLookup(req[r], now, workspace))'
  <2>. SUFFICES ASSUME NEW r \in Requests, req[r] # Idle
       PROVE  GoodLookup(req[r], now + 1, workspace)
    BY <1>1
  <2>1. InCall(req[r]) => now < req[r].sent + Patience
    BY DEF Tick, Calling, InCall
  <2>2. QED
    BY <1>1, <2>1, TicksGood DEF IInv
<1>5. QED
  BY <1>1, <1>2, <1>3, <1>4 DEF IInv, TokenLasts, Holders, Holds

LEMMA WorldKeeps ==
  ASSUME IInv, Revoke \/ GroupsChange
  PROVE  IInv'
<1>1. /\ now \in Times /\ UNCHANGED <<now, asked, identity, groups, token, lock, req>>
      /\ workspace \in [revoked : Times \cup {Never}, changed : Times \cup {Never}]
  BY DEF Revoke, GroupsChange, IInv, World, caches
<1>2. workspace' \in [revoked : Times \cup {Never}, changed : Times \cup {Never}]
      /\ ChangesNow(now, workspace, workspace')
  BY <1>1 DEF Revoke, GroupsChange, Revoked, ChangesNow
<1>3. now <= now
  BY <1>1, Numbers
<1>4. GoodIdentity(identity, now, workspace') /\ GoodGroups(groups, now, workspace')
  BY <1>1, <1>2, <1>3, ChangeIdentity, ChangeGroups DEF IInv
<1>5. \A r \in Requests : req[r] # Idle => GoodLookup(req[r], now, workspace')
  BY <1>1, <1>2, ChangeLookup DEF IInv
<1>6. QED
  BY <1>1, <1>2, <1>4, <1>5 DEF IInv, World, TokenLasts, Holders, Holds

-----------------------------------------------------------------------------
(* One lookup goes on.                                                      *)

(* What a lookup leaves behind when it is answered. *)
Answer(op, at, time, what, source) ==
  [op |-> op, pc |-> "done", at |-> at, sent |-> time, entry |-> Absent, carries |-> 0,
   says |-> what, source |-> source]

(* The lookup of r is where q says, and the rest of the process as it should be. *)
LEMMA OneGoesOn ==
  ASSUME IInv, NEW r \in Requests, NEW q, q = Idle \/ GoodLookup(q, now, workspace),
         req' = [req EXCEPT ![r] = q], UNCHANGED <<now, asked, workspace>>,
         GoodIdentity(identity', now, workspace), GoodGroups(groups', now, workspace),
         TokenLasts', lock' \in Seq(Requests), Holders'
  PROVE  IInv'
<1>1. req \in [Requests -> {Idle} \cup Lookup] /\ q \in {Idle} \cup Lookup
  BY DEF IInv, GoodLookup
<1>2. req' \in [Requests -> {Idle} \cup Lookup]
  BY <1>1
<1>3. \A s \in Requests : req'[s] = IF s = r THEN q ELSE req[s]
  BY <1>1
<1>4. \A s \in Requests : req'[s] # Idle => GoodLookup(req'[s], now, workspace)
  BY <1>3 DEF IInv
<1>5. World' /\ GoodIdentity(identity, now, workspace)' /\ GoodGroups(groups, now, workspace)'
  BY DEF IInv, World
<1>6. (\A s \in Requests : req[s] # Idle => GoodLookup(req[s], now, workspace))'
  BY <1>4
<1>7. QED
  BY <1>2, <1>5, <1>6 DEF IInv

(* The lock stays as it is while nobody begins an exchange without holding it. *)
LEMMA LockStays ==
  ASSUME IInv, NEW r \in Requests, NEW q, req' = [req EXCEPT ![r] = q], UNCHANGED lock,
         q.pc \in {"exchange", "issued"} => Holds(r)
  PROVE  lock' \in Seq(Requests) /\ Holders'
<1>1. \A s \in Requests : req'[s] = IF s = r THEN q ELSE req[s]
  BY DEF IInv
<1>2. \A s \in Requests : req'[s].pc \in {"exchange", "issued"} => Holds(s)
  BY <1>1 DEF IInv, Holders
<1>3. QED
  BY <1>2 DEF IInv, Holders, Holds

(* The lock goes to the next who waits: nobody else is in the exchange. *)
LEMMA LockPasses ==
  ASSUME IInv, NEW r \in Requests, NEW q, req' = [req EXCEPT ![r] = q], lock' = Tail(lock),
         Holds(r), q.pc \notin {"exchange", "issued"}
  PROVE  lock' \in Seq(Requests) /\ Holders'
<1>1. \A s \in Requests : req'[s] = IF s = r THEN q ELSE req[s]
  BY DEF IInv
<1>2. \A s \in Requests : req'[s].pc \notin {"exchange", "issued"}
  BY <1>1 DEF IInv, Holders, Holds
<1>3. lock' \in Seq(Requests)
  BY HeadTailProperties DEF IInv, Holds
<1>4. QED
  BY <1>2, <1>3 DEF Holders

(* An answered lookup is written as a new one with its end filled in. *)
LEMMA CachedIs ==
  ASSUME NEW op, NEW what
  PROVE  [Begun(op, Absent) EXCEPT !.pc = "done", !.says = what, !.source = "cache"]
           = Answer(op, now, now, what, "cache")
<1>. PICK q : q = [Begun(op, Absent) EXCEPT !.pc = "done", !.says = what, !.source = "cache"]
  OBVIOUS
<1>1. q \in [op : {op}, pc : {"done"}, at : {now}, sent : {now}, entry : {Absent}, carries : {0},
             says : {what}, source : {"cache"}]
  BY DEF Begun
<1>2. q = Answer(op, now, now, what, "cache")
  BY <1>1 DEF Answer
<1>3. QED
  BY <1>2

(* A lookup is answered where it was asked. *)
LEMMA AnswerShape ==
  ASSUME NEW r \in Requests, NEW what, NEW source, Answers(r, what, source)
  PROVE  req' = [req EXCEPT ![r] = Answer(req[r].op, req[r].at, now, what, source)]
<1>. PICK op, at : op = req[r].op /\ at = req[r].at
  OBVIOUS
<1>. PICK q : q = [Begun(op, Absent) EXCEPT !.pc = "done", !.at = at, !.says = what,
                                            !.source = source]
  OBVIOUS
<1>1. q \in [op : {op}, pc : {"done"}, at : {at}, sent : {now}, entry : {Absent}, carries : {0},
             says : {what}, source : {source}]
  BY DEF Begun
<1>2. q = Answer(op, at, now, what, source)
  BY <1>1 DEF Answer
<1>3. req' = [req EXCEPT ![r] = q]
  BY DEF Answers
<1>4. QED
  BY <1>2, <1>3

(* An answer about whose token it is. *)
LEMMA IdentityAnswered ==
  ASSUME IInv, NEW at \in Times, at <= now,
         NEW what \in {"nothing", "valid", "rejected"},
         NEW source \in {"fresh", "cache", "stale", "none"},
         what = "valid" =>
            /\ source = "fresh" => Dated(what, at, workspace)
            /\ source = "cache" =>
                 Ttl > 0 /\ (workspace.revoked # Never => at < workspace.revoked + Ttl)
            /\ source = "stale" =>
                 StaleMax > 0 /\ (workspace.revoked # Never => at < workspace.revoked + StaleMax)
            /\ source # "none"
  PROVE  GoodLookup(Answer("identity", at, now, what, source), now, workspace)
<1>. PICK q : q = Answer("identity", at, now, what, source)
  OBVIOUS
<1>1. now \in Times /\ MaxTime + Life \in Nat /\ 0 \in 0 .. MaxTime + Life
  BY Numbers DEF IInv, World
<1>2. /\ q.op = "identity" /\ q.pc = "done" /\ q.at = at /\ q.sent = now /\ q.entry = Absent
      /\ q.says = what /\ q.source = source /\ q.carries = 0
  BY DEF Answer
<1>3. q \in Lookup
  BY <1>1, Things DEF Answer, Lookup, Places
<1>4. GoodIdentity(q.entry, q.at, workspace)
  BY <1>2, Things DEF GoodIdentity
<1>5. ~InCall(q)
  BY <1>2 DEF InCall
<1>6. GoodLookup(q, now, workspace)
  BY <1>2, <1>3, <1>4, <1>5 DEF GoodLookup
<1>7. QED
  BY <1>6

(* An answer about the groups of a user. *)
LEMMA GroupsAnswered ==
  ASSUME IInv, NEW at \in Times, at <= now, NEW what \in Names,
         NEW source \in {"fresh", "cache", "stale", "none"},
         source = "fresh" => what # "empty" /\ Dated(what, at, workspace),
         source = "cache" =>
            /\ Ttl > 0 /\ what # "empty"
            /\ what = "before" /\ workspace.changed # Never => at < workspace.changed + Ttl
  PROVE  GoodLookup(Answer("groups", at, now, what, source), now, workspace)
<1>. PICK q : q = Answer("groups", at, now, what, source)
  OBVIOUS
<1>1. now \in Times /\ MaxTime + Life \in Nat /\ 0 \in 0 .. MaxTime + Life
  BY Numbers DEF IInv, World
<1>2. /\ q.op = "groups" /\ q.pc = "done" /\ q.at = at /\ q.sent = now /\ q.entry = Absent
      /\ q.says = what /\ q.source = source /\ q.carries = 0
  BY DEF Answer
<1>3. q \in Lookup
  BY <1>1, Things DEF Answer, Lookup, Places
<1>4. GoodGroups(q.entry, q.at, workspace)
  BY <1>2, Things DEF GoodGroups
<1>5. ~InCall(q)
  BY <1>2 DEF InCall
<1>6. GoodLookup(q, now, workspace)
  BY <1>2, <1>3, <1>4, <1>5 DEF GoodLookup
<1>7. QED
  BY <1>6

-----------------------------------------------------------------------------
(* Whose token it is.                                                       *)

LEMMA LeaveKeeps ==
  ASSUME IInv, NEW r \in Requests, Leave(r)
  PROVE  IInv'
<1>1. req' = [req EXCEPT ![r] = Idle]
      /\ UNCHANGED <<now, asked, workspace, identity, groups, token, lock>>
  BY DEF Leave, world, caches
<1>2. lock' \in Seq(Requests) /\ Holders'
  BY <1>1, LockStays, Things
<1>3. QED
  BY <1>1, <1>2, OneGoesOn DEF IInv, TokenLasts

LEMMA VerifyKeeps ==
  ASSUME IInv, NEW r \in Requests, Verify(r)
  PROVE  IInv'
<1>1. now \in Times /\ now \in Int /\ Ttl \in Nat /\ now <= now
  BY Numbers, Ages DEF IInv, World
<1>2. UNCHANGED <<now, asked, workspace, identity, groups, token, lock>>
  BY DEF Verify, world, caches
<1>3. CASE FromCache(r, "identity", identity)
  <2>. PICK e : e = identity
    OBVIOUS
  <2>1. e.there /\ e \in Identities /\ now - e.at < Ttl
    BY <1>3 DEF FromCache, Fresh, IInv, GoodIdentity
  <2>2. e.says \in {"valid", "rejected"} /\ e.at \in Int
    BY <2>1, IdentityFields
  <2>3. e.at <= now /\ Dated(e.says, e.at, workspace)
    BY <2>1 DEF IInv, GoodIdentity
  <2>4. Ttl > 0
    BY <1>1, <2>1, <2>2, <2>3
  <2>5. e.says = "valid" /\ workspace.revoked # Never => now < workspace.revoked + Ttl
    <3>. SUFFICES ASSUME e.says = "valid", workspace.revoked # Never
         PROVE  now < workspace.revoked + Ttl
      OBVIOUS
    <3>1. workspace.revoked \in Times /\ e.at <= workspace.revoked
      BY <2>3 DEF IInv, World, Dated
    <3>2. workspace.revoked \in Int
      BY <3>1, Ages
    <3>3. QED
      BY <1>1, <2>1, <2>2, <3>1, <3>2
  <2>. PICK says : says = e.says
    OBVIOUS
  <2>6. GoodLookup(Answer("identity", now, now, says, "cache"), now, workspace)
    BY <1>1, <2>2, <2>4, <2>5, IdentityAnswered
  <2>7. [Begun("identity", Absent) EXCEPT !.pc = "done", !.says = says, !.source = "cache"]
          = Answer("identity", now, now, says, "cache")
    BY CachedIs
  <2>8. req' = [req EXCEPT ![r] = Answer("identity", now, now, says, "cache")]
    BY <1>3, <2>7 DEF FromCache
  <2>. PICK q : q = Answer("identity", now, now, says, "cache")
    OBVIOUS
  <2>9. GoodLookup(q, now, workspace) /\ q.pc = "done"
    BY <2>6 DEF Answer
  <2>10. lock' \in Seq(Requests) /\ Holders'
    BY <1>2, <2>8, <2>9, LockStays
  <2>11. QED
    BY <1>2, <2>8, <2>9, <2>10, OneGoesOn DEF IInv, TokenLasts
<1>4. CASE req' = [req EXCEPT ![r] = Begun("identity", identity)]
  <2>. PICK q : q = Begun("identity", identity)
    OBVIOUS
  <2>1. /\ q.op = "identity" /\ q.pc = "asking" /\ q.at = now /\ q.sent = now
        /\ q.entry = identity
    BY DEF Begun
  <2>2. MaxTime + Life \in Nat /\ 0 \in 0 .. MaxTime + Life /\ now <= now + Patience
    BY <1>1, Numbers
  <2>3. identity \in Identities
    BY DEF IInv, GoodIdentity
  <2>4. q \in Lookup
    BY <1>1, <2>2, <2>3 DEF Begun, Lookup, Places
  <2>5. GoodLookup(q, now, workspace)
    BY <1>1, <2>1, <2>2, <2>4 DEF GoodLookup, IInv
  <2>6. lock' \in Seq(Requests) /\ Holders'
    BY <1>2, <1>4, <2>1, LockStays
  <2>7. QED
    BY <1>2, <1>4, <2>5, <2>6, OneGoesOn DEF IInv, TokenLasts
<1>5. QED
  BY <1>3, <1>4 DEF Verify

(* A call is answered: the lookup is told. *)
TellsOf(q, what) == [q EXCEPT !.pc = "told", !.says = what, !.entry = Absent, !.carries = 0]

LEMMA ToldKeeps ==
  ASSUME IInv, NEW r \in Requests, NEW what, Told(r, what), req[r] # Idle,
         req[r].pc = "asking",
         UNCHANGED <<now, asked, workspace, identity, groups, token, lock>>,
         req[r].op = "identity" => what \in {"valid", "rejected"},
         req[r].op = "groups" => what \in {"before", "after"},
         Dated(what, req[r].at, workspace)
  PROVE  IInv'
<1>. PICK old : old = req[r]
  OBVIOUS
<1>. PICK q : q = TellsOf(old, what)
  OBVIOUS
<1>1. GoodLookup(old, now, workspace) /\ old \in Lookup /\ old.pc = "asking"
  BY DEF IInv, GoodLookup
<1>2. what \in {"nothing", "valid", "rejected"} \cup Names
  BY <1>1 DEF Lookup, Names
<1>3. MaxTime + Life \in Nat /\ 0 \in 0 .. MaxTime + Life
  BY Numbers
<1>4. q \in Lookup
  BY <1>1, <1>2, <1>3, Things DEF TellsOf, Lookup, Places
<1>5. /\ q.op = old.op /\ q.pc = "told" /\ q.at = old.at /\ q.sent = old.sent
      /\ q.entry = Absent /\ q.says = what
  BY <1>1 DEF TellsOf, Lookup
<1>6. InCall(old)
  BY <1>1 DEF InCall
<1>7. GoodIdentity(q.entry, q.at, workspace) /\ GoodGroups(q.entry, q.at, workspace)
  BY <1>5, Things DEF GoodIdentity, GoodGroups
<1>8. GoodLookup(q, now, workspace)
  BY <1>1, <1>4, <1>5, <1>6, <1>7 DEF GoodLookup
<1>9. req' = [req EXCEPT ![r] = q]
  <2>1. req' \in [Requests -> {q} \cup {Idle} \cup Lookup]
    BY DEF Told, TellsOf, IInv
  <2>2. \A s \in Requests : req'[s] = IF s = r THEN q ELSE req[s]
    BY DEF Told, TellsOf, IInv
  <2>3. QED
    BY <2>1, <2>2 DEF IInv
<1>10. lock' \in Seq(Requests) /\ Holders'
  BY <1>5, <1>9, LockStays
<1>11. QED
  BY <1>8, <1>9, <1>10, OneGoesOn DEF IInv, TokenLasts

LEMMA MeAnswersKeeps ==
  ASSUME IInv, NEW r \in Requests, MeAnswers(r)
  PROVE  IInv'
<1>. PICK what : what = IF Revoked THEN "rejected" ELSE "valid"
  OBVIOUS
<1>1. /\ Told(r, what) /\ req[r].op = "identity" /\ req[r].pc = "asking" /\ req[r] # Idle
      /\ UNCHANGED <<now, asked, workspace, identity, groups, token, lock>>
  BY Things DEF MeAnswers, world, caches
<1>2. what \in {"valid", "rejected"} /\ Dated(what, req[r].at, workspace)
  BY DEF Dated, Revoked
<1>3. QED
  BY <1>1, <1>2, ToldKeeps

LEMMA MeReturnsKeeps ==
  ASSUME IInv, NEW r \in Requests, MeReturns(r)
  PROVE  IInv'
<1>. PICK old : old = req[r]
  OBVIOUS
<1>1. /\ GoodLookup(old, now, workspace) /\ old \in Lookup
      /\ old.op = "identity" /\ old.pc = "told"
  BY Things DEF MeReturns, IInv, GoodLookup
<1>2. /\ identity' = [there |-> TRUE, says |-> old.says, at |-> old.at]
      /\ Answers(r, old.says, "fresh")
      /\ UNCHANGED <<now, asked, workspace, groups, token, lock>>
  BY DEF MeReturns, world
<1>. PICK at, says : at = old.at /\ says = old.says
  OBVIOUS
<1>3. /\ at \in Times /\ at <= now /\ says \in {"valid", "rejected"} /\ Dated(says, at, workspace)
  BY <1>1 DEF GoodLookup, Lookup
<1>4. GoodIdentity(identity', now, workspace)
  BY <1>2, <1>3 DEF GoodIdentity, Identities
<1>5. GoodLookup(Answer("identity", at, now, says, "fresh"), now, workspace)
  BY <1>3, IdentityAnswered
<1>. PICK q : q = Answer("identity", at, now, says, "fresh")
  OBVIOUS
<1>6. req' = [req EXCEPT ![r] = q]
  BY <1>1, <1>2, AnswerShape
<1>7. GoodLookup(q, now, workspace) /\ q.pc = "done"
  BY <1>5 DEF Answer
<1>8. lock' \in Seq(Requests) /\ Holders'
  BY <1>2, <1>6, <1>7, LockStays
<1>9. QED
  BY <1>2, <1>4, <1>6, <1>7, <1>8, OneGoesOn DEF IInv, TokenLasts

LEMMA MeFailsKeeps ==
  ASSUME IInv, NEW r \in Requests, MeFails(r)
  PROVE  IInv'
<1>. PICK old, e, at : old = req[r] /\ e = old.entry /\ at = old.at
  OBVIOUS
<1>1. /\ GoodLookup(old, now, workspace) /\ old \in Lookup
      /\ old.op = "identity" /\ old.pc = "asking"
  BY Things DEF MeFails, IInv, GoodLookup
<1>2. UNCHANGED <<now, asked, workspace, identity, groups, token, lock>>
  BY DEF MeFails, world, caches
<1>3. at \in Times /\ at <= now /\ GoodIdentity(e, at, workspace)
  BY <1>1 DEF GoodLookup, Lookup
<1>4. at \in Int /\ StaleMax \in Nat
  BY <1>3, Ages, Numbers
<1>5. \E what \in {"nothing", "valid"}, source \in {"stale", "none"} :
        /\ Answers(r, what, source)
        /\ GoodLookup(Answer("identity", at, now, what, source), now, workspace)
  <2>1. CASE e.there /\ e.says = "valid" /\ at - e.at < StaleMax
    <3>1. e \in Identities /\ e.at <= at /\ Dated("valid", e.at, workspace)
      BY <1>3, <2>1 DEF GoodIdentity
    <3>2. e.at \in Int
      BY <2>1, <3>1, IdentityFields
    <3>3. StaleMax > 0
      BY <1>4, <2>1, <3>1, <3>2
    <3>4. workspace.revoked # Never => at < workspace.revoked + StaleMax
      <4>. SUFFICES ASSUME workspace.revoked # Never
           PROVE  at < workspace.revoked + StaleMax
        OBVIOUS
      <4>1. workspace.revoked \in Times /\ e.at <= workspace.revoked
        BY <3>1 DEF IInv, World, Dated
      <4>2. workspace.revoked \in Int
        BY <4>1, Ages
      <4>3. QED
        BY <1>4, <2>1, <3>2, <4>1, <4>2
    <3>5. GoodLookup(Answer("identity", at, now, "valid", "stale"), now, workspace)
      BY <1>3, <3>3, <3>4, IdentityAnswered
    <3>6. Answers(r, "valid", "stale")
      BY <2>1 DEF MeFails
    <3>7. QED
      BY <3>5, <3>6
  <2>2. CASE ~(e.there /\ e.says = "valid" /\ at - e.at < StaleMax)
    <3>1. GoodLookup(Answer("identity", at, now, "nothing", "none"), now, workspace)
      BY <1>3, IdentityAnswered
    <3>2. Answers(r, "nothing", "none")
      BY <2>2 DEF MeFails
    <3>3. QED
      BY <3>1, <3>2
  <2>3. QED
    BY <2>1, <2>2
<1>. PICK what \in {"nothing", "valid"}, source \in {"stale", "none"} :
        /\ Answers(r, what, source)
        /\ GoodLookup(Answer("identity", at, now, what, source), now, workspace)
  BY <1>5
<1>. PICK q : q = Answer("identity", at, now, what, source)
  OBVIOUS
<1>6. req' = [req EXCEPT ![r] = q]
  BY <1>1, AnswerShape
<1>7. GoodLookup(q, now, workspace) /\ q.pc = "done"
  BY DEF Answer
<1>8. lock' \in Seq(Requests) /\ Holders'
  BY <1>2, <1>6, <1>7, LockStays
<1>9. QED
  BY <1>2, <1>6, <1>7, <1>8, OneGoesOn DEF IInv, TokenLasts

-----------------------------------------------------------------------------
(* The token of the process.                                                *)

(* A lookup that waits for the lock or is exchanging is one about groups. *)
LEMMA ExchangeIsForGroups ==
  ASSUME IInv, NEW r \in Requests, req[r].pc \in {"lock", "exchange", "issued"}
  PROVE  /\ GoodLookup(req[r], now, workspace) /\ req[r] \in Lookup /\ req[r].op = "groups"
<1>1. GoodLookup(req[r], now, workspace) /\ req[r] \in Lookup
  BY Things DEF IInv, GoodLookup
<1>2. QED
  BY <1>1 DEF GoodLookup, Lookup

LEMMA TokenHeldKeeps ==
  ASSUME IInv, NEW r \in Requests, TokenHeld(r)
  PROVE  IInv'
<1>. PICK old : old = req[r]
  OBVIOUS
<1>1. GoodLookup(old, now, workspace) /\ old \in Lookup /\ old.op = "groups" /\ old.pc = "lock"
  BY ExchangeIsForGroups DEF TokenHeld
<1>2. UNCHANGED <<now, asked, workspace, identity, groups, token>> /\ Holds(r)
  BY DEF TokenHeld, world, caches
<1>3. /\ now \in Times /\ now \in Int /\ Patience \in Nat /\ MaxTime + Life \in Nat
      /\ old.at <= now /\ now <= now + Patience
  BY <1>1, Numbers, Ages DEF IInv, World, GoodLookup
<1>4. CASE Valid /\ Carries(r, token.over)
  <2>. PICK over : over = token.over
    OBVIOUS
  <2>. PICK q : q = [old EXCEPT !.pc = "asking", !.sent = now, !.carries = over]
    OBVIOUS
  <2>1. now < over - Patience /\ over \in 0 .. MaxTime + Life
    <3>. PICK tok : tok = token
      OBVIOUS
    <3>1. tok.there /\ now < tok.until /\ tok \in Tokens /\ tok.until <= tok.over - Patience
      BY <1>4 DEF Valid, IInv, TokenLasts
    <3>2. tok # Absent
      BY <3>1, Things
    <3>3. tok.until \in Int /\ tok.over \in 0 .. MaxTime + Life
      BY <3>1, <3>2 DEF Tokens
    <3>4. tok.over \in Int
      BY <1>3, <3>3
    <3>5. QED
      BY <1>3, <3>1, <3>3, <3>4
  <2>2. over \in Int /\ now + Patience < over
    BY <1>3, <2>1
  <2>3. q \in Lookup
    BY <1>1, <1>3, <2>1 DEF Lookup, Places
  <2>4. /\ q.op = "groups" /\ q.pc = "asking" /\ q.at = old.at /\ q.sent = now
        /\ q.entry = old.entry /\ q.carries = over
    BY <1>1 DEF Lookup
  <2>5. GoodLookup(q, now, workspace)
    BY <1>1, <1>3, <2>2, <2>3, <2>4 DEF GoodLookup
  <2>6. req' = [req EXCEPT ![r] = q] /\ lock' = Tail(lock)
    <3>1. \A s \in Requests : req'[s] = IF s = r THEN q ELSE req[s]
      BY <1>4 DEF Carries, IInv
    <3>2. req' \in [Requests -> {q} \cup {Idle} \cup Lookup]
      BY <1>4 DEF Carries, IInv
    <3>3. QED
      BY <1>4, <3>1, <3>2 DEF Carries, IInv
  <2>7. lock' \in Seq(Requests) /\ Holders'
    BY <1>2, <2>4, <2>6, LockPasses
  <2>8. QED
    BY <1>2, <2>5, <2>6, <2>7, OneGoesOn DEF IInv, TokenLasts
<1>5. CASE Calls(r, "exchange") /\ UNCHANGED lock
  <2>. PICK q : q = [old EXCEPT !.pc = "exchange", !.sent = now]
    OBVIOUS
  <2>1. q \in Lookup
    BY <1>1, <1>3 DEF Lookup, Places
  <2>2. /\ q.op = "groups" /\ q.pc = "exchange" /\ q.at = old.at /\ q.sent = now
        /\ q.entry = old.entry
    BY <1>1 DEF Lookup
  <2>3. GoodLookup(q, now, workspace)
    BY <1>1, <1>3, <2>1, <2>2 DEF GoodLookup
  <2>4. req' = [req EXCEPT ![r] = q]
    <3>1. \A s \in Requests : req'[s] = IF s = r THEN q ELSE req[s]
      BY <1>5 DEF Calls, IInv
    <3>2. req' \in [Requests -> {q} \cup {Idle} \cup Lookup]
      BY <1>5 DEF Calls, IInv
    <3>3. QED
      BY <3>1, <3>2 DEF IInv
  <2>5. lock' \in Seq(Requests) /\ Holders'
    BY <1>2, <1>5, <2>4, LockStays
  <2>6. QED
    BY <1>2, <2>3, <2>4, <2>5, OneGoesOn DEF IInv, TokenLasts
<1>6. QED
  BY <1>4, <1>5 DEF TokenHeld

LEMMA TokenIssuedKeeps ==
  ASSUME IInv, NEW r \in Requests, TokenIssued(r)
  PROVE  IInv'
<1>. PICK old : old = req[r]
  OBVIOUS
<1>. PICK q : q = [old EXCEPT !.pc = "issued", !.carries = now + Life]
  OBVIOUS
<1>1. /\ GoodLookup(old, now, workspace) /\ old \in Lookup /\ old.op = "groups"
      /\ old.pc = "exchange"
  BY ExchangeIsForGroups DEF TokenIssued
<1>2. UNCHANGED <<now, asked, workspace, identity, groups, token, lock>>
  BY DEF TokenIssued, world, caches
<1>3. Holds(r)
  BY <1>1 DEF IInv, Holders
<1>4. InCall(old)
  BY <1>1 DEF InCall
<1>5. old.sent \in Times /\ old.sent <= now /\ now <= old.sent + Patience
  BY <1>1, <1>4 DEF GoodLookup, Lookup
<1>6. now \in Times /\ now \in 0 .. MaxTime /\ now \in Nat /\ Life \in Nat /\ MaxTime \in Nat
      /\ old.sent \in Int
  BY <1>5, Numbers, Ages DEF IInv, World, Times
<1>7. now + Life \in 0 .. MaxTime + Life /\ old.sent + Life <= now + Life
  BY <1>5, <1>6
<1>8. q \in Lookup
  BY <1>1, <1>7 DEF Lookup, Places
<1>9. /\ q.op = "groups" /\ q.pc = "issued" /\ q.at = old.at /\ q.sent = old.sent
      /\ q.entry = old.entry /\ q.carries = now + Life
  BY <1>1 DEF Lookup
<1>10. GoodLookup(q, now, workspace)
  BY <1>1, <1>5, <1>7, <1>8, <1>9 DEF GoodLookup
<1>11. req' = [req EXCEPT ![r] = q]
  <2>1. \A s \in Requests : req'[s] = IF s = r THEN q ELSE req[s]
    BY DEF TokenIssued, IInv
  <2>2. req' \in [Requests -> {q} \cup {Idle} \cup Lookup]
    BY DEF TokenIssued, IInv
  <2>3. QED
    BY <2>1, <2>2 DEF IInv
<1>12. lock' \in Seq(Requests) /\ Holders'
  BY <1>2, <1>3, <1>11, LockStays
<1>13. QED
  BY <1>2, <1>10, <1>11, <1>12, OneGoesOn DEF IInv, TokenLasts

LEMMA ExchangeReturnsKeeps ==
  ASSUME IInv, NEW r \in Requests, ExchangeReturns(r)
  PROVE  IInv'
<1>. PICK old, over : old = req[r] /\ over = old.carries
  OBVIOUS
<1>. PICK q : q = [old EXCEPT !.pc = "asking", !.sent = now, !.carries = over]
  OBVIOUS
<1>1. /\ GoodLookup(old, now, workspace) /\ old \in Lookup /\ old.op = "groups"
      /\ old.pc = "issued"
  BY ExchangeIsForGroups DEF ExchangeReturns
<1>2. UNCHANGED <<now, asked, workspace, identity, groups>>
  BY DEF ExchangeReturns, world, caches
<1>3. Holds(r)
  BY <1>1 DEF IInv, Holders
<1>4. InCall(old)
  BY <1>1 DEF InCall
<1>5. /\ old.sent \in Times /\ old.sent <= now /\ now <= old.sent + Patience
      /\ old.sent + Life <= over /\ over \in 0 .. MaxTime + Life /\ old.at <= now
  BY <1>1, <1>4 DEF GoodLookup, Lookup
<1>6. /\ now \in Times /\ now \in Int /\ Life \in Nat /\ Lead \in Nat /\ Patience \in Nat
      /\ MaxTime \in Nat /\ 2 * Patience <= Lead /\ old.sent \in Int
  BY <1>5, Numbers, Ages DEF IInv, World
<1>7. over \in Int
  BY <1>5, <1>6
<1>8. now + Life - Lead \in Int /\ now + Life - Lead <= over - Patience
  BY <1>5, <1>6, <1>7
<1>9. LongLived => now + Patience < over
  BY <1>5, <1>6, <1>7 DEF LongLived
<1>10. q \in Lookup
  BY <1>1, <1>5, <1>6 DEF Lookup, Places
<1>11. /\ q.op = "groups" /\ q.pc = "asking" /\ q.at = old.at /\ q.sent = now
       /\ q.entry = old.entry /\ q.carries = over
  BY <1>1 DEF Lookup
<1>12. now <= now + Patience /\ now <= now
  BY <1>6
<1>13. GoodLookup(q, now, workspace)
  BY <1>1, <1>5, <1>9, <1>10, <1>11, <1>12 DEF GoodLookup
<1>14. TokenLasts'
  <2>. PICK until : until = now + Life - Lead
    OBVIOUS
  <2>1. token' = [there |-> TRUE, until |-> until, over |-> over]
    BY DEF ExchangeReturns
  <2>2. token' \in Tokens
    BY <1>5, <1>8, <2>1 DEF Tokens
  <2>3. token'.until <= token'.over - Patience
    BY <1>8, <2>1
  <2>4. QED
    BY <2>2, <2>3 DEF TokenLasts
<1>15. req' = [req EXCEPT ![r] = q] /\ lock' = Tail(lock)
  <2>1. \A s \in Requests : req'[s] = IF s = r THEN q ELSE req[s]
    BY DEF ExchangeReturns, Carries, IInv
  <2>2. req' \in [Requests -> {q} \cup {Idle} \cup Lookup]
    BY DEF ExchangeReturns, Carries, IInv
  <2>3. QED
    BY <2>1, <2>2 DEF ExchangeReturns, Carries, IInv
<1>16. lock' \in Seq(Requests) /\ Holders'
  BY <1>3, <1>11, <1>15, LockPasses
<1>17. QED
  BY <1>2, <1>13, <1>14, <1>15, <1>16, OneGoesOn DEF IInv

-----------------------------------------------------------------------------
(* The groups of a user.                                                    *)

LEMMA GroupsForKeeps ==
  ASSUME IInv, NEW r \in Requests, GroupsFor(r)
  PROVE  IInv'
<1>1. /\ now \in Times /\ now \in Nat /\ Ttl \in Nat /\ StaleMax \in Nat /\ Ttl <= StaleMax
      /\ LongAgo = 0 - StaleMax /\ now <= now
  BY Numbers, Ages DEF IInv, World
<1>2. UNCHANGED <<now, asked, workspace, identity, groups, token>>
  BY DEF GroupsFor, world, caches
<1>3. CASE FromCache(r, "groups", groups) /\ UNCHANGED lock
  <2>. PICK e : e = groups
    OBVIOUS
  <2>1. e.there /\ e \in Memberships /\ now - e.at < Ttl
    BY <1>3 DEF FromCache, Fresh, IInv, GoodGroups
  <2>2. e.says \in Names /\ e.at \in Int
    BY <2>1, MembershipFields
  <2>3. e.at <= now /\ Dated(e.says, e.at, workspace) /\ (e.says = "empty" => e.at = LongAgo)
    BY <2>1 DEF IInv, GoodGroups
  <2>4. Ttl > 0 /\ e.says # "empty"
    BY <1>1, <2>1, <2>2, <2>3
  <2>5. e.says = "before" /\ workspace.changed # Never => now < workspace.changed + Ttl
    <3>. SUFFICES ASSUME e.says = "before", workspace.changed # Never
         PROVE  now < workspace.changed + Ttl
      OBVIOUS
    <3>1. workspace.changed \in Times /\ e.at <= workspace.changed
      BY <2>3 DEF IInv, World, Dated
    <3>2. workspace.changed \in Int
      BY <3>1, Ages
    <3>3. QED
      BY <1>1, <2>1, <2>2, <3>1, <3>2
  <2>. PICK says : says = e.says
    OBVIOUS
  <2>6. GoodLookup(Answer("groups", now, now, says, "cache"), now, workspace)
    BY <1>1, <2>2, <2>4, <2>5, GroupsAnswered
  <2>7. [Begun("groups", Absent) EXCEPT !.pc = "done", !.says = says, !.source = "cache"]
          = Answer("groups", now, now, says, "cache")
    BY CachedIs
  <2>8. req' = [req EXCEPT ![r] = Answer("groups", now, now, says, "cache")]
    BY <1>3, <2>7 DEF FromCache
  <2>. PICK q : q = Answer("groups", now, now, says, "cache")
    OBVIOUS
  <2>9. GoodLookup(q, now, workspace) /\ q.pc = "done"
    BY <2>6 DEF Answer
  <2>10. lock' \in Seq(Requests) /\ Holders'
    BY <1>3, <2>8, <2>9, LockStays
  <2>11. QED
    BY <1>2, <2>8, <2>9, <2>10, OneGoesOn DEF IInv, TokenLasts
<1>4. CASE /\ req' = [req EXCEPT ![r] = [Begun("groups", groups) EXCEPT !.pc = "lock"]]
           /\ lock' = Append(lock, r)
  <2>. PICK q : q = [Begun("groups", groups) EXCEPT !.pc = "lock"]
    OBVIOUS
  <2>1. /\ q.op = "groups" /\ q.pc = "lock" /\ q.at = now /\ q.sent = now /\ q.entry = groups
    BY DEF Begun
  <2>2. MaxTime + Life \in Nat /\ 0 \in 0 .. MaxTime + Life
    BY <1>1, Numbers
  <2>3. groups \in Memberships
    BY DEF IInv, GoodGroups
  <2>4. q \in Lookup
    BY <1>1, <2>2, <2>3 DEF Begun, Lookup, Places
  <2>5. GoodLookup(q, now, workspace)
    BY <1>1, <2>1, <2>4 DEF GoodLookup, IInv, InCall
  <2>6. req' = [req EXCEPT ![r] = q]
    BY <1>4
  <2>7. lock \in Seq(Requests) /\ lock' \in Seq(Requests)
    BY <1>4, AppendProperties DEF IInv
  <2>8. \A s \in Requests : Holds(s) => Holds(s)'
    BY <1>4, <2>7, AppendProperties DEF Holds
  <2>9. \A s \in Requests : req'[s] = IF s = r THEN q ELSE req[s]
    BY <2>6 DEF IInv
  <2>10. \A s \in Requests : req'[s].pc \in {"exchange", "issued"} => Holds(s)
    BY <2>1, <2>9 DEF IInv, Holders
  <2>11. Holders'
    BY <2>8, <2>10 DEF Holders
  <2>12. QED
    BY <1>2, <2>5, <2>6, <2>7, <2>11, OneGoesOn DEF IInv, TokenLasts
<1>5. QED
  BY <1>3, <1>4 DEF GroupsFor

LEMMA ScimAnswersKeeps ==
  ASSUME IInv, NEW r \in Requests, ScimAnswers(r)
  PROVE  IInv'
<1>. PICK what : what = NamesNow
  OBVIOUS
<1>1. /\ Told(r, what) /\ req[r].op = "groups" /\ req[r].pc = "asking" /\ req[r] # Idle
      /\ UNCHANGED <<now, asked, workspace, identity, groups, token, lock>>
  BY Things DEF ScimAnswers, world, caches
<1>2. what \in {"before", "after"} /\ Dated(what, req[r].at, workspace)
  BY DEF Dated, NamesNow
<1>3. QED
  BY <1>1, <1>2, ToldKeeps

LEMMA ScimReturnsKeeps ==
  ASSUME IInv, NEW r \in Requests, ScimReturns(r)
  PROVE  IInv'
<1>. PICK old : old = req[r]
  OBVIOUS
<1>1. /\ GoodLookup(old, now, workspace) /\ old \in Lookup
      /\ old.op = "groups" /\ old.pc = "told"
  BY Things DEF ScimReturns, IInv, GoodLookup
<1>2. /\ groups' = [there |-> TRUE, says |-> old.says, at |-> old.at]
      /\ Answers(r, old.says, "fresh")
      /\ UNCHANGED <<now, asked, workspace, identity, token, lock>>
  BY DEF ScimReturns, world
<1>. PICK at, says : at = old.at /\ says = old.says
  OBVIOUS
<1>3. /\ at \in Times /\ at <= now /\ says \in {"before", "after"} /\ Dated(says, at, workspace)
  BY <1>1 DEF GoodLookup, Lookup
<1>4. says \in Names /\ says # "empty"
  BY <1>3 DEF Names
<1>5. GoodGroups(groups', now, workspace)
  BY <1>2, <1>3, <1>4 DEF GoodGroups, Memberships
<1>6. GoodLookup(Answer("groups", at, now, says, "fresh"), now, workspace)
  BY <1>3, <1>4, GroupsAnswered
<1>. PICK q : q = Answer("groups", at, now, says, "fresh")
  OBVIOUS
<1>7. req' = [req EXCEPT ![r] = q]
  BY <1>1, <1>2, AnswerShape
<1>8. GoodLookup(q, now, workspace) /\ q.pc = "done"
  BY <1>6 DEF Answer
<1>9. lock' \in Seq(Requests) /\ Holders'
  BY <1>2, <1>7, <1>8, LockStays
<1>10. QED
  BY <1>2, <1>5, <1>7, <1>8, <1>9, OneGoesOn DEF IInv, TokenLasts

(* Nobody answers: what was known before stands, or what a failure leaves behind. *)
LEMMA FailedIsGood ==
  ASSUME IInv, NEW r \in Requests, Failed(r),
         UNCHANGED <<now, asked, workspace, identity, token>>,
         req[r] # Idle, req[r].op = "groups",
         lock' = lock \/ (lock' = Tail(lock) /\ Holds(r))
  PROVE  IInv'
<1>. PICK old, e, at : old = req[r] /\ e = old.entry /\ at = old.at
  OBVIOUS
<1>1. GoodLookup(old, now, workspace) /\ old \in Lookup /\ old.op = "groups"
  BY DEF IInv, GoodLookup
<1>2. at \in Times /\ at <= now /\ GoodGroups(e, at, workspace)
  BY <1>1 DEF GoodLookup, Lookup
<1>3. /\ at \in Int /\ now \in Times /\ now \in Nat /\ StaleMax \in Nat
      /\ LongAgo = 0 - StaleMax /\ LongAgo \in Int
  BY <1>2, Numbers, Ages DEF IInv, World
<1>4. \E what \in Names, source \in {"stale", "none"} :
        /\ Answers(r, what, source)
        /\ GoodGroups(groups', now, workspace)
  <2>1. CASE e.there
    <3>1. e \in Memberships /\ e.at <= at /\ Dated(e.says, e.at, workspace)
          /\ (e.says = "empty" => e.at = LongAgo)
      BY <1>2, <2>1 DEF GoodGroups
    <3>2. e.at \in Int /\ e.says \in Names
      BY <2>1, <3>1, MembershipFields
    <3>3. e.at <= now
      BY <1>2, <1>3, <3>1, <3>2
    <3>4. groups' = e /\ Answers(r, e.says, "stale")
      BY <2>1 DEF Failed
    <3>5. GoodGroups(e, now, workspace)
      BY <3>1, <3>3 DEF GoodGroups
    <3>6. QED
      BY <3>2, <3>4, <3>5
  <2>2. CASE ~e.there
    <3>. PICK due : due = LongAgo
      OBVIOUS
    <3>1. groups' = [there |-> TRUE, says |-> "empty", at |-> due] /\ Answers(r, "empty", "none")
      BY <2>2 DEF Failed
    <3>2. due <= now /\ due = LongAgo
      BY <1>3
    <3>3. groups' \in Memberships
      BY <3>1, <3>2 DEF Memberships, Names
    <3>4. groups'.at = due /\ groups'.says = "empty"
      BY <3>1
    <3>5. Dated(groups'.says, groups'.at, workspace)
      BY <3>4 DEF Dated
    <3>6. GoodGroups(groups', now, workspace)
      BY <3>2, <3>3, <3>4, <3>5 DEF GoodGroups
    <3>7. QED
      BY <3>1, <3>6 DEF Names
  <2>3. QED
    BY <2>1, <2>2
<1>. PICK what \in Names, source \in {"stale", "none"} :
        /\ Answers(r, what, source)
        /\ GoodGroups(groups', now, workspace)
  BY <1>4
<1>5. GoodLookup(Answer("groups", at, now, what, source), now, workspace)
  BY <1>2, GroupsAnswered
<1>. PICK q : q = Answer("groups", at, now, what, source)
  OBVIOUS
<1>6. req' = [req EXCEPT ![r] = q]
  BY <1>1, AnswerShape
<1>7. GoodLookup(q, now, workspace) /\ q.pc = "done"
  BY <1>5 DEF Answer
<1>8. lock' \in Seq(Requests) /\ Holders'
  BY <1>6, <1>7, LockStays, LockPasses
<1>9. QED
  BY <1>6, <1>7, <1>8, OneGoesOn DEF IInv, TokenLasts

LEMMA FailuresKeep ==
  ASSUME IInv, NEW r \in Requests, ScimFails(r) \/ ExchangeFails(r)
  PROVE  IInv'
<1>1. CASE ScimFails(r)
  <2>1. /\ Failed(r) /\ req[r] # Idle /\ req[r].op = "groups"
        /\ UNCHANGED <<now, asked, workspace, identity, token, lock>>
    BY <1>1, Things DEF ScimFails, world
  <2>2. QED
    BY <2>1, FailedIsGood
<1>2. CASE ExchangeFails(r)
  <2>1. /\ Failed(r) /\ req[r] # Idle /\ lock' = Tail(lock) /\ req[r].pc = "exchange"
        /\ UNCHANGED <<now, asked, workspace, identity, token>>
    BY <1>2, Things DEF ExchangeFails, world
  <2>2. req[r].op = "groups" /\ Holds(r)
    BY <2>1, ExchangeIsForGroups DEF IInv, Holders
  <2>3. QED
    BY <2>1, <2>2, FailedIsGood
<1>3. QED
  BY <1>1, <1>2

LEMMA RefreshKeeps ==
  ASSUME IInv, Refresh
  PROVE  IInv'
<1>1. UNCHANGED <<now, asked, workspace, identity, token, lock, req>> /\ groups' = Absent
  BY DEF Refresh, world
<1>2. GoodGroups(groups', now, workspace)
  BY <1>1, Things DEF GoodGroups
<1>3. QED
  BY <1>1, <1>2 DEF IInv, World, TokenLasts, Holders, Holds

-----------------------------------------------------------------------------
(* Every step.                                                              *)

LEMMA StepKeeps ==
  ASSUME IInv, [Next]_vars
  PROVE  IInv'
<1>1. CASE Tick
  BY <1>1, TickKeeps
<1>2. CASE Revoke \/ GroupsChange
  BY <1>2, WorldKeeps
<1>3. CASE Refresh
  BY <1>3, RefreshKeeps
<1>4. ASSUME NEW r \in Requests, Verify(r) \/ GroupsFor(r)
      PROVE  IInv'
  BY <1>4, VerifyKeeps, GroupsForKeeps
<1>5. ASSUME NEW r \in Requests, GoesOn(r)
      PROVE  IInv'
  BY <1>5, LeaveKeeps, MeAnswersKeeps, MeReturnsKeeps, MeFailsKeeps, TokenHeldKeeps,
     TokenIssuedKeeps, ExchangeReturnsKeeps, ScimAnswersKeeps, ScimReturnsKeeps, FailuresKeep
     DEF GoesOn
<1>6. CASE UNCHANGED vars
  BY <1>6 DEF vars, IInv, World, TokenLasts, Holders, Holds
<1>7. QED
  BY <1>1, <1>2, <1>3, <1>4, <1>5, <1>6 DEF Next

LEMMA Always == Spec => []IInv
<1>1. Init => IInv
  BY InitHolds
<1>2. IInv /\ [Next]_vars => IInv'
  BY StepKeeps
<1>3. QED
  BY <1>1, <1>2, PTL DEF Spec

-----------------------------------------------------------------------------
(* What the lookups promise.                                                *)

(* Lookups, caches, the token and its lock are what they are said to be, in *)
(* every interleaving of the lookups, the workspace and the clock           *)
(* (identity_verification.py, group_resolution.py, databricks_oauth.py).    *)
THEOREM TypeCorrect == Spec => []TypeOK
<1>1. IInv => TypeOK
  <2>. SUFFICES ASSUME IInv PROVE TypeOK
    OBVIOUS
  <2>1. /\ now \in Times /\ asked \in Traffic /\ lock \in Seq(Requests)
        /\ workspace \in [revoked : Times \cup {Never}, changed : Times \cup {Never}]
        /\ identity \in Identities /\ groups \in Memberships /\ token \in Tokens
    BY DEF IInv, World, GoodIdentity, GoodGroups, TokenLasts
  <2>2. ASSUME NEW r \in Requests, req[r] # Idle
        PROVE  /\ req[r].pc \in Places
               /\ req[r].at \in Times /\ req[r].sent \in Times
               /\ \/ req[r].op = "identity" /\ req[r].entry \in Identities
                  \/ req[r].op = "groups" /\ req[r].entry \in Memberships
               /\ req[r].source \in {"fresh", "cache", "stale", "none"}
               /\ req[r].pc = "done" /\ req[r].op = "groups" => req[r].says \in Names
    <3>. PICK q : q = req[r]
      OBVIOUS
    <3>1. GoodLookup(q, now, workspace) /\ q \in Lookup
      BY <2>2 DEF IInv, GoodLookup
    <3>2. /\ q.pc \in Places /\ q.at \in Times /\ q.sent \in Times
          /\ q.op \in {"identity", "groups"} /\ q.source \in {"fresh", "cache", "stale", "none"}
      BY <3>1 DEF Lookup
    <3>3. q.op = "identity" => q.entry \in Identities
      BY <3>1 DEF GoodLookup, GoodIdentity
    <3>4. /\ q.op = "groups" => q.entry \in Memberships
          /\ q.pc = "done" /\ q.op = "groups" => q.says \in Names
      BY <3>1 DEF GoodLookup, GoodGroups
    <3>5. QED
      BY <3>2, <3>3, <3>4
  <2>3. QED
    BY <2>1, <2>2 DEF TypeOK
<1>2. QED
  BY <1>1, Always, PTL

(* Whichever lookup ends last and however long the workspace is silent: a   *)
(* revoked token is not accepted beyond the time to live, nor beyond        *)
(* StaleMax in a silence; groups that changed are not served from the cache *)
(* for longer than the time to live, a failure is never taken for an        *)
(* answer; and no call carries a token that is over, provided a new token   *)
(* lasts longer than two time-outs (the failure contracts of                *)
(* identity_verification.py and group_resolution.py).                       *)
THEOREM AnswersStayGood ==
  ASSUME 2 * Patience < Life
  PROVE  Spec => []AnswersAreGood
<1>1. IInv => AnswersAreGood
  <2>. SUFFICES ASSUME IInv PROVE AnswersAreGood
    OBVIOUS
  <2>1. RevokedIsRefused
    <3>. SUFFICES ASSUME NEW r \in Requests, Done(r, "identity"), req[r].says = "valid", Revoked
         PROVE  req[r].at < workspace.revoked + CASE req[r].source = "stale" -> StaleMax
                                                  [] req[r].source = "cache" -> Ttl
                                                  [] OTHER -> 1
      BY DEF RevokedIsRefused
    <3>. PICK q : q = req[r]
      OBVIOUS
    <3>1. /\ GoodLookup(q, now, workspace) /\ q \in Lookup /\ q.op = "identity"
          /\ q.pc = "done" /\ q.says = "valid"
      BY Things DEF Done, IInv, GoodLookup
    <3>2. workspace.revoked \in Times /\ workspace.revoked # Never
      BY DEF Revoked, IInv, World
    <3>3. q.at \in Int /\ workspace.revoked \in Int
      BY <3>1, <3>2, Ages DEF Lookup
    <3>4. q.source \in {"fresh", "cache", "stale"}
      BY <3>1 DEF GoodLookup, Lookup
    <3>5. CASE q.source = "fresh"
      <4>1. q.at <= workspace.revoked
        BY <3>1, <3>2, <3>5 DEF GoodLookup, Dated
      <4>2. q.at < workspace.revoked + 1
        BY <3>3, <4>1
      <4>3. QED
        BY <3>5, <4>2
    <3>6. CASE q.source = "cache"
      BY <3>1, <3>2, <3>6 DEF GoodLookup
    <3>7. CASE q.source = "stale"
      BY <3>1, <3>2, <3>7 DEF GoodLookup
    <3>8. QED
      BY <3>4, <3>5, <3>6, <3>7
  <2>2. GroupsAreRecent
    <3>. SUFFICES ASSUME NEW r \in Requests, Done(r, "groups"),
                         req[r].source \in {"fresh", "cache"}
         PROVE  /\ req[r].says # "empty"
                /\ req[r].says = "before" /\ workspace.changed # Never =>
                     req[r].at < workspace.changed + IF req[r].source = "cache" THEN Ttl ELSE 1
      BY DEF GroupsAreRecent
    <3>. PICK q : q = req[r]
      OBVIOUS
    <3>1. /\ GoodLookup(q, now, workspace) /\ q \in Lookup /\ q.op = "groups" /\ q.pc = "done"
      BY Things DEF Done, IInv, GoodLookup
    <3>2. q.says # "empty"
      BY <3>1 DEF GoodLookup
    <3>3. ASSUME q.says = "before", workspace.changed # Never
          PROVE  q.at < workspace.changed + IF q.source = "cache" THEN Ttl ELSE 1
      <4>1. workspace.changed \in Times
        BY <3>3 DEF IInv, World
      <4>2. q.at \in Int /\ workspace.changed \in Int
        BY <3>1, <4>1, Ages DEF Lookup
      <4>3. CASE q.source = "fresh"
        <5>1. q.at <= workspace.changed
          BY <3>1, <3>3, <4>3 DEF GoodLookup, Dated
        <5>2. q.at < workspace.changed + 1
          BY <4>2, <5>1
        <5>3. QED
          BY <4>3, <5>2
      <4>4. CASE q.source = "cache"
        BY <3>1, <3>3, <4>4 DEF GoodLookup
      <4>5. QED
        BY <4>3, <4>4
    <3>4. QED
      BY <3>2, <3>3
  <2>3. TokenIsAlive
    <3>. SUFFICES ASSUME NEW r \in Requests, req[r].op = "groups", req[r].pc = "asking"
         PROVE  now < req[r].carries
      BY DEF TokenIsAlive
    <3>. PICK q : q = req[r]
      OBVIOUS
    <3>1. GoodLookup(q, now, workspace) /\ q \in Lookup /\ q.op = "groups" /\ q.pc = "asking"
      BY Things DEF IInv, GoodLookup
    <3>2. now <= q.sent + Patience /\ q.sent + Patience < q.carries
      BY <3>1 DEF GoodLookup, LongLived, InCall
    <3>3. /\ now \in Int /\ q.sent \in Int /\ Patience \in Int /\ q.carries \in Int
      <4>1. now \in Times /\ q.sent \in Times /\ q.carries \in 0 .. MaxTime + Life
        BY <3>1 DEF IInv, World, Lookup
      <4>2. now \in Int /\ q.sent \in Int
        BY <4>1, Ages
      <4>3. q.carries \in Int /\ Patience \in Int
        BY <4>1, Numbers
      <4>4. QED
        BY <4>2, <4>3
    <3>4. now < q.carries
      BY <3>2, <3>3
    <3>5. QED
      BY <3>4
  <2>4. QED
    BY <2>1, <2>2, <2>3 DEF AnswersAreGood
<1>2. QED
  BY <1>1, Always, PTL

-------------------------------------------------------------------------------
(* The jobs of the server.  A cancel may come at any await of the task, and the handler *)
(* suspends itself, so the invariant says what the record tells of the task (TaskTells), *)
(* which chunks may still be on their way (StagesInTurn, Awaited), what has been reported of *)
(* them (Reported), and which statements are stopped or about to be (WillBeStopped).    *)

Suspended(j) == task[j].at \in {"post", "wait", "fetch"}

Whole(j, s) == \A c \in Chunks : chunk[j][s][c] \in {"none", "done"}
Unasked(j, s) == \A c \in Chunks : chunk[j][s][c] = "none"
FailedIn(j, s) == \E c \in Chunks : chunk[j][s][c] = "failed"
FetchingIn(j, s) == \E c \in Chunks : chunk[j][s][c] \in Query!Fetching
NumberDone(j, s) == Cardinality({d \in Chunks : chunk[j][s][d] = "done"})

\* The record says what has become of the task.
TaskTells(j) ==
    /\ state[j] = "none" <=> task[j].at = "unborn"
    /\ state[j] = "running" <=> Suspended(j) /\ ~task[j].cancelled
    /\ Suspended(j) /\ task[j].cancelled => state[j] = "canceled"
    /\ Suspended(j) /\ cancelRequested[j] => task[j].cancelled
    /\ task[j].at = "unborn" => task[j].stage = "edges" /\ ~task[j].cancelled /\ ~cancelRequested[j]

\* The stages come one after the other, and none goes on before its rows are whole.
StagesInTurn(j) ==
    /\ task[j].stage = "edges" => Unasked(j, "types") /\ Unasked(j, "nodes")
    /\ task[j].stage = "types" => Whole(j, "edges") /\ Unasked(j, "nodes")
    /\ task[j].stage = "nodes" => Whole(j, "edges")
    /\ task[j].at \in {"unborn", "post", "wait"} => Unasked(j, task[j].stage)
    /\ state[j] = "succeeded" => Whole(j, task[j].stage) /\ task[j].stage # "types"

\* Chunks are on their way for the task that waits for them, or were left behind.
Awaited(j) ==
    \A s \in Query!Stages : FetchingIn(j, s) =>
        FailedIn(j, s) \/ (task[j].at = "fetch" /\ task[j].stage = s /\ ~task[j].cancelled)

\* What is reported is what is there, or less.
Reported(j) ==
    /\ task[j].stage = "edges" /\ task[j].at \in {"unborn", "post", "wait"} => progress[j] = <<0, 0>>
    /\ task[j].at = "fetch" /\ Query!Phase(task[j].stage) # 0 =>
          progress[j] = <<Query!Phase(task[j].stage), NumberDone(j, task[j].stage)>>
    /\ task[j].stage # "nodes" \/ task[j].at \in {"post", "wait"} => progress[j][1] <= 1
    /\ task[j].stage # "nodes" => ~partial[j]

\* The statements of a canceled job that may still run were stopped or will be.
WillBeStopped(j) ==
    \A s \in sids[j] :
        /\ statement[<<j, s>>] # "none"
        /\ state[j] = "canceled" /\ statement[<<j, s>>] = "running" => s \in told[j] \cup stopping[j]

JobInv(j) == TaskTells(j) /\ StagesInTurn(j) /\ Awaited(j) /\ Reported(j) /\ WillBeStopped(j)

JobsInv == Query!TypeOK /\ \A j \in Jobs : JobInv(j)

-------------------------------------------------------------------------------
(* What a step leaves alone *)

\* Another job.
SameJob(k) ==
    /\ state'[k] = state[k] /\ partial'[k] = partial[k] /\ progress'[k] = progress[k]
    /\ cancelRequested'[k] = cancelRequested[k] /\ sids'[k] = sids[k] /\ task'[k] = task[k] /\ chunk'[k] = chunk[k]
    /\ stopping'[k] = stopping[k] /\ told'[k] = told[k]
    /\ \A s \in Query!Stages : statement'[<<k, s>>] = statement[<<k, s>>]

\* What the types say of one job.
LEMMA OfTypes ==
    ASSUME Query!TypeOK, NEW j \in Jobs
    PROVE  /\ task[j].stage \in Query!Stages /\ sids[j] \subseteq Query!Stages /\ stopping[j] \subseteq Query!Stages
           /\ task[j].at \in {"unborn", "post", "wait", "fetch", "over"}
           /\ task[j].cancelled \in BOOLEAN /\ cancelRequested[j] \in BOOLEAN /\ partial[j] \in BOOLEAN
           /\ state[j] \in {"none", "running", "succeeded", "failed", "canceled"}
           /\ statement \in [Jobs \X Query!Stages -> {"none", "running", "finished", "failed", "canceled"}]
BY DEF Query!TypeOK, Query!Warehouse!TypeOK, Query!Warehouse!Ended

\* Cardinality of QueryJobs is that of FiniteSets.
LEMMA ChunksCounted == \A S : Query!Cardinality(S) = Cardinality(S)
BY DEF Query!Cardinality, Cardinality, Query!IsFiniteSet, IsFiniteSet

LEMMA ProgressTyped == Query!TypeOK => progress \in [Jobs -> (0 .. 2) \X (0 .. Cardinality(Chunks))]
BY ChunksCounted DEF Query!TypeOK

\* A job that is left alone keeps its part of the invariant.
LEMMA SameKeeps ==
    ASSUME Query!TypeOK, NEW k \in Jobs, JobInv(k), SameJob(k)
    PROVE  JobInv(k)'
<1>1. sids[k] \subseteq Query!Stages /\ task[k].stage \in Query!Stages
  BY OfTypes
<1>2. TaskTells(k)'
  BY DEF JobInv, TaskTells, SameJob, Suspended
<1>3. StagesInTurn(k)'
  BY DEF JobInv, StagesInTurn, SameJob, Whole, Unasked
<1>4. Awaited(k)'
  BY DEF JobInv, Awaited, SameJob, FetchingIn, FailedIn
<1>5. Reported(k)'
  BY DEF JobInv, Reported, SameJob, NumberDone
<1>6. WillBeStopped(k)'
  BY <1>1 DEF JobInv, WillBeStopped, SameJob
<1>7. QED
  BY <1>2, <1>3, <1>4, <1>5, <1>6 DEF JobInv

TaskTypes == [stage : Query!Stages, at : {"unborn", "post", "wait", "fetch", "over"},
              cancelled : BOOLEAN, slots : {0} \cup Concurrency]

\* The task of one job goes on.
LEMMA GoesTo ==
    ASSUME Query!TypeOK, NEW j \in Jobs, NEW stage \in Query!Stages, NEW at \in {"post", "wait", "fetch", "over"},
           Query!Goes(j, stage, at)
    PROVE  /\ task' \in [Jobs -> TaskTypes]
           /\ task'[j].stage = stage /\ task'[j].at = at
           /\ task'[j].cancelled = task[j].cancelled /\ task'[j].slots = task[j].slots
           /\ \A k \in Jobs \ {j} : task'[k] = task[k]
<1>1. task \in [Jobs -> TaskTypes]
  BY DEF Query!TypeOK, TaskTypes
<1>. PICK old \in TaskTypes : old = task[j]
  BY <1>1
<1>. PICK new : new = [old EXCEPT !.stage = stage, !.at = at]
  OBVIOUS
<1>2. new \in TaskTypes /\ new.stage = stage /\ new.at = at /\ new.cancelled = old.cancelled /\ new.slots = old.slots
  BY DEF TaskTypes
<1>3. task' = [task EXCEPT ![j] = new]
  BY DEF Query!Goes
<1>4. QED
  BY <1>1, <1>2, <1>3

\* The chunks are as they were.
LEMMA ChunksSame ==
    ASSUME chunk' = chunk
    PROVE  \A j, s : /\ Whole(j, s)' <=> Whole(j, s)
                     /\ Unasked(j, s)' <=> Unasked(j, s)
                     /\ FailedIn(j, s)' <=> FailedIn(j, s)
                     /\ FetchingIn(j, s)' <=> FetchingIn(j, s)
                     /\ NumberDone(j, s)' = NumberDone(j, s)
BY DEF Whole, Unasked, FailedIn, FetchingIn, NumberDone

-------------------------------------------------------------------------------
(* The task of a job *)

\* What a step of the task does to the statements: some may be told to stop.
TellsJob(j) ==
    /\ told' \in [Jobs -> SUBSET Query!Stages] /\ told[j] \subseteq told'[j]
    /\ Query!Warehouse!TypeOK'
    /\ \A s \in Query!Stages : statement'[<<j, s>>] = statement[<<j, s>>]
                      \/ (statement'[<<j, s>>] = "canceled" /\ statement[<<j, s>>] = "running")
    /\ \A k \in Jobs \ {j} : /\ told'[k] = told[k]
                             /\ \A s \in Query!Stages : statement'[<<k, s>>] = statement[<<k, s>>]

LEMMA AsksToStop ==
    ASSUME Query!TypeOK, NEW j \in Jobs, NEW s \in Query!Stages, Query!AskToStop(j, s)
    PROVE  TellsJob(j) /\ s \in told'[j]
<1>1. told' = [told EXCEPT ![j] = @ \cup {s}] /\ told \in [Jobs -> SUBSET Query!Stages]
  BY DEF Query!AskToStop, Query!TypeOK
<1>2. statement \in [Jobs \X Query!Stages -> {"none", "running", "finished", "failed", "canceled"}]
  BY OfTypes
<1>3. UNCHANGED statement \/ (statement[<<j, s>>] = "running" /\ statement' = [statement EXCEPT ![<<j, s>>] = "canceled"])
  BY DEF Query!AskToStop, Query!Warehouse!Stops, Query!Warehouse!Becomes
<1>4. Query!Warehouse!TypeOK'
  BY <1>2, <1>3 DEF Query!Warehouse!TypeOK, Query!Warehouse!Ended
<1>5. /\ told' \in [Jobs -> SUBSET Query!Stages] /\ told'[j] = told[j] \cup {s}
      /\ \A k \in Jobs \ {j} : told'[k] = told[k]
  BY <1>1
<1>6. /\ \A z \in Query!Stages : statement'[<<j, z>>] = statement[<<j, z>>]
                      \/ (statement'[<<j, z>>] = "canceled" /\ statement[<<j, z>>] = "running")
      /\ \A k \in Jobs \ {j} : \A z \in Query!Stages : statement'[<<k, z>>] = statement[<<k, z>>]
  BY <1>2, <1>3
<1>7. QED
  BY <1>4, <1>5, <1>6 DEF TellsJob

LEMMA ToldNothing ==
    ASSUME Query!TypeOK, UNCHANGED <<statement, told>>, NEW j \in Jobs
    PROVE  TellsJob(j)
BY DEF TellsJob, Query!TypeOK, Query!Warehouse!TypeOK

LEMMA StoppedStill ==
    ASSUME Query!TypeOK, NEW j \in Jobs, WillBeStopped(j), TellsJob(j), state'[j] = "canceled" => state[j] = "canceled",
           sids'[j] = sids[j], stopping'[j] = stopping[j]
    PROVE  WillBeStopped(j)'
<1>1. sids[j] \subseteq Query!Stages
  BY OfTypes
<1>2. QED
  BY <1>1 DEF WillBeStopped, TellsJob

\* Something raised.
LEMMA RaisesKeeps ==
    ASSUME JobsInv, NEW j \in Jobs, Suspended(j), ~task[j].cancelled,
           task[j].at = "fetch" => FailedIn(j, task[j].stage),
           Query!Raises(j), TellsJob(j), UNCHANGED <<partial, progress, cancelRequested, sids, chunk, stopping>>
    PROVE  Query!TypeOK' /\ JobInv(j)' /\ \A k \in Jobs \ {j} : SameJob(k)
<1>. USE DEF JobsInv
<1>1. JobInv(j) /\ state[j] = "running"
  BY DEF JobInv, TaskTells
<1>2. CASE task[j].stage = "types" /\ Query!Goes(j, "nodes", "post") /\ UNCHANGED state
  <2>1. /\ task' \in [Jobs -> TaskTypes] /\ task'[j].stage = "nodes" /\ task'[j].at = "post"
        /\ ~task'[j].cancelled /\ \A k \in Jobs \ {j} : task'[k] = task[k]
    BY <1>2, GoesTo DEF Query!Stages
  <2>2. Query!TypeOK'
    BY <1>2, <2>1 DEF Query!TypeOK, TaskTypes, TellsJob
  <2>3. \A k \in Jobs \ {j} : SameJob(k)
    BY <1>2, <2>1 DEF SameJob, TellsJob
  <2>4. TaskTells(j)'
    BY <1>1, <1>2, <2>1 DEF JobInv, TaskTells, Suspended
  <2>5. StagesInTurn(j)'
    BY <1>1, <1>2, <2>1 DEF JobInv, StagesInTurn, Whole, Unasked
  <2>6. Awaited(j)'
    BY <1>1, <1>2, <2>1 DEF JobInv, Awaited, FetchingIn, FailedIn
  <2>7. Reported(j)'
    BY <1>1, <1>2, <2>1 DEF JobInv, Reported
  <2>8. WillBeStopped(j)'
    BY <1>1, <1>2, StoppedStill DEF JobInv
  <2>9. QED
    BY <2>2, <2>3, <2>4, <2>5, <2>6, <2>7, <2>8 DEF JobInv
<1>3. CASE state' = [state EXCEPT ![j] = "failed"] /\ Query!Goes(j, task[j].stage, "over")
  <2>1. /\ task' \in [Jobs -> TaskTypes] /\ task'[j].stage = task[j].stage /\ task'[j].at = "over"
        /\ ~task'[j].cancelled /\ \A k \in Jobs \ {j} : task'[k] = task[k]
    BY <1>3, GoesTo, OfTypes
  <2>2. /\ state' \in [Jobs -> {"none", "running", "succeeded", "failed", "canceled"}]
        /\ state'[j] = "failed" /\ \A k \in Jobs \ {j} : state'[k] = state[k]
    BY <1>3 DEF Query!TypeOK
  <2>3. Query!TypeOK'
    BY <2>1, <2>2 DEF Query!TypeOK, TaskTypes, TellsJob
  <2>4. \A k \in Jobs \ {j} : SameJob(k)
    BY <2>1, <2>2 DEF SameJob, TellsJob
  <2>5. TaskTells(j)'
    BY <2>1, <2>2 DEF TaskTells, Suspended
  <2>6. StagesInTurn(j)'
    BY <1>1, <2>1, <2>2 DEF JobInv, StagesInTurn, Whole, Unasked
  <2>7. Awaited(j)'
    BY <1>1, <2>1 DEF JobInv, Awaited, FetchingIn, FailedIn
  <2>8. Reported(j)'
    BY <1>1, <2>1 DEF JobInv, Reported
  <2>9. WillBeStopped(j)'
    BY <1>1, <2>2, StoppedStill DEF JobInv
  <2>10. QED
    BY <2>3, <2>4, <2>5, <2>6, <2>7, <2>8, <2>9 DEF JobInv
<1>4. QED
  BY <1>2, <1>3 DEF Query!Raises

\* The rows of a stage are there.
LEMMA ContinuesKeeps ==
    ASSUME JobsInv, NEW j \in Jobs, Suspended(j), ~task[j].cancelled,
           Whole(j, task[j].stage), Query!Continues(j),
           UNCHANGED <<progress, cancelRequested, sids, chunk, stopping, statement, told>>
    PROVE  Query!TypeOK' /\ JobInv(j)' /\ \A k \in Jobs \ {j} : SameJob(k)
<1>. USE DEF JobsInv
<1>1. JobInv(j) /\ state[j] = "running" /\ ~cancelRequested[j] /\ TellsJob(j)
  BY OfTypes, ToldNothing DEF JobInv, TaskTells
<1>2. ASSUME Query!Succeeds(j), UNCHANGED partial, task[j].stage # "types"
      PROVE  Query!TypeOK' /\ JobInv(j)' /\ \A k \in Jobs \ {j} : SameJob(k)
  <2>1. /\ task' \in [Jobs -> TaskTypes] /\ task'[j].stage = task[j].stage /\ task'[j].at = "over"
        /\ ~task'[j].cancelled /\ \A k \in Jobs \ {j} : task'[k] = task[k]
    BY <1>2, GoesTo, OfTypes DEF Query!Succeeds
  <2>2. /\ state' \in [Jobs -> {"none", "running", "succeeded", "failed", "canceled"}]
        /\ state'[j] = "succeeded" /\ \A k \in Jobs \ {j} : state'[k] = state[k]
    BY <1>1, <1>2 DEF Query!TypeOK, Query!Succeeds
  <2>3. Query!TypeOK'
    BY <1>2, <2>1, <2>2 DEF Query!TypeOK, TaskTypes, Query!Warehouse!TypeOK
  <2>4. \A k \in Jobs \ {j} : SameJob(k)
    BY <1>2, <2>1, <2>2 DEF SameJob
  <2>5. TaskTells(j)'
    BY <2>1, <2>2 DEF TaskTells, Suspended
  <2>6. StagesInTurn(j)'
    BY <1>1, <1>2, <2>1, <2>2 DEF JobInv, StagesInTurn, Whole, Unasked
  <2>7. Awaited(j)'
    <3>1. \A s \in Query!Stages : task[j].stage = s => ~FetchingIn(j, s)
      BY DEF Whole, FetchingIn, Query!Fetching, Query!UnderWay
    <3>2. QED
      BY <1>1, <2>1, <3>1 DEF JobInv, Awaited, FetchingIn, FailedIn
  <2>8. Reported(j)'
    BY <1>1, <1>2, <2>1 DEF JobInv, Reported
  <2>9. WillBeStopped(j)'
    BY <1>1, <2>2, StoppedStill DEF JobInv
  <2>10. QED
    BY <2>3, <2>4, <2>5, <2>6, <2>7, <2>8, <2>9 DEF JobInv
<1>3. ASSUME NEW next \in {"types", "nodes"}, Query!Goes(j, next, "post"), UNCHANGED state,
             (partial' = partial /\ task[j].stage = "edges")
             \/ (partial' = [partial EXCEPT ![j] = TRUE] /\ task[j].stage = "types" /\ next = "nodes")
      PROVE  Query!TypeOK' /\ JobInv(j)' /\ \A k \in Jobs \ {j} : SameJob(k)
  <2>1. /\ task' \in [Jobs -> TaskTypes] /\ task'[j].stage = next /\ task'[j].at = "post"
        /\ ~task'[j].cancelled /\ \A k \in Jobs \ {j} : task'[k] = task[k]
    BY <1>3, GoesTo DEF Query!Stages
  <2>2. /\ partial' \in [Jobs -> BOOLEAN] /\ \A k \in Jobs \ {j} : partial'[k] = partial[k]
        /\ next = "types" => partial'[j] = partial[j]
    BY <1>3 DEF Query!TypeOK
  <2>3. Query!TypeOK'
    BY <1>3, <2>1, <2>2 DEF Query!TypeOK, TaskTypes, Query!Warehouse!TypeOK
  <2>4. \A k \in Jobs \ {j} : SameJob(k)
    BY <1>3, <2>1, <2>2 DEF SameJob
  <2>5. TaskTells(j)'
    BY <1>1, <1>3, <2>1 DEF JobInv, TaskTells, Suspended
  <2>6. StagesInTurn(j)'
    BY <1>1, <1>3, <2>1 DEF JobInv, StagesInTurn, Whole, Unasked
  <2>7. Awaited(j)'
    <3>1. \A s \in Query!Stages : task[j].stage = s => ~FetchingIn(j, s)
      BY DEF Whole, FetchingIn, Query!Fetching, Query!UnderWay
    <3>2. QED
      BY <1>1, <2>1, <3>1 DEF JobInv, Awaited, FetchingIn, FailedIn
  <2>8. Reported(j)'
    BY <1>1, <1>3, <2>1, <2>2 DEF JobInv, Reported
  <2>9. WillBeStopped(j)'
    BY <1>1, <1>3, StoppedStill DEF JobInv
  <2>10. QED
    BY <2>3, <2>4, <2>5, <2>6, <2>7, <2>8, <2>9 DEF JobInv
<1>4. CASE task[j].stage = "edges"
  <2>1. (\E next \in {"types", "nodes"} : Query!Goes(j, next, "post") /\ UNCHANGED <<state, partial>>)
        \/ (Query!Succeeds(j) /\ UNCHANGED partial)
    BY <1>4 DEF Query!Continues
  <2>2. CASE Query!Succeeds(j) /\ UNCHANGED partial
    BY <1>2, <1>4, <2>2
  <2>3. ASSUME NEW next \in {"types", "nodes"}, Query!Goes(j, next, "post"), UNCHANGED <<state, partial>>
        PROVE  Query!TypeOK' /\ JobInv(j)' /\ \A k \in Jobs \ {j} : SameJob(k)
    <3>1. /\ Query!Goes(j, next, "post") /\ UNCHANGED state
          /\ partial' = partial /\ task[j].stage = "edges"
      BY <1>4, <2>3
    <3>2. QED
      BY <1>3, <3>1
  <2>4. QED
    BY <2>1, <2>2, <2>3
<1>5. CASE task[j].stage = "types"
  <2>1. partial' = [partial EXCEPT ![j] = TRUE] /\ Query!Goes(j, "nodes", "post") /\ UNCHANGED state
    BY <1>5 DEF Query!Continues
  <2>2. QED
    BY <1>3, <1>5, <2>1
<1>6. CASE task[j].stage = "nodes"
  <2>1. Query!Succeeds(j) /\ UNCHANGED partial
    BY <1>6 DEF Query!Continues
  <2>2. QED
    BY <1>2, <1>6, <2>1
<1>7. QED
  BY <1>4, <1>5, <1>6, OfTypes DEF Query!Stages

\* A step of one job keeps its part of the invariant and leaves the others alone.
KeepsJobs(j) == Query!TypeOK' /\ JobInv(j)' /\ \A k \in Jobs \ {j} : SameJob(k)

\* The task of j is where its state says, and nobody cancelled it.
LEMMA Resuming ==
    ASSUME JobsInv, NEW j \in Jobs, NEW at \in {"post", "wait", "fetch"}, Query!Resumes(j, at)
    PROVE  Suspended(j) /\ ~task[j].cancelled /\ state[j] = "running" /\ ~cancelRequested[j] /\ task[j].at = at
BY OfTypes DEF JobsInv, Query!Resumes, Suspended, JobInv, TaskTells

LEMMA CreateKeeps == ASSUME JobsInv, NEW j \in Jobs, Query!CreateJob(j) PROVE KeepsJobs(j)
<1>. USE DEF JobsInv, Query!CreateJob
<1>1. JobInv(j) /\ task[j].at = "unborn" /\ task[j].stage = "edges" /\ ~task[j].cancelled /\ ~cancelRequested[j]
  BY DEF JobInv, TaskTells
<1>2. /\ task' \in [Jobs -> TaskTypes] /\ task'[j].stage = "edges" /\ task'[j].at = "post"
      /\ ~task'[j].cancelled /\ \A k \in Jobs \ {j} : task'[k] = task[k]
  BY <1>1, GoesTo DEF Query!Stages
<1>3. /\ state' \in [Jobs -> {"none", "running", "succeeded", "failed", "canceled"}]
      /\ state'[j] = "running" /\ \A k \in Jobs \ {j} : state'[k] = state[k]
  BY DEF Query!TypeOK
<1>4. Query!TypeOK'
  BY <1>2, <1>3 DEF Query!TypeOK, TaskTypes, Query!Warehouse!TypeOK
<1>5. \A k \in Jobs \ {j} : SameJob(k)
  BY <1>2, <1>3 DEF SameJob
<1>6. TaskTells(j)'
  BY <1>1, <1>2, <1>3 DEF TaskTells, Suspended
<1>7. StagesInTurn(j)'
  BY <1>1, <1>2, <1>3 DEF JobInv, StagesInTurn, Whole, Unasked
<1>8. Awaited(j)'
  BY <1>1, <1>2 DEF JobInv, Awaited, FetchingIn, FailedIn
<1>9. Reported(j)'
  BY <1>1, <1>2 DEF JobInv, Reported
<1>10. WillBeStopped(j)'
  BY <1>1, <1>3, StoppedStill, ToldNothing DEF JobInv
<1>11. QED
  BY <1>4, <1>5, <1>6, <1>7, <1>8, <1>9, <1>10 DEF JobInv, KeepsJobs

LEMMA PostArrivesKeeps == ASSUME JobsInv, NEW j \in Jobs, Query!PostArrives(j) PROVE KeepsJobs(j)
<1>. USE DEF JobsInv, Query!PostArrives
<1>. PICK s \in Query!Stages : s = task[j].stage
  BY OfTypes
<1>1. statement \in [Jobs \X Query!Stages -> {"none", "running", "finished", "failed", "canceled"}]
  BY OfTypes
<1>2. PICK to \in {"running", "finished", "failed"} :
         statement[<<j, s>>] = "none" /\ statement' = [statement EXCEPT ![<<j, s>>] = to]
  BY DEF Query!Warehouse!Starts, Query!Warehouse!Becomes, Query!Current
<1>3. Query!TypeOK'
  BY <1>1, <1>2 DEF Query!TypeOK, Query!Warehouse!TypeOK, Query!Warehouse!Ended
<1>4. \A k \in Jobs \ {j} : SameJob(k)
  BY <1>1, <1>2 DEF SameJob
<1>5. JobInv(j) /\ TaskTells(j)' /\ StagesInTurn(j)' /\ Awaited(j)' /\ Reported(j)'
  <2>1. JobInv(j)
    OBVIOUS
  <2>2. TaskTells(j)'
    BY <2>1 DEF JobInv, TaskTells, Suspended
  <2>3. StagesInTurn(j)'
    BY <2>1 DEF JobInv, StagesInTurn, Whole, Unasked
  <2>4. Awaited(j)'
    BY <2>1 DEF JobInv, Awaited, FetchingIn, FailedIn
  <2>5. Reported(j)'
    BY <2>1 DEF JobInv, Reported, NumberDone
  <2>6. QED
    BY <2>1, <2>2, <2>3, <2>4, <2>5
<1>6. WillBeStopped(j)'
  <2>1. sids[j] \subseteq Query!Stages /\ s \notin sids[j]
    BY <1>2, <1>5, OfTypes DEF JobInv, WillBeStopped
  <2>2. \A z \in sids[j] : statement'[<<j, z>>] = statement[<<j, z>>]
    BY <1>1, <1>2, <2>1
  <2>3. QED
    BY <1>5, <2>2 DEF JobInv, WillBeStopped
<1>7. QED
  BY <1>3, <1>4, <1>5, <1>6 DEF JobInv, KeepsJobs

LEMMA PostReturnsKeeps == ASSUME JobsInv, NEW j \in Jobs, Query!PostReturns(j) PROVE KeepsJobs(j)
<1>. USE DEF JobsInv, Query!PostReturns
<1>. PICK s \in Query!Stages : s = task[j].stage
  BY OfTypes
<1>1. JobInv(j) /\ Suspended(j) /\ ~task[j].cancelled /\ state[j] = "running" /\ ~cancelRequested[j] /\ task[j].at = "post"
  BY Resuming
<1>2. /\ task' \in [Jobs -> TaskTypes] /\ task'[j].stage = s /\ task'[j].at = "wait"
      /\ ~task'[j].cancelled /\ \A k \in Jobs \ {j} : task'[k] = task[k]
  BY <1>1, GoesTo
<1>3. sids' \in [Jobs -> SUBSET Query!Stages] /\ sids'[j] = sids[j] \cup {s} /\ \A k \in Jobs \ {j} : sids'[k] = sids[k]
  BY DEF Query!TypeOK
<1>4. Query!TypeOK'
  BY <1>2, <1>3 DEF Query!TypeOK, TaskTypes, Query!Warehouse!TypeOK
<1>5. \A k \in Jobs \ {j} : SameJob(k)
  BY <1>2, <1>3 DEF SameJob
<1>6. TaskTells(j)'
  BY <1>1, <1>2 DEF TaskTells, Suspended
<1>7. StagesInTurn(j)'
  BY <1>1, <1>2 DEF JobInv, StagesInTurn, Whole, Unasked
<1>8. Awaited(j)'
  BY <1>1, <1>2 DEF JobInv, Awaited, FetchingIn, FailedIn
<1>9. Reported(j)'
  BY <1>1, <1>2 DEF JobInv, Reported
<1>10. WillBeStopped(j)'
  BY <1>1, <1>3 DEF JobInv, WillBeStopped, Query!Current
<1>11. QED
  BY <1>4, <1>5, <1>6, <1>7, <1>8, <1>9, <1>10 DEF JobInv, KeepsJobs

LEMMA TaskFailuresKeep ==
    ASSUME JobsInv, NEW j \in Jobs,
           Query!PostFails(j) \/ Query!FetchFails(j) \/ Query!StatementFailed(j) \/ Query!PollFails(j) \/ Query!TimesOut(j)
    PROVE  KeepsJobs(j)
<1>. USE DEF KeepsJobs
<1>1. CASE Query!PostFails(j)
  BY <1>1, Resuming, RaisesKeeps, ToldNothing DEF Query!PostFails, JobsInv
<1>2. CASE Query!FetchFails(j)
  <2>1. FailedIn(j, task[j].stage)
    BY <1>2 DEF Query!FetchFails, Query!OneFailed, FailedIn
  <2>2. QED
    BY <1>2, <2>1, Resuming, RaisesKeeps, ToldNothing DEF Query!FetchFails, JobsInv
<1>3. CASE Query!StatementFailed(j)
  BY <1>3, Resuming, RaisesKeeps, ToldNothing DEF Query!StatementFailed, JobsInv
<1>4. CASE Query!PollFails(j)
  BY <1>4, Resuming, RaisesKeeps, ToldNothing DEF Query!PollFails, JobsInv
<1>5. CASE Query!TimesOut(j)
  <2>1. TellsJob(j)
    BY <1>5, AsksToStop, OfTypes DEF Query!TimesOut, JobsInv
  <2>2. QED
    BY <1>5, <2>1, Resuming, RaisesKeeps DEF Query!TimesOut
<1>6. QED
  BY <1>1, <1>2, <1>3, <1>4, <1>5

LEMMA RowsKeep == ASSUME JobsInv, NEW j \in Jobs, Query!InlineRows(j) \/ Query!Fetched(j) PROVE KeepsJobs(j)
<1>. USE DEF KeepsJobs
<1>1. CASE Query!InlineRows(j)
  <2>1. Whole(j, task[j].stage)
    BY <1>1 DEF Query!InlineRows, Query!Resumes, JobsInv, JobInv, StagesInTurn, Unasked, Whole
  <2>2. QED
    BY <1>1, <2>1, Resuming, ContinuesKeeps DEF Query!InlineRows
<1>2. CASE Query!Fetched(j)
  <2>1. Whole(j, task[j].stage)
    BY <1>2 DEF Query!Fetched, Query!AllHere, Whole
  <2>2. QED
    BY <1>2, <2>1, Resuming, ContinuesKeeps DEF Query!Fetched
<1>3. QED
  BY <1>1, <1>2

\* Nothing is made of no chunks.
LEMMA NoneDone ==
    ASSUME NEW j \in Jobs, NEW s \in Query!Stages, \A c \in Chunks : chunk[j][s][c] \in {"none", "queued"}
    PROVE  NumberDone(j, s) = 0
<1>1. {d \in Chunks : chunk[j][s][d] = "done"} = {}
  OBVIOUS
<1>2. QED
  BY <1>1, FS_EmptySet DEF NumberDone

ChunkStates == Query!Fetching \cup {"none", "done", "failed", "dropped"}

LEMMA Counting == Cardinality(Chunks) \in Nat
BY JobsAssumption, FS_CardinalityType

LEMMA BeginFetchKeeps == ASSUME JobsInv, NEW j \in Jobs, Query!BeginFetch(j) PROVE KeepsJobs(j)
<1>. USE DEF JobsInv
<1>. PICK s \in Query!Stages : s = task[j].stage
  BY OfTypes
<1>1. JobInv(j) /\ Suspended(j) /\ ~task[j].cancelled /\ state[j] = "running" /\ ~cancelRequested[j] /\ task[j].at = "wait"
  BY Resuming DEF Query!BeginFetch
<1>. PICK some \in SUBSET Chunks :
        chunk' = [chunk EXCEPT ![j][s] = [c \in Chunks |-> IF c \in some THEN "queued" ELSE "none"]]
  BY DEF Query!BeginFetch
<1>2. /\ chunk' \in [Jobs -> [Query!Stages -> [Chunks -> ChunkStates]]]
      /\ \A c \in Chunks : chunk'[j][s][c] \in {"none", "queued"}
      /\ \A z \in Query!Stages \ {s} : chunk'[j][z] = chunk[j][z]
      /\ \A k \in Jobs \ {j} : chunk'[k] = chunk[k]
  BY DEF Query!TypeOK, ChunkStates, Query!Fetching
<1>3. /\ task' \in [Jobs -> TaskTypes] /\ task'[j].stage = s /\ task'[j].at = "fetch"
      /\ ~task'[j].cancelled /\ \A k \in Jobs \ {j} : task'[k] = task[k]
  BY <1>1, GoesTo DEF Query!BeginFetch
<1>4. /\ progress' \in [Jobs -> (0 .. 2) \X (0 .. Cardinality(Chunks))]
      /\ progress'[j] = IF Query!Phase(s) = 0 THEN progress[j] ELSE <<Query!Phase(s), 0>>
      /\ \A k \in Jobs \ {j} : progress'[k] = progress[k]
  <2>1. Query!Phase(s) \in 0 .. 2 /\ 0 \in 0 .. Cardinality(Chunks)
    BY Counting DEF Query!Phase
  <2>2. QED
    BY <2>1, ProgressTyped DEF Query!BeginFetch, Query!Reports
<1>5. UNCHANGED <<state, partial, cancelRequested, sids, stopping, statement, told>>
  BY DEF Query!BeginFetch
<1>6. Query!TypeOK'
  BY <1>2, <1>3, <1>4, <1>5, ChunksCounted DEF Query!TypeOK, TaskTypes, ChunkStates, Query!Warehouse!TypeOK
<1>7. \A k \in Jobs \ {j} : SameJob(k)
  BY <1>2, <1>3, <1>4, <1>5 DEF SameJob
<1>8. TaskTells(j)'
  BY <1>1, <1>3, <1>5 DEF TaskTells, Suspended
<1>9. StagesInTurn(j)'
  BY <1>1, <1>2, <1>3, <1>5 DEF JobInv, StagesInTurn, Whole, Unasked, Query!Stages
<1>10. Awaited(j)'
  BY <1>1, <1>2, <1>3 DEF JobInv, Awaited, FetchingIn, FailedIn
<1>11. Reported(j)'
  <2>1. NumberDone(j, s)' = 0
    BY <1>2, NoneDone, FS_EmptySet DEF NumberDone
  <2>2. s # "nodes" => progress'[j][1] <= 1
    BY <1>1, <1>4 DEF JobInv, Reported, Query!Phase
  <2>3. QED
    BY <1>1, <1>3, <1>4, <1>5, <2>1, <2>2 DEF JobInv, Reported
<1>12. WillBeStopped(j)'
  BY <1>1, <1>5, StoppedStill, ToldNothing DEF JobInv
<1>13. QED
  BY <1>6, <1>7, <1>8, <1>9, <1>10, <1>11, <1>12 DEF JobInv, KeepsJobs

LEMMA TaskStopsKeeps == ASSUME JobsInv, NEW j \in Jobs, Query!TaskStops(j) PROVE KeepsJobs(j)
<1>. USE DEF JobsInv, Query!TaskStops
<1>1. JobInv(j) /\ Suspended(j) /\ task[j].cancelled /\ state[j] = "canceled" /\ task[j].stage \in Query!Stages
  BY OfTypes DEF JobInv, TaskTells, Suspended
<1>2. UNCHANGED state
  BY <1>1 DEF Query!TypeOK
<1>3. /\ task' \in [Jobs -> TaskTypes] /\ task'[j].stage = task[j].stage /\ task'[j].at = "over"
      /\ task'[j].cancelled /\ \A k \in Jobs \ {j} : task'[k] = task[k]
  BY <1>1, GoesTo
<1>4. Query!TypeOK'
  BY <1>2, <1>3 DEF Query!TypeOK, TaskTypes, Query!Warehouse!TypeOK
<1>5. \A k \in Jobs \ {j} : SameJob(k)
  BY <1>2, <1>3 DEF SameJob
<1>6. TaskTells(j)'
  BY <1>1, <1>2, <1>3 DEF TaskTells, Suspended
<1>7. StagesInTurn(j)'
  BY <1>1, <1>2, <1>3 DEF JobInv, StagesInTurn, Whole, Unasked
<1>8. Awaited(j)'
  BY <1>1, <1>3 DEF JobInv, Awaited, FetchingIn, FailedIn
<1>9. Reported(j)'
  BY <1>1, <1>3 DEF JobInv, Reported
<1>10. WillBeStopped(j)'
  BY <1>1, <1>2, StoppedStill, ToldNothing DEF JobInv
<1>11. QED
  BY <1>4, <1>5, <1>6, <1>7, <1>8, <1>9, <1>10 DEF JobInv, KeepsJobs

-------------------------------------------------------------------------------
(* The chunks *)

\* A chunk turns; one that is done is counted.
LEMMA TurnsKeep ==
    ASSUME JobsInv, NEW j \in Jobs, NEW s \in Query!Stages, NEW c \in Chunks,
           NEW to \in Query!UnderWay \cup {"done", "failed"}, chunk[j][s][c] \in Query!Fetching, Query!Turns(j, s, c, to)
    PROVE  KeepsJobs(j)
<1>. USE DEF JobsInv
<1>1. /\ JobInv(j) /\ FetchingIn(j, s)
      /\ UNCHANGED <<state, partial, cancelRequested, sids, task, stopping, statement, told>>
      /\ chunk' = [chunk EXCEPT ![j][s][c] = to]
  BY DEF FetchingIn, Query!Turns
<1>2. /\ chunk' \in [Jobs -> [Query!Stages -> [Chunks -> ChunkStates]]]
      /\ chunk'[j][s][c] = to
      /\ \A d \in Chunks \ {c} : chunk'[j][s][d] = chunk[j][s][d]
      /\ \A z \in Query!Stages \ {s} : chunk'[j][z] = chunk[j][z]
      /\ \A k \in Jobs \ {j} : chunk'[k] = chunk[k]
  BY <1>1 DEF Query!TypeOK, ChunkStates, Query!Fetching
<1>3. /\ IsFiniteSet({d \in Chunks : chunk[j][s][d] = "done"}) /\ NumberDone(j, s) \in Nat
      /\ NumberDone(j, s) + 1 <= Cardinality(Chunks) /\ Cardinality(Chunks) \in Nat
      /\ NumberDone(j, s)' = IF to = "done" THEN NumberDone(j, s) + 1 ELSE NumberDone(j, s)
  <2>. PICK D : D = {d \in Chunks : chunk[j][s][d] = "done"}
    OBVIOUS
  <2>1. D \in SUBSET Chunks /\ c \notin D
    BY DEF Query!Fetching, Query!UnderWay
  <2>2. IsFiniteSet(D) /\ IsFiniteSet(D \cup {c}) /\ Cardinality(D \cup {c}) <= Cardinality(Chunks)
    BY <2>1, JobsAssumption, FS_Subset
  <2>3. Cardinality(D) \in Nat /\ Cardinality(D \cup {c}) = Cardinality(D) + 1
    BY <2>1, <2>2, FS_CardinalityType, FS_AddElement
  <2>4. {d \in Chunks : chunk'[j][s][d] = "done"} = IF to = "done" THEN D \cup {c} ELSE D
    BY <1>2, <2>1
  <2>5. QED
    BY <2>2, <2>3, <2>4, Counting DEF NumberDone
<1>4. /\ progress' \in [Jobs -> (0 .. 2) \X (0 .. Cardinality(Chunks))]
      /\ progress'[j] = IF to # "done" \/ Query!Phase(s) = 0 THEN progress[j] ELSE <<Query!Phase(s), NumberDone(j, s) + 1>>
      /\ \A k \in Jobs \ {j} : progress'[k] = progress[k]
  <2>1. Query!Phase(s) \in 0 .. 2 /\ NumberDone(j, s) + 1 \in 0 .. Cardinality(Chunks)
    BY <1>3 DEF Query!Phase
  <2>2. progress \in [Jobs -> (0 .. 2) \X (0 .. Cardinality(Chunks))]
    BY ProgressTyped
  <2>3. QED
    BY <2>1, <2>2, ChunksCounted DEF Query!Turns, Query!Reports, NumberDone
<1>5. Query!TypeOK'
  BY <1>1, <1>2, <1>4, ChunksCounted DEF Query!TypeOK, ChunkStates, Query!Warehouse!TypeOK
<1>6. \A k \in Jobs \ {j} : SameJob(k)
  BY <1>1, <1>2, <1>4 DEF SameJob
<1>7. TaskTells(j)'
  BY <1>1 DEF JobInv, TaskTells, Suspended
<1>8. ~Unasked(j, s) /\ ~Whole(j, s)
  BY DEF Unasked, Whole, Query!Fetching, Query!UnderWay
<1>9. StagesInTurn(j)'
  <2>1. \A z \in Query!Stages : (Whole(j, z) => Whole(j, z)') /\ (Unasked(j, z) => Unasked(j, z)')
    BY <1>2, <1>8 DEF Whole, Unasked
  <2>2. task[j].stage \in Query!Stages
    BY OfTypes
  <2>3. QED
    BY <1>1, <2>1, <2>2 DEF JobInv, StagesInTurn, Query!Stages
<1>10. Awaited(j)'
  <2>1. \A z \in Query!Stages : (FetchingIn(j, z)' => FetchingIn(j, z)) /\ (FailedIn(j, z) => FailedIn(j, z)')
    BY <1>2 DEF FetchingIn, FailedIn, Query!Fetching, Query!UnderWay
  <2>2. QED
    BY <1>1, <2>1 DEF JobInv, Awaited
<1>11. Query!Phase(s) # 0 => task[j].stage = s /\ task[j].at \in {"fetch", "over"}
  BY <1>1, <1>8, OfTypes DEF JobInv, StagesInTurn, Query!Phase, Query!Stages
<1>12. Reported(j)'
  <2>1. s # task[j].stage => NumberDone(j, task[j].stage)' = NumberDone(j, task[j].stage)
    BY <1>1, <1>2, OfTypes DEF NumberDone
  <2>2. task'[j] = task[j] /\ partial'[j] = partial[j]
    BY <1>1
  <2>3. task[j].stage = "edges" /\ task[j].at \in {"unborn", "post", "wait"} => progress'[j] = <<0, 0>>
    BY <1>1, <1>4, <1>11 DEF JobInv, Reported
  <2>4. task[j].at = "fetch" /\ Query!Phase(task[j].stage) # 0 =>
          progress'[j] = <<Query!Phase(task[j].stage), NumberDone(j, task[j].stage)'>>
    BY <1>1, <1>3, <1>4, <1>11, <2>1 DEF JobInv, Reported
  <2>5. task[j].stage # "nodes" \/ task[j].at \in {"post", "wait"} => progress'[j][1] <= 1
    BY <1>1, <1>4, <1>11 DEF JobInv, Reported, Query!Phase
  <2>6. QED
    BY <1>1, <2>2, <2>3, <2>4, <2>5 DEF JobInv, Reported
<1>13. WillBeStopped(j)'
  BY <1>1, StoppedStill, ToldNothing DEF JobInv
<1>14. QED
  BY <1>5, <1>6, <1>7, <1>9, <1>10, <1>12, <1>13 DEF JobInv, KeepsJobs

LEMMA DownloadsTurn ==
    ASSUME NEW j \in Jobs, Query!Downloads(j)
    PROVE  \E s \in Query!Stages, c \in Chunks, to \in Query!UnderWay \cup {"done", "failed"} :
              chunk[j][s][c] \in Query!Fetching /\ Query!Turns(j, s, c, to)
<1>. PICK s \in Query!Stages, c \in Chunks :
        Query!TakeChunk(j, s, c) \/ Query!LinkComes(j, s, c) \/ Query!LinkRenewed(j, s, c) \/ Query!ChunkComes(j, s, c)
  BY DEF Query!Downloads
<1>1. CASE Query!TakeChunk(j, s, c)
  BY <1>1 DEF Query!TakeChunk, Query!Fetching, Query!UnderWay
<1>2. CASE Query!LinkComes(j, s, c)
  BY <1>2 DEF Query!LinkComes, Query!Fetching, Query!UnderWay
<1>3. CASE Query!LinkRenewed(j, s, c)
  BY <1>3 DEF Query!LinkRenewed, Query!Fetching, Query!UnderWay
<1>4. CASE Query!ChunkComes(j, s, c)
  BY <1>4 DEF Query!ChunkComes, Query!Fetching, Query!UnderWay
<1>5. QED
  BY <1>1, <1>2, <1>3, <1>4

LEMMA DownloadsKeep == ASSUME JobsInv, NEW j \in Jobs, Query!Downloads(j) PROVE KeepsJobs(j)
BY DownloadsTurn, TurnsKeep

-------------------------------------------------------------------------------
(* The cancel handler and the warehouse *)

\* What cancelling gather() does to the chunks.
LEMMA DroppedChunks ==
    ASSUME JobsInv, NEW j \in Jobs, chunk' = [chunk EXCEPT ![j] = Query!Dropped(j)]
    PROVE  /\ chunk' \in [Jobs -> [Query!Stages -> [Chunks -> ChunkStates]]]
           /\ \A k \in Jobs \ {j} : chunk'[k] = chunk[k]
           /\ \A s \in Query!Stages, c \in Chunks :
                 \/ chunk'[j][s][c] = chunk[j][s][c]
                 \/ chunk'[j][s][c] = "dropped" /\ chunk[j][s][c] \in Query!Fetching /\ s = task[j].stage /\ task[j].at = "fetch"
           /\ task[j].at = "fetch" /\ ~Query!OneFailed(j) => \A c \in Chunks : chunk'[j][task[j].stage][c] \notin Query!Fetching
           /\ task[j].at # "fetch" => chunk'[j] = chunk[j]
<1>. PICK t \in Query!Stages : t = task[j].stage
  BY OfTypes DEF JobsInv
<1>1. chunk \in [Jobs -> [Query!Stages -> [Chunks -> ChunkStates]]]
  BY DEF JobsInv, Query!TypeOK, ChunkStates
<1>2. CASE task[j].at # "fetch" \/ Query!OneFailed(j)
  BY <1>1, <1>2 DEF Query!Dropped
<1>3. CASE ~(task[j].at # "fetch" \/ Query!OneFailed(j))
  <2>. PICK row : row = [c \in Chunks |-> IF chunk[j][t][c] \in Query!Fetching THEN "dropped" ELSE chunk[j][t][c]]
    OBVIOUS
  <2>1. row \in [Chunks -> ChunkStates]
    BY <1>1 DEF ChunkStates
  <2>2. Query!Dropped(j) = [chunk[j] EXCEPT ![t] = row]
    BY <1>1, <1>3 DEF Query!Dropped
  <2>3. /\ chunk' \in [Jobs -> [Query!Stages -> [Chunks -> ChunkStates]]]
        /\ chunk'[j][t] = row /\ \A s \in Query!Stages \ {t} : chunk'[j][s] = chunk[j][s]
        /\ \A k \in Jobs \ {j} : chunk'[k] = chunk[k]
    BY <1>1, <2>1, <2>2
  <2>4. \A c \in Chunks : row[c] \notin Query!Fetching
    BY DEF Query!Fetching, Query!UnderWay
  <2>5. \A c \in Chunks : chunk'[j][t][c] \notin Query!Fetching
    BY <2>3, <2>4
  <2>6. \A s \in Query!Stages, c \in Chunks :
           \/ chunk'[j][s][c] = chunk[j][s][c]
           \/ chunk'[j][s][c] = "dropped" /\ chunk[j][s][c] \in Query!Fetching /\ s = t
    BY <2>3
  <2>7. QED
    BY <1>3, <2>3, <2>5, <2>6
<1>4. QED
  BY <1>2, <1>3

LEMMA CancelJobKeeps == ASSUME JobsInv, NEW j \in Jobs, Query!CancelJob(j) PROVE KeepsJobs(j)
<1>. USE DEF JobsInv, Query!CancelJob
<1>1. JobInv(j) /\ state[j] # "none"
  OBVIOUS
<1>2. /\ task' \in [Jobs -> TaskTypes] /\ task'[j].stage = task[j].stage /\ task'[j].at = task[j].at
      /\ task'[j].cancelled = (task[j].cancelled \/ task[j].at # "over")
      /\ \A k \in Jobs \ {j} : task'[k] = task[k]
  <2>1. task \in [Jobs -> TaskTypes]
    BY DEF Query!TypeOK, TaskTypes
  <2>. PICK old \in TaskTypes : old = task[j]
    BY <2>1
  <2>. PICK flag \in BOOLEAN : flag = (old.cancelled \/ old.at # "over")
    BY DEF TaskTypes
  <2>. PICK new : new = [old EXCEPT !.cancelled = flag]
    OBVIOUS
  <2>2. new \in TaskTypes /\ new.stage = old.stage /\ new.at = old.at /\ new.cancelled = flag
    BY DEF TaskTypes
  <2>3. task' = [task EXCEPT ![j] = new]
    OBVIOUS
  <2>4. QED
    BY <2>1, <2>2, <2>3
<1>3. /\ state' \in [Jobs -> {"none", "running", "succeeded", "failed", "canceled"}]
      /\ state'[j] = (IF state[j] = "running" THEN "canceled" ELSE state[j])
      /\ \A k \in Jobs \ {j} : state'[k] = state[k]
  BY DEF Query!TypeOK
<1>4. /\ cancelRequested' \in [Jobs -> BOOLEAN] /\ cancelRequested'[j]
      /\ \A k \in Jobs \ {j} : cancelRequested'[k] = cancelRequested[k]
      /\ stopping' \in [Jobs -> SUBSET Query!Stages] /\ stopping'[j] = stopping[j] \cup sids[j]
      /\ \A k \in Jobs \ {j} : stopping'[k] = stopping[k]
  BY DEF Query!TypeOK
<1>5. /\ chunk' \in [Jobs -> [Query!Stages -> [Chunks -> ChunkStates]]]
      /\ \A k \in Jobs \ {j} : chunk'[k] = chunk[k]
      /\ \A s \in Query!Stages, c \in Chunks :
            \/ chunk'[j][s][c] = chunk[j][s][c]
            \/ chunk'[j][s][c] = "dropped" /\ chunk[j][s][c] \in Query!Fetching /\ s = task[j].stage /\ task[j].at = "fetch"
      /\ task[j].at # "fetch" => chunk'[j] = chunk[j]
  BY DroppedChunks
<1>6. Query!TypeOK'
  BY <1>2, <1>3, <1>4, <1>5, ChunksCounted DEF Query!TypeOK, TaskTypes, ChunkStates, Query!Warehouse!TypeOK
<1>7. \A k \in Jobs \ {j} : SameJob(k)
  BY <1>2, <1>3, <1>4, <1>5 DEF SameJob
<1>8. TaskTells(j)'
  BY <1>1, <1>2, <1>3, <1>4, OfTypes DEF JobInv, TaskTells, Suspended
<1>9. StagesInTurn(j)'
  <2>1. \A s \in Query!Stages : (Whole(j, s) => Whole(j, s)') /\ (Unasked(j, s) => Unasked(j, s)')
    BY <1>5 DEF Whole, Unasked, Query!Fetching, Query!UnderWay
  <2>2. task[j].stage \in Query!Stages /\ Query!Stages = {"edges", "types", "nodes"}
    BY OfTypes DEF Query!Stages
  <2>3. QED
    BY <1>1, <1>2, <1>3, <2>1, <2>2 DEF JobInv, StagesInTurn
<1>10. Awaited(j)'
  <2>1. \A s \in Query!Stages : (FetchingIn(j, s)' => FetchingIn(j, s)) /\ (FailedIn(j, s) => FailedIn(j, s)')
    BY <1>5 DEF FetchingIn, FailedIn, Query!Fetching, Query!UnderWay
  <2>2. task[j].at = "fetch" /\ FetchingIn(j, task[j].stage)' => FailedIn(j, task[j].stage)
    BY <1>2, DroppedChunks DEF Query!OneFailed, FailedIn, FetchingIn
  <2>3. QED
    BY <1>1, <2>1, <2>2 DEF JobInv, Awaited
<1>11. Reported(j)'
  <2>1. NumberDone(j, task[j].stage)' = NumberDone(j, task[j].stage)
    <3>. PICK t \in Query!Stages : t = task[j].stage
      BY OfTypes
    <3>1. {c \in Chunks : chunk'[j][t][c] = "done"} = {c \in Chunks : chunk[j][t][c] = "done"}
      <4>1. \A c \in Chunks : chunk'[j][t][c] = "done" <=> chunk[j][t][c] = "done"
        BY <1>5 DEF Query!Fetching, Query!UnderWay
      <4>2. QED
        BY <4>1
    <3>2. QED
      BY <1>2, <3>1 DEF NumberDone
  <2>2. QED
    BY <1>1, <1>2, <2>1 DEF JobInv, Reported
<1>12. WillBeStopped(j)'
  BY <1>1, <1>3, <1>4 DEF JobInv, WillBeStopped
<1>13. QED
  BY <1>6, <1>7, <1>8, <1>9, <1>10, <1>11, <1>12 DEF JobInv, KeepsJobs

LEMMA StopKeeps == ASSUME JobsInv, NEW j \in Jobs, Query!StopStatement(j) PROVE KeepsJobs(j)
<1>. USE DEF JobsInv
<1>. PICK s \in stopping[j] : Query!AskToStop(j, s) /\ stopping' = [stopping EXCEPT ![j] = @ \ {s}]
  BY DEF Query!StopStatement
<1>1. /\ JobInv(j) /\ s \in Query!Stages /\ UNCHANGED <<state, partial, progress, cancelRequested, sids, task, chunk>>
  BY OfTypes DEF Query!StopStatement
<1>2. TellsJob(j) /\ s \in told'[j]
  BY <1>1, AsksToStop
<1>3. /\ stopping' \in [Jobs -> SUBSET Query!Stages] /\ stopping'[j] = stopping[j] \ {s}
      /\ \A k \in Jobs \ {j} : stopping'[k] = stopping[k]
  BY DEF Query!TypeOK
<1>4. Query!TypeOK'
  BY <1>1, <1>2, <1>3 DEF Query!TypeOK, TellsJob
<1>5. \A k \in Jobs \ {j} : SameJob(k)
  BY <1>1, <1>2, <1>3 DEF SameJob, TellsJob
<1>6. TaskTells(j)'
  BY <1>1 DEF JobInv, TaskTells, Suspended
<1>7. StagesInTurn(j)'
  BY <1>1 DEF JobInv, StagesInTurn, Whole, Unasked
<1>8. Awaited(j)'
  BY <1>1 DEF JobInv, Awaited, FetchingIn, FailedIn
<1>9. Reported(j)'
  BY <1>1 DEF JobInv, Reported, NumberDone
<1>10. WillBeStopped(j)'
  BY <1>1, <1>2, <1>3, OfTypes DEF JobInv, WillBeStopped, TellsJob
<1>11. QED
  BY <1>4, <1>5, <1>6, <1>7, <1>8, <1>9, <1>10 DEF JobInv, KeepsJobs

LEMMA EndsKeeps == ASSUME JobsInv, NEW j \in Jobs, Query!StatementEnds(j) PROVE KeepsJobs(j)
<1>. USE DEF JobsInv
<1>1. JobInv(j) /\ UNCHANGED <<state, partial, progress, cancelRequested, sids, task, chunk, stopping, told>>
  BY DEF Query!StatementEnds
<1>. PICK s \in Query!Stages : Query!Warehouse!Ends(<<j, s>>)
  BY DEF Query!StatementEnds
<1>2. PICK to \in {"finished", "failed"} :
         statement[<<j, s>>] = "running" /\ statement' = [statement EXCEPT ![<<j, s>>] = to]
  BY DEF Query!Warehouse!Ends, Query!Warehouse!Becomes
<1>3. statement \in [Jobs \X Query!Stages -> {"none", "running", "finished", "failed", "canceled"}]
  BY OfTypes
<1>4. Query!TypeOK'
  BY <1>1, <1>2, <1>3 DEF Query!TypeOK, Query!Warehouse!TypeOK, Query!Warehouse!Ended
<1>5. \A k \in Jobs \ {j} : SameJob(k)
  BY <1>1, <1>2, <1>3 DEF SameJob
<1>6. TaskTells(j)'
  BY <1>1 DEF JobInv, TaskTells, Suspended
<1>7. StagesInTurn(j)'
  BY <1>1 DEF JobInv, StagesInTurn, Whole, Unasked
<1>8. Awaited(j)'
  BY <1>1 DEF JobInv, Awaited, FetchingIn, FailedIn
<1>9. Reported(j)'
  BY <1>1 DEF JobInv, Reported, NumberDone
<1>10. WillBeStopped(j)'
  <2>1. \A z \in Query!Stages : statement'[<<j, z>>] = statement[<<j, z>>] \/ statement'[<<j, z>>] \in {"finished", "failed"}
    BY <1>2, <1>3
  <2>2. QED
    BY <1>1, <2>1, OfTypes DEF JobInv, WillBeStopped
<1>11. QED
  BY <1>4, <1>5, <1>6, <1>7, <1>8, <1>9, <1>10 DEF JobInv, KeepsJobs

-------------------------------------------------------------------------------

LEMMA JobsStep == JobsInv /\ [Query!Next]_(Query!vars) => JobsInv'
<1>. SUFFICES ASSUME JobsInv, [Query!Next]_(Query!vars) PROVE JobsInv'
  OBVIOUS
<1>1. ASSUME NEW j \in Jobs, KeepsJobs(j) PROVE JobsInv'
  BY <1>1, SameKeeps DEF JobsInv, KeepsJobs
<1>2. CASE UNCHANGED Query!vars
  <2>1. Query!TypeOK'
    BY <1>2 DEF JobsInv, Query!TypeOK, Query!vars, Query!Warehouse!TypeOK
  <2>2. \A k \in Jobs : SameJob(k)
    BY <1>2 DEF Query!vars, SameJob
  <2>3. QED
    BY <2>1, <2>2, SameKeeps DEF JobsInv
<1>3. ASSUME NEW j \in Jobs, Query!Runner(j) PROVE KeepsJobs(j)
  BY <1>3, PostArrivesKeeps, PostReturnsKeeps, TaskFailuresKeep, RowsKeep, BeginFetchKeeps, TaskStopsKeeps DEF Query!Runner
<1>4. CASE Query!Next
  BY <1>1, <1>3, <1>4, CreateKeeps, DownloadsKeep, CancelJobKeeps, StopKeeps, EndsKeeps DEF Query!Next
<1>5. QED
  BY <1>2, <1>4

LEMMA JobsStart == Query!Init => JobsInv
<1>. SUFFICES ASSUME Query!Init PROVE JobsInv
  OBVIOUS
<1>1. Query!TypeOK
  <2>1. 0 \in 0 .. Cardinality(Chunks)
    BY Counting
  <2>2. Query!Warehouse!TypeOK
    BY DEF Query!Init, Query!Warehouse!Init, Query!Warehouse!TypeOK
  <2>3. progress \in [Jobs -> (0 .. 2) \X (0 .. Cardinality(Chunks))]
    BY <2>1 DEF Query!Init
  <2>4. task \in [Jobs -> TaskTypes]
    BY DEF Query!Init, TaskTypes, Query!Stages
  <2>5. QED
    BY <2>2, <2>3, <2>4, ChunksCounted DEF Query!Init, Query!TypeOK, TaskTypes
<1>2. \A j \in Jobs : task[j].stage = "edges" /\ task[j].at = "unborn" /\ ~task[j].cancelled
  BY DEF Query!Init
<1>3. \A j \in Jobs : TaskTells(j)
  BY <1>2 DEF Query!Init, TaskTells, Suspended
<1>4. \A j \in Jobs : StagesInTurn(j)
  BY <1>2 DEF Query!Init, StagesInTurn, Unasked, Whole, Query!Stages
<1>5. \A j \in Jobs : Awaited(j)
  BY DEF Query!Init, Awaited, FetchingIn, Query!Fetching, Query!UnderWay
<1>6. \A j \in Jobs : Reported(j)
  BY <1>2 DEF Query!Init, Reported
<1>7. \A j \in Jobs : WillBeStopped(j)
  BY DEF Query!Init, WillBeStopped
<1>8. QED
  BY <1>1, <1>3, <1>4, <1>5, <1>6, <1>7 DEF JobsInv, JobInv

LEMMA InvSays == JobsInv => Query!TypeOK /\ Query!JobsStand
<1>. SUFFICES ASSUME JobsInv PROVE Query!TypeOK /\ Query!JobsStand
  OBVIOUS
<1>1. Query!RecordedStopped
  BY DEF JobsInv, JobInv, WillBeStopped, Query!RecordedStopped
<1>2. Query!DownloadsEnd
  BY DEF JobsInv, JobInv, Awaited, FetchingIn, FailedIn, Query!DownloadsEnd
<1>3. Query!ResultsWhole
  <2>1. ASSUME NEW j \in Jobs, state[j] = "succeeded" PROVE Whole(j, "edges") /\ Whole(j, "nodes")
    BY <2>1, OfTypes DEF JobsInv, JobInv, StagesInTurn, Unasked, Whole, Query!Stages
  <2>2. QED
    BY <2>1 DEF Query!ResultsWhole, Whole
<1>4. QED
  BY <1>1, <1>2, <1>3 DEF JobsInv, Query!JobsStand

-------------------------------------------------------------------------------
(* What the poller sees *)

\* What a poll shows, as the refinement maps it.
SeenPartial == [j \in Jobs |-> partial[j] /\ state[j] = "running"]
SeenProgress == [j \in Jobs |-> IF state[j] \in {"running", "succeeded"} THEN progress[j] ELSE <<0, 0>>]

\* JobPromise under the mapping.
LEMMA PromiseSays ==
    /\ Query!Promise!Init <=> /\ state = [j \in Jobs |-> "none"] /\ SeenPartial = [j \in Jobs |-> FALSE]
                              /\ SeenProgress = [j \in Jobs |-> <<0, 0>>]
    /\ UNCHANGED Query!Promise!shown <=> UNCHANGED <<state, SeenPartial, SeenProgress>>
    /\ \A j \in Jobs :
          /\ Query!Promise!Open(j) <=> /\ state[j] = "none" /\ state' = [state EXCEPT ![j] = "running"]
                                       /\ UNCHANGED <<SeenPartial, SeenProgress>>
          /\ Query!Promise!Publish(j) <=> /\ state[j] = "running" /\ ~SeenPartial[j]
                                          /\ SeenPartial' = [SeenPartial EXCEPT ![j] = TRUE]
                                          /\ UNCHANGED <<state, SeenProgress>>
          /\ Query!Promise!Advance(j) <=> /\ state[j] = "running" /\ Query!Promise!Beyond(SeenProgress'[j], SeenProgress[j])
                                          /\ SeenProgress' = [SeenProgress EXCEPT ![j] = SeenProgress'[j]]
                                          /\ UNCHANGED <<state, SeenPartial>>
          /\ \A end : Query!Promise!Ends(j, end) <=>
                /\ state[j] = "running" /\ state' = [state EXCEPT ![j] = end]
                /\ SeenPartial' = [SeenPartial EXCEPT ![j] = FALSE]
                /\ SeenProgress' = [SeenProgress EXCEPT ![j] = IF end = "succeeded" THEN @ ELSE <<0, 0>>]
<1>. DEFINE sp == [j \in Jobs |-> Query!Shown(j).partial]
            sg == [j \in Jobs |-> Query!Shown(j).progress]
<1>1. sp = SeenPartial /\ sg = SeenProgress
  BY DEF Query!Shown, SeenPartial, SeenProgress
<1>2. sp' = SeenPartial' /\ sg' = SeenProgress'
  BY DEF Query!Shown, SeenPartial, SeenProgress
<1>. HIDE DEF sp, sg
<1>3. Query!Promise!Init <=> /\ state = [j \in Jobs |-> "none"] /\ sp = [j \in Jobs |-> FALSE]
                             /\ sg = [j \in Jobs |-> <<0, 0>>]
  BY DEF Query!Promise!Init, Query!Promise!Nothing, sp, sg
<1>4. UNCHANGED Query!Promise!shown <=> UNCHANGED <<state, sp, sg>>
  BY DEF Query!Promise!shown, sp, sg
<1>5. ASSUME NEW j \in Jobs
      PROVE  /\ Query!Promise!Open(j) <=> /\ state[j] = "none" /\ state' = [state EXCEPT ![j] = "running"]
                                          /\ UNCHANGED <<sp, sg>>
             /\ Query!Promise!Publish(j) <=> /\ state[j] = "running" /\ ~sp[j]
                                             /\ sp' = [sp EXCEPT ![j] = TRUE] /\ UNCHANGED <<state, sg>>
             /\ Query!Promise!Advance(j) <=> /\ state[j] = "running" /\ Query!Promise!Beyond(sg'[j], sg[j])
                                             /\ sg' = [sg EXCEPT ![j] = sg'[j]] /\ UNCHANGED <<state, sp>>
             /\ \A end : Query!Promise!Ends(j, end) <=>
                   /\ state[j] = "running" /\ state' = [state EXCEPT ![j] = end]
                   /\ sp' = [sp EXCEPT ![j] = FALSE]
                   /\ sg' = [sg EXCEPT ![j] = IF end = "succeeded" THEN @ ELSE <<0, 0>>]
  BY DEF Query!Promise!Open, Query!Promise!Publish, Query!Promise!Advance, Query!Promise!Ends, Query!Promise!Nothing, sp, sg
<1>6. QED
  BY <1>1, <1>2, <1>3, <1>4, <1>5

\* What is seen of one job changes, or nothing is.
LEMMA SeenChanges ==
    ASSUME Query!TypeOK, Query!TypeOK', NEW j \in Jobs, \A k \in Jobs \ {j} : SameJob(k)
    PROVE  /\ state' = [state EXCEPT ![j] = state'[j]]
           /\ SeenPartial' = [SeenPartial EXCEPT ![j] = SeenPartial'[j]]
           /\ SeenProgress' = [SeenProgress EXCEPT ![j] = SeenProgress'[j]]
           /\ SeenPartial[j] = (partial[j] /\ state[j] = "running")
           /\ SeenPartial'[j] = (partial'[j] /\ state'[j] = "running")
           /\ SeenProgress[j] = IF state[j] \in {"running", "succeeded"} THEN progress[j] ELSE <<0, 0>>
           /\ SeenProgress'[j] = IF state'[j] \in {"running", "succeeded"} THEN progress'[j] ELSE <<0, 0>>
<1>1. state' = [state EXCEPT ![j] = state'[j]]
  BY DEF Query!TypeOK, SameJob
<1>2. SeenPartial' = [SeenPartial EXCEPT ![j] = SeenPartial'[j]]
  BY DEF SeenPartial, SameJob
<1>3. SeenProgress' = [SeenProgress EXCEPT ![j] = SeenProgress'[j]]
  BY DEF SeenProgress, SameJob
<1>4. QED
  BY <1>1, <1>2, <1>3 DEF SeenPartial, SeenProgress

\* A step of the jobs is one of the promise, or none.
PromisedStep == [Query!Promise!Next]_(Query!Promise!shown)

\* What one job may show next.
LEMMA SeenStep ==
    ASSUME Query!TypeOK, Query!TypeOK', NEW j \in Jobs, \A k \in Jobs \ {j} : SameJob(k),
           \/ state'[j] = state[j] /\ SeenPartial'[j] = SeenPartial[j] /\ SeenProgress'[j] = SeenProgress[j]
           \/ /\ state[j] = "none" /\ state'[j] = "running"
              /\ SeenPartial'[j] = SeenPartial[j] /\ SeenProgress'[j] = SeenProgress[j]
           \/ /\ state[j] = "running" /\ state'[j] = "running" /\ ~SeenPartial[j] /\ SeenPartial'[j] = TRUE
              /\ SeenProgress'[j] = SeenProgress[j]
           \/ /\ state[j] = "running" /\ state'[j] = "running" /\ SeenPartial'[j] = SeenPartial[j]
              /\ Query!Promise!Beyond(SeenProgress'[j], SeenProgress[j])
           \/ /\ state[j] = "running" /\ state'[j] \in {"succeeded", "failed", "canceled"}
              /\ SeenPartial'[j] = FALSE
              /\ SeenProgress'[j] = IF state'[j] = "succeeded" THEN SeenProgress[j] ELSE <<0, 0>>
    PROVE  PromisedStep
<1>1. /\ state' = [state EXCEPT ![j] = state'[j]]
      /\ SeenPartial' = [SeenPartial EXCEPT ![j] = SeenPartial'[j]]
      /\ SeenProgress' = [SeenProgress EXCEPT ![j] = SeenProgress'[j]]
  BY SeenChanges
<1>2. state'[j] = state[j] => UNCHANGED state
  BY <1>1 DEF Query!TypeOK
<1>3. SeenPartial'[j] = SeenPartial[j] => UNCHANGED SeenPartial
  BY <1>1 DEF SeenPartial
<1>4. SeenProgress'[j] = SeenProgress[j] => UNCHANGED SeenProgress
  BY <1>1 DEF SeenProgress
<1>5. \/ UNCHANGED Query!Promise!shown \/ Query!Promise!Open(j) \/ Query!Promise!Publish(j) \/ Query!Promise!Advance(j)
      \/ \E end \in {"succeeded", "failed", "canceled"} : Query!Promise!Ends(j, end)
  BY <1>1, <1>2, <1>3, <1>4, PromiseSays
<1>6. QED
  BY <1>5 DEF PromisedStep, Query!Promise!Next, Query!Promise!Finish, Query!Promise!Terminal

LEMMA QuietStep ==
    ASSUME UNCHANGED <<state, partial, progress>>
    PROVE  PromisedStep
<1>1. UNCHANGED <<state, SeenPartial, SeenProgress>>
  BY DEF SeenPartial, SeenProgress
<1>2. QED
  BY <1>1, PromiseSays DEF PromisedStep

LEMMA CreateSeen == ASSUME JobsInv, NEW j \in Jobs, Query!CreateJob(j), KeepsJobs(j) PROVE PromisedStep
<1>1. /\ state[j] = "none" /\ state'[j] = "running" /\ partial[j] = FALSE /\ progress[j] = <<0, 0>>
      /\ UNCHANGED <<partial, progress>>
  <2>1. /\ partial[j] \in BOOLEAN /\ state' = [state EXCEPT ![j] = "running"]
        /\ state \in [Jobs -> {"none", "running", "succeeded", "failed", "canceled"}]
    BY OfTypes DEF JobsInv, Query!CreateJob, Query!TypeOK
  <2>2. QED
    BY <2>1 DEF JobsInv, JobInv, TaskTells, Reported, Query!CreateJob
<1>2. SeenPartial'[j] = SeenPartial[j] /\ SeenProgress'[j] = SeenProgress[j]
  BY <1>1, SeenChanges DEF KeepsJobs, JobsInv
<1>3. QED
  BY <1>1, <1>2, SeenStep DEF KeepsJobs, JobsInv

LEMMA RaisesSeen ==
    ASSUME JobsInv, NEW j \in Jobs, state[j] = "running", Query!Raises(j), UNCHANGED <<partial, progress>>, KeepsJobs(j)
    PROVE  PromisedStep
<1>1. CASE UNCHANGED state
  BY <1>1, QuietStep
<1>2. CASE state' = [state EXCEPT ![j] = "failed"]
  <2>1. state'[j] = "failed"
    BY <1>2 DEF JobsInv, Query!TypeOK
  <2>2. SeenPartial'[j] = FALSE /\ SeenProgress'[j] = <<0, 0>>
    BY <2>1, SeenChanges DEF KeepsJobs, JobsInv
  <2>3. QED
    BY <2>1, <2>2, SeenStep DEF KeepsJobs, JobsInv
<1>3. QED
  BY <1>1, <1>2 DEF Query!Raises

LEMMA ContinuesSeen ==
    ASSUME JobsInv, NEW j \in Jobs, state[j] = "running", ~cancelRequested[j],
           Query!Continues(j), UNCHANGED progress, KeepsJobs(j)
    PROVE  PromisedStep
<1>1. CASE Query!Succeeds(j) /\ UNCHANGED partial
  <2>1. state'[j] = "succeeded"
    BY <1>1 DEF Query!Succeeds, JobsInv, Query!TypeOK
  <2>2. SeenPartial'[j] = FALSE /\ SeenProgress'[j] = SeenProgress[j]
    BY <2>1, SeenChanges DEF KeepsJobs, JobsInv
  <2>3. QED
    BY <2>1, <2>2, SeenStep DEF KeepsJobs, JobsInv
<1>2. CASE UNCHANGED <<state, partial>>
  BY <1>2, QuietStep
<1>3. CASE partial' = [partial EXCEPT ![j] = TRUE] /\ UNCHANGED state /\ task[j].stage = "types"
  <2>1. partial[j] = FALSE /\ partial'[j] = TRUE
    BY <1>3, OfTypes DEF JobsInv, Query!TypeOK, JobInv, Reported
  <2>2. SeenPartial[j] = FALSE /\ SeenPartial'[j] = TRUE /\ SeenProgress'[j] = SeenProgress[j]
    BY <1>3, <2>1, SeenChanges DEF KeepsJobs, JobsInv
  <2>3. QED
    BY <1>3, <2>2, SeenStep DEF KeepsJobs, JobsInv
<1>4. QED
  BY <1>1, <1>2, <1>3, OfTypes DEF Query!Continues, Query!Stages, JobsInv

LEMMA BeginFetchSeen == ASSUME JobsInv, NEW j \in Jobs, Query!BeginFetch(j), KeepsJobs(j) PROVE PromisedStep
<1>1. /\ JobInv(j) /\ state[j] = "running" /\ task[j].at = "wait" /\ UNCHANGED <<state, partial>>
      /\ task[j].stage \in Query!Stages
  BY Resuming, OfTypes DEF Query!BeginFetch, JobsInv
<1>2. progress \in [Jobs -> (0 .. 2) \X (0 .. Cardinality(Chunks))]
  BY ProgressTyped DEF JobsInv
<1>3. CASE Query!Phase(task[j].stage) = 0
  <2>1. progress'[j] = progress[j]
    BY <1>2, <1>3 DEF Query!BeginFetch, Query!Reports
  <2>2. SeenPartial'[j] = SeenPartial[j] /\ SeenProgress'[j] = SeenProgress[j]
    BY <1>1, <2>1, SeenChanges DEF KeepsJobs, JobsInv
  <2>3. QED
    BY <1>1, <2>2, SeenStep DEF KeepsJobs, JobsInv
<1>4. CASE Query!Phase(task[j].stage) # 0
  <2>1. progress'[j] = <<Query!Phase(task[j].stage), 0>>
    BY <1>2, <1>4 DEF Query!BeginFetch, Query!Reports
  <2>2. progress[j][1] \in Nat /\ progress[j][1] < Query!Phase(task[j].stage)
    BY <1>1, <1>2, <1>4 DEF JobInv, Reported, Query!Phase, Query!Stages
  <2>3. SeenPartial'[j] = SeenPartial[j] /\ SeenProgress'[j] = progress'[j] /\ SeenProgress[j] = progress[j]
    BY <1>1, SeenChanges DEF KeepsJobs, JobsInv
  <2>4. Query!Promise!Beyond(SeenProgress'[j], SeenProgress[j])
    BY <2>1, <2>2, <2>3 DEF Query!Promise!Beyond
  <2>5. QED
    BY <1>1, <2>3, <2>4, SeenStep DEF KeepsJobs, JobsInv
<1>5. QED
  BY <1>3, <1>4

LEMMA TurnsSeen ==
    ASSUME JobsInv, NEW j \in Jobs, NEW s \in Query!Stages, NEW c \in Chunks,
           NEW to \in Query!UnderWay \cup {"done", "failed"}, chunk[j][s][c] \in Query!Fetching,
           Query!Turns(j, s, c, to), KeepsJobs(j)
    PROVE  PromisedStep
<1>1. JobInv(j) /\ UNCHANGED <<state, partial>> /\ ~Unasked(j, s) /\ ~Whole(j, s) /\ FetchingIn(j, s)
  BY DEF JobsInv, Query!Turns, Unasked, Whole, FetchingIn, Query!Fetching, Query!UnderWay
<1>2. progress \in [Jobs -> (0 .. 2) \X (0 .. Cardinality(Chunks))]
  BY ProgressTyped DEF JobsInv
<1>3. CASE to # "done" \/ Query!Phase(s) = 0 \/ state[j] \notin {"running", "succeeded"}
  <2>1. to # "done" \/ Query!Phase(s) = 0 => progress'[j] = progress[j]
    BY <1>2 DEF Query!Turns, Query!Reports
  <2>2. SeenPartial'[j] = SeenPartial[j] /\ SeenProgress'[j] = SeenProgress[j]
    BY <1>1, <1>3, <2>1, SeenChanges DEF KeepsJobs, JobsInv
  <2>3. QED
    BY <1>1, <2>2, SeenStep DEF KeepsJobs, JobsInv
<1>4. CASE to = "done" /\ Query!Phase(s) # 0 /\ state[j] \in {"running", "succeeded"}
  <2>1. task[j].stage = s /\ task[j].at = "fetch" /\ state[j] = "running"
    BY <1>1, <1>4, OfTypes DEF JobsInv, JobInv, StagesInTurn, TaskTells, Suspended, Query!Phase, Query!Stages
  <2>2. progress[j] = <<Query!Phase(s), NumberDone(j, s)>>
    BY <1>1, <1>4, <2>1 DEF JobInv, Reported
  <2>3. progress'[j] = <<Query!Phase(s), NumberDone(j, s) + 1>>
    BY <1>2, <1>4, ChunksCounted DEF Query!Turns, Query!Reports, NumberDone
  <2>4. NumberDone(j, s) \in Nat /\ Query!Phase(s) \in Nat
    <3>1. IsFiniteSet({d \in Chunks : chunk[j][s][d] = "done"})
      BY JobsAssumption, FS_Subset
    <3>2. QED
      BY <3>1, FS_CardinalityType DEF NumberDone, Query!Phase
  <2>5. SeenPartial'[j] = SeenPartial[j] /\ SeenProgress'[j] = progress'[j] /\ SeenProgress[j] = progress[j]
    BY <1>1, <2>1, SeenChanges DEF KeepsJobs, JobsInv
  <2>6. Query!Promise!Beyond(SeenProgress'[j], SeenProgress[j])
    BY <2>2, <2>3, <2>4, <2>5 DEF Query!Promise!Beyond
  <2>7. QED
    BY <1>1, <2>1, <2>5, <2>6, SeenStep DEF KeepsJobs, JobsInv
<1>5. QED
  BY <1>3, <1>4

LEMMA CancelSeen == ASSUME JobsInv, NEW j \in Jobs, Query!CancelJob(j), KeepsJobs(j) PROVE PromisedStep
<1>1. state' = [state EXCEPT ![j] = IF state[j] = "running" THEN "canceled" ELSE state[j]] /\ UNCHANGED <<partial, progress>>
  BY DEF Query!CancelJob
<1>2. CASE state[j] = "running"
  <2>1. state'[j] = "canceled"
    BY <1>1, <1>2 DEF JobsInv, Query!TypeOK
  <2>2. SeenPartial'[j] = FALSE /\ SeenProgress'[j] = <<0, 0>>
    BY <2>1, SeenChanges DEF KeepsJobs, JobsInv
  <2>3. QED
    BY <1>2, <2>1, <2>2, SeenStep DEF KeepsJobs, JobsInv
<1>3. CASE state[j] # "running"
  <2>1. UNCHANGED state
    BY <1>1, <1>3 DEF JobsInv, Query!TypeOK
  <2>2. QED
    BY <1>1, <2>1, QuietStep
<1>4. QED
  BY <1>2, <1>3

LEMMA StepSeen == JobsInv /\ [Query!Next]_(Query!vars) => PromisedStep
<1>. SUFFICES ASSUME JobsInv, [Query!Next]_(Query!vars) PROVE PromisedStep
  OBVIOUS
<1>1. CASE UNCHANGED Query!vars
  BY <1>1, QuietStep DEF Query!vars
<1>2. ASSUME NEW j \in Jobs, Query!Runner(j) PROVE PromisedStep
  <2>1. KeepsJobs(j)
    BY <1>2, PostArrivesKeeps, PostReturnsKeeps, TaskFailuresKeep, RowsKeep, BeginFetchKeeps, TaskStopsKeeps DEF Query!Runner
  <2>2. CASE Query!PostArrives(j) \/ Query!PostReturns(j)
    BY <2>2, QuietStep DEF Query!PostArrives, Query!PostReturns
  <2>3. CASE Query!PostFails(j)
    BY <2>1, <2>3, Resuming, RaisesSeen DEF Query!PostFails
  <2>4. CASE Query!FetchFails(j)
    BY <2>1, <2>4, Resuming, RaisesSeen DEF Query!FetchFails
  <2>5. CASE Query!StatementFailed(j)
    BY <2>1, <2>5, Resuming, RaisesSeen DEF Query!StatementFailed
  <2>6. CASE Query!PollFails(j)
    BY <2>1, <2>6, Resuming, RaisesSeen DEF Query!PollFails
  <2>7. CASE Query!TimesOut(j)
    BY <2>1, <2>7, Resuming, RaisesSeen DEF Query!TimesOut
  <2>8. CASE Query!InlineRows(j)
    BY <2>1, <2>8, Resuming, ContinuesSeen DEF Query!InlineRows
  <2>9. CASE Query!Fetched(j)
    BY <2>1, <2>9, Resuming, ContinuesSeen DEF Query!Fetched
  <2>10. CASE Query!BeginFetch(j)
    BY <2>1, <2>10, BeginFetchSeen
  <2>11. CASE Query!TaskStops(j)
    <3>1. state[j] = "canceled"
      BY <2>11, OfTypes DEF Query!TaskStops, JobsInv, JobInv, TaskTells, Suspended
    <3>2. UNCHANGED <<state, partial, progress>>
      BY <2>11, <3>1 DEF Query!TaskStops, JobsInv, Query!TypeOK
    <3>3. QED
      BY <3>2, QuietStep
  <2>12. QED
    BY <1>2, <2>2, <2>3, <2>4, <2>5, <2>6, <2>7, <2>8, <2>9, <2>10, <2>11 DEF Query!Runner
<1>3. ASSUME NEW j \in Jobs, Query!CreateJob(j) PROVE PromisedStep
  BY <1>3, CreateKeeps, CreateSeen
<1>4. ASSUME NEW j \in Jobs, Query!Downloads(j) PROVE PromisedStep
  <2>1. PICK s \in Query!Stages, c \in Chunks, to \in Query!UnderWay \cup {"done", "failed"} :
           chunk[j][s][c] \in Query!Fetching /\ Query!Turns(j, s, c, to)
    BY <1>4, DownloadsTurn
  <2>2. QED
    BY <2>1, TurnsKeep, TurnsSeen
<1>5. ASSUME NEW j \in Jobs, Query!CancelJob(j) PROVE PromisedStep
  BY <1>5, CancelJobKeeps, CancelSeen
<1>6. ASSUME NEW j \in Jobs, Query!StopStatement(j) \/ Query!StatementEnds(j) PROVE PromisedStep
  BY <1>6, QuietStep DEF Query!StopStatement, Query!StatementEnds
<1>7. CASE Query!Next
  BY <1>2, <1>3, <1>4, <1>5, <1>6, <1>7 DEF Query!Next
<1>8. QED
  BY <1>1, <1>7

LEMMA InitSeen == Query!Init => Query!Promise!Init
<1>. SUFFICES ASSUME Query!Init PROVE Query!Promise!Init
  OBVIOUS
<1>1. SeenPartial = [j \in Jobs |-> FALSE] /\ SeenProgress = [j \in Jobs |-> <<0, 0>>]
  BY DEF Query!Init, SeenPartial, SeenProgress
<1>2. QED
  BY <1>1, PromiseSays DEF Query!Init

\* The parts of MCQueries that are not about the jobs leave them alone.
LEMMA JobsPart == MCNext \/ UNCHANGED <<jobs, dev, data, part>> => [Query!Next]_(Query!vars)
BY DEF MCNext, jobs, Query!vars

LEMMA JobsAlways == MCSpec => []JobsInv
<1>1. MCInit => JobsInv
  BY JobsStart DEF MCInit
<1>2. JobsInv /\ [MCNext]_<<jobs, dev, data, part>> => JobsInv'
  BY JobsPart, JobsStep
<1>3. QED
  BY <1>1, <1>2, PTL DEF MCSpec

(* What the poller sees of a job is what JobPromise promises but for the end of every   *)
(* job: it opens, shows a partial while it runs, moves its progress forward, and ends   *)
(* once, whatever the cancel handler and the task write after one another               *)
(* (async_job.py).                                                                      *)
THEOREM JobsKeepPromise ==
    MCSpec => Query!Promise!Init /\ [][Query!Promise!Next]_(Query!Promise!shown)
<1>1. MCInit => Query!Promise!Init
  BY InitSeen DEF MCInit
<1>2. JobsInv /\ [MCNext]_<<jobs, dev, data, part>> => [Query!Promise!Next]_(Query!Promise!shown)
  BY JobsPart, StepSeen DEF PromisedStep
<1>3. QED
  BY <1>1, <1>2, JobsAlways, PTL DEF MCSpec

-------------------------------------------------------------------------------
(* The warehouse of a development machine.  After a cancel the task works on, on a statement *)
(* that has ended: its flag is set, and every place where the task writes looks at it   *)
(* (FlagTold).                                                                          *)

\* Its task has something left to do.
UnderWork(s) == work[s] \in {"created", "dwells", "thread"}

\* What the emulator has of the statements, but for the order they are kept in.
RecordTypes ==
    /\ record \in [Statements -> {"none", "PENDING", "RUNNING"} \cup Dev!Terminal]
    /\ response \in [Statements -> {"none", "SUCCEEDED", "FAILED"}]
    /\ flagged \in [Statements -> BOOLEAN]
    /\ work \in [Statements -> {"none", "created", "dwells", "thread", "over"}]
    /\ client \in [Statements -> {"nothing", "posting", "running", "succeeded", "canceled",
                                  "failed", "lost"}]

\* A task goes on working after a cancel, but on a statement that has ended.
FlagTold(s) ==
    /\ client[s] = "nothing" <=> record[s] = "none"
    /\ UnderWork(s) /\ flagged[s] => record[s] = "CANCELED"
    /\ UnderWork(s) /\ ~flagged[s] => record[s] \in {"PENDING", "RUNNING"}
    /\ record[s] = "none" => ~flagged[s]

\* Records have their types, and a flag has reached the state.
DevInv == RecordTypes /\ \A s \in Statements : FlagTold(s)

\* What the warehouse says of a record.
As(st) == CASE st = "none" -> "none"
            [] st \in {"PENDING", "RUNNING"} -> "running"
            [] st = "SUCCEEDED" -> "finished"
            [] st = "FAILED" -> "failed"
            [] OTHER -> "canceled"

\* The statements as the refinement maps them.
Seen == [s \in Statements |-> As(record[s])]

LEMMA WarehouseSays ==
    /\ Dev!Behaves!Init <=> Seen = [s \in Statements |-> "none"]
    /\ [Dev!Behaves!Next]_Seen <=> 
         \/ UNCHANGED Seen
         \/ \E s \in Statements :
              \/ \E to \in {"running", "finished", "failed"} : Seen[s] = "none" /\ Seen' = [Seen EXCEPT ![s] = to]
              \/ \E to \in {"finished", "failed"} : Seen[s] = "running" /\ Seen' = [Seen EXCEPT ![s] = to]
              \/ Seen[s] = "running" /\ Seen' = [Seen EXCEPT ![s] = "canceled"]
<1>. DEFINE seen == [s \in Statements |->
        CASE record[s] = "none" -> "none"
          [] record[s] \in {"PENDING", "RUNNING"} -> "running"
          [] record[s] = "SUCCEEDED" -> "finished"
          [] record[s] = "FAILED" -> "failed"
          [] OTHER -> "canceled"]
<1>1. seen = Seen /\ seen' = Seen'
  BY DEF Seen, As
<1>. HIDE DEF seen
<1>2. Dev!Behaves!Init <=> seen = [s \in Statements |-> "none"]
  BY DEF Dev!Behaves!Init, seen
<1>3. Dev!Behaves!Next <=> \E s \in Statements :
              \/ \E to \in {"running", "finished", "failed"} : seen[s] = "none" /\ seen' = [seen EXCEPT ![s] = to]
              \/ \E to \in {"finished", "failed"} : seen[s] = "running" /\ seen' = [seen EXCEPT ![s] = to]
              \/ seen[s] = "running" /\ seen' = [seen EXCEPT ![s] = "canceled"]
  BY DEF Dev!Behaves!Next, Dev!Behaves!Starts, Dev!Behaves!Ends, Dev!Behaves!Stops, Dev!Behaves!Becomes, seen
<1>4. QED
  BY <1>1, <1>2, <1>3

\* One statement comes to something, or to nothing new.
LEMMA BecomesOf ==
    ASSUME RecordTypes, NEW s \in Statements, NEW st \in {"PENDING", "RUNNING"} \cup Dev!Terminal,
           record' = Dev!Now(record, s, st),
           \/ record[s] = "none" /\ st # "CANCELED"
           \/ record[s] \in {"PENDING", "RUNNING"}
           \/ record[s] = st
    PROVE  /\ [Dev!Behaves!Next]_Seen
           /\ record' \in [Statements -> {"none", "PENDING", "RUNNING"} \cup Dev!Terminal]
           /\ record'[s] = st /\ \A z \in Statements \ {s} : record'[z] = record[z]
<1>1. /\ record' \in [Statements -> {"none", "PENDING", "RUNNING"} \cup Dev!Terminal]
      /\ record'[s] = st /\ \A z \in Statements \ {s} : record'[z] = record[z]
  BY DEF RecordTypes, Dev!Now
<1>2. Seen' = [Seen EXCEPT ![s] = As(st)] /\ Seen[s] = As(record[s])
  BY <1>1 DEF Seen
<1>3. As(record[s]) = As(st) => UNCHANGED Seen
  BY <1>2 DEF Seen
<1>4. \/ As(st) = As(record[s])
      \/ As(record[s]) = "none" /\ As(st) \in {"running", "finished", "failed"}
      \/ As(record[s]) = "running" /\ As(st) \in {"finished", "failed", "canceled"}
  BY DEF As, Dev!Terminal
<1>5. [Dev!Behaves!Next]_Seen
  BY <1>2, <1>3, <1>4, WarehouseSays
<1>6. QED
  BY <1>1, <1>5

LEMMA StateStays == ASSUME UNCHANGED record PROVE [Dev!Behaves!Next]_Seen
<1>1. UNCHANGED Seen
  BY DEF Seen
<1>2. QED
  BY <1>1

\* A step keeps the invariant and is one of the warehouse, or none.
DevKeeps == DevInv' /\ [Dev!Behaves!Next]_Seen

LEMMA PostKeeps == ASSUME DevInv, NEW s \in Statements, Dev!Post(s) PROVE DevKeeps
<1>1. record[s] = "none" /\ ~flagged[s]
  BY DEF DevInv, FlagTold, Dev!Post
<1>2. /\ [Dev!Behaves!Next]_Seen
      /\ record' \in [Statements -> {"none", "PENDING", "RUNNING"} \cup Dev!Terminal]
      /\ record'[s] = "PENDING" /\ \A z \in Statements \ {s} : record'[z] = record[z]
  BY <1>1, BecomesOf DEF DevInv, Dev!Post
<1>3. RecordTypes'
  BY <1>2 DEF DevInv, RecordTypes, Dev!Post, Dev!Now
<1>4. \A z \in Statements : FlagTold(z)'
  BY <1>1, <1>2 DEF DevInv, RecordTypes, FlagTold, UnderWork, Dev!Post, Dev!Now
<1>5. QED
  BY <1>2, <1>3, <1>4 DEF DevKeeps, DevInv

LEMMA PostAndRunKeeps == ASSUME DevInv, NEW s \in Statements, Dev!PostAndRun(s) PROVE DevKeeps
<1>1. record[s] = "none" /\ ~flagged[s]
  BY DEF DevInv, FlagTold, Dev!PostAndRun
<1>. PICK end \in {"SUCCEEDED", "FAILED"} : record' = Dev!Now(record, s, end) /\ client' = Dev!Now(client, s, Dev!Told(end))
  BY DEF Dev!PostAndRun
<1>2. /\ [Dev!Behaves!Next]_Seen
      /\ record' \in [Statements -> {"none", "PENDING", "RUNNING"} \cup Dev!Terminal]
      /\ record'[s] = end /\ \A z \in Statements \ {s} : record'[z] = record[z]
  BY <1>1, BecomesOf DEF DevInv, Dev!Terminal
<1>3. Dev!Told(end) \in {"succeeded", "failed"}
  BY DEF Dev!Told
<1>4. RecordTypes'
  BY <1>2, <1>3 DEF DevInv, RecordTypes, Dev!PostAndRun, Dev!Now
<1>5. \A z \in Statements : FlagTold(z)'
  BY <1>1, <1>2, <1>3 DEF DevInv, RecordTypes, FlagTold, UnderWork, Dev!PostAndRun, Dev!Now
<1>6. QED
  BY <1>2, <1>4, <1>5 DEF DevKeeps, DevInv

LEMMA GoesKeeps ==
    ASSUME DevInv, NEW s \in Statements, work[s] \in {"created", "dwells"}, Dev!Goes(s),
           UNCHANGED <<response, flagged, client>>
    PROVE  DevKeeps
<1>1. flagged[s] \in BOOLEAN /\ (IF flagged[s] THEN record[s] = "CANCELED" ELSE record[s] \in {"PENDING", "RUNNING"})
  BY DEF DevInv, RecordTypes, FlagTold, UnderWork
<1>. PICK st \in {"RUNNING", "CANCELED"} : record' = Dev!Now(record, s, st) /\ (st = "CANCELED" <=> flagged[s])
  BY DEF Dev!Goes
<1>. PICK at \in {"dwells", "thread", "over"} : work' = Dev!Now(work, s, at)
  BY DEF Dev!Goes
<1>2. /\ [Dev!Behaves!Next]_Seen
      /\ record' \in [Statements -> {"none", "PENDING", "RUNNING"} \cup Dev!Terminal]
      /\ record'[s] = st /\ \A z \in Statements \ {s} : record'[z] = record[z]
  BY <1>1, BecomesOf DEF DevInv, Dev!Terminal
<1>3. RecordTypes'
  BY <1>2 DEF DevInv, RecordTypes, Dev!Now
<1>4. \A z \in Statements : FlagTold(z)'
  BY <1>1, <1>2 DEF DevInv, RecordTypes, FlagTold, UnderWork, Dev!Now
<1>5. QED
  BY <1>2, <1>3, <1>4 DEF DevKeeps, DevInv

LEMMA ThreadReturnsKeeps == ASSUME DevInv, NEW s \in Statements, Dev!ThreadReturns(s) PROVE DevKeeps
<1>1. flagged[s] \in BOOLEAN /\ (IF flagged[s] THEN record[s] = "CANCELED" ELSE record[s] \in {"PENDING", "RUNNING"})
  BY DEF DevInv, RecordTypes, FlagTold, UnderWork, Dev!ThreadReturns
<1>. PICK st \in {"SUCCEEDED", "FAILED", "CANCELED"} : record' = Dev!Now(record, s, st) /\ (st = "CANCELED" <=> flagged[s])
  BY DEF Dev!ThreadReturns, Dev!ThreadAnswers
<1>2. /\ [Dev!Behaves!Next]_Seen
      /\ record' \in [Statements -> {"none", "PENDING", "RUNNING"} \cup Dev!Terminal]
      /\ record'[s] = st /\ \A z \in Statements \ {s} : record'[z] = record[z]
  BY <1>1, BecomesOf DEF DevInv, Dev!Terminal
<1>3. response' \in [Statements -> {"none", "SUCCEEDED", "FAILED"}]
  BY DEF DevInv, RecordTypes, Dev!ThreadReturns, Dev!ThreadAnswers, Dev!Now
<1>4. RecordTypes'
  BY <1>2, <1>3 DEF DevInv, RecordTypes, Dev!ThreadReturns, Dev!Now
<1>5. \A z \in Statements : FlagTold(z)'
  BY <1>1, <1>2 DEF DevInv, RecordTypes, FlagTold, UnderWork, Dev!ThreadReturns, Dev!Now
<1>6. QED
  BY <1>2, <1>4, <1>5 DEF DevKeeps, DevInv

LEMMA ClientKeeps ==
    ASSUME DevInv, NEW s \in Statements, Dev!PostAnswers(s) \/ Dev!Poll(s)
    PROVE  DevKeeps
<1>1. client[s] # "nothing" /\ UNCHANGED <<record, response, flagged, work>>
  BY DEF Dev!PostAnswers, Dev!Poll
<1>2. \A status : Dev!Told(status) \in {"running", "succeeded", "canceled", "failed"}
  BY DEF Dev!Told
<1>3. \E says \in {"running", "succeeded", "canceled", "failed", "lost"} : client' = Dev!Now(client, s, says)
  BY <1>2 DEF Dev!PostAnswers, Dev!Poll
<1>4. DevInv'
  BY <1>1, <1>3 DEF DevInv, RecordTypes, FlagTold, UnderWork, Dev!Now
<1>5. QED
  BY <1>1, <1>4, StateStays DEF DevKeeps

LEMMA CancelDevKeeps == ASSUME DevInv, NEW s \in Statements, Dev!Cancel(s) PROVE DevKeeps
<1>1. record[s] \in {"PENDING", "RUNNING"} \cup Dev!Terminal
  BY DEF DevInv, RecordTypes, FlagTold, Dev!Cancel
<1>. PICK st \in Dev!Terminal : record' = Dev!Now(record, s, st) /\ st = Dev!CancelledState(s)
  BY <1>1 DEF Dev!Cancel, Dev!CancelledState, Dev!Terminal
<1>2. /\ [Dev!Behaves!Next]_Seen
      /\ record' \in [Statements -> {"none", "PENDING", "RUNNING"} \cup Dev!Terminal]
      /\ record'[s] = st /\ \A z \in Statements \ {s} : record'[z] = record[z]
  BY <1>1, BecomesOf DEF DevInv, Dev!CancelledState
<1>3. RecordTypes'
  BY <1>2 DEF DevInv, RecordTypes, Dev!Cancel, Dev!Now
<1>4. \A z \in Statements : FlagTold(z)'
  BY <1>1, <1>2 DEF DevInv, RecordTypes, FlagTold, UnderWork, Dev!Cancel, Dev!Now, Dev!CancelledState, Dev!Terminal
<1>5. QED
  BY <1>2, <1>3, <1>4 DEF DevKeeps, DevInv

LEMMA DevStep == DevInv /\ [Dev!Next]_(Dev!vars) => DevKeeps
<1>. SUFFICES ASSUME DevInv, [Dev!Next]_(Dev!vars) PROVE DevKeeps
  OBVIOUS
<1>1. CASE UNCHANGED Dev!vars
  <2>1. DevInv'
    BY <1>1 DEF DevInv, RecordTypes, FlagTold, UnderWork, Dev!vars
  <2>2. QED
    BY <1>1, <2>1, StateStays DEF DevKeeps, Dev!vars
<1>2. ASSUME NEW s \in Statements, Dev!TaskStarts(s) \/ Dev!Dwells(s) PROVE DevKeeps
  BY <1>2, GoesKeeps DEF Dev!TaskStarts, Dev!Dwells
<1>3. CASE Dev!Next
  BY <1>2, <1>3, PostKeeps, PostAndRunKeeps, ThreadReturnsKeeps, ClientKeeps, CancelDevKeeps DEF Dev!Next
<1>4. QED
  BY <1>1, <1>3

LEMMA DevStarts == Dev!Init => DevInv /\ Dev!Behaves!Init
<1>. SUFFICES ASSUME Dev!Init PROVE DevInv /\ Dev!Behaves!Init
  OBVIOUS
<1>1. DevInv
  BY DEF Dev!Init, DevInv, RecordTypes, FlagTold, UnderWork
<1>2. Seen = [s \in Statements |-> "none"]
  BY DEF Dev!Init, Seen, As
<1>3. QED
  BY <1>1, <1>2, WarehouseSays

\* The parts of MCQueries that are not about the emulator leave it alone.
LEMMA DevPart == MCNext \/ UNCHANGED <<jobs, dev, data, part>> => [Dev!Next]_(Dev!vars)
BY DEF MCNext, dev, Dev!vars

LEMMA DevAlways == MCSpec => []DevInv
<1>1. MCInit => DevInv
  BY DevStarts DEF MCInit
<1>2. DevInv /\ [MCNext]_<<jobs, dev, data, part>> => DevInv'
  BY DevPart, DevStep DEF DevKeeps
<1>3. QED
  BY <1>1, <1>2, PTL DEF MCSpec

(* The emulator is a warehouse: a statement is posted, runs and ends once, although its *)
(* task goes on after a cancel and writes once more (_run_inline_statement,             *)
(* cancel_statement).                                                                   *)
THEOREM DevIsWarehouse == MCSpec => Dev!BehavesAsWarehouse
<1>1. [Dev!Behaves!Next]_Seen <=> [Dev!Behaves!Next]_[s \in Statements |->
        CASE record[s] = "none" -> "none"
          [] record[s] \in {"PENDING", "RUNNING"} -> "running"
          [] record[s] = "SUCCEEDED" -> "finished"
          [] record[s] = "FAILED" -> "failed"
          [] OTHER -> "canceled"]
  BY DEF Seen, As
<1>2. MCInit => Dev!Behaves!Init
  BY DevStarts DEF MCInit
<1>3. DevInv /\ [MCNext]_<<jobs, dev, data, part>> => [Dev!Behaves!Next]_Seen
  BY DevPart, DevStep DEF DevKeeps
<1>4. QED
  BY <1>1, <1>2, <1>3, DevAlways, PTL DEF MCSpec, Dev!BehavesAsWarehouse, Dev!Behaves!Spec

-------------------------------------------------------------------------------
(* What is kept of a statement, and what the console was told. *)

\* get_statement_status says of a statement.
Says(s) == IF Dev!Kept(s) \/ s \in stored THEN Dev!Told(Dev!Status(s)) ELSE "lost"

\* What the console may be told of a statement that ended.
Ended == {"succeeded", "canceled", "failed", "lost"}

\* A record stays while its task needs it; a response and the state that goes with it come
\* together; a statement is not cancelled before its POST was answered.
Filed(s) ==
    /\ record[s] \in {"PENDING", "RUNNING"} => Dev!Kept(s)
    /\ work[s] = "created" => client[s] = "posting"
    /\ UnderWork(s) => response[s] = "none"
    /\ response[s] # "none" => record[s] = response[s]
    /\ record[s] = "CANCELED" => flagged[s]
    /\ client[s] = "posting" => ~flagged[s] /\ s \notin stored
    /\ client[s] = "nothing" => ~Dev!Kept(s) /\ s \notin stored
    /\ Dev!Kept(s) => s \notin stored /\ (record[s] \in {"SUCCEEDED", "FAILED"} => response[s] = record[s])

\* Of a statement that ended the console hears the same again.
Said(s) == client[s] \in Ended => Says(s) \in {client[s], "lost"}

FiledInv ==
    /\ kept \in [Statements -> Nat] /\ stored \subseteq Statements
    /\ \A s \in Statements : Filed(s) /\ Said(s)

LEMMA InitFiled == Dev!Init => FiledInv
BY DEF Dev!Init, FiledInv, Filed, Said, Dev!Kept, UnderWork, Ended

LEMMA ToldSays ==
    /\ \A status : Dev!Told(status) \in {"running", "succeeded", "canceled", "failed"}
    /\ Dev!Told("PENDING") = "running" /\ Dev!Told("RUNNING") = "running" /\ Dev!Told("SUCCEEDED") = "succeeded"
    /\ Dev!Told("CANCELED") = "canceled" /\ Dev!Told("FAILED") = "failed"
BY DEF Dev!Told

\* Nothing of a statement moves but what a task, a cancel or the console does with it.
LEMMA OthersFiled ==
    ASSUME FiledInv, NEW z \in Statements,
           /\ kept'[z] = kept[z] /\ record'[z] = record[z] /\ response'[z] = response[z]
           /\ flagged'[z] = flagged[z] /\ work'[z] = work[z] /\ client'[z] = client[z]
           /\ z \in stored' <=> z \in stored
    PROVE  (Filed(z) /\ Said(z))'
<1>1. Filed(z) /\ Said(z)
  BY DEF FiledInv
<1>2. Dev!Status(z)' = Dev!Status(z) /\ Says(z)' = Says(z)
  BY DEF Dev!Status, Says, Dev!Kept, Dev!Told
<1>3. QED
  BY <1>1, <1>2 DEF Filed, Said, UnderWork, Dev!Kept

\* Cardinality of Emulator is that of FiniteSets.
LEMMA StatementsCounted == \A S : Dev!Cardinality(S) = Cardinality(S)
BY DEF Dev!Cardinality, Cardinality, Dev!IsFiniteSet, IsFiniteSet

LEMMA PostFiled == ASSUME DevInv, FiledInv, NEW s \in Statements, Dev!Post(s) PROVE FiledInv'
<1>. USE DEF Dev!Now
<1>1. /\ client[s] = "nothing" /\ ~flagged[s] /\ response[s] = "none" /\ s \notin stored
      /\ client \in [Statements -> {"nothing", "posting", "running", "succeeded", "canceled", "failed", "lost"}]
      /\ kept \in [Statements -> Nat]
      /\ record \in [Statements -> {"none", "PENDING", "RUNNING"} \cup Dev!Terminal]
      /\ work \in [Statements -> {"none", "created", "dwells", "thread", "over"}]
  BY DEF Dev!Post, DevInv, FiledInv, FlagTold, Filed, RecordTypes, Dev!Terminal
<1>2. /\ kept' = Dev!Inserted(s) /\ UNCHANGED <<response, flagged, stored>>
      /\ client'[s] = "posting" /\ record'[s] = "PENDING" /\ work'[s] = "created"
      /\ \A z \in Statements \ {s} :
            client'[z] = client[z] /\ record'[z] = record[z] /\ work'[z] = work[z]
  BY <1>1 DEF Dev!Post
<1>3. Dev!Turn \in Nat /\ Dev!Turn # 0
  <2>1. {t \in Statements : client[t] # "nothing"} \in SUBSET Statements
    OBVIOUS
  <2>2. Cardinality({t \in Statements : client[t] # "nothing"}) \in Nat
    BY <2>1, DevAssumption, FS_Subset, FS_CardinalityType
  <2>3. QED
    BY <2>2, StatementsCounted DEF Dev!Turn
<1>4. kept' \in [Statements -> Nat]
  BY <1>1, <1>2, <1>3 DEF Dev!Inserted
<1>5. Dev!Kept(s)'
  BY <1>2, <1>3 DEF Dev!Inserted, Dev!Kept
<1>6. (Filed(s) /\ Said(s))'
  BY <1>1, <1>2, <1>5 DEF Filed, Said, UnderWork, Ended
<1>7. ASSUME NEW z \in Statements \ {s} PROVE (Filed(z) /\ Said(z))'
  <2>1. CASE z \in Dev!Reaped
    <3>1. record[z] \in Dev!Terminal
      BY <2>1 DEF Dev!Reaped, Dev!Dropped
    <3>2. ~Dev!Kept(z)' /\ Dev!Kept(z)
      BY <1>2, <2>1 DEF Dev!Inserted, Dev!Kept, Dev!Reaped, Dev!Dropped, Dev!Keys
    <3>3. Filed(z) /\ Said(z) /\ z \notin stored'
      BY <1>2, <3>2 DEF FiledInv, Filed
    <3>4. Says(z)' = "lost"
      BY <3>2, <3>3 DEF Says
    <3>5. Filed(z)'
      BY <1>2, <3>1, <3>2, <3>3 DEF Filed, UnderWork, Dev!Terminal
    <3>6. QED
      BY <3>4, <3>5 DEF Said
  <2>2. CASE z \notin Dev!Reaped
    <3>1. kept'[z] = kept[z]
      BY <1>2, <2>2 DEF Dev!Inserted
    <3>2. QED
      BY <1>2, <3>1, OthersFiled
  <2>3. QED
    BY <2>1, <2>2
<1>8. QED
  BY <1>2, <1>4, <1>6, <1>7 DEF FiledInv

LEMMA PostAndRunFiled == ASSUME DevInv, FiledInv, NEW s \in Statements, Dev!PostAndRun(s) PROVE FiledInv'
<1>. USE DEF Dev!Now
<1>1. /\ client[s] = "nothing" /\ ~flagged[s] /\ response[s] = "none" /\ s \notin stored /\ ~Dev!Kept(s)
      /\ client \in [Statements -> {"nothing", "posting", "running", "succeeded", "canceled", "failed", "lost"}]
      /\ record \in [Statements -> {"none", "PENDING", "RUNNING"} \cup Dev!Terminal]
      /\ work \in [Statements -> {"none", "created", "dwells", "thread", "over"}]
  BY DEF Dev!PostAndRun, DevInv, FiledInv, FlagTold, Filed, RecordTypes, Dev!Terminal
<1>. PICK end \in {"SUCCEEDED", "FAILED"}, external \in BOOLEAN :
        /\ record' = Dev!Now(record, s, end)
        /\ stored' = IF external /\ end = "SUCCEEDED" THEN stored \cup {s} ELSE stored
        /\ client' = Dev!Now(client, s, Dev!Told(end))
  BY DEF Dev!PostAndRun
<1>2. /\ UNCHANGED <<kept, response, flagged>>
      /\ client'[s] = Dev!Told(end) /\ record'[s] = end /\ work'[s] = "over"
      /\ \A z \in Statements \ {s} :
            client'[z] = client[z] /\ record'[z] = record[z] /\ work'[z] = work[z]
  BY <1>1 DEF Dev!PostAndRun
<1>3. stored' \subseteq Statements /\ \A z \in Statements \ {s} : z \in stored' <=> z \in stored
  BY DEF FiledInv
<1>4. (Filed(s) /\ Said(s))'
  <2>1. ~Dev!Kept(s)'
    BY <1>1, <1>2 DEF Dev!Kept
  <2>2. Says(s)' \in {client'[s], "lost"}
    BY <1>1, <1>2, <2>1, ToldSays DEF Says, Dev!Status, Dev!Told
  <2>3. QED
    BY <1>1, <1>2, <2>1, <2>2, ToldSays DEF Filed, Said, UnderWork
<1>5. \A z \in Statements \ {s} : (Filed(z) /\ Said(z))'
  BY <1>2, <1>3, OthersFiled
<1>6. QED
  BY <1>2, <1>3, <1>4, <1>5 DEF FiledInv

LEMMA GoesFiled ==
    ASSUME DevInv, FiledInv, NEW s \in Statements, work[s] \in {"created", "dwells"}, Dev!Goes(s),
           UNCHANGED <<kept, response, flagged, stored, client>>
    PROVE  FiledInv'
<1>. USE DEF Dev!Now
<1>1. /\ flagged[s] \in BOOLEAN /\ UnderWork(s) /\ response[s] = "none"
      /\ (IF flagged[s] THEN record[s] = "CANCELED" ELSE record[s] \in {"PENDING", "RUNNING"})
      /\ record \in [Statements -> {"none", "PENDING", "RUNNING"} \cup Dev!Terminal]
      /\ work \in [Statements -> {"none", "created", "dwells", "thread", "over"}]
      /\ Filed(s) /\ Said(s)
  BY DEF DevInv, FiledInv, RecordTypes, FlagTold, Filed, UnderWork
<1>. PICK st \in {"RUNNING", "CANCELED"} : record' = Dev!Now(record, s, st) /\ (st = "CANCELED" <=> flagged[s])
  BY DEF Dev!Goes
<1>. PICK at \in {"dwells", "thread", "over"} : work' = Dev!Now(work, s, at)
  BY DEF Dev!Goes
<1>2. /\ record'[s] = st /\ work'[s] = at
      /\ \A z \in Statements \ {s} : record'[z] = record[z] /\ work'[z] = work[z]
  BY <1>1
<1>3. Dev!Told(Dev!Status(s))' = Dev!Told(Dev!Status(s))
  BY <1>1, <1>2, ToldSays DEF Dev!Status, Dev!Kept
<1>4. (Filed(s) /\ Said(s))'
  <2>1. Says(s)' = Says(s) /\ Dev!Kept(s)' = Dev!Kept(s)
    BY <1>3 DEF Says, Dev!Kept
  <2>2. Said(s)'
    BY <1>1, <2>1 DEF Said
  <2>3. Filed(s)'
    BY <1>1, <1>2, <2>1 DEF Filed, UnderWork
  <2>4. QED
    BY <2>2, <2>3
<1>5. \A z \in Statements \ {s} : (Filed(z) /\ Said(z))'
  BY <1>2, OthersFiled
<1>6. QED
  BY <1>4, <1>5 DEF FiledInv

LEMMA ThreadReturnsFiled == ASSUME DevInv, FiledInv, NEW s \in Statements, Dev!ThreadReturns(s) PROVE FiledInv'
<1>. USE DEF Dev!Now
<1>1. /\ flagged[s] \in BOOLEAN /\ UnderWork(s) /\ response[s] = "none" /\ work[s] = "thread"
      /\ (IF flagged[s] THEN record[s] = "CANCELED" ELSE record[s] \in {"PENDING", "RUNNING"})
      /\ record \in [Statements -> {"none", "PENDING", "RUNNING"} \cup Dev!Terminal]
      /\ work \in [Statements -> {"none", "created", "dwells", "thread", "over"}]
      /\ response \in [Statements -> {"none", "SUCCEEDED", "FAILED"}]
      /\ Filed(s) /\ Said(s)
  BY DEF DevInv, FiledInv, RecordTypes, FlagTold, Filed, UnderWork, Dev!ThreadReturns
<1>2. /\ UNCHANGED <<kept, flagged, stored, client>> /\ work'[s] = "over"
      /\ \A z \in Statements \ {s} : work'[z] = work[z] /\ record'[z] = record[z] /\ response'[z] = response[z]
      /\ \/ flagged[s] /\ record'[s] = "CANCELED" /\ response'[s] = "none"
         \/ ~flagged[s] /\ \E end \in {"SUCCEEDED", "FAILED"} : record'[s] = end /\ response'[s] = end
  BY <1>1 DEF Dev!ThreadReturns, Dev!ThreadAnswers
<1>3. (Filed(s) /\ Said(s))'
  <2>1. Dev!Kept(s)' = Dev!Kept(s)
    BY <1>2 DEF Dev!Kept
  <2>2. Filed(s)'
    BY <1>1, <1>2, <2>1 DEF Filed, UnderWork
  <2>3. CASE flagged[s]
    <3>1. Says(s)' = Says(s)
      BY <1>1, <1>2, <2>1, <2>3 DEF Says, Dev!Status, Dev!Told
    <3>2. QED
      BY <1>1, <1>2, <2>2, <3>1 DEF Said
  <2>4. CASE ~flagged[s]
    <3>1. Dev!Kept(s) /\ Says(s) = "running"
      BY <1>1, <2>4, ToldSays DEF Filed, Says, Dev!Status
    <3>2. client[s] \notin Ended
      BY <1>1, <3>1 DEF Said, Ended
    <3>3. QED
      BY <1>2, <2>2, <3>2 DEF Said
  <2>5. QED
    BY <2>3, <2>4
<1>4. \A z \in Statements \ {s} : (Filed(z) /\ Said(z))'
  BY <1>2, OthersFiled
<1>5. QED
  BY <1>2, <1>3, <1>4 DEF FiledInv

LEMMA PostAnswersFiled == ASSUME DevInv, FiledInv, NEW s \in Statements, Dev!PostAnswers(s) PROVE FiledInv'
<1>. USE DEF Dev!Now
<1>1. /\ client[s] = "posting" /\ work[s] # "created" /\ ~flagged[s] /\ s \notin stored
      /\ record[s] \in {"PENDING", "RUNNING", "SUCCEEDED", "FAILED"}
      /\ client \in [Statements -> {"nothing", "posting", "running", "succeeded", "canceled", "failed", "lost"}]
      /\ Filed(s)
  BY DEF Dev!PostAnswers, DevInv, FiledInv, FlagTold, Filed, RecordTypes, Dev!Terminal
<1>2. /\ UNCHANGED <<kept, record, response, flagged, work, stored>>
      /\ client'[s] = Dev!Told(record[s])
      /\ \A z \in Statements \ {s} : client'[z] = client[z]
  BY <1>1, ToldSays DEF Dev!PostAnswers
<1>3. (Filed(s) /\ Said(s))'
  <2>1. Dev!Kept(s)' = Dev!Kept(s) /\ Says(s)' = Says(s)
    BY <1>2 DEF Dev!Kept, Says, Dev!Status, Dev!Told
  <2>2. Filed(s)'
    BY <1>1, <1>2, <2>1, ToldSays DEF Filed, UnderWork
  <2>3. CASE record[s] \in {"PENDING", "RUNNING"}
    BY <1>2, <2>2, <2>3, ToldSays DEF Said, Ended
  <2>4. CASE record[s] \in {"SUCCEEDED", "FAILED"}
    <3>1. Says(s) \in {Dev!Told(record[s]), "lost"}
      BY <1>1, <2>4 DEF Says, Dev!Status, Filed
    <3>2. QED
      BY <1>2, <2>1, <2>2, <3>1 DEF Said
  <2>5. QED
    BY <1>1, <2>3, <2>4
<1>4. \A z \in Statements \ {s} : (Filed(z) /\ Said(z))'
  BY <1>2, OthersFiled
<1>5. QED
  BY <1>2, <1>3, <1>4 DEF FiledInv

LEMMA PollFiled == ASSUME DevInv, FiledInv, NEW s \in Statements, Dev!Poll(s) PROVE FiledInv'
<1>. USE DEF Dev!Now
<1>1. /\ client[s] \notin {"nothing", "posting"} /\ Filed(s)
      /\ client \in [Statements -> {"nothing", "posting", "running", "succeeded", "canceled", "failed", "lost"}]
  BY DEF Dev!Poll, DevInv, FiledInv, RecordTypes
<1>2. /\ UNCHANGED <<kept, record, response, flagged, work, stored>>
      /\ client'[s] = Says(s)
      /\ \A z \in Statements \ {s} : client'[z] = client[z]
  BY <1>1 DEF Dev!Poll, Says
<1>3. (Filed(s) /\ Said(s))'
  <2>1. Dev!Kept(s)' = Dev!Kept(s) /\ Says(s)' = Says(s)
    BY <1>2 DEF Dev!Kept, Says, Dev!Status, Dev!Told
  <2>2. Says(s) \notin {"nothing", "posting"}
    BY ToldSays DEF Says
  <2>3. QED
    BY <1>1, <1>2, <2>1, <2>2 DEF Filed, Said, UnderWork
<1>4. \A z \in Statements \ {s} : (Filed(z) /\ Said(z))'
  BY <1>2, OthersFiled
<1>5. QED
  BY <1>2, <1>3, <1>4 DEF FiledInv

LEMMA CancelFiled == ASSUME DevInv, FiledInv, NEW s \in Statements, Dev!Cancel(s) PROVE FiledInv'
<1>. USE DEF Dev!Now
<1>1. /\ client[s] \notin {"nothing", "posting"} /\ Dev!Kept(s) /\ Filed(s) /\ Said(s) /\ FlagTold(s)
      /\ record \in [Statements -> {"none", "PENDING", "RUNNING"} \cup Dev!Terminal]
      /\ flagged \in [Statements -> BOOLEAN]
      /\ response \in [Statements -> {"none", "SUCCEEDED", "FAILED"}]
  BY DEF Dev!Cancel, DevInv, FiledInv, RecordTypes
<1>2. /\ UNCHANGED <<kept, response, work, stored, client>>
      /\ flagged'[s] = TRUE /\ record'[s] = Dev!CancelledState(s)
      /\ \A z \in Statements \ {s} : flagged'[z] = flagged[z] /\ record'[z] = record[z]
  BY <1>1 DEF Dev!Cancel
<1>3. Dev!Kept(s)' = Dev!Kept(s)
  BY <1>2 DEF Dev!Kept
<1>4. CASE record[s] \in {"PENDING", "RUNNING"}
  <2>1. response[s] = "none" /\ record'[s] = "CANCELED"
    BY <1>1, <1>2, <1>4 DEF Filed, Dev!CancelledState
  <2>2. Says(s) = "running"
    BY <1>1, <1>4, <2>1, ToldSays DEF Says, Dev!Status
  <2>3. client[s] \notin Ended
    BY <1>1, <2>2 DEF Said, Ended
  <2>4. (Filed(s) /\ Said(s))'
    BY <1>1, <1>2, <1>3, <2>1, <2>3 DEF Filed, Said, UnderWork
  <2>5. QED
    BY <1>2, <2>4, OthersFiled DEF FiledInv
<1>5. CASE record[s] \notin {"PENDING", "RUNNING"}
  <2>1. record'[s] = record[s]
    BY <1>2, <1>5 DEF Dev!CancelledState
  <2>2. Says(s)' = Says(s)
    BY <1>2, <1>3, <2>1 DEF Says, Dev!Status, Dev!Told
  <2>3. (Filed(s) /\ Said(s))'
    BY <1>1, <1>2, <1>3, <2>1, <2>2 DEF Filed, Said, UnderWork
  <2>4. QED
    BY <1>2, <2>3, OthersFiled DEF FiledInv
<1>6. QED
  BY <1>4, <1>5

LEMMA StepFiled == ASSUME DevInv, FiledInv, [Dev!Next]_(Dev!vars) PROVE FiledInv'
<1>1. CASE UNCHANGED Dev!vars
  <2>1. \A z \in Statements : (Filed(z) /\ Said(z))'
    BY <1>1, OthersFiled DEF Dev!vars
  <2>2. QED
    BY <1>1, <2>1 DEF FiledInv, Dev!vars
<1>2. ASSUME NEW s \in Statements, Dev!TaskStarts(s) \/ Dev!Dwells(s) PROVE FiledInv'
  BY <1>2, GoesFiled DEF Dev!TaskStarts, Dev!Dwells
<1>3. CASE Dev!Next
  BY <1>2, <1>3, PostFiled, PostAndRunFiled, ThreadReturnsFiled, PostAnswersFiled, PollFiled, CancelFiled DEF Dev!Next
<1>4. QED
  BY <1>1, <1>3

LEMMA FiledAlways == MCSpec => []FiledInv
<1>1. MCInit => FiledInv
  BY DevStarts, InitFiled DEF MCInit
<1>2. DevInv /\ FiledInv /\ [MCNext]_<<jobs, dev, data, part>> => FiledInv'
  BY DevPart, StepFiled
<1>3. QED
  BY <1>1, <1>2, DevAlways, PTL DEF MCSpec

LEMMA RecordsStay == DevInv /\ FiledInv => Dev!TypeOK /\ Dev!KeptWhileItRuns
BY DEF DevInv, FiledInv, RecordTypes, Dev!TypeOK, Dev!KeptWhileItRuns, Filed, UnderWork, FlagTold

(* What the console was told of a statement that ended it is told from then on, until   *)
(* the statement is forgotten: a cancel that comes late changes the state and not the   *)
(* response a poll prefers (get_statement_status).                                      *)
THEOREM DevAnswersStay == MCSpec => Dev!AnswersStand
<1>1. ASSUME DevInv, FiledInv, [Dev!Next]_(Dev!vars), NEW s \in Statements, client[s] \in Ended
      PROVE  client'[s] \in {client[s], "lost"}
  <2>1. ASSUME NEW z \in Statements, Dev!Poll(z) PROVE client'[s] \in {client[s], "lost"}
    <3>1. client' = Dev!Now(client, z, Says(z)) /\ Said(s)
      BY <1>1, <2>1 DEF Dev!Poll, Says, FiledInv
    <3>2. client \in [Statements -> {"nothing", "posting", "running", "succeeded", "canceled", "failed", "lost"}]
      BY <1>1 DEF DevInv, RecordTypes
    <3>3. QED
      BY <1>1, <3>1, <3>2 DEF Said, Dev!Now
  <2>2. ASSUME NEW z \in Statements, ~Dev!Poll(z),
               \/ Dev!Post(z) \/ Dev!PostAndRun(z) \/ Dev!TaskStarts(z) \/ Dev!Dwells(z) \/ Dev!ThreadReturns(z)
               \/ Dev!PostAnswers(z) \/ Dev!Poll(z) \/ Dev!Cancel(z)
        PROVE  client'[s] = client[s]
    <3>1. client' = client \/ (client[z] \in {"nothing", "posting"} /\ \E c : client' = Dev!Now(client, z, c))
      BY <2>2 DEF Dev!Post, Dev!PostAndRun, Dev!TaskStarts, Dev!Dwells, Dev!ThreadReturns, Dev!PostAnswers, Dev!Cancel
    <3>2. QED
      BY <1>1, <3>1 DEF Ended, Dev!Now, DevInv, RecordTypes
  <2>3. CASE UNCHANGED Dev!vars
    BY <2>3 DEF Dev!vars
  <2>4. QED
    BY <1>1, <2>1, <2>2, <2>3 DEF Dev!Next
<1>2. DevInv /\ FiledInv /\ [MCNext]_<<jobs, dev, data, part>> =>
        [\A s \in Statements : client[s] \in {"succeeded", "canceled", "failed", "lost"} =>
            client'[s] \in {client[s], "lost"}]_(Dev!vars)
  BY <1>1, DevPart DEF Ended
<1>3. QED
  BY <1>2, DevAlways, FiledAlways, PTL DEF MCSpec, Dev!AnswersStand

-------------------------------------------------------------------------------
(* What is made of the rows.  The first struct of an edge and the richest of a node are the *)
(* least of a set of places or numbers, which well-foundedness provides.                *)

\* A query as RowsAssumption says.
WellFormed(q) ==
    /\ Data!Structs(q.rows, "edges") \subseteq Nat \X Nat
    /\ Data!Structs(q.rows, "nodes") \subseteq Nat \X Nat
    /\ IsFiniteSet(UNION {n.props : n \in Data!Found(q.rows, "nodes")})
    /\ q.types \in BOOLEAN

\* Of some numbers one is the least.
LEMMA LeastNumber ==
    ASSUME NEW S \in SUBSET Nat, S # {}
    PROVE  \E m \in S : \A k \in S : m <= k
<1> DEFINE R == {p \in Nat \X Nat : p[1] < p[2]}
<1>1. IsWellFoundedOn(R, Nat)
  BY NatLessThanWellFounded DEF OpToRel
<1>2. \E x \in S : \A y \in S : ~ (<<y, x>> \in R)
  BY <1>1, WFMin
<1>3. \A x, y \in Nat : <<y, x>> \in R <=> y < x
  OBVIOUS
<1>4. PICK x \in S : \A y \in S : ~ (<<y, x>> \in R)
  BY <1>2
<1>. HIDE DEF R
<1>5. \A y \in S : ~(y < x)
  BY <1>3, <1>4
<1>6. QED
  BY <1>5

\* Of some places one comes first.
LEMMA FirstPlace ==
    ASSUME NEW P \in SUBSET (Nat \X Nat), P # {}
    PROVE  \E p \in P : \A q \in P : ~Data!Before(q, p)
<1> DEFINE places == {p[1] : p \in P}
<1>1. PICK m \in places : \A k \in places : m <= k
  <2>1. places \in SUBSET Nat /\ places # {}
    OBVIOUS
  <2>2. QED
    BY <2>1, LeastNumber
<1> DEFINE within == {p[2] : p \in {x \in P : x[1] = m}}
<1>2. PICK n \in within : \A k \in within : n <= k
  <2>1. within \in SUBSET Nat /\ within # {}
    OBVIOUS
  <2>. HIDE DEF within
  <2>2. QED
    BY <2>1, LeastNumber
<1>3. PICK p \in P : p[1] = m /\ p[2] = n
  OBVIOUS
<1>4. ASSUME NEW q \in P, Data!Before(q, p) PROVE FALSE
  <2>1. q[1] \in Nat /\ q[2] \in Nat /\ p[1] \in Nat /\ p[2] \in Nat /\ m <= q[1]
    BY <1>1
  <2>2. q[1] = m => n <= q[2]
    BY <1>2
  <2>3. QED
    BY <1>3, <1>4, <2>1, <2>2 DEF Data!Before
<1>5. QED
  BY <1>4

\* Two places are one, or one comes before the other.
LEMMA PlacesOrdered == \A p, q \in Nat \X Nat : p = q \/ Data!Before(p, q) \/ Data!Before(q, p)
BY DEF Data!Before

\* Every edge of the rows once.
LEMMA EdgesOnce ==
    ASSUME NEW q, WellFormed(q)
    PROVE  Data!IdsOf(Data!Edges(q.rows)) = {e.id : e \in Data!Found(q.rows, "edges")} /\ Data!Distinct(Data!Edges(q.rows))
<1> DEFINE places == Data!Structs(q.rows, "edges")
           at(p) == Data!At(q.rows, "edges", p)
           first == {p \in places : \A r \in places : Data!Before(r, p) => at(r).id # at(p).id}
<1>1. Data!Edges(q.rows) = {Data!Edge(at(p)) : p \in first} /\ Data!Found(q.rows, "edges") = {at(p) : p \in places}
  BY DEF Data!Edges, Data!Found
<1>2. places \in SUBSET (Nat \X Nat)
  BY DEF WellFormed
<1>3. \A e : Data!Edge(e).id = e.id
  BY DEF Data!Edge
<1>. HIDE DEF places, at
<1>4. ASSUME NEW p \in places PROVE \E r \in first : at(r).id = at(p).id
  <2> DEFINE same == {r \in places : at(r).id = at(p).id}
  <2>1. PICK r \in same : \A s \in same : ~Data!Before(s, r)
    <3>1. same \in SUBSET (Nat \X Nat) /\ same # {}
      BY <1>2
    <3>. HIDE DEF same
    <3>2. QED
      BY <3>1, FirstPlace
  <2>2. QED
    BY <2>1
<1>5. \A p, r \in first : at(p).id = at(r).id => p = r
  BY <1>2, PlacesOrdered
<1>6. Data!IdsOf(Data!Edges(q.rows)) = {e.id : e \in Data!Found(q.rows, "edges")}
  <2>1. Data!IdsOf(Data!Edges(q.rows)) = {at(p).id : p \in first}
    BY <1>1, <1>3 DEF Data!IdsOf
  <2>2. {e.id : e \in Data!Found(q.rows, "edges")} = {at(p).id : p \in places}
    BY <1>1
  <2>3. {at(p).id : p \in first} \subseteq {at(p).id : p \in places}
    OBVIOUS
  <2>4. {at(p).id : p \in places} \subseteq {at(p).id : p \in first}
    BY <1>4
  <2>5. QED
    BY <2>1, <2>2, <2>3, <2>4
<1>7. Data!Distinct(Data!Edges(q.rows))
  BY <1>1, <1>3, <1>5 DEF Data!Distinct
<1>8. QED
  BY <1>6, <1>7

\* Cardinality of GraphRows is that of FiniteSets.
LEMMA PropsCounted == \A S : Data!Cardinality(S) = Cardinality(S)
BY DEF Data!Cardinality, Cardinality, Data!IsFiniteSet, IsFiniteSet

\* A struct has no more properties than all of them together.
LEMMA SizesBounded ==
    ASSUME NEW q, WellFormed(q)
    PROVE  \E most \in Nat : \A f \in Data!Found(q.rows, "nodes") : Data!Size(f) \in Nat /\ Data!Size(f) <= most
<1> DEFINE all == UNION {n.props : n \in Data!Found(q.rows, "nodes")}
<1>1. IsFiniteSet(all) /\ Cardinality(all) \in Nat
  BY FS_CardinalityType DEF WellFormed
<1>2. ASSUME NEW f \in Data!Found(q.rows, "nodes")
      PROVE  Data!Size(f) \in Nat /\ Data!Size(f) <= Cardinality(all)
  <2>1. f.props \in SUBSET all
    OBVIOUS
  <2>. HIDE DEF all
  <2>2. IsFiniteSet(f.props) /\ Cardinality(f.props) <= Cardinality(all)
    BY <1>1, <2>1, FS_Subset
  <2>3. QED
    BY <2>2, PropsCounted, FS_CardinalityType DEF Data!Size
<1>. HIDE DEF all
<1>3. QED
  BY <1>1, <1>2

\* Of the structs of a node one is harvested, and none has more properties.
LEMMA HarvestedRichest ==
    ASSUME NEW q, WellFormed(q)
    PROVE  LET harvested == Data!Harvested(q.rows)
               found == Data!Found(q.rows, "nodes")
           IN  /\ harvested \subseteq found /\ 0 \notin Data!IdsOf(harvested) /\ Data!Distinct(harvested)
               /\ \A f \in found : f.id # 0 => f.id \in Data!IdsOf(harvested)
               /\ \A n \in harvested, f \in found : f.id = n.id => Data!Size(n) >= Data!Size(f)
<1> DEFINE places == Data!Structs(q.rows, "nodes")
           at(p) == Data!At(q.rows, "nodes", p)
           best == {r \in places : at(r).id # 0 /\
                       \A p \in places : at(p).id = at(r).id =>
                          Data!Size(at(p)) < Data!Size(at(r)) \/ (Data!Size(at(p)) = Data!Size(at(r)) /\ ~Data!Before(p, r))}
<1>1. Data!Harvested(q.rows) = {at(p) : p \in best} /\ Data!Found(q.rows, "nodes") = {at(p) : p \in places}
  BY DEF Data!Harvested, Data!Found
<1>2. places \in SUBSET (Nat \X Nat)
  BY DEF WellFormed
<1>3. PICK most \in Nat : \A p \in places : Data!Size(at(p)) \in Nat /\ Data!Size(at(p)) <= most
  BY <1>1, SizesBounded
<1>. HIDE DEF places, at
<1>4. ASSUME NEW p \in places, at(p).id # 0 PROVE \E r \in best : at(r).id = at(p).id
  <2> DEFINE same == {r \in places : at(r).id = at(p).id}
             short == {most - Data!Size(at(r)) : r \in same}
  <2>1. PICK m \in short : \A k \in short : m <= k
    <3>1. short \in SUBSET Nat /\ short # {}
      BY <1>3
    <3>. HIDE DEF short
    <3>2. QED
      BY <3>1, LeastNumber
  <2> DEFINE top == {r \in same : most - Data!Size(at(r)) = m}
  <2>2. PICK r \in top : \A s \in top : ~Data!Before(s, r)
    <3>1. top \in SUBSET (Nat \X Nat) /\ top # {}
      BY <1>2, <2>1
    <3>. HIDE DEF top
    <3>2. QED
      BY <3>1, FirstPlace
  <2>3. ASSUME NEW s \in same
        PROVE  Data!Size(at(s)) < Data!Size(at(r)) \/ (Data!Size(at(s)) = Data!Size(at(r)) /\ ~Data!Before(s, r))
    <3>1. most - Data!Size(at(r)) = m /\ m <= most - Data!Size(at(s)) /\ r \in places /\ s \in places
      BY <2>1, <2>2
    <3>2. Data!Size(at(s)) \in Nat /\ Data!Size(at(r)) \in Nat
      BY <1>3, <3>1
    <3>3. Data!Size(at(s)) = Data!Size(at(r)) => s \in top
      BY <3>1
    <3>4. Data!Size(at(s)) = Data!Size(at(r)) => ~Data!Before(s, r)
      BY <2>2, <3>3
    <3>. HIDE DEF same, short, top
    <3>5. QED
      BY <3>1, <3>2, <3>4
  <2>4. r \in places /\ at(r).id = at(p).id
    BY <2>2
  <2>. HIDE DEF short, top
  <2>5. QED
    BY <1>4, <2>3, <2>4
<1>5. \A p, r \in best : at(p).id = at(r).id => p = r
  <2>1. ASSUME NEW p \in best, NEW r \in best, at(p).id = at(r).id PROVE p = r
    <3>1. Data!Size(at(p)) \in Nat /\ Data!Size(at(r)) \in Nat
      BY <1>3
    <3>2. ~Data!Before(p, r) /\ ~Data!Before(r, p)
      BY <2>1, <3>1
    <3>3. QED
      BY <1>2, <3>2, PlacesOrdered
  <2>2. QED
    BY <2>1
<1>6. \A p \in best, r \in places : at(r).id = at(p).id => Data!Size(at(p)) >= Data!Size(at(r))
  BY <1>3
<1>7. \A p \in best : p \in places /\ at(p).id # 0
  OBVIOUS
<1>. HIDE DEF best
<1>8. Data!Harvested(q.rows) \subseteq Data!Found(q.rows, "nodes") /\ 0 \notin Data!IdsOf(Data!Harvested(q.rows))
  BY <1>1, <1>7 DEF Data!IdsOf
<1>9. Data!Distinct(Data!Harvested(q.rows))
  BY <1>1, <1>5 DEF Data!Distinct
<1>10. \A f \in Data!Found(q.rows, "nodes") : f.id # 0 => f.id \in Data!IdsOf(Data!Harvested(q.rows))
  BY <1>1, <1>4 DEF Data!IdsOf
<1>11. \A n \in Data!Harvested(q.rows), f \in Data!Found(q.rows, "nodes") : f.id = n.id => Data!Size(n) >= Data!Size(f)
  BY <1>1, <1>6
<1>12. QED
  BY <1>8, <1>9, <1>10, <1>11

-------------------------------------------------------------------------------

\* What is fetched: once for each row there is.
LEMMA FetchedOnce ==
    ASSUME NEW q, NEW ids, NEW columns
    PROVE  LET fetched == Data!Fetch(q, ids, columns)
           IN  /\ Data!IdsOf(fetched) = ids \cap DOMAIN q.table /\ Data!Distinct(fetched)
               /\ \A n \in fetched : n.props = q.table[n.id] \cap columns
<1> DEFINE fetched == Data!Fetch(q, ids, columns)
           known == ids \cap DOMAIN q.table
           node(i) == [id |-> i, props |-> q.table[i] \cap columns]
<1>1. fetched = {node(i) : i \in known}
  BY DEF Data!Fetch
<1>2. \A i : node(i).id = i /\ node(i).props = q.table[i] \cap columns
  OBVIOUS
<1>. HIDE DEF node, known, fetched
<1>3. Data!IdsOf(fetched) = {node(i).id : i \in known}
  BY <1>1 DEF Data!IdsOf
<1>4. Data!IdsOf(fetched) = known
  BY <1>2, <1>3
<1>5. Data!Distinct(fetched)
  BY <1>1, <1>2 DEF Data!Distinct
<1>6. \A n \in fetched : n.props = q.table[n.id] \cap columns
  BY <1>1, <1>2
<1>7. QED
  BY <1>4, <1>5, <1>6 DEF known, fetched

\* The nodes of a result when some had to be fetched.
LEMMA Together ==
    ASSUME NEW fetched, NEW harvested, Data!Distinct(fetched), Data!Distinct(harvested)
    PROVE  /\ Data!Distinct(Data!WithHarvested(fetched, harvested))
           /\ Data!IdsOf(Data!WithHarvested(fetched, harvested)) = Data!IdsOf(fetched) \cup Data!IdsOf(harvested)
BY DEF Data!WithHarvested, Data!Distinct, Data!IdsOf

\* A result made of what was harvested and of what was fetched for the rest.
LEMMA WholeWithFetched ==
    ASSUME NEW q, WellFormed(q), NEW columns, NEW deferred, deferred \/ q.columns \subseteq columns
    PROVE  LET missing == Data!Ends(Data!Edges(q.rows)) \ Data!IdsOf(Data!Harvested(q.rows))
           IN  Data!ResultIsWhole(q, Data!Graph(q, Data!Edges(q.rows),
                  Data!WithHarvested(Data!Fetch(q, missing, columns), Data!Harvested(q.rows)), deferred))
<1> DEFINE harvested == Data!Harvested(q.rows)
           found == Data!Found(q.rows, "nodes")
           missing == Data!Ends(Data!Edges(q.rows)) \ Data!IdsOf(harvested)
           fetched == Data!Fetch(q, missing, columns)
           nodes == Data!WithHarvested(fetched, harvested)
           drawn == Data!Graph(q, Data!Edges(q.rows), nodes, deferred)
<1>1. drawn.edges = Data!Edges(q.rows) /\ drawn.nodes = nodes /\ drawn.deferred = deferred
  BY DEF Data!Graph
<1>2. /\ harvested \subseteq found /\ 0 \notin Data!IdsOf(harvested) /\ Data!Distinct(harvested)
      /\ \A f \in found : f.id # 0 => f.id \in Data!IdsOf(harvested)
      /\ \A n \in harvested, f \in found : f.id = n.id => Data!Size(n) >= Data!Size(f)
  BY HarvestedRichest
<1>3. /\ Data!IdsOf(fetched) = missing \cap DOMAIN q.table /\ Data!Distinct(fetched)
      /\ \A n \in fetched : n.props = q.table[n.id] \cap columns
  BY FetchedOnce
<1>4. 0 \notin Data!Ends(Data!Edges(q.rows))
  BY DEF Data!Ends
<1>5. \A n \in nodes : n \in harvested \/ (n \in fetched /\ n.id \in missing)
  BY <1>3 DEF Data!WithHarvested, Data!IdsOf
<1>. HIDE DEF harvested, found, fetched
<1>6. Data!Distinct(nodes) /\ Data!IdsOf(nodes) = Data!IdsOf(fetched) \cup Data!IdsOf(harvested)
  BY <1>2, <1>3, Together
<1>7. \A n \in fetched : \A f \in found : f.id # n.id
  BY <1>2, <1>3, <1>4 DEF Data!IdsOf
<1>8. Data!Ends(Data!Edges(q.rows)) \cap (Data!IdsOf(found) \cup DOMAIN q.table) \subseteq Data!IdsOf(nodes)
  <2>1. \A i \in Data!IdsOf(found) : i # 0 => i \in Data!IdsOf(harvested)
    BY <1>2 DEF Data!IdsOf
  <2>2. QED
    BY <1>3, <1>4, <1>6, <2>1
<1>9. \A n \in nodes : \A f \in found : f.id = n.id => Data!Size(n) >= Data!Size(f)
  BY <1>2, <1>5, <1>7
<1>10. ~deferred => \A n \in nodes : n.id \notin Data!IdsOf(found) => q.table[n.id] \cap q.columns \subseteq n.props
  <2>1. \A n \in harvested : n.id \in Data!IdsOf(found)
    BY <1>2 DEF Data!IdsOf
  <2>2. ~deferred => \A n \in fetched : q.table[n.id] \cap q.columns \subseteq n.props
    BY <1>3
  <2>3. QED
    BY <1>5, <2>1, <2>2
<1>. HIDE DEF nodes, drawn
<1>11. Data!ResultIsWhole(q, drawn)
  BY <1>1, <1>6, <1>8, <1>9, <1>10, EdgesOnce DEF Data!ResultIsWhole, found
<1>12. QED
  BY <1>11 DEF drawn, nodes, fetched, harvested

\* A result when nothing had to be fetched.
LEMMA WholeWithout ==
    ASSUME NEW q, WellFormed(q), Data!Ends(Data!Edges(q.rows)) \subseteq Data!IdsOf(Data!Harvested(q.rows))
    PROVE  Data!ResultIsWhole(q, Data!Graph(q, Data!Edges(q.rows),
              {n \in Data!Harvested(q.rows) : n.id \in Data!Ends(Data!Edges(q.rows))}, FALSE))
<1> DEFINE harvested == Data!Harvested(q.rows)
           found == Data!Found(q.rows, "nodes")
           nodes == {n \in harvested : n.id \in Data!Ends(Data!Edges(q.rows))}
           drawn == Data!Graph(q, Data!Edges(q.rows), nodes, FALSE)
<1>1. drawn.edges = Data!Edges(q.rows) /\ drawn.nodes = nodes
  BY DEF Data!Graph
<1>2. /\ harvested \subseteq found /\ Data!Distinct(harvested)
      /\ \A n \in harvested, f \in found : f.id = n.id => Data!Size(n) >= Data!Size(f)
  BY HarvestedRichest
<1>. HIDE DEF harvested, found
<1>3. Data!Distinct(nodes) /\ \A n \in nodes : n.id \in Data!IdsOf(found)
  BY <1>2 DEF Data!Distinct, Data!IdsOf
<1>4. Data!Ends(Data!Edges(q.rows)) \subseteq Data!IdsOf(nodes)
  BY DEF Data!IdsOf, harvested
<1>5. \A n \in nodes : \A f \in found : f.id = n.id => Data!Size(n) >= Data!Size(f)
  BY <1>2
<1>. HIDE DEF nodes, drawn
<1>6. Data!ResultIsWhole(q, drawn)
  BY <1>1, <1>3, <1>4, <1>5, EdgesOnce DEF Data!ResultIsWhole, found
<1>7. QED
  BY <1>6 DEF drawn, nodes, harvested

\* A draft has the nodes of its result, without the properties that were not in the rows.
LEMMA PartialDrawn ==
    ASSUME NEW q, WellFormed(q), NEW columns, NEW early, NEW late
    PROVE  LET harvested == Data!Harvested(q.rows)
               missing == Data!Ends(Data!Edges(q.rows)) \ Data!IdsOf(harvested)
           IN  Data!PartialIsDrawable(
                  Data!Graph(q, Data!Edges(q.rows), Data!WithHarvested(Data!Fetch(q, missing, {}), harvested), early),
                  Data!Graph(q, Data!Edges(q.rows), Data!WithHarvested(Data!Fetch(q, missing, columns), harvested), late))
<1> DEFINE harvested == Data!Harvested(q.rows)
           missing == Data!Ends(Data!Edges(q.rows)) \ Data!IdsOf(harvested)
           types == Data!Fetch(q, missing, {})
           full == Data!Fetch(q, missing, columns)
           draft == Data!Graph(q, Data!Edges(q.rows), Data!WithHarvested(types, harvested), early)
           drawn == Data!Graph(q, Data!Edges(q.rows), Data!WithHarvested(full, harvested), late)
<1>1. /\ draft.edges = drawn.edges /\ draft.truncated = drawn.truncated
      /\ draft.nodes = Data!WithHarvested(types, harvested) /\ drawn.nodes = Data!WithHarvested(full, harvested)
  BY DEF Data!Graph
<1>2. Data!Distinct(harvested)
  BY HarvestedRichest
<1>3. /\ Data!IdsOf(types) = missing \cap DOMAIN q.table /\ Data!Distinct(types)
      /\ \A n \in types : n.props = q.table[n.id] \cap {}
      /\ Data!IdsOf(full) = missing \cap DOMAIN q.table /\ Data!Distinct(full)
  BY FetchedOnce
<1>. HIDE DEF harvested, types, full
<1>4. /\ Data!IdsOf(Data!WithHarvested(types, harvested)) = Data!IdsOf(Data!WithHarvested(full, harvested))
      /\ Data!Distinct(Data!WithHarvested(full, harvested))
  BY <1>2, <1>3, Together
<1>. HIDE DEF draft, drawn
<1>5. ASSUME NEW n \in draft.nodes PROVE n.props \subseteq Data!PropsOf(drawn, n.id)
  <2>1. CASE n \in types
    BY <1>3, <2>1
  <2>2. CASE n \in harvested /\ n.id \notin Data!IdsOf(types)
    <3>1. n \in drawn.nodes
      BY <1>1, <1>3, <2>2 DEF Data!WithHarvested
    <3>2. \A m \in drawn.nodes : m.id = n.id => m = n
      BY <1>1, <1>4, <3>1 DEF Data!Distinct
    <3>3. QED
      BY <3>1, <3>2 DEF Data!PropsOf
  <2>3. QED
    BY <1>1, <2>1, <2>2 DEF Data!WithHarvested
<1>6. Data!PartialIsDrawable(draft, drawn)
  BY <1>1, <1>4, <1>5 DEF Data!PartialIsDrawable
<1>7. QED
  BY <1>6 DEF draft, drawn, types, full, harvested

\* An answer is whole, and its partial draws the same.
LEMMA AnswersWhole ==
    ASSUME NEW q, WellFormed(q), Data!Answer(q).kind = "ok"
    PROVE  /\ Data!ResultIsWhole(q, Data!Answer(q).result)
           /\ Data!Answer(q).partial # Data!None => Data!PartialIsDrawable(Data!Answer(q).partial, Data!Answer(q).result)
<1> DEFINE edges == Data!Edges(q.rows)
           harvested == Data!Harvested(q.rows)
           missing == Data!Ends(edges) \ Data!IdsOf(harvested)
           columns == IF q.types THEN {} ELSE q.columns
           small == Data!Graph(q, edges, {n \in harvested : n.id \in Data!Ends(edges)}, FALSE)
           early == Data!Graph(q, edges, Data!WithHarvested(Data!Fetch(q, missing, {}), harvested), TRUE)
           whole == Data!Graph(q, edges, Data!WithHarvested(Data!Fetch(q, missing, columns), harvested), q.types)
<1>1. CASE Data!IsStale(q.rows)
  <2>1. Data!Answer(q).kind = "error"
    BY <1>1 DEF Data!Answer
  <2>2. QED
    BY <2>1
<1>2. CASE ~Data!IsStale(q.rows) /\ missing = {}
  <2>1. Data!Answer(q) = [kind |-> "ok", partial |-> Data!None, result |-> small]
    BY <1>2 DEF Data!Answer
  <2>2. Data!ResultIsWhole(q, small)
    BY <1>2, WholeWithout
  <2>. HIDE DEF small
  <2>3. QED
    BY <2>1, <2>2
<1>3. CASE ~Data!IsStale(q.rows) /\ missing # {}
  <2>1. Data!Answer(q) = [kind |-> "ok", partial |-> IF q.partial /\ ~q.types THEN early ELSE Data!None, result |-> whole]
    BY <1>3 DEF Data!Answer
  <2>2. Data!ResultIsWhole(q, whole)
    BY WholeWithFetched
  <2>3. Data!PartialIsDrawable(early, whole)
    BY PartialDrawn
  <2>. HIDE DEF early, whole
  <2>4. QED
    BY <2>1, <2>2, <2>3
<1>4. QED
  BY <1>1, <1>2, <1>3

\* The answer is that to the query.
RowsInv ==
    /\ part = "data" => query \in Asks
    /\ graph = Data!Pending \/ (query \in Asks /\ graph = Data!Answer(query))

LEMMA RowsAlways == MCSpec => []RowsInv
<1>1. MCInit => RowsInv
  BY DEF MCInit, RowsInv, Data!Init
<1>2. RowsInv /\ [MCNext]_<<jobs, dev, data, part>> => RowsInv'
  BY DEF RowsInv, MCNext, data, Data!Next, Data!Respond
<1>3. QED
  BY <1>1, <1>2, PTL DEF MCSpec

LEMMA RowsSay == RowsInv => Data!RowsAnswered
BY AnswersWhole, RowsAssumption DEF RowsInv, Data!RowsAnswered, WellFormed

-------------------------------------------------------------------------------
(* The queries of the server, all parts together.                                       *)

(* Records, tasks, chunks and statements of the jobs, and the records of the emulator,  *)
(* keep their types, for any numbers of jobs, chunks, slots and statements.             *)
THEOREM QueriesTyped == MCSpec => []MCTypeOK
<1>1. JobsInv => Query!TypeOK
  BY DEF JobsInv
<1>2. DevInv /\ FiledInv => Dev!TypeOK
  BY RecordsStay
<1>3. QED
  BY <1>1, <1>2, JobsAlways, DevAlways, FiledAlways, PTL DEF MCTypeOK

(* When the cancel handler is done with a job, every statement it knew of was asked to  *)
(* stop; nothing downloads for a job that is over but what a failed download left; no   *)
(* result misses a chunk (cancel_job, fetch_chunk).  A record of the emulator lives as  *)
(* long as its task (_reap_finished_statements).  A graph has every edge of its rows    *)
(* once, every end that is known, no node poorer than the rows had it, and its partial  *)
(* draws the same (execute_graph_query_with_nodes).                                     *)
THEOREM QueriesHold == MCSpec => []QueriesStand
<1>1. JobsInv => Query!JobsStand
  BY InvSays
<1>2. DevInv /\ FiledInv => Dev!KeptWhileItRuns
  BY RecordsStay
<1>3. RowsInv => Data!RowsAnswered
  BY RowsSay
<1>4. QED
  BY <1>1, <1>2, <1>3, JobsAlways, DevAlways, FiledAlways, RowsAlways, PTL DEF QueriesStand

===============================================================================
