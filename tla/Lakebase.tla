-------------------------------- MODULE Lakebase --------------------------------
(***************************************************************************)
(* The credential of the database of a Databricks deployment               *)
(* (db/lakebase.py, the exception handler of app.py): a token that is over *)
(* after an hour is the password of every new connection, is renewed in    *)
(* the background, and renewed at once when a connection is refused.       *)
(*                                                                         *)
(* Time is counted in units of the interval of a failed round (5 minutes); *)
(* the attempts of one round, 30 and 60 seconds apart, take none of it.    *)
(* The workspace is asked in a synchronous call, so nothing comes between  *)
(* its answer and the new password; the pool is then disposed of in an     *)
(* await, with the lock still held.                                        *)
(***************************************************************************)
EXTENDS Naturals

CONSTANTS
    Requests,   \* of the API, each with a connection of its own
    Life,       \* of a token
    Interval,   \* TOKEN_REFRESH_INTERVAL_SECONDS
    Attempts,   \* _MAX_REFRESH_RETRIES
    MaxFailed   \* bound: failed rounds in a row that are counted

VARIABLES
    up,         \* the workspace answers
    age,        \* of the password; Life stands for anything older
    loop,       \* _refresh_loop: what it does, until when it sleeps, its attempt
    request,
    holder,     \* _refresh_lock: who holds it
    pooled,     \* a connection is in the pool
    failed      \* history: rounds and refreshes in a row that failed

vars == <<up, age, loop, request, holder, pooled, failed>>

Nobody == "nobody"
Loop == "loop"

TypeOK ==
    /\ up \in BOOLEAN
    /\ age \in 0..Life
    /\ loop \in [pc : {"asleep", "trying", "disposing"}, due : 0..Interval, attempt : 0..Attempts]
    /\ request \in [Requests -> {"idle", "connecting", "working", "refused", "disposing"}]
    /\ holder \in Requests \cup {Loop, Nobody}
    /\ pooled \in BOOLEAN
    /\ failed \in 0..MaxFailed

\* create_engine has fetched a token; the loop starts with the application.
Init ==
    /\ up = TRUE
    /\ age = 0
    /\ loop = [pc |-> "asleep", due |-> Interval, attempt |-> 0]
    /\ request = [r \in Requests |-> "idle"]
    /\ holder = Nobody
    /\ pooled = FALSE
    /\ failed = 0

Least(a, b) == IF a < b THEN a ELSE b

-------------------------------------------------------------------------------
(* The workspace and the clock *)

Outage == up' = ~up /\ UNCHANGED <<age, loop, request, holder, pooled, failed>>

\* A timer that is due is served, and a call answered, before a unit has passed; only who
\* waits for the lock may wait longer.
Tick ==
    /\ \/ loop.pc = "asleep" /\ loop.due > 0 /\ loop' = [loop EXCEPT !.due = @ - 1]
       \/ loop.pc = "trying" /\ holder # Nobody /\ UNCHANGED loop
    /\ \A r \in Requests :
          request[r] \in {"idle", "working"} \cup (IF holder = Nobody THEN {} ELSE {"refused"})
    /\ age' = Least(age + 1, Life)
    /\ UNCHANGED <<up, request, holder, pooled, failed>>

-------------------------------------------------------------------------------
(* refresh_token *)

\* mutant: a failure leaves the lock held
Generates_Held(who) ==
    /\ holder = Nobody
    /\ holder' = who
    /\ IF up THEN age' = 0 ELSE UNCHANGED age

\* The lock is taken and the workspace asked, in one go.
Generates(who) ==
    /\ holder = Nobody
    /\ holder' = IF up THEN who ELSE Nobody
    /\ IF up THEN age' = 0 ELSE UNCHANGED age

\* The pool is empty, and whoever works on a connection of its own will not return it.
Disposes == pooled' = FALSE /\ holder' = Nobody

-------------------------------------------------------------------------------
(* _refresh_loop *)

Wakes ==
    /\ loop.pc = "asleep" /\ loop.due = 0
    /\ loop' = [loop EXCEPT !.pc = "trying", !.attempt = 1]
    /\ UNCHANGED <<up, age, request, holder, pooled, failed>>

\* mutant: after a failed round the loop sleeps its usual interval
NextRound_Interval(success) == Interval

\* "Sleeps only 5 min before trying again".
NextRound(success) == IF success THEN Interval ELSE 1

Sleeps(success) == [pc |-> "asleep", due |-> NextRound(success), attempt |-> 0]

Tries ==
    /\ loop.pc = "trying"
    /\ Generates(Loop)
    /\ loop' = IF up THEN [loop EXCEPT !.pc = "disposing"]
               ELSE IF loop.attempt < Attempts THEN [loop EXCEPT !.attempt = @ + 1]
               ELSE Sleeps(FALSE)
    /\ failed' = IF up THEN 0
                 ELSE IF loop.attempt < Attempts THEN failed ELSE Least(failed + 1, MaxFailed)
    /\ UNCHANGED <<up, request, pooled>>

LoopDisposes ==
    /\ loop.pc = "disposing"
    /\ Disposes
    /\ loop' = Sleeps(TRUE)
    /\ UNCHANGED <<up, age, request, failed>>

-------------------------------------------------------------------------------
(* Requests *)

Asks(r) ==
    /\ request[r] = "idle"
    /\ request' = [request EXCEPT ![r] = "connecting"]
    /\ UNCHANGED <<up, age, loop, holder, pooled, failed>>

\* A connection of the pool, or, when there is none or it is due to be recycled, a new one,
\* for which do_connect puts in the password of this moment; it is looked at then only.
Connects(r) ==
    /\ request[r] = "connecting"
    /\ \/ pooled /\ request' = [request EXCEPT ![r] = "working"]
       \/ request' = [request EXCEPT ![r] = IF age < Life THEN "working" ELSE "refused"]
    /\ pooled' = FALSE
    /\ UNCHANGED <<up, age, loop, holder, failed>>

\* The connection goes back to the pool, or is closed when its pool was disposed of.
Answers(r) ==
    /\ request[r] = "working"
    /\ request' = [request EXCEPT ![r] = "idle"]
    /\ pooled' \in BOOLEAN
    /\ UNCHANGED <<up, age, loop, holder, failed>>

\* mutant: the handler answers 503 and leaves the token to the loop
Refresh_Not(r) ==
    /\ request[r] = "refused"
    /\ request' = [request EXCEPT ![r] = "idle"]
    /\ UNCHANGED <<up, age, loop, holder, pooled, failed>>

\* The handler of InvalidPasswordError: a refresh, and 503 whether or not it worked.
Refresh(r) ==
    /\ request[r] = "refused"
    /\ Generates(r)
    /\ request' = [request EXCEPT ![r] = IF up THEN "disposing" ELSE "idle"]
    /\ failed' = IF up THEN 0 ELSE failed
    /\ UNCHANGED <<up, loop, pooled>>

RequestDisposes(r) ==
    /\ request[r] = "disposing"
    /\ Disposes
    /\ request' = [request EXCEPT ![r] = "idle"]
    /\ UNCHANGED <<up, age, loop, failed>>

-------------------------------------------------------------------------------

LoopGoesOn == Wakes \/ Tries \/ LoopDisposes
GoesOn(r) == Connects(r) \/ Answers(r) \/ Refresh(r) \/ RequestDisposes(r)

Next ==
    \/ Outage \/ Tick \/ LoopGoesOn
    \/ \E r \in Requests : Asks(r) \/ GoesOn(r)

Spec == Init /\ [][Next]_vars

\* Time passes, timers fire and the event loop resumes who can go on.
FairSpec == Spec /\ WF_vars(Tick) /\ WF_vars(LoopGoesOn) /\ \A r \in Requests : WF_vars(GoesOn(r))

-------------------------------------------------------------------------------
(* Properties *)

\* The margin between the interval and the life of a token: a request is refused for its
\* password only when that many rounds in a row have failed, each of all its attempts
\* (_refresh_loop: "never leaves the app stuck with an expired token").
OutageIsSeenLate ==
    [][(\E r \in Requests : request[r] = "connecting" /\ request'[r] = "refused") =>
          failed >= Least(Life - Interval, MaxFailed)]_vars

\* A refused request need not wait for the next round: when it ends while the workspace
\* answers, whoever connects next is let in (app.py, the 503 that says "retry").
RefusalHeals ==
    [][\A r \in Requests : request[r] = "refused" /\ request'[r] # "refused" /\ up => age' < Life]_vars

\* Whoever asks is answered, whatever fails.
Answered == \A r \in Requests : (request[r] # "idle") ~> (request[r] = "idle")
================================================================================
