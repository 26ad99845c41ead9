------------------------------- MODULE MCLookups -------------------------------
(* What the process asks the workspace for, each part on its own: identities, groups   *)
(* and the token it carries, and the token that is the password of the database.       *)
EXTENDS Lookups

VARIABLES
    part,    \* which of the two this behaviour is about
    up, age, loop, connection, holder, pooled, failed    \* of Lakebase

\* A token lives an hour, and is renewed every 50 minutes.
Password == INSTANCE Lakebase
    WITH Life <- 12, Interval <- 10, Attempts <- 3, MaxFailed <- 3, request <- connection

password == <<up, age, loop, connection, holder, pooled, failed>>

\* The part a behaviour is not about is at rest.
MCInit ==
    /\ part \in {"lookups", "password"}
    /\ Init /\ (part = "password" => asked = CHOOSE t \in Traffic : TRUE)
    /\ Password!Init

MCNext ==
    \/ part = "lookups" /\ Next /\ UNCHANGED <<password, part>>
    \/ part = "password" /\ Password!Next /\ UNCHANGED <<vars, part>>

\* What FairSpec of Lookups and of Lakebase ask for.
MCFairness ==
    /\ \A r \in Requests : WF_vars(GoesOn(r) /\ part = "lookups")
    /\ WF_password(part = "password" /\ Password!Tick)
    /\ WF_password(part = "password" /\ Password!LoopGoesOn)
    /\ \A r \in Requests : WF_password(part = "password" /\ Password!GoesOn(r))

MCSpec == MCInit /\ [][MCNext]_<<vars, password, part>> /\ MCFairness

-------------------------------------------------------------------------------
(* Properties *)

\* Answered of both parts in one formula: the other part is at rest all the time.
BothAnswered ==
    \A r \in Requests :
        (req[r] # Idle \/ connection[r] # "idle") ~> (req[r] = Idle /\ connection[r] = "idle")

\* Whoever looks something up is answered; and of the password, that a connection is refused
\* for it only after several failed rounds, that a refused request leaves a good one when
\* the workspace answers, and that every request is answered.
LookupsKeep ==
    /\ BothAnswered
    /\ [][Password!TypeOK']_password
    /\ Password!OutageIsSeenLate /\ Password!RefusalHeals
===============================================================================
