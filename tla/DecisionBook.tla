----------------------------- MODULE DecisionBook -----------------------------
(***************************************************************************)
(* What graphlagoon promises about the decisions of one case, with no      *)
(* sessions and no copies: a book of decisions that only grows, at most    *)
(* one entry waiting for its review, a case that is closed by the book and *)
(* left only by reopening (docs/guide/investigations.md, "Decisions").     *)
(***************************************************************************)
EXTENDS Naturals, Sequences

VARIABLES phase, book

vars == <<phase, book>>

Entry == [closes : BOOLEAN, review : {"none", "pending", "approved", "rejected"}]

Waiting == {i \in DOMAIN book : book[i].review = "pending"}

Worked == {"open", "analysis"}

Init == phase = "open" /\ book = <<>>

\* The status moves between open and analysis.
Move ==
    /\ phase \in Worked
    /\ phase' \in Worked
    /\ UNCHANGED book

\* A person decides; nothing else is decided while one waits.
Decide ==
    /\ phase \in Worked
    /\ Waiting = {}
    /\ \E closes, waits \in BOOLEAN :
         /\ book' = Append(book, [closes |-> closes,
                                  review |-> IF waits THEN "pending" ELSE "none"])
         /\ phase' = IF closes /\ ~waits THEN "closed" ELSE phase

\* Another person approves; a closing outcome then closes the case.
Approve ==
    /\ phase \in Worked
    /\ \E i \in Waiting :
         /\ book' = [book EXCEPT ![i].review = "approved"]
         /\ phase' = IF book[i].closes THEN "closed" ELSE phase

\* The reviewer rejects, or the author withdraws.
Reject ==
    /\ phase \in Worked
    /\ \E i \in Waiting : book' = [book EXCEPT ![i].review = "rejected"]
    /\ UNCHANGED phase

Reopen ==
    /\ phase = "closed"
    /\ phase' = "analysis"
    /\ UNCHANGED book

Discard ==
    /\ phase # "deleted"
    /\ phase' = "deleted"
    /\ UNCHANGED book

Next == Move \/ Decide \/ Approve \/ Reject \/ Reopen \/ Discard

Spec == Init /\ [][Next]_vars
===============================================================================
