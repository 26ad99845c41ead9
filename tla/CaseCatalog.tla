------------------------------- MODULE CaseCatalog -------------------------------
(***************************************************************************)
(* What the organization defines and cases are made from: a case type      *)
(* (services/case_types.py), the playbook it names in the org library      *)
(* (services/org_library.py), and the cases that are opened with the type, *)
(* with the reference of an alert or without, and that change it           *)
(* (services/cases.py, create_investigation and update_investigation).     *)
(* Who reads a case decides whether the alert is known to them, so its     *)
(* owner and shares are kept as well.                                      *)
(*                                                                         *)
(* Each read and each write has a session of its own, except in memory,    *)
(* where nothing comes between.  "general" is built in and has no fields.  *)
(***************************************************************************)
EXTENDS Naturals, Sequences, FiniteSets

CONSTANTS
    Requests,  \* slots: the requests that may be handled at once
    People, Superusers,   \* a superuser reads every case
    Specs,     \* the types a superuser may write: fields, required ones, playbook, starters
    Seeded,    \* whether the playbook is one of the built-in ones
    Scenarios, \* what a behaviour is about: how many requests at once, how many cases at
               \* most, which operations, by whom, on cases of which kind
    None

VARIABLES
    type,      \* the stored type, or None
    doc,       \* whether the playbook is stored
    cases,     \* the cases: their type, their fields, whether they have the reference, how
               \* many of their starter queries they have been given, and who reads them
    request,
    history,   \* whether requests overlapped, and whether a creation was cut short
    scenario

vars == <<type, doc, cases, request, history, scenario>>

Fields == UNION {spec.fields : spec \in Specs}

Idle == [op |-> "none", pc |-> "idle"]

\* Two are histories: `as`, the type the fields were last checked against, and `knew`, the
\* cases of the alert that whoever opened this one had read ever since they asked.  The
\* assignee is an editor of the case (_assignee_share), and here one of those it is shared with.
Cases == [of : {"general", "typed"}, fields : SUBSET Fields, ref : BOOLEAN,
          queries : 0..2, as : Specs \cup {None},
          owner : People, shared : SUBSET People, knew : SUBSET Nat]

TypeOK ==
    /\ type \in Specs \cup {None}
    /\ doc \in BOOLEAN
    /\ cases \in Seq(Cases) /\ Len(cases) <= scenario.cases
    /\ \A r \in Requests :
          request[r] = Idle \/
            /\ request[r].op \in {"put type", "drop type", "create", "change"}
            /\ request[r].pc \in {"count", "look", "type", "write", "start"}
    /\ history \in [overlapped : BOOLEAN, cut : BOOLEAN]

Init ==
    /\ type \in Specs \cup {None}
    /\ type # None => (type.playbook => Seeded)
    /\ doc = FALSE
    /\ cases = <<>>
    /\ request = [r \in Requests |-> Idle]
    /\ history = [overlapped |-> FALSE, cut |-> FALSE]
    /\ scenario \in Scenarios

Busy == {r \in Requests : request[r] # Idle}

Begins(r, call) ==
    /\ request[r] = Idle /\ Cardinality(Busy) < scenario.atOnce /\ call.op \in scenario.ops
    /\ request' = [request EXCEPT ![r] = call]
    /\ history' = [history EXCEPT !.overlapped = @ \/ Busy # {}]

GoesOn(r, next) == request' = [request EXCEPT ![r] = next]
Ends(r) == GoesOn(r, Idle)
At(r, op, pc) == request[r].op = op /\ request[r].pc = pc

-------------------------------------------------------------------------------
(* The org library: one statement each *)

\* get_doc: the stored doc, or the built-in one of that slug.
Found == doc \/ Seeded

PutDoc ==
    /\ "doc" \in scenario.ops /\ ~doc
    /\ doc' = TRUE
    /\ UNCHANGED <<type, cases, request, history, scenario>>

\* The built-in text shows again; nobody asks which types name the doc.
DeleteDoc ==
    /\ "doc" \in scenario.ops /\ doc
    /\ doc' = FALSE
    /\ UNCHANGED <<type, cases, request, history, scenario>>

-------------------------------------------------------------------------------
(* The type *)

\* put_case_type: the playbook must be a doc of the library.
PutType(r, spec) ==
    /\ spec.playbook => Found
    /\ Begins(r, [op |-> "put type", pc |-> "write", spec |-> spec])
    /\ UNCHANGED <<type, doc, cases, scenario>>

TypeStored(r) ==
    /\ At(r, "put type", "write")
    /\ type' = request[r].spec
    /\ Ends(r)
    /\ UNCHANGED <<doc, cases, history, scenario>>

DeleteType(r) ==
    /\ type # None
    /\ Begins(r, [op |-> "drop type", pc |-> "count"])
    /\ UNCHANGED <<type, doc, cases, scenario>>

\* mutant: closed or not, cases do not count
Uses_Not == 0

Uses == Cardinality({i \in DOMAIN cases : cases[i].of = "typed"})

CountsCases(r) ==
    /\ At(r, "drop type", "count")
    /\ IF Uses = 0 THEN GoesOn(r, [request[r] EXCEPT !.pc = "write"]) ELSE Ends(r)
    /\ UNCHANGED <<type, doc, cases, history, scenario>>

TypeDeleted(r) ==
    /\ At(r, "drop type", "write")
    /\ type' = None
    /\ Ends(r)
    /\ UNCHANGED <<doc, cases, history, scenario>>

-------------------------------------------------------------------------------
(* What a case takes from its type *)

General == [fields |-> {}, required |-> {}, playbook |-> FALSE, starters |-> 0]

\* require_case_type
SpecOf(of) == IF of = "general" THEN General ELSE type

\* mutant: what the type no longer has is kept
Cleaned_Kept(spec, removed, added, current) == (current \cup added) \ removed

\* clean_fields: what the type no longer has is dropped, a null removes, a value sets.
Cleaned(spec, removed, added, current) == ((current \cap spec.fields) \cup added) \ removed

Acceptable(spec, removed, added, current) ==
    /\ removed \cup added \subseteq spec.fields
    /\ spec.required \subseteq Cleaned(spec, removed, added, current)

-------------------------------------------------------------------------------
(* Who reads a case: share_investigation, unshare_investigation and, in the admin area, *)
(* transfer_owner, a commit each                                                         *)

\* can_read_case
Reads(person, inv) == person \in Superusers \cup {inv.owner} \cup inv.shared

HasRef == {i \in DOMAIN cases : cases[i].ref}

\* Of a history: what a request has read without a break.
StillRead ==
    request' = [r \in Requests |->
        IF request[r].op = "create"
        THEN [request[r] EXCEPT !.knew = {i \in @ : Reads(request[r].by, cases'[i])}]
        ELSE request[r]]

Share(i, person) ==
    /\ "access" \in scenario.ops
    /\ cases' = [cases EXCEPT ![i].shared = @ \cup {person}]
    /\ StillRead
    /\ UNCHANGED <<type, doc, history, scenario>>

Unshare(i, person) ==
    /\ "access" \in scenario.ops /\ person \in cases[i].shared
    /\ cases' = [cases EXCEPT ![i].shared = @ \ {person}]
    /\ StillRead
    /\ UNCHANGED <<type, doc, history, scenario>>

\* The previous owner keeps no access.
TransferOwner(i, person) ==
    /\ "access" \in scenario.ops
    /\ cases' = [cases EXCEPT ![i].owner = person, ![i].shared = @ \ {person}]
    /\ StillRead
    /\ UNCHANGED <<type, doc, history, scenario>>

-------------------------------------------------------------------------------
(* create_investigation *)

\* A type that is not there and fields it does not take are refused.
CreateCase(r, person, of, fields, ref) ==
    /\ SpecOf(of) # None /\ Acceptable(SpecOf(of), {}, fields, {})
    /\ Begins(r, [op |-> "create", pc |-> IF ref THEN "look" ELSE "write", by |-> person, of |-> of,
                  fields |-> fields, ref |-> ref, spec |-> SpecOf(of), at |-> 0,
                  knew |-> {i \in HasRef : ref /\ Reads(person, cases[i])}])
    /\ UNCHANGED <<type, doc, cases, scenario>>

\* mutant: only the caller's own cases are looked through
KnownRef_Own(person) == \E i \in HasRef : person = cases[i].owner

\* _by_external_ref: among the cases the caller reads
KnownRef(person) == \E i \in HasRef : Reads(person, cases[i])

\* The same alert twice: the case that is there is the answer, as it is.
LooksUp(r) ==
    /\ At(r, "create", "look")
    /\ IF KnownRef(request[r].by) THEN Ends(r) ELSE GoesOn(r, [request[r] EXCEPT !.pc = "write"])
    /\ UNCHANGED <<type, doc, cases, history, scenario>>

CaseOpened(r) ==
    /\ At(r, "create", "write") /\ Len(cases) < scenario.cases
    /\ cases' = Append(cases, [of |-> request[r].of, fields |-> request[r].fields, ref |-> request[r].ref,
                               queries |-> 0, as |-> IF request[r].of = "general" THEN None ELSE request[r].spec,
                               owner |-> request[r].by, shared |-> {}, knew |-> request[r].knew])
    /\ GoesOn(r, [request[r] EXCEPT !.pc = "start", !.at = Len(cases) + 1, !.knew = {}])
    /\ UNCHANGED <<type, doc, history, scenario>>

\* _starter_queries: one item after the other, once the case is committed.  One may fail
\* and the process may stop: the rest is never made up for.
Starts(r) ==
    /\ At(r, "create", "start")
    /\ LET i == request[r].at
       IN  \/ /\ cases[i].queries < request[r].spec.starters
              /\ cases' = [cases EXCEPT ![i].queries = @ + 1]
              /\ UNCHANGED <<request, history>>
           \/ /\ Ends(r)
              /\ history' = [history EXCEPT !.cut = @ \/ cases[i].queries < request[r].spec.starters]
              /\ UNCHANGED cases
    /\ UNCHANGED <<type, doc, scenario>>

-------------------------------------------------------------------------------
(* update_investigation, of the type or the fields: the case is read ... *)

\* A change of the fields alone leaves the type unsaid.
ChangeCase(r, i, moved, of, removed, added) ==
    /\ ~moved => of = cases[i].of
    /\ Begins(r, [op |-> "change", pc |-> "type", at |-> i, moved |-> moved, of |-> of, removed |-> removed,
                  added |-> added, fields |-> cases[i].fields, spec |-> None])
    /\ UNCHANGED <<type, doc, cases, scenario>>

\* ... then its type, and the fields are made from both ...
ReadsType(r) ==
    /\ At(r, "change", "type")
    /\ LET call == request[r]
           spec == SpecOf(call.of)
       IN  IF spec # None /\ Acceptable(spec, call.removed, call.added, call.fields)
           THEN GoesOn(r, [call EXCEPT !.pc = "write", !.spec = spec,
                                       !.fields = Cleaned(spec, call.removed, call.added, call.fields)])
           ELSE Ends(r)
    /\ UNCHANGED <<type, doc, cases, history, scenario>>

\* ... and written.
CaseChanged(r) ==
    /\ At(r, "change", "write")
    /\ LET call == request[r]
       IN  cases' = [cases EXCEPT ![call.at].of = IF call.moved THEN call.of ELSE @,
                                  ![call.at].fields = call.fields,
                                  ![call.at].as = IF call.of = "general" THEN None ELSE call.spec]
    /\ Ends(r)
    /\ UNCHANGED <<type, doc, history, scenario>>

-------------------------------------------------------------------------------

GoesOnWith(r) ==
    \/ TypeStored(r) \/ CountsCases(r) \/ TypeDeleted(r)
    \/ LooksUp(r) \/ CaseOpened(r) \/ Starts(r)
    \/ ReadsType(r) \/ CaseChanged(r)

Next ==
    \/ PutDoc \/ DeleteDoc
    \/ \E i \in DOMAIN cases, person \in scenario.people :
          Share(i, person) \/ Unshare(i, person) \/ TransferOwner(i, person)
    \/ \E r \in Requests :
          \/ GoesOnWith(r)
          \/ DeleteType(r)
          \/ \E spec \in Specs : PutType(r, spec)
          \/ \E person \in scenario.people, of \in scenario.kinds, fields \in SUBSET Fields, ref \in BOOLEAN :
                CreateCase(r, person, of, fields, ref)
          \/ \E i \in DOMAIN cases, moved \in BOOLEAN, of \in scenario.kinds :
                \E removed, added \in SUBSET Fields :
                    removed \cap added = {} /\ Cardinality(removed \cup added) <= 1 /\ ChangeCase(r, i, moved, of, removed, added)

Spec == Init /\ [][Next]_vars

-------------------------------------------------------------------------------
(* Properties *)

\* "Move them to another type first": a type that cases use is not deleted
\* (delete_case_type), as long as no case is opened with it or moved to it meanwhile.
TypesStay ==
    ~history.overlapped => \A i \in DOMAIN cases : cases[i].of = "typed" => type # None

\* However requests overlap and a type is edited, the fields of a case are those of the
\* type they were last checked against, the required ones among them (clean_fields).
FieldsFit ==
    \A i \in DOMAIN cases :
        LET spec == IF cases[i].as = None THEN General ELSE cases[i].as
        IN  spec.required \subseteq cases[i].fields /\ cases[i].fields \subseteq spec.fields

\* "Idempotent creation": who has read a case of the alert ever since they asked never opens
\* another, however requests overlap and whoever gives and takes access meanwhile
\* (_by_external_ref).
OneCasePerAlert == \A i \in HasRef : cases[i].knew = {}

CatalogStands == TypesStay /\ FieldsFit /\ OneCasePerAlert

\* No run: "the same ref again returns the case already opened, so a retry never duplicates
\* it" (docs/guide/investigations.md).  Somebody who does not read that case opens another,
\* and so does a retry that looks before the first request has committed (README, section 5).
OneCaseForAll == Cardinality(HasRef) <= 1

\* No run: put_case_type, "the playbook and the report templates must be docs of the org
\* library".  They must when the type is written; a doc may go later.
PlaybookIsThere == type # None /\ type.playbook => Found

\* No run: a repeated external_ref "returns the case the caller already reads instead of
\* opening a second one".  When the first call was cut short that case lacks starter queries.
RetriedIsWhole ==
    \A i \in DOMAIN cases :
        ~history.overlapped /\ Busy = {} /\ cases[i].as # None => cases[i].queries = cases[i].as.starters
================================================================================
