------------------------------- MODULE Artifacts -------------------------------
(***************************************************************************)
(* The named artifacts of a graph context: its style presets               *)
(* (routers/style_presets.py, services/style_presets.py) and the           *)
(* precomputed graphs its providers keep (routers/precomputed_graphs.py,   *)
(* services/precomputed/), and what becomes of both when the context is    *)
(* deleted (routers/graph_contexts.py).                                    *)
(*                                                                         *)
(* No request holds a lock: one reads from the blob store, decides, and    *)
(* writes, and others come between.  A request that is refused before it   *)
(* reads anything does nothing and is left out.  Which of several providers*)
(* answers a read, and with which arguments, is Precomputed's.             *)
(***************************************************************************)
EXTENDS Naturals, Sequences, FiniteSets

CONSTANTS
    Requests,    \* slots: the requests that may be handled at once
    Names,       \* of presets and of precomputed graphs
    Owner,       \* of the context
    Writers,     \* who may write to it; the superusers among them
    Superusers,
    Cap,         \* style_presets_max_per_context
    Chain,       \* the providers in order: [claims, writable]
    None

VARIABLES
    exists,      \* the context
    presets,     \* [Names -> None or who created the preset and whether it can be read]
    entries,     \* for each provider the names its store holds
    request,     \* the requests
    history      \* whether requests overlapped, and whether a purge was incomplete

vars == <<exists, presets, entries, request, history>>
stores == <<exists, presets, entries>>

Idle == [op |-> "none", pc |-> "idle"]

Presets == [by : Writers, corrupt : BOOLEAN]

TypeOK ==
    /\ exists \in BOOLEAN
    /\ presets \in [Names -> Presets \cup {None}]
    /\ entries \in [DOMAIN Chain -> SUBSET Names]
    /\ \A r \in Requests :
          request[r] = Idle \/
            /\ request[r].op \in {"put preset", "delete preset", "put graph", "delete graph", "delete context"}
            /\ request[r].pc \in {"load", "list", "write", "purge", "drop", "presets", "drop presets"}
    /\ history \in [overlapped : BOOLEAN, spared : BOOLEAN]

\* A preset written by an incompatible version cannot be read.
Init ==
    /\ exists = TRUE
    /\ presets \in [Names -> {None} \cup [by : {Owner}, corrupt : {TRUE}]]
    /\ Cardinality({n \in Names : presets[n] # None}) <= 1
    /\ entries = [i \in DOMAIN Chain |-> {}]
    /\ request = [r \in Requests |-> Idle]
    /\ history = [overlapped |-> FALSE, spared |-> FALSE]

Stored == {n \in Names : presets[n] # None}
Busy == {r \in Requests : request[r] # Idle}

-------------------------------------------------------------------------------
(* How a request begins, goes on and ends *)

\* The context is read and the caller's access to it checked, in a session of its own.
Begins(r, call) ==
    /\ request[r] = Idle /\ exists
    /\ request' = [request EXCEPT ![r] = call]
    /\ history' = [history EXCEPT !.overlapped = @ \/ Busy # {}]
    /\ UNCHANGED stores

GoesOn(r, next) == request' = [request EXCEPT ![r] = next]
Ends(r) == GoesOn(r, Idle)

At(r, op, pc) == request[r].op = op /\ request[r].pc = pc

-------------------------------------------------------------------------------
(* Style presets *)

PutPreset(r, who, n) ==
    who \in Writers /\ Begins(r, [op |-> "put preset", pc |-> "load", who |-> who, name |-> n])

\* Overwriting keeps the author; a new name needs room; what cannot be read is refused.
PutPresetLoads(r) ==
    /\ At(r, "put preset", "load")
    /\ LET found == presets[request[r].name]
       IN  IF found = None THEN GoesOn(r, [request[r] EXCEPT !.pc = "list"])
           ELSE IF found.corrupt THEN Ends(r)
           ELSE GoesOn(r, [request[r] EXCEPT !.pc = "write", !.who = found.by])
    /\ UNCHANGED <<stores, history>>

\* mutant: off by one
HasRoom_More == Cardinality(Stored) <= Cap

HasRoom == Cardinality(Stored) < Cap

PutPresetLists(r) ==
    /\ At(r, "put preset", "list")
    /\ IF HasRoom THEN GoesOn(r, [request[r] EXCEPT !.pc = "write"]) ELSE Ends(r)
    /\ UNCHANGED <<stores, history>>

\* The preset may be too large and the store may fail.
PutPresetSaves(r) ==
    /\ At(r, "put preset", "write")
    /\ \/ presets' = [presets EXCEPT ![request[r].name] = [by |-> request[r].who, corrupt |-> FALSE]]
       \/ UNCHANGED presets
    /\ Ends(r)
    /\ UNCHANGED <<exists, entries, history>>

DeletePreset(r, who, n) ==
    Begins(r, [op |-> "delete preset", pc |-> "load", who |-> who, name |-> n])

\* mutant: whoever may write to the context may delete its presets
MayDelete_Writer(who, found) == found = None \/ who \in Writers

\* Its creator deletes a preset, a superuser any, and only they one without an owner that
\* can be read.  One that is not there is deleted all the same.
MayDelete(who, found) ==
    \/ found = None
    \/ who \in Superusers
    \/ ~found.corrupt /\ found.by = who

DeletePresetLoads(r) ==
    /\ At(r, "delete preset", "load")
    /\ IF MayDelete(request[r].who, presets[request[r].name])
       THEN GoesOn(r, [request[r] EXCEPT !.pc = "write"]) ELSE Ends(r)
    /\ UNCHANGED <<stores, history>>

DeletePresetDrops(r) ==
    /\ At(r, "delete preset", "write")
    /\ presets' \in {presets, [presets EXCEPT ![request[r].name] = None]}
    /\ Ends(r)
    /\ UNCHANGED <<exists, entries, history>>

-------------------------------------------------------------------------------
(* Precomputed graphs *)

\* The first provider that claims the name is the only one a write may go to.
Claiming(n) == {i \in DOMAIN Chain : n \in Chain[i].claims}
Target(n) == CHOOSE i \in Claiming(n) : \A k \in Claiming(n) : i <= k

WriteGraph(r, who, n, op) ==
    /\ who \in Superusers
    /\ Claiming(n) # {} /\ Chain[Target(n)].writable
    /\ Begins(r, [op |-> op, pc |-> "write", who |-> who, name |-> n])

\* provider.save or provider.delete: it may fail, and a save may be too large.
GraphWritten(r) ==
    /\ At(r, "put graph", "write") \/ At(r, "delete graph", "write")
    /\ LET n == request[r].name
           held == entries[Target(n)]
           new == IF request[r].op = "put graph" THEN held \cup {n} ELSE held \ {n}
       IN  entries' \in {entries, [entries EXCEPT ![Target(n)] = new]}
    /\ Ends(r)
    /\ UNCHANGED <<exists, presets, history>>

\* A job of the organization's own writes to the store of a read-only provider.
NightlyJob ==
    /\ exists
    /\ \E i \in DOMAIN Chain : \E n \in Chain[i].claims :
          ~Chain[i].writable /\ entries' = [entries EXCEPT ![i] = @ \cup {n}]
    /\ UNCHANGED <<exists, presets, request, history>>

-------------------------------------------------------------------------------
(* The deletion of the context *)

\* The row is gone when the purge of the stores begins.
DeleteContext(r, who) ==
    /\ request[r] = Idle /\ exists
    /\ who = Owner \/ who \in Superusers
    /\ exists' = FALSE
    /\ request' = [request EXCEPT ![r] = [op |-> "delete context", pc |-> "purge", at |-> 1, listed |-> {}]]
    /\ history' = [history EXCEPT !.overlapped = @ \/ Busy # {}]
    /\ UNCHANGED <<presets, entries>>

\* delete_prefix: what is there is listed first ...
PurgeLists(r) ==
    /\ At(r, "delete context", "purge") \/ At(r, "delete context", "presets")
    /\ LET graphs == request[r].pc = "purge"
       IN  GoesOn(r, [request[r] EXCEPT !.pc = IF graphs THEN "drop" ELSE "drop presets",
                                        !.listed = IF graphs THEN entries[request[r].at] ELSE Stored])
    /\ UNCHANGED <<stores, history>>

\* ... and then removed, each in a call of its own that may fail.
Removed(r, left) == history' = [history EXCEPT !.spared = @ \/ left # {}]

\* mutant: a read-only provider is not asked to forget the context
Asked_Writable(i) == {k \in DOMAIN Chain : k > i /\ Chain[k].writable}

\* Every provider is asked, the read-only ones too.
Asked(i) == {k \in DOMAIN Chain : k > i}

\* A provider that fails is logged, and the next one is asked.
PurgeDrops(r) ==
    /\ At(r, "delete context", "drop")
    /\ \E left \in SUBSET request[r].listed :
          /\ Removed(r, left)
          /\ entries' = [entries EXCEPT ![request[r].at] = (@ \ request[r].listed) \cup (@ \cap left)]
    /\ LET rest == Asked(request[r].at)
       IN  GoesOn(r, IF rest = {} THEN [request[r] EXCEPT !.pc = "presets"]
                     ELSE [request[r] EXCEPT !.pc = "purge",
                                             !.at = CHOOSE k \in rest : \A h \in rest : k <= h])
    /\ UNCHANGED <<exists, presets>>

PurgePresets(r) ==
    /\ At(r, "delete context", "drop presets")
    /\ \E left \in SUBSET request[r].listed :
          /\ Removed(r, left)
          /\ presets' = [n \in Names |-> IF n \in request[r].listed \ left THEN None ELSE presets[n]]
    /\ Ends(r)
    /\ UNCHANGED <<exists, entries>>

\* The process stops: a purge that was under way is never taken up again.
Crash ==
    /\ Busy # {}
    /\ request' = [r \in Requests |-> Idle]
    /\ history' = [history EXCEPT !.spared = @ \/ ~exists]
    /\ UNCHANGED stores

-------------------------------------------------------------------------------

Handled(r) ==
    \/ PutPresetLoads(r) \/ PutPresetLists(r) \/ PutPresetSaves(r)
    \/ DeletePresetLoads(r) \/ DeletePresetDrops(r)
    \/ GraphWritten(r)
    \/ PurgeLists(r) \/ PurgeDrops(r) \/ PurgePresets(r)

Next ==
    \/ \E r \in Requests :
          \/ Handled(r)
          \/ \E who \in Writers :
                \/ DeleteContext(r, who)
                \/ \E n \in Names :
                      \/ PutPreset(r, who, n) \/ DeletePreset(r, who, n)
                      \/ WriteGraph(r, who, n, "put graph") \/ WriteGraph(r, who, n, "delete graph")
    \/ NightlyJob \/ Crash

Spec == Init /\ [][Next]_vars

-------------------------------------------------------------------------------
(* Properties *)

\* "Bounded at write time": the count is taken before the write, so that every other
\* request that is creating one may have counted the same (style_presets.py, save).
PresetsBounded ==
    Cardinality(Stored) <= IF history.overlapped THEN Cap + Cardinality(Requests) - 1 ELSE Cap

\* What a deleted context leaves in the stores is what a purge could not remove or a
\* request that overlapped with it wrote (_purge_precomputed_graphs, purge_context).
NothingIsLeft ==
    ~exists /\ Busy = {} /\ history = [overlapped |-> FALSE, spared |-> FALSE] =>
        Stored = {} /\ \A i \in DOMAIN Chain : entries[i] = {}

ArtifactsStand == PresetsBounded /\ NothingIsLeft

\* Ownership is per preset: as long as requests do not overlap, a preset of a context that
\* exists goes only by its creator or a superuser, and whoever overwrites it does not become
\* its creator.
CreatorDecides ==
    [][\A n \in Names : exists /\ ~history'.overlapped /\ presets[n] # None /\ presets'[n] # presets[n] =>
         \E r \in Requests :
            /\ At(r, "delete preset", "write") /\ request[r].name = n
            /\ request[r].who \in Superusers \cup {presets[n].by}
            /\ presets[n].corrupt => request[r].who \in Superusers]_vars

\* No run: the same with overlapping requests.  A preset that was deleted and made again
\* between the two steps of a DELETE goes with it.
CreatorAlwaysDecides ==
    [][\A n \in Names : exists /\ presets[n] # None /\ presets'[n] = None =>
         \E r \in Requests : At(r, "delete preset", "write") /\ request[r].name = n
            /\ request[r].who \in Superusers \cup {presets[n].by}]_vars
================================================================================
