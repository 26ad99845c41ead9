------------------------------ MODULE Explorations ------------------------------
(***************************************************************************)
(* A saved exploration that several browser pages have open and agents     *)
(* edit: the row with its revision and the snapshot file beside it         *)
(* (routers/explorations.py, services/exploration_graph.py,                *)
(* services/snapshot.py), the revisions a page polls (routers/live.py,     *)
(* useLiveRevision.ts) and what a page does with an answer                 *)
(* (stores/graph.ts, utils/liveMerge.ts).                                  *)
(*                                                                         *)
(* A writer names the revision it read; the server refuses it when another *)
(* write came first.  A page that is refused, or whose poll names a newer  *)
(* revision, reads the row, then the file, and merges what changed into    *)
(* its canvas.  Requests and answers of a page may be in flight together.  *)
(*                                                                         *)
(* A graph is the content of every node id: absent, or one of a few marks  *)
(* that stand for its type and properties.                                 *)
(***************************************************************************)
EXTENDS Naturals, FiniteSets

CONSTANTS
    Ids, Marks, Absent,   \* node ids, what a node may hold, and no node
    NoFile,               \* the snapshot file is not there
    Pages, Agents,
    Memory,               \* in-memory store and local files: no await of a handler suspends
    MaxWrites,            \* bound: writes started
    MaxFaults,            \* bound: failures of the storage and lost answers
    Traffic               \* which operations happen: "agent", "save", "layer", "delete"

ASSUME ExplorationConstants ==
    /\ Absent \notin Marks
    /\ Pages \cap Agents = {}
    /\ Memory \in BOOLEAN
    /\ MaxWrites \in Nat /\ MaxFaults \in Nat

Graphs == [Ids -> Marks \cup {Absent}]
Empty == [i \in Ids |-> Absent]

ASSUME NoFileIsNoGraph == NoFile \notin Graphs

VARIABLES
    row,      \* [life, revision, hasSnapshot]: the row of the exploration
    file,     \* the snapshot file
    agent,    \* what every tool call of an agent has loaded and is writing
    page,     \* what every page shows: [at, revision, base, canvas]
    save,     \* the PUT of every page, from the moment its body is built
    fetch,    \* its GET of the row and then of the file
    live,     \* its poll of the revision
    used      \* [writes, faults]: how much of the bounds is used up

vars == <<row, file, agent, page, save, fetch, live, used>>

NoCall == [at |-> "idle", revision |-> 0, over |-> Empty, new |-> Empty]
NoSave == [at |-> "idle", kind |-> "save", revision |-> 0, over |-> Empty, new |-> Empty, try |-> 1]
NoPoll == [at |-> "idle", revision |-> 0]
NoFetch == [at |-> "idle", revision |-> 0, hasSnapshot |-> FALSE, graph |-> Empty]

Rows == [life : {"kept", "purging", "deleted"}, revision : Nat, hasSnapshot : BOOLEAN]
Calls == [at : {"idle", "row", "loaded", "checked", "stored"}, revision : Nat,
          over : Graphs, new : Graphs]
Views == [at : {"closed", "loading", "open"}, revision : Nat, base : Graphs, canvas : Graphs]
Puts == [at : {"idle", "sent", "checked", "committed", "answered", "refused", "merging"},
         kind : {"save", "quiet", "layer"}, revision : Nat, over : Graphs, new : Graphs, try : 1..2]
Fetches == [at : {"idle", "asked", "row", "file"}, revision : Nat, hasSnapshot : BOOLEAN,
            graph : Graphs \cup {NoFile}]
LivePolls == [at : {"idle", "asked", "answered", "gone"}, revision : Nat]
Uses == [writes : 0..MaxWrites, faults : 0..MaxFaults]

TypeOK ==
    /\ row \in Rows
    /\ file \in Graphs \cup {NoFile}
    /\ agent \in [Agents -> Calls]
    /\ page \in [Pages -> Views]
    /\ save \in [Pages -> Puts]
    /\ fetch \in [Pages -> Fetches]
    /\ live \in [Pages -> LivePolls]
    /\ used \in Uses

\* What create_exploration leaves: a row, and its snapshot when it came with one
\* and the file was written after the commit.
Init ==
    /\ \E has \in BOOLEAN :
        /\ row = [life |-> "kept", revision |-> 0, hasSnapshot |-> has]
        /\ file \in IF has THEN Graphs \cup {NoFile} ELSE {NoFile}
    /\ agent = [a \in Agents |-> NoCall]
    /\ page = [p \in Pages |-> [at |-> "closed", revision |-> 0, base |-> Empty, canvas |-> Empty]]
    /\ save = [p \in Pages |-> NoSave]
    /\ fetch = [p \in Pages |-> NoFetch]
    /\ live = [p \in Pages |-> NoPoll]
    /\ used = [writes |-> 0, faults |-> 0]

-------------------------------------------------------------------------------
(* The server: handlers *)

Content == IF file = NoFile THEN Empty ELSE file
Exists == row.life = "kept"

\* The handlers between their first read and their last write.
Handling == {a \in Agents : agent[a].at \in {"row", "checked", "stored"}}
            \cup {p \in Pages : save[p].at \in {"checked", "committed"}}

\* In memory a handler runs to its end before another request is looked at.
MayRun == Memory => Handling = {} /\ row.life # "purging"

Write == used.writes < MaxWrites /\ used' = [used EXCEPT !.writes = @ + 1]
Fault == used.faults < MaxFaults /\ used' = [used EXCEPT !.faults = @ + 1]

CallIs(a, call) == agent' = [agent EXCEPT ![a] = call]
SaveIs(p, put) == save' = [save EXCEPT ![p] = put]

\* exploration_graph.load: the row, in a session of its own.
AgentReadsRow(a) ==
    /\ "agent" \in Traffic /\ Write
    /\ agent[a].at = "idle" /\ MayRun /\ Exists
    /\ CallIs(a, [NoCall EXCEPT !.at = "row", !.revision = row.revision])
    /\ UNCHANGED <<row, file, page, save, fetch, live>>

\* ... and then the file.
AgentReadsFile(a) ==
    /\ agent[a].at = "row"
    /\ CallIs(a, [agent[a] EXCEPT !.at = "loaded", !.over = Content])
    /\ UNCHANGED <<row, file, page, save, fetch, live, used>>

\* mutant: the save of an agent is not compared with the revision it loaded.
UncheckedAgent(a) ==
    /\ agent[a].at = "loaded" /\ MayRun
    /\ IF Exists
       THEN \E new \in Graphs : CallIs(a, [agent[a] EXCEPT !.at = "checked", !.new = new,
                                                             !.revision = row.revision])
       ELSE CallIs(a, NoCall)
    /\ UNCHANGED <<row, file, page, save, fetch, live, used>>

\* exploration_graph.save: the row is read again, access and revision compared.
\* The batch applied to what was loaded may turn it into any graph (apply_edit).
AgentChecks(a) ==
    /\ agent[a].at = "loaded" /\ MayRun
    /\ IF Exists /\ row.revision = agent[a].revision
       THEN \E new \in Graphs : CallIs(a, [agent[a] EXCEPT !.at = "checked", !.new = new])
       ELSE CallIs(a, NoCall)
    /\ UNCHANGED <<row, file, page, save, fetch, live, used>>

\* The file is replaced before the row; a refusal of the storage ends the call.
AgentStores(a) ==
    /\ agent[a].at = "checked"
    /\ \/ /\ file' = agent[a].new
          /\ CallIs(a, [agent[a] EXCEPT !.at = "stored"]) /\ UNCHANGED used
       \/ Fault /\ CallIs(a, NoCall) /\ UNCHANGED file
    /\ UNCHANGED <<row, page, save, fetch, live>>

\* A commit fails when the row was deleted meanwhile, or with its database.
Commits == IF ~Exists THEN {FALSE}
           ELSE IF Memory \/ used.faults = MaxFaults THEN {TRUE} ELSE BOOLEAN
Counted(done) == IF done \/ ~Exists THEN UNCHANGED used ELSE Fault

\* The row, stamped with the revision after the loaded one.
AgentCommits(a) ==
    /\ agent[a].at = "stored"
    /\ \E done \in Commits :
        /\ row' = IF done THEN [row EXCEPT !.revision = agent[a].revision + 1,
                                          !.hasSnapshot = TRUE]
                          ELSE row
        /\ Counted(done)
    /\ CallIs(a, NoCall)
    /\ UNCHANGED <<file, page, save, fetch, live>>

\* update_exploration and put_exploration_overlay: the row is loaded; only a PUT
\* of the exploration itself compares the revision (_check_revision).
PutChecks(p) ==
    /\ save[p].at = "sent" /\ MayRun
    /\ SaveIs(p, IF ~Exists THEN NoSave
                 ELSE IF save[p].kind # "layer" /\ save[p].revision # row.revision
                 THEN [save[p] EXCEPT !.at = "refused"]
                 ELSE [save[p] EXCEPT !.at = "checked", !.revision = row.revision])
    /\ UNCHANGED <<row, file, agent, page, fetch, live, used>>

\* _stamp_write and the commit: the row changes before the file is written.
PutCommits(p) ==
    /\ save[p].at = "checked"
    /\ \E done \in Commits :
        /\ row' = IF done THEN [row EXCEPT !.revision = save[p].revision + 1,
                                          !.hasSnapshot = @ \/ save[p].kind # "layer"]
                          ELSE row
        /\ SaveIs(p, IF done THEN [save[p] EXCEPT !.at = "committed"] ELSE NoSave)
        /\ Counted(done)
    /\ UNCHANGED <<file, agent, page, fetch, live>>

\* _persist_snapshot after the commit (the layer has a file of its own).  When it
\* fails the page is told so, and the row stays as it is.
PutStores(p) ==
    /\ save[p].at = "committed"
    /\ \/ /\ file' = IF save[p].kind = "layer" THEN file ELSE save[p].new
          /\ SaveIs(p, [save[p] EXCEPT !.at = "answered", !.revision = @ + 1])
          /\ UNCHANGED used
       \/ save[p].kind # "layer" /\ Fault /\ SaveIs(p, NoSave) /\ UNCHANGED file
    /\ UNCHANGED <<row, agent, page, fetch, live>>

\* delete_exploration: the row, and after its commit the file.
DeleteRow ==
    /\ "delete" \in Traffic /\ Exists /\ MayRun
    /\ row' = [row EXCEPT !.life = "purging"]
    /\ UNCHANGED <<file, agent, page, save, fetch, live, used>>

DeleteFile ==
    /\ row.life = "purging"
    /\ row' = [row EXCEPT !.life = "deleted"]
    /\ \/ file' = (IF row.hasSnapshot THEN NoFile ELSE file) /\ UNCHANGED used
       \/ Fault /\ UNCHANGED file
    /\ UNCHANGED <<agent, page, save, fetch, live>>

-------------------------------------------------------------------------------
(* A page *)

\* applyDiff of diffSnapshot: only what moved between base and remote is touched.
\* A node the person took off the canvas is not brought back by a change of it.
Merge(canvas, base, remote) ==
    [i \in Ids |-> IF base[i] = remote[i] \/ (base[i] # Absent /\ canvas[i] = Absent)
                   THEN canvas[i] ELSE remote[i]]

PageIs(p, new) == page' = [page EXCEPT ![p] = new]
FetchIs(p, new) == fetch' = [fetch EXCEPT ![p] = new]
Asked == [NoFetch EXCEPT !.at = "asked"]

Loading(p) == page[p].at = "loading" \/ (save[p].at # "idle" /\ save[p].kind = "save")

\* putExploration: a body built from the canvas, under the revision the page holds.
Put(p, shown, kind, try) ==
    [at |-> "sent", kind |-> kind, revision |-> shown.revision, over |-> shown.base,
     new |-> shown.canvas, try |-> try]

\* loadExploration: the page opens the exploration.
Open(p) ==
    /\ page[p].at = "closed"
    /\ PageIs(p, [page[p] EXCEPT !.at = "loading"])
    /\ FetchIs(p, Asked)
    /\ UNCHANGED <<row, file, agent, save, live, used>>

\* The person (or a query, an expansion) changes the canvas.
Edit(p) ==
    /\ page[p].at = "open"
    /\ \E i \in Ids, m \in Marks \cup {Absent} :
        /\ page[p].canvas[i] # m
        /\ PageIs(p, [page[p] EXCEPT !.canvas[i] = m])
    /\ UNCHANGED <<row, file, agent, save, fetch, live, used>>

\* saveExploration (behind the loading flag), the metric of saveMetricAsProperty
\* (not behind it), or the layer of persistOverlay.
Save(p) ==
    /\ page[p].at = "open" /\ save[p].at = "idle" /\ Write
    /\ \E kind \in (IF "save" \in Traffic THEN {"save", "quiet"} ELSE {})
                   \cup (Traffic \cap {"layer"}) :
            SaveIs(p, Put(p, page[p], kind, 1))
    /\ UNCHANGED <<row, file, agent, page, fetch, live>>

\* The answer of the PUT: the page takes over its revision, and what it sent is
\* the base of the next merge.  Or the answer is lost.
PutReturns(p) ==
    /\ save[p].at = "answered"
    /\ \/ /\ PageIs(p, [page[p] EXCEPT
                 !.revision = save[p].revision,
                 !.base = IF save[p].kind = "layer" THEN @ ELSE save[p].new])
          /\ UNCHANGED used
       \/ Fault /\ UNCHANGED page
    /\ SaveIs(p, NoSave)
    /\ UNCHANGED <<row, file, agent, fetch, live>>

\* 409 EXPLORATION_CHANGED: merge first (a pull under way is shared), then try
\* once more; the second refusal is shown to the person.
Refused(p) ==
    /\ save[p].at = "refused"
    /\ IF save[p].try = 1
       THEN /\ SaveIs(p, [save[p] EXCEPT !.at = "merging"])
            /\ IF fetch[p].at = "idle" THEN FetchIs(p, Asked) ELSE UNCHANGED fetch
       ELSE SaveIs(p, NoSave) /\ UNCHANGED fetch
    /\ UNCHANGED <<row, file, agent, page, live, used>>

\* A poll of useLiveRevision: asked, answered by the server, looked at.
Poll(p) ==
    /\ page[p].at = "open" /\ ~Loading(p) /\ live[p].at = "idle"
    /\ live' = [live EXCEPT ![p].at = "asked"]
    /\ UNCHANGED <<row, file, agent, page, save, fetch, used>>

PollAnswered(p) ==
    /\ live[p].at = "asked" /\ MayRun
    /\ live' = [live EXCEPT ![p] = IF Exists THEN [at |-> "answered", revision |-> row.revision]
                                   ELSE [NoPoll EXCEPT !.at = "gone"]]
    /\ UNCHANGED <<row, file, agent, page, save, fetch, used>>

\* mutant: an off-by-one, the page lets the revision right after its own pass.
PollMissesNext(p) ==
    /\ live[p].at \in {"answered", "gone"} /\ fetch[p].at = "idle"
    /\ live' = [live EXCEPT ![p] = NoPoll]
    /\ IF live[p].revision > page[p].revision + 1
       THEN FetchIs(p, Asked) ELSE UNCHANGED fetch
    /\ UNCHANGED <<row, file, agent, page, save, used>>

PollReturns(p) ==
    /\ live[p].at \in {"answered", "gone"} /\ fetch[p].at = "idle"
    /\ live' = [live EXCEPT ![p] = NoPoll]
    /\ IF live[p].revision > page[p].revision
       THEN FetchIs(p, Asked) ELSE UNCHANGED fetch
    /\ UNCHANGED <<row, file, agent, page, save, used>>

\* getExploration of a load or of pullRemoteChange.
FetchRow(p) ==
    /\ fetch[p].at = "asked" /\ MayRun /\ Exists
    /\ FetchIs(p, [NoFetch EXCEPT !.at = "row", !.revision = row.revision,
                                  !.hasSnapshot = row.hasSnapshot])
    /\ UNCHANGED <<row, file, agent, page, save, live, used>>

\* getExplorationSnapshot, when the row said there is one.
FetchFile(p) ==
    /\ fetch[p].at = "row" /\ MayRun
    /\ FetchIs(p, [fetch[p] EXCEPT !.at = "file",
                       !.graph = IF fetch[p].hasSnapshot THEN file ELSE NoFile])
    /\ UNCHANGED <<row, file, agent, page, save, live, used>>

\* mutant: a lost snapshot is taken for the base of the next merge.
LoadedRaw(p) ==
    /\ page[p].at = "loading" /\ fetch[p].at = "file"
    /\ PageIs(p, [at |-> "open", revision |-> fetch[p].revision, canvas |-> Empty,
                  base |-> fetch[p].graph])
    /\ FetchIs(p, NoFetch)
    /\ UNCHANGED <<row, file, agent, save, live, used>>

\* loadExploration has its answers: the snapshot, or (none, or lost) the answer of
\* the saved query, which is then saved quietly (_autoSaveSnapshotIfWritable).
Loaded(p) ==
    /\ page[p].at = "loading" /\ fetch[p].at = "file"
    /\ \E shown \in IF fetch[p].graph = NoFile THEN Graphs ELSE {fetch[p].graph} :
        LET new == [at |-> "open", revision |-> fetch[p].revision, canvas |-> shown,
                    base |-> IF fetch[p].graph = NoFile THEN Empty ELSE fetch[p].graph]
        IN  /\ PageIs(p, new)
            /\ IF fetch[p].graph = NoFile /\ shown # Empty /\ used.writes < MaxWrites
               THEN Write /\ SaveIs(p, Put(p, new, "quiet", 1))
               ELSE UNCHANGED <<save, used>>
    /\ FetchIs(p, NoFetch)
    /\ UNCHANGED <<row, file, agent, live>>

\* mutant: the revision is taken over, the base of the merge is not.
PulledOldBase(p) ==
    /\ page[p].at = "open" /\ fetch[p].at = "file"
    /\ fetch[p].hasSnapshot => fetch[p].graph # NoFile
    /\ LET remote == IF fetch[p].hasSnapshot THEN fetch[p].graph ELSE page[p].base
           new == [page[p] EXCEPT !.revision = fetch[p].revision,
                                  !.canvas = Merge(@, page[p].base, remote)]
       IN  /\ PageIs(p, new)
           /\ IF save[p].at = "merging" THEN SaveIs(p, Put(p, new, save[p].kind, 2))
                                        ELSE UNCHANGED save
    /\ FetchIs(p, NoFetch)
    /\ UNCHANGED <<row, file, agent, live, used>>

\* pullRemoteChange has its answers: the change is merged and a save that waited
\* for it goes out again.  With no snapshot only the revision moves.
Pulled(p) ==
    /\ page[p].at = "open" /\ fetch[p].at = "file"
    /\ fetch[p].hasSnapshot => fetch[p].graph # NoFile
    /\ LET remote == IF fetch[p].hasSnapshot THEN fetch[p].graph ELSE page[p].base
           new == [page[p] EXCEPT !.revision = fetch[p].revision, !.base = remote,
                                  !.canvas = Merge(@, page[p].base, remote)]
       IN  /\ PageIs(p, new)
           /\ IF save[p].at = "merging" THEN SaveIs(p, Put(p, new, save[p].kind, 2))
                                        ELSE UNCHANGED save
    /\ FetchIs(p, NoFetch)
    /\ UNCHANGED <<row, file, agent, live, used>>

\* A pull whose row or file is gone (404) ends, and the save that waited with it.
PullFails(p) ==
    /\ \/ fetch[p].at = "asked" /\ ~Exists
       \/ fetch[p].at = "file" /\ fetch[p].hasSnapshot /\ fetch[p].graph = NoFile
          /\ page[p].at = "open"
    /\ PageIs(p, [page[p] EXCEPT !.at = IF @ = "loading" THEN "closed" ELSE @])
    /\ SaveIs(p, IF save[p].at = "merging" THEN NoSave ELSE save[p])
    /\ FetchIs(p, NoFetch)
    /\ UNCHANGED <<row, file, agent, live, used>>

-------------------------------------------------------------------------------
AgentStep(a) ==
    \/ AgentReadsFile(a) \/ AgentChecks(a) \/ AgentStores(a) \/ AgentCommits(a)

Answers(p) ==
    \/ PutChecks(p) \/ PutCommits(p) \/ PutStores(p) \/ PutReturns(p) \/ Refused(p)
    \/ FetchRow(p) \/ FetchFile(p) \/ Loaded(p) \/ Pulled(p) \/ PullFails(p)

Polls(p) == Poll(p) \/ PollAnswered(p) \/ PollReturns(p)

Next ==
    \/ \E a \in Agents : AgentReadsRow(a) \/ AgentStep(a)
    \/ \E p \in Pages : Open(p) \/ Edit(p) \/ Save(p) \/ Answers(p) \/ Polls(p)
    \/ DeleteRow \/ DeleteFile

Spec == Init /\ [][Next]_vars

\* Requests are answered, timers fire and a handler that runs goes on; nothing
\* makes a person or an agent act.
FairSpec ==
    /\ Spec
    /\ \A a \in Agents : WF_vars(AgentStep(a))
    /\ \A p \in Pages : WF_vars(Answers(p)) /\ WF_vars(Polls(p))
    /\ WF_vars(DeleteFile)

-------------------------------------------------------------------------------
(* Properties *)

Lost == row.hasSnapshot /\ file = NoFile
Resting == Handling = {} /\ Exists

(* A page that holds the current revision holds the graph of that revision:   *)
(* the poll that compares revisions, and the server that compares them before *)
(* a write, are both right to compare nothing else (useLiveRevision.ts,       *)
(* _check_revision).                                                          *)
RevisionNamesGraph ==
    Resting => \A p \in Pages :
        page[p].at = "open" /\ page[p].revision = row.revision => page[p].base = Content

(* Nobody replaces a graph they have not seen: the file a save replaces is    *)
(* the one it was read or merged from (exploration_graph.save, putExploration).*)
NoBlindSave ==
    [][/\ \A a \in Agents : agent[a].at = "checked" /\ agent'[a].at = "stored"
              => agent[a].over = Content
       /\ \A p \in Pages : save[p].at = "committed" /\ save'[p].at = "answered"
                           /\ save[p].kind # "layer"
              => save[p].over = Content]_vars

(* What somebody saved shows up in every page that has the exploration open,  *)
(* unless its file is lost (GET /api/live, applyRemoteChange).                *)
Converges ==
    \A p \in Pages :
        <>[](page[p].at = "open" /\ Exists /\ ~Lost =>
                page[p].revision = row.revision /\ page[p].base = Content)
================================================================================
