---------------------------- MODULE GraphViewProofs ----------------------------
(***************************************************************************)
(* Proofs about what the graph view works on: the exploration it shows     *)
(* (Explorations), the queries it runs (GraphQueries) and the workers that *)
(* compute its metrics (WorkerPool). They share no variable; the last two  *)
(* are the instances Q and Pool of MCView.                                 *)
(*                                                                         *)
(* Explorations, for a server whose handlers are not interrupted (Memory)  *)
(* and pages that do not save their layer: for any number of pages and     *)
(* agents, any nodes and any bounds, equal revisions mean equal graphs and *)
(* nobody replaces a graph they have not seen. RevisionNamesGraph is not   *)
(* inductive: it speaks of pages at rest only. The strengthening Agreement *)
(* says it of every revision somebody holds together with a graph: an      *)
(* agent that has loaded, a save under way or answered, a fetch under way. *)
(* Between the two writes of a handler the row and the file disagree;      *)
(* there Serial (one handler at a time) and the two cases of Names carry   *)
(* the argument. SavesOpen says that a page has a save under way only      *)
(* while it shows the exploration, so that the save of a page that loads   *)
(* cannot be in its last step.                                             *)
(*                                                                         *)
(* GraphQueries, for any number of calls and whatever is superseded,       *)
(* cancelled, retried or late: see QueriesInv.                             *)
(*                                                                         *)
(* WorkerPool, for any workers, computations, limits and priorities:       *)
(* PoolIsFair counts the places of a computation, and Kept says who is in  *)
(* which: nobody waits twice, is run twice or waits while it runs, and     *)
(* whoever has handlers is on a worker. AllBusy holds of the queue since   *)
(* it was last looked at, whatever a handler did to the pool before.       *)
(***************************************************************************)
EXTENDS Explorations, MCView, Sequences, SequenceTheorems, FunctionTheorems, FiniteSetTheorems,
        WellFoundedInduction, TLAPS

Stored == \E a \in Agents : agent[a].at = "stored"
Committed == \E p \in Pages : save[p].at = "committed"

\* One handler at a time, and none while the exploration goes away.
Serial ==
    /\ \A x, y \in Handling : x = y
    /\ Handling # {} => Exists

\* r is a revision somebody may hold: after the row of a page and before its file
\* only an old one.
Past(r) == r <= row.revision /\ (Committed => r < row.revision)

\* ... whose graph is g.  After the file of an agent and before its row nothing is
\* said of g.
Names(r, g) == Past(r) /\ (~Stored /\ r = row.revision => g = Content)

Shown(g) == IF g = NoFile THEN Empty ELSE g

RowAgrees ==
    /\ row.revision > 0 => row.hasSnapshot
    /\ ~Stored /\ ~row.hasSnapshot => file = NoFile

PageAgrees(p) == page[p].at = "open" => Names(page[p].revision, page[p].base)

SaveAgrees(p) ==
    /\ save[p].kind # "layer"
    /\ save[p].at \in {"sent", "checked"} => Names(save[p].revision, save[p].over)
    /\ save[p].at = "checked" => save[p].revision = row.revision
    /\ save[p].at = "committed" => save[p].revision + 1 = row.revision /\ save[p].over = Content
    /\ save[p].at = "answered" => Names(save[p].revision, save[p].new)

FetchAgrees(p) ==
    /\ fetch[p].at \in {"row", "file"} =>
        /\ Past(fetch[p].revision)
        /\ fetch[p].revision = row.revision => fetch[p].hasSnapshot = row.hasSnapshot
    /\ fetch[p].at = "file" => Names(fetch[p].revision, Shown(fetch[p].graph))

AgentAgrees(a) ==
    /\ agent[a].at = "loaded" => Names(agent[a].revision, agent[a].over)
    /\ agent[a].at = "checked" => agent[a].over = Content
    /\ agent[a].at \in {"row", "checked", "stored"} => agent[a].revision = row.revision

Agreement ==
    /\ RowAgrees
    /\ \A p \in Pages : PageAgrees(p) /\ SaveAgrees(p) /\ FetchAgrees(p)
    /\ \A a \in Agents : AgentAgrees(a)

\* Only a page that has loaded the exploration saves it.
SavesOpen == \A p \in Pages : page[p].at # "open" => save[p].at = "idle"

IInv == TypeOK /\ Serial /\ SavesOpen /\ (Exists => Agreement)

-------------------------------------------------------------------------------
(* Types. *)

(* Every graph an action builds is a graph. *)
LEMMA GraphTypes ==
    /\ Empty \in Graphs
    /\ TypeOK => Content \in Graphs
    /\ \A c, b, r \in Graphs : Merge(c, b, r) \in Graphs
    /\ \A g \in Graphs : \A i \in Ids, m \in Marks \cup {Absent} : [g EXCEPT ![i] = m] \in Graphs
BY DEF Empty, Graphs, Content, TypeOK, Merge

(* What a call, a save, a fetch and a poll are between two uses has their type. *)
LEMMA RestTypes ==
    /\ NoCall \in Calls /\ NoSave \in Puts /\ NoFetch \in Fetches /\ Asked \in Fetches
    /\ NoPoll \in LivePolls
<1> USE GraphTypes
<1>1. NoCall \in Calls
  BY DEF NoCall, Calls
<1>2. NoSave \in Puts
  BY DEF NoSave, Puts
<1>3. NoFetch \in Fetches
  BY DEF NoFetch, Fetches
<1>4. Asked \in Fetches
  BY <1>3 DEF Asked, Fetches
<1>5. NoPoll \in LivePolls
  BY DEF NoPoll, LivePolls
<1>6. QED
  BY <1>1, <1>2, <1>3, <1>4, <1>5

(* A PUT built from what a page shows is a PUT (putExploration). *)
LEMMA PutTypes ==
    ASSUME NEW v \in Views, NEW kind \in {"save", "quiet", "layer"}, NEW try \in 1..2,
           NEW p \in Pages
    PROVE  Put(p, v, kind, try) \in Puts
BY DEF Views, Puts, Put

(* The bounds are counted inside their ranges. *)
LEMMA UseTypes ==
    ASSUME used \in Uses
    PROVE  /\ Write => used' \in Uses
           /\ Fault => used' \in Uses
           /\ \A done : Counted(done) => used' \in Uses
BY ExplorationConstants DEF Uses, Write, Fault, Counted

(* A step that replaces one record by another of its type keeps the types. *)
LEMMA CallTypes ==
    ASSUME TypeOK, NEW a \in Agents, NEW c \in Calls, CallIs(a, c)
    PROVE  agent' \in [Agents -> Calls]
BY DEF TypeOK, CallIs

(* ... the save of a page, *)
LEMMA SaveTypes ==
    ASSUME TypeOK, NEW p \in Pages, NEW s \in Puts, SaveIs(p, s)
    PROVE  save' \in [Pages -> Puts]
BY DEF TypeOK, SaveIs

(* ... what it shows, *)
LEMMA PageTypes ==
    ASSUME TypeOK, NEW p \in Pages, NEW v \in Views, PageIs(p, v)
    PROVE  page' \in [Pages -> Views]
BY DEF TypeOK, PageIs

(* ... and what it fetches. *)
LEMMA FetchTypes ==
    ASSUME TypeOK, NEW p \in Pages, NEW f \in Fetches, FetchIs(p, f)
    PROVE  fetch' \in [Pages -> Fetches]
BY DEF TypeOK, FetchIs

(* Type correctness: every step keeps TypeOK, whatever Memory and Traffic are. *)
LEMMA AgentTypes ==
    ASSUME TypeOK, NEW a \in Agents, AgentReadsRow(a) \/ AgentStep(a)
    PROVE  TypeOK'
<1> USE GraphTypes, RestTypes, UseTypes
<1> agent[a] \in Calls /\ row \in Rows
  BY DEF TypeOK
<1>1. CASE AgentReadsRow(a)
  <2>1. [NoCall EXCEPT !.at = "row", !.revision = row.revision] \in Calls
    BY DEF NoCall, Calls, Rows
  <2>2. QED
    BY <1>1, <2>1, CallTypes DEF AgentReadsRow, TypeOK
<1>2. CASE AgentReadsFile(a)
  <2>1. [agent[a] EXCEPT !.at = "loaded", !.over = Content] \in Calls
    BY DEF Calls
  <2>2. QED
    BY <1>2, <2>1, CallTypes DEF AgentReadsFile, TypeOK
<1>3. CASE AgentChecks(a)
  <2>1. \A new \in Graphs : [agent[a] EXCEPT !.at = "checked", !.new = new] \in Calls
    BY DEF Calls
  <2>2. QED
    BY <1>3, <2>1, CallTypes DEF AgentChecks, TypeOK
<1>4. CASE AgentStores(a)
  <2>1. [agent[a] EXCEPT !.at = "stored"] \in Calls /\ agent[a].new \in Graphs
    BY DEF Calls
  <2>2. QED
    BY <1>4, <2>1, CallTypes DEF AgentStores, TypeOK
<1>5. CASE AgentCommits(a)
  <2> agent[a].revision + 1 \in Nat
    BY DEF Calls
  <2>1. [row EXCEPT !.revision = agent[a].revision + 1, !.hasSnapshot = TRUE] \in Rows
    BY DEF Rows
  <2>2. QED
    BY <1>5, <2>1, CallTypes DEF AgentCommits, TypeOK
<1>6. QED
  BY <1>1, <1>2, <1>3, <1>4, <1>5 DEF AgentStep

(* The steps of a save keep the types, on the page and on the server. *)
LEMMA SaveStepTypes ==
    ASSUME TypeOK, NEW p \in Pages,
           Save(p) \/ PutChecks(p) \/ PutCommits(p) \/ PutStores(p) \/ PutReturns(p) \/ Refused(p)
    PROVE  TypeOK'
<1> USE GraphTypes, RestTypes, UseTypes
<1> page[p] \in Views /\ save[p] \in Puts /\ fetch[p] \in Fetches /\ row \in Rows
  BY DEF TypeOK
<1> save[p].revision \in Nat /\ save[p].revision + 1 \in Nat /\ save[p].new \in Graphs
    /\ row.revision \in Nat
  BY DEF Puts, Rows
<1>1. CASE Save(p)
  <2>1. \A kind \in {"save", "quiet", "layer"} : Put(p, page[p], kind, 1) \in Puts
    BY PutTypes
  <2>2. QED
    BY <1>1, <2>1, SaveTypes DEF Save, TypeOK
<1>2. CASE PutChecks(p)
  <2>1. [save[p] EXCEPT !.at = "refused"] \in Puts
    BY DEF Puts
  <2>2. [save[p] EXCEPT !.at = "checked", !.revision = row.revision] \in Puts
    BY DEF Puts
  <2>3. QED
    BY <1>2, <2>1, <2>2, SaveTypes DEF PutChecks, TypeOK
<1>3. CASE PutCommits(p)
  <2>1. [save[p] EXCEPT !.at = "committed"] \in Puts
    BY DEF Puts
  <2>2. [row EXCEPT !.revision = save[p].revision + 1,
                    !.hasSnapshot = @ \/ save[p].kind # "layer"] \in Rows
    BY DEF Rows
  <2>3. QED
    BY <1>3, <2>1, <2>2, SaveTypes DEF PutCommits, TypeOK
<1>4. CASE PutStores(p)
  <2>1. [save[p] EXCEPT !.at = "answered", !.revision = @ + 1] \in Puts
    BY DEF Puts
  <2>2. QED
    BY <1>4, <2>1, SaveTypes DEF PutStores, TypeOK
<1>5. CASE PutReturns(p)
  <2>1. [page[p] EXCEPT !.revision = save[p].revision,
                        !.base = IF save[p].kind = "layer" THEN @ ELSE save[p].new] \in Views
    BY DEF Views
  <2>2. QED
    BY <1>5, <2>1, SaveTypes, PageTypes DEF PutReturns, TypeOK
<1>6. CASE Refused(p)
  <2>1. [save[p] EXCEPT !.at = "merging"] \in Puts
    BY DEF Puts
  <2>2. QED
    BY <1>6, <2>1, SaveTypes, FetchTypes DEF Refused, TypeOK
<1>7. QED
  BY <1>1, <1>2, <1>3, <1>4, <1>5, <1>6

(* So do the other steps of a page. *)
LEMMA PageStepTypes ==
    ASSUME TypeOK, NEW p \in Pages,
           Open(p) \/ Edit(p) \/ FetchRow(p) \/ FetchFile(p) \/ Loaded(p) \/ Pulled(p)
           \/ PullFails(p) \/ Polls(p)
    PROVE  TypeOK'
<1> USE GraphTypes, RestTypes, UseTypes
<1> page[p] \in Views /\ save[p] \in Puts /\ fetch[p] \in Fetches /\ live[p] \in LivePolls
    /\ row \in Rows
  BY DEF TypeOK
<1> /\ page[p].canvas \in Graphs /\ page[p].base \in Graphs
    /\ fetch[p].revision \in Nat /\ fetch[p].graph \in Graphs \cup {NoFile}
    /\ row.revision \in Nat /\ row.hasSnapshot \in BOOLEAN
  BY DEF Views, Fetches, Rows
<1>1. CASE Open(p)
  <2>1. [page[p] EXCEPT !.at = "loading"] \in Views
    BY DEF Views
  <2>2. QED
    BY <1>1, <2>1, PageTypes, FetchTypes DEF Open, TypeOK
<1>2. CASE Edit(p)
  <2>1. \A i \in Ids, m \in Marks \cup {Absent} : [page[p] EXCEPT !.canvas[i] = m] \in Views
    BY DEF Views
  <2>2. QED
    BY <1>2, <2>1, PageTypes DEF Edit, TypeOK
<1>3. CASE FetchRow(p)
  <2>1. [NoFetch EXCEPT !.at = "row", !.revision = row.revision, !.hasSnapshot = row.hasSnapshot]
            \in Fetches
    BY DEF Fetches
  <2>2. QED
    BY <1>3, <2>1, FetchTypes DEF FetchRow, TypeOK
<1>4. CASE FetchFile(p)
  <2>1. file \in Graphs \cup {NoFile}
    BY DEF TypeOK
  <2>2. [fetch[p] EXCEPT !.at = "file", !.graph = IF fetch[p].hasSnapshot THEN file ELSE NoFile]
            \in Fetches
    BY <2>1 DEF Fetches
  <2>3. QED
    BY <1>4, <2>2, FetchTypes DEF FetchFile, TypeOK
<1>5. CASE Loaded(p)
  <2>1. PICK pulled \in Graphs :
            LET new == [at |-> "open", revision |-> fetch[p].revision, canvas |-> pulled,
                        base |-> IF fetch[p].graph = NoFile THEN Empty ELSE fetch[p].graph]
            IN  /\ PageIs(p, new)
                /\ IF fetch[p].graph = NoFile /\ pulled # Empty /\ used.writes < MaxWrites
                   THEN Write /\ SaveIs(p, Put(p, new, "quiet", 1))
                   ELSE UNCHANGED <<save, used>>
    BY <1>5 DEF Loaded
  <2> DEFINE new == [at |-> "open", revision |-> fetch[p].revision, canvas |-> pulled,
                     base |-> IF fetch[p].graph = NoFile THEN Empty ELSE fetch[p].graph]
  <2>2. new \in Views
    BY DEF Views
  <2>3. Put(p, new, "quiet", 1) \in Puts
    BY <2>2, PutTypes
  <2>4. page' \in [Pages -> Views]
    BY <2>1, <2>2, PageTypes
  <2>5. save' \in [Pages -> Puts] /\ used' \in Uses
    BY <2>1, <2>3, SaveTypes DEF TypeOK
  <2>6. QED
    BY <1>5, <2>4, <2>5, FetchTypes DEF Loaded, TypeOK
<1>6. CASE Pulled(p)
  <2> DEFINE remote == IF fetch[p].hasSnapshot THEN fetch[p].graph ELSE page[p].base
             new == [page[p] EXCEPT !.revision = fetch[p].revision, !.base = remote,
                                    !.canvas = Merge(@, page[p].base, remote)]
  <2>1. remote \in Graphs
    BY <1>6 DEF Pulled
  <2>2. Merge(page[p].canvas, page[p].base, remote) \in Graphs
    BY <2>1
  <2>3. new \in Views
    BY <2>1, <2>2 DEF Views
  <2>4. Put(p, new, save[p].kind, 2) \in Puts
    BY <2>3, PutTypes DEF Puts
  <2> HIDE DEF new, remote
  <2>5. /\ PageIs(p, new)
        /\ SaveIs(p, Put(p, new, save[p].kind, 2)) \/ UNCHANGED save
    BY <1>6 DEF Pulled, new, remote
  <2>6. QED
    BY <1>6, <2>3, <2>4, <2>5, PageTypes, SaveTypes, FetchTypes DEF Pulled, TypeOK
<1>7. CASE PullFails(p)
  <2>1. [page[p] EXCEPT !.at = IF @ = "loading" THEN "closed" ELSE @] \in Views
    BY DEF Views
  <2>2. QED
    BY <1>7, <2>1, PageTypes, SaveTypes, FetchTypes DEF PullFails, TypeOK
<1>8. CASE Polls(p)
  <2>1. live' \in [Pages -> LivePolls]
    BY <1>8 DEF Polls, Poll, PollAnswered, PollReturns, TypeOK, LivePolls
  <2>2. fetch' \in [Pages -> Fetches]
    BY <1>8, FetchTypes DEF Polls, Poll, PollAnswered, PollReturns, TypeOK
  <2>3. QED
    BY <1>8, <2>1, <2>2 DEF Polls, Poll, PollAnswered, PollReturns, TypeOK
<1>9. QED
  BY <1>1, <1>2, <1>3, <1>4, <1>5, <1>6, <1>7, <1>8

(* Every step keeps the types: one case per disjunct of Next. *)
LEMMA StepTypes == TypeOK /\ [Next]_vars => TypeOK'
<1> SUFFICES ASSUME TypeOK, [Next]_vars PROVE TypeOK'
  OBVIOUS
<1>1. CASE DeleteRow \/ DeleteFile
  <2>1. row' \in Rows
    BY <1>1 DEF DeleteRow, DeleteFile, TypeOK, Rows
  <2>2. QED
    BY <1>1, <2>1, UseTypes DEF DeleteRow, DeleteFile, TypeOK
<1>2. CASE UNCHANGED vars
  BY <1>2 DEF vars, TypeOK
<1>3. QED
  BY <1>1, <1>2, AgentTypes, SaveStepTypes, PageStepTypes DEF Next, Answers

(* What create_exploration leaves has its types. *)
LEMMA InitTypes == Init => TypeOK
<1> SUFFICES ASSUME Init PROVE TypeOK
  OBVIOUS
<1> USE GraphTypes, RestTypes
<1>1. row \in Rows /\ file \in Graphs \cup {NoFile}
  BY DEF Init, Rows
<1>2. page \in [Pages -> Views]
  BY DEF Init, Views
<1>3. used \in Uses
  BY ExplorationConstants DEF Init, Uses
<1>4. QED
  BY <1>1, <1>2, <1>3 DEF Init, TypeOK
-------------------------------------------------------------------------------
(* One handler at a time: a handler starts when none runs (MayRun), and in memory *)
(* a commit of an exploration that is kept does not fail.                        *)
LEMMA SerialKept ==
    ASSUME Memory, TypeOK, Serial, [Next]_vars
    PROVE  Serial'
<1>1. ASSUME NEW a \in Agents, AgentReadsRow(a) PROVE Serial'
  BY <1>1 DEF TypeOK, Calls, Serial, Handling, MayRun, Exists, AgentReadsRow, CallIs, NoCall, Commits
<1>2. ASSUME NEW a \in Agents, AgentReadsFile(a) PROVE Serial'
  BY <1>2 DEF TypeOK, Calls, Serial, Handling, MayRun, Exists, AgentReadsFile, CallIs, NoCall, Commits
<1>3. ASSUME NEW a \in Agents, AgentChecks(a) PROVE Serial'
  <2>1. Handling = {} /\ UNCHANGED <<row, save>>
    BY <1>3 DEF AgentChecks, MayRun
  <2>2. Handling' \subseteq {a}
    BY <1>3, <2>1 DEF AgentChecks, Handling, CallIs, TypeOK
  <2>3. CASE Exists
    BY <2>1, <2>2, <2>3 DEF Serial, Exists
  <2>4. CASE ~Exists
    <3>1. Handling' = {}
      BY <1>3, <2>1, <2>4 DEF AgentChecks, Handling, CallIs, NoCall, TypeOK
    <3>2. QED
      BY <3>1 DEF Serial
  <2>5. QED
    BY <2>3, <2>4
<1>4. ASSUME NEW a \in Agents, AgentStores(a) PROVE Serial'
  BY <1>4 DEF TypeOK, Calls, Serial, Handling, MayRun, Exists, AgentStores, CallIs, NoCall, Commits
<1>5. ASSUME NEW a \in Agents, AgentCommits(a) PROVE Serial'
  BY <1>5 DEF TypeOK, Calls, Serial, Handling, MayRun, Exists, AgentCommits, CallIs, NoCall, Commits
<1>6. ASSUME NEW p \in Pages, Save(p) PROVE Serial'
  BY <1>6 DEF TypeOK, Puts, Serial, Handling, MayRun, Exists, Save, SaveIs, NoSave, Put, Commits
<1>7. ASSUME NEW p \in Pages, PutChecks(p) PROVE Serial'
  BY <1>7 DEF TypeOK, Puts, Serial, Handling, MayRun, Exists, PutChecks, SaveIs, NoSave, Put, Commits
<1>8. ASSUME NEW p \in Pages, PutCommits(p) PROVE Serial'
  BY <1>8 DEF TypeOK, Puts, Serial, Handling, MayRun, Exists, PutCommits, SaveIs, NoSave, Put, Commits
<1>9. ASSUME NEW p \in Pages, PutStores(p) PROVE Serial'
  BY <1>9 DEF TypeOK, Puts, Serial, Handling, MayRun, Exists, PutStores, SaveIs, NoSave, Put, Commits
<1>10. ASSUME NEW p \in Pages, PutReturns(p) PROVE Serial'
  BY <1>10 DEF TypeOK, Puts, Serial, Handling, MayRun, Exists, PutReturns, SaveIs, NoSave, Put, Commits
<1>11. ASSUME NEW p \in Pages, Refused(p) PROVE Serial'
  <2>1. UNCHANGED <<row, agent>>
    BY <1>11 DEF Refused
  <2>2. \A q \in Pages : save'[q].at \in {"checked", "committed"} => save'[q] = save[q]
    BY <1>11 DEF Refused, SaveIs, NoSave, TypeOK, Puts
  <2>3. Handling' \subseteq Handling
    BY <2>1, <2>2 DEF Handling
  <2>4. QED
    BY <2>1, <2>3 DEF Serial, Exists
<1>12. ASSUME NEW p \in Pages, Loaded(p) PROVE Serial'
  <2>1. UNCHANGED <<row, agent>>
    BY <1>12 DEF Loaded
  <2>2. \A q \in Pages : save'[q].at \in {"checked", "committed"} => save'[q] = save[q]
    BY <1>12 DEF Loaded, SaveIs, NoSave, TypeOK, Put
  <2>3. Handling' \subseteq Handling
    BY <2>1, <2>2 DEF Handling
  <2>4. QED
    BY <2>1, <2>3 DEF Serial, Exists
<1>13. ASSUME NEW p \in Pages, Pulled(p) PROVE Serial'
  <2>1. UNCHANGED <<row, agent>>
    BY <1>13 DEF Pulled
  <2>2. \A q \in Pages : save'[q].at \in {"checked", "committed"} => save'[q] = save[q]
    BY <1>13 DEF Pulled, SaveIs, NoSave, TypeOK, Put
  <2>3. Handling' \subseteq Handling
    BY <2>1, <2>2 DEF Handling
  <2>4. QED
    BY <2>1, <2>3 DEF Serial, Exists
<1>14. ASSUME NEW p \in Pages, PullFails(p) PROVE Serial'
  BY <1>14 DEF TypeOK, Puts, Serial, Handling, MayRun, Exists, PullFails, SaveIs, NoSave, Put, Commits
<1>15. ASSUME NEW p \in Pages, Open(p) \/ Edit(p) \/ FetchRow(p) \/ FetchFile(p) \/ Polls(p)
      PROVE  Serial'
  BY <1>15 DEF Serial, Handling, Exists, Open, Edit, FetchRow, FetchFile, Polls, Poll, PollAnswered,
     PollReturns
<1>16. CASE DeleteRow \/ DeleteFile
  BY <1>16 DEF Serial, Handling, MayRun, Exists, DeleteRow, DeleteFile
<1>17. CASE UNCHANGED vars
  BY <1>17 DEF Serial, Handling, Exists, vars
<1>18. QED
  BY <1>1, <1>2, <1>3, <1>4, <1>5, <1>6, <1>7, <1>8, <1>9, <1>10, <1>11, <1>12, <1>13,
     <1>14, <1>15, <1>16, <1>17 DEF Next, AgentStep, Answers, Polls
-------------------------------------------------------------------------------
(* What is held agrees with what is stored. *)

(* The sets of the constants do not overlap. *)
LEMMA AgentsAndPages ==
    /\ \A a \in Agents, p \in Pages : a # p
    /\ NoFile \notin Graphs
BY ExplorationConstants, NoFileIsNoGraph

(* Nothing is written: what is known of a revision stays known. *)
Quiet == UNCHANGED <<row, file>> /\ (Stored' <=> Stored) /\ (Committed' <=> Committed)

(* A step that writes neither row nor file changes nothing about what names what. *)
LEMMA QuietNames ==
    ASSUME Quiet
    PROVE  /\ \A r : Past(r)' <=> Past(r)
           /\ \A r, g : Names(r, g)' <=> Names(r, g)
           /\ RowAgrees' <=> RowAgrees
           /\ Content' = Content
BY DEF Quiet, Names, Past, RowAgrees, Content

(* A step of one agent that writes nothing. *)
LEMMA QuietAgent ==
    ASSUME Agreement, Quiet, NEW a \in Agents, NEW c, CallIs(a, c), TypeOK,
           UNCHANGED <<page, save, fetch>>, AgentAgrees(a)'
    PROVE  Agreement'
<1> USE QuietNames
<1>1. \A p \in Pages : PageAgrees(p)' /\ SaveAgrees(p)' /\ FetchAgrees(p)'
  BY DEF Agreement, PageAgrees, SaveAgrees, FetchAgrees, Quiet
<1>2. \A b \in Agents : b # a => agent'[b] = agent[b]
  BY DEF CallIs, TypeOK
<1>3. \A b \in Agents : b # a => AgentAgrees(b)'
  BY <1>2 DEF Agreement, AgentAgrees, Quiet
<1>4. QED
  BY <1>1, <1>3 DEF Agreement

(* A step of one page that writes nothing. *)
LEMMA QuietPage ==
    ASSUME Agreement, Quiet, TypeOK, NEW p \in Pages, UNCHANGED agent,
           \A q \in Pages : q # p => /\ page'[q] = page[q]
                                    /\ save'[q] = save[q]
                                    /\ fetch'[q] = fetch[q],
           PageAgrees(p)', SaveAgrees(p)', FetchAgrees(p)'
    PROVE  Agreement'
<1> USE QuietNames
<1>1. \A q \in Pages : q # p => PageAgrees(q)' /\ SaveAgrees(q)' /\ FetchAgrees(q)'
  BY DEF Agreement, PageAgrees, SaveAgrees, FetchAgrees, Quiet
<1>2. \A b \in Agents : AgentAgrees(b)'
  BY DEF Agreement, AgentAgrees, Quiet
<1>3. QED
  BY <1>1, <1>2 DEF Agreement

(* A write keeps what is held of the revisions before it. *)
Keeps ==
    /\ \A r \in Nat : Past(r) => Past(r)'
    /\ \A r \in Nat : \A g : Names(r, g) => Names(r, g)'
    /\ UNCHANGED row \/ row'.revision = row.revision + 1

(* A step that keeps every agreement keeps those of pages and fetches it leaves alone. *)
LEMMA HeldKept ==
    ASSUME TypeOK, Agreement, Keeps, UNCHANGED <<page, fetch>>
    PROVE  \A q \in Pages : PageAgrees(q)' /\ FetchAgrees(q)'
<1> SUFFICES ASSUME NEW q \in Pages PROVE PageAgrees(q)' /\ FetchAgrees(q)'
  OBVIOUS
<1>1. /\ PageAgrees(q) /\ FetchAgrees(q) /\ page' = page /\ fetch' = fetch
      /\ page[q].revision \in Nat /\ fetch[q].revision \in Nat /\ row.revision \in Nat
  BY DEF Agreement, TypeOK, Views, Fetches, Rows
<1>2. PageAgrees(q)'
  BY <1>1 DEF PageAgrees, Keeps
<1>3. FetchAgrees(q)'
  <2>1. \A r \in Nat : fetch[q].at \in {"row", "file"} /\ r = fetch[q].revision => Past(r)'
    BY <1>1 DEF FetchAgrees, Keeps
  <2>2. \A r \in Nat : \A g :
            fetch[q].at = "file" /\ r = fetch[q].revision /\ g = Shown(fetch[q].graph)
                => Names(r, g)'
    BY <1>1 DEF FetchAgrees, Keeps
  <2>3. fetch[q].at \in {"row", "file"} /\ fetch[q].revision = row'.revision
            => fetch[q].hasSnapshot = row'.hasSnapshot
    BY <1>1 DEF FetchAgrees, Keeps, Past
  <2>4. QED
    BY <1>1, <2>1, <2>2, <2>3 DEF FetchAgrees
<1>4. QED
  BY <1>2, <1>3

(* The reads and the check of an agent: what it carries on with is what is stored. *)
LEMMA AgentQuiet ==
    ASSUME Memory, TypeOK, Serial, Agreement, NEW a \in Agents,
           AgentReadsRow(a) \/ AgentReadsFile(a) \/ AgentChecks(a)
    PROVE  Agreement'
<1>1. CASE AgentReadsRow(a)
  <2>1. Quiet
    BY <1>1 DEF AgentReadsRow, Quiet, Stored, Committed, CallIs, NoCall, TypeOK
  <2>2. AgentAgrees(a)'
    BY <1>1 DEF AgentReadsRow, AgentAgrees, CallIs, NoCall, TypeOK
  <2>3. QED
    BY <1>1, <2>1, <2>2, QuietAgent DEF AgentReadsRow
<1>2. CASE AgentReadsFile(a)
  <2>1. Quiet
    BY <1>2 DEF AgentReadsFile, Quiet, Stored, Committed, CallIs, TypeOK, Calls
  <2>2. ~Stored /\ ~Committed
    BY <1>2, AgentsAndPages DEF AgentReadsFile, Serial, Handling, Stored, Committed
  <2>3. agent[a].revision = row.revision /\ row.revision \in Nat
    BY <1>2 DEF AgentReadsFile, Agreement, AgentAgrees, TypeOK, Rows
  <2>4. Names(agent[a].revision, Content)
    BY <2>2, <2>3 DEF Names, Past
  <2>5. agent'[a] = [agent[a] EXCEPT !.at = "loaded", !.over = Content]
    BY <1>2 DEF AgentReadsFile, CallIs, TypeOK
  <2>6. AgentAgrees(a)'
    BY <2>1, <2>4, <2>5, QuietNames DEF AgentAgrees, TypeOK, Calls
  <2>7. QED
    BY <1>2, <2>1, <2>6, QuietAgent DEF AgentReadsFile
<1>3. CASE AgentChecks(a)
  <2>1. ~Stored /\ ~Committed
    BY <1>3 DEF AgentChecks, MayRun, Handling, Stored, Committed
  <2>2. CASE Exists /\ row.revision = agent[a].revision
    <3>1. PICK new \in Graphs : CallIs(a, [agent[a] EXCEPT !.at = "checked", !.new = new])
      BY <1>3, <2>2 DEF AgentChecks
    <3>2. agent'[a] = [agent[a] EXCEPT !.at = "checked", !.new = new]
      BY <3>1 DEF CallIs, TypeOK
    <3>3. /\ agent'[a].at = "checked" /\ agent'[a].over = agent[a].over
          /\ agent'[a].revision = row.revision
      BY <3>2, <2>2 DEF TypeOK, Calls
    <3>4. Quiet
      BY <1>3, <3>1, <3>3 DEF AgentChecks, Quiet, Stored, Committed, CallIs, TypeOK
    <3>5. agent[a].over = Content
      BY <1>3, <2>1, <2>2 DEF AgentChecks, Agreement, AgentAgrees, Names, Past
    <3>6. AgentAgrees(a)'
      BY <3>3, <3>4, <3>5, QuietNames DEF AgentAgrees, Quiet
    <3>7. QED
      BY <1>3, <3>1, <3>4, <3>6, QuietAgent DEF AgentChecks
  <2>3. CASE ~(Exists /\ row.revision = agent[a].revision)
    <3>1. CallIs(a, NoCall)
      BY <1>3, <2>3 DEF AgentChecks
    <3>2. Quiet
      BY <1>3, <3>1 DEF AgentChecks, Quiet, Stored, Committed, CallIs, NoCall, TypeOK
    <3>3. AgentAgrees(a)'
      BY <3>1 DEF AgentAgrees, CallIs, NoCall, TypeOK
    <3>4. QED
      BY <1>3, <3>1, <3>2, <3>3, QuietAgent DEF AgentChecks
  <2>4. QED
    BY <2>2, <2>3
<1>4. QED
  BY <1>1, <1>2, <1>3

(* The steps that write: the file and then the row of an agent, the row and then *)
(* the file of a page.                                                         *)
LEMMA AgentWrites ==
    ASSUME Memory, TypeOK, Serial, Agreement, NEW a \in Agents,
           AgentStores(a) \/ AgentCommits(a)
    PROVE  Agreement'
<1> USE AgentsAndPages
<1>1. /\ agent[a].revision = row.revision /\ row.revision \in Nat /\ Exists
      /\ ~Committed
      /\ \A b \in Agents : b # a => agent[b].at \notin {"row", "checked", "stored"}
      /\ \A p \in Pages : save[p].at \notin {"checked", "committed"}
  BY DEF AgentStores, AgentCommits, Serial, Handling, Committed, Agreement, AgentAgrees, TypeOK, Rows
<1>2. CASE AgentStores(a) /\ CallIs(a, NoCall) /\ UNCHANGED file
  <2>1. Quiet
    BY <1>1, <1>2 DEF AgentStores, Quiet, Stored, Committed, CallIs, NoCall, TypeOK
  <2>2. AgentAgrees(a)'
    BY <1>2 DEF AgentAgrees, CallIs, NoCall, TypeOK
  <2>3. QED
    BY <1>2, <2>1, <2>2, QuietAgent DEF AgentStores
<1>3. CASE AgentStores(a) /\ CallIs(a, [agent[a] EXCEPT !.at = "stored"])
  <2>1. /\ Stored' /\ ~Committed' /\ UNCHANGED <<row, page, save, fetch>>
        /\ agent' = [agent EXCEPT ![a] = [agent[a] EXCEPT !.at = "stored"]]
    BY <1>1, <1>3 DEF AgentStores, Stored, Committed, CallIs, TypeOK, Calls
  <2>2. /\ \A r : Past(r) => Past(r)'
        /\ \A r, g : Names(r, g) => Names(r, g)'
    BY <2>1 DEF Names, Past
  <2>3. \A p \in Pages : PageAgrees(p)' /\ SaveAgrees(p)' /\ FetchAgrees(p)'
    BY <1>1, <2>1, <2>2 DEF Agreement, PageAgrees, SaveAgrees, FetchAgrees
  <2>4. \A b \in Agents : AgentAgrees(b)'
    BY <1>1, <2>1, <2>2 DEF Agreement, AgentAgrees, TypeOK, Calls
  <2>5. RowAgrees'
    BY <2>1 DEF Agreement, RowAgrees
  <2>6. QED
    BY <2>3, <2>4, <2>5 DEF Agreement
<1>4. CASE AgentCommits(a)
  <2>1. /\ row'.revision = row.revision + 1 /\ row'.hasSnapshot /\ UNCHANGED <<file, page, save, fetch>>
        /\ agent' = [agent EXCEPT ![a] = NoCall]
    BY <1>1, <1>4 DEF AgentCommits, Commits, CallIs, TypeOK, Rows
  <2>2. ~Committed'
    BY <1>1, <2>1 DEF Committed
  <2>3. \A r \in Nat : \A g : r <= row.revision => Names(r, g)'
    BY <1>1, <2>1, <2>2 DEF Names, Past
  <2>4. \A p \in Pages : PageAgrees(p)' /\ SaveAgrees(p)' /\ FetchAgrees(p)'
    <3>1. Keeps
      BY <2>1, <2>3 DEF Keeps, Names, Past
    <3>2. \A p \in Pages : PageAgrees(p)' /\ FetchAgrees(p)'
      BY <2>1, <3>1, HeldKept
    <3>3. \A p \in Pages : SaveAgrees(p) /\ save[p].revision \in Nat
      BY DEF Agreement, TypeOK, Puts
    <3>4. \A p \in Pages : SaveAgrees(p)'
      BY <1>1, <2>1, <3>1, <3>3 DEF SaveAgrees, Keeps
    <3>5. QED
      BY <3>2, <3>4
  <2>5. \A b \in Agents : AgentAgrees(b)'
    <3> SUFFICES ASSUME NEW b \in Agents PROVE AgentAgrees(b)'
      OBVIOUS
    <3>1. agent[b].revision \in Nat /\ AgentAgrees(b)
      BY DEF Agreement, TypeOK, Calls
    <3>2. b # a => agent'[b] = agent[b] /\ agent[b].at \notin {"row", "checked", "stored"}
      BY <1>1, <2>1 DEF TypeOK
    <3>3. b = a => agent'[b].at = "idle"
      BY <2>1 DEF TypeOK, NoCall
    <3>4. QED
      BY <2>3, <3>1, <3>2, <3>3 DEF AgentAgrees, Names, Past
  <2>6. RowAgrees'
    BY <2>1 DEF RowAgrees
  <2>7. QED
    BY <2>4, <2>5, <2>6 DEF Agreement
<1>5. QED
  BY <1>2, <1>3, <1>4 DEF AgentStores

(* A page: the row under the next revision, and then the file. *)
LEMMA PageWrites ==
    ASSUME Memory, TypeOK, Serial, Agreement, NEW p \in Pages,
           PutCommits(p) \/ PutStores(p)
    PROVE  Agreement'
<1> USE AgentsAndPages
<1> save[p] \in Puts /\ row \in Rows
  BY DEF TypeOK
<1>1. /\ row.revision \in Nat /\ Exists /\ ~Stored
      /\ save[p].revision \in Nat /\ save[p].kind # "layer"
      /\ \A a \in Agents : agent[a].at \notin {"row", "checked", "stored"}
      /\ \A q \in Pages : q # p => save[q].at \notin {"checked", "committed"}
      /\ UNCHANGED <<agent, page, fetch>>
  BY DEF PutCommits, PutStores, Serial, Handling, Stored, Agreement, SaveAgrees, Puts, Rows
<1>2. CASE PutCommits(p)
  <2>1. /\ row'.revision = row.revision + 1 /\ row'.hasSnapshot /\ UNCHANGED file
        /\ SaveIs(p, [save[p] EXCEPT !.at = "committed"])
    BY <1>1, <1>2 DEF PutCommits, Commits, Rows, Agreement, SaveAgrees
  <2>2. /\ save'[p] = [save[p] EXCEPT !.at = "committed"]
        /\ \A q \in Pages : q # p => save'[q] = save[q]
    BY <2>1 DEF SaveIs, TypeOK
  <2>3. Committed' /\ ~Stored' /\ Content' = Content
    BY <1>1, <2>1, <2>2 DEF Committed, Stored, Puts, Content
  <2>4. \A r \in Nat : \A g : r <= row.revision => Names(r, g)'
    BY <1>1, <2>1, <2>3 DEF Names, Past
  <2>5. SaveAgrees(p)'
    <3>1. save[p].revision = row.revision /\ save[p].over = Content
      BY <1>1, <1>2 DEF PutCommits, Agreement, SaveAgrees, Names, Past
    <3>2. /\ save'[p].at = "committed" /\ save'[p].over = save[p].over
          /\ save'[p].revision = save[p].revision /\ save'[p].kind = save[p].kind
      BY <2>2 DEF Puts
    <3>3. QED
      BY <1>1, <2>1, <2>3, <3>1, <3>2 DEF SaveAgrees
  <2>6. \A q \in Pages : SaveAgrees(q)'
    <3> SUFFICES ASSUME NEW q \in Pages, q # p PROVE SaveAgrees(q)'
      BY <2>5
    <3>1. SaveAgrees(q) /\ save'[q] = save[q] /\ save[q].revision \in Nat
      BY <2>2 DEF Agreement, TypeOK, Puts
    <3>2. save[q].at \in {"sent", "answered"} => save[q].revision <= row.revision
      BY <3>1 DEF SaveAgrees, Names, Past
    <3>3. QED
      BY <1>1, <2>4, <3>1, <3>2 DEF SaveAgrees
  <2>7. \A q \in Pages : PageAgrees(q)' /\ FetchAgrees(q)'
    BY <1>1, <2>1, <2>4, HeldKept DEF Keeps, Names, Past
  <2>8. \A a \in Agents : AgentAgrees(a)'
    <3> SUFFICES ASSUME NEW a \in Agents PROVE AgentAgrees(a)'
      OBVIOUS
    <3>1. agent[a].revision \in Nat /\ AgentAgrees(a)
      BY DEF Agreement, TypeOK, Calls
    <3>2. QED
      BY <1>1, <2>4, <3>1 DEF AgentAgrees, Names, Past
  <2>9. RowAgrees'
    BY <2>1 DEF RowAgrees
  <2>10. QED
    BY <2>6, <2>7, <2>8, <2>9 DEF Agreement
<1>3. CASE PutStores(p)
  <2>1. /\ save[p].at = "committed" /\ UNCHANGED row
        /\ Committed /\ row.revision = save[p].revision + 1
    BY <1>3 DEF PutStores, Committed, Agreement, SaveAgrees
  <2>2. PICK s : /\ SaveIs(p, s)
                 /\ s = NoSave \/ (/\ s = [save[p] EXCEPT !.at = "answered", !.revision = @ + 1]
                                   /\ file' = save[p].new)
    BY <1>1, <1>3 DEF PutStores
  <2>3. save'[p] = s /\ \A q \in Pages : q # p => save'[q] = save[q]
    BY <2>2 DEF SaveIs, TypeOK
  <2>4. s.at \in {"idle", "answered"} /\ s.kind # "layer"
    <3>1. CASE s = NoSave
      BY <3>1 DEF NoSave
    <3>2. CASE s = [save[p] EXCEPT !.at = "answered", !.revision = @ + 1]
      BY <1>1, <3>2 DEF Puts
    <3>3. QED
      BY <2>2, <3>1, <3>2
  <2>5. ~Committed' /\ ~Stored'
    BY <1>1, <2>3, <2>4 DEF Committed, Stored
  <2>6. \A r \in Nat : \A g : Names(r, g) => Names(r, g)'
    BY <1>1, <2>1, <2>5 DEF Names, Past
  <2>7. SaveAgrees(p)'
    <3>1. s.at = "answered" => s.revision = row.revision /\ s.new = file' /\ file' # NoFile
      <4>1. CASE s = NoSave
        BY <4>1 DEF NoSave
      <4>2. CASE s = [save[p] EXCEPT !.at = "answered", !.revision = @ + 1] /\ file' = save[p].new
        BY <1>1, <2>1, <4>2 DEF Puts
      <4>3. QED
        BY <2>2, <4>1, <4>2
    <3>2. s.at = "answered" => Names(s.revision, s.new)'
      BY <1>1, <2>1, <2>5, <3>1 DEF Names, Past, Content
    <3>3. QED
      BY <2>3, <2>4, <3>2 DEF SaveAgrees
  <2>8. \A q \in Pages : SaveAgrees(q)'
    <3> SUFFICES ASSUME NEW q \in Pages, q # p PROVE SaveAgrees(q)'
      BY <2>7
    <3>1. SaveAgrees(q) /\ save'[q] = save[q] /\ save[q].revision \in Nat
      BY <2>3 DEF Agreement, TypeOK, Puts
    <3>2. QED
      BY <1>1, <2>6, <3>1 DEF SaveAgrees
  <2>9. \A q \in Pages : PageAgrees(q)' /\ FetchAgrees(q)'
    BY <1>1, <2>1, <2>5, <2>6, HeldKept DEF Keeps, Past
  <2>10. \A a \in Agents : AgentAgrees(a)'
    <3> SUFFICES ASSUME NEW a \in Agents PROVE AgentAgrees(a)'
      OBVIOUS
    <3>1. agent[a].revision \in Nat /\ AgentAgrees(a)
      BY DEF Agreement, TypeOK, Calls
    <3>2. QED
      BY <1>1, <2>6, <3>1 DEF AgentAgrees
  <2>11. RowAgrees'
    BY <2>1, <1>1 DEF RowAgrees, Agreement
  <2>12. QED
    BY <2>8, <2>9, <2>10, <2>11 DEF Agreement
<1>4. QED
  BY <1>2, <1>3

(* Only a handler that reads or writes the exploration meets Stored or Committed. *)
LEMMA AtRest == MayRun /\ Memory => ~Stored /\ ~Committed
BY DEF MayRun, Handling, Stored, Committed

(* The steps of a save that write nothing: it is sent, compared, answered, refused. *)
LEMMA SaveQuiet ==
    ASSUME Memory, "layer" \notin Traffic, TypeOK, Serial, Agreement, NEW p \in Pages,
           Save(p) \/ PutChecks(p) \/ PutReturns(p) \/ Refused(p)
    PROVE  Agreement'
<1> page[p] \in Views /\ save[p] \in Puts /\ row \in Rows
  BY DEF TypeOK
<1>1. PageAgrees(p) /\ SaveAgrees(p) /\ FetchAgrees(p)
  BY DEF Agreement
<1>2. CASE Save(p)
  <2>1. PICK kind \in {"save", "quiet"} : save' = [save EXCEPT ![p] = Put(p, page[p], kind, 1)]
    BY <1>2 DEF Save, SaveIs
  <2>2. /\ save'[p] = Put(p, page[p], kind, 1)
        /\ \A q \in Pages : q # p => save'[q] = save[q]
        /\ UNCHANGED <<row, file, agent, page, fetch>>
    BY <1>2, <2>1 DEF Save, TypeOK
  <2>3. /\ save'[p].at = "sent" /\ save'[p].kind = kind
        /\ save'[p].revision = page[p].revision /\ save'[p].over = page[p].base
    BY <2>2 DEF Put
  <2>4. Quiet
    BY <1>2, <2>2, <2>3 DEF Save, Quiet, Stored, Committed
  <2>5. Names(page[p].revision, page[p].base)
    BY <1>1, <1>2 DEF Save, PageAgrees
  <2>6. SaveAgrees(p)'
    BY <2>3, <2>4, <2>5, QuietNames DEF SaveAgrees
  <2>7. PageAgrees(p)' /\ FetchAgrees(p)'
    BY <1>1, <2>2, <2>4, QuietNames DEF PageAgrees, FetchAgrees, Quiet
  <2>8. QED
    BY <2>2, <2>4, <2>6, <2>7, QuietPage
<1>3. CASE PutChecks(p)
  <2>1. PICK s : /\ SaveIs(p, s)
                 /\ \/ s = NoSave
                    \/ s = [save[p] EXCEPT !.at = "refused"]
                    \/ /\ s = [save[p] EXCEPT !.at = "checked", !.revision = row.revision]
                       /\ save[p].kind = "layer" \/ save[p].revision = row.revision
    BY <1>3 DEF PutChecks
  <2>2. /\ save'[p] = s
        /\ \A q \in Pages : q # p => save'[q] = save[q]
        /\ UNCHANGED <<row, file, agent, page, fetch>>
    BY <1>3, <2>1 DEF PutChecks, SaveIs, TypeOK
  <2>3. /\ s.at \in {"idle", "refused", "checked"} /\ s.kind # "layer"
        /\ s.at = "checked" => s.revision = row.revision /\ s.over = save[p].over
                               /\ save[p].revision = row.revision
    <3>1. CASE s = NoSave
      BY <3>1 DEF NoSave
    <3>2. CASE s = [save[p] EXCEPT !.at = "refused"]
      BY <1>1, <3>2 DEF Puts, SaveAgrees
    <3>3. CASE /\ s = [save[p] EXCEPT !.at = "checked", !.revision = row.revision]
               /\ save[p].kind = "layer" \/ save[p].revision = row.revision
      BY <1>1, <3>3 DEF Puts, SaveAgrees
    <3>4. QED
      BY <2>1, <3>1, <3>2, <3>3
  <2>4. Quiet
    BY <1>3, <2>2, <2>3 DEF PutChecks, Quiet, Stored, Committed
  <2>5. Names(save[p].revision, save[p].over)
    BY <1>1, <1>3 DEF PutChecks, SaveAgrees
  <2>6. SaveAgrees(p)'
    BY <2>2, <2>3, <2>4, <2>5, QuietNames DEF SaveAgrees, Quiet
  <2>7. PageAgrees(p)' /\ FetchAgrees(p)'
    BY <1>1, <2>2, <2>4, QuietNames DEF PageAgrees, FetchAgrees, Quiet
  <2>8. QED
    BY <2>2, <2>4, <2>6, <2>7, QuietPage
<1>4. CASE PutReturns(p)
  <2>1. /\ save'[p] = NoSave
        /\ \A q \in Pages : q # p => save'[q] = save[q] /\ page'[q] = page[q]
        /\ UNCHANGED <<row, file, agent, fetch>>
    BY <1>4 DEF PutReturns, SaveIs, PageIs, TypeOK
  <2>2. page'[p] = page[p] \/ (page'[p].revision = save[p].revision /\ page'[p].base = save[p].new)
    BY <1>1, <1>4 DEF PutReturns, PageIs, TypeOK, Views, SaveAgrees
  <2>3. Quiet
    BY <1>4, <2>1 DEF PutReturns, Quiet, Stored, Committed, NoSave
  <2>4. Names(save[p].revision, save[p].new)
    BY <1>1, <1>4 DEF PutReturns, SaveAgrees
  <2>5. PageAgrees(p)'
    BY <1>1, <2>2, <2>3, <2>4, QuietNames DEF PageAgrees
  <2>6. SaveAgrees(p)' /\ FetchAgrees(p)'
    BY <1>1, <2>1, <2>3, QuietNames DEF SaveAgrees, FetchAgrees, Quiet, NoSave
  <2>7. QED
    BY <2>1, <2>3, <2>5, <2>6, QuietPage
<1>5. CASE Refused(p)
  <2>1. /\ save'[p] = NoSave \/ save'[p] = [save[p] EXCEPT !.at = "merging"]
        /\ fetch'[p] = fetch[p] \/ fetch'[p] = Asked
        /\ \A q \in Pages : q # p => save'[q] = save[q] /\ fetch'[q] = fetch[q]
        /\ UNCHANGED <<row, file, agent, page>>
    BY <1>5 DEF Refused, SaveIs, FetchIs, TypeOK
  <2>2. save'[p].at \in {"idle", "merging"} /\ save'[p].kind # "layer"
    BY <1>1, <2>1 DEF NoSave, Puts, SaveAgrees
  <2>3. Quiet
    BY <1>5, <2>1, <2>2 DEF Refused, Quiet, Stored, Committed
  <2>4. PageAgrees(p)' /\ SaveAgrees(p)' /\ FetchAgrees(p)'
    BY <1>1, <2>1, <2>2, <2>3, QuietNames
       DEF PageAgrees, SaveAgrees, FetchAgrees, Quiet, Asked, NoFetch
  <2>5. QED
    BY <2>1, <2>3, <2>4, QuietPage
<1>6. QED
  BY <1>2, <1>3, <1>4, <1>5

(* Opening, editing, polling and fetching: what was read together goes together. *)
LEMMA ViewQuiet ==
    ASSUME Memory, TypeOK, Serial, Agreement, NEW p \in Pages,
           Open(p) \/ Edit(p) \/ FetchRow(p) \/ FetchFile(p) \/ PullFails(p) \/ Polls(p)
    PROVE  Agreement'
<1> page[p] \in Views /\ save[p] \in Puts /\ fetch[p] \in Fetches /\ row \in Rows
  BY DEF TypeOK
<1>1. PageAgrees(p) /\ SaveAgrees(p) /\ FetchAgrees(p)
  BY DEF Agreement
<1>2. CASE Open(p) \/ Edit(p) \/ Polls(p)
  <2>1. /\ \A q \in Pages : q # p => page'[q] = page[q] /\ fetch'[q] = fetch[q]
        /\ UNCHANGED <<row, file, agent, save>>
        /\ fetch'[p] = fetch[p] \/ fetch'[p] = Asked
    BY <1>2 DEF Open, Edit, Polls, Poll, PollAnswered, PollReturns, PageIs, FetchIs, TypeOK
  <2>2. page'[p].at = "open" => /\ page[p].at = "open"
                                /\ page'[p].revision = page[p].revision
                                /\ page'[p].base = page[p].base
    BY <1>2 DEF Open, Edit, Polls, Poll, PollAnswered, PollReturns, PageIs, TypeOK, Views
  <2>3. Quiet
    BY <2>1 DEF Quiet, Stored, Committed
  <2>4. PageAgrees(p)' /\ SaveAgrees(p)' /\ FetchAgrees(p)'
    BY <1>1, <2>1, <2>2, <2>3, QuietNames
       DEF PageAgrees, SaveAgrees, FetchAgrees, Quiet, Asked, NoFetch
  <2>5. QED
    BY <2>1, <2>3, <2>4, QuietPage
<1>3. CASE PullFails(p)
  <2>1. /\ \A q \in Pages : q # p =>
                page'[q] = page[q] /\ fetch'[q] = fetch[q] /\ save'[q] = save[q]
        /\ UNCHANGED <<row, file, agent>>
        /\ fetch'[p] = NoFetch
        /\ save'[p] = save[p] \/ (save[p].at = "merging" /\ save'[p] = NoSave)
    BY <1>3 DEF PullFails, PageIs, FetchIs, SaveIs, TypeOK
  <2>2. page'[p].at = "open" => /\ page[p].at = "open"
                                /\ page'[p].revision = page[p].revision
                                /\ page'[p].base = page[p].base
    BY <1>3 DEF PullFails, PageIs, TypeOK, Views
  <2>3. Quiet
    BY <2>1 DEF Quiet, Stored, Committed, NoSave
  <2>4. PageAgrees(p)' /\ SaveAgrees(p)' /\ FetchAgrees(p)'
    BY <1>1, <2>1, <2>2, <2>3, QuietNames
       DEF PageAgrees, SaveAgrees, FetchAgrees, Quiet, NoSave, NoFetch
  <2>5. QED
    BY <2>1, <2>3, <2>4, QuietPage
<1>4. CASE FetchRow(p)
  <2>1. /\ \A q \in Pages : q # p => fetch'[q] = fetch[q]
        /\ UNCHANGED <<row, file, agent, page, save>>
        /\ fetch'[p] = [NoFetch EXCEPT !.at = "row", !.revision = row.revision,
                                       !.hasSnapshot = row.hasSnapshot]
        /\ ~Stored /\ ~Committed
    BY <1>4, AtRest DEF FetchRow, FetchIs, TypeOK
  <2>2. Quiet
    BY <2>1 DEF Quiet, Stored, Committed
  <2>3. FetchAgrees(p)'
    BY <2>1, <2>2 DEF FetchAgrees, NoFetch, Past, Rows, Quiet
  <2>4. PageAgrees(p)' /\ SaveAgrees(p)'
    BY <1>1, <2>1, <2>2, QuietNames DEF PageAgrees, SaveAgrees, Quiet
  <2>5. QED
    BY <2>1, <2>2, <2>3, <2>4, QuietPage
<1>5. CASE FetchFile(p)
  <2>1. /\ \A q \in Pages : q # p => fetch'[q] = fetch[q]
        /\ UNCHANGED <<row, file, agent, page, save>>
        /\ fetch'[p] = [fetch[p] EXCEPT !.at = "file",
                           !.graph = IF fetch[p].hasSnapshot THEN file ELSE NoFile]
        /\ ~Stored /\ ~Committed
    BY <1>5, AtRest DEF FetchFile, FetchIs, TypeOK
  <2>2. Quiet
    BY <2>1 DEF Quiet, Stored, Committed
  <2>3. /\ fetch'[p].revision = fetch[p].revision /\ fetch'[p].hasSnapshot = fetch[p].hasSnapshot
        /\ fetch'[p].graph = IF fetch[p].hasSnapshot THEN file ELSE NoFile
    BY <2>1 DEF Fetches
  <2>4. /\ Past(fetch[p].revision)
        /\ fetch[p].revision = row.revision => fetch[p].hasSnapshot = row.hasSnapshot
    BY <1>1, <1>5 DEF FetchFile, FetchAgrees
  <2>5. fetch[p].revision = row.revision => Shown(fetch'[p].graph) = Content
    BY <2>1, <2>3, <2>4 DEF Shown, Content, Agreement, RowAgrees
  <2>6. Names(fetch[p].revision, Shown(fetch'[p].graph))
    BY <2>4, <2>5 DEF Names
  <2>7. FetchAgrees(p)'
    BY <2>2, <2>3, <2>4, <2>6, QuietNames DEF FetchAgrees, Quiet
  <2>8. PageAgrees(p)' /\ SaveAgrees(p)'
    BY <1>1, <2>1, <2>2, QuietNames DEF PageAgrees, SaveAgrees, Quiet
  <2>9. QED
    BY <2>1, <2>2, <2>7, <2>8, QuietPage
<1>6. QED
  BY <1>2, <1>3, <1>4, <1>5

(* A page takes over what it fetched, and may send it on as the base of a PUT. *)
LEMMA TakesOver ==
    ASSUME TypeOK, Agreement, NEW p \in Pages, NEW new \in Views, NEW kind \in {"save", "quiet"},
           NEW try, PageIs(p, new), FetchIs(p, NoFetch),
           (save[p].at # "committed" /\ SaveIs(p, Put(p, new, kind, try))) \/ UNCHANGED save,
           Names(new.revision, new.base), UNCHANGED <<row, file, agent>>
    PROVE  Agreement'
<1>1. /\ page'[p] = new /\ fetch'[p] = NoFetch
      /\ \A q \in Pages : q # p => page'[q] = page[q] /\ fetch'[q] = fetch[q] /\ save'[q] = save[q]
      /\ save'[p] = save[p] \/ save'[p] = Put(p, new, kind, try)
      /\ save[p].at # "committed" \/ UNCHANGED save
  BY DEF PageIs, FetchIs, SaveIs, TypeOK
<1>2. SaveAgrees(p)
  BY DEF Agreement
<1>3. Quiet
  BY <1>1 DEF Quiet, Stored, Committed, Put
<1>4. PageAgrees(p)'
  BY <1>1, <1>3, QuietNames DEF PageAgrees
<1>5. FetchAgrees(p)'
  BY <1>1 DEF FetchAgrees, NoFetch
<1>6. SaveAgrees(p)'
  <2>1. CASE save'[p] = save[p]
    BY <1>2, <1>3, <2>1, QuietNames DEF SaveAgrees, Quiet
  <2>2. CASE save'[p] = Put(p, new, kind, try)
    <3>1. /\ save'[p].at = "sent" /\ save'[p].kind = kind
          /\ save'[p].revision = new.revision /\ save'[p].over = new.base
      BY <2>2 DEF Put
    <3>2. QED
      BY <1>3, <3>1, QuietNames DEF SaveAgrees
  <2>3. QED
    BY <1>1, <2>1, <2>2
<1>7. QED
  BY <1>1, <1>3, <1>4, <1>5, <1>6, QuietPage

(* loadExploration takes over a row and a file that agree. *)
LEMMA LoadedAgrees ==
    ASSUME Memory, TypeOK, SavesOpen, Agreement, NEW p \in Pages, Loaded(p)
    PROVE  Agreement'
<1> DEFINE base == IF fetch[p].graph = NoFile THEN Empty ELSE fetch[p].graph
           new(pulled) == [at |-> "open", revision |-> fetch[p].revision, canvas |-> pulled,
                          base |-> base]
<1>1. fetch[p] \in Fetches /\ base = Shown(fetch[p].graph) /\ base \in Graphs
  BY GraphTypes DEF TypeOK, Shown, Fetches
<1>2. PICK pulled \in Graphs :
          /\ PageIs(p, new(pulled))
          /\ SaveIs(p, Put(p, new(pulled), "quiet", 1)) \/ UNCHANGED save
  <2>1. (IF fetch[p].graph = NoFile THEN Graphs ELSE {fetch[p].graph}) \subseteq Graphs
    BY <1>1 DEF Fetches
  <2>2. QED
    BY <2>1 DEF Loaded
<1>3. new(pulled) \in Views
  BY <1>1 DEF Views, Fetches
<1>4. Names(new(pulled).revision, new(pulled).base)
  BY <1>1 DEF Loaded, Agreement, FetchAgrees
<1>5. FetchIs(p, NoFetch) /\ UNCHANGED <<row, file, agent>>
  BY DEF Loaded
<1>6. save[p].at = "idle"
  BY DEF Loaded, SavesOpen
<1> HIDE DEF new
<1>7. QED
  BY <1>2, <1>3, <1>4, <1>5, <1>6, TakesOver

(* pullRemoteChange does, and the save that waited names the graph it was merged with. *)
LEMMA PulledAgrees ==
    ASSUME Memory, TypeOK, Serial, Agreement, NEW p \in Pages, Pulled(p)
    PROVE  Agreement'
<1> DEFINE remote == IF fetch[p].hasSnapshot THEN fetch[p].graph ELSE page[p].base
           new == [page[p] EXCEPT !.revision = fetch[p].revision, !.base = remote,
                                  !.canvas = Merge(@, page[p].base, remote)]
<1>1. /\ page[p] \in Views /\ fetch[p] \in Fetches /\ save[p] \in Puts /\ row.revision \in Nat
      /\ page[p].revision \in Nat /\ fetch[p].revision \in Nat
  BY DEF TypeOK, Views, Fetches, Rows
<1>2. remote \in Graphs
  BY <1>1 DEF Pulled, Views, Fetches
<1>3. new \in Views /\ new.revision = fetch[p].revision /\ new.base = remote
  <2>1. Merge(page[p].canvas, page[p].base, remote) \in Graphs
    BY <1>1, <1>2, GraphTypes DEF Views
  <2>2. QED
    BY <1>1, <1>2, <2>1 DEF Views
<1>4. /\ Past(fetch[p].revision) /\ Names(fetch[p].revision, Shown(fetch[p].graph))
      /\ fetch[p].revision = row.revision => fetch[p].hasSnapshot = row.hasSnapshot
      /\ page[p].at = "open" /\ Names(page[p].revision, page[p].base)
      /\ row.revision > 0 => row.hasSnapshot
  BY DEF Pulled, Agreement, FetchAgrees, PageAgrees, RowAgrees
<1>5. Names(fetch[p].revision, remote)
  <2>1. CASE fetch[p].hasSnapshot
    <3>1. fetch[p].graph # NoFile
      BY <2>1 DEF Pulled
    <3>2. Shown(fetch[p].graph) = remote
      BY <2>1, <3>1 DEF Shown
    <3>3. QED
      BY <1>4, <3>2
  <2>2. CASE ~fetch[p].hasSnapshot
    <3>1. fetch[p].revision = row.revision => row.revision = 0 /\ page[p].revision = 0
      BY <1>1, <1>4, <2>2 DEF Names, Past
    <3>2. QED
      BY <1>4, <2>2, <3>1 DEF Names
  <2>3. QED
    BY <2>1, <2>2
<1>6. PICK kind \in {"save", "quiet"} : kind = save[p].kind
  BY <1>1 DEF Agreement, SaveAgrees, Puts
<1>7. /\ PageIs(p, new) /\ FetchIs(p, NoFetch) /\ UNCHANGED <<row, file, agent>>
      /\ (save[p].at # "committed" /\ SaveIs(p, Put(p, new, kind, 2))) \/ UNCHANGED save
  BY <1>6 DEF Pulled
<1> HIDE DEF new, remote
<1>8. QED
  BY <1>3, <1>5, <1>7, TakesOver

(* Every step keeps the agreement while the exploration is kept. *)
LEMMA AgreementKept ==
    ASSUME Memory, "layer" \notin Traffic, IInv, [Next]_vars, Exists'
    PROVE  Agreement'
<1>1. Exists
  BY DEF Next, AgentStep, Answers, Polls, vars, AgentReadsRow, AgentReadsFile, AgentChecks, AgentStores,
     AgentCommits, PutChecks, PutCommits, PutStores, DeleteRow, DeleteFile, Open, Edit, Save, PutReturns,
     Refused, Poll, PollAnswered, PollReturns, FetchRow, FetchFile, Loaded, Pulled, PullFails, Exists,
     IInv, TypeOK, Rows
<1>2. TypeOK /\ Serial /\ SavesOpen /\ Agreement
  BY <1>1 DEF IInv
<1>3. CASE UNCHANGED vars
  <2>1. Quiet
    BY <1>3 DEF vars, Quiet, Stored, Committed
  <2>2. QED
    BY <1>2, <1>3, <2>1, QuietNames
       DEF vars, Agreement, PageAgrees, SaveAgrees, FetchAgrees, AgentAgrees, Quiet
<1>4. ~DeleteRow /\ ~DeleteFile
  BY <1>1 DEF DeleteRow, DeleteFile, Exists, IInv, TypeOK, Rows
<1>5. QED
  BY <1>2, <1>3, <1>4, AgentQuiet, AgentWrites, PageWrites, SaveQuiet, ViewQuiet, LoadedAgrees,
     PulledAgrees DEF Next, AgentStep, Answers

(* Only a page that shows the exploration has a save under way. *)
LEMMA SavesOpenKept ==
    ASSUME TypeOK, SavesOpen, [Next]_vars
    PROVE  SavesOpen'
<1>1. ASSUME NEW a \in Agents, AgentReadsRow(a) \/ AgentStep(a) PROVE SavesOpen'
  BY <1>1 DEF AgentStep, AgentReadsRow, AgentReadsFile, AgentChecks, AgentStores, AgentCommits, SavesOpen
<1>2. ASSUME NEW p \in Pages, Open(p) \/ Edit(p) \/ FetchRow(p) \/ FetchFile(p) \/ Polls(p)
      PROVE  SavesOpen'
  BY <1>2 DEF Open, Edit, FetchRow, FetchFile, Polls, Poll, PollAnswered, PollReturns, PageIs, SavesOpen,
     TypeOK, Views
<1>3. ASSUME NEW p \in Pages,
             Save(p) \/ PutChecks(p) \/ PutCommits(p) \/ PutStores(p) \/ Refused(p)
      PROVE  SavesOpen'
  <2>1. page[p].at = "open" /\ page' = page
    BY <1>3 DEF Save, PutChecks, PutCommits, PutStores, Refused, SavesOpen
  <2>2. \A q \in Pages : q # p => save'[q] = save[q]
    BY <1>3 DEF Save, PutChecks, PutCommits, PutStores, Refused, SaveIs, TypeOK
  <2>3. QED
    BY <2>1, <2>2 DEF SavesOpen
<1>4. ASSUME NEW p \in Pages, PutReturns(p) PROVE SavesOpen'
  BY <1>4 DEF PutReturns, PageIs, SaveIs, NoSave, SavesOpen, TypeOK, Views
<1>5. ASSUME NEW p \in Pages, Loaded(p) PROVE SavesOpen'
  <2>1. page'[p].at = "open"
    BY <1>5 DEF Loaded, PageIs, TypeOK
  <2>2. \A q \in Pages : q # p => save'[q] = save[q] /\ page'[q] = page[q]
    BY <1>5 DEF Loaded, PageIs, SaveIs, TypeOK
  <2>3. QED
    BY <2>1, <2>2 DEF SavesOpen
<1>6. ASSUME NEW p \in Pages, Pulled(p) PROVE SavesOpen'
  <2>1. page'[p].at = "open"
    BY <1>6 DEF Pulled, PageIs, TypeOK, Views
  <2>2. \A q \in Pages : q # p => save'[q] = save[q] /\ page'[q] = page[q]
    BY <1>6 DEF Pulled, PageIs, SaveIs, TypeOK
  <2>3. QED
    BY <2>1, <2>2 DEF SavesOpen
<1>7. ASSUME NEW p \in Pages, PullFails(p) PROVE SavesOpen'
  BY <1>7 DEF PullFails, PageIs, SaveIs, NoSave, SavesOpen, TypeOK, Views
<1>8. CASE DeleteRow \/ DeleteFile \/ UNCHANGED vars
  BY <1>8 DEF DeleteRow, DeleteFile, vars, SavesOpen
<1>9. QED
  BY <1>1, <1>2, <1>3, <1>4, <1>5, <1>6, <1>7, <1>8 DEF Next, Answers

(* A new exploration starts with the invariant. *)
LEMMA IInvInit == Init => IInv
<1> SUFFICES ASSUME Init PROVE IInv
  OBVIOUS
<1>1. Handling = {} /\ ~Stored /\ ~Committed
  BY DEF Init, Handling, Stored, Committed, NoCall, NoSave
<1>2. Serial /\ SavesOpen
  BY <1>1 DEF Serial, SavesOpen, Init, NoSave
<1>3. RowAgrees
  BY <1>1 DEF RowAgrees, Init
<1>4. \A p \in Pages : PageAgrees(p) /\ SaveAgrees(p) /\ FetchAgrees(p)
  BY DEF Init, PageAgrees, SaveAgrees, FetchAgrees, NoSave, NoFetch
<1>5. \A a \in Agents : AgentAgrees(a)
  BY DEF Init, AgentAgrees, NoCall
<1>6. QED
  BY <1>2, <1>3, <1>4, <1>5, InitTypes DEF IInv, Agreement

(* Whatever pages and agents do, the types are kept. *)
THEOREM TypeCorrect == Spec => []TypeOK
<1>1. TypeOK /\ [Next]_vars => TypeOK'
  BY StepTypes
<1>2. QED
  BY InitTypes, <1>1, PTL DEF Spec

(* The invariant holds throughout. *)
LEMMA Inductive ==
    ASSUME Memory, "layer" \notin Traffic
    PROVE  Spec => []IInv
<1>1. IInv /\ [Next]_vars => IInv'
  BY StepTypes, SerialKept, SavesOpenKept, AgreementKept DEF IInv
<1>2. QED
  BY IInvInit, <1>1, PTL DEF Spec

(* A page that holds the current revision holds the graph of that revision, for  *)
(* any number of pages and agents (useLiveRevision.ts, _check_revision).         *)
THEOREM RevisionsNameGraphs ==
    ASSUME Memory, "layer" \notin Traffic
    PROVE  Spec => []RevisionNamesGraph
<1>1. IInv => RevisionNamesGraph
  <2> SUFFICES ASSUME IInv, Resting, NEW p \in Pages, page[p].at = "open",
                      page[p].revision = row.revision
               PROVE  page[p].base = Content
    BY DEF RevisionNamesGraph
  <2>1. ~Stored /\ PageAgrees(p)
    BY DEF Resting, IInv, Agreement, Handling, Stored
  <2>2. QED
    BY <2>1 DEF PageAgrees, Names
<1>2. QED
  BY <1>1, Inductive, PTL

(* The file a save replaces is the one its writer has read or merged             *)
(* (exploration_graph.save, putExploration).                                     *)
THEOREM NobodySavesBlindly ==
    ASSUME Memory, "layer" \notin Traffic
    PROVE  Spec => NoBlindSave
<1> DEFINE Blind ==
        /\ \A a \in Agents : agent[a].at = "checked" /\ agent'[a].at = "stored"
               => agent[a].over = Content
        /\ \A p \in Pages : save[p].at = "committed" /\ save'[p].at = "answered"
                            /\ save[p].kind # "layer"
               => save[p].over = Content
<1>1. IInv /\ [Next]_vars => [Blind]_vars
  <2> SUFFICES ASSUME IInv PROVE Blind
    OBVIOUS
  <2>1. ASSUME NEW a \in Agents, agent[a].at = "checked" PROVE agent[a].over = Content
    BY <2>1 DEF IInv, Serial, Handling, Agreement, AgentAgrees
  <2>2. ASSUME NEW p \in Pages, save[p].at = "committed" PROVE save[p].over = Content
    BY <2>2 DEF IInv, Serial, Handling, Agreement, SaveAgrees
  <2>3. QED
    BY <2>1, <2>2
<1>2. QED
  BY <1>1, Inductive, PTL DEF Spec, NoBlindSave

-------------------------------------------------------------------------------
(* The queries of the view *)

Active(c) == call[c].pc \in {"submitting", "submitted", "polling", "polled"}

\* Every run has a token of its own, and none that is not given out.
Tokens ==
    /\ \A c \in Q!Calls : call[c].token <= runToken
    /\ \A c, d \in Q!Calls :
          call[c].pc # "idle" /\ call[d].pc # "idle" /\ call[c].token = call[d].token => c = d

\* The refs tell of the latest run, as long as it is one.
RefsTell ==
    /\ cq.loading => \E c \in Q!Calls : Active(c) /\ Q!Fresh(c)
    /\ \A c \in Q!Calls : Active(c) /\ Q!Fresh(c) =>
          /\ cq.loading
          /\ cq.job = IF call[c].pc \in {"submitting", "submitted"} THEN Q!NoJob ELSE Q!JobOf(c)

\* No job is registered before its submit arrives.
Unborn ==
    \A c \in Q!Calls :
        /\ call[c].pc = "idle" => call[c].attempt = 1
        /\ call[c].pc \in {"idle", "submitting"} => state[Q!JobOf(c)] = "none"
        /\ call[c].pc = "submitted" /\ call[c].reply = "error" => state[Q!JobOf(c)] = "none"
        /\ call[c].attempt = 1 => state[<<c, 2>>] = "none"

\* What was stopped had been started, and is not the latest run.
StoppedBefore ==
    \A j \in stopped :
        /\ call[j[1]].pc # "idle" /\ j[2] <= call[j[1]].attempt
        /\ j = Q!JobOf(j[1]) => call[j[1]].token < runToken

\* A stopped run lost its token with the cancel, so that its own answers draw
\* nothing, and RefsTell keeps the Cancel button on the run the user sees: the
\* cancel request it sends, or the submit still on its way, ends the right job.
QueriesInv == Q!TypeOK /\ Tokens /\ RefsTell /\ Unborn /\ StoppedBefore

-------------------------------------------------------------------------------
\* Types, one part of the state at a time.

CallState ==
    [pc : {"idle", "submitting", "submitted", "polling", "polled", "over"},
     covers : NodeSets, attempt : {1, 2}, token : Nat, drawn : BOOLEAN, reply : Q!Replies]

RefStates == [loading : BOOLEAN, job : Q!Jobs \cup {Q!NoJob}, canceled : BOOLEAN]

ScreenTypes ==
    /\ screen \in [edges : Q!Calls \cup {Q!Nobody}, nodes : Q!Calls \cup {Q!Nobody}]
    /\ partialNodeIds \in NodeSets \cup {NoNodes}

ServerTypes ==
    /\ state \in [Q!Jobs -> {"none", "running", "succeeded", "failed", "canceled"}]
    /\ partial \in [Q!Jobs -> BOOLEAN]

ClientTypes ==
    /\ runToken \in Nat /\ cq \in RefStates
    /\ ui \in [loading : BOOLEAN, error : Q!Calls \cup {Q!Nobody}]
    /\ call \in [Q!Calls -> CallState]

CancelTypes ==
    /\ cancels \subseteq [job : Q!Jobs, stage : {"sent", "answered"}, awaited : BOOLEAN]
    /\ stopped \subseteq Q!Jobs

LEMMA Parts ==
    Q!TypeOK <=> ServerTypes /\ ClientTypes /\ ScreenTypes /\ CancelTypes
<1>1. [j \in Q!Jobs |-> <<0, 0>>] \in [Q!Jobs -> Nat \X Nat]
  OBVIOUS
<1>2. Q!Job!TypeOK <=> ServerTypes
  BY <1>1 DEF Q!Job!TypeOK, ServerTypes, Q!Job!Terminal
<1>3. QED
  BY <1>2 DEF Q!TypeOK, ClientTypes, ScreenTypes, CancelTypes, CallState, RefStates

LEMMA PartsNext ==
    Q!TypeOK' <=> ServerTypes' /\ ClientTypes' /\ ScreenTypes' /\ CancelTypes'
BY Parts, PTL

LEMMA Numbers ==
    /\ Q!Calls \subseteq Nat /\ \A c \in Q!Calls : <<c, 1>> \in Q!Jobs /\ <<c, 2>> \in Q!Jobs
    /\ \A j \in Q!Jobs : j[1] \in Q!Calls /\ j[2] \in {1, 2} /\ j = <<j[1], j[2]>>
    /\ Q!NoJob \notin Q!Jobs /\ Q!Nobody \notin Q!Calls
BY DEF Q!Calls, Q!Jobs, Q!NoJob, Q!Nobody

LEMMA JobsOfCalls ==
    ASSUME ClientTypes, NEW c \in Q!Calls
    PROVE  /\ Q!JobOf(c) \in Q!Jobs /\ Q!JobOf(c)[1] = c /\ Q!JobOf(c)[2] = call[c].attempt
           /\ Q!JobOf(c) # Q!NoJob
<1>1. call[c].attempt \in {1, 2}
  BY DEF ClientTypes, CallState
<1>2. QED
  BY <1>1, Numbers DEF Q!JobOf

-------------------------------------------------------------------------------
\* A run starts, and a call is over.

LEMMA RunStarts ==
    ASSUME QueriesInv, NEW c \in Q!Calls, NEW attempt \in {1, 2}, Q!StartsRun(c, attempt),
           \/ attempt = 1 /\ call[c].pc = "idle"
           \/ attempt = 2 /\ call[c].pc # "idle" /\ call[c].attempt = 1,
           ui' \in [loading : BOOLEAN, error : Q!Calls \cup {Q!Nobody}],
           UNCHANGED <<Q!server, stopped>>
    PROVE  ClientTypes' /\ Tokens' /\ RefsTell' /\ Unborn' /\ StoppedBefore'
<1>. USE DEF QueriesInv
<1>1. ServerTypes /\ ClientTypes /\ ScreenTypes /\ CancelTypes
  BY Parts
<1>2. /\ runToken \in Nat /\ call \in [Q!Calls -> CallState]
      /\ runToken' = runToken + 1
      /\ cq' = [loading |-> TRUE, job |-> Q!NoJob, canceled |-> FALSE]
      /\ state' = state /\ stopped' = stopped
  BY <1>1 DEF ClientTypes, Q!StartsRun, Q!server
<1>3. /\ call' \in [Q!Calls -> CallState]
      /\ \A d \in Q!Calls : d # c => call'[d] = call[d]
      /\ call'[c].pc = "submitting" /\ call'[c].attempt = attempt
      /\ call'[c].token = runToken + 1 /\ call'[c].reply = "none"
  <2>. PICK q \in CallState : q = call[c]
    BY <1>2
  <2>. PICK n \in Nat : n = runToken + 1
    BY <1>2
  <2>. PICK w : w = [q EXCEPT !.pc = "submitting", !.attempt = attempt, !.token = n,
                              !.drawn = FALSE, !.reply = "none"]
    OBVIOUS
  <2>1. /\ w \in CallState /\ w.pc = "submitting" /\ w.attempt = attempt
        /\ w.token = n /\ w.reply = "none"
    BY DEF CallState, Q!Replies
  <2>2. call' = [call EXCEPT ![c] = w]
    BY <1>2 DEF Q!StartsRun
  <2>3. QED
    BY <1>2, <2>1, <2>2
<1>4. ClientTypes'
  BY <1>2, <1>3 DEF ClientTypes, RefStates
<1>5. \A d \in Q!Calls : call[d].token \in Nat /\ call[d].token <= runToken
  BY <1>2 DEF CallState, Tokens
<1>6. Tokens'
  BY <1>2, <1>3, <1>5 DEF Tokens
<1>7. \A d \in Q!Calls : Q!Fresh(d)' => d = c
  BY <1>2, <1>3, <1>5 DEF Q!Fresh
<1>8. RefsTell'
  BY <1>2, <1>3, <1>7 DEF RefsTell, Active, Q!Fresh
<1>9. Unborn'
  BY <1>2, <1>3 DEF Unborn, Q!JobOf
<1>10. stopped \subseteq Q!Jobs
  BY <1>1 DEF CancelTypes
<1>11. ASSUME NEW j \in stopped
       PROVE  /\ call'[j[1]].pc # "idle" /\ j[2] <= call'[j[1]].attempt
              /\ j = Q!JobOf(j[1])' => call'[j[1]].token < runToken'
  <2>1. j[1] \in Q!Calls /\ j[2] \in {1, 2} /\ call[j[1]].pc # "idle" /\ j[2] <= call[j[1]].attempt
    BY <1>10, <1>11, Numbers DEF StoppedBefore
  <2>2. CASE j[1] = c
    <3>1. attempt = 2 /\ j[2] = 1
      BY <2>1, <2>2
    <3>2. QED
      BY <1>3, <2>1, <2>2, <3>1 DEF Q!JobOf
  <2>3. CASE j[1] # c
    BY <1>2, <1>3, <1>5, <2>1, <2>3 DEF Q!JobOf
  <2>4. QED
    BY <2>2, <2>3
<1>12. QED
  BY <1>2, <1>4, <1>6, <1>8, <1>9, <1>11 DEF StoppedBefore

LEMMA CallEnds ==
    ASSUME QueriesInv, NEW c \in Q!Calls, Active(c), call[c].pc # "submitting",
           NEW refs, refs = cq \/ (Q!Fresh(c) /\ refs = [cq EXCEPT !.canceled = TRUE]),
           runToken' = runToken, cq' = Q!Settled(c, refs),
           ui' \in [loading : BOOLEAN, error : Q!Calls \cup {Q!Nobody}],
           call' = [call EXCEPT ![c].pc = "over", ![c].reply = "none"],
           UNCHANGED <<Q!server, stopped>>
    PROVE  ClientTypes' /\ Tokens' /\ RefsTell' /\ Unborn' /\ StoppedBefore'
<1>. USE DEF QueriesInv
<1>1. ServerTypes /\ ClientTypes /\ ScreenTypes /\ CancelTypes
  BY Parts
<1>2. /\ runToken \in Nat /\ call \in [Q!Calls -> CallState] /\ cq \in RefStates
      /\ state' = state /\ stopped' = stopped
  BY <1>1 DEF ClientTypes, Q!server
<1>3. /\ call' \in [Q!Calls -> CallState]
      /\ \A d \in Q!Calls : d # c => call'[d] = call[d]
      /\ call'[c].pc = "over"
      /\ \A d \in Q!Calls : /\ call'[d].attempt = call[d].attempt
                            /\ call'[d].token = call[d].token
  <2>. PICK q \in CallState : q = call[c]
    BY <1>2
  <2>. PICK w : w = [q EXCEPT !.pc = "over", !.reply = "none"]
    OBVIOUS
  <2>1. w \in CallState /\ w.pc = "over" /\ w.attempt = q.attempt /\ w.token = q.token
    BY DEF CallState, Q!Replies
  <2>2. call' = [call EXCEPT ![c] = w]
    OBVIOUS
  <2>3. QED
    BY <1>2, <2>1, <2>2
<1>4. /\ cq' \in RefStates
      /\ Q!Fresh(c) => ~cq'.loading
      /\ ~Q!Fresh(c) => cq' = cq
  BY <1>2 DEF Q!Settled, RefStates
<1>5. ClientTypes'
  BY <1>2, <1>3, <1>4 DEF ClientTypes
<1>6. Tokens'
  BY <1>3, Active(c) DEF Tokens, Active
<1>7. \A d \in Q!Calls : /\ Active(d)' => d # c /\ Active(d)
                         /\ Q!Fresh(d)' <=> Q!Fresh(d)
                         /\ Q!JobOf(d)' = Q!JobOf(d)
  BY <1>3 DEF Active, Q!Fresh, Q!JobOf
<1>8. \A d \in Q!Calls : Active(d) /\ Q!Fresh(d) /\ Q!Fresh(c) => d = c
  BY DEF Tokens, Active, Q!Fresh
<1>9. RefsTell'
  <2>1. CASE Q!Fresh(c)
    BY <1>4, <1>7, <1>8, <2>1 DEF RefsTell
  <2>2. CASE ~Q!Fresh(c)
    <3>1. \A d \in Q!Calls : Active(d) /\ Q!Fresh(d) => Active(d)' /\ call'[d].pc = call[d].pc
      BY <1>3, <2>2 DEF Active
    <3>2. \A d \in Q!Calls : Active(d)' => call'[d].pc = call[d].pc
      BY <1>3, <1>7
    <3>3. QED
      BY <1>4, <1>7, <2>2, <3>1, <3>2 DEF RefsTell
  <2>3. QED
    BY <2>1, <2>2
<1>10. Unborn'
  BY <1>2, <1>3 DEF Unborn, Q!JobOf
<1>11. StoppedBefore'
  <2>1. stopped \subseteq Q!Jobs /\ \A j \in stopped : j[1] \in Q!Calls
    BY <1>1, Numbers DEF CancelTypes
  <2>2. QED
    BY <1>2, <1>3, <1>7, <2>1 DEF StoppedBefore
<1>12. QED
  BY <1>5, <1>6, <1>9, <1>10, <1>11

LEMMA Comes ==
    ASSUME QueriesInv, NEW c \in Q!Calls, Active(c), call[c].pc # "submitting",
           NEW refs, refs = cq \/ (Q!Fresh(c) /\ refs = [cq EXCEPT !.canceled = TRUE]),
           NEW error \in Q!Calls \cup {Q!Nobody}, Q!Returns(c, refs, error),
           UNCHANGED <<Q!server, stopped>>
    PROVE  ClientTypes' /\ Tokens' /\ RefsTell' /\ Unborn' /\ StoppedBefore'
<1>1. ui \in [loading : BOOLEAN, error : Q!Calls \cup {Q!Nobody}]
  BY DEF QueriesInv, Q!TypeOK
<1>2. CASE /\ call[c].attempt = 1 /\ Q!StartsRun(c, 2)
           /\ ui' = [ui EXCEPT !.error = Q!Nobody]
  BY <1>1, <1>2, RunStarts DEF Active
<1>3. CASE /\ cq' = Q!Settled(c, refs) /\ ui' = [loading |-> FALSE, error |-> error]
           /\ call' = [call EXCEPT ![c].pc = "over", ![c].reply = "none"]
           /\ UNCHANGED runToken
  <2>1. ui' \in [loading : BOOLEAN, error : Q!Calls \cup {Q!Nobody}] /\ runToken' = runToken
    BY <1>3
  <2>2. QED
    BY <1>3, <2>1, CallEnds
<1>4. QED
  BY <1>2, <1>3 DEF Q!Returns

-------------------------------------------------------------------------------
\* One step of the calls, the server and the user.

LEMMA QueriesInit == Q!Init => QueriesInv
<1>. SUFFICES ASSUME Q!Init PROVE QueriesInv
  OBVIOUS
<1>1. state = [j \in Q!Jobs |-> "none"] /\ partial = [j \in Q!Jobs |-> FALSE]
  BY DEF Q!Init, Q!Job!Init
<1>2. ServerTypes
  BY <1>1 DEF ServerTypes
<1>3. /\ call \in [Q!Calls -> CallState]
      /\ \A c \in Q!Calls : call[c].pc = "idle" /\ call[c].attempt = 1 /\ call[c].token = 0
  <2>1. call \in [Q!Calls -> [pc : {"idle"}, covers : NodeSets, attempt : {1}, token : {0},
                            drawn : {FALSE}, reply : {"none"}]]
    BY DEF Q!Init
  <2>2. \A q \in [pc : {"idle"}, covers : NodeSets, attempt : {1}, token : {0},
                  drawn : {FALSE}, reply : {"none"}] :
           q \in CallState /\ q.pc = "idle" /\ q.attempt = 1 /\ q.token = 0
    <3>1. "none" \in Q!Replies /\ 0 \in Nat
      BY DEF Q!Replies
    <3>2. QED
      BY <3>1 DEF CallState
  <2>3. QED
    BY <2>1, <2>2
<1>4. Q!TypeOK
  BY <1>2, <1>3, Parts DEF Q!Init, ClientTypes, RefStates, ScreenTypes, CancelTypes
<1>5. Tokens /\ RefsTell
  BY <1>3 DEF Q!Init, Tokens, RefsTell, Active
<1>6. Unborn
  BY <1>1, <1>3, Numbers DEF Unborn, Q!JobOf
<1>7. QED
  BY <1>4, <1>5, <1>6 DEF Q!Init, QueriesInv, StoppedBefore

LEMMA ExecuteKeeps == ASSUME QueriesInv, NEW c \in Q!Calls, Q!Execute(c) PROVE QueriesInv'
<1>1. ServerTypes /\ ClientTypes /\ ScreenTypes /\ CancelTypes
  BY Parts DEF QueriesInv
<1>2. /\ call[c].pc = "idle" /\ Q!StartsRun(c, 1)
      /\ ui' \in [loading : BOOLEAN, error : Q!Calls \cup {Q!Nobody}]
      /\ UNCHANGED <<Q!server, stopped>>
  BY DEF Q!Execute
<1>3. ClientTypes' /\ Tokens' /\ RefsTell' /\ Unborn' /\ StoppedBefore'
  BY <1>2, RunStarts
<1>4. ServerTypes' /\ ScreenTypes' /\ CancelTypes'
  BY <1>1 DEF Q!Execute, Q!server, ServerTypes, ScreenTypes, CancelTypes
<1>5. QED
  BY <1>3, <1>4, PartsNext DEF QueriesInv

\* The call goes on, and none of it counts for the refs or the jobs.
LEMMA GoesOn ==
    ASSUME QueriesInv, NEW c \in Q!Calls, Active(c), NEW w \in CallState,
           call' = [call EXCEPT ![c] = w],
           w.token = call[c].token, w.attempt = call[c].attempt,
           w.pc \in {"submitted", "polling", "polled"},
           cq' \in RefStates, runToken' = runToken, ui' = ui, stopped' = stopped,
           \A d \in Q!Calls \ {c} : Active(d) /\ Q!Fresh(d) => cq' = cq,
           cq'.loading = cq.loading,
           Q!Fresh(c) => cq'.job = (IF w.pc = "submitted" THEN Q!NoJob ELSE Q!JobOf(c)),
           \A j \in Q!Jobs : j # Q!JobOf(c) => state'[j] = state[j],
           w.pc = "submitted" /\ w.reply = "error" => state'[Q!JobOf(c)] = "none"
    PROVE  ClientTypes' /\ Tokens' /\ RefsTell' /\ Unborn' /\ StoppedBefore'
<1>. USE DEF QueriesInv
<1>1. ServerTypes /\ ClientTypes /\ ScreenTypes /\ CancelTypes
  BY Parts
<1>2. runToken \in Nat /\ call \in [Q!Calls -> CallState] /\ cq \in RefStates
  BY <1>1 DEF ClientTypes
<1>3. /\ call' \in [Q!Calls -> CallState] /\ call'[c] = w
      /\ \A d \in Q!Calls : d # c => call'[d] = call[d]
      /\ \A d \in Q!Calls : /\ call'[d].attempt = call[d].attempt
                            /\ call'[d].token = call[d].token
  BY <1>2
<1>4. \A d \in Q!Calls : Q!Fresh(d)' = Q!Fresh(d) /\ Q!JobOf(d)' = Q!JobOf(d)
  BY <1>3 DEF Q!Fresh, Q!JobOf
<1>5. \A d \in Q!Calls : (Active(d)' <=> Active(d)) /\ (call'[d].pc # "idle" <=> call[d].pc # "idle")
  BY <1>3 DEF Active
<1>6. ClientTypes'
  BY <1>1, <1>3 DEF ClientTypes
<1>7. Tokens'
  BY <1>3, <1>5 DEF Tokens
<1>8. RefsTell'
  <2>1. ASSUME NEW d \in Q!Calls, Active(d), Q!Fresh(d)
        PROVE  /\ cq'.loading
               /\ cq'.job = IF call'[d].pc \in {"submitting", "submitted"} THEN Q!NoJob ELSE Q!JobOf(d)
    <3>1. CASE d = c
      BY <1>3, <2>1, <3>1 DEF RefsTell
    <3>2. CASE d # c
      <4>1. cq' = cq
        BY <2>1, <3>2
      <4>2. QED
        BY <1>3, <2>1, <3>2, <4>1 DEF RefsTell
    <3>3. QED
      BY <3>1, <3>2
  <2>2. cq'.loading => \E d \in Q!Calls : Active(d)' /\ Q!Fresh(d)'
    BY <1>4, <1>5 DEF RefsTell
  <2>3. QED
    BY <1>4, <1>5, <2>1, <2>2 DEF RefsTell
<1>9. Unborn'
  <2>1. ASSUME NEW d \in Q!Calls, d # c
        PROVE  state'[Q!JobOf(d)] = state[Q!JobOf(d)] /\ state'[<<d, 2>>] = state[<<d, 2>>]
    <3>1. Q!JobOf(d) \in Q!Jobs /\ <<d, 2>> \in Q!Jobs /\ Q!JobOf(d)[1] = d /\ Q!JobOf(c)[1] = c
      BY <1>1, JobsOfCalls, Numbers
    <3>2. Q!JobOf(d) # Q!JobOf(c) /\ <<d, 2>> # Q!JobOf(c)
      BY <2>1, <3>1
    <3>3. QED
      BY <3>1, <3>2
  <2>2. call[c].attempt = 1 => state'[<<c, 2>>] = state[<<c, 2>>]
    BY Numbers DEF Q!JobOf
  <2>3. QED
    BY <1>3, <1>4, <2>1, <2>2 DEF Unborn
<1>10. StoppedBefore'
  <2>1. \A j \in stopped : j[1] \in Q!Calls
    BY <1>1, Numbers DEF CancelTypes
  <2>2. QED
    BY <1>3, <1>4, <1>5, <2>1 DEF StoppedBefore
<1>11. QED
  BY <1>6, <1>7, <1>8, <1>9, <1>10

LEMMA SubmitArrivesKeeps ==
    ASSUME QueriesInv, NEW c \in Q!Calls, Q!SubmitArrives(c) PROVE QueriesInv'
<1>1. ServerTypes /\ ClientTypes /\ ScreenTypes /\ CancelTypes
  BY Parts DEF QueriesInv
<1>2. /\ call[c].pc = "submitting" /\ Active(c) /\ Q!JobOf(c) \in Q!Jobs
      /\ runToken' = runToken /\ cq' = cq /\ ui' = ui /\ stopped' = stopped
  BY <1>1, JobsOfCalls DEF Q!SubmitArrives, Active
<1>3. PICK reply \in {"running", "error"} :
         /\ call' = [call EXCEPT ![c].pc = "submitted", ![c].reply = reply]
         /\ \/ reply = "running" /\ Q!Job!Open(Q!JobOf(c))
            \/ reply = "error" /\ UNCHANGED Q!server
  BY DEF Q!SubmitArrives
<1>. PICK q \in CallState : q = call[c]
  BY <1>1 DEF ClientTypes
<1>. PICK w : w = [q EXCEPT !.pc = "submitted", !.reply = reply]
  OBVIOUS
<1>4. /\ w \in CallState /\ w.pc = "submitted" /\ w.token = q.token /\ w.attempt = q.attempt
      /\ w.reply = reply /\ call' = [call EXCEPT ![c] = w]
  BY <1>3 DEF CallState, Q!Replies
<1>5. /\ ServerTypes'
      /\ \A j \in Q!Jobs : j # Q!JobOf(c) => state'[j] = state[j]
      /\ reply = "error" => state' = state
  <2>1. CASE UNCHANGED Q!server /\ reply = "error"
    BY <1>1, <2>1 DEF Q!server, ServerTypes
  <2>2. CASE Q!Job!Open(Q!JobOf(c)) /\ reply = "running"
    BY <1>1, <1>2, <2>2 DEF Q!Job!Open, ServerTypes
  <2>3. QED
    BY <1>3, <2>1, <2>2
<1>6. Q!Fresh(c) => cq.job = Q!NoJob
  BY <1>2 DEF QueriesInv, RefsTell
<1>7. state[Q!JobOf(c)] = "none"
  BY <1>2 DEF QueriesInv, Unborn
<1>8. cq \in RefStates
  BY <1>1 DEF ClientTypes
<1>9. ClientTypes' /\ Tokens' /\ RefsTell' /\ Unborn' /\ StoppedBefore'
  BY <1>2, <1>4, <1>5, <1>6, <1>7, <1>8, GoesOn
<1>10. ScreenTypes' /\ CancelTypes'
  BY <1>1 DEF Q!SubmitArrives, ScreenTypes, CancelTypes
<1>11. QED
  BY <1>5, <1>9, <1>10, PartsNext DEF QueriesInv

LEMMA SubmitReturnsKeeps ==
    ASSUME QueriesInv, NEW c \in Q!Calls, Q!SubmitReturns(c) PROVE QueriesInv'
<1>1. ServerTypes /\ ClientTypes /\ ScreenTypes /\ CancelTypes
  BY Parts DEF QueriesInv
<1>2. /\ call[c].pc = "submitted" /\ Active(c) /\ Q!JobOf(c) \in Q!Jobs
      /\ UNCHANGED <<Q!server, screen, partialNodeIds, stopped>>
  BY <1>1, JobsOfCalls DEF Q!SubmitReturns, Active
<1>3. ClientTypes' /\ Tokens' /\ RefsTell' /\ Unborn' /\ StoppedBefore'
  <2>1. ASSUME NEW error \in Q!Calls \cup {Q!Nobody}, Q!Returns(c, cq, error)
        PROVE  ClientTypes' /\ Tokens' /\ RefsTell' /\ Unborn' /\ StoppedBefore'
    BY <1>2, <2>1, Comes
  <2>2. ui.error \in Q!Calls \cup {Q!Nobody}
    BY <1>1 DEF ClientTypes
  <2>3. ASSUME /\ Q!Fresh(c) /\ call[c].reply = "running"
               /\ cq' = [cq EXCEPT !.job = Q!JobOf(c)]
               /\ call' = [call EXCEPT ![c].pc = "polling", ![c].reply = "none"]
               /\ UNCHANGED <<runToken, ui, cancels>>
        PROVE  ClientTypes' /\ Tokens' /\ RefsTell' /\ Unborn' /\ StoppedBefore'
    <3>. PICK q \in CallState : q = call[c]
      BY <1>1 DEF ClientTypes
    <3>. PICK w : w = [q EXCEPT !.pc = "polling", !.reply = "none"]
      OBVIOUS
    <3>1. /\ w \in CallState /\ w.pc = "polling" /\ w.token = q.token /\ w.attempt = q.attempt
          /\ call' = [call EXCEPT ![c] = w]
      BY <2>3 DEF CallState, Q!Replies
    <3>2. cq' \in RefStates /\ cq'.loading = cq.loading /\ cq'.job = Q!JobOf(c)
      BY <1>1, <1>2, <2>3 DEF ClientTypes, RefStates
    <3>3. \A d \in Q!Calls \ {c} : ~(Active(d) /\ Q!Fresh(d))
      BY <1>2, <2>3 DEF QueriesInv, Tokens, Active, Q!Fresh
    <3>4. stopped' = stopped /\ \A j \in Q!Jobs : state'[j] = state[j]
      BY <1>2 DEF Q!server
    <3>5. runToken' = runToken /\ ui' = ui
      BY <2>3
    <3>6. QED
      BY <1>2, <3>1, <3>2, <3>3, <3>4, <3>5, GoesOn
  <2>4. QED
    BY <2>1, <2>2, <2>3 DEF Q!SubmitReturns
<1>4. CancelTypes'
  <2>1. CASE cancels' = cancels
    BY <1>1, <1>2, <2>1 DEF CancelTypes
  <2>2. CASE Q!Abandons(c)
    <3>. PICK m : m = [job |-> Q!JobOf(c), stage |-> "sent", awaited |-> FALSE]
      OBVIOUS
    <3>1. m \in [job : Q!Jobs, stage : {"sent", "answered"}, awaited : BOOLEAN]
      BY <1>2
    <3>2. cancels' \subseteq cancels \cup {m} /\ stopped' = stopped
      BY <1>2, <2>2 DEF Q!Abandons
    <3>3. QED
      BY <1>1, <3>1, <3>2 DEF CancelTypes
  <2>3. QED
    BY <2>1, <2>2 DEF Q!SubmitReturns
<1>5. ServerTypes' /\ ScreenTypes'
  BY <1>1, <1>2 DEF Q!server, ServerTypes, ScreenTypes
<1>6. QED
  BY <1>3, <1>4, <1>5, PartsNext DEF QueriesInv

LEMMA PollKeeps == ASSUME QueriesInv, NEW c \in Q!Calls, Q!Poll(c) PROVE QueriesInv'
<1>1. ServerTypes /\ ClientTypes /\ ScreenTypes /\ CancelTypes
  BY Parts DEF QueriesInv
<1>2. /\ call[c].pc = "polling" /\ Active(c) /\ Q!JobOf(c) \in Q!Jobs
      /\ UNCHANGED <<Q!server, screen, partialNodeIds, cancels, stopped>>
  BY <1>1, JobsOfCalls DEF Q!Poll, Active
<1>5. ServerTypes' /\ ScreenTypes' /\ CancelTypes'
  BY <1>1, <1>2 DEF Q!server, ServerTypes, ScreenTypes, CancelTypes
<1>3. CASE Q!Returns(c, cq, ui.error)
  <2>1. ui.error \in Q!Calls \cup {Q!Nobody}
    BY <1>1 DEF ClientTypes
  <2>2. ClientTypes' /\ Tokens' /\ RefsTell' /\ Unborn' /\ StoppedBefore'
    BY <1>2, <1>3, <2>1, Comes
  <2>3. QED
    BY <1>5, <2>2, PartsNext DEF QueriesInv
<1>4. CASE /\ Q!Fresh(c)
           /\ \E reply \in Q!Answer(Q!JobOf(c)) :
                 call' = [call EXCEPT ![c].pc = "polled", ![c].reply = reply]
           /\ UNCHANGED <<runToken, cq, ui>>
  <2>1. \E w \in CallState :
           /\ w.pc = "polled" /\ w.token = call[c].token /\ w.attempt = call[c].attempt
           /\ call' = [call EXCEPT ![c] = w]
    <3>. PICK reply \in Q!Answer(Q!JobOf(c)) :
            call' = [call EXCEPT ![c].pc = "polled", ![c].reply = reply]
      BY <1>4
    <3>1. state[Q!JobOf(c)] \in {"none", "running", "succeeded", "failed", "canceled"}
      BY <1>1, <1>2 DEF ServerTypes
    <3>2. reply \in Q!Replies
      BY <3>1 DEF Q!Answer, Q!Replies
    <3>. PICK q \in CallState : q = call[c]
      BY <1>1 DEF ClientTypes
    <3>. PICK w : w = [q EXCEPT !.pc = "polled", !.reply = reply]
      OBVIOUS
    <3>3. /\ w \in CallState /\ w.pc = "polled" /\ w.token = q.token /\ w.attempt = q.attempt
          /\ call' = [call EXCEPT ![c] = w]
      BY <3>2 DEF CallState
    <3>4. QED
      BY <3>3
  <2>2. PICK w \in CallState :
           /\ w.pc = "polled" /\ w.token = call[c].token /\ w.attempt = call[c].attempt
           /\ call' = [call EXCEPT ![c] = w]
    BY <2>1
  <2>3. cq' \in RefStates /\ cq' = cq /\ cq.job = Q!JobOf(c)
    BY <1>1, <1>2, <1>4 DEF ClientTypes, QueriesInv, RefsTell
  <2>4. stopped' = stopped /\ \A j \in Q!Jobs : state'[j] = state[j]
    BY <1>2 DEF Q!server
  <2>5. runToken' = runToken /\ ui' = ui
    BY <1>4
  <2>6. ClientTypes' /\ Tokens' /\ RefsTell' /\ Unborn' /\ StoppedBefore'
    BY <1>2, <2>2, <2>3, <2>4, <2>5, GoesOn
  <2>7. QED
    BY <1>5, <2>6, PartsNext DEF QueriesInv
<1>6. QED
  BY <1>3, <1>4 DEF Q!Poll

LEMMA PollReturnsKeeps == ASSUME QueriesInv, NEW c \in Q!Calls, Q!PollReturns(c) PROVE QueriesInv'
<1>1. ServerTypes /\ ClientTypes /\ ScreenTypes /\ CancelTypes
  BY Parts DEF QueriesInv
<1>2. /\ call[c].pc = "polled" /\ Active(c) /\ Q!JobOf(c) \in Q!Jobs
      /\ UNCHANGED <<Q!server, cancels, stopped>>
  BY <1>1, JobsOfCalls DEF Q!PollReturns, Active
<1>3. ClientTypes' /\ Tokens' /\ RefsTell' /\ Unborn' /\ StoppedBefore'
  <2>1. ASSUME NEW error \in Q!Calls \cup {Q!Nobody}, NEW refs,
               refs = cq \/ (Q!Fresh(c) /\ refs = [cq EXCEPT !.canceled = TRUE]),
               Q!Returns(c, refs, error)
        PROVE  ClientTypes' /\ Tokens' /\ RefsTell' /\ Unborn' /\ StoppedBefore'
    BY <1>2, <2>1, Comes
  <2>2. ui.error \in Q!Calls \cup {Q!Nobody}
    BY <1>1 DEF ClientTypes
  <2>3. ASSUME /\ Q!Fresh(c)
               /\ call' = [call EXCEPT ![c].pc = "polling", ![c].reply = "none",
                                       ![c].drawn = @ \/ call[c].reply = "partial"]
               /\ UNCHANGED <<runToken, cq, ui>>
        PROVE  ClientTypes' /\ Tokens' /\ RefsTell' /\ Unborn' /\ StoppedBefore'
    <3>. PICK q \in CallState : q = call[c]
      BY <1>1 DEF ClientTypes
    <3>. PICK drawn \in BOOLEAN : drawn = (q.drawn \/ q.reply = "partial")
      BY Zenon
    <3>. PICK w : w = [q EXCEPT !.pc = "polling", !.reply = "none", !.drawn = drawn]
      OBVIOUS
    <3>1. /\ w \in CallState /\ w.pc = "polling" /\ w.token = q.token /\ w.attempt = q.attempt
      BY DEF CallState, Q!Replies
    <3>2. call' = [call EXCEPT ![c] = w]
      BY <2>3
    <3>3. cq' \in RefStates /\ cq' = cq /\ cq.job = Q!JobOf(c)
      BY <1>1, <1>2, <2>3 DEF ClientTypes, QueriesInv, RefsTell
    <3>4. stopped' = stopped /\ \A j \in Q!Jobs : state'[j] = state[j]
      BY <1>2 DEF Q!server
    <3>5. runToken' = runToken /\ ui' = ui
      BY <2>3
    <3>6. QED
      BY <1>2, <3>1, <3>2, <3>3, <3>4, <3>5, GoesOn
  <2>4. QED
    BY <2>1, <2>2, <2>3 DEF Q!PollReturns
<1>4. ScreenTypes'
  <2>1. call[c].covers \in NodeSets
    BY <1>1 DEF ClientTypes, CallState
  <2>2. CASE UNCHANGED <<screen, partialNodeIds>>
    BY <1>1, <2>2 DEF ScreenTypes
  <2>3. CASE \E isPartial \in BOOLEAN : Q!Draws(c, isPartial)
    <3>. PICK isPartial \in BOOLEAN : Q!Draws(c, isPartial)
      BY <2>3
    <3>1. screen.edges \in Q!Calls \cup {Q!Nobody}
      BY <1>1 DEF ScreenTypes
    <3>2. QED
      BY <2>1, <3>1 DEF Q!Draws, ScreenTypes
  <2>4. QED
    BY <2>2, <2>3 DEF Q!PollReturns
<1>5. ServerTypes' /\ CancelTypes'
  BY <1>1, <1>2 DEF Q!server, ServerTypes, CancelTypes
<1>6. QED
  BY <1>3, <1>4, <1>5, PartsNext DEF QueriesInv

\* Whose Cancel button it is.
LEMMA LatestIs ==
    ASSUME QueriesInv, cq.loading
    PROVE  /\ Q!Latest \in Q!Calls /\ Active(Q!Latest) /\ Q!Fresh(Q!Latest)
           /\ cq.job = IF call[Q!Latest].pc \in {"submitting", "submitted"}
                       THEN Q!NoJob ELSE Q!JobOf(Q!Latest)
<1>. PICK c \in Q!Calls : Active(c) /\ Q!Fresh(c)
  BY DEF QueriesInv, RefsTell
<1>1. \A d \in Q!Calls : call[d].pc # "idle" /\ call[d].token = runToken => d = c
  BY DEF QueriesInv, Tokens, Active, Q!Fresh
<1>2. Q!Latest = c
  BY <1>1 DEF Q!Latest, Active, Q!Fresh
<1>3. QED
  BY <1>2 DEF QueriesInv, RefsTell

LEMMA CancelQueryKeeps == ASSUME QueriesInv, Q!CancelQuery PROVE QueriesInv'
<1>1. ServerTypes /\ ClientTypes /\ ScreenTypes /\ CancelTypes
  BY Parts DEF QueriesInv
<1>. PICK c : c = Q!Latest
  OBVIOUS
<1>2. /\ c \in Q!Calls /\ Active(c) /\ Q!Fresh(c) /\ Q!JobOf(c) \in Q!Jobs
      /\ Q!JobOf(c)[1] = c /\ Q!JobOf(c)[2] = call[c].attempt
      /\ cq.job # Q!NoJob => cq.job \in Q!Jobs
  BY <1>1, LatestIs, JobsOfCalls DEF Q!CancelQuery, ClientTypes, RefStates
<1>3. /\ runToken' = runToken + 1 /\ runToken \in Nat
      /\ cq' = [loading |-> FALSE, job |-> Q!NoJob, canceled |-> TRUE]
      /\ stopped' = stopped \cup {Q!JobOf(c)}
      /\ UNCHANGED <<Q!server, call, screen, partialNodeIds>>
  BY <1>1 DEF Q!CancelQuery, ClientTypes
<1>4. \A d \in Q!Calls : call[d].token \in Nat /\ call[d].token <= runToken /\ call[d].attempt \in {1, 2}
  BY <1>1 DEF QueriesInv, Tokens, ClientTypes, CallState
<1>5. ClientTypes'
  <2>1. ui' \in [loading : BOOLEAN, error : Q!Calls \cup {Q!Nobody}]
    BY <1>1 DEF Q!CancelQuery, ClientTypes
  <2>2. QED
    BY <1>1, <1>3, <2>1 DEF ClientTypes, RefStates
<1>6. ServerTypes' /\ ScreenTypes'
  BY <1>1, <1>3 DEF Q!server, ServerTypes, ScreenTypes
<1>7. CancelTypes'
  <2>. PICK m : m = [job |-> cq.job, stage |-> "sent", awaited |-> TRUE]
    OBVIOUS
  <2>1. cq.job # Q!NoJob => m \in [job : Q!Jobs, stage : {"sent", "answered"}, awaited : BOOLEAN]
    BY <1>2
  <2>2. cancels' = cancels \/ (cq.job # Q!NoJob /\ cancels' = cancels \cup {m})
    BY DEF Q!CancelQuery
  <2>3. QED
    BY <1>1, <1>2, <1>3, <2>1, <2>2 DEF CancelTypes
<1>8. Tokens'
  BY <1>3, <1>4 DEF QueriesInv, Tokens
<1>9. RefsTell'
  BY <1>3, <1>4 DEF RefsTell, Q!Fresh
<1>10. Unborn'
  BY <1>3 DEF QueriesInv, Unborn, Q!JobOf, Q!server
<1>11. StoppedBefore'
  <2>1. \A j \in stopped : j[1] \in Q!Calls
    BY <1>1, Numbers DEF CancelTypes
  <2>2. \A j \in stopped :
           /\ call[j[1]].pc # "idle" /\ j[2] <= call[j[1]].attempt
           /\ call[j[1]].token < runToken'
    BY <1>3, <1>4, <2>1 DEF QueriesInv, StoppedBefore
  <2>3. call[c].pc # "idle" /\ call[c].token < runToken' /\ call[c].attempt <= call[c].attempt
    BY <1>2, <1>3, <1>4 DEF Active
  <2>4. QED
    BY <1>2, <1>3, <2>2, <2>3 DEF StoppedBefore
<1>12. QED
  BY <1>5, <1>6, <1>7, <1>8, <1>9, <1>10, <1>11, PartsNext DEF QueriesInv

\* The jobs that run come to an end, and nothing else.
LEMMA ServerMoves ==
    ASSUME QueriesInv, UNCHANGED <<runToken, cq, call, screen, partialNodeIds, stopped>>,
           ServerTypes', CancelTypes', ui' \in [loading : BOOLEAN, error : Q!Calls \cup {Q!Nobody}],
           \A j \in Q!Jobs : state[j] = "none" => state'[j] = "none"
    PROVE  QueriesInv'
<1>1. ServerTypes /\ ClientTypes /\ ScreenTypes /\ CancelTypes
  BY Parts DEF QueriesInv
<1>2. ClientTypes' /\ ScreenTypes'
  BY <1>1 DEF ClientTypes, ScreenTypes
<1>3. Unborn'
  <2>1. \A c \in Q!Calls : Q!JobOf(c) \in Q!Jobs /\ <<c, 2>> \in Q!Jobs
    BY <1>1, JobsOfCalls, Numbers
  <2>2. QED
    BY <2>1 DEF QueriesInv, Unborn, Q!JobOf
<1>4. Tokens' /\ RefsTell' /\ StoppedBefore'
  BY DEF QueriesInv, Tokens, RefsTell, StoppedBefore, Active, Q!Fresh, Q!JobOf
<1>5. QED
  BY <1>2, <1>3, <1>4, PartsNext DEF QueriesInv

LEMMA EndTypes ==
    ASSUME ServerTypes, NEW j \in Q!Jobs, NEW end \in Q!Job!Terminal, Q!Job!Ends(j, end)
    PROVE  /\ ServerTypes' /\ state' = [state EXCEPT ![j] = end] /\ state[j] = "running"
           /\ \A i \in Q!Jobs : state[i] = "none" => state'[i] = "none"
BY DEF ServerTypes, Q!Job!Ends, Q!Job!Terminal

LEMMA CancelArrivesKeeps == ASSUME QueriesInv, Q!CancelArrives PROVE QueriesInv'
<1>1. ServerTypes /\ ClientTypes /\ ScreenTypes /\ CancelTypes
  BY Parts DEF QueriesInv
<1>. PICK m \in cancels :
        /\ m.stage = "sent"
        /\ \/ Q!Job!Ends(m.job, "canceled")
           \/ (state[m.job] # "running" \/ ~Reliable) /\ UNCHANGED Q!server
        /\ cancels' = (cancels \ {m}) \cup
              (IF m.awaited THEN {[m EXCEPT !.stage = "answered"]} ELSE {})
  BY DEF Q!CancelArrives
<1>2. /\ m \in [job : Q!Jobs, stage : {"sent", "answered"}, awaited : BOOLEAN]
      /\ [m EXCEPT !.stage = "answered"] \in
            [job : Q!Jobs, stage : {"sent", "answered"}, awaited : BOOLEAN]
  BY <1>1 DEF CancelTypes
<1>3. ServerTypes' /\ \A j \in Q!Jobs : state[j] = "none" => state'[j] = "none"
  <2>1. CASE Q!Job!Ends(m.job, "canceled")
    BY <1>1, <1>2, <2>1, EndTypes DEF Q!Job!Terminal
  <2>2. CASE UNCHANGED Q!server
    BY <1>1, <2>2 DEF ServerTypes, Q!server
  <2>3. QED
    BY <2>1, <2>2
<1>4. UNCHANGED <<runToken, cq, ui, call, screen, partialNodeIds, stopped>>
  BY DEF Q!CancelArrives, Q!client
<1>5. CancelTypes'
  BY <1>1, <1>2, <1>4 DEF CancelTypes
<1>6. ui' \in [loading : BOOLEAN, error : Q!Calls \cup {Q!Nobody}]
  BY <1>1, <1>4 DEF ClientTypes
<1>7. QED
  BY <1>3, <1>4, <1>5, <1>6, ServerMoves

LEMMA CancelReturnsKeeps == ASSUME QueriesInv, Q!CancelReturns PROVE QueriesInv'
<1>1. ServerTypes /\ ClientTypes /\ ScreenTypes /\ CancelTypes
  BY Parts DEF QueriesInv
<1>2. ServerTypes' /\ CancelTypes' /\ \A j \in Q!Jobs : state[j] = "none" => state'[j] = "none"
  BY <1>1 DEF Q!CancelReturns, Q!server, ServerTypes, CancelTypes
<1>3. ui' \in [loading : BOOLEAN, error : Q!Calls \cup {Q!Nobody}]
  BY <1>1 DEF Q!CancelReturns, ClientTypes
<1>4. UNCHANGED <<runToken, cq, call, screen, partialNodeIds, stopped>>
  BY DEF Q!CancelReturns
<1>5. QED
  BY <1>2, <1>3, <1>4, ServerMoves

LEMMA ServeKeeps == ASSUME QueriesInv, NEW j \in Q!Jobs, Q!Serve(j) PROVE QueriesInv'
<1>1. ServerTypes /\ ClientTypes /\ ScreenTypes /\ CancelTypes
  BY Parts DEF QueriesInv
<1>2. UNCHANGED <<runToken, cq, ui, call, screen, partialNodeIds, stopped, cancels>>
  BY DEF Q!Serve, Q!client
<1>3. ServerTypes' /\ \A i \in Q!Jobs : state[i] = "none" => state'[i] = "none"
  <2>1. CASE Q!Job!Publish(j)
    BY <1>1, <2>1 DEF Q!Job!Publish, ServerTypes
  <2>2. CASE Q!Job!Finish(j)
    <3>. PICK end \in Q!Job!Terminal : Q!Job!Ends(j, end)
      BY <2>2 DEF Q!Job!Finish
    <3>1. QED
      BY <1>1, EndTypes
  <2>3. QED
    BY <2>1, <2>2 DEF Q!Serve
<1>4. CancelTypes' /\ ui' \in [loading : BOOLEAN, error : Q!Calls \cup {Q!Nobody}]
  BY <1>1, <1>2 DEF CancelTypes, ClientTypes
<1>5. QED
  BY <1>2, <1>3, <1>4, ServerMoves

LEMMA QueriesStep == QueriesInv /\ [Q!Next]_(Q!vars) => QueriesInv'
<1>. SUFFICES ASSUME QueriesInv, [Q!Next]_(Q!vars) PROVE QueriesInv'
  OBVIOUS
<1>1. CASE UNCHANGED Q!vars
  <2>1. UNCHANGED <<state, partial, runToken, cq, ui, call, screen, partialNodeIds, cancels, stopped>>
    BY <1>1 DEF Q!vars, Q!server, Q!client
  <2>2. ServerTypes /\ ClientTypes /\ CancelTypes
    BY Parts DEF QueriesInv
  <2>3. ServerTypes' /\ CancelTypes' /\ ui' \in [loading : BOOLEAN, error : Q!Calls \cup {Q!Nobody}]
    BY <2>1, <2>2 DEF ServerTypes, CancelTypes, ClientTypes
  <2>4. QED
    BY <2>1, <2>3, ServerMoves
<1>2. CASE Q!Next
  BY <1>2, ExecuteKeeps, SubmitArrivesKeeps, SubmitReturnsKeeps, PollKeeps, PollReturnsKeeps,
     CancelQueryKeeps, CancelArrivesKeeps, CancelReturnsKeeps, ServeKeeps DEF Q!Next, Q!Answers
<1>3. QED
  BY <1>1, <1>2

\* Whatever the user runs and cancels and whatever is lost: the refs, the
\* calls, the screen and the jobs keep their types.
THEOREM QueriesTyped == Q!Spec => []QueriesTypeOK
<1>1. QueriesInv => QueriesTypeOK
  BY DEF QueriesInv, QueriesTypeOK
<1>2. QED
  BY <1>1, QueriesInit, QueriesStep, PTL DEF Q!Spec

-------------------------------------------------------------------------------
\* Runs stay apart.

LEMMA DrawsLatest == QueriesInv /\ Q!Next => Q!OnlyTheLatestDraws
<1>. SUFFICES ASSUME QueriesInv, Q!Next, screen' # screen
              PROVE  /\ cq.loading
                     /\ \A d \in Q!Calls : call[d].token <= call[screen'.nodes].token
  BY DEF Q!OnlyTheLatestDraws
<1>1. PICK c \in Q!Calls : Q!PollReturns(c)
  <2>1. \A c \in Q!Calls : ~Q!Execute(c) /\ ~Q!SubmitArrives(c) /\ ~Q!SubmitReturns(c) /\ ~Q!Poll(c)
    BY DEF Q!Execute, Q!SubmitArrives, Q!SubmitReturns, Q!Poll
  <2>2. ~Q!CancelQuery /\ ~Q!CancelArrives /\ ~Q!CancelReturns /\ \A j \in Q!Jobs : ~Q!Serve(j)
    BY DEF Q!CancelQuery, Q!CancelArrives, Q!CancelReturns, Q!Serve, Q!client
  <2>3. QED
    BY <2>1, <2>2 DEF Q!Next, Q!Answers
<1>2. Q!Fresh(c) /\ Active(c) /\ \E isPartial \in BOOLEAN : Q!Draws(c, isPartial)
  BY <1>1 DEF Q!PollReturns, Active
<1>3. screen'.nodes = c
  BY <1>2 DEF Q!Draws
<1>4. QED
  BY <1>2, <1>3 DEF QueriesInv, RefsTell, Tokens, Q!Fresh

\* A stopped job that runs is being stopped.
BeingStopped(j) ==
    \/ \E m \in cancels : m.job = j /\ m.stage = "sent"
    \/ Q!JobOf(j[1]) = j /\ call[j[1]].pc \in {"submitting", "submitted"}

LEMMA ReachesFrom == Q!CancelReaches <=> \A j \in stopped : state[j] = "running" => BeingStopped(j)
BY DEF Q!CancelReaches, BeingStopped

\* A call that is past its submit leaves the requests of the others alone.
LEMMA StillStopped ==
    ASSUME QueriesInv, NEW c \in Q!Calls, NEW j \in stopped, BeingStopped(j),
           cancels \subseteq cancels',
           \A d \in Q!Calls \ {c} : call'[d] = call[d],
           Q!JobOf(c) = j => call[c].pc \notin {"submitting", "submitted"}
                           \/ \E m \in cancels' : m.job = j /\ m.stage = "sent"
    PROVE  BeingStopped(j)'
<1>1. j[1] \in Q!Calls
  BY Numbers, Parts DEF QueriesInv, CancelTypes
<1>2. CASE \E m \in cancels : m.job = j /\ m.stage = "sent"
  BY <1>2 DEF BeingStopped
<1>3. CASE Q!JobOf(j[1]) = j /\ call[j[1]].pc \in {"submitting", "submitted"}
  <2>1. CASE j[1] = c
    BY <1>3, <2>1 DEF BeingStopped
  <2>2. CASE j[1] # c
    BY <1>1, <1>3, <2>2 DEF BeingStopped, Q!JobOf
  <2>3. QED
    BY <2>1, <2>2
<1>4. QED
  BY <1>2, <1>3 DEF BeingStopped

LEMMA ReturnsOthers ==
    ASSUME QueriesInv, NEW c \in Q!Calls, NEW refs, NEW error, Q!Returns(c, refs, error)
    PROVE  \A d \in Q!Calls \ {c} : call'[d] = call[d]
BY Parts DEF QueriesInv, ClientTypes, Q!Returns, Q!StartsRun

LEMMA StaysReached ==
    ASSUME QueriesInv, Q!CancelReaches, Reliable, Q!Next
    PROVE  Q!CancelReaches'
<1>1. ServerTypes /\ ClientTypes /\ ScreenTypes /\ CancelTypes
  BY Parts DEF QueriesInv
<1>2. /\ stopped \subseteq Q!Jobs /\ \A j \in stopped : j \in Q!Jobs /\ j[1] \in Q!Calls
      /\ \A c \in Q!Calls : Q!JobOf(c)[1] = c /\ Q!JobOf(c) \in Q!Jobs
  BY <1>1, Numbers, JobsOfCalls DEF CancelTypes
<1>3. ASSUME NEW c \in Q!Calls, Q!Execute(c) PROVE Q!CancelReaches'
  <2>1. /\ call[c].pc = "idle" /\ UNCHANGED <<Q!server, stopped, cancels>>
        /\ \A d \in Q!Calls \ {c} : call'[d] = call[d]
    BY <1>1, <1>3 DEF Q!Execute, Q!StartsRun, ClientTypes
  <2>2. ASSUME NEW j \in stopped, state'[j] = "running" PROVE BeingStopped(j)'
    <3>1. BeingStopped(j)
      BY <2>1, <2>2, ReachesFrom DEF Q!server
    <3>2. QED
      BY <2>1, <3>1, StillStopped
  <2>3. QED
    BY <2>1, <2>2 DEF Q!CancelReaches, BeingStopped
<1>4. ASSUME NEW c \in Q!Calls, Q!SubmitArrives(c) PROVE Q!CancelReaches'
  <2>1. /\ call[c].pc = "submitting" /\ stopped' = stopped /\ cancels' = cancels
        /\ \A d \in Q!Calls \ {c} : call'[d] = call[d]
        /\ call'[c].pc = "submitted" /\ call'[c].attempt = call[c].attempt
    BY <1>1, <1>4 DEF Q!SubmitArrives, ClientTypes, CallState
  <2>2. \A j \in Q!Jobs : j # Q!JobOf(c) => state'[j] = state[j]
    BY <1>1, <1>2, <1>4 DEF Q!SubmitArrives, Q!server, Q!Job!Open, ServerTypes
  <2>3. ASSUME NEW j \in stopped, state'[j] = "running" PROVE BeingStopped(j)'
    <3>1. CASE j = Q!JobOf(c)
      BY <1>2, <2>1, <3>1 DEF BeingStopped, Q!JobOf
    <3>2. CASE j # Q!JobOf(c)
      <4>1. BeingStopped(j)
        BY <1>2, <2>2, <2>3, <3>2, ReachesFrom
      <4>2. QED
        BY <2>1, <3>2, <4>1, StillStopped
    <3>3. QED
      BY <3>1, <3>2
  <2>4. QED
    BY <2>1, <2>3 DEF Q!CancelReaches, BeingStopped
<1>5. ASSUME NEW c \in Q!Calls, Q!SubmitReturns(c) PROVE Q!CancelReaches'
  <2>1. /\ call[c].pc = "submitted" /\ state' = state /\ stopped' = stopped
        /\ cancels' = cancels \/ Q!Abandons(c)
    BY <1>5 DEF Q!SubmitReturns, Q!server
  <2>2. cancels \subseteq cancels'
    BY <2>1 DEF Q!Abandons
  <2>3. \A d \in Q!Calls \ {c} : call'[d] = call[d]
    <3>1. CASE call' = [call EXCEPT ![c].pc = "polling", ![c].reply = "none"]
      BY <1>1, <3>1 DEF ClientTypes
    <3>2. QED
      BY <1>5, <3>1, ReturnsOthers DEF Q!SubmitReturns
  <2>4. ASSUME NEW j \in stopped, state'[j] = "running" PROVE BeingStopped(j)'
    <3>1. BeingStopped(j)
      BY <2>1, <2>4, ReachesFrom
    <3>2. CASE Q!JobOf(c) = j
      <4>1. ~Q!Fresh(c)
        <5>1. call[c].token < runToken /\ call[c].token \in Nat /\ runToken \in Nat
          BY <1>1, <1>2, <3>2 DEF QueriesInv, StoppedBefore, ClientTypes, CallState
        <5>2. QED
          BY <5>1 DEF Q!Fresh
      <4>2. call[c].reply # "error"
        BY <2>1, <2>4, <3>2 DEF QueriesInv, Unborn
      <4>3. cancels' = cancels \cup {[job |-> Q!JobOf(c), stage |-> "sent", awaited |-> FALSE]}
        BY <1>5, <4>1, <4>2 DEF Q!SubmitReturns, Q!Abandons
      <4>. PICK m : m = [job |-> Q!JobOf(c), stage |-> "sent", awaited |-> FALSE]
        OBVIOUS
      <4>4. m \in cancels' /\ m.job = j /\ m.stage = "sent"
        BY <3>2, <4>3
      <4>5. QED
        BY <4>4 DEF BeingStopped
    <3>3. CASE Q!JobOf(c) # j
      BY <2>2, <2>3, <3>1, <3>3, StillStopped
    <3>4. QED
      BY <3>2, <3>3
  <2>5. QED
    BY <2>1, <2>4 DEF Q!CancelReaches, BeingStopped
<1>6. ASSUME NEW c \in Q!Calls, Q!Poll(c) \/ Q!PollReturns(c) PROVE Q!CancelReaches'
  <2>1. /\ call[c].pc \in {"polling", "polled"}
        /\ state' = state /\ stopped' = stopped /\ cancels' = cancels
    BY <1>6 DEF Q!Poll, Q!PollReturns, Q!server
  <2>2. \A d \in Q!Calls \ {c} : call'[d] = call[d]
    <3>1. CASE \E reply \in Q!Answer(Q!JobOf(c)) :
                  call' = [call EXCEPT ![c].pc = "polled", ![c].reply = reply]
      BY <1>1, <3>1 DEF ClientTypes
    <3>2. CASE call' = [call EXCEPT ![c].pc = "polling", ![c].reply = "none",
                                    ![c].drawn = @ \/ call[c].reply = "partial"]
      BY <1>1, <3>2 DEF ClientTypes
    <3>3. QED
      BY <1>6, <3>1, <3>2, ReturnsOthers DEF Q!Poll, Q!PollReturns
  <2>3. ASSUME NEW j \in stopped, state'[j] = "running" PROVE BeingStopped(j)'
    <3>1. BeingStopped(j)
      BY <2>1, <2>3, ReachesFrom
    <3>2. QED
      BY <2>1, <2>2, <3>1, StillStopped
  <2>4. QED
    BY <2>1, <2>3 DEF Q!CancelReaches, BeingStopped
<1>7. ASSUME Q!CancelQuery PROVE Q!CancelReaches'
  <2>. PICK c : c = Q!Latest
    OBVIOUS
  <2>1. /\ c \in Q!Calls /\ Active(c)
        /\ cq.job = IF call[c].pc \in {"submitting", "submitted"} THEN Q!NoJob ELSE Q!JobOf(c)
    BY <1>7, LatestIs DEF Q!CancelQuery
  <2>2. /\ stopped' = stopped \cup {Q!JobOf(c)} /\ state' = state /\ call' = call
        /\ cancels \subseteq cancels'
        /\ cq.job # Q!NoJob =>
             cancels' = cancels \cup {[job |-> cq.job, stage |-> "sent", awaited |-> TRUE]}
    BY <1>7 DEF Q!CancelQuery, Q!server
  <2>3. BeingStopped(Q!JobOf(c))'
    <3>1. CASE call[c].pc \in {"submitting", "submitted"}
      BY <1>2, <2>1, <2>2, <3>1 DEF BeingStopped, Q!JobOf
    <3>2. CASE call[c].pc \notin {"submitting", "submitted"}
      <4>1. cq.job = Q!JobOf(c) /\ cq.job # Q!NoJob
        BY <1>1, <2>1, <3>2, JobsOfCalls
      <4>. PICK m : m = [job |-> cq.job, stage |-> "sent", awaited |-> TRUE]
        OBVIOUS
      <4>2. m \in cancels' /\ m.job = Q!JobOf(c) /\ m.stage = "sent"
        BY <2>2, <4>1
      <4>3. Q!JobOf(c)' = Q!JobOf(c)
        BY <2>2 DEF Q!JobOf
      <4>4. QED
        BY <4>2, <4>3 DEF BeingStopped
    <3>3. QED
      BY <3>1, <3>2
  <2>4. ASSUME NEW j \in stopped, state'[j] = "running" PROVE BeingStopped(j)'
    <3>1. BeingStopped(j)
      BY <2>2, <2>4, ReachesFrom
    <3>2. QED
      BY <2>2, <3>1 DEF BeingStopped, Q!JobOf
  <2>5. Q!JobOf(c)' = Q!JobOf(c)
    BY <2>2 DEF Q!JobOf
  <2>6. \A j \in stopped' : state'[j] = "running" => BeingStopped(j)'
    BY <2>2, <2>3, <2>4, <2>5
  <2>7. QED
    BY <2>6 DEF Q!CancelReaches, BeingStopped
<1>8. ASSUME Q!CancelArrives PROVE Q!CancelReaches'
  <2>. PICK m \in cancels :
          /\ m.stage = "sent"
          /\ \/ Q!Job!Ends(m.job, "canceled")
             \/ (state[m.job] # "running" \/ ~Reliable) /\ UNCHANGED Q!server
          /\ cancels' = (cancels \ {m}) \cup
                (IF m.awaited THEN {[m EXCEPT !.stage = "answered"]} ELSE {})
    BY <1>8 DEF Q!CancelArrives
  <2>1. call' = call /\ stopped' = stopped
    BY <1>8 DEF Q!CancelArrives, Q!client
  <2>2. m.job \in Q!Jobs
    BY <1>1 DEF CancelTypes
  <2>3. \A j \in Q!Jobs : state'[j] = "running" => state[j] = "running" /\ j # m.job
    <3>1. CASE Q!Job!Ends(m.job, "canceled")
      BY <1>1, <2>2, <3>1 DEF Q!Job!Ends, ServerTypes
    <3>2. CASE state[m.job] # "running" /\ UNCHANGED Q!server
      BY <3>2 DEF Q!server
    <3>3. QED
      BY <3>1, <3>2, Reliable
  <2>4. ASSUME NEW j \in stopped, state'[j] = "running" PROVE BeingStopped(j)'
    <3>1. BeingStopped(j) /\ j # m.job
      BY <1>2, <2>3, <2>4, ReachesFrom
    <3>2. \A n \in cancels : n.job = j => n \in cancels'
      BY <3>1
    <3>3. QED
      BY <2>1, <3>1, <3>2 DEF BeingStopped, Q!JobOf
  <2>5. QED
    BY <2>1, <2>4 DEF Q!CancelReaches, BeingStopped
<1>9. ASSUME Q!CancelReturns PROVE Q!CancelReaches'
  <2>. PICK m \in cancels : m.stage = "answered" /\ cancels' = cancels \ {m}
    BY <1>9 DEF Q!CancelReturns
  <2>1. call' = call /\ stopped' = stopped /\ state' = state
    BY <1>9 DEF Q!CancelReturns, Q!server
  <2>2. \A n \in cancels : n.stage = "sent" => n \in cancels'
    OBVIOUS
  <2>3. ASSUME NEW j \in stopped, state'[j] = "running" PROVE BeingStopped(j)'
    BY <2>1, <2>2, <2>3, ReachesFrom DEF BeingStopped, Q!JobOf
  <2>4. QED
    BY <2>1, <2>3 DEF Q!CancelReaches, BeingStopped
<1>10. ASSUME NEW j \in Q!Jobs, Q!Serve(j) PROVE Q!CancelReaches'
  <2>1. UNCHANGED <<call, stopped, cancels>>
    BY <1>10 DEF Q!Serve, Q!client
  <2>2. \A i \in Q!Jobs : state'[i] = "running" => state[i] = "running"
    <3>1. CASE Q!Job!Publish(j)
      BY <3>1 DEF Q!Job!Publish
    <3>2. CASE Q!Job!Finish(j)
      BY <1>1, <3>2 DEF Q!Job!Finish, Q!Job!Ends, Q!Job!Terminal, ServerTypes
    <3>3. QED
      BY <1>10, <3>1, <3>2 DEF Q!Serve
  <2>3. QED
    BY <1>2, <2>1, <2>2 DEF Q!CancelReaches, Q!JobOf
<1>11. QED
  BY <1>3, <1>4, <1>5, <1>6, <1>7, <1>8, <1>9, <1>10 DEF Q!Next, Q!Answers

\* As long as no cancel request is lost: only the run started last draws,
\* and not once it is cancelled; and a job the user stopped does not go on
\* unless something is on its way to stop it, whatever is superseded,
\* retried or late (useCancellableQuery.ts, executeCypherQuery).
THEOREM RunsAreApart ==
    ASSUME Reliable
    PROVE  Q!Spec => RunsStayApart
<1>1. Q!Init => Q!CancelReaches
  BY DEF Q!Init, Q!CancelReaches
<1>2. QueriesInv /\ Q!CancelReaches /\ [Q!Next]_(Q!vars) => Q!CancelReaches'
  <2>1. Q!CancelReaches /\ UNCHANGED Q!vars => Q!CancelReaches'
    BY DEF Q!CancelReaches, Q!JobOf, Q!vars, Q!server, Q!client
  <2>2. QED
    BY <2>1, StaysReached, Reliable
<1>3. QueriesInv /\ Q!CancelReaches /\ [Q!Next]_(Q!vars) =>
         [Q!OnlyTheLatestDraws /\ Q!CancelReaches']_(Q!vars)
  BY <1>2, DrawsLatest
<1>4. QED
  BY <1>1, <1>2, <1>3, QueriesInit, QueriesStep, PTL DEF Q!Spec, RunsStayApart, Q!RunsStayApart

-------------------------------------------------------------------------------
(* The pool of workers *)

\* A pool as a handler has it in hand: it changes the pool before it looks at the queue
\* (ProcessQueue), so that what follows is said of any value of it.
Pools == [queue : Seq(Pool!Tasks), worker : [Workers -> Pool!WorkerStates], handlers : SUBSET Pool!Tasks]

Has(queue, t) == \E i \in 1 .. Len(queue) : queue[i] = t
Distinct(queue) == \A i, j \in 1 .. Len(queue) : queue[i] = queue[j] => i = j

\* No computation waits twice, is run twice, or waits while it runs.
Apart(p) ==
    /\ Distinct(p.queue)
    /\ \A v, w \in Workers : p.worker[v].task = p.worker[w].task => v = w \/ p.worker[v].task = Pool!NoTask
    /\ \A w \in Workers : ~Has(p.queue, p.worker[w].task)

\* A cancel takes the handlers before the worker has answered, and its late answer must not
\* find somebody else: handlers wait for a worker, what a worker was given has been asked
\* for, and the panels show as active who has handlers or waits in the queue.
Kept(p, show) ==
    /\ p \in Pools /\ Apart(p)
    /\ \A w \in Workers : /\ p.worker[w].run = "gone" => p.worker[w] = Pool!Gone
                          /\ p.worker[w].task # Pool!NoTask => show[p.worker[w].task] # "new"
    /\ \A t \in p.handlers : \E w \in Workers : p.worker[w].task = t
    /\ \A t \in Pool!Tasks : show[t] \in Pool!Active <=> t \in p.handlers \/ Has(p.queue, t)

Sorted(queue, rank) == \A i, j \in 1 .. Len(queue) : i < j => rank[queue[i]] <= rank[queue[j]]

\* Whoever waits has no worker to go to.
AllBusy(p, n) == p.queue # <<>> => Pool!Idle(p) = {} /\ Cardinality(Pool!Alive(p)) >= n

\* Computations are numbered as they are asked for.
InTurn(show) == \A t, u \in Pool!Tasks : u < t /\ show[t] # "new" => show[u] # "new"

\* A pool without workers.
NoneWorks(p) == \A w \in Workers : p.worker[w].run = "gone"

Shows == [Pool!Tasks -> {"new"} \cup Pool!Active \cup Pool!Ended]

PoolSettings ==
    /\ limit \in 0 .. Cardinality(Workers) /\ config \in 0 .. Cardinality(Workers)
    /\ tight \in BOOLEAN /\ waits \in BOOLEAN
    /\ shown \in Shows /\ priority \in [Pool!Tasks -> Ranks]
    /\ calculator \in {"none", "known", "kept"} /\ events \in 0 .. MaxEvents

\* A pool made for no workers was made with a 0 that was typed, and never has one.
RoomAsTyped == limit = 0 => config = 0 /\ NoneWorks(pool)

PoolInv ==
    /\ PoolSettings /\ Kept(pool, shown) /\ InTurn(shown) /\ Sorted(pool.queue, priority)
    /\ ~waits => AllBusy(pool, limit)
    /\ RoomAsTyped

-------------------------------------------------------------------------------
(* The queue *)

\* Of some numbers one is the least.
LEMMA LeastNumber ==
    ASSUME NEW S \in SUBSET Nat, S # {}
    PROVE  \E m \in S : \A k \in S : m <= k
<1> DEFINE R == {p \in Nat \X Nat : p[1] < p[2]}
<1>1. IsWellFoundedOn(R, Nat)
  BY NatLessThanWellFounded DEF OpToRel
<1>2. \E x \in S : \A y \in S : ~ (<<y, x>> \in R)
  BY <1>1, WFMin
<1>3. \A x, y \in Nat : <<y, x>> \in R <=> y < x
  OBVIOUS
<1>4. PICK x \in S : \A y \in S : ~ (<<y, x>> \in R)
  BY <1>2
<1>. HIDE DEF R
<1>5. \A y \in S : ~(y < x)
  BY <1>3, <1>4
<1>6. QED
  BY <1>5

LEMMA MinIs ==
    ASSUME NEW S \in SUBSET Nat, S # {}
    PROVE  Pool!Min(S) \in S /\ \A k \in S : Pool!Min(S) <= k
<1>1. \E m \in S : \A k \in S : m <= k
  BY LeastNumber
<1>2. QED
  BY <1>1 DEF Pool!Min

\* With t at place k, the others as they are.
JoinedAt(queue, longer, t, k) ==
    /\ Len(longer) = Len(queue) + 1
    /\ \A i \in 1 .. Len(longer) :
          longer[i] = IF i < k THEN queue[i] ELSE IF i = k THEN t ELSE queue[i - 1]

Joined(queue, longer, t) == \E k \in 1 .. Len(queue) + 1 : JoinedAt(queue, longer, t, k)

LEMMA CutAt ==
    ASSUME NEW S, NEW q \in Seq(S), NEW k \in 1 .. Len(q)
    PROVE  /\ SubSeq(q, 1, k - 1) \in Seq(S) /\ Len(SubSeq(q, 1, k - 1)) = k - 1
           /\ SubSeq(q, k, Len(q)) \in Seq(S) /\ Len(SubSeq(q, k, Len(q))) = Len(q) - k + 1
           /\ SubSeq(q, k + 1, Len(q)) \in Seq(S) /\ Len(SubSeq(q, k + 1, Len(q))) = Len(q) - k
           /\ \A i \in 1 .. k - 1 : SubSeq(q, 1, k - 1)[i] = q[i]
           /\ \A i \in 1 .. Len(q) - k + 1 : SubSeq(q, k, Len(q))[i] = q[k + i - 1]
           /\ \A i \in 1 .. Len(q) - k : SubSeq(q, k + 1, Len(q))[i] = q[k + i]
<1>1. Len(q) \in Nat /\ \A i \in 1 .. Len(q) : q[i] \in S
  OBVIOUS
<1>2. /\ SubSeq(q, 1, k - 1) \in Seq(S) /\ Len(SubSeq(q, 1, k - 1)) = k - 1
      /\ \A i \in 1 .. k - 1 : SubSeq(q, 1, k - 1)[i] = q[i]
  BY <1>1, SubSeqProperties
<1>3. /\ SubSeq(q, k, Len(q)) \in Seq(S) /\ Len(SubSeq(q, k, Len(q))) = Len(q) - k + 1
      /\ \A i \in 1 .. Len(q) - k + 1 : SubSeq(q, k, Len(q))[i] = q[k + i - 1]
  BY <1>1, SubSeqProperties
<1>4. /\ SubSeq(q, k + 1, Len(q)) \in Seq(S) /\ Len(SubSeq(q, k + 1, Len(q))) = Len(q) - k
      /\ \A i \in 1 .. Len(q) - k : SubSeq(q, k + 1, Len(q))[i] = q[k + i]
  BY <1>1, SubSeqProperties
<1>5. QED
  BY <1>2, <1>3, <1>4

LEMMA InsertJoins ==
    ASSUME NEW S, NEW q \in Seq(S), NEW t \in S, NEW k \in 1 .. Len(q)
    PROVE  Pool!InsertAt(q, k, t) \in Seq(S) /\ JoinedAt(q, Pool!InsertAt(q, k, t), t, k)
<1> DEFINE a == SubSeq(q, 1, k - 1)
           b == SubSeq(q, k, Len(q))
<1>1. /\ a \in Seq(S) /\ Len(a) = k - 1 /\ \A i \in 1 .. k - 1 : a[i] = q[i]
      /\ b \in Seq(S) /\ Len(b) = Len(q) - k + 1 /\ \A i \in 1 .. Len(q) - k + 1 : b[i] = q[k + i - 1]
  BY CutAt
<1>2. Pool!InsertAt(q, k, t) = a \o <<t>> \o b
  BY DEF Pool!InsertAt
<1>. HIDE DEF a, b
<1>3. /\ a \o <<t>> \in Seq(S) /\ Len(a \o <<t>>) = k
      /\ \A i \in 1 .. k : (a \o <<t>>)[i] = IF i < k THEN q[i] ELSE t
  BY <1>1
<1> DEFINE c == a \o <<t>>
<1>. HIDE DEF c
<1>4. c \in Seq(S) /\ Len(c) = k /\ \A i \in 1 .. k : c[i] = IF i < k THEN q[i] ELSE t
  BY <1>3 DEF c
<1> DEFINE r == c \o b
<1>5. /\ r \in Seq(S) /\ Len(r) = Len(c) + Len(b)
      /\ \A i \in 1 .. Len(c) + Len(b) : r[i] = IF i <= Len(c) THEN c[i] ELSE b[i - Len(c)]
  BY <1>1, <1>4, ConcatProperties
<1>. HIDE DEF r
<1>6. Len(r) = Len(q) + 1 /\ Len(q) \in Nat
  BY <1>1, <1>4, <1>5
<1>7. ASSUME NEW i \in 1 .. Len(q) + 1
      PROVE  r[i] = IF i < k THEN q[i] ELSE IF i = k THEN t ELSE q[i - 1]
  <2>1. r[i] = IF i <= k THEN c[i] ELSE b[i - k]
    BY <1>1, <1>4, <1>5, <1>6
  <2>2. CASE i <= k
    <3>1. i \in 1 .. k
      BY <2>2
    <3>2. i < k \/ i = k
      BY <2>2
    <3>3. QED
      BY <1>4, <2>1, <2>2, <3>1, <3>2
  <2>3. CASE i > k
    <3>1. i - k \in 1 .. Len(q) - k + 1 /\ k + (i - k) - 1 = i - 1
      BY <1>6, <2>3
    <3>2. ~(i <= k) /\ ~(i < k) /\ i # k
      BY <2>3
    <3>3. QED
      BY <1>1, <2>1, <3>1, <3>2
  <2>4. QED
    BY <2>2, <2>3
<1>8. QED
  BY <1>2, <1>5, <1>6, <1>7 DEF JoinedAt, c, r

LEMMA RemoveLeaves ==
    ASSUME NEW S, NEW q \in Seq(S), NEW t, Has(q, t)
    PROVE  Pool!RemoveFirst(q, t) \in Seq(S) /\ Joined(Pool!RemoveFirst(q, t), q, t)
<1> DEFINE I == {i \in 1 .. Len(q) : q[i] = t}
           k == Pool!Min(I)
           a == SubSeq(q, 1, k - 1)
           b == SubSeq(q, k + 1, Len(q))
<1>1. k \in 1 .. Len(q) /\ q[k] = t
  <2>1. I \in SUBSET Nat /\ I # {}
    BY DEF Has
  <2>2. k \in I
    BY <2>1, MinIs
  <2>3. QED
    BY <2>2
<1>2. Pool!RemoveFirst(q, t) = a \o b
  BY DEF Has, Pool!RemoveFirst, Pool!RemoveAt, Pool!SelectInSeq
<1>. HIDE DEF k
<1>3. /\ a \in Seq(S) /\ Len(a) = k - 1 /\ \A i \in 1 .. k - 1 : a[i] = q[i]
      /\ b \in Seq(S) /\ Len(b) = Len(q) - k /\ \A i \in 1 .. Len(q) - k : b[i] = q[k + i]
  BY <1>1, CutAt
<1>. HIDE DEF a, b
<1>4. a \o b \in Seq(S) /\ Len(a \o b) = Len(q) - 1
  <2>1. a \o b \in Seq(S) /\ Len(a \o b) = Len(a) + Len(b)
    BY <1>3, ConcatProperties
  <2>2. Len(q) \in Nat /\ k \in Nat
    BY <1>1
  <2>3. QED
    BY <1>3, <2>1, <2>2
<1>5. \A i \in 1 .. Len(q) - 1 : (a \o b)[i] = IF i <= k - 1 THEN a[i] ELSE b[i - (k - 1)]
  <2>1. \A i \in 1 .. Len(a) + Len(b) : (a \o b)[i] = IF i <= Len(a) THEN a[i] ELSE b[i - Len(a)]
    BY <1>3, ConcatProperties
  <2>2. Len(q) \in Nat /\ k \in Nat /\ Len(a) + Len(b) = Len(q) - 1
    BY <1>1, <1>3
  <2>3. QED
    BY <1>3, <2>1, <2>2
<1>6. \A i \in 1 .. Len(q) - 1 : (a \o b)[i] = IF i < k THEN q[i] ELSE q[i + 1]
  <2>1. ASSUME NEW i \in 1 .. Len(q) - 1, i >= k PROVE b[i - (k - 1)] = q[i + 1]
    <3>1. i - (k - 1) \in 1 .. Len(q) - k /\ k + (i - (k - 1)) = i + 1
      BY <1>1, <2>1
    <3>2. QED
      BY <1>3, <3>1
  <2>2. QED
    BY <1>1, <1>3, <1>5, <2>1
<1> DEFINE r == a \o b
<1>. HIDE DEF r
<1>7. JoinedAt(r, q, t, k) /\ k \in 1 .. Len(r) + 1
  <2>1. Len(r) = Len(q) - 1 /\ \A i \in 1 .. Len(q) - 1 : r[i] = IF i < k THEN q[i] ELSE q[i + 1]
    BY <1>4, <1>6 DEF r
  <2>2. Len(q) \in Nat
    OBVIOUS
  <2>3. ASSUME NEW i \in 1 .. Len(q), i > k PROVE r[i - 1] = q[i]
    <3>1. i - 1 \in 1 .. Len(q) - 1 /\ ~(i - 1 < k) /\ (i - 1) + 1 = i
      BY <1>1, <2>3
    <3>2. QED
      BY <2>1, <3>1
  <2>4. QED
    BY <1>1, <2>1, <2>2, <2>3 DEF JoinedAt
<1>8. QED
  BY <1>2, <1>4, <1>7 DEF Joined, r

\* Who is in the longer queue.
LEMMA JoinedHas ==
    ASSUME NEW S, NEW q \in Seq(S), NEW r \in Seq(S), NEW t \in S, Joined(q, r, t)
    PROVE  /\ \A u : Has(r, u) <=> u = t \/ Has(q, u)
           /\ Distinct(q) /\ ~Has(q, t) <=> Distinct(r)
<1>. PICK k \in 1 .. Len(q) + 1 : JoinedAt(q, r, t, k)
  BY DEF Joined
<1>1. Len(q) \in Nat /\ Len(r) = Len(q) + 1 /\ k \in 1 .. Len(r) /\ r[k] = t
  BY DEF JoinedAt
<1> DEFINE new(i) == IF i < k THEN i ELSE i + 1
<1>2. \A i \in 1 .. Len(q) : new(i) \in 1 .. Len(r) /\ r[new(i)] = q[i] /\ new(i) # k
  BY <1>1 DEF JoinedAt
<1>3. \A i \in 1 .. Len(r) : i # k => \E j \in 1 .. Len(q) : i = new(j)
  <2>. SUFFICES ASSUME NEW i \in 1 .. Len(r), i # k PROVE \E j \in 1 .. Len(q) : i = new(j)
    OBVIOUS
  <2>1. CASE i < k
    <3>1. i \in 1 .. Len(q) /\ i = new(i)
      BY <1>1, <2>1
    <3>2. QED
      BY <3>1
  <2>2. CASE i > k
    <3>1. i - 1 \in 1 .. Len(q) /\ i = new(i - 1)
      BY <1>1, <2>2
    <3>2. QED
      BY <3>1
  <2>3. QED
    BY <1>1, <2>1, <2>2
<1>4. \A i, j \in 1 .. Len(q) : new(i) = new(j) => i = j
  BY <1>1
<1>. HIDE DEF new
<1>5. \A u : Has(r, u) <=> u = t \/ Has(q, u)
  <2>1. ASSUME NEW u, Has(r, u) PROVE u = t \/ Has(q, u)
    <3>1. PICK i \in 1 .. Len(r) : r[i] = u
      BY <2>1 DEF Has
    <3>2. CASE i = k
      BY <1>1, <3>1, <3>2
    <3>3. CASE i # k
      BY <1>2, <1>3, <3>1, <3>3 DEF Has
    <3>4. QED
      BY <3>2, <3>3
  <2>2. Has(r, t)
    BY <1>1 DEF Has
  <2>3. ASSUME NEW u, Has(q, u) PROVE Has(r, u)
    BY <1>2, <2>3 DEF Has
  <2>4. QED
    BY <2>1, <2>2, <2>3
<1>6. ASSUME Distinct(q), ~Has(q, t) PROVE Distinct(r)
  <2>. SUFFICES ASSUME NEW i \in 1 .. Len(r), NEW j \in 1 .. Len(r), r[i] = r[j] PROVE i = j
    BY DEF Distinct
  <2>1. \A m \in 1 .. Len(r) : m # k => r[m] # t
    BY <1>2, <1>3, <1>6 DEF Has
  <2>2. i = k <=> j = k
    BY <1>1, <2>1
  <2>3. ASSUME i # k, j # k PROVE i = j
    <3>1. PICK a \in 1 .. Len(q), b \in 1 .. Len(q) : i = new(a) /\ j = new(b)
      BY <1>3, <2>3
    <3>2. a = b
      BY <1>2, <1>6, <3>1 DEF Distinct
    <3>3. QED
      BY <3>1, <3>2
  <2>4. QED
    BY <2>2, <2>3
<1>7. ASSUME Distinct(r) PROVE Distinct(q) /\ ~Has(q, t)
  <2>1. ASSUME NEW i \in 1 .. Len(q), NEW j \in 1 .. Len(q), q[i] = q[j] PROVE i = j
    <3>1. new(i) = new(j)
      BY <1>2, <1>7, <2>1 DEF Distinct
    <3>2. QED
      BY <1>4, <3>1
  <2>2. ASSUME NEW i \in 1 .. Len(q), q[i] = t PROVE FALSE
    BY <1>1, <1>2, <1>7, <2>2 DEF Distinct
  <2>3. QED
    BY <2>1, <2>2 DEF Has, Distinct
<1>8. QED
  BY <1>5, <1>6, <1>7

LEMMA JoinedSorted ==
    ASSUME NEW S, NEW q \in Seq(S), NEW r \in Seq(S), NEW t \in S, Joined(q, r, t),
           NEW rank \in [S -> Nat], Sorted(r, rank)
    PROVE  Sorted(q, rank)
<1>. PICK k \in 1 .. Len(q) + 1 : JoinedAt(q, r, t, k)
  BY DEF Joined
<1> DEFINE new(i) == IF i < k THEN i ELSE i + 1
<1>1. Len(q) \in Nat /\ Len(r) = Len(q) + 1
  BY DEF JoinedAt
<1>2. ASSUME NEW i \in 1 .. Len(q) PROVE new(i) \in 1 .. Len(r) /\ r[new(i)] = q[i]
  <2>1. new(i) \in 1 .. Len(r)
    BY <1>1
  <2>2. r[new(i)] = IF new(i) < k THEN q[new(i)] ELSE IF new(i) = k THEN t ELSE q[new(i) - 1]
    BY <2>1 DEF JoinedAt
  <2>3. CASE i < k
    BY <2>1, <2>2, <2>3
  <2>4. CASE ~(i < k)
    <3>1. new(i) = i + 1 /\ ~(i + 1 < k) /\ i + 1 # k /\ (i + 1) - 1 = i
      BY <1>1, <2>4
    <3>2. QED
      BY <2>1, <2>2, <3>1
  <2>5. QED
    BY <2>3, <2>4
<1>3. \A i, j \in 1 .. Len(q) : i < j => new(i) < new(j)
  BY <1>1
<1>. HIDE DEF new
<1>4. QED
  BY <1>2, <1>3 DEF Sorted

(* insertByPriority *)
LEMMA InsertedJoins ==
    ASSUME NEW q \in Seq(Pool!Tasks), NEW t \in Pool!Tasks,
           NEW rank \in [Pool!Tasks -> Nat], Sorted(q, rank)
    PROVE  /\ Pool!Inserted(q, t, rank) \in Seq(Pool!Tasks)
           /\ Joined(q, Pool!Inserted(q, t, rank), t) /\ Sorted(Pool!Inserted(q, t, rank), rank)
<1> DEFINE lower == {i \in DOMAIN q : rank[t] < rank[q[i]]}
           r == Pool!Inserted(q, t, rank)
<1>1. Len(q) \in Nat /\ DOMAIN q = 1 .. Len(q) /\ \A i \in 1 .. Len(q) : q[i] \in Pool!Tasks
  OBVIOUS
<1>2. \E k \in 1 .. Len(q) + 1 :
          /\ r \in Seq(Pool!Tasks) /\ JoinedAt(q, r, t, k)
          /\ \A i \in 1 .. Len(q) : IF i < k THEN rank[q[i]] <= rank[t] ELSE rank[t] <= rank[q[i]]
  <2>1. CASE lower = {}
    <3>1. r = Append(q, t)
      BY <2>1 DEF Pool!Inserted
    <3>2. r \in Seq(Pool!Tasks) /\ JoinedAt(q, r, t, Len(q) + 1)
      <4>. HIDE DEF r
      <4>1. QED
        BY <1>1, <3>1, AppendProperties DEF JoinedAt
    <3>3. \A i \in 1 .. Len(q) : ~(rank[t] < rank[q[i]]) /\ rank[t] \in Nat /\ rank[q[i]] \in Nat
      BY <1>1, <2>1
    <3> DEFINE n == Len(q) + 1
    <3>4. n \in 1 .. Len(q) + 1 /\ JoinedAt(q, r, t, n)
      BY <1>1, <3>2
    <3>5. \A i \in 1 .. Len(q) : i < n /\ rank[q[i]] <= rank[t]
      BY <1>1, <3>3
    <3>6. \A i \in 1 .. Len(q) : IF i < n THEN rank[q[i]] <= rank[t] ELSE rank[t] <= rank[q[i]]
      <4>. HIDE DEF n
      <4>1. QED
        BY <3>5
    <3>7. r \in Seq(Pool!Tasks)
      BY <3>2
    <3>. HIDE DEF r, n, lower
    <3>8. QED
      BY <3>4, <3>6, <3>7
  <2>2. CASE lower # {}
    <3> DEFINE k == Pool!Min(lower)
    <3>1. k \in lower /\ \A i \in lower : k <= i
      <4>1. lower \in SUBSET Nat
        BY <1>1
      <4>. HIDE DEF lower
      <4>2. QED
        BY <2>2, <4>1, MinIs
    <3>2. r = Pool!InsertAt(q, k, t)
      BY <2>2 DEF Pool!Inserted
    <3>. HIDE DEF k
    <3>3. k \in 1 .. Len(q) /\ rank[t] < rank[q[k]]
      BY <1>1, <3>1
    <3>. HIDE DEF r
    <3>4. r \in Seq(Pool!Tasks) /\ JoinedAt(q, r, t, k)
      BY <3>2, <3>3, InsertJoins
    <3>5. ASSUME NEW i \in 1 .. Len(q) PROVE IF i < k THEN rank[q[i]] <= rank[t] ELSE rank[t] <= rank[q[i]]
      <4>1. rank[t] \in Nat /\ rank[q[i]] \in Nat /\ rank[q[k]] \in Nat
        BY <1>1, <3>3
      <4>2. CASE i < k
        <5>1. ~(rank[t] < rank[q[i]])
          BY <1>1, <3>1, <3>3, <4>2
        <5>2. QED
          BY <4>1, <4>2, <5>1
      <4>3. CASE i >= k
        <5>1. i = k \/ rank[q[k]] <= rank[q[i]]
          BY <3>3, <4>3 DEF Sorted
        <5>2. QED
          BY <3>3, <4>1, <4>3, <5>1
      <4>4. QED
        BY <3>3, <4>2, <4>3
    <3>6. k \in 1 .. Len(q) + 1
      BY <1>1, <3>3
    <3>. HIDE DEF lower
    <3>7. QED
      BY <3>4, <3>5, <3>6, Zenon
  <2>3. QED
    BY <2>1, <2>2
<1>. HIDE DEF r
<1>. PICK k \in 1 .. Len(q) + 1 :
          /\ r \in Seq(Pool!Tasks) /\ JoinedAt(q, r, t, k)
          /\ \A i \in 1 .. Len(q) : IF i < k THEN rank[q[i]] <= rank[t] ELSE rank[t] <= rank[q[i]]
  BY <1>2
<1>3. Sorted(r, rank)
  <2>. SUFFICES ASSUME NEW i \in 1 .. Len(r), NEW j \in 1 .. Len(r), i < j PROVE rank[r[i]] <= rank[r[j]]
    BY DEF Sorted
  <2>1. Len(r) = Len(q) + 1 /\ r[i] = (IF i < k THEN q[i] ELSE IF i = k THEN t ELSE q[i - 1])
        /\ r[j] = (IF j < k THEN q[j] ELSE IF j = k THEN t ELSE q[j - 1])
    BY DEF JoinedAt
  <2>2. \A x, y \in 1 .. Len(q) : x < y => rank[q[x]] <= rank[q[y]]
    BY DEF Sorted
  <2>20. k \in Int /\ k >= 1 /\ i \in Int /\ j \in Int /\ j <= Len(q) + 1
    BY <1>1, <2>1
  <2>3. CASE j < k
    BY <1>1, <2>1, <2>2, <2>3
  <2>4. CASE j = k
    BY <1>1, <2>1, <2>4
  <2>5. CASE j > k /\ i = k
    <3>1. j - 1 \in 1 .. Len(q) /\ ~(j - 1 < k)
      BY <1>1, <2>1, <2>5
    <3>2. QED
      BY <2>1, <2>5, <3>1
  <2>6. CASE j > k /\ i > k
    <3>1. i - 1 \in 1 .. Len(q) /\ j - 1 \in 1 .. Len(q) /\ i - 1 < j - 1
      BY <1>1, <2>6, <2>20
    <3>2. ~(i < k) /\ i # k /\ ~(j < k) /\ j # k
      BY <2>6, <2>20
    <3>3. r[i] = q[i - 1] /\ r[j] = q[j - 1]
      BY <2>1, <3>2
    <3>4. QED
      BY <2>2, <3>1, <3>3
  <2>7. CASE j > k /\ i < k
    <3>1. j - 1 \in 1 .. Len(q) /\ i \in 1 .. Len(q) /\ ~(j - 1 < k)
      BY <1>1, <2>1, <2>7
    <3>2. rank[q[i]] <= rank[t] /\ rank[t] <= rank[q[j - 1]]
      BY <2>7, <3>1
    <3>3. rank[q[i]] \in Nat /\ rank[t] \in Nat /\ rank[q[j - 1]] \in Nat
      BY <1>1, <3>1
    <3>4. r[i] = q[i] /\ r[j] = q[j - 1]
      BY <2>1, <2>7, <2>20
    <3>5. QED
      BY <3>2, <3>3, <3>4
  <2>8. QED
    BY <2>3, <2>4, <2>5, <2>6, <2>7
<1>4. QED
  BY <1>3 DEF Joined, r

-------------------------------------------------------------------------------
(* processQueue *)

LEMMA SameCount == \A S : Pool!Cardinality(S) = Cardinality(S)
BY DEF Pool!Cardinality, Cardinality, Pool!IsFiniteSet, IsFiniteSet

LEMMA WorkerTypes ==
    ASSUME NEW p \in Pools, NEW w \in Workers
    PROVE  /\ p.worker[w] \in Pool!WorkerStates
           /\ p.worker[w].task \in Pool!Tasks \cup {Pool!NoTask} /\ p.worker[w].news \in Pool!News
           /\ p.queue \in Seq(Pool!Tasks) /\ Len(p.queue) \in Nat
           /\ \A i \in 1 .. Len(p.queue) : p.queue[i] \in Pool!Tasks
           /\ p.handlers \subseteq Pool!Tasks
           /\ Pool!NoTask \notin Pool!Tasks
<1>1. p.worker[w] \in Pool!WorkerStates /\ p.queue \in Seq(Pool!Tasks) /\ p.handlers \subseteq Pool!Tasks
  BY DEF Pools
<1>2. p.worker[w].task \in Pool!Tasks \cup {Pool!NoTask} /\ p.worker[w].news \in Pool!News
  BY <1>1 DEF Pool!WorkerStates
<1>3. Len(p.queue) \in Nat /\ \A i \in 1 .. Len(p.queue) : p.queue[i] \in Pool!Tasks
  BY <1>1
<1>4. QED
  BY <1>1, <1>2, <1>3 DEF Pool!NoTask, Pool!Tasks

\* The first k of the queue go to the first k of some workers.
Given(p, free, k) ==
    [queue |-> SubSeq(p.queue, k + 1, Len(p.queue)),
     handlers |-> p.handlers \cup {p.queue[i] : i \in 1 .. k},
     worker |-> [w \in Workers |->
        IF \E i \in 1 .. k : free[i] = w
        THEN Pool!Started(p.worker[w], p.queue[CHOOSE i \in 1 .. k : free[i] = w])
        ELSE p.worker[w]]]

IsGiven(p, free, k, r) ==
    /\ r \in Pools
    /\ Len(r.queue) = Len(p.queue) - k /\ \A i \in 1 .. Len(r.queue) : r.queue[i] = p.queue[k + i]
    /\ r.handlers = p.handlers \cup {p.queue[i] : i \in 1 .. k}
    /\ \A i \in 1 .. k : /\ free[i] \in Workers
                         /\ r.worker[free[i]].task = p.queue[i] /\ r.worker[free[i]].run = "running"
    /\ \A w \in Workers : (\A i \in 1 .. k : free[i] # w) => r.worker[w] = p.worker[w]

LEMMA GivenIs ==
    ASSUME NEW p \in Pools, NEW free \in Seq(Workers), Distinct(free),
           NEW k \in Nat, k <= Len(p.queue), k <= Len(free),
           NEW r, r = Given(p, free, k)
    PROVE  IsGiven(p, free, k, r)
<1>1. /\ p.queue \in Seq(Pool!Tasks) /\ Len(p.queue) \in Nat /\ Len(free) \in Nat
      /\ \A i \in 1 .. Len(p.queue) : p.queue[i] \in Pool!Tasks
      /\ \A i \in 1 .. k : free[i] \in Workers /\ i \in 1 .. Len(p.queue) /\ i \in 1 .. Len(free)
      /\ p.handlers \subseteq Pool!Tasks
  BY DEF Pools
<1>2. /\ r.queue = SubSeq(p.queue, k + 1, Len(p.queue))
      /\ r.handlers = p.handlers \cup {p.queue[i] : i \in 1 .. k}
      /\ r.worker = [w \in Workers |->
            IF \E i \in 1 .. k : free[i] = w
            THEN Pool!Started(p.worker[w], p.queue[CHOOSE i \in 1 .. k : free[i] = w])
            ELSE p.worker[w]]
      /\ r = [queue |-> r.queue, handlers |-> r.handlers, worker |-> r.worker]
  BY DEF Given
<1>3. /\ r.queue \in Seq(Pool!Tasks) /\ Len(r.queue) = Len(p.queue) - k
      /\ \A i \in 1 .. Len(r.queue) : r.queue[i] = p.queue[k + i]
  <2> DEFINE n == Len(p.queue)
             q == p.queue
             s == SubSeq(q, k + 1, n)
  <2>1. \A i \in k + 1 .. n : q[i] \in Pool!Tasks
    BY <1>1
  <2>. n \in Nat /\ k <= n
    BY <1>1
  <2>. HIDE DEF n, q
  <2>2. /\ s \in Seq(Pool!Tasks) /\ Len(s) = (IF k + 1 <= n THEN n - (k + 1) + 1 ELSE 0)
        /\ \A i \in 1 .. n - (k + 1) + 1 : s[i] = q[(k + 1) + i - 1]
    BY <2>1, SubSeqProperties
  <2>. HIDE DEF s
  <2>3. Len(s) = n - k /\ n - (k + 1) + 1 = n - k
    BY <2>2
  <2>4. \A i \in 1 .. n - k : (k + 1) + i - 1 = k + i
    OBVIOUS
  <2>5. \A i \in 1 .. Len(s) : s[i] = q[k + i]
    BY <2>2, <2>3, <2>4
  <2>6. QED
    BY <1>2, <2>2, <2>3, <2>5 DEF s, q, n
<1>4. r.handlers \subseteq Pool!Tasks
  BY <1>1, <1>2
<1>5. ASSUME NEW i \in 1 .. k
      PROVE  free[i] \in Workers /\ r.worker[free[i]] = Pool!Started(p.worker[free[i]], p.queue[i])
  <2>1. (CHOOSE j \in 1 .. k : free[j] = free[i]) = i
    <3>1. \A j \in 1 .. k : free[j] = free[i] => j = i
      BY <1>1 DEF Distinct
    <3>2. QED
      BY <3>1
  <2>2. QED
    BY <1>1, <1>2, <2>1
<1>6. \A w \in Workers : (\A i \in 1 .. k : free[i] # w) => r.worker[w] = p.worker[w]
  BY <1>2
<1>7. ASSUME NEW i \in 1 .. k
      PROVE  /\ r.worker[free[i]] \in Pool!WorkerStates
             /\ r.worker[free[i]].task = p.queue[i] /\ r.worker[free[i]].run = "running"
  <2>1. free[i] \in Workers /\ p.queue[i] \in Pool!Tasks
    BY <1>1
  <2>2. p.worker[free[i]].news \in Pool!News
    BY <2>1, WorkerTypes
  <2>3. r.worker[free[i]] = Pool!Started(p.worker[free[i]], p.queue[i])
    BY <1>5
  <2>4. QED
    BY <2>1, <2>2, <2>3 DEF Pool!Started, Pool!WorkerStates, Pool!News
<1>8. r.worker \in [Workers -> Pool!WorkerStates]
  <2>1. \A w \in Workers : r.worker[w] \in Pool!WorkerStates
    BY <1>6, <1>7, WorkerTypes
  <2>2. QED
    BY <1>2, <2>1
<1>9. r \in Pools
  BY <1>2, <1>3, <1>4, <1>8 DEF Pools
<1>10. QED
  BY <1>2, <1>3, <1>5, <1>6, <1>7, <1>9 DEF IsGiven

LEMMA GivenKeeps ==
    ASSUME NEW p, NEW show, Kept(p, show), NEW free \in Seq(Workers), Distinct(free),
           NEW k \in Nat, k <= Len(p.queue), k <= Len(free),
           \A i \in 1 .. k : p.worker[free[i]].task = Pool!NoTask,
           NEW r, r = Given(p, free, k),
           NEW rank \in [Pool!Tasks -> Nat], Sorted(p.queue, rank)
    PROVE  Kept(r, show) /\ Sorted(r.queue, rank)
<1>1. p \in Pools /\ Apart(p)
  BY DEF Kept
<1>2. /\ r \in Pools
      /\ Len(r.queue) = Len(p.queue) - k /\ \A i \in 1 .. Len(r.queue) : r.queue[i] = p.queue[k + i]
      /\ r.handlers = p.handlers \cup {p.queue[i] : i \in 1 .. k}
      /\ \A i \in 1 .. k : /\ free[i] \in Workers
                           /\ r.worker[free[i]].task = p.queue[i] /\ r.worker[free[i]].run = "running"
      /\ \A w \in Workers : (\A i \in 1 .. k : free[i] # w) => r.worker[w] = p.worker[w]
  <2>1. IsGiven(p, free, k, r)
    BY <1>1, GivenIs
  <2>2. QED
    BY <2>1 DEF IsGiven
<1>3. /\ Len(p.queue) \in Nat
      /\ \A i \in 1 .. k : i \in 1 .. Len(p.queue)
      /\ \A i \in 1 .. Len(r.queue) : k + i \in 1 .. Len(p.queue) /\ k + i \notin 1 .. k
      /\ \A i \in 1 .. Len(p.queue) : p.queue[i] \in Pool!Tasks
      /\ p.handlers \subseteq Pool!Tasks /\ Pool!NoTask \notin Pool!Tasks
  <2>1. p.queue \in Seq(Pool!Tasks) /\ p.handlers \subseteq Pool!Tasks /\ Pool!NoTask \notin Pool!Tasks
    BY <1>1 DEF Pools, Pool!NoTask, Pool!Tasks
  <2>2. Len(p.queue) \in Nat /\ \A i \in 1 .. Len(p.queue) : p.queue[i] \in Pool!Tasks
    BY <2>1
  <2>3. Len(r.queue) = Len(p.queue) - k
    BY <1>2
  <2>4. QED
    BY <2>1, <2>2, <2>3
<1>4. \A w \in Workers :
          \/ \E i \in 1 .. k : w = free[i] /\ r.worker[w].task = p.queue[i] /\ r.worker[w].run = "running"
          \/ r.worker[w] = p.worker[w] /\ \A i \in 1 .. k : free[i] # w
  BY <1>2
<1>5. \A t : Has(r.queue, t) => \E i \in 1 .. Len(p.queue) : i \notin 1 .. k /\ p.queue[i] = t
  BY <1>2, <1>3 DEF Has
<1>6. \A t : Has(p.queue, t) => Has(r.queue, t) \/ \E i \in 1 .. k : p.queue[i] = t
  <2>. SUFFICES ASSUME NEW i \in 1 .. Len(p.queue), i \notin 1 .. k PROVE Has(r.queue, p.queue[i])
    BY DEF Has
  <2>1. i - k \in 1 .. Len(r.queue) /\ k + (i - k) = i
    BY <1>2, <1>3
  <2>2. QED
    BY <1>2, <2>1 DEF Has
<1>7. Apart(r)
  <2>1. Distinct(r.queue)
    <3>. SUFFICES ASSUME NEW i \in 1 .. Len(r.queue), NEW j \in 1 .. Len(r.queue), r.queue[i] = r.queue[j]
         PROVE  i = j
      BY DEF Distinct
    <3>1. p.queue[k + i] = p.queue[k + j] /\ k + i \in 1 .. Len(p.queue) /\ k + j \in 1 .. Len(p.queue)
      BY <1>2, <1>3
    <3>2. k + i = k + j
      BY <1>1, <3>1, Zenon DEF Apart, Distinct
    <3>3. QED
      BY <3>2
  <2>2. ASSUME NEW v \in Workers, NEW w \in Workers, r.worker[v].task = r.worker[w].task,
               r.worker[v].task # Pool!NoTask
        PROVE  v = w
    <3>. /\ Distinct(p.queue) /\ \A x \in Workers : ~Has(p.queue, p.worker[x].task)
         /\ \A i \in 1 .. k : i \in 1 .. Len(p.queue)
      BY <1>1, <1>3 DEF Apart
    <3>1. ASSUME NEW x \in Workers, NEW y \in Workers, r.worker[x].task = r.worker[y].task,
                 NEW i \in 1 .. k, x = free[i], r.worker[x].task = p.queue[i]
          PROVE  x = y
      <4>1. Has(p.queue, r.worker[y].task)
        BY <3>1 DEF Has
      <4>2. r.worker[y] # p.worker[y]
        BY <4>1
      <4>3. PICK j \in 1 .. k : y = free[j] /\ r.worker[y].task = p.queue[j]
        BY <1>4, <4>2
      <4>4. i = j
        BY <3>1, <4>3 DEF Distinct
      <4>5. QED
        BY <3>1, <4>3, <4>4
    <3>2. CASE \E i \in 1 .. k : v = free[i] /\ r.worker[v].task = p.queue[i]
      BY <2>2, <3>2, <3>1
    <3>3. CASE \E i \in 1 .. k : w = free[i] /\ r.worker[w].task = p.queue[i]
      BY <2>2, <3>3, <3>1
    <3>4. CASE r.worker[v] = p.worker[v] /\ r.worker[w] = p.worker[w]
      BY <1>1, <2>2, <3>4 DEF Apart
    <3>5. QED
      BY <1>4, <3>2, <3>3, <3>4
  <2>3. ASSUME NEW w \in Workers, Has(r.queue, r.worker[w].task) PROVE FALSE
    <3>1. PICK j \in 1 .. Len(p.queue) : j \notin 1 .. k /\ p.queue[j] = r.worker[w].task
      BY <1>5, <2>3
    <3>2. CASE \E i \in 1 .. k : w = free[i] /\ r.worker[w].task = p.queue[i]
      BY <1>1, <1>3, <3>1, <3>2 DEF Apart, Distinct
    <3>3. CASE r.worker[w] = p.worker[w]
      BY <1>1, <3>1, <3>3 DEF Apart, Has
    <3>4. QED
      BY <1>4, <3>2, <3>3
  <2>4. QED
    BY <2>1, <2>2, <2>3 DEF Apart
<1>8. ASSUME NEW w \in Workers
      PROVE  /\ r.worker[w].run = "gone" => r.worker[w] = Pool!Gone
             /\ r.worker[w].task # Pool!NoTask => show[r.worker[w].task] # "new"
  <2>1. CASE \E i \in 1 .. k : w = free[i] /\ r.worker[w].task = p.queue[i] /\ r.worker[w].run = "running"
    <3>1. Has(p.queue, r.worker[w].task) /\ r.worker[w].task \in Pool!Tasks
      BY <1>3, <2>1 DEF Has
    <3>2. show[r.worker[w].task] \in Pool!Active
      BY <3>1 DEF Kept
    <3>3. QED
      BY <2>1, <3>2 DEF Pool!Active
  <2>2. CASE r.worker[w] = p.worker[w]
    BY <2>2 DEF Kept
  <2>3. QED
    BY <1>4, <2>1, <2>2
<1>9. ASSUME NEW t \in r.handlers PROVE \E w \in Workers : r.worker[w].task = t
  <2>1. CASE t \in p.handlers
    <3>1. PICK w \in Workers : p.worker[w].task = t
      BY <2>1 DEF Kept
    <3>2. t # Pool!NoTask
      BY <1>3, <2>1
    <3>3. r.worker[w] = p.worker[w]
      BY <1>2, <3>1, <3>2
    <3>4. QED
      BY <3>1, <3>3
  <2>2. CASE t \in {p.queue[i] : i \in 1 .. k}
    BY <1>2, <2>2
  <2>3. QED
    BY <1>2, <2>1, <2>2
<1>10. ASSUME NEW t \in Pool!Tasks
       PROVE  show[t] \in Pool!Active <=> t \in r.handlers \/ Has(r.queue, t)
  <2>1. show[t] \in Pool!Active <=> t \in p.handlers \/ Has(p.queue, t)
    BY DEF Kept
  <2>2. Has(r.queue, t) \/ t \in {p.queue[i] : i \in 1 .. k} => Has(p.queue, t)
    BY <1>3, <1>5 DEF Has
  <2>3. QED
    BY <1>2, <1>6, <2>1, <2>2
<1>11. Sorted(r.queue, rank)
  <2>. SUFFICES ASSUME NEW i \in 1 .. Len(r.queue), NEW j \in 1 .. Len(r.queue), i < j
       PROVE  rank[r.queue[i]] <= rank[r.queue[j]]
    BY DEF Sorted
  <2>1. k + i < k + j /\ k + i \in 1 .. Len(p.queue) /\ k + j \in 1 .. Len(p.queue)
    BY <1>3
  <2>2. rank[p.queue[k + i]] <= rank[p.queue[k + j]]
    BY <2>1 DEF Sorted
  <2>3. QED
    BY <1>2, <2>2
<1>12. QED
  BY <1>2, <1>7, <1>8, <1>9, <1>10, <1>11 DEF Kept

(* SetToSeq *)
LEMMA InSomeOrder ==
    ASSUME NEW S, IsFiniteSet(S)
    PROVE  /\ Pool!SetToSeq(S) \in Seq(S) /\ Len(Pool!SetToSeq(S)) = Cardinality(S)
           /\ Distinct(Pool!SetToSeq(S))
           /\ \A x \in S : Has(Pool!SetToSeq(S), x)
<1> DEFINE n == Cardinality(S)
           f == Pool!SetToSeq(S)
<1>1. n \in Nat /\ ExistsBijection(1 .. n, S)
  BY FS_CardinalityType
<1>2. f = CHOOSE g \in [1 .. n -> S] : Pool!IsInjective(g)
  BY SameCount DEF Pool!SetToSeq
<1>3. \E g \in [1 .. n -> S] : Pool!IsInjective(g)
  <2>1. PICK g \in Bijection(1 .. n, S) : TRUE
    BY <1>1 DEF ExistsBijection
  <2>2. g \in [1 .. n -> S] /\ \A i, j \in 1 .. n : g[i] = g[j] => i = j
    BY <2>1, Fun_BijectionProperties
  <2>. HIDE DEF n
  <2>3. QED
    BY <2>2 DEF Pool!IsInjective
<1>. HIDE DEF f, n
<1>4. f \in [1 .. n -> S] /\ Pool!IsInjective(f)
  BY <1>2, <1>3
<1>5. \A i, j \in 1 .. n : f[i] = f[j] => i = j
  BY <1>4 DEF Pool!IsInjective
<1>6. f \in Injection(1 .. n, S)
  BY <1>4, <1>5, Fun_IsInj
<1>7. \A x \in S : \E i \in 1 .. n : f[i] = x
  <2>1. Cardinality(1 .. n) = n
    BY <1>1, FS_Interval
  <2>2. f \in Surjection(1 .. n, S)
    BY <1>6, <2>1, FS_Injection DEF n
  <2>3. QED
    BY <2>2 DEF Surjection
<1>8. f \in Seq(S) /\ Len(f) = n
  BY <1>1, <1>4
<1>9. QED
  BY <1>5, <1>7, <1>8 DEF Distinct, Has, f, n

\* The workers that are alive, and those that may still be made.
Room(p, n) == n - Pool!Cardinality(Pool!Alive(p))

Free(p, n) ==
    Pool!SetToSeq(Pool!Idle(p))
        \o SubSeq(Pool!SetToSeq(Workers \ Pool!Alive(p)), 1, IF Room(p, n) > 0 THEN Room(p, n) ELSE 0)

LEMMA FreeOnes ==
    ASSUME NEW p, NEW show, Kept(p, show), NEW n \in 0 .. Cardinality(Workers)
    PROVE  /\ Free(p, n) \in Seq(Workers) /\ Distinct(Free(p, n))
           /\ \A i \in 1 .. Len(Free(p, n)) : p.worker[Free(p, n)[i]].task = Pool!NoTask
           /\ \A w \in Pool!Idle(p) : Has(Free(p, n), w)
           /\ \E S \in SUBSET (Workers \ Pool!Alive(p)) :
                 /\ Cardinality(Pool!Alive(p)) + Cardinality(S) >= n
                 /\ \A w \in S : Has(Free(p, n), w)
           /\ n = 0 /\ NoneWorks(p) => Len(Free(p, n)) = 0
<1> DEFINE A == Pool!Alive(p)
           I == Pool!Idle(p)
           idle == Pool!SetToSeq(I)
           fresh == Pool!SetToSeq(Workers \ A)
           a == Cardinality(I)
           b == Cardinality(Workers \ A)
           m == IF Room(p, n) > 0 THEN Room(p, n) ELSE 0
           new == SubSeq(fresh, 1, m)
           free == Free(p, n)
<1>1. /\ A \subseteq Workers /\ I \subseteq A
      /\ \A w \in I : p.worker[w].task = Pool!NoTask
      /\ \A w \in Workers \ A : p.worker[w].task = Pool!NoTask
      /\ NoneWorks(p) => A = {} /\ I = {}
  BY DEF Pool!Alive, Pool!Idle, Kept, Pool!Gone, NoneWorks
<1>2. /\ IsFiniteSet(A) /\ IsFiniteSet(I) /\ IsFiniteSet(Workers \ A) /\ IsFiniteSet(Workers)
      /\ a \in Nat /\ b \in Nat /\ Cardinality(A) \in Nat /\ Cardinality(Workers) \in Nat
      /\ Cardinality(A) + b = Cardinality(Workers)
  <2>1. IsFiniteSet(Workers)
    BY PoolAssumption
  <2>2. IsFiniteSet(A) /\ IsFiniteSet(I)
    BY <1>1, <2>1, FS_Subset
  <2>3. IsFiniteSet(Workers \ A) /\ b = Cardinality(Workers) - Cardinality(Workers \cap A)
    BY <2>1, FS_Difference
  <2>4. Workers \cap A = A
    BY <1>1
  <2>5. b = Cardinality(Workers) - Cardinality(A)
    BY <2>3, <2>4
  <2>6. Cardinality(A) \in Nat /\ Cardinality(Workers) \in Nat /\ a \in Nat /\ b \in Nat
    BY <2>1, <2>2, <2>3, FS_CardinalityType
  <2>7. QED
    <3>. HIDE DEF A, I, a, b
    <3>1. QED
      BY <2>1, <2>2, <2>3, <2>5, <2>6
<1>. HIDE DEF A, I
<1>3. m \in 0 .. b /\ Cardinality(A) + m >= n
  BY <1>2, SameCount DEF Room, A
<1>30. n = 0 => m = 0
  BY <1>2, SameCount DEF Room, A
<1>31. NoneWorks(p) => a = 0
  BY <1>1, FS_EmptySet
<1>4. /\ idle \in Seq(I) /\ Len(idle) = a /\ Distinct(idle) /\ \A w \in I : Has(idle, w)
      /\ fresh \in Seq(Workers \ A) /\ Len(fresh) = b /\ Distinct(fresh)
  BY <1>2, InSomeOrder
<1>. HIDE DEF idle, fresh, a, b, m
<1>5. /\ new \in Seq(Workers \ A) /\ Len(new) = m /\ \A i \in 1 .. m : new[i] = fresh[i]
  <2>1. \A i \in 1 .. m : fresh[i] \in Workers \ A
    BY <1>2, <1>3, <1>4
  <2>2. m \in Int
    BY <1>2, <1>3
  <2>3. /\ new \in Seq(Workers \ A) /\ Len(new) = (IF 1 <= m THEN m - 1 + 1 ELSE 0)
        /\ \A i \in 1 .. m - 1 + 1 : new[i] = fresh[1 + i - 1]
    BY <2>1, <2>2, SubSeqProperties
  <2>. HIDE DEF new
  <2>4. Len(new) = m /\ m - 1 + 1 = m /\ \A i \in 1 .. m : 1 + i - 1 = i
    BY <1>2, <1>3, <2>3
  <2>5. QED
    BY <2>3, <2>4
<1>6. free = idle \o new
  BY DEF Free, idle, fresh, m, new, A, I
<1>. HIDE DEF free, new
<1>7. /\ free \in Seq(Workers) /\ Len(free) = a + m
      /\ \A i \in 1 .. a + m : free[i] = IF i <= a THEN idle[i] ELSE new[i - a]
  <2>1. idle \in Seq(Workers) /\ new \in Seq(Workers)
    BY <1>1, <1>4, <1>5, SeqMonotonic
  <2>2. QED
    BY <1>4, <1>5, <1>6, <2>1, ConcatProperties
<1>8. \A i \in 1 .. a + m : \/ i \in 1 .. a /\ free[i] = idle[i] /\ free[i] \in I
                            \/ i - a \in 1 .. m /\ free[i] = fresh[i - a] /\ free[i] \in Workers \ A
  <2>. SUFFICES ASSUME NEW i \in 1 .. a + m
       PROVE  \/ i \in 1 .. a /\ free[i] = idle[i] /\ free[i] \in I
              \/ i - a \in 1 .. m /\ free[i] = fresh[i - a] /\ free[i] \in Workers \ A
    OBVIOUS
  <2>1. CASE i <= a
    BY <1>2, <1>4, <1>7, <2>1
  <2>2. CASE i > a
    <3>1. i - a \in 1 .. m
      BY <1>2, <1>3, <2>2
    <3>2. new[i - a] = fresh[i - a] /\ new[i - a] \in Workers \ A
      BY <1>5, <3>1, ElementOfSeq
    <3>3. QED
      BY <1>2, <1>7, <2>2, <3>1, <3>2
  <2>3. QED
    BY <1>2, <2>1, <2>2
<1>9. Distinct(free)
  <2>. SUFFICES ASSUME NEW i \in 1 .. a + m, NEW j \in 1 .. a + m, free[i] = free[j] PROVE i = j
    BY <1>7 DEF Distinct
  <2>1. CASE i \in 1 .. a /\ j \in 1 .. a /\ free[i] = idle[i] /\ free[j] = idle[j]
    BY <1>4, <2>1 DEF Distinct
  <2>2. CASE i - a \in 1 .. m /\ j - a \in 1 .. m /\ free[i] = fresh[i - a] /\ free[j] = fresh[j - a]
    <3>1. i - a \in 1 .. b /\ j - a \in 1 .. b
      BY <1>2, <1>3, <2>2
    <3>2. i - a = j - a
      BY <1>4, <2>2, <3>1 DEF Distinct
    <3>3. QED
      BY <1>2, <3>2
  <2>3. QED
    BY <1>1, <1>8, <2>1, <2>2
<1>10. \A i \in 1 .. a + m : p.worker[free[i]].task = Pool!NoTask
  BY <1>1, <1>8
<1>11. \A w \in I : Has(free, w)
  <2>. SUFFICES ASSUME NEW i \in 1 .. a PROVE Has(free, idle[i])
    BY <1>4 DEF Has
  <2>1. i \in 1 .. a + m /\ i <= a
    BY <1>2, <1>3
  <2>2. QED
    BY <1>7, <2>1 DEF Has
<1> DEFINE S == {fresh[i] : i \in 1 .. m}
<1>12. /\ S \in SUBSET (Workers \ A) /\ \A w \in S : Has(free, w)
       /\ Cardinality(A) + Cardinality(S) >= n
  <2>1. S \subseteq Workers \ A
    BY <1>5, ElementOfSeq
  <2>2. ASSUME NEW i \in 1 .. m PROVE Has(free, fresh[i])
    <3>1. a + i \in 1 .. a + m /\ ~(a + i <= a) /\ (a + i) - a = i
      BY <1>2, <1>3
    <3>2. QED
      BY <1>5, <1>7, <3>1 DEF Has
  <2>3. m <= Cardinality(S)
    <3> DEFINE g == [i \in 1 .. m |-> fresh[i]]
    <3>1. g \in Injection(1 .. m, S)
      <4>1. \A i, j \in 1 .. m : fresh[i] = fresh[j] => i = j
        BY <1>2, <1>3, <1>4 DEF Distinct
      <4>2. QED
        BY <4>1, Fun_IsInj
    <3>2. IsFiniteSet(S)
      BY <1>2, <2>1, FS_Subset
    <3>3. Cardinality(1 .. m) <= Cardinality(S)
      <4>. HIDE DEF g, S
      <4>1. QED
        BY <3>1, <3>2, FS_Injection
    <3>4. Cardinality(1 .. m) = m
      BY <1>2, <1>3, FS_Interval
    <3>5. QED
      BY <3>3, <3>4
  <2>4. Cardinality(S) \in Nat
    BY <1>2, <2>1, FS_Subset, FS_CardinalityType
  <2>5. QED
    <3>. HIDE DEF S
    <3>1. QED
      BY <1>2, <1>3, <2>1, <2>2, <2>3, <2>4 DEF S
<1>13. n = 0 /\ NoneWorks(p) => Len(free) = 0
  BY <1>7, <1>30, <1>31
<1>14. QED
  BY <1>7, <1>9, <1>10, <1>11, <1>12, <1>13 DEF free, A, I

\* However far the queue is taken, everybody keeps their place and nobody waits beside a
\* worker.
LEMMA ProcessedKeeps ==
    ASSUME NEW p, NEW show, Kept(p, show), NEW n \in 0 .. Cardinality(Workers),
           NEW rank \in [Pool!Tasks -> Nat], Sorted(p.queue, rank),
           NEW r, r = Pool!Processed(p, n)
    PROVE  /\ Kept(r, show) /\ Sorted(r.queue, rank) /\ AllBusy(r, n)
           /\ n = 0 /\ NoneWorks(p) => NoneWorks(r)
<1> DEFINE free == Free(p, n)
           few == {Len(p.queue), Len(free)}
           k == Pool!Min(few)
<1>1. /\ free \in Seq(Workers) /\ Distinct(free)
      /\ \A i \in 1 .. Len(free) : p.worker[free[i]].task = Pool!NoTask
      /\ \A w \in Pool!Idle(p) : Has(free, w)
      /\ \E S \in SUBSET (Workers \ Pool!Alive(p)) :
            /\ Cardinality(Pool!Alive(p)) + Cardinality(S) >= n
            /\ \A w \in S : Has(free, w)
      /\ n = 0 /\ NoneWorks(p) => Len(free) = 0
  BY FreeOnes
<1>2. p \in Pools /\ Len(p.queue) \in Nat
  BY DEF Kept, Pools
<1>3. r = Given(p, free, k)
  BY DEF Pool!Processed, Given, Free, Room
<1>. HIDE DEF free
<1>4. /\ k \in Nat /\ k <= Len(p.queue) /\ k <= Len(free)
      /\ k = Len(p.queue) \/ k = Len(free)
  <2>1. Len(free) \in Nat
    BY <1>1
  <2>2. few \in SUBSET Nat /\ few # {}
    BY <1>2, <2>1
  <2>3. k \in few /\ \A i \in few : k <= i
    <3>. HIDE DEF few
    <3>1. QED
      BY <2>2, MinIs
  <2>4. QED
    BY <1>2, <2>1, <2>3
<1>. HIDE DEF k
<1>5. \A i \in 1 .. k : p.worker[free[i]].task = Pool!NoTask
  BY <1>1, <1>4
<1>6. Kept(r, show) /\ Sorted(r.queue, rank)
  BY <1>1, <1>3, <1>4, <1>5, GivenKeeps
<1>7. IsGiven(p, free, k, r)
  BY <1>1, <1>2, <1>3, <1>4, GivenIs
<1>8. ASSUME r.queue # <<>> PROVE Pool!Idle(r) = {} /\ Cardinality(Pool!Alive(r)) >= n
  <2>1. k = Len(free)
    <3>1. r.queue \in Seq(Pool!Tasks)
      BY <1>7 DEF IsGiven, Pools
    <3>2. Len(r.queue) \in Nat \ {0}
      BY <1>8, <3>1, EmptySeq
    <3>3. Len(r.queue) = Len(p.queue) - k
      BY <1>7 DEF IsGiven
    <3>4. QED
      BY <1>2, <1>4, <3>2, <3>3
  <2>2. \A w \in Workers : Has(free, w) => r.worker[w].task # Pool!NoTask /\ r.worker[w].run = "running"
    <3>. SUFFICES ASSUME NEW i \in 1 .. k
         PROVE  r.worker[free[i]].task # Pool!NoTask /\ r.worker[free[i]].run = "running"
      BY <2>1 DEF Has
    <3>1. i \in 1 .. Len(p.queue)
      BY <1>2, <1>4
    <3>2. p.queue[i] \in Pool!Tasks /\ Pool!NoTask \notin Pool!Tasks
      <4>1. p.queue \in Seq(Pool!Tasks)
        BY <1>2 DEF Pools
      <4>2. p.queue[i] \in Pool!Tasks
        BY <3>1, <4>1, ElementOfSeq
      <4>3. QED
        BY <4>2 DEF Pool!NoTask, Pool!Tasks
    <3>3. QED
      BY <1>7, <3>2 DEF IsGiven
  <2>3. \A w \in Workers : Has(free, w) \/ r.worker[w] = p.worker[w]
    BY <1>7, <2>1 DEF IsGiven, Has
  <2>4. Pool!Idle(r) = {}
    <3>. SUFFICES ASSUME NEW w \in Workers, r.worker[w].run # "gone", r.worker[w].task = Pool!NoTask PROVE FALSE
      BY DEF Pool!Idle, Pool!Alive
    <3>1. w \in Pool!Idle(p)
      BY <2>2, <2>3 DEF Pool!Idle, Pool!Alive
    <3>2. QED
      BY <1>1, <2>2, <3>1
  <2>5. PICK S \in SUBSET (Workers \ Pool!Alive(p)) :
            /\ Cardinality(Pool!Alive(p)) + Cardinality(S) >= n
            /\ \A w \in S : Has(free, w)
    BY <1>1
  <2>6. Pool!Alive(p) \cup S \subseteq Pool!Alive(r)
    BY <2>2, <2>3, <2>5 DEF Pool!Alive
  <2>7. Cardinality(Pool!Alive(r)) >= n
    <3> DEFINE A == Pool!Alive(p)
               B == Pool!Alive(r)
    <3>1. IsFiniteSet(A) /\ IsFiniteSet(B) /\ IsFiniteSet(S)
      <4>1. IsFiniteSet(Workers) /\ A \subseteq Workers /\ B \subseteq Workers /\ S \subseteq Workers
        BY PoolAssumption DEF Pool!Alive
      <4>. HIDE DEF A, B
      <4>2. QED
        BY <4>1, FS_Subset
    <3>2. A \cap S = {}
      OBVIOUS
    <3>. A \cup S \subseteq B /\ Cardinality(A) + Cardinality(S) >= n
      BY <2>5, <2>6
    <3>. HIDE DEF A, B
    <3>3. Cardinality(A \cup S) = Cardinality(A) + Cardinality(S) - Cardinality(A \cap S)
      BY <3>1, FS_Union
    <3>4. Cardinality(A \cap S) = 0
      BY <3>2, FS_EmptySet
    <3>5. Cardinality(A \cup S) <= Cardinality(B)
      BY <3>1, FS_Subset
    <3>6. Cardinality(A) \in Nat /\ Cardinality(S) \in Nat /\ Cardinality(B) \in Nat
      BY <3>1, FS_CardinalityType
    <3>7. Cardinality(B) >= n
      BY <3>3, <3>4, <3>5, <3>6
    <3>8. QED
      BY <3>7 DEF B
  <2>8. QED
    BY <2>4, <2>7
<1>9. ASSUME n = 0, NoneWorks(p) PROVE NoneWorks(r)
  <2>1. 1 .. k = {}
    BY <1>1, <1>4, <1>9
  <2>2. QED
    BY <1>7, <1>9, <2>1 DEF IsGiven, NoneWorks
<1>10. QED
  BY <1>6, <1>8, <1>9 DEF AllBusy

LEMMA ProcessQueueKeeps ==
    ASSUME tight \in BOOLEAN, NEW p, NEW show, Kept(p, show), NEW n \in 0 .. Cardinality(Workers),
           NEW rank \in [Pool!Tasks -> Nat], Sorted(p.queue, rank),
           Pool!ProcessQueue(p, n)
    PROVE  /\ Kept(pool', show) /\ Sorted(pool'.queue, rank)
           /\ ~waits' => AllBusy(pool', n)
           /\ waits' \in BOOLEAN
           /\ n = 0 /\ NoneWorks(p) => NoneWorks(pool')
<1>1. CASE tight
  BY <1>1 DEF Pool!ProcessQueue, AllBusy
<1>2. CASE ~tight
  <2>1. pool' = Pool!Processed(p, n) /\ waits' = FALSE
    BY <1>2 DEF Pool!ProcessQueue
  <2>2. QED
    BY <2>1, ProcessedKeeps
<1>3. QED
  BY <1>1, <1>2

-------------------------------------------------------------------------------
(* The actions *)

LEMMA RanksAreNumbers ==
    ASSUME NEW rank \in [Pool!Tasks -> Ranks]
    PROVE  rank \in [Pool!Tasks -> Nat]
<1>1. Ranks \subseteq Nat
  BY PoolAssumption
<1>2. QED
  BY <1>1

\* completeComputation, failComputation and cancelComputation end what is active.
LEMMA EndsIs ==
    ASSUME shown \in Shows, InTurn(shown), NEW set, NEW how \in Pool!Ended, NEW show, show = Pool!Ends(set, how)
    PROVE  /\ show \in Shows /\ InTurn(show)
           /\ \A t \in Pool!Tasks : /\ show[t] \in Pool!Active <=> shown[t] \in Pool!Active /\ t \notin set
                                    /\ show[t] = "new" <=> shown[t] = "new"
<1>1. /\ show \in Shows
      /\ \A t \in Pool!Tasks : /\ show[t] \in Pool!Active <=> shown[t] \in Pool!Active /\ t \notin set
                               /\ show[t] = "new" <=> shown[t] = "new"
  BY DEF Pool!Ends, Shows, Pool!Active, Pool!Ended
<1>2. QED
  BY <1>1 DEF InTurn

\* updateComputationProgress: what is active stays so.
LEMMA UpdatedIs ==
    ASSUME shown \in Shows, InTurn(shown), NEW t \in Pool!Tasks, NEW status \in Pool!Active,
           NEW show, show = Pool!Updated(t, status)
    PROVE  /\ show \in Shows /\ InTurn(show)
           /\ \A u \in Pool!Tasks : /\ show[u] \in Pool!Active <=> shown[u] \in Pool!Active
                                    /\ show[u] = "new" <=> shown[u] = "new"
<1>1. /\ show \in Shows
      /\ \A u \in Pool!Tasks : /\ show[u] \in Pool!Active <=> shown[u] \in Pool!Active
                               /\ show[u] = "new" <=> shown[u] = "new"
  BY DEF Pool!Updated, Shows, Pool!Active, Pool!Ended
<1>2. QED
  BY <1>1 DEF InTurn

\* Who has which task stays as it was, but for handlers that go.
LEMMA PlacesStay ==
    ASSUME NEW p, NEW show, Kept(p, show), NEW r \in Pools, NEW show2 \in Shows,
           r.queue = p.queue, r.handlers \subseteq p.handlers,
           \A w \in Workers : /\ r.worker[w].task = p.worker[w].task
                              /\ r.worker[w].run = "gone" => r.worker[w] = Pool!Gone,
           \A t \in Pool!Tasks : /\ show2[t] \in Pool!Active <=> t \in r.handlers \/ Has(r.queue, t)
                                 /\ show2[t] = "new" <=> show[t] = "new"
    PROVE  Kept(r, show2)
<1>1. Apart(r)
  BY DEF Kept, Apart
<1>2. \A w \in Workers : p.worker[w].task \in Pool!Tasks \cup {Pool!NoTask}
  BY WorkerTypes DEF Kept
<1>3. \A w \in Workers : r.worker[w].task # Pool!NoTask => show2[r.worker[w].task] # "new"
  BY <1>2 DEF Kept
<1>4. \A t \in r.handlers : \E w \in Workers : r.worker[w].task = t
  BY DEF Kept
<1>5. QED
  BY <1>1, <1>3, <1>4 DEF Kept

\* ... and who is alive.
LEMMA BusyStay ==
    ASSUME NEW p, NEW r, NEW n, AllBusy(p, n), r.queue # <<>> => p.queue # <<>>,
           \A w \in Workers : /\ r.worker[w].task = p.worker[w].task
                              /\ r.worker[w].run = "gone" <=> p.worker[w].run = "gone"
    PROVE  AllBusy(r, n)
<1>1. Pool!Alive(r) = Pool!Alive(p)
  BY DEF Pool!Alive
<1>2. Pool!Idle(r) = Pool!Idle(p)
  BY <1>1 DEF Pool!Idle, Pool!Alive
<1>3. QED
  BY <1>1, <1>2 DEF AllBusy

\* A worker that is told something, says something or was heard.
Steps(r) ==
    /\ r \in Pools /\ r.queue = pool.queue /\ r.handlers = pool.handlers
    /\ \A w \in Workers : /\ r.worker[w].task = pool.worker[w].task
                          /\ r.worker[w].run = "gone" <=> pool.worker[w].run = "gone"
                          /\ r.worker[w].run = "gone" => r.worker[w] = Pool!Gone

LEMMA StepsKeep ==
    ASSUME PoolInv, NEW r, Steps(r), NEW show \in Shows,
           \A t \in Pool!Tasks : /\ show[t] \in Pool!Active <=> shown[t] \in Pool!Active
                                 /\ show[t] = "new" <=> shown[t] = "new"
    PROVE  /\ Kept(r, show) /\ Sorted(r.queue, priority)
           /\ ~waits => AllBusy(r, limit)
           /\ limit = 0 => config = 0 /\ NoneWorks(r)
<1>1. /\ Kept(pool, shown) /\ Sorted(pool.queue, priority) /\ (~waits => AllBusy(pool, limit))
      /\ RoomAsTyped
  BY DEF PoolInv
<1>2. \A t \in Pool!Tasks : show[t] \in Pool!Active <=> t \in r.handlers \/ Has(r.queue, t)
  BY <1>1 DEF Kept, Steps
<1>3. Kept(r, show)
  BY <1>1, <1>2, PlacesStay DEF Steps
<1>4. ~waits => AllBusy(r, limit)
  BY <1>1, BusyStay DEF Steps
<1>5. limit = 0 => config = 0 /\ NoneWorks(r)
  BY <1>1 DEF RoomAsTyped, NoneWorks, Steps
<1>6. QED
  BY <1>1, <1>3, <1>4, <1>5 DEF Steps

\* The record of one worker is written.
Written(w, run, news) ==
    [pool EXCEPT !.worker = [pool.worker EXCEPT ![w] =
        [task |-> pool.worker[w].task, run |-> run, news |-> news]]]

LEMMA OneWorker ==
    ASSUME PoolInv, NEW w \in Workers, NEW run \in {"none", "running", "paused", "cancelled", "silent"},
           NEW news \in Pool!News, pool.worker[w].run # "gone",
           NEW r, r = Written(w, run, news)
    PROVE  Steps(r)
<1>1. pool \in Pools /\ \A v \in Workers : pool.worker[v].run = "gone" => pool.worker[v] = Pool!Gone
  BY DEF PoolInv, Kept
<1>2. [task |-> pool.worker[w].task, run |-> run, news |-> news] \in Pool!WorkerStates
  BY <1>1, WorkerTypes DEF Pool!WorkerStates
<1>3. /\ r = [queue |-> pool.queue, handlers |-> pool.handlers, worker |-> r.worker]
      /\ r.worker = [pool.worker EXCEPT ![w] = [task |-> pool.worker[w].task, run |-> run, news |-> news]]
      /\ r.queue = pool.queue /\ r.handlers = pool.handlers
  BY <1>1 DEF Pools, Written
<1>4. r.worker \in [Workers -> Pool!WorkerStates] /\ r \in Pools
  BY <1>1, <1>2, <1>3 DEF Pools
<1>5. \A v \in Workers : r.worker[v] = IF v = w THEN [task |-> pool.worker[w].task, run |-> run, news |-> news]
                                       ELSE pool.worker[v]
  BY <1>1, <1>3 DEF Pools
<1>6. QED
  BY <1>1, <1>3, <1>4, <1>5 DEF Steps

LEMMA WorkerIs ==
    ASSUME PoolInv, NEW w \in Workers
    PROVE  /\ pool \in Pools
           /\ pool.worker[w] = [task |-> pool.worker[w].task, run |-> pool.worker[w].run, news |-> pool.worker[w].news]
           /\ pool.worker[w].run \in {"gone", "none", "running", "paused", "cancelled", "silent"}
           /\ pool.worker[w].run = "gone" => pool.worker[w].news = "none"
<1>1. pool \in Pools /\ (pool.worker[w].run = "gone" => pool.worker[w] = Pool!Gone)
  BY DEF PoolInv, Kept
<1>2. QED
  BY <1>1 DEF Pools, Pool!WorkerStates, Pool!Gone

\* What EXCEPT does to the record of one worker.
LEMMA RecordSet ==
    ASSUME pool \in Pools, NEW w \in Workers, NEW run, NEW news
    PROVE  /\ [pool EXCEPT !.worker[w].news = news] = Written(w, pool.worker[w].run, news)
           /\ [pool EXCEPT !.worker[w].run = run] = Written(w, run, pool.worker[w].news)
<1>1. pool.worker \in [Workers -> Pool!WorkerStates] /\ pool.worker[w] \in Pool!WorkerStates
  BY DEF Pools
<1>2. \A x \in Pool!WorkerStates :
          /\ [x EXCEPT !.news = news] = [task |-> x.task, run |-> x.run, news |-> news]
          /\ [x EXCEPT !.run = run] = [task |-> x.task, run |-> run, news |-> x.news]
  BY DEF Pool!WorkerStates
<1>3. /\ [pool.worker[w] EXCEPT !.news = news] = [task |-> pool.worker[w].task, run |-> pool.worker[w].run, news |-> news]
      /\ [pool.worker[w] EXCEPT !.run = run] = [task |-> pool.worker[w].task, run |-> run, news |-> pool.worker[w].news]
  BY <1>1, <1>2
<1>4. [pool EXCEPT !.worker[w].news = news]
        = [pool EXCEPT !.worker = [pool.worker EXCEPT ![w] = [pool.worker[w] EXCEPT !.news = news]]]
  OBVIOUS
<1>5. [pool EXCEPT !.worker[w].run = run]
        = [pool EXCEPT !.worker = [pool.worker EXCEPT ![w] = [pool.worker[w] EXCEPT !.run = run]]]
  OBVIOUS
<1>6. QED
  BY <1>3, <1>4, <1>5 DEF Written

LEMMA PostsIs ==
    ASSUME pool \in Pools, NEW w \in Workers, NEW message, Pool!Posts(w, message)
    PROVE  pool' = Written(w, "none", message)
<1> DEFINE x == [task |-> pool.worker[w].task, run |-> "none", news |-> pool.worker[w].news]
           y == [task |-> pool.worker[w].task, run |-> "none", news |-> message]
           p == [pool EXCEPT !.worker[w].run = "none"]
<1>1. pool.worker \in [Workers -> Pool!WorkerStates]
  BY DEF Pools
<1>2. pool' = [p EXCEPT !.worker[w].news = message]
  BY DEF Pool!Posts
<1>3. p = [pool EXCEPT !.worker = [pool.worker EXCEPT ![w] = x]]
  BY RecordSet DEF Written
<1>4. [x EXCEPT !.news = message] = y
  OBVIOUS
<1>. HIDE DEF x, y, p
<1>5. p.worker = [pool.worker EXCEPT ![w] = x] /\ p.worker[w] = x
  BY <1>1, <1>3 DEF Pools
<1>6. [p EXCEPT !.worker[w].news = message]
        = [p EXCEPT !.worker = [p.worker EXCEPT ![w] = [p.worker[w] EXCEPT !.news = message]]]
  OBVIOUS
<1>7. [p.worker EXCEPT ![w] = y] = [pool.worker EXCEPT ![w] = y]
  BY <1>1, <1>5
<1>8. pool' = [p EXCEPT !.worker = [pool.worker EXCEPT ![w] = y]]
  BY <1>2, <1>4, <1>5, <1>6, <1>7
<1>9. [p EXCEPT !.worker = [pool.worker EXCEPT ![w] = y]] = [pool EXCEPT !.worker = [pool.worker EXCEPT ![w] = y]]
  BY <1>3 DEF Pools
<1>10. QED
  BY <1>8, <1>9 DEF y, Written

LEMMA HeardSteps ==
    ASSUME PoolInv, NEW w \in Workers, NEW message \in Pool!News \ {"none"}, Pool!Says(w, message)
    PROVE  Steps(Pool!Heard(w))
<1>1. pool.worker[w].run # "gone" /\ pool.worker[w].run \in {"none", "running", "paused", "cancelled", "silent"}
  BY WorkerIs DEF Pool!Says
<1>2. Pool!Heard(w) = Written(w, pool.worker[w].run, "none")
  BY WorkerIs, RecordSet DEF Pool!Heard
<1>3. QED
  BY <1>1, <1>2, OneWorker DEF Pool!News

LEMMA PoolTyped ==
    ASSUME PoolInv
    PROVE  /\ limit \in 0 .. Cardinality(Workers) /\ config \in 0 .. Cardinality(Workers)
           /\ tight \in BOOLEAN /\ waits \in BOOLEAN
           /\ shown \in Shows /\ InTurn(shown) /\ priority \in [Pool!Tasks -> Ranks]
           /\ calculator \in {"none", "known", "kept"} /\ events \in 0 .. MaxEvents
           /\ Kept(pool, shown) /\ Sorted(pool.queue, priority) /\ (~waits => AllBusy(pool, limit))
           /\ RoomAsTyped
BY DEF PoolInv, PoolSettings

\* Where a worker is alive there is room for one.
LEMMA SomeoneWorks ==
    ASSUME PoolInv, NEW w \in Workers, pool.worker[w].run # "gone"
    PROVE  limit # 0
BY PoolTyped DEF RoomAsTyped, NoneWorks

LEMMA EventCounts == ASSUME events \in 0 .. MaxEvents, Pool!Event PROVE events' \in 0 .. MaxEvents
BY PoolAssumption DEF Pool!Event

LEMMA HearReadyKeeps == ASSUME PoolInv, NEW w \in Workers, Pool!HearReady(w) PROVE PoolInv'
<1>1. Steps(Pool!Heard(w))
  BY HeardSteps DEF Pool!HearReady, Pool!News
<1>2. Kept(Pool!Heard(w), shown) /\ Sorted(Pool!Heard(w).queue, priority)
  BY <1>1, StepsKeep, PoolTyped
<1>3. /\ Kept(pool', shown) /\ Sorted(pool'.queue, priority)
      /\ ~waits' => AllBusy(pool', limit)
      /\ waits' \in BOOLEAN
  BY <1>2, PoolTyped, RanksAreNumbers, ProcessQueueKeeps DEF Pool!HearReady
<1>4. limit # 0
  BY WorkerIs, SomeoneWorks DEF Pool!HearReady, Pool!Says
<1>5. QED
  BY <1>3, <1>4, PoolTyped DEF Pool!HearReady, Pool!settings, PoolInv, PoolSettings, RoomAsTyped

LEMMA HearProgressKeeps == ASSUME PoolInv, NEW w \in Workers, Pool!HearProgress(w) PROVE PoolInv'
<1>1. Steps(pool)
  BY DEF PoolInv, Kept, Steps
<1>2. pool.worker[w].task \in Pool!Tasks
  BY WorkerIs, WorkerTypes DEF Pool!HearProgress
<1>3. /\ shown' \in Shows /\ InTurn(shown')
      /\ \A u \in Pool!Tasks : /\ shown'[u] \in Pool!Active <=> shown[u] \in Pool!Active
                               /\ shown'[u] = "new" <=> shown[u] = "new"
  BY <1>2, UpdatedIs, PoolTyped DEF Pool!HearProgress, Pool!Active
<1>4. Kept(pool, shown')
  BY <1>1, <1>3, StepsKeep
<1>5. QED
  BY <1>3, <1>4, PoolTyped DEF Pool!HearProgress, Pool!settings, PoolInv, PoolSettings, AllBusy, Pool!Idle, Pool!Alive,
     RoomAsTyped, NoneWorks

\* The threads of the workers say something or fall silent.
LEMMA ThreadKeeps ==
    ASSUME PoolInv, NEW w \in Workers,
           Pool!Computes(w) \/ Pool!StopsInSilence(w) \/ Pool!Crashes(w)
    PROVE  PoolInv'
<1>1. pool.worker[w].run # "gone" /\ pool \in Pools
  BY WorkerIs DEF Pool!Computes, Pool!StopsInSilence, Pool!Crashes
<1>2. Steps(pool')
  <2>1. ASSUME NEW message \in {"complete", "error", "crash"}, Pool!Posts(w, message) PROVE Steps(pool')
    <3>1. pool' = Written(w, "none", message)
      BY <1>1, <2>1, PostsIs
    <3>2. QED
      BY <1>1, <3>1, OneWorker DEF Pool!News
  <2>2. CASE Pool!StopsInSilence(w)
    <3>1. pool' = Written(w, "silent", pool.worker[w].news)
      BY <1>1, <2>2, RecordSet DEF Pool!StopsInSilence
    <3>2. pool.worker[w].news \in Pool!News
      BY <1>1, WorkerTypes
    <3>3. QED
      BY <1>1, <3>1, <3>2, OneWorker
  <2>3. QED
    BY <2>1, <2>2 DEF Pool!Computes, Pool!Crashes
<1>3. /\ Kept(pool', shown) /\ Sorted(pool'.queue, priority) /\ (~waits => AllBusy(pool', limit))
      /\ limit = 0 => config = 0 /\ NoneWorks(pool')
  BY <1>2, StepsKeep, PoolTyped
<1>4. events' \in 0 .. MaxEvents
  BY EventCounts, PoolTyped DEF Pool!Computes, Pool!StopsInSilence, Pool!Crashes, Pool!settings
<1>5. UNCHANGED <<waits, shown, limit, config, tight, priority, calculator>>
  BY DEF Pool!Computes, Pool!StopsInSilence, Pool!Crashes, Pool!settings
<1>6. QED
  BY <1>3, <1>4, <1>5, PoolTyped DEF PoolInv, PoolSettings, RoomAsTyped

\* The page commands: a step of one worker that need not be there.
CommandedRun(r, t, from, to) ==
    /\ r = [pool EXCEPT !.worker = [w \in Workers |->
              IF pool.worker[w].task = t /\ pool.worker[w].run \in from
              THEN [pool.worker[w] EXCEPT !.run = to] ELSE pool.worker[w]]]
    /\ from \subseteq {"running", "paused"} /\ to \in {"running", "paused", "cancelled"}

LEMMA CommandSteps ==
    ASSUME PoolInv, NEW r, NEW t, NEW from, NEW to, CommandedRun(r, t, from, to)
    PROVE  Steps(r)
<1>1. pool \in Pools
  BY DEF PoolInv, Kept
<1>2. /\ r.queue = pool.queue /\ r.handlers = pool.handlers
      /\ r = [queue |-> pool.queue, handlers |-> pool.handlers, worker |-> r.worker]
      /\ r.worker = [w \in Workers |->
              IF pool.worker[w].task = t /\ pool.worker[w].run \in from
              THEN [pool.worker[w] EXCEPT !.run = to] ELSE pool.worker[w]]
  BY <1>1 DEF Pools, CommandedRun
<1>3. ASSUME NEW w \in Workers
      PROVE  /\ r.worker[w] \in Pool!WorkerStates /\ r.worker[w].task = pool.worker[w].task
             /\ r.worker[w].run = "gone" <=> pool.worker[w].run = "gone"
             /\ r.worker[w].run = "gone" => r.worker[w] = pool.worker[w]
  <2>1. pool.worker[w] \in Pool!WorkerStates
    BY <1>1, WorkerTypes
  <2>2. CASE pool.worker[w].run \in from /\ r.worker[w] = [pool.worker[w] EXCEPT !.run = to]
    BY <2>1, <2>2 DEF CommandedRun, Pool!WorkerStates
  <2>3. CASE r.worker[w] = pool.worker[w]
    BY <2>1, <2>3
  <2>4. QED
    BY <1>2, <2>2, <2>3
<1>4. r.worker \in [Workers -> Pool!WorkerStates] /\ r \in Pools
  BY <1>1, <1>2, <1>3 DEF Pools
<1>5. \A w \in Workers : r.worker[w].run = "gone" => r.worker[w] = Pool!Gone
  BY <1>3 DEF PoolInv, Kept
<1>6. QED
  BY <1>2, <1>3, <1>4, <1>5 DEF Steps

LEMMA PauseResumeKeeps ==
    ASSUME PoolInv, NEW t \in Pool!Tasks, Pool!Pause(t) \/ Pool!Resume(t)
    PROVE  PoolInv'
<1>. PICK from \in {"running", "paused"}, to \in {"running", "paused"} :
        pool' = Pool!Commanded(t, from, to) /\ shown' = Pool!Updated(t, to)
  BY DEF Pool!Pause, Pool!Resume
<1>1. CommandedRun(pool', t, {from}, to)
  BY DEF CommandedRun, Pool!Commanded
<1>2. Steps(pool')
  BY <1>1, CommandSteps
<1>3. /\ shown' \in Shows /\ InTurn(shown')
      /\ \A u \in Pool!Tasks : /\ shown'[u] \in Pool!Active <=> shown[u] \in Pool!Active
                               /\ shown'[u] = "new" <=> shown[u] = "new"
  BY UpdatedIs, PoolTyped DEF Pool!Active
<1>4. /\ Kept(pool', shown') /\ Sorted(pool'.queue, priority) /\ (~waits => AllBusy(pool', limit))
      /\ limit = 0 => config = 0 /\ NoneWorks(pool')
  BY <1>2, <1>3, StepsKeep
<1>5. events' \in 0 .. MaxEvents
  BY EventCounts, PoolTyped DEF Pool!Pause, Pool!Resume
<1>6. UNCHANGED <<waits, limit, config, tight, priority, calculator>>
  BY DEF Pool!Pause, Pool!Resume, Pool!settings
<1>7. QED
  BY <1>3, <1>4, <1>5, <1>6, PoolTyped DEF PoolInv, PoolSettings, RoomAsTyped

\* Of the queue: who is out of it and who is in it.
QueueIs(r, q) == r = [pool EXCEPT !.queue = q]

LEMMA WithQueue ==
    ASSUME PoolInv, NEW q \in Seq(Pool!Tasks), NEW r, QueueIs(r, q)
    PROVE  /\ r \in Pools /\ r.queue = q /\ r.handlers = pool.handlers /\ r.worker = pool.worker
           /\ Pool!Alive(r) = Pool!Alive(pool) /\ Pool!Idle(r) = Pool!Idle(pool)
<1>1. r \in Pools /\ r.queue = q /\ r.handlers = pool.handlers /\ r.worker = pool.worker
  BY DEF PoolInv, Kept, Pools, QueueIs
<1>2. QED
  BY <1>1 DEF Pool!Alive, Pool!Idle

\* A task that waits holds no worker and no handlers.
LEMMA Waiting ==
    ASSUME PoolInv, NEW t \in Pool!Tasks, Has(pool.queue, t)
    PROVE  t \notin pool.handlers /\ \A w \in Workers : pool.worker[w].task # t
BY DEF PoolInv, Kept, Apart

LEMMA CancelKeeps == ASSUME PoolInv, NEW t \in Pool!Tasks, Pool!Cancel(t) PROVE PoolInv'
<1>1. /\ shown' \in Shows /\ InTurn(shown')
      /\ \A u \in Pool!Tasks : /\ shown'[u] \in Pool!Active <=> shown[u] \in Pool!Active /\ u # t
                               /\ shown'[u] = "new" <=> shown[u] = "new"
  <2>1. shown' = Pool!Ends({t}, "cancelled") /\ "cancelled" \in Pool!Ended
    BY DEF Pool!Cancel, Pool!Ended
  <2>2. QED
    BY <2>1, EndsIs, PoolTyped
<1>2. Kept(pool, shown) /\ pool \in Pools /\ pool.queue \in Seq(Pool!Tasks)
  BY DEF PoolInv, Kept, Pools
<1>3. ASSUME Has(pool.queue, t)
      PROVE  /\ Kept(pool', shown') /\ Sorted(pool'.queue, priority) /\ (~waits => AllBusy(pool', limit))
             /\ NoneWorks(pool) => NoneWorks(pool')
  <2> DEFINE q == Pool!RemoveFirst(pool.queue, t)
  <2>1. pool' = [pool EXCEPT !.queue = q]
    BY <1>3 DEF Pool!Cancel, Pool!Contains, Has
  <2>2. q \in Seq(Pool!Tasks) /\ Joined(q, pool.queue, t)
    BY <1>2, <1>3, RemoveLeaves
  <2>. HIDE DEF q
  <2>3. /\ pool' \in Pools /\ pool'.queue = q /\ pool'.handlers = pool.handlers /\ pool'.worker = pool.worker
        /\ Pool!Alive(pool') = Pool!Alive(pool) /\ Pool!Idle(pool') = Pool!Idle(pool)
    BY <2>1, <2>2, WithQueue DEF QueueIs
  <2>4. /\ \A u : Has(pool.queue, u) <=> u = t \/ Has(q, u)
        /\ Distinct(q) /\ ~Has(q, t)
    BY <1>2, <2>2, JoinedHas DEF Kept, Apart
  <2>5. Apart(pool')
    BY <1>2, <2>3, <2>4 DEF Kept, Apart
  <2>6. \A u \in Pool!Tasks : shown'[u] \in Pool!Active <=> u \in pool'.handlers \/ Has(pool'.queue, u)
    BY <1>1, <1>2, <1>3, <2>3, <2>4, Waiting DEF Kept
  <2>7. \A w \in Workers : pool'.worker[w].task # Pool!NoTask => shown'[pool'.worker[w].task] # "new"
    BY <1>1, <1>2, <2>3, WorkerTypes DEF Kept
  <2>8. Kept(pool', shown')
    BY <1>2, <2>3, <2>5, <2>6, <2>7 DEF Kept
  <2>9. Sorted(pool'.queue, priority)
    BY <1>2, <2>2, <2>3, JoinedSorted, PoolTyped, RanksAreNumbers
  <2>10. ~waits => AllBusy(pool', limit)
    <3>1. pool.queue # <<>>
      BY <1>3 DEF Has
    <3>2. QED
      BY <2>3, <3>1, PoolTyped DEF AllBusy
  <2>11. QED
    BY <2>3, <2>8, <2>9, <2>10 DEF NoneWorks
<1>4. ASSUME ~Has(pool.queue, t)
      PROVE  /\ Kept(pool', shown') /\ Sorted(pool'.queue, priority) /\ (~waits => AllBusy(pool', limit))
             /\ NoneWorks(pool) => NoneWorks(pool')
  <2> DEFINE r == [pool EXCEPT !.worker = [w \in Workers |->
                      IF pool.worker[w].task = t /\ pool.worker[w].run \in {"running", "paused"}
                      THEN [pool.worker[w] EXCEPT !.run = "cancelled"] ELSE pool.worker[w]]]
  <2>1. pool' = [r EXCEPT !.handlers = pool.handlers \ {t}]
    BY <1>2, <1>4 DEF Pool!Cancel, Pool!Contains, Has, Pools
  <2>2. Steps(r)
    <3>1. CommandedRun(r, t, {"running", "paused"}, "cancelled")
      BY DEF CommandedRun
    <3>. HIDE DEF r
    <3>2. QED
      BY <3>1, CommandSteps
  <2>. HIDE DEF r
  <2>3. /\ pool' \in Pools /\ pool'.queue = pool.queue /\ pool'.handlers = pool.handlers \ {t}
        /\ pool'.worker = r.worker
    BY <2>1, <2>2 DEF Steps, Pools
  <2>4. \A u \in Pool!Tasks : shown'[u] \in Pool!Active <=> u \in pool'.handlers \/ Has(pool'.queue, u)
    BY <1>1, <1>2, <1>4, <2>3 DEF Kept
  <2>5. Kept(pool', shown')
    <3>1. /\ pool'.handlers \subseteq pool.handlers
          /\ \A w \in Workers : /\ pool'.worker[w].task = pool.worker[w].task
                                /\ pool'.worker[w].run = "gone" => pool'.worker[w] = Pool!Gone
      BY <2>2, <2>3 DEF Steps
    <3>2. QED
      BY <1>1, <1>2, <2>3, <2>4, <3>1, PlacesStay
  <2>6. ~waits => AllBusy(pool', limit)
    <3>1. \A w \in Workers : /\ pool'.worker[w].task = pool.worker[w].task
                             /\ pool'.worker[w].run = "gone" <=> pool.worker[w].run = "gone"
      BY <2>2, <2>3 DEF Steps
    <3>2. QED
      BY <2>3, <3>1, BusyStay, PoolTyped
  <2>7. NoneWorks(pool) => NoneWorks(pool')
    BY <2>2, <2>3 DEF Steps, NoneWorks
  <2>8. QED
    BY <2>3, <2>5, <2>6, <2>7, PoolTyped
<1>5. events' \in 0 .. MaxEvents
  BY EventCounts, PoolTyped DEF Pool!Cancel
<1>6. UNCHANGED <<waits, limit, config, tight, priority, calculator>>
  BY DEF Pool!Cancel, Pool!settings
<1>7. QED
  BY <1>1, <1>3, <1>4, <1>5, <1>6, PoolTyped DEF PoolInv, PoolSettings, RoomAsTyped

LEMMA SetPriorityKeeps ==
    ASSUME PoolInv, NEW t \in Pool!Tasks, NEW rank \in Ranks, Pool!SetPriority(t, rank)
    PROVE  PoolInv'
<1>1. Kept(pool, shown) /\ pool \in Pools /\ pool.queue \in Seq(Pool!Tasks)
  BY DEF PoolInv, Kept, Pools
<1>2. ASSUME Has(pool.queue, t)
      PROVE  /\ Kept(pool', shown) /\ Sorted(pool'.queue, priority') /\ (~waits => AllBusy(pool', limit))
             /\ priority' \in [Pool!Tasks -> Ranks]
             /\ NoneWorks(pool) => NoneWorks(pool')
  <2> DEFINE q == Pool!RemoveFirst(pool.queue, t)
             q2 == Pool!Inserted(q, t, priority')
  <2>1. priority' = [priority EXCEPT ![t] = rank] /\ pool' = [pool EXCEPT !.queue = q2]
    BY <1>2 DEF Pool!SetPriority, Pool!Contains, Has
  <2>2. q \in Seq(Pool!Tasks) /\ Joined(q, pool.queue, t)
    BY <1>1, <1>2, RemoveLeaves
  <2>. HIDE DEF q
  <2>3. /\ \A u : Has(pool.queue, u) <=> u = t \/ Has(q, u)
        /\ Distinct(q) /\ ~Has(q, t)
    BY <1>1, <2>2, JoinedHas DEF Kept, Apart
  <2>4. priority' \in [Pool!Tasks -> Ranks] /\ \A u \in Pool!Tasks : u # t => priority'[u] = priority[u]
    BY <2>1, PoolTyped
  <2>5. Sorted(q, priority')
    <3>1. Sorted(q, priority)
      BY <1>1, <2>2, JoinedSorted, PoolTyped, RanksAreNumbers
    <3>2. \A i \in 1 .. Len(q) : q[i] \in Pool!Tasks /\ q[i] # t
      BY <2>2, <2>3 DEF Has
    <3>3. QED
      BY <2>4, <3>1, <3>2 DEF Sorted
  <2>6. q2 \in Seq(Pool!Tasks) /\ Joined(q, q2, t) /\ Sorted(q2, priority')
    BY <2>2, <2>4, <2>5, RanksAreNumbers, InsertedJoins
  <2>. HIDE DEF q2
  <2>7. /\ \A u : Has(q2, u) <=> u = t \/ Has(q, u)
        /\ Distinct(q2)
    BY <2>2, <2>3, <2>6, JoinedHas
  <2>8. /\ pool' \in Pools /\ pool'.queue = q2 /\ pool'.handlers = pool.handlers /\ pool'.worker = pool.worker
        /\ Pool!Alive(pool') = Pool!Alive(pool) /\ Pool!Idle(pool') = Pool!Idle(pool)
    BY <2>1, <2>6, WithQueue DEF QueueIs
  <2>9. Kept(pool', shown)
    BY <1>1, <2>3, <2>7, <2>8 DEF Kept, Apart
  <2>10. ~waits => AllBusy(pool', limit)
    <3>1. pool.queue # <<>>
      BY <1>2 DEF Has
    <3>2. QED
      BY <2>8, <3>1, PoolTyped DEF AllBusy
  <2>11. QED
    BY <2>4, <2>6, <2>8, <2>9, <2>10 DEF NoneWorks
<1>3. ASSUME ~Has(pool.queue, t)
      PROVE  /\ Kept(pool', shown) /\ Sorted(pool'.queue, priority') /\ (~waits => AllBusy(pool', limit))
             /\ priority' \in [Pool!Tasks -> Ranks]
             /\ NoneWorks(pool) => NoneWorks(pool')
  <2>1. UNCHANGED <<pool, priority>>
    BY <1>3 DEF Pool!SetPriority, Pool!Contains, Has
  <2>2. QED
    BY <2>1, PoolTyped DEF AllBusy, Pool!Idle, Pool!Alive, NoneWorks
<1>4. events' \in 0 .. MaxEvents
  BY EventCounts, PoolTyped DEF Pool!SetPriority
<1>5. UNCHANGED <<limit, config, tight, waits, shown, calculator>>
  BY DEF Pool!SetPriority
<1>6. QED
  BY <1>2, <1>3, <1>4, <1>5, PoolTyped DEF PoolInv, PoolSettings, RoomAsTyped

\* Who is asked for next has not been asked for.
LEMMA NextIsNew ==
    ASSUME shown \in Shows, InTurn(shown), NEW t \in Pool!Tasks,
           t = Cardinality({u \in Pool!Tasks : shown[u] # "new"}) + 1
    PROVE  shown[t] = "new" /\ \A u \in Pool!Tasks : u < t => shown[u] # "new"
<1> DEFINE asked == {u \in Pool!Tasks : shown[u] # "new"}
<1>1. /\ MaxTasks \in Nat /\ Pool!Tasks = 1 .. MaxTasks /\ IsFiniteSet(Pool!Tasks)
      /\ IsFiniteSet(asked) /\ asked \subseteq Pool!Tasks /\ Cardinality(asked) \in Nat
  <2>1. MaxTasks \in Nat /\ Pool!Tasks = 1 .. MaxTasks
    BY PoolAssumption DEF Pool!Tasks
  <2>2. IsFiniteSet(Pool!Tasks)
    BY <2>1, FS_Interval
  <2>3. asked \subseteq Pool!Tasks
    OBVIOUS
  <2>4. IsFiniteSet(asked) /\ Cardinality(asked) \in Nat
    BY <2>2, <2>3, FS_Subset, FS_CardinalityType
  <2>5. QED
    BY <2>1, <2>2, <2>3, <2>4
<1>2. t \in Nat /\ t >= 1 /\ Cardinality(asked) = t - 1
  BY <1>1
<1>3. ASSUME shown[t] # "new" PROVE FALSE
  <2>1. 1 .. t \subseteq asked
    <3>. SUFFICES ASSUME NEW v \in 1 .. t PROVE v \in Pool!Tasks /\ shown[v] # "new"
      OBVIOUS
    <3>1. v \in Pool!Tasks /\ (v < t \/ v = t)
      BY <1>1, <1>2
    <3>2. QED
      BY <1>3, <3>1 DEF InTurn
  <2>. HIDE DEF asked
  <2>2. Cardinality(1 .. t) <= Cardinality(asked)
    BY <1>1, <2>1, FS_Subset
  <2>3. Cardinality(1 .. t) = t
    BY <1>2, FS_Interval
  <2>4. QED
    BY <1>2, <2>2, <2>3
<1>4. ASSUME NEW u \in Pool!Tasks, u < t, shown[u] = "new" PROVE FALSE
  <2>1. u \in Nat /\ u >= 1
    BY <1>1
  <2>2. asked \subseteq 1 .. u - 1
    <3>. SUFFICES ASSUME NEW v \in asked, v >= u PROVE FALSE
      BY <1>1, <2>1
    <3>1. v > u \/ v = u
      BY <1>1, <2>1
    <3>2. QED
      BY <1>4, <3>1 DEF InTurn
  <2>. HIDE DEF asked
  <2>3. Cardinality(asked) <= Cardinality(1 .. u - 1)
    <3>1. IsFiniteSet(1 .. u - 1)
      BY <2>1, FS_Interval
    <3>2. QED
      BY <2>2, <3>1, FS_Subset
  <2>4. Cardinality(1 .. u - 1) = u - 1
    <3>1. u - 1 \in Int /\ (IF 1 > u - 1 THEN 0 ELSE (u - 1) - 1 + 1) = u - 1
      BY <2>1
    <3>2. QED
      BY <3>1, FS_Interval
  <2>5. QED
    BY <1>2, <1>4, <2>1, <2>3, <2>4
<1>5. QED
  BY <1>3, <1>4

LEMMA ComputeKeeps ==
    ASSUME PoolInv, NEW t \in Pool!Tasks, NEW rank \in Ranks, Pool!Compute(t, rank)
    PROVE  PoolInv'
<1> DEFINE q == Pool!Inserted(pool.queue, t, priority')
           p == [pool EXCEPT !.queue = q]
<1>1. Kept(pool, shown) /\ pool \in Pools /\ pool.queue \in Seq(Pool!Tasks)
  BY DEF PoolInv, Kept, Pools
<1>2. shown[t] = "new" /\ \A u \in Pool!Tasks : u < t => shown[u] # "new"
  <2>1. t = Cardinality({u \in Pool!Tasks : shown[u] # "new"}) + 1
    BY SameCount DEF Pool!Compute
  <2>2. QED
    BY <2>1, NextIsNew, PoolTyped
<1>3. /\ shown' = [shown EXCEPT ![t] = "queued"] /\ priority' = [priority EXCEPT ![t] = rank]
      /\ Pool!ProcessQueue(p, limit)
      /\ UNCHANGED <<limit, config, tight, calculator, events>>
  BY DEF Pool!Compute
<1>4. /\ shown' \in Shows /\ InTurn(shown')
      /\ shown'[t] = "queued" /\ \A u \in Pool!Tasks : u # t => shown'[u] = shown[u]
  <2>1. shown' \in Shows /\ shown'[t] = "queued" /\ \A u \in Pool!Tasks : u # t => shown'[u] = shown[u]
    BY <1>3, PoolTyped DEF Shows, Pool!Active
  <2>2. InTurn(shown')
    BY <1>2, <2>1, PoolTyped DEF InTurn
  <2>3. QED
    BY <2>1, <2>2
<1>5. priority' \in [Pool!Tasks -> Ranks] /\ \A u \in Pool!Tasks : u # t => priority'[u] = priority[u]
  BY <1>3, PoolTyped
<1>6. ~Has(pool.queue, t) /\ t \notin pool.handlers
  BY <1>1, <1>2 DEF Kept, Pool!Active
<1>7. Sorted(pool.queue, priority')
  <2>1. \A i \in 1 .. Len(pool.queue) : pool.queue[i] \in Pool!Tasks /\ pool.queue[i] # t
    BY <1>1, <1>6 DEF Has
  <2>2. QED
    BY <1>5, <2>1, PoolTyped DEF Sorted
<1>8. q \in Seq(Pool!Tasks) /\ Joined(pool.queue, q, t) /\ Sorted(q, priority')
  BY <1>1, <1>5, <1>7, RanksAreNumbers, InsertedJoins
<1>. HIDE DEF q
<1>9. p \in Pools /\ p.queue = q /\ p.handlers = pool.handlers /\ p.worker = pool.worker
  BY <1>8, WithQueue DEF QueueIs
<1>. HIDE DEF p
<1>10. (\A u : Has(q, u) <=> u = t \/ Has(pool.queue, u)) /\ Distinct(q)
  BY <1>1, <1>6, <1>8, JoinedHas DEF Kept, Apart
<1>11. Kept(p, shown')
  <2>1. \A w \in Workers : pool.worker[w].task # t /\ pool.worker[w].task \in Pool!Tasks \cup {Pool!NoTask}
    <3>1. \A w \in Workers : pool.worker[w].task \in Pool!Tasks \cup {Pool!NoTask}
      BY <1>1, WorkerTypes
    <3>2. t # Pool!NoTask
      BY DEF Pool!Tasks, Pool!NoTask
    <3>3. QED
      BY <1>1, <1>2, <3>1, <3>2 DEF Kept
  <2>2. Apart(p)
    BY <1>1, <1>9, <1>10, <2>1 DEF Kept, Apart
  <2>3. \A w \in Workers : p.worker[w].task # Pool!NoTask => shown'[p.worker[w].task] # "new"
    BY <1>1, <1>4, <1>9, <2>1 DEF Kept
  <2>4. \A u \in Pool!Tasks : shown'[u] \in Pool!Active <=> u \in p.handlers \/ Has(p.queue, u)
    BY <1>1, <1>4, <1>9, <1>10 DEF Kept, Pool!Active
  <2>5. QED
    BY <1>1, <1>9, <2>2, <2>3, <2>4 DEF Kept
<1>12. /\ Kept(pool', shown') /\ Sorted(pool'.queue, priority')
       /\ ~waits' => AllBusy(pool', limit)
       /\ waits' \in BOOLEAN
       /\ limit = 0 /\ NoneWorks(p) => NoneWorks(pool')
  <2>1. priority' \in [Pool!Tasks -> Nat]
    BY <1>5, RanksAreNumbers
  <2>2. Sorted(p.queue, priority')
    BY <1>8, <1>9
  <2>3. QED
    BY <1>3, <1>11, <2>1, <2>2, PoolTyped, ProcessQueueKeeps
<1>13. NoneWorks(pool) => NoneWorks(p)
  BY <1>9 DEF NoneWorks
<1>14. QED
  BY <1>3, <1>4, <1>5, <1>12, <1>13, PoolTyped DEF PoolInv, PoolSettings, RoomAsTyped

LEMMA SetMaxWorkersKeeps ==
    ASSUME PoolInv, NEW n \in Limits, Pool!SetMaxWorkers(n)
    PROVE  PoolInv'
<1>1. /\ limit' \in 0 .. Cardinality(Workers) /\ limit' # 0
      /\ config' \in 0 .. Cardinality(Workers)
  <2>1. n \in 0 .. Cardinality(Workers) /\ Cardinality(Workers) \in Nat \ {0}
    <3>1. n \in 0 .. Cardinality(Workers) /\ IsFiniteSet(Workers) /\ Workers # {}
      BY PoolAssumption
    <3>2. QED
      BY <3>1, FS_CardinalityType, FS_EmptySet
  <2>2. limit' = Pool!Max({1, n}) /\ config' = n
    BY DEF Pool!SetMaxWorkers
  <2>3. Pool!Max({1, n}) = IF n > 1 THEN n ELSE 1
    <3>1. \A m \in {1, n} : (\A k \in {1, n} : m >= k) <=> m = IF n > 1 THEN n ELSE 1
      BY <2>1
    <3>2. QED
      BY <3>1 DEF Pool!Max
  <2>4. QED
    BY <2>1, <2>2, <2>3
<1>2. Pool!ProcessQueue(pool, limit') /\ UNCHANGED <<tight, shown, priority, calculator>>
  BY DEF Pool!SetMaxWorkers
<1>3. /\ Kept(pool', shown) /\ Sorted(pool'.queue, priority)
      /\ ~waits' => AllBusy(pool', limit')
      /\ waits' \in BOOLEAN
  BY <1>1, <1>2, PoolTyped, RanksAreNumbers, ProcessQueueKeeps
<1>4. events' \in 0 .. MaxEvents
  BY EventCounts, PoolTyped DEF Pool!SetMaxWorkers
<1>5. QED
  BY <1>1, <1>2, <1>3, <1>4, PoolTyped DEF PoolInv, PoolSettings, RoomAsTyped

LEMMA SettingKeeps ==
    ASSUME PoolInv, Pool!OpenPanel \/ Pool!MemoryMoves \/ UNCHANGED Pool!vars
    PROVE  PoolInv'
<1>1. UNCHANGED <<pool, limit, config, waits, shown, priority>>
  BY DEF Pool!OpenPanel, Pool!MemoryMoves, Pool!vars
<1>2. calculator' \in {"none", "known", "kept"} /\ tight' \in BOOLEAN /\ events' \in 0 .. MaxEvents
  BY EventCounts, PoolTyped DEF Pool!OpenPanel, Pool!MemoryMoves, Pool!vars
<1>3. QED
  BY <1>1, <1>2, PoolTyped DEF PoolInv, PoolSettings, AllBusy, Pool!Idle, Pool!Alive, RoomAsTyped, NoneWorks

LEMMA LeaveGraphKeeps == ASSUME PoolInv, Pool!LeaveGraph PROVE PoolInv'
<1>1. ASSUME calculator = "known"
      PROVE  /\ shown' \in Shows /\ InTurn(shown') /\ waits' \in BOOLEAN
             /\ Kept(pool', shown') /\ Sorted(pool'.queue, priority) /\ AllBusy(pool', limit')
             /\ limit' \in {config, DefaultWorkers} /\ tight' \in BOOLEAN /\ NoneWorks(pool')
  <2>1. pool' = Pool!Terminated /\ waits' = FALSE /\ shown' = Pool!Ends(Pool!Rejected, "error")
    BY <1>1 DEF Pool!LeaveGraph
  <2>2. /\ pool' \in Pools /\ pool'.queue = <<>> /\ pool'.handlers = {}
        /\ \A w \in Workers : pool'.worker[w] = Pool!Gone
    BY <2>1 DEF Pool!Terminated, Pools, Pool!WorkerStates, Pool!Gone, Pool!News
  <2>3. "error" \in Pool!Ended
    BY DEF Pool!Ended
  <2>4. /\ shown' \in Shows /\ InTurn(shown')
        /\ \A t \in Pool!Tasks : shown'[t] \in Pool!Active <=> shown[t] \in Pool!Active /\ t \notin Pool!Rejected
    BY <2>1, <2>3, EndsIs, PoolTyped
  <2>5. \A t \in Pool!Tasks : shown[t] \in Pool!Active => t \in Pool!Rejected
    <3>1. pool.queue \in Seq(Pool!Tasks)
      BY DEF PoolInv, Kept, Pools
    <3>2. QED
      BY <3>1 DEF PoolInv, Kept, Has, Pool!Rejected, Pool!ToSet
  <2>6. Apart(pool')
    BY <2>2 DEF Apart, Distinct, Has, Pool!Gone
  <2>7. Kept(pool', shown')
    BY <2>2, <2>4, <2>5, <2>6 DEF Kept, Has, Pool!Gone
  <2>8. Sorted(pool'.queue, priority)
    <3>1. Len(pool'.queue) = 0
      BY <2>2
    <3>2. QED
      BY <3>1 DEF Sorted
  <2>9. AllBusy(pool', limit')
    BY <2>2 DEF AllBusy
  <2>10. limit' \in {config, DefaultWorkers} /\ tight' \in BOOLEAN
    BY <1>1 DEF Pool!LeaveGraph, Pool!NextLimits
  <2>11. NoneWorks(pool')
    BY <2>2 DEF NoneWorks, Pool!Gone
  <2>12. QED
    BY <2>1, <2>4, <2>7, <2>8, <2>9, <2>10, <2>11
<1>2. ASSUME calculator # "known"
      PROVE  /\ shown' \in Shows /\ InTurn(shown') /\ waits' \in BOOLEAN
             /\ Kept(pool', shown') /\ Sorted(pool'.queue, priority) /\ (~waits' => AllBusy(pool', limit'))
             /\ UNCHANGED <<limit, tight>> /\ (NoneWorks(pool) => NoneWorks(pool'))
  <2>1. UNCHANGED <<pool, waits, shown, limit, tight>>
    BY <1>2 DEF Pool!LeaveGraph
  <2>2. QED
    BY <2>1, PoolTyped DEF AllBusy, Pool!Idle, Pool!Alive, NoneWorks
<1>3. calculator' \in {"none", "known", "kept"} /\ UNCHANGED <<config, priority>>
  BY DEF Pool!LeaveGraph
<1>4. events' \in 0 .. MaxEvents
  BY EventCounts, PoolTyped DEF Pool!LeaveGraph
<1>5. CASE calculator = "known"
  <2>1. DefaultWorkers \in 0 .. Cardinality(Workers) /\ DefaultWorkers # 0
    BY PoolAssumption
  <2>2. limit' \in 0 .. Cardinality(Workers) /\ (limit' = 0 => config = 0)
    BY <1>1, <1>5, <2>1, PoolTyped
  <2>3. QED
    BY <1>1, <1>3, <1>4, <1>5, <2>2, PoolTyped DEF PoolInv, PoolSettings, RoomAsTyped
<1>6. CASE calculator # "known"
  BY <1>2, <1>3, <1>4, <1>6, PoolTyped DEF PoolInv, PoolSettings, RoomAsTyped
<1>7. QED
  BY <1>5, <1>6

\* Worker w has let go of its task, and the page of whoever waited for it.
Left(w, record) ==
    [queue |-> pool.queue, handlers |-> pool.handlers \ {pool.worker[w].task},
     worker |-> [pool.worker EXCEPT ![w] = record]]

LEMMA LeftKeeps ==
    ASSUME PoolInv, NEW w \in Workers, NEW record \in Pool!WorkerStates, record.task = Pool!NoTask,
           record.run = "gone" => record = Pool!Gone,
           NEW how \in Pool!Ended,
           NEW show, show = Pool!Ends({pool.worker[w].task} \cap pool.handlers, how),
           NEW r, r = Left(w, record)
    PROVE  show \in Shows /\ InTurn(show) /\ Kept(r, show) /\ Sorted(r.queue, priority)
<1> DEFINE mine == pool.worker[w].task
<1>1. Kept(pool, shown) /\ pool \in Pools /\ shown \in Shows /\ InTurn(shown) /\ Sorted(pool.queue, priority)
  BY PoolTyped DEF Kept
<1>2. /\ r.queue = pool.queue /\ r.handlers = pool.handlers \ {mine}
      /\ \A v \in Workers : r.worker[v] = IF v = w THEN record ELSE pool.worker[v]
      /\ r \in Pools
  BY <1>1 DEF Left, Pools
<1>3. /\ show \in Shows /\ InTurn(show)
      /\ \A t \in Pool!Tasks : /\ show[t] \in Pool!Active <=> shown[t] \in Pool!Active /\ t \notin {mine} \cap pool.handlers
                               /\ show[t] = "new" <=> shown[t] = "new"
  BY <1>1, EndsIs
<1>4. \A v \in Workers : pool.worker[v].task \in Pool!Tasks \cup {Pool!NoTask}
  BY <1>1, WorkerTypes
<1>5. Pool!NoTask \notin Pool!Tasks
  BY DEF Pool!NoTask, Pool!Tasks
<1>6. ~Has(pool.queue, Pool!NoTask)
  <2>1. \A i \in 1 .. Len(pool.queue) : pool.queue[i] \in Pool!Tasks
    BY <1>1 DEF Pools
  <2>2. QED
    BY <1>5, <2>1 DEF Has
<1>7. Apart(r)
  BY <1>1, <1>2, <1>6 DEF Kept, Apart
<1>8. \A v \in Workers : /\ r.worker[v].run = "gone" => r.worker[v] = Pool!Gone
                         /\ r.worker[v].task # Pool!NoTask => show[r.worker[v].task] # "new"
  <2>. SUFFICES ASSUME NEW v \in Workers
       PROVE  /\ r.worker[v].run = "gone" => r.worker[v] = Pool!Gone
              /\ r.worker[v].task # Pool!NoTask => show[r.worker[v].task] # "new"
    OBVIOUS
  <2>1. CASE v = w
    BY <1>2, <2>1
  <2>2. CASE v # w
    <3>1. r.worker[v] = pool.worker[v]
      BY <1>2, <2>2
    <3>2. /\ pool.worker[v].run = "gone" => pool.worker[v] = Pool!Gone
          /\ pool.worker[v].task # Pool!NoTask => shown[pool.worker[v].task] # "new"
      BY <1>1 DEF Kept
    <3>3. pool.worker[v].task # Pool!NoTask => show[pool.worker[v].task] # "new"
      BY <1>3, <1>4, <3>2
    <3>4. QED
      BY <3>1, <3>2, <3>3
  <2>3. QED
    BY <2>1, <2>2
<1>9. \A t \in r.handlers : \E v \in Workers : r.worker[v].task = t
  BY <1>1, <1>2 DEF Kept
<1>10. \A t \in Pool!Tasks : show[t] \in Pool!Active <=> t \in r.handlers \/ Has(r.queue, t)
  <2>1. ~Has(pool.queue, mine)
    BY <1>1 DEF Kept, Apart
  <2>2. QED
    BY <1>1, <1>2, <1>3, <2>1 DEF Kept
<1>11. QED
  BY <1>1, <1>2, <1>3, <1>7, <1>8, <1>9, <1>10 DEF Kept

LEMMA FreedIs ==
    ASSUME PoolInv, NEW w \in Workers
    PROVE  /\ Pool!Freed(Pool!Heard(w), w)
                = Left(w, [task |-> Pool!NoTask, run |-> pool.worker[w].run, news |-> "none"])
           /\ [Pool!Freed(Pool!Heard(w), w) EXCEPT !.worker[w] = Pool!Gone] = Left(w, Pool!Gone)
<1> DEFINE x == [task |-> pool.worker[w].task, run |-> pool.worker[w].run, news |-> "none"]
           y == [task |-> Pool!NoTask, run |-> pool.worker[w].run, news |-> "none"]
           p == Pool!Heard(w)
           h == [p EXCEPT !.handlers = p.handlers \ {p.worker[w].task}]
           f == Pool!Freed(p, w)
<1>1. pool \in Pools /\ pool.worker \in [Workers -> Pool!WorkerStates]
  BY WorkerIs DEF Pools
<1>2. p = [pool EXCEPT !.worker = [pool.worker EXCEPT ![w] = x]]
  BY WorkerIs, RecordSet DEF Pool!Heard, Written
<1>3. f = [h EXCEPT !.worker[w].task = Pool!NoTask]
  BY DEF Pool!Freed
<1>4. [x EXCEPT !.task = Pool!NoTask] = y /\ x.task = pool.worker[w].task
  OBVIOUS
<1>. HIDE DEF x, y, p
<1>5. /\ p = [queue |-> pool.queue, handlers |-> pool.handlers, worker |-> [pool.worker EXCEPT ![w] = x]]
      /\ p.worker = [pool.worker EXCEPT ![w] = x] /\ p.worker[w] = x
  BY <1>1, <1>2 DEF Pools
<1>6. /\ h = [queue |-> pool.queue, handlers |-> pool.handlers \ {pool.worker[w].task},
              worker |-> [pool.worker EXCEPT ![w] = x]]
      /\ h.worker[w] = x /\ h.worker = [pool.worker EXCEPT ![w] = x]
  <2>1. p.worker[w].task = pool.worker[w].task /\ p.handlers = pool.handlers
    BY <1>4, <1>5
  <2>2. h = [queue |-> pool.queue, handlers |-> pool.handlers \ {pool.worker[w].task},
             worker |-> [pool.worker EXCEPT ![w] = x]]
    <3> DEFINE q == pool.queue
               s == pool.handlers
               d == pool.handlers \ {pool.worker[w].task}
               k == [pool.worker EXCEPT ![w] = x]
    <3>1. p = [queue |-> q, handlers |-> s, worker |-> k] /\ h = [p EXCEPT !.handlers = d]
      BY <1>5, <2>1
    <3>. HIDE DEF q, s, d, k, h
    <3>2. [[queue |-> q, handlers |-> s, worker |-> k] EXCEPT !.handlers = d]
            = [queue |-> q, handlers |-> d, worker |-> k]
      OBVIOUS
    <3>3. h = [queue |-> q, handlers |-> d, worker |-> k]
      BY <3>1, <3>2
    <3>4. QED
      BY <3>3 DEF q, d, k
  <2>. HIDE DEF h
  <2>3. h.worker = [pool.worker EXCEPT ![w] = x]
    BY <2>2
  <2>4. QED
    BY <1>5, <2>2, <2>3
<1>. HIDE DEF h, f
<1>7. [h EXCEPT !.worker[w].task = Pool!NoTask]
        = [h EXCEPT !.worker = [h.worker EXCEPT ![w] = [h.worker[w] EXCEPT !.task = Pool!NoTask]]]
  OBVIOUS
<1>8. [h.worker EXCEPT ![w] = y] = [pool.worker EXCEPT ![w] = y]
  BY <1>1, <1>6
<1>9. f = [h EXCEPT !.worker = [pool.worker EXCEPT ![w] = y]]
  BY <1>3, <1>4, <1>6, <1>7, <1>8
<1>10. f = Left(w, y)
  BY <1>6, <1>9 DEF Left
<1>11. [f EXCEPT !.worker[w] = Pool!Gone] = Left(w, Pool!Gone)
  <2>1. [f EXCEPT !.worker[w] = Pool!Gone] = [f EXCEPT !.worker = [f.worker EXCEPT ![w] = Pool!Gone]]
    OBVIOUS
  <2>2. [f.worker EXCEPT ![w] = Pool!Gone] = [pool.worker EXCEPT ![w] = Pool!Gone]
    BY <1>1, <1>10 DEF Left
  <2>3. QED
    BY <1>10, <2>1, <2>2 DEF Left
<1>12. QED
  BY <1>10, <1>11 DEF f, p, y

\* handleWorkerMessage and handleWorkerError: the worker answers for its task.
LEMMA HearEndKeeps ==
    ASSUME PoolInv, NEW w \in Workers,
           Pool!HearComplete(w) \/ Pool!HearError(w) \/ Pool!HearCrash(w)
    PROVE  PoolInv'
<1> DEFINE free == [task |-> Pool!NoTask, run |-> pool.worker[w].run, news |-> "none"]
<1>1. PICK how \in Pool!Ended, record \in {free, Pool!Gone} :
          /\ Pool!ProcessQueue(Left(w, record), limit)
          /\ shown' = Pool!Ends({pool.worker[w].task} \cap pool.handlers, how)
  <2>1. ASSUME Pool!HearComplete(w)
        PROVE  /\ Pool!ProcessQueue(Left(w, free), limit)
               /\ shown' = Pool!Ends({pool.worker[w].task} \cap pool.handlers, "completed")
    BY <2>1, FreedIs DEF Pool!HearComplete
  <2>2. ASSUME Pool!HearError(w)
        PROVE  /\ Pool!ProcessQueue(Left(w, free), limit)
               /\ shown' = Pool!Ends({pool.worker[w].task} \cap pool.handlers, "error")
    BY <2>2, FreedIs DEF Pool!HearError
  <2>3. ASSUME Pool!HearCrash(w)
        PROVE  /\ Pool!ProcessQueue(Left(w, Pool!Gone), limit)
               /\ shown' = Pool!Ends({pool.worker[w].task} \cap pool.handlers, "error")
    BY <2>3, FreedIs DEF Pool!HearCrash
  <2>4. "completed" \in Pool!Ended /\ "error" \in Pool!Ended
    BY DEF Pool!Ended
  <2>. HIDE DEF free
  <2>5. QED
    BY <2>1, <2>2, <2>3, <2>4
<1>2. /\ record \in Pool!WorkerStates /\ record.task = Pool!NoTask
      /\ record.run = "gone" => record = Pool!Gone
  <2>1. pool.worker[w].run \in {"gone", "none", "running", "paused", "cancelled", "silent"}
    BY WorkerIs
  <2>2. QED
    BY <2>1 DEF Pool!WorkerStates, Pool!Gone, Pool!News
<1>. HIDE DEF free
<1>3. shown' \in Shows /\ InTurn(shown') /\ Kept(Left(w, record), shown') /\ Sorted(Left(w, record).queue, priority)
  BY <1>1, <1>2, LeftKeeps
<1>4. /\ Kept(pool', shown') /\ Sorted(pool'.queue, priority)
      /\ ~waits' => AllBusy(pool', limit)
      /\ waits' \in BOOLEAN
  BY <1>1, <1>3, PoolTyped, RanksAreNumbers, ProcessQueueKeeps
<1>5. UNCHANGED <<events, limit, config, tight, priority, calculator>>
  BY DEF Pool!HearComplete, Pool!HearError, Pool!HearCrash, Pool!settings
<1>6. limit # 0
  BY WorkerIs, SomeoneWorks DEF Pool!HearComplete, Pool!HearError, Pool!HearCrash, Pool!Says
<1>7. QED
  BY <1>3, <1>4, <1>5, <1>6, PoolTyped DEF PoolInv, PoolSettings, RoomAsTyped

-------------------------------------------------------------------------------
(* The pool at large *)

LEMMA PoolStarts == ASSUME Pool!Init PROVE PoolInv
<1>1. pool \in Pools /\ pool.queue = <<>> /\ pool.handlers = {} /\ \A w \in Workers : pool.worker[w] = Pool!Gone
  BY DEF Pool!Init, Pools, Pool!WorkerStates, Pool!Gone, Pool!News
<1>2. Len(pool.queue) = 0
  BY <1>1
<1>3. \A t \in Pool!Tasks : shown[t] = "new"
  BY DEF Pool!Init
<1>4. Kept(pool, shown)
  BY <1>1, <1>2, <1>3 DEF Kept, Apart, Distinct, Has, Pool!Gone, Pool!Active
<1>5. InTurn(shown) /\ Sorted(pool.queue, priority) /\ AllBusy(pool, limit)
  BY <1>1, <1>2, <1>3 DEF InTurn, Sorted, AllBusy
<1>6. /\ limit \in 0 .. Cardinality(Workers) /\ limit # 0
      /\ config \in 0 .. Cardinality(Workers)
  <2>1. config \in 1 .. Cardinality(Workers) /\ limit \in {config, DefaultWorkers}
    BY SameCount DEF Pool!Init, Pool!NextLimits
  <2>2. DefaultWorkers \in 1 .. Cardinality(Workers)
    BY PoolAssumption
  <2>3. QED
    BY <2>1, <2>2
<1>7. PoolSettings
  <2>1. (CHOOSE rank \in Ranks : TRUE) \in Ranks
    BY PoolAssumption
  <2>2. priority \in [Pool!Tasks -> Ranks]
    BY <2>1 DEF Pool!Init
  <2>3. tight \in BOOLEAN /\ waits \in BOOLEAN /\ calculator \in {"none", "known", "kept"}
    BY DEF Pool!Init
  <2>4. shown \in Shows
    BY DEF Pool!Init, Shows
  <2>5. events \in 0 .. MaxEvents
    BY PoolAssumption DEF Pool!Init
  <2>6. QED
    BY <1>6, <2>2, <2>3, <2>4, <2>5 DEF PoolSettings
<1>8. QED
  BY <1>4, <1>5, <1>6, <1>7 DEF PoolInv, RoomAsTyped

LEMMA PoolStep == ASSUME PoolInv, [Pool!Next]_Pool!vars PROVE PoolInv'
<1>1. ASSUME NEW t \in Pool!Tasks, NEW rank \in Ranks, Pool!Compute(t, rank) \/ Pool!SetPriority(t, rank)
      PROVE  PoolInv'
  BY <1>1, ComputeKeeps, SetPriorityKeeps
<1>2. ASSUME NEW t \in Pool!Tasks, Pool!Cancel(t) \/ Pool!Pause(t) \/ Pool!Resume(t)
      PROVE  PoolInv'
  BY <1>2, CancelKeeps, PauseResumeKeeps
<1>3. ASSUME NEW n \in Limits, Pool!SetMaxWorkers(n)
      PROVE  PoolInv'
  BY <1>3, SetMaxWorkersKeeps
<1>4. ASSUME NEW w \in Workers, Pool!Computes(w) \/ Pool!StopsInSilence(w) \/ Pool!Crashes(w)
      PROVE  PoolInv'
  BY <1>4, ThreadKeeps
<1>5. ASSUME NEW w \in Workers, Pool!HearProgress(w) \/ Pool!Hears(w)
      PROVE  PoolInv'
  BY <1>5, HearProgressKeeps, HearReadyKeeps, HearEndKeeps DEF Pool!Hears
<1>6. ASSUME Pool!OpenPanel \/ Pool!MemoryMoves \/ Pool!LeaveGraph \/ UNCHANGED Pool!vars
      PROVE  PoolInv'
  BY <1>6, SettingKeeps, LeaveGraphKeeps
<1>7. QED
  BY <1>1, <1>2, <1>3, <1>4, <1>5, <1>6 DEF Pool!Next

\* Queue, workers and handlers agree after every click and every message: see PoolInv.
THEOREM PoolAlways == Pool!Spec => []PoolInv
<1>1. Pool!Init => PoolInv
  BY PoolStarts
<1>2. PoolInv /\ [Pool!Next]_Pool!vars => PoolInv'
  BY PoolStep
<1>3. QED
  BY <1>1, <1>2, PTL DEF Pool!Spec

\* Pool, settings and the list of computations keep their types; a slot that is
\* given up is empty; and a pool whose limit is 0, which only a 0 that was typed makes,
\* never gets a worker (workerPool.ts, metricsCalculator.ts, stores/metrics.ts).
THEOREM PoolTypeCorrect == Pool!Spec => []PoolTypeOK
<1>1. PoolInv => PoolTypeOK
  <2>. SUFFICES ASSUME PoolInv PROVE PoolTypeOK
    OBVIOUS
  <2>1. /\ pool.queue \in Seq(Pool!Tasks) /\ pool.worker \in [Workers -> Pool!WorkerStates] /\ pool.handlers \subseteq Pool!Tasks
        /\ \A w \in Workers : pool.worker[w].run = "gone" => pool.worker[w] = Pool!Gone
    BY DEF PoolInv, Kept, Pools
  <2>2. /\ {limit, config} \subseteq 0 .. Pool!Cardinality(Workers)
        /\ limit = 0 => config = 0 /\ Pool!Alive(pool) = {}
    BY SameCount, PoolTyped DEF RoomAsTyped, NoneWorks, Pool!Alive
  <2>3. QED
    BY <2>1, <2>2, PoolTyped DEF PoolTypeOK, Pool!TypeOK, Shows
<1>2. QED
  BY <1>1, PoolAlways, PTL

\* Whoever is active is in one place, and whoever is not in none.
LEMMA PlacesIs ==
    ASSUME PoolInv, NEW t \in Pool!Tasks
    PROVE  Pool!Places(t) = IF shown[t] \in Pool!Active THEN 1 ELSE 0
<1> DEFINE spots == {i \in DOMAIN pool.queue : pool.queue[i] = t}
           on == Pool!Running(pool, t)
<1>1. /\ pool.queue \in Seq(Pool!Tasks) /\ DOMAIN pool.queue = 1 .. Len(pool.queue)
      /\ Apart(pool)
      /\ \A u \in pool.handlers : \E w \in Workers : pool.worker[w].task = u
      /\ shown[t] \in Pool!Active <=> t \in pool.handlers \/ Has(pool.queue, t)
  BY DEF PoolInv, Kept, Pools
<1>2. t # Pool!NoTask
  BY DEF Pool!Tasks, Pool!NoTask
<1>3. Cardinality(spots) = IF Has(pool.queue, t) THEN 1 ELSE 0
  <2>1. CASE Has(pool.queue, t)
    <3>1. PICK i \in 1 .. Len(pool.queue) : pool.queue[i] = t
      BY <2>1 DEF Has
    <3>2. spots = {i}
      BY <1>1, <3>1 DEF Apart, Distinct
    <3>3. Cardinality({i}) = 1
      BY FS_Singleton
    <3>4. QED
      BY <2>1, <3>2, <3>3
  <2>2. CASE ~Has(pool.queue, t)
    <3>1. spots = {}
      BY <1>1, <2>2 DEF Has
    <3>2. QED
      BY <2>2, <3>1, FS_EmptySet
  <2>3. QED
    BY <2>1, <2>2
<1>4. ASSUME t \in pool.handlers PROVE Cardinality(on) = 1 /\ ~Has(pool.queue, t)
  <2>1. PICK w \in Workers : pool.worker[w].task = t
    BY <1>1, <1>4
  <2>2. on = {w}
    BY <1>1, <1>2, <2>1 DEF Apart, Pool!Running
  <2>3. Cardinality({w}) = 1
    BY FS_Singleton
  <2>4. ~Has(pool.queue, t)
    BY <1>1, <2>1 DEF Apart
  <2>5. QED
    BY <2>2, <2>3, <2>4
<1>5. Pool!Places(t) = Cardinality(spots) + (IF t \in pool.handlers THEN Cardinality(on) ELSE 0)
  BY SameCount DEF Pool!Places
<1>. HIDE DEF spots, on
<1>6. QED
  BY <1>1, <1>3, <1>4, <1>5

\* For any number of workers and computations, and any limits and priorities: a
\* computation the user sees as active waits in the queue once or is on one worker
\* that will answer for it, and an ended one is in neither place; unless memory was
\* short nobody waits beside an idle worker or below the limit; and the queue is in the
\* order of the priorities (processQueue, insertByPriority, handleWorkerMessage,
\* handleWorkerError, cancel).
THEOREM PoolHolds == Pool!Spec => []PoolIsFair
<1>1. PoolInv => PoolIsFair
  <2>. SUFFICES ASSUME PoolInv PROVE PoolIsFair
    OBVIOUS
  <2>1. /\ pool.queue \in Seq(Pool!Tasks) /\ DOMAIN pool.queue = 1 .. Len(pool.queue)
        /\ \A t \in Pool!Tasks : t \in pool.handlers => shown[t] \in Pool!Active
    BY DEF PoolInv, Kept, Pools
  <2>2. Pool!Accounted
    BY <2>1, PlacesIs DEF Pool!Accounted
  <2>3. Pool!NobodyIdles
    BY <2>1, PoolTyped, SameCount DEF Pool!NobodyIdles, AllBusy, Sorted
  <2>4. QED
    BY <2>2, <2>3 DEF PoolIsFair, Pool!PoolIsFair
<1>2. QED
  BY <1>1, PoolAlways, PTL

===============================================================================
