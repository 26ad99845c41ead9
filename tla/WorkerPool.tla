----------------------------- MODULE WorkerPool -----------------------------
(***************************************************************************)
(* The pool of web workers that computes the metrics of the graph on       *)
(* screen: frontend/src/services/workerPool.ts, what a worker does         *)
(* (workers/metricsWorker.ts), the calculator the panels call              *)
(* (services/metricsCalculator.ts) and the list of computations that the   *)
(* user sees (stores/metrics.ts).                                          *)
(*                                                                         *)
(* Page and workers are threads that exchange messages.  What the page     *)
(* does with one click or one message runs to its end: it is one action.   *)
(* The promise of a computation and what the store shows of it change in   *)
(* the same turn of the event loop, so the store stands for both.          *)
(***************************************************************************)
EXTENDS Naturals, FiniteSets, SequencesExt, FiniteSetsExt

CONSTANTS MaxTasks,    \* computations, numbered as they are asked for
          Workers,     \* slots for the workers that are alive
          Ranks,       \* the priorities in use: 0 for high, 1 for medium, 2 for low
          Limits,      \* the numbers of workers a user may type
          DefaultWorkers, \* of a pool that is made without a number
          KeepPanel,   \* a panel may stay open when another graph is opened
          MaxEvents    \* commands, crashes and moves of the memory, all together

Tasks == 1 .. MaxTasks
NoTask == 0

VARIABLES pool,       \* the queue, the workers, the tasks with handlers
          limit,      \* maxWorkers, of the pool there is or of the one made next
          config,     \* workerPoolConfig.maxWorkers: the number as it was typed
          tight,      \* the heap is above maxMemoryMB
          waits,      \* the queue was last left as it was for lack of memory
          shown,      \* what the store shows of each computation
          priority,   \* of each request
          calculator, \* none, known to a reset, or only kept by a panel
          events

vars == <<pool, limit, config, tight, waits, shown, priority, calculator, events>>
settings == <<limit, config, tight, priority, calculator>>

Active == {"queued", "running", "paused"}
Ended == {"completed", "error", "cancelled"}

(***************************************************************************)
(* A worker: the task the page believes it runs, what its thread does, and *)
(* the message on its way to the page.  A thread is ready before it has    *)
(* anything else to say; reports of progress are not kept (HearProgress).  *)
(***************************************************************************)
Gone == [task |-> NoTask, run |-> "gone", news |-> "none"]

News == {"none", "ready", "complete", "error", "crash"}

WorkerStates == [task : Tasks \cup {NoTask},
                 run : {"gone", "none", "running", "paused", "cancelled", "silent"},
                 news : News]

Alive(p) == {w \in Workers : p.worker[w].run # "gone"}

TypeOK ==
  /\ pool.queue \in Seq(Tasks)
  /\ pool.worker \in [Workers -> WorkerStates]
  /\ pool.handlers \subseteq Tasks
  /\ {limit, config} \subseteq 0 .. Cardinality(Workers)
  /\ limit = 0 => config = 0 /\ Alive(pool) = {}
  /\ tight \in BOOLEAN
  /\ shown \in [Tasks -> {"new"} \cup Active \cup Ended]
  /\ priority \in [Tasks -> Ranks]
  /\ calculator \in {"none", "known", "kept"}
  /\ waits \in BOOLEAN
  /\ events \in 0 .. MaxEvents
  /\ \A w \in Workers : pool.worker[w].run = "gone" => pool.worker[w] = Gone

(* getWorkerPool: the pool is made when somebody needs it.  The first       *)
(* computation makes it with the number that was typed, as it is            *)
(* (initialize); a panel that reads the resources before makes it with the  *)
(* default.                                                                 *)
NextLimits == {config, DefaultWorkers}

Init ==
  /\ pool = [queue |-> <<>>, worker |-> [w \in Workers |-> Gone], handlers |-> {}]
  /\ config \in 1 .. Cardinality(Workers)
  /\ limit \in NextLimits
  /\ tight = FALSE
  /\ shown = [t \in Tasks |-> "new"]
  /\ priority = [t \in Tasks |-> CHOOSE rank \in Ranks : TRUE]   \* none of them asked for yet
  /\ calculator = "none"
  /\ waits = FALSE
  /\ events = 0

-----------------------------------------------------------------------------
(* The queue and the workers *)

Idle(p) == {w \in Alive(p) : p.worker[w].task = NoTask}
Running(p, t) == {w \in Workers : p.worker[w].task = t}

(* insertByPriority: before the first one of a lower priority *)
Inserted(queue, t, rank) ==
  LET lower == {i \in DOMAIN queue : rank[t] < rank[queue[i]]}
  IN IF lower = {} THEN Append(queue, t) ELSE InsertAt(queue, Min(lower), t)

(* runTask on worker w, which createWorker may just have made *)
Started(worker, t) ==
  [task |-> t, run |-> "running",
   news |-> IF worker.run = "gone" THEN "ready" ELSE worker.news]

(* processQueue: idle workers first, then new ones up to the limit n *)
Processed(p, n) ==
  LET room == n - Cardinality(Alive(p))
      fresh == SetToSeq(Workers \ Alive(p))
      free == SetToSeq(Idle(p)) \o SubSeq(fresh, 1, IF room > 0 THEN room ELSE 0)
      some == Min({Len(p.queue), Len(free)})
  IN [queue |-> SubSeq(p.queue, some + 1, Len(p.queue)),
      handlers |-> p.handlers \cup {p.queue[i] : i \in 1 .. some},
      worker |-> [w \in Workers |->
        IF \E i \in 1 .. some : free[i] = w
        THEN Started(p.worker[w], p.queue[CHOOSE i \in 1 .. some : free[i] = w])
        ELSE p.worker[w]]]

(* It returns at once while memory is short. *)
ProcessQueue(p, n) ==
  /\ pool' = IF tight THEN p ELSE Processed(p, n)
  /\ waits' = (tight /\ p.queue # <<>>)

(* The message of w is taken from the wire. *)
Heard(w) == [pool EXCEPT !.worker[w].news = "none"]
Says(w, message) == pool.worker[w].news = message

(* The worker is idle again and the task has no handlers any more. *)
Freed(p, w) == [p EXCEPT !.handlers = @ \ {p.worker[w].task}, !.worker[w].task = NoTask]

(* completeComputation, failComputation, cancelComputation: an ended one stays as it is *)
Ends(set, how) == [t \in Tasks |-> IF t \in set /\ shown[t] \in Active THEN how ELSE shown[t]]

\* mutant: a late report makes it active again
UpdatedAlways(t, status) == [shown EXCEPT ![t] = status]

(* updateComputationProgress: an ended one is not touched *)
Updated(t, status) == [shown EXCEPT ![t] = IF @ \in Active THEN status ELSE @]

-----------------------------------------------------------------------------
(* A command of the user, a crash, or a move of the memory *)
Event == events < MaxEvents /\ events' = events + 1

(* The panels.  Opening one makes a calculator when there is none. *)

OpenPanel ==
  /\ calculator # "known"
  /\ calculator' = "known"
  /\ UNCHANGED <<pool, limit, config, tight, waits, shown, priority, events>>

(* computeMetric: the calculator of an open panel *)
Compute(t, rank) ==
  /\ calculator # "none"
  /\ t = Cardinality({u \in Tasks : shown[u] # "new"}) + 1
  /\ priority' = [priority EXCEPT ![t] = rank]
  /\ ProcessQueue([pool EXCEPT !.queue = Inserted(@, t, priority')], limit)
  /\ shown' = [shown EXCEPT ![t] = "queued"]
  /\ UNCHANGED <<limit, config, tight, calculator, events>>

(* A queued task leaves the queue; a running one is told to stop and its    *)
(* handlers go, but its worker stays busy until it answers.                 *)
Cancel(t) ==
  /\ Event
  /\ shown[t] \in Active
  /\ pool' = IF Contains(pool.queue, t)
             THEN [pool EXCEPT !.queue = RemoveFirst(@, t)]
             ELSE [pool EXCEPT !.handlers = @ \ {t},
                               !.worker = [w \in Workers |->
                                 IF @[w].task = t /\ @[w].run \in {"running", "paused"}
                                 THEN [@[w] EXCEPT !.run = "cancelled"] ELSE @[w]]]
  /\ shown' = Ends({t}, "cancelled")
  /\ UNCHANGED <<waits, settings>>

(* The command goes to the worker that runs the task, if there is one. *)
Commanded(t, from, to) ==
  [pool EXCEPT !.worker = [w \in Workers |->
     IF @[w].task = t /\ @[w].run = from THEN [@[w] EXCEPT !.run = to] ELSE @[w]]]

Pause(t) ==
  /\ Event
  /\ shown[t] \in Active \ {"paused"}
  /\ pool' = Commanded(t, "running", "paused")
  /\ shown' = Updated(t, "paused")
  /\ UNCHANGED <<waits, settings>>

Resume(t) ==
  /\ shown[t] = "paused"
  /\ pool' = Commanded(t, "paused", "running")
  /\ shown' = Updated(t, "running")
  /\ UNCHANGED <<waits, events, settings>>

(* setPriority: a queued task is taken out and inserted again *)
SetPriority(t, rank) ==
  /\ Event
  /\ shown[t] \in Active
  /\ rank # priority[t]
  /\ IF Contains(pool.queue, t)
     THEN /\ priority' = [priority EXCEPT ![t] = rank]
          /\ pool' = [pool EXCEPT !.queue = Inserted(RemoveFirst(@, t), t, priority')]
     ELSE UNCHANGED <<priority, pool>>
  /\ UNCHANGED <<limit, config, tight, waits, shown, calculator>>

\* mutant: the number of workers as it was typed
SetMaxWorkersRaw(n) ==
  /\ Event
  /\ calculator # "none"
  /\ limit' = n
  /\ config' = n
  /\ ProcessQueue(pool, limit')
  /\ UNCHANGED <<tight, shown, priority, calculator>>

(* updateWorkerPoolConfig: the pool takes one at least (setMaxWorkers) and   *)
(* terminates no worker when there are too many; the store keeps what was   *)
(* typed.                                                                   *)
SetMaxWorkers(n) ==
  /\ Event
  /\ calculator # "none"
  /\ limit' = Max({1, n})
  /\ config' = n
  /\ ProcessQueue(pool, limit')
  /\ UNCHANGED <<tight, shown, priority, calculator>>

(* The heap grows or shrinks, or setMaxMemory moves the bound: nothing is retried. *)
MemoryMoves ==
  /\ Event
  /\ tight' = ~tight
  /\ UNCHANGED <<pool, limit, config, waits, shown, priority, calculator>>

(* terminate: every task is rejected, every worker is gone *)
Terminated == [queue |-> <<>>, worker |-> [w \in Workers |-> Gone], handlers |-> {}]
Rejected == ToSet(pool.queue) \cup pool.handlers

(* resetMetricsCalculator, when another graph is opened or the view goes.   *)
(* It terminates the pool of the calculator it knows and forgets it; a      *)
(* panel that stays open keeps using it.  The bound on the memory is then   *)
(* that of the next pool.                                                   *)
LeaveGraph ==
  /\ Event
  /\ calculator # "none"
  /\ IF calculator = "known"
     THEN /\ pool' = Terminated /\ waits' = FALSE /\ shown' = Ends(Rejected, "error")
          /\ limit' \in NextLimits
          /\ tight' \in BOOLEAN
     ELSE UNCHANGED <<pool, waits, shown, limit, tight>>
  /\ calculator' \in {"none"} \cup (IF KeepPanel THEN {"kept"} ELSE {})
  /\ UNCHANGED <<config, priority>>

-----------------------------------------------------------------------------
(* The threads of the workers *)

Posts(w, message) ==
  pool' = [pool EXCEPT !.worker[w].run = "none", !.worker[w].news = message]

(* A result, or an exception of the algorithm.  Some algorithms never look  *)
(* at the commands they were sent.                                          *)
Computes(w) ==
  /\ pool.worker[w].run \in {"running", "paused", "cancelled"}
  /\ pool.worker[w].news = "none"
  /\ Posts(w, "complete") \/ Posts(w, "error")
  /\ UNCHANGED <<waits, shown, events, settings>>

(* A cancelled computation returns and says nothing. *)
StopsInSilence(w) ==
  /\ pool.worker[w].run = "cancelled"
  /\ pool.worker[w].news = "none"
  /\ pool' = [pool EXCEPT !.worker[w].run = "silent"]
  /\ UNCHANGED <<waits, shown, events, settings>>

(* An error nobody catches: a script that does not load, no memory left *)
Crashes(w) ==
  /\ Event
  /\ pool.worker[w].run # "gone"
  /\ Posts(w, "crash")
  /\ UNCHANGED <<waits, shown, settings>>

-----------------------------------------------------------------------------
(* handleWorkerMessage and handleWorkerError *)

HearReady(w) ==
  /\ Says(w, "ready")
  /\ ProcessQueue(Heard(w), limit)
  /\ UNCHANGED <<shown, events, settings>>

(* A report that was posted at any time since the task was started: before  *)
(* a command the worker obeyed since, or before its last message.           *)
HearProgress(w) ==
  /\ pool.worker[w].task # NoTask
  /\ shown' = Updated(pool.worker[w].task, "running")
  /\ UNCHANGED <<pool, waits, events, settings>>

\* mutant: the worker is freed only when somebody waits for the result
HearCompleteAwaited(w) ==
  /\ Says(w, "complete")
  /\ IF pool.worker[w].task \in pool.handlers
     THEN ProcessQueue(Freed(Heard(w), w), limit)
     ELSE pool' = Heard(w) /\ UNCHANGED waits
  /\ shown' = Ends({pool.worker[w].task} \cap pool.handlers, "completed")
  /\ UNCHANGED <<events, settings>>

HearComplete(w) ==
  /\ Says(w, "complete")
  /\ ProcessQueue(Freed(Heard(w), w), limit)
  /\ shown' = Ends({pool.worker[w].task} \cap pool.handlers, "completed")
  /\ UNCHANGED <<events, settings>>

HearError(w) ==
  /\ Says(w, "error")
  /\ ProcessQueue(Freed(Heard(w), w), limit)
  /\ shown' = Ends({pool.worker[w].task} \cap pool.handlers, "error")
  /\ UNCHANGED <<events, settings>>

\* mutant: the failed worker is removed and the queue forgotten
HearCrashOnly(w) ==
  /\ Says(w, "crash")
  /\ pool' = [Freed(Heard(w), w) EXCEPT !.worker[w] = Gone]
  /\ shown' = Ends({pool.worker[w].task} \cap pool.handlers, "error")
  /\ UNCHANGED <<waits, events, settings>>

(* The failed worker is removed and the queue may get a new one. *)
HearCrash(w) ==
  /\ Says(w, "crash")
  /\ ProcessQueue([Freed(Heard(w), w) EXCEPT !.worker[w] = Gone], limit)
  /\ shown' = Ends({pool.worker[w].task} \cap pool.handlers, "error")
  /\ UNCHANGED <<events, settings>>

-----------------------------------------------------------------------------

Hears(w) == HearReady(w) \/ HearComplete(w) \/ HearError(w) \/ HearCrash(w)

Next ==
  \/ OpenPanel
  \/ \E t \in Tasks : \/ \E rank \in Ranks : Compute(t, rank) \/ SetPriority(t, rank)
                      \/ Cancel(t)
                      \/ Pause(t)
                      \/ Resume(t)
  \/ \E n \in Limits : SetMaxWorkers(n)
  \/ MemoryMoves
  \/ LeaveGraph
  \/ \E w \in Workers : \/ Computes(w) \/ StopsInSilence(w) \/ Crashes(w)
                        \/ HearProgress(w) \/ Hears(w)

Spec == Init /\ [][Next]_vars

(* The event loop takes every message; a computation that nobody paused     *)
(* comes to an end.  Nothing is assumed of the user.                        *)
Fairness == \A w \in Workers : /\ WF_vars(Hears(w))
                               /\ WF_vars(pool.worker[w].run = "running" /\ Computes(w))
                               /\ WF_vars(pool.worker[w].run = "cancelled" /\ (Computes(w) \/ StopsInSilence(w)))

FairSpec == Spec /\ Fairness

-----------------------------------------------------------------------------

(* A computation the user sees as active is in exactly one place of the     *)
(* pool, waiting in the queue once or on one worker that will answer for    *)
(* it, and an ended one is in none: over priorities, cancels, failed        *)
(* workers and messages that arrive late, no task is lost or run twice.     *)
Places(t) ==
  Cardinality({i \in DOMAIN pool.queue : pool.queue[i] = t})
    + (IF t \in pool.handlers THEN Cardinality(Running(pool, t)) ELSE 0)

Accounted == \A t \in Tasks : /\ Places(t) = IF shown[t] \in Active THEN 1 ELSE 0
                              /\ t \in pool.handlers => shown[t] \in Active

(* Unless memory was short when it was last looked at (processQueue),      *)
(* nobody waits in the queue beside an idle worker or below the limit of    *)
(* workers; and those who wait are in the order of their priorities.        *)
NobodyIdles ==
  /\ pool.queue # <<>> /\ ~waits => Idle(pool) = {} /\ Cardinality(Alive(pool)) >= limit
  /\ \A i, j \in DOMAIN pool.queue : i < j => priority[pool.queue[i]] <= priority[pool.queue[j]]

(* The pool agrees with what the user sees, and leaves nobody waiting.     *)
PoolIsFair == Accounted /\ NobodyIdles

(* "In-flight metric computations belong to the graph being left —          *)
(* terminate their workers" (GraphVisualizationView.vue): leaving a graph   *)
(* leaves nothing running.  Not kept when a panel stays open (README,       *)
(* section 5).                                                              *)
NothingLeftBehind == [][LeaveGraph => \A t \in Tasks : shown'[t] \notin Active]_vars

(* The page waits forever for a worker whose thread fell silent. *)
Silent(w) == pool.worker[w].run = "silent"

(* A computation ends, unless somebody is left paused, the workers are all  *)
(* lost to cancelled computations, memory was short and nothing has         *)
(* happened since that would look at the queue again, or the pool was made  *)
(* for no workers at all.                                                   *)
Settles ==
  \A t \in Tasks :
    []<>(\/ shown[t] \notin Active
         \/ \E w \in Workers : pool.worker[w].run = "paused"
         \/ /\ Alive(pool) = {} => waits \/ limit = 0
            /\ \A w \in Alive(pool) : Silent(w) \/ (waits /\ w \in Idle(pool)))

(* No run: setMaxWorkers takes one at least, and the default configuration  *)
(* is one at least (types/__tests__/metrics.test.ts).  A 0 that was typed   *)
(* is the limit of the pool made after the next reset (README, section 5).  *)
RoomForOne == limit >= 1

(* No run: the store shows the number as that of the pool.  It is not when  *)
(* a panel reads the resources before the first computation.                *)
LimitAsShown == limit = Max({1, config})

(* Without the second exception it does not hold (README, section 5): the worker  *)
(* of a cancelled computation is never idle again.                          *)
CancelFreesTheWorker == \A w \in Workers : []<>(~Silent(w))
=============================================================================
