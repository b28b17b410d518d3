-------------------------- MODULE ParallelScheduler --------------------------
(***************************************************************************)
(* The parallel agent runtime: ParallelAgentScheduler together with the    *)
(* InMemoryParallelAgentTaskRegistry it drives (src/agent/parallel).       *)
(*                                                                         *)
(* JavaScript runs one reaction at a time, so every synchronous stretch of *)
(* code is one action; the promise chain that pump() hangs on a task       *)
(*    work -> then/catch -> finally                                        *)
(* is one action per reaction, and anything else may run between two.      *)
(* Records are abstracted to their status and a progress count; a record   *)
(* that was pruned has status "gone".                                      *)
(***************************************************************************)
EXTENDS Integers, FiniteSets, SequencesExt

CONSTANTS
  MaxTasks,       \* bound on submissions; task ids are 1..MaxTasks, as nextTaskId
  MaxParallel,    \* maxParallelAgentTasks
  MaxRetained,    \* maxRetainedTerminalTasks
  MaxProgress,    \* bound on the progress events of one task
  Waiters         \* callers of waitForIdle

ASSUME MaxTasksAssumption == MaxTasks \in Nat
ASSUME MaxParallelAssumption == MaxParallel \in Nat \ {0}  \* normalizeMaxParallel
ASSUME MaxRetainedAssumption == MaxRetained \in Nat        \* normalizeMaxRetained
ASSUME MaxProgressAssumption == MaxProgress \in Nat

TaskId == 1..MaxTasks

\* registry.timeoutTask has no caller, so "timeout" never shows up.
Terminal == {"completed", "failed", "aborted"}
Live     == {"pending", "running"}
Status   == {"unregistered", "gone"} \cup Live \cup Terminal

\* Where the closure that pump() builds for a task has got to.
Phase == {"none", "queued", "launched", "working", "returned", "threw",
          "recorded", "done"}
Occupying == {"launched", "working", "returned", "threw", "recorded"}

VARIABLES
  nextId,         \* registry: next sequence number
  status,         \* registry: status of each record
  progress,       \* registry: progress.toolUseCount of each record
  handles,        \* registry: tasks with a runtime handle attached
  terminalOrder,  \* registry: ids in the order they became terminal
  queue,          \* scheduler: entries not yet launched
  running,        \* scheduler: entries that hold a slot
  phase,          \* position of each task in its promise chain
  signalled,      \* tasks whose abort signal has fired
  completion,     \* what the completion promise was settled with
  waiter          \* state of each waitForIdle call

registryVars == <<status, handles, terminalOrder>>
vars == <<nextId, status, progress, handles, terminalOrder, queue, running,
          phase, signalled, completion, waiter>>

-----------------------------------------------------------------------------
(* Registry *)

ExcessOffByOne(s) == IF Len(s) > MaxRetained + 1 THEN Len(s) - MaxRetained - 1 ELSE 0

\* The ids pruneTerminalTasks removes from an order: all but the newest
\* MaxRetained.  Every id in terminalOrder has a terminal record
\* (RetentionExact), so the lookups and filters of the code keep all of them.
Excess(s) == IF Len(s) > MaxRetained THEN Len(s) - MaxRetained ELSE 0
Pruned(s) == {s[i] : i \in 1..Excess(s)}
Retained(s) == SubSeq(s, Excess(s) + 1, Len(s))

FinishAllKeepingHandles(batch, st) ==
  LET order == terminalOrder \o batch
  IN  /\ status' = [u \in TaskId |-> IF u \in Pruned(order) THEN "gone"
                                     ELSE IF u \in ToSet(batch) THEN st
                                     ELSE status[u]]
      /\ terminalOrder' = Retained(order)
      /\ handles' = handles

\* transitionTask into terminal status st for the ids of batch, in that order:
\* the record moves, the handle is cleaned up, the oldest records are pruned.
FinishAll(batch, st) ==
  LET order == terminalOrder \o batch
      gone  == Pruned(order)
  IN  /\ status' = [u \in TaskId |-> IF u \in gone THEN "gone"
                                     ELSE IF u \in ToSet(batch) THEN st
                                     ELSE status[u]]
      /\ terminalOrder' = Retained(order)
      /\ handles' = handles \ (ToSet(batch) \cup gone)

\* completeTask, failTask and abortTask: a no-op on a terminal or pruned record.
Finish(t, st) ==
  IF status[t] \in Live THEN FinishAll(<<t>>, st) ELSE UNCHANGED registryVars

FinishResultUnguarded(t, st) == st

\* What those calls return: the record's status, or "gone" for undefined.
FinishResult(t, st) == IF status[t] \in Live THEN st ELSE status[t]

-----------------------------------------------------------------------------
(* Scheduler *)

Init ==
  /\ nextId = 1
  /\ status = [t \in TaskId |-> "unregistered"]
  /\ progress = [t \in TaskId |-> 0]
  /\ handles = {}
  /\ terminalOrder = <<>>
  /\ queue = <<>>
  /\ running = {}
  /\ phase = [t \in TaskId |-> "none"]
  /\ signalled = {}
  /\ completion = [t \in TaskId |-> "open"]
  /\ waiter = [w \in Waiters |-> "none"]

LaunchableOneMore(q, r) ==
  LET free == MaxParallel - Cardinality(r) + 1
  IN  IF free <= 0 THEN 0 ELSE IF Len(q) < free THEN Len(q) ELSE free

\* How many queue entries q the loop of pump() launches when r hold a slot.
Launchable(q, r) ==
  LET free == MaxParallel - Cardinality(r)
  IN  IF free <= 0 THEN 0 ELSE IF Len(q) < free THEN Len(q) ELSE free

Launched(q, r) == {q[i] : i \in 1..Launchable(q, r)}

\* pump() on queue q, slots r and closure positions ph: the head of the queue
\* gets its handle, its record is marked running and it takes a slot.
\* The registry is left as st and hs by what ran before pump() in this step.
Pump(q, r, ph, st, hs) ==
  LET go == Launched(q, r)
  IN  /\ queue' = SubSeq(q, Launchable(q, r) + 1, Len(q))
      /\ running' = r \cup go
      /\ phase' = [t \in TaskId |-> IF t \in go THEN "launched" ELSE ph[t]]
      /\ status' = [t \in TaskId |-> IF t \in go /\ st[t] = "pending"
                                     THEN "running" ELSE st[t]]
      /\ handles' = hs \cup go

ResolveIdleNever == waiter' = waiter

\* maybeResolveIdle() at the end of a step.
ResolveIdle ==
  waiter' = [w \in Waiters |->
               IF queue' = <<>> /\ running' = {} /\ waiter[w] = "waiting"
               THEN "released" ELSE waiter[w]]

\* submitTask: register, enqueue, pump.
Submit ==
  /\ nextId <= MaxTasks
  /\ nextId' = nextId + 1
  /\ Pump(Append(queue, nextId), running,
          [phase EXCEPT ![nextId] = "queued"],
          [status EXCEPT ![nextId] = "pending"], handles)
  /\ UNCHANGED <<progress, terminalOrder, signalled, completion, waiter>>

\* stop(t) of an entry still in the queue: it leaves the queue, its record is
\* aborted and its completion is answered with that record.
StopQueued(t) ==
  /\ \E i \in DOMAIN queue :
       /\ queue[i] = t
       /\ \A j \in 1..(i - 1) : queue[j] # t
       /\ queue' = RemoveAt(queue, i)
  /\ Finish(t, "aborted")
  /\ phase' = [phase EXCEPT ![t] = "done"]
  /\ completion' = [completion EXCEPT ![t] = FinishResult(t, "aborted")]
  /\ UNCHANGED <<nextId, progress, running, signalled>>
  /\ ResolveIdle

\* stop(t) of an entry with a runtime handle: the signal fires and the record
\* is aborted at once, but the slot stays taken until the work settles.
StopRunning(t) ==
  /\ t \notin ToSet(queue)
  /\ t \in handles
  /\ signalled' = signalled \cup {t}
  /\ Finish(t, "aborted")
  /\ UNCHANGED <<nextId, progress, queue, running, phase, completion>>
  /\ ResolveIdle

Stop(t) == StopQueued(t) \/ StopRunning(t)

\* The "parallel-agent.stop" cleanup of the process: stop(id, "session") for
\* every pending and running record of one snapshot, in registration order.
SessionShutdown ==
  LET live == {t \in TaskId : status[t] \in Live}
  IN  /\ live # {}
      /\ \E batch \in [1..Cardinality(live) -> live] :
           /\ \A i, j \in DOMAIN batch : i < j => batch[i] < batch[j]
           /\ FinishAll(batch, "aborted")
      /\ signalled' = signalled \cup (live \cap handles)
      /\ queue' = <<>>
      /\ phase' = [t \in TaskId |-> IF t \in ToSet(queue) THEN "done"
                                    ELSE phase[t]]
      /\ completion' = [t \in TaskId |-> IF t \in ToSet(queue) THEN "aborted"
                                         ELSE completion[t]]
      /\ UNCHANGED <<nextId, progress, running>>
      /\ ResolveIdle

-----------------------------------------------------------------------------
(* The promise chain of a launched task *)

\* First reaction: next.work(...) is called, whatever happened since pump().
WorkStart(t) ==
  /\ phase[t] = "launched"
  /\ phase' = [phase EXCEPT ![t] = "working"]
  /\ UNCHANGED <<nextId, status, progress, handles, terminalOrder, queue,
                 running, signalled, completion, waiter>>

WorkProgressUnguarded(t) ==
  /\ phase[t] = "working"
  /\ progress[t] < MaxProgress
  /\ progress' = [progress EXCEPT ![t] = @ + 1]
  /\ UNCHANGED <<nextId, status, handles, terminalOrder, queue, running, phase,
                 signalled, completion, waiter>>

\* The progress sink of the work: updateProgress is a no-op on a record that
\* is terminal or pruned.
WorkProgress(t) ==
  /\ phase[t] = "working"
  /\ progress[t] < MaxProgress
  /\ status[t] \in Live
  /\ progress' = [progress EXCEPT ![t] = @ + 1]
  /\ UNCHANGED <<nextId, status, handles, terminalOrder, queue, running, phase,
                 signalled, completion, waiter>>

\* The work's promise fulfils or rejects, signalled or not.
WorkSettle(t) ==
  /\ phase[t] = "working"
  /\ \E outcome \in {"returned", "threw"} :
       phase' = [phase EXCEPT ![t] = outcome]
  /\ UNCHANGED <<nextId, status, progress, handles, terminalOrder, queue,
                 running, signalled, completion, waiter>>

RecordResultNoFallback(t) ==
  LET outcome == IF t \in signalled THEN "aborted" ELSE "completed"
  IN  /\ phase[t] = "returned"
      /\ Finish(t, outcome)
      /\ phase' = [phase EXCEPT ![t] = "recorded"]
      /\ completion' = [completion EXCEPT ![t] = FinishResult(t, outcome)]
      /\ UNCHANGED <<nextId, progress, queue, running, signalled, waiter>>

\* then(): abortTask when the signal fired and the record is still there,
\* completeTask otherwise.  For a pruned record neither finds anything and the
\* promise gets the copy pump() took before markRunning, which is "pending".
RecordResult(t) ==
  LET outcome == IF t \in signalled THEN "aborted" ELSE "completed"
      result  == FinishResult(t, outcome)
  IN  /\ phase[t] = "returned"
      /\ Finish(t, outcome)
      /\ phase' = [phase EXCEPT ![t] = "recorded"]
      /\ completion' = [completion EXCEPT ![t] =
                          IF result = "gone" THEN "pending" ELSE result]
      /\ UNCHANGED <<nextId, progress, queue, running, signalled, waiter>>

\* catch(): failTask, and a rejection when the record is gone.
RecordError(t) ==
  LET result == FinishResult(t, "failed")
  IN  /\ phase[t] = "threw"
      /\ Finish(t, "failed")
      /\ phase' = [phase EXCEPT ![t] = "recorded"]
      /\ completion' = [completion EXCEPT ![t] =
                          IF result = "gone" THEN "rejected" ELSE result]
      /\ UNCHANGED <<nextId, progress, queue, running, signalled, waiter>>

ReleaseSlotNoPump(t) ==
  /\ phase[t] = "recorded"
  /\ running' = running \ {t}
  /\ handles' = handles \ {t}
  /\ phase' = [phase EXCEPT ![t] = "done"]
  /\ UNCHANGED <<nextId, status, progress, queue, terminalOrder, signalled,
                 completion>>
  /\ ResolveIdle

\* finally(): give the slot back, detach the handle, pump, wake idle waiters.
\* drainTerminalTasks finds nothing to prune: transitionTask just pruned.
ReleaseSlot(t) ==
  /\ phase[t] = "recorded"
  /\ Pump(queue, running \ {t}, [phase EXCEPT ![t] = "done"], status,
          handles \ {t})
  /\ UNCHANGED <<nextId, progress, terminalOrder, signalled, completion>>
  /\ ResolveIdle

\* waitForIdle().
WaitForIdle(w) ==
  /\ waiter[w] = "none"
  /\ waiter' = [waiter EXCEPT ![w] =
                  IF queue = <<>> /\ running = {} THEN "released" ELSE "waiting"]
  /\ UNCHANGED <<nextId, status, progress, handles, terminalOrder, queue,
                 running, phase, signalled, completion>>

Chain(t) == \/ WorkStart(t)
            \/ WorkSettle(t)
            \/ RecordResult(t)
            \/ RecordError(t)
            \/ ReleaseSlot(t)

Next ==
  \/ Submit
  \/ SessionShutdown
  \/ \E t \in TaskId : StopQueued(t) \/ StopRunning(t)
  \/ \E t \in TaskId : WorkStart(t) \/ WorkProgress(t) \/ WorkSettle(t)
  \/ \E t \in TaskId : RecordResult(t) \/ RecordError(t) \/ ReleaseSlot(t)
  \/ \E w \in Waiters : WaitForIdle(w)

\* The event loop runs every queued reaction, and the work of a task settles:
\* child runs carry a turn limit and their verification commands a timeout.
Fairness == \A t \in TaskId : WF_vars(Chain(t))

Safety == Init /\ [][Next]_vars
Spec == Safety /\ Fairness

-----------------------------------------------------------------------------
(* Invariants *)

TypeOK ==
  /\ nextId \in 1..(MaxTasks + 1)
  /\ status \in [TaskId -> Status]
  /\ progress \in [TaskId -> 0..MaxProgress]
  /\ handles \in SUBSET TaskId
  /\ terminalOrder \in Seq(TaskId)
  /\ queue \in Seq(TaskId)
  /\ running \in SUBSET TaskId
  /\ phase \in [TaskId -> Phase]
  /\ signalled \in SUBSET TaskId
  /\ completion \in [TaskId -> {"open", "pending", "rejected"} \cup Terminal]
  /\ waiter \in [Waiters -> {"none", "waiting", "released"}]

\* At most maxParallelAgentTasks closures are between pump() and finally(),
\* however stops, settling work and submissions interleave.
SlotBound ==
  /\ Cardinality(running) <= MaxParallel
  /\ running = {t \in TaskId : phase[t] \in Occupying}

\* Work conservation: an entry waits in the queue only while every slot is
\* taken.  Each path that frees a slot must pump.
NoIdleSlot == queue # <<>> => Cardinality(running) = MaxParallel

\* No lost wake-up: nobody is left waiting for idle while the scheduler is idle.
NoStrandedWaiter ==
  (queue = <<>> /\ running = {}) => \A w \in Waiters : waiter[w] # "waiting"

\* stop() reaches every live task and holds on to nothing else: pending records
\* are those in the queue, and the runtime handles (abort controllers) are
\* those of the running records, each of which has a slot.
LiveTaskStoppable ==
  /\ \A t \in TaskId : status[t] = "pending" <=> t \in ToSet(queue)
  /\ handles = {t \in TaskId : status[t] = "running"}
  /\ handles \subseteq running

\* The retention limit holds, counts terminal records only, and the order has
\* each of them once.
RetentionExact ==
  /\ Len(terminalOrder) <= MaxRetained
  /\ ToSet(terminalOrder) = {t \in TaskId : status[t] \in Terminal}
  /\ Cardinality(ToSet(terminalOrder)) = Len(terminalOrder)

\* A completion promise is never resolved with a record that is not terminal.
CompletionIsTerminal == \A t \in TaskId : completion[t] # "pending"

\* The promise and the registry tell the same story: a completion resolved with
\* a terminal record agrees with the record as long as that is retained, and
\* only a record pruned while its work ran leaves a stale answer or a rejection.
CompletionAgrees ==
  \A t \in TaskId :
    /\ completion[t] \in Terminal => status[t] \in {completion[t], "gone"}
    /\ completion[t] \in {"pending", "rejected"} => status[t] = "gone"
    /\ completion[t] = "open" <=> phase[t] \notin {"recorded", "done"}

-----------------------------------------------------------------------------
(* Action properties *)

\* A terminal record never changes again except by being pruned, whatever its
\* work still reports or returns after a stop.
TerminalFrozen ==
  [][\A t \in TaskId :
       status[t] \in Terminal \cup {"gone"} =>
         /\ status'[t] \in {status[t], "gone"}
         /\ progress'[t] = progress[t]]_vars

\* A completion promise is settled once.
SettledOnce ==
  [][\A t \in TaskId : completion[t] # "open" => completion'[t] = completion[t]]_vars

\* waitForIdle answers only at a moment when nothing is queued or running.
ReleasedWhenIdle ==
  [][\A w \in Waiters : (waiter[w] # "released" /\ waiter'[w] = "released")
        => queue' = <<>> /\ running' = {}]_vars

-----------------------------------------------------------------------------
(* Liveness *)

\* Every submitted task's completion promise is eventually settled.
EveryCompletionSettles ==
  \A t \in TaskId : phase[t] # "none" ~> completion[t] # "open"

\* Submissions end at MaxTasks, so every waitForIdle call eventually returns.
EveryWaiterReleased ==
  \A w \in Waiters : waiter[w] = "waiting" ~> waiter[w] = "released"

=============================================================================
