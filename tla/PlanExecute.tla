------------------------------ MODULE PlanExecute ------------------------------
(***************************************************************************)
(* Plans: executePlan (src/agent/plan-execute/runner.ts), the autopilot    *)
(* around it (autopilot.ts, autopilot-loop-guard.ts) and the plan run      *)
(* record that index.ts keeps in the session file, from which --resume     *)
(* starts again after a crash or a stop.                                   *)
(*                                                                         *)
(* A task has an id, which every plan numbers from 1 again, the ids it     *)
(* depends on, and the piece of work it stands for, which no two plans     *)
(* share.  The program runs plans in the modes "plan", "goal" and          *)
(* "autopilot"; "library" is a caller of executePlan that passes the       *)
(* options the program never does, retry budgets and a replanner.          *)
(***************************************************************************)
EXTENDS Integers, FiniteSets, SequencesExt, Functions

CONSTANTS
  MaxId,         \* the largest id of a task
  Shapes,        \* what a plan may look like: for every task, its dependsOn
  Tails,         \* what a replanner may answer: tasks as [id, deps]
  Budgets,       \* retryBudget of a task in library mode
  Reasons,       \* reasons a failed task may give
  MaxReplans,    \* maxReplansPerTask
  MaxCycles,     \* maxCycles of the autopilot
  MaxLaunches    \* bound on how often the program is started

\* The planner drops the dependency of a task on itself; a replanner need not.
ASSUME ShapesAssumption ==
  /\ MaxId \in Nat
  /\ \A shape \in Shapes :
       /\ shape \in Seq(SUBSET Nat) /\ Len(shape) <= MaxId
       /\ \A i \in DOMAIN shape : i \notin shape[i]
ASSUME TailsAssumption == Tails \subseteq Seq([id : 1 .. MaxId, deps : SUBSET Nat])
ASSUME BudgetsAssumption == Budgets \subseteq Nat
ASSUME ReasonsAssumption == "ok" \notin Reasons
ASSUME BoundsAssumption ==
  MaxReplans \in Nat /\ MaxCycles \in Nat \ {0} /\ MaxLaunches \in Nat \ {0}

Mode == {"library", "plan", "goal", "autopilot"}
Saving == {"goal", "autopilot"}   \* modes that save every step of the run

\* "completed" stands for "verified" too: nothing tells the two apart.
Status == {"pending", "running", "completed", "failed", "blocked", "needs_user"}

VARIABLES
  mode,      \* executionMode
  pc,        \* "off", at the top of a "cycle", of the task loop ("task"),
             \* in runTask ("work"), after the loop ("over"), "done"
  plan,      \* tasks of executePlan's current plan
  cursor,
  replans,   \* attemptsByTaskId
  why,       \* reason of the last step, "ok" when it succeeded
  cycle,     \* cycleCount
  guard,     \* fingerprints createAutopilotLoopGuard remembers
  record,    \* the plan run record in the session file
  launches,  \* how often the program was started
  made,      \* for every plan the planner made, the pieces of work in it
  works,     \* pieces of work handed out to tasks
  done       \* pieces of work whose success executePlan has seen

vars == <<mode, pc, plan, cursor, replans, why, cycle, guard, record, launches,
          made, works, done>>

NoRecord == [open |-> FALSE]
NoGuard == [failure |-> <<>>, tail |-> <<>>]

Ids == 1 .. MaxId
Task(id, deps, work, budget) ==
  [id |-> id, deps |-> deps, work |-> work, status |-> "pending",
   retries |-> 0, budget |-> budget]

Succeeded(t) == t.status = "completed"
Has(ts, status) == \E t \in Range(ts) : t.status = status
Complete(ts) == \A t \in Range(ts) : Succeeded(t)   \* isPlanComplete

Init ==
  /\ mode \in Mode
  /\ pc = "off"
  /\ plan = <<>> /\ cursor = 1 /\ replans = [id \in Ids |-> 0] /\ why = "ok"
  /\ cycle = 0 /\ guard = NoGuard
  /\ record = NoRecord
  /\ launches = 0 /\ made = <<>> /\ works = 0 /\ done = {}

-----------------------------------------------------------------------------
(* The record *)

\* What every save of a run that is going on writes: the tasks as they are in
\* the record, which are those of the plan it was created with.
NewRecord(tasks, m) ==
  [open |-> TRUE, tasks |-> tasks, mode |-> m, cycle |-> 0]

\* updateStoredPlanRunStep: the task with this id gets the status.
WithStatus(tasks, id, status) ==
  [i \in DOMAIN tasks |-> IF tasks[i].id = id THEN [tasks[i] EXCEPT !.status = status]
                                              ELSE tasks[i]]

SaveStepAtStart(id, status) ==
  record' = IF mode \in Saving /\ status = "running"
            THEN [record EXCEPT !.tasks = WithStatus(@, id, status)] ELSE record

SaveStep(id, status) ==
  record' = IF mode \in Saving
            THEN [record EXCEPT !.tasks = WithStatus(@, id, status)] ELSE record

\* createStoredPlanRunRecord: the tasks of the last plan that was executed.
SaveResult ==
  record' = IF mode = "library" THEN record
            ELSE [open |-> ~ Complete(plan), tasks |-> plan, mode |-> mode,
                  cycle |-> cycle]

-----------------------------------------------------------------------------
(* Starting *)

\* buildPlan: a plan of this shape, of new pieces of work.
Planned(shape, budget) ==
  [i \in DOMAIN shape |-> Task(i, shape[i], works + i, budget)]

NewPlan(shape, budget) ==
  /\ plan' = Planned(shape, budget)
  /\ made' = Append(made, works + 1 .. works + Len(shape))
  /\ works' = works + Len(shape)

Enter(m) ==
  /\ pc' = IF m = "autopilot" THEN "cycle" ELSE "task"
  /\ cursor' = 1 /\ replans' = [id \in Ids |-> 0] /\ why' = "ok"
  /\ guard' = NoGuard
  /\ launches' = launches + 1

\* The program is started with a prompt.
Launch ==
  /\ pc = "off" /\ launches = 0
  /\ \E shape \in Shapes,
        budget \in IF mode = "library" THEN Budgets ELSE {0} :
       /\ NewPlan(shape, budget)
       /\ record' = IF mode \in Saving THEN NewRecord(Planned(shape, budget), mode)
                                       ELSE record
  /\ Enter(mode)
  /\ UNCHANGED <<mode, cycle, done>>

\* The program is started with --resume.  The autopilot takes up the plan of a
\* record of its own only; for any other it plans anew, but goes on saving to
\* the record it found.
Resume(m) ==
  /\ pc \in {"off", "done"} /\ record.open /\ launches < MaxLaunches
  /\ mode' = m
  /\ IF m = "autopilot" /\ record.mode # "autopilot"
     THEN /\ \E shape \in Shapes : NewPlan(shape, 0)
          /\ cycle' = 0
     ELSE /\ plan' = record.tasks
          /\ cycle' = record.cycle
          /\ UNCHANGED <<made, works>>
  /\ Enter(m)
  /\ UNCHANGED <<record, done>>

\* The process dies; the record is all that stays.  In library mode nothing is
\* saved and nothing could be resumed.
Crash ==
  /\ pc \notin {"off", "done"} /\ mode # "library"
  /\ pc' = "off"
  /\ plan' = <<>> /\ cursor' = 1 /\ replans' = [id \in Ids |-> 0] /\ why' = "ok"
  /\ cycle' = 0 /\ guard' = NoGuard
  /\ UNCHANGED <<mode, record, launches, made, works, done>>

-----------------------------------------------------------------------------
(* executePlan *)

Current == plan[cursor]
AtTask == pc = "task" /\ cursor <= Len(plan)
SetStatus(status) == plan' = [plan EXCEPT ![cursor].status = status]

MissingUnknown(t) == {d \in t.deps : ~ \E u \in Range(plan) : u.id = d}

\* A dependency hasCompletedDependency finds missing: no task of the plan has
\* the id, or the one that has it did not succeed.
Missing(t) == {d \in t.deps : ~ \E u \in Range(plan) : u.id = d /\ Succeeded(u)}
\* The first of them, dependsOn being taken to list the ids in order, is the id
\* of a task that waits for the user.
WaitsForUser(t) ==
  \E u \in Range(plan) :
    /\ u.id \in Missing(t) /\ \A d \in Missing(t) : u.id <= d
    /\ u.status = "needs_user"

Keep == UNCHANGED <<mode, cycle, guard, launches, made>>

SkipDone ==
  /\ AtTask /\ Succeeded(Current)
  /\ cursor' = cursor + 1
  /\ Keep /\ UNCHANGED <<pc, plan, replans, why, record, works, done>>

\* filterReplannedTasks: no id of the prefix, and no id twice.
Fresh(tail) ==
  {i \in DOMAIN tail : /\ \A k \in 1 .. cursor - 1 : plan[k].id # tail[i].id
                       /\ \A k \in 1 .. i - 1 : tail[k].id # tail[i].id}

\* The one sequence of the members of S in their order.
InOrder(S) ==
  {s \in [1 .. Cardinality(S) -> S] : \A i, k \in DOMAIN s : i < k => s[i] < s[k]}

\* The task at the cursor and all after it are replaced.
ReplaceTail(budget) ==
  \E tail \in Tails : \E taken \in InOrder(Fresh(tail)) :
    LET task(k) == Task(tail[taken[k]].id, tail[taken[k]].deps, works + k, budget)
    IN  /\ plan' = SubSeq(plan, 1, cursor - 1) \o [k \in DOMAIN taken |-> task(k)]
        /\ works' = works + Len(taken)

MayReplan == mode = "library" /\ replans[Current.id] < MaxReplans

ReplanPastNext(budget) ==
  /\ MayReplan
  /\ ReplaceTail(budget)
  /\ replans' = [replans EXCEPT ![Current.id] = @ + 1]
  /\ pc' = "task"
  /\ cursor' = cursor + 1

ReplanUncounted(budget) ==
  /\ mode = "library" /\ cursor = 1
  /\ plan' = <<Task(1, {}, 1, budget)>>
  /\ pc' = "task"
  /\ UNCHANGED <<cursor, replans, works>>

\* maybeReplan.
Replan(budget) ==
  /\ MayReplan
  /\ ReplaceTail(budget)
  /\ replans' = [replans EXCEPT ![Current.id] = @ + 1]
  /\ pc' = "task"
  /\ UNCHANGED cursor

\* No replanner, its attempts are used up, or it threw or gave no plan: on with
\* the next task.
GoOn(status) ==
  /\ SetStatus(status)
  /\ cursor' = cursor + 1
  /\ pc' = "task"
  /\ UNCHANGED <<replans, works>>

StopForUser(status) ==
  /\ SetStatus(status)
  /\ pc' = "over"
  /\ UNCHANGED <<cursor, replans, works>>

BlockOnDependency ==
  /\ AtTask /\ ~ Succeeded(Current) /\ Missing(Current) # {}
  /\ SaveStep(Current.id, "blocked")
  /\ why' \in Reasons
  /\ IF WaitsForUser(Current) THEN StopForUser("blocked")
     ELSE Replan(Current.budget) \/ GoOn("blocked")
  /\ Keep /\ UNCHANGED done

Start ==
  /\ AtTask /\ ~ Succeeded(Current) /\ Missing(Current) = {}
  /\ SetStatus("running")
  /\ SaveStep(Current.id, "running")
  /\ pc' = "work"
  /\ Keep /\ UNCHANGED <<cursor, replans, why, works, done>>

\* runTask returned a result the evaluator accepts.
TaskSucceeds ==
  /\ pc = "work"
  /\ SetStatus("completed")
  /\ SaveStep(Current.id, "completed")
  /\ cursor' = cursor + 1
  /\ pc' = "task"
  /\ why' = "ok"
  /\ done' = done \cup {Current.work}
  /\ Keep /\ UNCHANGED <<replans, works>>

\* It asks for the user: nothing else is tried.
TaskNeedsUser ==
  /\ pc = "work"
  /\ SaveStep(Current.id, "needs_user")
  /\ why' \in Reasons
  /\ StopForUser("needs_user")
  /\ Keep /\ UNCHANGED done

Retry ==
  /\ pc = "work" /\ Current.retries < Current.budget
  /\ SaveStep(Current.id, "failed")
  /\ plan' = [plan EXCEPT ![cursor].status = "pending", ![cursor].retries = @ + 1]
  /\ why' \in Reasons
  /\ pc' = "task"
  /\ Keep /\ UNCHANGED <<cursor, replans, works, done>>

TaskFails(status) ==
  /\ pc = "work"
  /\ \/ status = "failed" /\ Current.retries >= Current.budget
     \/ status = "blocked"
  /\ SaveStep(Current.id, status)
  /\ why' \in Reasons
  /\ Replan(Current.budget) \/ GoOn(status)
  /\ Keep /\ UNCHANGED done

LoopEnds ==
  /\ pc = "task" /\ cursor > Len(plan)
  /\ pc' = "over"
  /\ Keep /\ UNCHANGED <<plan, cursor, replans, why, record, works, done>>

-----------------------------------------------------------------------------
(* What surrounds executePlan *)

StartCycleUncounted ==
  /\ pc = "cycle"
  /\ cycle' = cycle + 1
  /\ record' = [record EXCEPT !.cycle = cycle + 1]
  /\ pc' = "task" /\ cursor' = 1 /\ replans' = [id \in Ids |-> 0] /\ why' = "ok"
  /\ UNCHANGED <<mode, plan, guard, launches, made, works, done>>

\* onCycleStart.  A run resumed after its last cycle is executed once more
\* without one.
StartCycle ==
  /\ pc = "cycle"
  /\ IF cycle < MaxCycles
     THEN /\ cycle' = cycle + 1
          /\ record' = [record EXCEPT !.cycle = cycle + 1]
     ELSE UNCHANGED <<cycle, record>>
  /\ pc' = "task" /\ cursor' = 1 /\ replans' = [id \in Ids |-> 0] /\ why' = "ok"
  /\ UNCHANGED <<mode, plan, guard, launches, made, works, done>>

\* summarizeAutopilotSnapshot: the tasks that are left, and why.
Remaining == SelectSeq(plan, LAMBDA t : ~ Succeeded(t))
Snapshot ==
  LET left == Remaining
  IN  [failure |-> <<IF left = <<>> THEN 0 ELSE Head(left).id, why>>,
       tail |-> [i \in DOMAIN left |-> left[i].id]]

\* The limits are 2.  A snapshot without progress has the same tail, so the
\* third check, for no progress, adds nothing.
GuardTriggered == Snapshot.failure = guard.failure \/ Snapshot.tail = guard.tail

\* deriveStopStatus is one the autopilot stops on.
Stops == Complete(plan) \/ Has(plan, "needs_user") \/ Has(plan, "blocked")

\* The autopilot plans the unfinished work anew.  The record keeps its plan.
NextCycle ==
  /\ pc = "over" /\ mode = "autopilot"
  /\ ~ Stops /\ ~ GuardTriggered /\ cycle < MaxCycles
  /\ guard' = Snapshot
  /\ \E shape \in Shapes : NewPlan(shape, 0)
  /\ pc' = "cycle" /\ cursor' = 1
  /\ UNCHANGED <<mode, replans, why, cycle, record, launches, done>>

Finish ==
  /\ pc = "over"
  /\ mode = "autopilot" => Stops \/ GuardTriggered \/ cycle = MaxCycles
  /\ SaveResult
  /\ pc' = "done"
  /\ UNCHANGED <<mode, plan, cursor, replans, why, cycle, guard, launches, made,
                 works, done>>

Execute ==
  \/ SkipDone \/ BlockOnDependency \/ Start
  \/ TaskSucceeds \/ TaskNeedsUser \/ Retry
  \/ \E status \in {"failed", "blocked"} : TaskFails(status)
  \/ LoopEnds

Step == Execute \/ StartCycle \/ NextCycle \/ Finish

Next ==
  \/ Launch
  \/ \E m \in Saving : Resume(m)
  \/ Crash
  \/ Step

\* agentLoop ends every task (its turns and its model calls are bounded), and
\* the code between two tasks runs to its end.
Spec == Init /\ [][Next]_vars /\ WF_vars(Step)

-----------------------------------------------------------------------------
(* Properties *)

TaskType ==
  [id : Ids, deps : SUBSET Nat, work : 1 .. works, status : Status,
   retries : Nat, budget : Nat]

TypeOK ==
  /\ mode \in Mode
  /\ pc \in {"off", "cycle", "task", "work", "over", "done"}
  /\ plan \in Seq(TaskType)
  /\ cursor \in 1 .. Len(plan) + 1
  /\ replans \in [Ids -> 0 .. MaxReplans]
  /\ why \in Reasons \cup {"ok"}
  /\ cycle \in 0 .. MaxCycles
  /\ record = NoRecord \/ record \in
       [open : BOOLEAN, tasks : Seq(TaskType), mode : Mode, cycle : 0 .. MaxCycles]
  /\ launches \in 0 .. MaxLaunches
  /\ made \in Seq(SUBSET (1 .. works)) /\ works \in Nat /\ done \subseteq 1 .. works

\* A task is started only when the work of everything it depends on has been
\* done, and never when its own was recorded as done, over retries, replans,
\* crashes and resumes; a dependency a replan dropped is not satisfied by
\* anything else.  Runs that were resumed after a second plan are excluded: the
\* finding below is about them (runner.ts, hasCompletedDependency,
\* filterReplannedTasks).
StartsInOrder ==
  [][Len(made) = 1 \/ launches = 1 =>
     (pc = "task" /\ pc' = "work" =>
        /\ Current.work \notin done
        /\ \A d \in Current.deps :
             \E t \in Range(plan) : t.id = d /\ t.work \in done)]_vars

\* As long as there is one plan, the record in the session file says of every
\* task what the program knows of it whenever it goes on to something else, so
\* that a crash loses no more than the task that was running (index.ts,
\* onTaskStart, onTaskEnd).
RecordMatchesPlan ==
  mode \in Saving /\ Len(made) = 1 /\ pc \notin {"off"} =>
    /\ Len(record.tasks) = Len(plan)
    /\ \A i \in DOMAIN plan : record.tasks[i].work = plan[i].work
                              /\ record.tasks[i].status = plan[i].status

\* When a run ends every task of its last plan, those of a replanned tail
\* included, has been tried or found blocked, unless something waits for the
\* user (executePlan).
NoTaskForgotten ==
  pc = "done" =>
    \/ \A t \in Range(plan) : t.status \notin {"pending", "running"}
    \/ Has(plan, "needs_user")

\* Every value in its range, the record true to the plan, and no task left out.
PlanAccounted == TypeOK /\ RecordMatchesPlan /\ NoTaskForgotten

\* Every start of the program comes to an end: retries, replans and cycles are
\* used up (executePlan, runAutopilot).
RunsEnd == []<>(pc \in {"off", "done"})

\* A run that is recorded as complete did all the work of one of its plans: of
\* the first, or of one the autopilot made for what was left (index.ts,
\* createStoredPlanRunRecord).
CompletedMeansDone ==
  record # NoRecord /\ ~ record.open => \E planned \in Range(made) : planned \subseteq done
=============================================================================
