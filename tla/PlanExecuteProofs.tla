---- MODULE PlanExecuteProofs ----
(***************************************************************************)
(* The safety of PlanExecute for plans of any size, any replanner, any     *)
(* budgets and any number of cycles, crashes and resumes; and of what      *)
(* outlives a run: the evidence by which runs of a plan are judged         *)
(* (SelfImprove), for files of any length and however rotations and other  *)
(* processes interleave, and the memories (MemoryStore), for one process.  *)
(***************************************************************************)
EXTENDS PlanExecute, SelfImprove, MemoryStore, SequenceLemmas

\* No two tasks share an id or a piece of work.
Tidy(ts) ==
  \A i, j \in DOMAIN ts : ts[i].id = ts[j].id \/ ts[i].work = ts[j].work => i = j

\* What the program's own plans are like: no retries, no task waits for itself.
Plain(ts) == \A i \in DOMAIN ts : ts[i].budget = 0 /\ ts[i].id \notin ts[i].deps

\* A task is completed just when its work has been done.
Accounted(ts) == \A i \in DOMAIN ts : Succeeded(ts[i]) <=> ts[i].work \in done

Tried(t) == t.status \notin {"pending", "running"}

Planning ==
  /\ Tidy(plan)
  /\ mode # "library" => Plain(plan)
  /\ \A i \in DOMAIN plan : plan[i].status = "needs_user" => plan[i].id \notin plan[i].deps
  /\ Len(made) = 1 \/ launches = 1 => Accounted(plan)

\* Nothing is recorded before the first start, and plan mode records at its end.
Starting ==
  /\ launches = 0 => pc = "off" /\ record = NoRecord /\ made = <<>>
  /\ launches # 0 => made # <<>>
  /\ mode = "library" => record = NoRecord
  /\ mode = "plan" /\ pc # "done" => record = NoRecord
  /\ pc = "cycle" => mode = "autopilot"

Recording ==
  record # NoRecord =>
    /\ Tidy(record.tasks) /\ Plain(record.tasks)
    /\ Len(made) = 1 => Accounted(record.tasks)

\* The record of a first plan is the plan.
Saved ==
  mode \in Saving /\ pc # "off" =>
    record # NoRecord /\ (Len(made) = 1 => record.tasks = plan)

Working ==
  pc = "work" =>
    /\ cursor \in DOMAIN plan /\ Current.status = "running" /\ Current.id \notin Current.deps

\* What lies before the cursor has been tried.
Passed ==
  /\ pc \in {"task", "work"} => \A i \in 1 .. cursor - 1 : Tried(plan[i])
  /\ pc \in {"over", "done"} =>
       (\A i \in DOMAIN plan : Tried(plan[i])) \/ Has(plan, "needs_user")
  /\ pc # "off" => launches # 0

IInv ==
  TypeOK /\ Planning /\ Starting /\ Recording /\ Saved /\ Working /\ Passed

--------------------
(* Tasks and records *)

TaskOf(w) ==
  [id : Ids, deps : SUBSET Nat, work : 1 .. w, status : Status,
   retries : Nat, budget : Nat]

RecordOf(w) ==
  [open : BOOLEAN, tasks : Seq(TaskOf(w)), mode : Mode, cycle : 0 .. MaxCycles]

\* Tasks of a plan are tasks of one with more work.
LEMMA MoreWork ==
  ASSUME NEW w \in Nat, NEW v \in Nat, w <= v, NEW ts \in Seq(TaskOf(w))
  PROVE ts \in Seq(TaskOf(v))
<1>1. TaskOf(w) \subseteq TaskOf(v) BY DEF TaskOf
<1>2. ts \in [1 .. Len(ts) -> TaskOf(v)] /\ Len(ts) \in Nat BY <1>1, Indices
<1> QED BY <1>2, FromFunction

\* A record with tasks is one.
LEMMA RealRecord ==
  /\ \A o, ts, m, c : [open |-> o, tasks |-> ts, mode |-> m, cycle |-> c] # NoRecord
  /\ \A w : \A r \in RecordOf(w) : r # NoRecord
<1>1. "tasks" \notin DOMAIN NoRecord BY DEF NoRecord
<1>2. ASSUME NEW o, NEW ts, NEW m, NEW c
  PROVE "tasks" \in DOMAIN [open |-> o, tasks |-> ts, mode |-> m, cycle |-> c]
  OBVIOUS
<1>3. ASSUME NEW w, NEW r \in RecordOf(w)
  PROVE "tasks" \in DOMAIN r
  BY DEF RecordOf
<1> QED BY <1>1, <1>2, <1>3

\* The types of TypeOK in these words.
LEMMA Typed ==
  ASSUME TypeOK
  PROVE
    /\ plan \in Seq(TaskOf(works)) /\ works \in Nat
    /\ record = NoRecord \/ record \in RecordOf(works)
    /\ record # NoRecord => record.tasks \in Seq(TaskOf(works))
    /\ Len(plan) \in Nat /\ DOMAIN plan = 1 .. Len(plan)
BY Indices DEF TypeOK, TaskOf, TaskType, RecordOf

Marked(ts, i, s) == [ts EXCEPT ![i].status = s]

\* A task of a list gets a status, by its place or by its id.
LEMMA Marking ==
  ASSUME NEW w \in Nat, NEW ts \in Seq(TaskOf(w)), Tidy(ts),
    NEW i \in DOMAIN ts, NEW s \in Status,
    NEW new, new = Marked(ts, i, s)
  PROVE
    /\ new \in Seq(TaskOf(w)) /\ DOMAIN new = DOMAIN ts /\ Len(new) = Len(ts)
    /\ new[i].status = s
    /\ \A j \in DOMAIN ts : j # i => new[j] = ts[j]
    /\ \A j \in DOMAIN ts : /\ new[j].id = ts[j].id /\ new[j].work = ts[j].work
                            /\ new[j].deps = ts[j].deps
    /\ Tidy(new)
    /\ Plain(ts) => Plain(new)
    /\ WithStatus(ts, ts[i].id, s) = new
<1>1.
  /\ Len(ts) \in Nat /\ DOMAIN ts = 1 .. Len(ts)
  /\ \A j \in DOMAIN ts : ts[j] \in TaskOf(w)
  BY Indices
<1>2.
  /\ DOMAIN new = DOMAIN ts /\ new[i] = [ts[i] EXCEPT !.status = s]
  /\ \A j \in DOMAIN ts : j # i => new[j] = ts[j]
  BY DEF Marked
<1>3.
  /\ new[i].status = s
  /\ \A j \in DOMAIN ts :
       /\ new[j] \in TaskOf(w) /\ new[j].budget = ts[j].budget
       /\ new[j].id = ts[j].id /\ new[j].work = ts[j].work /\ new[j].deps = ts[j].deps
  BY <1>1, <1>2 DEF TaskOf, Marked
<1>4. new \in Seq(TaskOf(w)) /\ Len(new) = Len(ts)
 <2>1. new \in [1 .. Len(ts) -> TaskOf(w)] BY <1>1, <1>2, <1>3 DEF Marked
 <2> QED BY <1>1, <2>1, FromFunction
<1>5. Tidy(new) /\ (Plain(ts) => Plain(new)) BY <1>2, <1>3 DEF Tidy, Plain
<1>6. WithStatus(ts, ts[i].id, s) = new
 <2>1. ASSUME NEW j \in DOMAIN ts
   PROVE new[j] = IF ts[j].id = ts[i].id THEN [ts[j] EXCEPT !.status = s] ELSE ts[j]
   BY <1>2 DEF Tidy
 <2> QED BY <1>2, <2>1 DEF WithStatus, Marked
<1> QED BY <1>2, <1>3, <1>4, <1>5, <1>6

\* Tasks that get a status by an id that may be another plan's.
LEMMA Restatus ==
  ASSUME NEW w \in Nat, NEW ts \in Seq(TaskOf(w)), NEW id, NEW s \in Status
  PROVE
    LET new == WithStatus(ts, id, s)
    IN  /\ new \in Seq(TaskOf(w))
        /\ Tidy(ts) => Tidy(new)
        /\ Plain(ts) => Plain(new)
<1> DEFINE new == WithStatus(ts, id, s)
<1>1.
  /\ Len(ts) \in Nat /\ DOMAIN ts = 1 .. Len(ts)
  /\ \A j \in DOMAIN ts : ts[j] \in TaskOf(w)
  BY Indices
<1>2.
  /\ DOMAIN new = DOMAIN ts
  /\ \A j \in DOMAIN ts :
       new[j] = IF ts[j].id = id THEN [ts[j] EXCEPT !.status = s] ELSE ts[j]
  BY DEF WithStatus
<1>3.
  \A j \in DOMAIN ts :
    /\ new[j] \in TaskOf(w) /\ new[j].budget = ts[j].budget
    /\ new[j].id = ts[j].id /\ new[j].work = ts[j].work /\ new[j].deps = ts[j].deps
  BY <1>1, <1>2 DEF TaskOf
<1>4. new \in [1 .. Len(ts) -> TaskOf(w)] BY <1>1, <1>2, <1>3 DEF WithStatus
<1>5. new \in Seq(TaskOf(w)) BY <1>1, <1>4, FromFunction
<1>6. (Tidy(ts) => Tidy(new)) /\ (Plain(ts) => Plain(new))
 <2> HIDE DEF new
 <2> QED BY <1>2, <1>3 DEF Tidy, Plain
<1> QED BY <1>5, <1>6

--------------------
(* The task at the cursor gets a status and the record is told *)

LEMMA MarkStep ==
  ASSUME IInv, cursor \in DOMAIN plan, pc \in {"task", "work"}, ~ Succeeded(Current),
    NEW s \in Status,
    s = "needs_user" => Current.id \notin Current.deps,
    SetStatus(s), SaveStep(Current.id, s),
    done' = done \cup (IF s = "completed" THEN {Current.work} ELSE {}),
    pc' \in {"task", "work", "over"},
    UNCHANGED <<mode, made, works, launches>>
  PROVE
    /\ Planning' /\ Starting' /\ Recording' /\ Saved'
    /\ plan' \in Seq(TaskOf(works)) /\ Len(plan') = Len(plan) /\ DOMAIN plan' = DOMAIN plan
    /\ record' = NoRecord \/ record' \in RecordOf(works)
    /\ plan'[cursor].status = s
    /\ plan'[cursor].id = Current.id /\ plan'[cursor].deps = Current.deps
    /\ \A i \in DOMAIN plan : i # cursor => plan'[i] = plan[i]
    /\ done' \subseteq 1 .. works
<1>1.
  /\ plan \in Seq(TaskOf(works)) /\ works \in Nat
  /\ Tidy(plan) /\ (mode # "library" => Plain(plan))
  /\ record = NoRecord \/ record \in RecordOf(works)
  /\ record # NoRecord => record.tasks \in Seq(TaskOf(works))
  /\ \A i \in DOMAIN plan : plan[i] \in TaskOf(works)
  BY Typed, Indices DEF IInv, Planning
<1>2.
  /\ plan' \in Seq(TaskOf(works)) /\ DOMAIN plan' = DOMAIN plan /\ Len(plan') = Len(plan)
  /\ plan'[cursor].status = s
  /\ \A j \in DOMAIN plan : j # cursor => plan'[j] = plan[j]
  /\ \A j \in DOMAIN plan : /\ plan'[j].id = plan[j].id /\ plan'[j].work = plan[j].work
                            /\ plan'[j].deps = plan[j].deps
  /\ Tidy(plan')
  /\ Plain(plan) => Plain(plan')
  /\ WithStatus(plan, Current.id, s) = plan'
 <2>1. plan' = Marked(plan, cursor, s) BY DEF SetStatus, Marked
 <2> QED BY <1>1, <2>1, Marking DEF Current
<1>3.
  /\ record # NoRecord /\ mode \in Saving
       => record' = [record EXCEPT !.tasks = WithStatus(record.tasks, Current.id, s)]
  /\ mode \notin Saving => record' = record
  /\ record = NoRecord => mode \notin Saving
  BY DEF SaveStep, IInv, Saved
<1>4. ASSUME record # NoRecord
  PROVE
    /\ mode \in Saving /\ record' \in RecordOf(works) /\ record' # NoRecord
    /\ record'.tasks = WithStatus(record.tasks, Current.id, s)
    /\ Tidy(record'.tasks) /\ Plain(record'.tasks)
 <2>1. mode \in Saving BY <1>4 DEF IInv, Starting, TypeOK, Mode, Saving
 <2>2.
   /\ WithStatus(record.tasks, Current.id, s) \in Seq(TaskOf(works))
   /\ Tidy(WithStatus(record.tasks, Current.id, s))
   /\ Plain(WithStatus(record.tasks, Current.id, s))
   BY <1>1, <1>4, Restatus DEF IInv, Recording
 <2>3. record' \in RecordOf(works) /\ record'.tasks = WithStatus(record.tasks, Current.id, s)
   BY <1>1, <1>3, <1>4, <2>1, <2>2 DEF RecordOf
 <2> QED BY <2>1, <2>2, <2>3, RealRecord
<1>5. record = NoRecord => record' = NoRecord BY <1>3
<1>6. Len(made) = 1 \/ launches = 1 => Accounted(plan)'
 <2> SUFFICES ASSUME Len(made) = 1 \/ launches = 1
   PROVE Accounted(plan)'
   OBVIOUS
 <2>1. Accounted(plan) BY DEF IInv, Planning
 <2>2. ASSUME NEW j \in DOMAIN plan
   PROVE Succeeded(plan'[j]) <=> plan'[j].work \in done'
  <3>1. CASE j = cursor BY <1>1, <1>2, <2>1, <3>1 DEF Accounted, Succeeded, Current
  <3>2. CASE j # cursor BY <1>1, <1>2, <2>1, <3>2 DEF Accounted, Succeeded, Current, Tidy
  <3> QED BY <3>1, <3>2
 <2> QED BY <1>2, <2>2 DEF Accounted
<1>7. Planning'
 <2>1.
   \A i \in DOMAIN plan' :
     plan'[i].status = "needs_user" => plan'[i].id \notin plan'[i].deps
   BY <1>2 DEF IInv, Planning, Current
 <2> QED BY <1>1, <1>2, <1>6, <2>1 DEF Planning, Tidy, Plain
<1>8. Starting' BY <1>4, <1>5 DEF IInv, Starting, Saving, Passed
<1>9. Saved' BY <1>2, <1>3, <1>4, <1>5 DEF IInv, Saved, Passed
<1>10. Recording'
 <2>1. Len(made) = 1 /\ record' # NoRecord => Accounted(record.tasks)'
   BY <1>4, <1>5, <1>6, <1>9 DEF Saved, Accounted
 <2> QED BY <1>4, <1>5, <2>1 DEF Recording, Tidy, Plain
<1>11. done' \subseteq 1 .. works BY <1>1 DEF IInv, TypeOK, Current, TaskOf
<1> QED BY <1>1, <1>2, <1>4, <1>5, <1>7, <1>8, <1>9, <1>10, <1>11 DEF Current

\* What is left of the invariant when the task at the cursor got a status.
LEMMA MarkedTypes ==
  ASSUME TypeOK, plan' \in Seq(TaskOf(works)), Len(plan') = Len(plan),
    record' = NoRecord \/ record' \in RecordOf(works),
    done' \subseteq 1 .. works,
    pc' \in {"task", "work", "over"}, cursor' \in 1 .. Len(plan) + 1,
    why' \in Reasons \cup {"ok"}, replans' = replans, works' = works, Keep
  PROVE TypeOK'
BY DEF TypeOK, TaskType, TaskOf, RecordOf, Keep

LEMMA GoOnStep ==
  ASSUME IInv, cursor \in DOMAIN plan, pc \in {"task", "work"}, ~ Succeeded(Current),
    NEW s \in {"completed", "failed", "blocked"},
    GoOn(s), SaveStep(Current.id, s),
    done' = done \cup (IF s = "completed" THEN {Current.work} ELSE {}),
    why' \in Reasons \cup {"ok"}, Keep
  PROVE IInv'
<1>1.
  /\ SetStatus(s) /\ cursor' = cursor + 1 /\ pc' = "task"
  /\ replans' = replans /\ works' = works /\ UNCHANGED <<mode, made, works, launches>>
  /\ s \in Status
  BY DEF GoOn, Keep, Status
<1>2.
  /\ Planning' /\ Starting' /\ Recording' /\ Saved'
  /\ plan' \in Seq(TaskOf(works)) /\ Len(plan') = Len(plan) /\ DOMAIN plan' = DOMAIN plan
  /\ record' = NoRecord \/ record' \in RecordOf(works)
  /\ plan'[cursor].status = s
  /\ \A i \in DOMAIN plan : i # cursor => plan'[i] = plan[i]
  /\ done' \subseteq 1 .. works
  BY <1>1, MarkStep
<1>3. Len(plan) \in Nat /\ DOMAIN plan = 1 .. Len(plan) BY Typed DEF IInv
<1>4. TypeOK' BY <1>1, <1>2, <1>3, MarkedTypes DEF IInv
<1>5. \A i \in 1 .. cursor' - 1 : Tried(plan'[i])
 <2>1. \A i \in 1 .. cursor' - 1 : i \in DOMAIN plan /\ (i = cursor \/ i \in 1 .. cursor - 1)
   BY <1>1, <1>3
 <2>2. \A i \in 1 .. cursor - 1 : Tried(plan[i]) BY DEF IInv, Passed
 <2>3. Tried(plan'[cursor]) BY <1>2 DEF Tried
 <2> QED BY <1>2, <2>1, <2>2, <2>3
<1> QED BY <1>1, <1>2, <1>4, <1>5 DEF IInv, Passed, Working

\* The plan stops for the user: the task at the cursor waits for it, or another.
LEMMA StopStep ==
  ASSUME IInv, cursor \in DOMAIN plan, pc \in {"task", "work"}, ~ Succeeded(Current),
    NEW s \in {"needs_user", "blocked"},
    s = "needs_user" => Current.id \notin Current.deps,
    s = "blocked" => \E i \in DOMAIN plan : i # cursor /\ plan[i].status = "needs_user",
    StopForUser(s), SaveStep(Current.id, s), done' = done,
    why' \in Reasons, Keep
  PROVE IInv'
<1>1.
  /\ SetStatus(s) /\ cursor' = cursor /\ pc' = "over"
  /\ replans' = replans /\ works' = works /\ UNCHANGED <<mode, made, works, launches>>
  /\ s \in Status /\ done' = done \cup (IF s = "completed" THEN {Current.work} ELSE {})
  BY DEF StopForUser, Keep, Status
<1>2.
  /\ Planning' /\ Starting' /\ Recording' /\ Saved'
  /\ plan' \in Seq(TaskOf(works)) /\ Len(plan') = Len(plan) /\ DOMAIN plan' = DOMAIN plan
  /\ record' = NoRecord \/ record' \in RecordOf(works)
  /\ plan'[cursor].status = s
  /\ \A i \in DOMAIN plan : i # cursor => plan'[i] = plan[i]
  /\ done' \subseteq 1 .. works
  BY <1>1, MarkStep
<1>3. Len(plan) \in Nat /\ DOMAIN plan = 1 .. Len(plan) BY Typed DEF IInv
<1>4. TypeOK' BY <1>1, <1>2, <1>3, MarkedTypes DEF IInv
<1>5. \E i \in DOMAIN plan' : plan'[i].status = "needs_user" BY <1>2
<1>6. Has(plan, "needs_user")' BY <1>5 DEF Has, Range
<1> QED BY <1>1, <1>2, <1>4, <1>6 DEF IInv, Passed, Working

--------------------
(* A replan *)

\* A tail of new tasks after what the cursor has passed.
LEMMA ReplanStep ==
  ASSUME IInv, cursor \in DOMAIN plan, pc \in {"task", "work"},
    NEW b \in Nat, NEW s, Replan(b), SaveStep(Current.id, s), done' = done,
    why' \in Reasons, Keep
  PROVE IInv'
<1>1.
  /\ mode = "library" /\ mode' = mode /\ pc' = "task" /\ cursor' = cursor
  /\ replans' = [replans EXCEPT ![Current.id] = @ + 1] /\ replans[Current.id] < MaxReplans
  /\ record = NoRecord /\ record' = NoRecord /\ UNCHANGED <<made, launches, cycle, guard>>
  BY DEF Replan, MayReplan, Keep, SaveStep, IInv, Starting, Saving
<1>2.
  /\ plan \in Seq(TaskOf(works)) /\ works \in Nat
  /\ Len(plan) \in Nat /\ DOMAIN plan = 1 .. Len(plan)
  /\ \A i \in DOMAIN plan : plan[i] \in TaskOf(works)
  BY Typed, Indices DEF IInv
<1>3a.
  PICK tail \in Tails : \E taken \in InOrder(Fresh(tail)) :
   /\ plan' = SubSeq(plan, 1, cursor - 1)
              \o [k \in DOMAIN taken |->
                    Task(tail[taken[k]].id, tail[taken[k]].deps, works + k, b)]
   /\ works' = works + Len(taken)
  BY DEF Replan, ReplaceTail
<1>3.
  PICK taken \in InOrder(Fresh(tail)) :
    /\ plan' = SubSeq(plan, 1, cursor - 1)
               \o [k \in DOMAIN taken |->
                     Task(tail[taken[k]].id, tail[taken[k]].deps, works + k, b)]
    /\ works' = works + Len(taken)
  BY <1>3a
<1> DEFINE n == Cardinality(Fresh(tail))
  new == [k \in DOMAIN taken |->
            Task(tail[taken[k]].id, tail[taken[k]].deps, works + k, b)]
<1>4.
  /\ tail \in Seq([id : Ids, deps : SUBSET Nat])
  /\ Len(tail) \in Nat /\ DOMAIN tail = 1 .. Len(tail)
  /\ \A i \in DOMAIN tail : tail[i] \in [id : Ids, deps : SUBSET Nat]
 <2>1. tail \in Seq([id : Ids, deps : SUBSET Nat]) BY TailsAssumption DEF Ids
 <2> QED BY <2>1, Indices
<1>5.
  /\ n \in Nat /\ taken \in [1 .. n -> Fresh(tail)]
  /\ Len(taken) = n /\ DOMAIN taken = 1 .. n
  /\ \A i, k \in 1 .. n : i < k => taken[i] < taken[k]
 <2>1. Fresh(tail) \subseteq 1 .. Len(tail) BY <1>4 DEF Fresh
 <2>2. IsFiniteSet(Fresh(tail))
  <3>1. Len(tail) \in Int BY <1>4
  <3>2. IsFiniteSet(1 .. Len(tail)) BY <3>1, FS_Interval
  <3> QED BY <2>1, <3>2, FS_Subset
 <2>3. n \in Nat BY <2>2, FS_CardinalityType
 <2>4.
   /\ taken \in [1 .. n -> Fresh(tail)]
   /\ \A i, k \in 1 .. n : i < k => taken[i] < taken[k]
   BY DEF InOrder
 <2> QED BY <2>3, <2>4, FromFunction
<1>6.
  \A k \in 1 .. n :
    /\ taken[k] \in 1 .. Len(tail)
    /\ \A i \in 1 .. cursor - 1 : plan[i].id # tail[taken[k]].id
    /\ \A i \in 1 .. taken[k] - 1 : tail[i].id # tail[taken[k]].id
  BY <1>4, <1>5 DEF Fresh
<1>7. works' \in Nat /\ works <= works' /\ works' = works + n BY <1>2, <1>3, <1>5
<1>8.
  \A k \in 1 .. n :
    /\ new[k] = Task(tail[taken[k]].id, tail[taken[k]].deps, works + k, b)
    /\ new[k] \in TaskOf(works') /\ new[k].id = tail[taken[k]].id /\ new[k].work = works + k
    /\ new[k].status = "pending"
 <2> SUFFICES ASSUME NEW k \in 1 .. n
   PROVE
     /\ new[k] = Task(tail[taken[k]].id, tail[taken[k]].deps, works + k, b)
     /\ new[k] \in TaskOf(works')
     /\ new[k].id = tail[taken[k]].id /\ new[k].work = works + k
     /\ new[k].status = "pending"
   OBVIOUS
 <2>1. new[k] = Task(tail[taken[k]].id, tail[taken[k]].deps, works + k, b) BY <1>5
 <2>2. tail[taken[k]].id \in Ids /\ tail[taken[k]].deps \in SUBSET Nat BY <1>4, <1>6
 <2>3. works + k \in 1 .. works' BY <1>2, <1>5, <1>7
 <2> HIDE DEF new
 <2> QED BY <2>1, <2>2, <2>3 DEF Task, TaskOf, Status
<1>9. new \in Seq(TaskOf(works')) /\ Len(new) = n
 <2>1. new \in [1 .. n -> TaskOf(works')] BY <1>5, <1>8
 <2> QED BY <1>5, <2>1, FromFunction
<1> DEFINE past == SubSeq(plan, 1, cursor - 1)
<1>10.
  /\ past \in Seq(TaskOf(works')) /\ Len(past) = cursor - 1
  /\ \A i \in 1 .. cursor - 1 : past[i] = plan[i]
 <2>1. plan \in Seq(TaskOf(works')) BY <1>2, <1>7, MoreWork
 <2>2. \A i \in 1 .. cursor - 1 : plan[i] \in TaskOf(works') BY <1>2, <2>1, Indices
 <2> QED BY <1>2, <2>2, SubSeqProperties
<1>11. plan' = past \o new BY <1>3
<1> HIDE DEF new, past, n
<1>12.
  /\ plan' \in Seq(TaskOf(works')) /\ Len(plan') = cursor - 1 + n
  /\ DOMAIN plan' = 1 .. cursor - 1 + n
  /\ \A i \in 1 .. cursor - 1 : plan'[i] = plan[i]
  /\ \A i \in cursor .. cursor - 1 + n : plan'[i] = new[i - (cursor - 1)]
 <2>1. cursor \in Int /\ cursor - 1 \in Nat BY <1>2
 <2>2.
   /\ plan' \in Seq(TaskOf(works')) /\ Len(plan') = Len(past) + Len(new)
   /\ \A i \in 1 .. Len(past) + Len(new) :
        plan'[i] = IF i <= Len(past) THEN past[i] ELSE new[i - Len(past)]
   BY <1>9, <1>10, <1>11, ConcatProperties
 <2>3. DOMAIN plan' = 1 .. cursor - 1 + n BY <1>9, <1>10, <2>2, Indices
 <2>4. \A i \in 1 .. cursor - 1 : plan'[i] = plan[i] BY <1>5, <1>9, <1>10, <2>1, <2>2
 <2>5. \A i \in cursor .. cursor - 1 + n : plan'[i] = new[i - (cursor - 1)]
   BY <1>5, <1>9, <1>10, <2>1, <2>2
 <2> QED BY <1>9, <1>10, <2>2, <2>3, <2>4, <2>5
<1>13.
  \A i \in DOMAIN plan' :
     \/ i \in 1 .. cursor - 1
     \/ i \in cursor .. cursor - 1 + n /\ i - (cursor - 1) \in 1 .. n
  BY <1>2, <1>5, <1>12
<1>14. Tidy(plan')
 <2>0. DOMAIN plan' \subseteq Int BY <1>12
 <2> SUFFICES ASSUME NEW i \in DOMAIN plan', NEW j \in DOMAIN plan', i < j
   PROVE plan'[i].id # plan'[j].id /\ plan'[i].work # plan'[j].work
  <3>1. \A i, j \in DOMAIN plan' : i = j \/ i < j \/ j < i BY <2>0
  <3> QED BY <3>1 DEF Tidy
 <2>1. CASE j \in 1 .. cursor - 1 BY <1>2, <1>12, <2>1 DEF IInv, Planning, Tidy
 <2>2. CASE i \in 1 .. cursor - 1 /\ j - (cursor - 1) \in 1 .. n /\ j \in cursor .. cursor - 1 + n
  <3>1. plan[i].work <= works /\ plan[i].work \in Int BY <1>2, <2>2 DEF TaskOf
  <3>2. PICK c \in 1 .. n : c = j - (cursor - 1) BY <2>2
  <3>3. plan'[i] = plan[i] /\ plan'[j] = new[c] BY <1>12, <2>2, <3>2
  <3>4. new[c].id = tail[taken[c]].id /\ new[c].work = works + c BY <1>8
  <3>5. plan[i].id # tail[taken[c]].id BY <1>6, <2>2
  <3>6. plan[i].work # works + c BY <1>2, <1>5, <3>1
  <3> QED BY <3>3, <3>4, <3>5, <3>6
 <2>3.
   CASE i - (cursor - 1) \in 1 .. n /\ i \in cursor .. cursor - 1 + n
        /\ j - (cursor - 1) \in 1 .. n /\ j \in cursor .. cursor - 1 + n
  <3>1. PICK a, c \in 1 .. n : a = i - (cursor - 1) /\ c = j - (cursor - 1) BY <2>3
  <3>2. a < c /\ plan'[i] = new[a] /\ plan'[j] = new[c] BY <1>2, <1>5, <1>12, <2>3, <3>1
  <3>3. taken[a] \in 1 .. taken[c] - 1
   <4>1. taken[a] \in 1 .. Len(tail) /\ taken[c] \in 1 .. Len(tail) BY <1>6
   <4> QED BY <1>4, <1>5, <3>2, <4>1
  <3>4. tail[taken[a]].id # tail[taken[c]].id BY <1>6, <3>3
  <3>5. works + a # works + c BY <1>2, <1>5, <3>2
  <3>6. /\ new[a].id = tail[taken[a]].id /\ new[c].id = tail[taken[c]].id
        /\ new[a].work = works + a /\ new[c].work = works + c
    BY <1>8
  <3> QED BY <3>2, <3>4, <3>5, <3>6
 <2> QED BY <1>2, <1>12, <1>13, <2>1, <2>2, <2>3
<1>15.
  \A i \in DOMAIN plan' :
    plan'[i].status = "needs_user" => plan'[i].id \notin plan'[i].deps
 <2>1. \A i \in 1 .. cursor - 1 : i \in DOMAIN plan BY <1>2
 <2>2.
   \A i \in 1 .. cursor - 1 :
     plan[i].status = "needs_user" => plan[i].id \notin plan[i].deps
   BY <2>1 DEF IInv, Planning
 <2>3. \A i \in DOMAIN plan' : i \notin 1 .. cursor - 1 => plan'[i].status = "pending"
   BY <1>8, <1>12, <1>13
 <2> QED BY <1>12, <2>2, <2>3
<1>16. Len(made) = 1 \/ launches = 1 => Accounted(plan)'
 <2> SUFFICES ASSUME Len(made) = 1 \/ launches = 1
   PROVE Accounted(plan)'
   OBVIOUS
 <2>1. Accounted(plan) /\ done \subseteq 1 .. works BY DEF IInv, Planning, TypeOK
 <2>2. ASSUME NEW i \in DOMAIN plan'
   PROVE Succeeded(plan'[i]) <=> plan'[i].work \in done'
  <3>1. CASE i \in 1 .. cursor - 1 BY <1>2, <1>12, <2>1, <3>1 DEF Accounted
  <3>2. CASE i \in cursor .. cursor - 1 + n /\ i - (cursor - 1) \in 1 .. n
   <4>1. PICK k \in 1 .. n : k = i - (cursor - 1) BY <3>2
   <4>2. plan'[i].status = "pending" /\ plan'[i].work = works + k BY <1>8, <1>12, <3>2, <4>1
   <4> QED BY <1>2, <2>1, <4>1, <4>2 DEF Succeeded
  <3> QED BY <1>13, <3>1, <3>2
 <2> QED BY <2>2 DEF Accounted
<1>17. TypeOK'
 <2>1. plan' \in Seq(TaskType)' /\ cursor' \in 1 .. Len(plan') + 1
   BY <1>1, <1>2, <1>5, <1>12 DEF TaskType, TaskOf
 <2>2. replans' \in [Ids -> 0 .. MaxReplans]
  <3>1. Current.id \in Ids BY <1>2 DEF Current, TaskOf
  <3>2. replans \in [Ids -> 0 .. MaxReplans] /\ MaxReplans \in Nat
    BY BoundsAssumption DEF IInv, TypeOK
  <3> QED BY <1>1, <3>1, <3>2
 <2>3. made' \in Seq(SUBSET (1 .. works'))
  <3>1. made \in [1 .. Len(made) -> SUBSET (1 .. works')] /\ Len(made) \in Nat
    BY <1>2, <1>7, Indices DEF IInv, TypeOK
  <3> QED BY <1>1, <3>1, FromFunction
 <2>4. done' \subseteq 1 .. works' BY <1>2, <1>7 DEF IInv, TypeOK
 <2> QED BY <1>1, <1>7, <2>1, <2>2, <2>3, <2>4 DEF IInv, TypeOK, Keep
<1>18. Passed' BY <1>1, <1>12 DEF IInv, Passed
<1>19. Planning' BY <1>1, <1>14, <1>15, <1>16 DEF Planning
<1>20. Starting' /\ Recording' /\ Saved' /\ Working'
  BY <1>1 DEF IInv, Passed, Starting, Recording, Saved, Working, Saving
<1> QED BY <1>17, <1>18, <1>19, <1>20 DEF IInv

--------------------
(* The steps of executePlan *)

LEMMA AtIndex ==
  ASSUME IInv
  PROVE
    /\ Len(plan) \in Nat /\ DOMAIN plan = 1 .. Len(plan) /\ cursor \in 1 .. Len(plan) + 1
    /\ AtTask => cursor \in DOMAIN plan
    /\ cursor \in DOMAIN plan =>
         Current.status \in Status /\ Current.budget \in Nat /\ Current.retries \in Nat
    /\ pc = "work" => cursor \in DOMAIN plan /\ ~ Succeeded(Current)
<1>1.
  /\ Len(plan) \in Nat /\ DOMAIN plan = 1 .. Len(plan)
  /\ \A i \in DOMAIN plan : plan[i] \in TaskOf(works)
  /\ cursor \in 1 .. Len(plan) + 1
  BY Typed, Indices DEF IInv, TypeOK
<1>2. AtTask => cursor \in DOMAIN plan BY <1>1 DEF AtTask
<1>3.
  cursor \in DOMAIN plan =>
    Current.status \in Status /\ Current.budget \in Nat /\ Current.retries \in Nat
  BY <1>1 DEF Current, TaskOf
<1> QED BY <1>1, <1>2, <1>3 DEF IInv, Working, Succeeded

LEMMA SkipDoneStep ==
  ASSUME IInv, SkipDone
  PROVE IInv'
<1>1.
  /\ AtTask /\ Succeeded(Current) /\ cursor' = cursor + 1
  /\ UNCHANGED <<mode, cycle, guard, launches, made, pc, plan, replans, why, record,
                 works, done>>
  BY DEF SkipDone, Keep
<1>2. TypeOK'
 <2>1. cursor' \in 1 .. Len(plan') + 1 BY <1>1, AtIndex DEF AtTask
 <2> QED BY <1>1, <2>1 DEF IInv, TypeOK, TaskType
<1>3. Passed'
 <2>1. \A i \in 1 .. cursor' - 1 : i = cursor \/ i \in 1 .. cursor - 1 BY <1>1, AtIndex
 <2>2. Tried(plan[cursor]) BY <1>1 DEF Tried, Succeeded, Current
 <2> QED BY <1>1, <2>1, <2>2 DEF IInv, Passed, AtTask, Has
<1> QED
  BY <1>1, <1>2, <1>3 DEF IInv, Planning, Starting, Recording, Saved, Working, AtTask,
    Accounted, Current

\* A task whose dependencies are all there does not depend on itself.
LEMMA StartStep ==
  ASSUME IInv, Start
  PROVE IInv'
<1>1.
  /\ AtTask /\ ~ Succeeded(Current) /\ Missing(Current) = {}
  /\ SetStatus("running") /\ SaveStep(Current.id, "running") /\ pc' = "work"
  /\ UNCHANGED <<mode, cycle, guard, launches, made, cursor, replans, why, works, done>>
  BY DEF Start, Keep
<1>2. cursor \in DOMAIN plan BY <1>1, AtIndex
<1>3.
  /\ Planning' /\ Starting' /\ Recording' /\ Saved'
  /\ plan' \in Seq(TaskOf(works)) /\ Len(plan') = Len(plan) /\ DOMAIN plan' = DOMAIN plan
  /\ record' = NoRecord \/ record' \in RecordOf(works)
  /\ plan'[cursor].status = "running"
  /\ plan'[cursor].id = Current.id /\ plan'[cursor].deps = Current.deps
  /\ \A i \in DOMAIN plan : i # cursor => plan'[i] = plan[i]
  /\ done' \subseteq 1 .. works
 <2>1.
   "running" \in Status
   /\ done' = done \cup (IF "running" = "completed" THEN {Current.work} ELSE {})
   /\ pc \in {"task", "work"}
   BY <1>1 DEF Status, AtTask
 <2> QED BY <1>1, <1>2, <2>1, MarkStep
<1>4. Current.id \notin Current.deps
 <2> SUFFICES ASSUME Current.id \in Current.deps
   PROVE FALSE
   OBVIOUS
 <2>1. PICK i \in DOMAIN plan : plan[i].id = Current.id /\ Succeeded(plan[i])
   BY <1>1 DEF Missing, Range
 <2>2. i = cursor BY <1>2, <2>1 DEF IInv, Planning, Tidy, Current
 <2> QED BY <1>1, <2>1, <2>2 DEF Current
<1>5. TypeOK'
 <2>1. TypeOK /\ why' \in Reasons \cup {"ok"} /\ cursor' \in 1 .. Len(plan) + 1 /\ Keep
   BY <1>1, AtIndex DEF IInv, Keep, TypeOK
 <2> QED BY <1>1, <1>3, <2>1, MarkedTypes
<1>6. Working' BY <1>1, <1>2, <1>3, <1>4 DEF Working, Current
<1>7. Passed'
 <2>1. \A i \in 1 .. cursor - 1 : i \in DOMAIN plan /\ i # cursor BY AtIndex
 <2> QED BY <1>1, <1>3, <2>1 DEF IInv, Passed, AtTask
<1> QED BY <1>3, <1>5, <1>6, <1>7 DEF IInv

\* A dependency that waits for the user is another task.
LEMMA BlockStep ==
  ASSUME IInv, BlockOnDependency
  PROVE IInv'
<1>1.
  /\ AtTask /\ pc \in {"task", "work"} /\ ~ Succeeded(Current)
  /\ SaveStep(Current.id, "blocked") /\ why' \in Reasons /\ Keep /\ done' = done
  /\ IF WaitsForUser(Current) THEN StopForUser("blocked")
     ELSE Replan(Current.budget) \/ GoOn("blocked")
  BY DEF BlockOnDependency, AtTask
<1>2. cursor \in DOMAIN plan /\ Current.budget \in Nat BY <1>1, AtIndex
<1>3. CASE WaitsForUser(Current)
 <2>1. PICK i \in DOMAIN plan : plan[i].id \in Current.deps /\ plan[i].status = "needs_user"
   BY <1>3 DEF WaitsForUser, Missing, Range
 <2>2. i # cursor BY <1>2, <2>1 DEF IInv, Planning, Current
 <2> QED BY <1>1, <1>2, <1>3, <2>1, <2>2, StopStep
<1>4. CASE Replan(Current.budget) BY <1>1, <1>2, <1>4, ReplanStep
<1>5. CASE GoOn("blocked") BY <1>1, <1>2, <1>5, GoOnStep
<1> QED BY <1>1, <1>3, <1>4, <1>5

LEMMA SucceedsStep ==
  ASSUME IInv, TaskSucceeds
  PROVE IInv'
<1>1. GoOn("completed") /\ Keep BY DEF TaskSucceeds, GoOn
<1>2.
  /\ pc \in {"task", "work"} /\ SaveStep(Current.id, "completed")
  /\ done' = done \cup (IF "completed" = "completed" THEN {Current.work} ELSE {})
  /\ why' \in Reasons \cup {"ok"}
  BY DEF TaskSucceeds
<1>3. cursor \in DOMAIN plan /\ ~ Succeeded(Current) BY AtIndex DEF TaskSucceeds
<1> QED BY <1>1, <1>2, <1>3, GoOnStep

LEMMA NeedsUserStep ==
  ASSUME IInv, TaskNeedsUser
  PROVE IInv'
<1>1.
  /\ pc = "work" /\ SaveStep(Current.id, "needs_user") /\ why' \in Reasons
  /\ StopForUser("needs_user") /\ Keep /\ done' = done
  BY DEF TaskNeedsUser
<1>2. cursor \in DOMAIN plan /\ ~ Succeeded(Current) /\ Current.id \notin Current.deps
  BY <1>1, AtIndex DEF IInv, Working
<1> QED BY <1>1, <1>2, StopStep

LEMMA FailsStep ==
  ASSUME IInv, NEW s \in {"failed", "blocked"}, TaskFails(s)
  PROVE IInv'
<1>1.
  /\ pc = "work" /\ SaveStep(Current.id, s) /\ why' \in Reasons
  /\ Replan(Current.budget) \/ GoOn(s)
  /\ Keep /\ done' = done
  BY DEF TaskFails
<1>2. cursor \in DOMAIN plan /\ ~ Succeeded(Current) /\ Current.budget \in Nat BY <1>1, AtIndex
<1>3. CASE Replan(Current.budget) BY <1>1, <1>2, <1>3, ReplanStep
<1>4. CASE GoOn(s) BY <1>1, <1>2, <1>4, GoOnStep
<1> QED BY <1>1, <1>3, <1>4

\* Only a caller of the library retries, and nothing is recorded for it.
LEMMA RetryStep ==
  ASSUME IInv, Retry
  PROVE IInv'
<1>1.
  /\ pc = "work" /\ Current.retries < Current.budget /\ SaveStep(Current.id, "failed")
  /\ plan' = [plan EXCEPT ![cursor].status = "pending", ![cursor].retries = @ + 1]
  /\ why' \in Reasons /\ pc' = "task"
  /\ UNCHANGED <<mode, cycle, guard, launches, made, cursor, replans, works, done>>
  BY DEF Retry, Keep
<1>2.
  /\ cursor \in DOMAIN plan /\ ~ Succeeded(Current)
  /\ Current.budget \in Nat /\ Current.retries \in Nat
  /\ Len(plan) \in Nat /\ DOMAIN plan = 1 .. Len(plan)
  /\ \A i \in DOMAIN plan : plan[i] \in TaskOf(works)
  BY <1>1, AtIndex, Typed, Indices DEF IInv
<1>3. mode = "library" BY <1>1, <1>2 DEF IInv, Planning, Plain, Current
<1>4. record = NoRecord /\ record' = NoRecord BY <1>1, <1>3 DEF IInv, Starting, SaveStep, Saving
<1>5.
  /\ DOMAIN plan' = DOMAIN plan
  /\ \A i \in DOMAIN plan : i # cursor => plan'[i] = plan[i]
  /\ \A i \in DOMAIN plan :
       /\ plan'[i].id = plan[i].id /\ plan'[i].work = plan[i].work
       /\ plan'[i].deps = plan[i].deps /\ plan'[i] \in TaskOf(works)
  /\ plan'[cursor].status = "pending"
  BY <1>1, <1>2 DEF TaskOf, Current, Status
<1>6. plan' \in Seq(TaskOf(works)) /\ Len(plan') = Len(plan)
 <2>1. plan' \in [1 .. Len(plan) -> TaskOf(works)] BY <1>1, <1>2, <1>5
 <2> QED BY <1>2, <2>1, FromFunction
<1>7. TypeOK'
 <2>1. /\ TypeOK /\ Keep /\ done' \subseteq 1 .. works /\ cursor' \in 1 .. Len(plan) + 1
   BY <1>1, AtIndex DEF IInv, Keep, TypeOK
 <2> QED BY <1>1, <1>4, <1>6, <2>1, MarkedTypes
<1>8.
  Tidy(plan') /\ \A i \in DOMAIN plan' :
                   plan'[i].status = "needs_user" => plan'[i].id \notin plan'[i].deps
  BY <1>2, <1>5 DEF IInv, Planning, Tidy
<1>9. Len(made) = 1 \/ launches = 1 => Accounted(plan)'
 <2>1. \A i \in DOMAIN plan : Succeeded(plan'[i]) <=> Succeeded(plan[i])
   BY <1>2, <1>5 DEF Succeeded, Current
 <2> QED BY <1>1, <1>5, <2>1 DEF IInv, Planning, Accounted
<1>10. Planning' BY <1>1, <1>3, <1>8, <1>9 DEF Planning
<1>11. Passed'
 <2>1. \A i \in 1 .. cursor - 1 : i \in DOMAIN plan /\ i # cursor BY <1>2
 <2> QED BY <1>1, <1>5, <2>1 DEF IInv, Passed
<1> QED
  BY <1>1, <1>3, <1>4, <1>7, <1>10, <1>11 DEF IInv, Starting, Recording, Saved, Working, Saving

LEMMA LoopEndsStep ==
  ASSUME IInv, LoopEnds
  PROVE IInv'
<1>1.
  /\ pc = "task" /\ cursor > Len(plan) /\ pc' = "over"
  /\ UNCHANGED <<mode, cycle, guard, launches, made, plan, cursor, replans, why,
                 record, works, done>>
  BY DEF LoopEnds, Keep
<1>2. TypeOK' BY <1>1 DEF IInv, TypeOK, TaskType
<1>3. \A i \in DOMAIN plan : Tried(plan[i])
 <2>1. \A i \in DOMAIN plan : i \in 1 .. cursor - 1 BY <1>1, AtIndex
 <2> QED BY <1>1, <2>1 DEF IInv, Passed
<1> QED
  BY <1>1, <1>2, <1>3 DEF IInv, Planning, Starting, Recording, Saved, Working, Passed, Accounted

--------------------
(* Around executePlan *)

LEMMA StartCycleStep ==
  ASSUME IInv, StartCycle
  PROVE IInv'
<1>1.
  /\ pc = "cycle" /\ mode = "autopilot" /\ mode \in Saving
  /\ pc' = "task" /\ cursor' = 1 /\ replans' = [id \in Ids |-> 0] /\ why' = "ok"
  /\ UNCHANGED <<mode, plan, guard, launches, made, works, done>>
  BY DEF StartCycle, IInv, Starting, Saving
<1>2. record # NoRecord /\ record \in RecordOf(works) BY <1>1, Typed DEF IInv, Saved
<1>3.
  /\ cycle' \in 0 .. MaxCycles
  /\ record' \in RecordOf(works) /\ record'.tasks = record.tasks
 <2>1. cycle \in 0 .. MaxCycles /\ MaxCycles \in Nat BY BoundsAssumption DEF IInv, TypeOK
 <2>2. CASE cycle < MaxCycles
  <3>1. cycle' = cycle + 1 /\ record' = [record EXCEPT !.cycle = cycle + 1]
    BY <2>2 DEF StartCycle
  <3>2. cycle + 1 \in 0 .. MaxCycles BY <2>1, <2>2
  <3> QED BY <1>2, <3>1, <3>2 DEF RecordOf
 <2>3. CASE ~ (cycle < MaxCycles) BY <1>2, <2>1, <2>3 DEF StartCycle
 <2> QED BY <2>2, <2>3
<1>4. record' # NoRecord BY <1>3, RealRecord
<1>5. TypeOK'
  BY <1>1, <1>3, AtIndex, BoundsAssumption DEF IInv, TypeOK, TaskType, TaskOf, RecordOf
<1>6. Recording' /\ Saved' BY <1>1, <1>2, <1>3, <1>4 DEF IInv, Recording, Saved, Accounted
<1>7. Passed' BY <1>1, AtIndex DEF IInv, Passed
<1> QED BY <1>1, <1>5, <1>6, <1>7 DEF IInv, Planning, Starting, Working, Accounted

LEMMA FinishStep ==
  ASSUME IInv, Finish
  PROVE IInv'
<1>1.
  /\ pc = "over" /\ pc' = "done" /\ SaveResult
  /\ UNCHANGED <<mode, plan, cursor, replans, why, cycle, guard, launches, made,
                 works, done>>
  BY DEF Finish
<1>2. CASE mode = "library"
 <2>1. record' = record /\ record = NoRecord BY <1>1, <1>2 DEF SaveResult, IInv, Starting
 <2>2. TypeOK' BY <1>1, <2>1 DEF IInv, TypeOK, TaskType
 <2> QED
   BY <1>1, <1>2, <2>1, <2>2 DEF IInv, Planning, Starting, Recording, Saved, Working, Passed,
     Accounted, Saving
<1>3. CASE mode # "library"
 <2>1. record' = [open |-> ~ Complete(plan), tasks |-> plan, mode |-> mode, cycle |-> cycle]
   BY <1>1, <1>3 DEF SaveResult
 <2>2. plan \in Seq(TaskOf(works)) /\ mode \in Mode /\ cycle \in 0 .. MaxCycles
   BY Typed DEF IInv, TypeOK
 <2>3. /\ record' \in RecordOf(works) /\ record'.tasks = plan /\ record' # NoRecord
   BY <2>1, <2>2, RealRecord DEF RecordOf
 <2>4. TypeOK' BY <1>1, <2>3 DEF IInv, TypeOK, TaskType, TaskOf, RecordOf
 <2>5. Recording' BY <1>1, <1>3, <2>3 DEF IInv, Planning, Recording, Accounted
 <2>6. Saved' BY <1>1, <2>3 DEF Saved
 <2> QED BY <1>1, <1>3, <2>4, <2>5, <2>6 DEF IInv, Planning, Starting, Working, Passed,
     Accounted
<1> QED BY <1>2, <1>3

LEMMA CrashStep ==
  ASSUME IInv, Crash
  PROVE IInv'
<1>1.
  /\ pc' = "off" /\ plan' = <<>> /\ cursor' = 1
  /\ replans' = [id \in Ids |-> 0] /\ why' = "ok" /\ cycle' = 0
  /\ mode # "library" /\ pc # "done" /\ pc # "off"
  /\ UNCHANGED <<mode, record, launches, made, works, done>>
  BY DEF Crash
<1>2. plan' \in Seq(TaskType)' /\ Len(plan') = 0 /\ DOMAIN plan' = {} BY <1>1
<1>3. TypeOK' BY <1>1, <1>2, BoundsAssumption DEF IInv, TypeOK, TaskType
<1> QED
  BY <1>1, <1>2, <1>3 DEF IInv, Planning, Starting, Recording, Saved, Working, Passed,
    Accounted, Tidy, Plain

--------------------
(* New plans *)

\* A plan of a shape: its ids are its places, its work is new.
LEMMA PlannedTasks ==
  ASSUME works \in Nat, NEW shape \in Shapes, NEW b \in Nat
  PROVE
    LET p == Planned(shape, b)
        v == works + Len(shape)
    IN  /\ v \in Nat /\ works <= v
        /\ p \in Seq(TaskOf(v)) /\ DOMAIN p = 1 .. Len(shape)
        /\ Tidy(p) /\ (b = 0 => Plain(p))
        /\ \A i \in DOMAIN p : /\ p[i].status = "pending" /\ p[i].work = works + i
                               /\ ~ Succeeded(p[i]) /\ p[i].work > works
<1> DEFINE p == Planned(shape, b)
  v == works + Len(shape)
<1>1.
  /\ shape \in Seq(SUBSET Nat) /\ Len(shape) \in Nat /\ Len(shape) <= MaxId
  /\ DOMAIN shape = 1 .. Len(shape) /\ MaxId \in Nat
  /\ \A i \in 1 .. Len(shape) : shape[i] \in SUBSET Nat /\ i \notin shape[i]
  BY ShapesAssumption, Indices
<1>2. v \in Nat /\ works <= v BY <1>1
<1>3.
  /\ DOMAIN p = 1 .. Len(shape)
  /\ \A i \in 1 .. Len(shape) :
       p[i] = [id |-> i, deps |-> shape[i], work |-> works + i, status |-> "pending",
               retries |-> 0, budget |-> b]
  BY <1>1 DEF Planned, Task
<1>4.
  \A i \in 1 .. Len(shape) :
    /\ p[i].id = i /\ p[i].work = works + i /\ p[i].status = "pending"
    /\ p[i].budget = b /\ p[i].deps = shape[i] /\ p[i] \in TaskOf(v)
 <2> SUFFICES ASSUME NEW i \in 1 .. Len(shape)
   PROVE
     /\ p[i].id = i /\ p[i].work = works + i /\ p[i].status = "pending"
     /\ p[i].budget = b /\ p[i].deps = shape[i] /\ p[i] \in TaskOf(v)
   OBVIOUS
 <2>1. i \in Ids /\ works + i \in 1 .. v /\ shape[i] \in SUBSET Nat BY <1>1 DEF Ids
 <2> HIDE DEF p, v
 <2> QED BY <1>3, <2>1 DEF TaskOf, Status
<1>5. p \in Seq(TaskOf(v))
 <2>1. p \in [1 .. Len(shape) -> TaskOf(v)] BY <1>1, <1>3, <1>4 DEF Planned
 <2> QED BY <1>1, <2>1, FromFunction
<1>6. \A i \in 1 .. Len(shape) : p[i].work > works /\ ~ Succeeded(p[i])
  BY <1>1, <1>4 DEF Succeeded
<1>7. Tidy(p) /\ (b = 0 => Plain(p))
 <2> HIDE DEF p
 <2>1. Tidy(p) BY <1>1, <1>3, <1>4 DEF Tidy
 <2>2. b = 0 => Plain(p) BY <1>1, <1>3, <1>4 DEF Plain
 <2> QED BY <2>1, <2>2
<1> QED BY <1>2, <1>3, <1>4, <1>5, <1>6, <1>7

\* What a new plan changes.
LEMMA NewPlanEffect ==
  ASSUME TypeOK, NEW shape \in Shapes, NEW b \in Nat, NewPlan(shape, b), done' = done
  PROVE
    /\ plan' = Planned(shape, b) /\ works' \in Nat /\ works <= works'
    /\ plan' \in Seq(TaskOf(works')) /\ plan' \in Seq(TaskType)'
    /\ Tidy(plan') /\ (b = 0 => Plain(plan')) /\ Accounted(plan)'
    /\ \A i \in DOMAIN plan' : plan'[i].status = "pending"
    /\ made' \in Seq(SUBSET (1 .. works')) /\ Len(made') = Len(made) + 1
    /\ Len(made) \in Nat /\ done' \subseteq 1 .. works'
<1>1.
  /\ plan' = Planned(shape, b) /\ made' = Append(made, works + 1 .. works + Len(shape))
  /\ works' = works + Len(shape)
  /\ works \in Nat /\ made \in Seq(SUBSET (1 .. works)) /\ done \subseteq 1 .. works
  BY DEF NewPlan, TypeOK
<1>2.
  /\ works' \in Nat /\ works <= works'
  /\ plan' \in Seq(TaskOf(works')) /\ Tidy(plan') /\ (b = 0 => Plain(plan'))
  /\ \A i \in DOMAIN plan' :
       /\ plan'[i].status = "pending" /\ ~ Succeeded(plan'[i]) /\ plan'[i].work > works
  BY <1>1, PlannedTasks
<1>3. Accounted(plan)'
 <2>1. ASSUME NEW i \in DOMAIN plan'
   PROVE ~ Succeeded(plan'[i]) /\ plan'[i].work \notin done'
  <3>1. plan'[i].work \notin 1 .. works BY <1>1, <1>2
  <3> QED BY <1>1, <1>2, <3>1
 <2> QED BY <2>1 DEF Accounted
<1>4. /\ made' \in Seq(SUBSET (1 .. works')) /\ Len(made') = Len(made) + 1 /\ Len(made) \in Nat
 <2>1. Len(made) \in Nat /\ made \in [1 .. Len(made) -> SUBSET (1 .. works')]
   BY <1>1, <1>2, Indices
 <2>2. made \in Seq(SUBSET (1 .. works')) BY <2>1, FromFunction
 <2>3. works + 1 .. works + Len(shape) \in SUBSET (1 .. works') BY <1>1, <1>2
 <2> QED BY <1>1, <2>1, <2>2, <2>3, AppendProperties
<1>5. plan' \in Seq(TaskType)' BY <1>2 DEF TaskType, TaskOf
<1> QED BY <1>1, <1>2, <1>3, <1>4, <1>5

LEMMA LaunchStep ==
  ASSUME IInv, Launch
  PROVE IInv'
<1>1.
  /\ pc = "off" /\ launches = 0 /\ launches' = 1
  /\ pc' = (IF mode = "autopilot" THEN "cycle" ELSE "task")
  /\ cursor' = 1 /\ replans' = [id \in Ids |-> 0] /\ why' = "ok"
  /\ UNCHANGED <<mode, cycle, done>> /\ TypeOK /\ made = <<>> /\ record = NoRecord
  BY DEF Launch, Enter, IInv, Starting
<1>2.
  PICK shape \in Shapes, b \in IF mode = "library" THEN Budgets ELSE {0} :
    /\ NewPlan(shape, b)
    /\ record' = IF mode \in Saving THEN NewRecord(Planned(shape, b), mode) ELSE record
  BY DEF Launch
<1>3. b \in Nat /\ (mode # "library" => b = 0) BY <1>2, BudgetsAssumption
<1>4.
  /\ plan' = Planned(shape, b) /\ works' \in Nat
  /\ plan' \in Seq(TaskOf(works')) /\ plan' \in Seq(TaskType)'
  /\ Tidy(plan') /\ (b = 0 => Plain(plan')) /\ Accounted(plan)'
  /\ \A i \in DOMAIN plan' : plan'[i].status = "pending"
  /\ made' \in Seq(SUBSET (1 .. works')) /\ Len(made') = 1 /\ made' # <<>>
  /\ done' \subseteq 1 .. works'
 <2>1. Len(made') = Len(made) + 1 /\ Len(made) = 0 BY <1>1, <1>2, <1>3, NewPlanEffect
 <2>2. Len(made') = 1 /\ made' # <<>> BY <2>1
 <2> QED BY <1>1, <1>2, <1>3, <2>2, NewPlanEffect
<1>5. Planning' BY <1>1, <1>3, <1>4 DEF Planning
<1>6.
  mode \in Saving => /\ record' \in RecordOf(works') /\ record' # NoRecord
                     /\ record'.tasks = plan'
 <2> SUFFICES ASSUME mode \in Saving
   PROVE
     /\ record' \in RecordOf(works') /\ record' # NoRecord
     /\ record'.tasks = plan'
   OBVIOUS
 <2>1. record' = [open |-> TRUE, tasks |-> plan', mode |-> mode, cycle |-> 0]
   BY <1>2, <1>4 DEF NewRecord
 <2>2. mode \in Mode /\ 0 \in 0 .. MaxCycles BY <1>1, BoundsAssumption DEF TypeOK
 <2> QED BY <1>4, <2>1, <2>2, RealRecord DEF RecordOf
<1>7. mode \notin Saving => record' = NoRecord BY <1>1, <1>2
<1>8. TypeOK'
 <2>1. cursor' \in 1 .. Len(plan') + 1 BY <1>1, <1>4, Indices
 <2>2. record' = NoRecord \/ record' \in RecordOf(works') BY <1>6, <1>7
 <2> QED BY <1>1, <1>4, <2>1, <2>2, BoundsAssumption DEF TypeOK, RecordOf, TaskOf, TaskType
<1>9. Starting' /\ Saved'
  BY <1>1, <1>4, <1>6, <1>7 DEF Starting, Saved, Saving, IInv, TypeOK, Mode
<1>10. Recording' BY <1>1, <1>4, <1>5, <1>6, <1>7 DEF Recording, Planning, Accounted, Saving
<1>11. Working' /\ Passed' BY <1>1 DEF Working, Passed
<1> QED BY <1>5, <1>8, <1>9, <1>10, <1>11 DEF IInv

\* The autopilot plans anew: what was accounted for one plan no longer counts.
LEMMA NextCycleStep ==
  ASSUME IInv, NextCycle
  PROVE IInv'
<1>1.
  /\ pc = "over" /\ mode = "autopilot" /\ pc' = "cycle" /\ cursor' = 1
  /\ UNCHANGED <<mode, replans, why, cycle, record, launches, done>>
  /\ TypeOK /\ made # <<>> /\ record # NoRecord /\ launches # 0
  BY DEF NextCycle, IInv, Starting, Passed, Saved, Saving
<1>2. PICK shape \in Shapes : NewPlan(shape, 0) BY DEF NextCycle
<1>3.
  /\ works' \in Nat /\ works <= works'
  /\ plan' \in Seq(TaskOf(works')) /\ plan' \in Seq(TaskType)'
  /\ Tidy(plan') /\ Plain(plan') /\ Accounted(plan)'
  /\ \A i \in DOMAIN plan' : plan'[i].status = "pending"
  /\ made' \in Seq(SUBSET (1 .. works')) /\ Len(made') = Len(made) + 1
  /\ Len(made) \in Nat /\ done' \subseteq 1 .. works'
  BY <1>1, <1>2, NewPlanEffect
<1>4. Len(made') # 1 /\ made' # <<>>
 <2>1. Len(made) # 0 BY <1>1, EmptySeq DEF TypeOK
 <2> QED BY <1>3, <2>1
<1>5. record \in RecordOf(works')
 <2>1. record \in RecordOf(works) /\ works \in Nat BY <1>1, Typed
 <2>2. record.tasks \in Seq(TaskOf(works')) BY <1>3, <2>1, MoreWork DEF RecordOf
 <2> QED BY <2>1, <2>2 DEF RecordOf
<1>6. TypeOK'
 <2>1. cursor' \in 1 .. Len(plan') + 1 BY <1>1, <1>3, Indices
 <2> QED BY <1>1, <1>3, <1>5, <2>1 DEF TypeOK, RecordOf, TaskOf, TaskType
<1>7. Planning' BY <1>1, <1>3 DEF Planning
<1>8. Starting' /\ Recording' /\ Saved' /\ Working' /\ Passed'
  BY <1>1, <1>4 DEF IInv, Starting, Recording, Saved, Working, Passed
<1> QED BY <1>6, <1>7, <1>8 DEF IInv

LEMMA ResumeStep ==
  ASSUME IInv, NEW m \in Saving, Resume(m)
  PROVE IInv'
<1>1.
  /\ record.open /\ launches < MaxLaunches /\ mode' = m
  /\ pc' = (IF m = "autopilot" THEN "cycle" ELSE "task")
  /\ cursor' = 1 /\ replans' = [id \in Ids |-> 0] /\ why' = "ok"
  /\ launches' = launches + 1 /\ UNCHANGED <<record, done>> /\ TypeOK
  BY DEF Resume, Enter, IInv
<1>2.
  /\ record # NoRecord /\ record \in RecordOf(works) /\ works \in Nat
  /\ record.tasks \in Seq(TaskOf(works))
  BY <1>1, Typed DEF NoRecord
<1>3.
  launches # 0 /\ made # <<>> /\ launches' # 1 /\ launches' # 0
  /\ launches' \in 0 .. MaxLaunches
 <2>1. launches # 0 /\ made # <<>> BY <1>2 DEF IInv, Starting
 <2>2. launches \in 0 .. MaxLaunches /\ MaxLaunches \in Nat BY <1>1, BoundsAssumption DEF TypeOK
 <2> QED BY <1>1, <2>1, <2>2
<1>4. Len(made) \in Nat /\ Len(made) # 0 BY <1>1, <1>3, EmptySeq, Indices DEF TypeOK
<1>5. m \in Mode /\ m \in Saving /\ m # "library" /\ m # "plan" BY DEF Mode, Saving
<1>6. CASE m = "autopilot" /\ record.mode # "autopilot"
 <2>1. PICK shape \in Shapes : NewPlan(shape, 0) BY <1>6 DEF Resume
 <2>2. cycle' = 0 BY <1>6 DEF Resume
 <2>3.
   /\ works' \in Nat /\ works <= works'
   /\ plan' \in Seq(TaskOf(works')) /\ plan' \in Seq(TaskType)'
   /\ Tidy(plan') /\ Plain(plan') /\ Accounted(plan)'
   /\ \A i \in DOMAIN plan' : plan'[i].status = "pending"
   /\ made' \in Seq(SUBSET (1 .. works')) /\ Len(made') = Len(made) + 1
   /\ done' \subseteq 1 .. works'
   BY <1>1, <2>1, NewPlanEffect
 <2>4. Len(made') # 1 /\ made' # <<>> BY <1>4, <2>3
 <2>5. record \in RecordOf(works')
  <3>1. record.tasks \in Seq(TaskOf(works')) BY <1>2, <2>3, MoreWork
  <3> QED BY <1>2, <3>1 DEF RecordOf
 <2>6. TypeOK'
  <3>1. cursor' \in 1 .. Len(plan') + 1 BY <1>1, <2>3, Indices
  <3> QED
    BY <1>1, <1>3, <1>5, <2>2, <2>3, <2>5, <3>1, BoundsAssumption DEF TypeOK, RecordOf, TaskOf,
      TaskType
 <2>7. Planning' BY <1>1, <2>3 DEF Planning
 <2>8. Starting' /\ Recording' /\ Saved' /\ Working' /\ Passed'
   BY <1>1, <1>2, <1>3, <1>5, <1>6, <2>4 DEF IInv, Starting, Recording, Saved, Working, Passed
 <2> QED BY <2>6, <2>7, <2>8 DEF IInv
<1>7. CASE ~ (m = "autopilot" /\ record.mode # "autopilot")
 <2>1. /\ plan' = record.tasks /\ cycle' = record.cycle /\ UNCHANGED <<made, works>>
   BY <1>7 DEF Resume
 <2>2. TypeOK'
  <3>1. cursor' \in 1 .. Len(plan') + 1 BY <1>1, <1>2, <2>1, Indices
  <3> QED
    BY <1>1, <1>2, <1>3, <1>5, <2>1, <3>1, BoundsAssumption DEF TypeOK, RecordOf, TaskOf,
      TaskType
 <2>3.
   /\ Tidy(plan') /\ Plain(plan')
   /\ Len(made) = 1 => Accounted(plan)'
   BY <1>1, <1>2, <2>1 DEF IInv, Recording, Accounted
 <2>4. Planning' BY <1>3, <2>1, <2>3 DEF Planning, Plain
 <2>5. Recording' BY <1>1, <2>1 DEF IInv, Recording, Accounted
 <2>6. Starting' /\ Saved' /\ Working' /\ Passed'
   BY <1>1, <1>2, <1>3, <1>5, <2>1 DEF Starting, Saved, Working, Passed
 <2> QED BY <2>2, <2>4, <2>5, <2>6 DEF IInv
<1> QED BY <1>6, <1>7

--------------------
(* The theorems *)

LEMMA InitStep ==
  ASSUME Init
  PROVE IInv
<1>1. TypeOK BY BoundsAssumption DEF Init, TypeOK, Mode
<1>2. DOMAIN plan = {} BY DEF Init
<1> QED
  BY <1>1, <1>2 DEF Init, IInv, Planning, Starting, Recording, Saved, Working, Passed, Tidy,
    Plain, Accounted

LEMMA NextStep ==
  ASSUME IInv, [Next]_vars
  PROVE IInv'
<1>1. CASE UNCHANGED vars
  BY <1>1 DEF vars, IInv, TypeOK, TaskType, Planning, Starting, Recording, Saved, Working,
    Passed, Accounted, Current, Has
<1>2. CASE Launch BY <1>2, LaunchStep
<1>3. CASE \E m \in Saving : Resume(m) BY <1>3, ResumeStep
<1>4. CASE Crash BY <1>4, CrashStep
<1>5. CASE Execute
  BY <1>5, SkipDoneStep, BlockStep, StartStep, SucceedsStep, NeedsUserStep, RetryStep,
    FailsStep, LoopEndsStep DEF Execute
<1>6. CASE StartCycle BY <1>6, StartCycleStep
<1>7. CASE NextCycle BY <1>7, NextCycleStep
<1>8. CASE Finish BY <1>8, FinishStep
<1> QED BY <1>1, <1>2, <1>3, <1>4, <1>5, <1>6, <1>7, <1>8 DEF Next, Step

\* The invariant of a plan's run, over retries, replans, cycles, crashes and
\* resumes (executePlan, runAutopilot, updateStoredPlanRunStep).
THEOREM Invariant == Spec => []IInv
<1>1. Init => IInv BY InitStep
<1>2. IInv /\ [Next]_vars => IInv' BY NextStep
<1> QED BY <1>1, <1>2, PTL DEF Spec

\* Every value stays in its range, the record in the session file is true to the
\* first plan, and no task of a plan that ended was left out (executePlan,
\* onTaskStart and onTaskEnd of index.ts).
THEOREM PlansAccounted == Spec => []PlanAccounted
<1>1. IInv => PlanAccounted
 <2> SUFFICES ASSUME IInv
   PROVE PlanAccounted
   OBVIOUS
 <2>1. RecordMatchesPlan BY DEF IInv, Saved, RecordMatchesPlan
 <2>2. NoTaskForgotten BY DEF IInv, Passed, NoTaskForgotten, Tried, Range
 <2> QED BY <2>1, <2>2 DEF IInv, PlanAccounted
<1> QED BY <1>1, Invariant, PTL

\* A task is started only after the work of everything it depends on, and never
\* again after its own, as long as the plan it is in is the first or the program
\* was started once (hasCompletedDependency, filterReplannedTasks).
THEOREM StartedInOrder == Spec => StartsInOrder
<1> DEFINE Ordered ==
      Len(made) = 1 \/ launches = 1 =>
        (pc = "task" /\ pc' = "work" =>
           /\ Current.work \notin done
           /\ \A d \in Current.deps :
                \E t \in Range(plan) : t.id = d /\ t.work \in done)
<1>1. IInv /\ [Next]_vars => [Ordered]_vars
 <2> SUFFICES ASSUME IInv, Next, Len(made) = 1 \/ launches = 1, pc = "task", pc' = "work"
   PROVE
     /\ Current.work \notin done
     /\ \A d \in Current.deps :
          \E t \in Range(plan) : t.id = d /\ t.work \in done
   OBVIOUS
 <2>1. Start
   BY DEF Next, Step, Execute, Launch, Resume, Crash, SkipDone, BlockOnDependency, StopForUser,
     Replan, GoOn, TaskSucceeds, TaskNeedsUser, Retry, TaskFails, LoopEnds, StartCycle,
     NextCycle, Finish, Enter
 <2>2.
   Accounted(plan) /\ cursor \in DOMAIN plan /\ ~ Succeeded(Current)
   /\ Missing(Current) = {}
   BY <2>1, AtIndex DEF IInv, Planning, Start
 <2>3. Current.work \notin done BY <2>2 DEF Accounted, Current
 <2>4. ASSUME NEW d \in Current.deps
   PROVE \E t \in Range(plan) : t.id = d /\ t.work \in done
  <3>1. PICK i \in DOMAIN plan : plan[i].id = d /\ Succeeded(plan[i]) BY <2>2 DEF Missing, Range
  <3>2. plan[i] \in Range(plan) /\ plan[i].work \in done BY <2>2, <3>1 DEF Accounted, Range
  <3> QED BY <3>1, <3>2
 <2> QED BY <2>3, <2>4
<1> QED BY <1>1, Invariant, PTL DEF Spec, StartsInOrder

--------------------
(* Evidence *)

SiShape(s) ==
  s = [ops |-> s.ops, last |-> s.last, records |-> s.records, sized |-> s.sized, taken |-> s.taken,
       procs |-> s.procs, overlap |-> s.overlap]
SiLineShape(r) == r = SiLine(r.n, r.file, r.at, r.iteration, r.session, r.ok, r.steps)

\* The lines of a file: its records, and what does not parse.
SiLines(f, lines, records) ==
  /\ IsFiniteSet(lines)
  /\ \A r \in lines : /\ SiLineShape(r) /\ r.file = f /\ r.n \in Int
                      /\ SiParses(r) => r \in records

SiTyped ==
  /\ siDay \in Nat /\ SiShape(siSeen) /\ siSeen.last \in Nat /\ IsFiniteSet(siSeen.records)
  /\ siLive = [f \in SiFiles |-> siLive[f]]
  /\ \A f \in SiFiles : SiLines(f, siLive[f], siSeen.records)
  /\ \A r \in siSeen.records : /\ r.n \in 1 .. siSeen.last /\ r.file \in SiFiles
                               /\ r.at \in Int /\ r.at <= siDay /\ r.ok \in BOOLEAN
                               /\ r.iteration \in Int /\ SiLineShape(r)

\* Records are numbered in the order of their days.
SiNumbered ==
  \A a, b \in siSeen.records : /\ a.n = b.n => a = b
                               /\ a.n < b.n => a.at <= b.at

\* What a rotation has read of a file is what it keeps and what it moves: the latter
\* is too old or too much.
SiPart(kept, moved, held, seen, limit) ==
  /\ kept \subseteq held /\ moved \subseteq seen.records
  /\ \A r \in held : SiParses(r) => r \in kept \cup moved \/ r.n \in seen.taken
  /\ \A r \in moved : r.at < limit \/ r.n \in seen.sized
  /\ \A a \in kept, b \in held : SiParses(a) /\ a.n < b.n /\ b.n \notin seen.taken => b \in kept

SiPlan(R) ==
  /\ R = [at |-> R.at, todo |-> R.todo, touched |-> R.touched, moved |-> R.moved, kept |-> R.kept,
          open |-> R.open]
  /\ R.touched \subseteq SiFiles /\ R.todo \subseteq R.touched /\ R.open \subseteq R.touched
  /\ R.at \in {"archive", "rewrite", "fill"} /\ (R.at # "archive" => R.todo = {})
  /\ R.open # {} => R.at = "fill"
  /\ \A f, g \in R.open : f = g

\* What is moved is in the archive before the file is written anew, and what is appended
\* while it is empty does not stay.
SiRotating ==
  siRotation # SiNoRotation =>
    LET R == siRotation IN
    /\ SiPlan(R)
    /\ \A f \in R.touched :
         /\ SiLines(f, R.kept[f], siSeen.records)
         /\ SiPart(R.kept[f], R.moved[f], SiHeld(f), siSeen, siDay - SiMaxAge)
         /\ f \in R.todo \/ \A r \in R.moved[f] : r.n \in siArchive \cup siSeen.taken
         /\ f \in R.open => \A r \in siLive[f] : SiParses(r) => r.n \in siSeen.taken

\* A rotation takes of a file the records before all that it leaves.
SiNewestLive ==
  \A b \in siSeen.records : b.n \notin siSeen.taken =>
    \A a \in SiHeld(b.file) : SiParses(a) /\ a.n < b.n => b \in SiHeld(b.file)

SiRecentLive ==
  \A r \in siSeen.records :
    r.at >= siDay - SiMaxAge /\ r.n \notin siSeen.sized \cup siSeen.taken => r \in SiHeld(r.file)

\* A session that the process tracks and has finalized in part is the first of them.
SiEntries == [s : 1 .. SiSessions, value : SUBSET SiSkills]
SiOnce(lru) == \A i, j \in DOMAIN lru : lru[i].s = lru[j].s => i = j
SiMadeBefore(r) ==
  \A i \in DOMAIN siTracked : siTracked[i].s = r.session[1] => i = 1 /\ r.file \notin SiSkillsOf(r.session[1])
SiSessionsOnce ==
  /\ siTracked \in Seq(SiEntries) /\ siRegistry \in Seq(SiEntries) /\ SiOnce(siTracked)
  /\ siSeen.procs \in Nat /\ siEnding \in BOOLEAN /\ (siEnding => siTracked # <<>>)
  /\ \A r \in siSeen.records : r.file # SiRuns =>
       /\ r.session[2] \in Nat /\ r.session[2] <= siSeen.procs
       /\ r.session[2] = siSeen.procs => siEnding /\ SiMadeBefore(r)

SiEven(v) ==
  LET a == v.by[1]
      b == v.by[2]
  IN v = [runs |-> a + b, by |-> <<a, b>>] /\ a \in Nat /\ b \in Nat /\ a - b \in {0, 1}

SiDealt ==
  /\ siSeen.overlap \in BOOLEAN /\ DOMAIN siPicks = SiProcs
  /\ siPicks = [p \in SiProcs |-> siPicks[p]]
  /\ ~ siSeen.overlap =>
       /\ SiEven(siVariants)
       /\ \A p \in SiProcs : siPicks[p] # <<>> => siPicks[p] = <<siVariants>>
       /\ \A p, q \in SiProcs : siPicks[p] # <<>> /\ siPicks[q] # <<>> => p = q

SiInv ==
  /\ SiTyped /\ SiNumbered /\ SiRotating /\ SiNewestLive /\ SiNothingLost /\ SiRecentLive
  /\ SiSessionsOnce /\ SiOneOfEach /\ SiGateHonest /\ SiDealt

\* What is known of a file that a rotation has read stays, when records are added, lines
\* that it lost or that do not parse, and time.
LEMMA SiPartMore ==
  ASSUME NEW kept, NEW moved, NEW held, NEW held2, NEW seen, NEW seen2, NEW limit \in Int,
    NEW limit2 \in Int, SiPart(kept, moved, held, seen, limit), limit <= limit2,
    seen.records \subseteq seen2.records, seen.taken \subseteq seen2.taken,
    seen.sized \subseteq seen2.sized, kept \subseteq held2,
    \A r \in moved : r.at \in Int, \A r \in kept : r.n \in Int,
    \A r \in held2 : \/ r \in held
                     \/ (r.n \in Int /\ (SiParses(r) => r.n \in seen2.taken))
  PROVE SiPart(kept, moved, held2, seen2, limit2)
<1>1. \A r \in held2 : SiParses(r) => r \in kept \cup moved \/ r.n \in seen2.taken BY DEF SiPart
<1>2. \A r \in moved : r.at < limit2 \/ r.n \in seen2.sized BY DEF SiPart
<1>3. ASSUME NEW a \in kept, NEW b \in held2, SiParses(a), a.n < b.n, b.n \notin seen2.taken
  PROVE b \in kept
 <2>1. a.n \in Int /\ a.n > 0 BY <1>3 DEF SiParses
 <2>2. b \in held BY <1>3, <2>1 DEF SiParses
 <2> QED BY <1>3, <2>2 DEF SiPart
<1>4. moved \subseteq seen2.records BY DEF SiPart
<1> QED BY <1>1, <1>2, <1>3, <1>4 DEF SiPart

\* A line that is appended: what there is of the files then.
SiNewLine(line) ==
  /\ SiLineShape(line) /\ line.n = siSeen.last + 1 /\ line.file \in SiFiles /\ line.at = siDay
  /\ line.ok \in BOOLEAN /\ line.iteration \in Int

SiLost(line) == <<"live", line.file>> \in siHalves \/ line.file \in siRotation.touched
SiAppended(line, whole) ==
  /\ SiShape(siSeen') /\ siSeen'.last = siSeen.last + 1 /\ siSeen'.sized = siSeen.sized
  /\ siSeen'.procs = siSeen.procs /\ siSeen'.overlap = siSeen.overlap
  /\ siSeen'.records = siSeen.records \cup (IF whole THEN {line} ELSE {})
  /\ siSeen'.taken = siSeen.taken \cup (IF whole /\ SiLost(line) THEN {line.n} ELSE {})

LEMMA SiAppendSeen ==
  ASSUME SiShape(siSeen), NEW line, NEW whole \in BOOLEAN, SiNewLine(line), SiAppend(line, whole)
  PROVE SiAppended(line, whole)
<1> DEFINE records == siSeen.records \cup (IF whole THEN {line} ELSE {})
  taken == siSeen.taken \cup (IF whole /\ SiLost(line) THEN {line.n} ELSE {})
<1>1.
  siSeen' = [[siSeen EXCEPT !.ops = @ + 1] EXCEPT
               !.last = line.n,
               !.records = IF whole THEN siSeen.records \cup {line} ELSE siSeen.records,
               !.taken = IF whole /\ SiLost(line) THEN siSeen.taken \cup {line.n} ELSE siSeen.taken]
  BY DEF SiAppend, SiSpent, SiShape, SiLost
<1>2.
  /\ records = IF whole THEN siSeen.records \cup {line} ELSE siSeen.records
  /\ taken = IF whole /\ SiLost(line) THEN siSeen.taken \cup {line.n} ELSE siSeen.taken
  OBVIOUS
<1> HIDE DEF records, taken
<1>3. siSeen' = [[siSeen EXCEPT !.ops = @ + 1] EXCEPT !.last = line.n, !.records = records, !.taken = taken]
  BY ONLY <1>1, <1>2
<1>4.
  siSeen' = [ops |-> siSeen.ops + 1, last |-> line.n, records |-> records,
             sized |-> siSeen.sized, taken |-> taken, procs |-> siSeen.procs,
             overlap |-> siSeen.overlap]
  BY <1>3 DEF SiShape
<1>5.
  /\ siSeen'.last = line.n /\ siSeen'.records = records /\ siSeen'.sized = siSeen.sized
  /\ siSeen'.taken = taken /\ siSeen'.procs = siSeen.procs /\ siSeen'.overlap = siSeen.overlap
  BY ONLY <1>4
<1>6. SiShape(siSeen') BY <1>4, <1>5 DEF SiShape
<1> QED BY <1>5, <1>6 DEF SiAppended, SiNewLine, records, taken

\* The lines of the file are those before, and the new one if it is told and stays, or half
\* of it.
SiJoined(line, whole) ==
  /\ siLive' = [f \in SiFiles |-> siLive'[f]]
  /\ \A f \in SiFiles \ {line.file} : siLive'[f] = siLive[f]
  /\ siLive[line.file] \subseteq siLive'[line.file]
  /\ \A r \in siLive'[line.file] :
       \/ r \in siLive[line.file]
       \/ (whole /\ r = line)
       \/ (~ SiParses(r) /\ r.n \in Int /\ r.file = line.file /\ SiLineShape(r))
  /\ whole /\ ~ SiLost(line) => line \in siLive'[line.file]
  /\ IsFiniteSet(siLive'[line.file])

LEMMA SiAppendLive ==
  ASSUME SiTyped, NEW line, NEW whole \in BOOLEAN, SiNewLine(line), SiAppend(line, whole)
  PROVE SiJoined(line, whole)
<1> DEFINE f == line.file
  more == IF <<"live", f>> \in siHalves THEN {} ELSE IF whole THEN {line} ELSE {SiHalf(line)}
<1>1. siLive' = [siLive EXCEPT ![f] = siLive[f] \cup more] BY DEF SiAppend
<1>2. f \in SiFiles /\ siLive = [g \in SiFiles |-> siLive[g]] /\ IsFiniteSet(siLive[f])
  BY DEF SiNewLine, SiTyped, SiLines
<1>3. IsFiniteSet(siLive[f] \cup more)
 <2>1. siLive[f] \cup {} = siLive[f] OBVIOUS
 <2> QED BY <1>2, <2>1, FS_AddElement
<1>4. line.n \in Nat /\ line.n > 0 BY DEF SiNewLine, SiTyped
<1>5. SiHalf(line) = SiLine(0 - line.n, f, line.at, line.iteration, line.session, line.ok, line.steps)
  BY <1>4 DEF SiNewLine, SiLineShape, SiLine, SiHalf, SiParses
<1>6.
  /\ ~ SiParses(SiHalf(line)) /\ SiHalf(line).n \in Int /\ SiHalf(line).file = f
  /\ SiLineShape(SiHalf(line))
  BY <1>4, <1>5 DEF SiLine, SiParses, SiLineShape
<1>7. \A r \in more : (whole /\ r = line) \/ r = SiHalf(line) OBVIOUS
<1>8. whole /\ ~ SiLost(line) => line \in more BY DEF SiLost
<1> HIDE DEF more
<1>9.
  siLive' = [g \in SiFiles |-> siLive'[g]] /\ siLive'[f] = siLive[f] \cup more
  /\ \A g \in SiFiles \ {f} : siLive'[g] = siLive[g]
  BY <1>1, <1>2
<1> QED BY <1>3, <1>6, <1>7, <1>8, <1>9 DEF SiJoined

LEMMA SiAppendKeeps ==
  ASSUME SiInv, NEW line, NEW whole \in BOOLEAN, SiNewLine(line), SiAppend(line, whole),
    UNCHANGED <<siArchive, siDay, siRotation>>
  PROVE
    /\ SiTyped' /\ SiNumbered' /\ SiRotating' /\ SiNewestLive' /\ SiNothingLost'
    /\ SiRecentLive'
<1> DEFINE f == line.file
<1>1.
  /\ SiShape(siSeen') /\ siSeen'.last = siSeen.last + 1 /\ siSeen'.sized = siSeen.sized
  /\ siSeen'.records = siSeen.records \cup (IF whole THEN {line} ELSE {})
  /\ siSeen'.taken = siSeen.taken \cup (IF whole /\ SiLost(line) THEN {line.n} ELSE {})
  BY SiAppendSeen DEF SiInv, SiTyped, SiAppended
<1>2.
  /\ siLive' = [g \in SiFiles |-> siLive'[g]]
  /\ \A g \in SiFiles \ {f} : siLive'[g] = siLive[g]
  /\ siLive[f] \subseteq siLive'[f]
  /\ \A r \in siLive'[f] :
       \/ r \in siLive[f]
       \/ (whole /\ r = line)
       \/ (~ SiParses(r) /\ r.n \in Int /\ r.file = f /\ SiLineShape(r))
  /\ whole /\ ~ SiLost(line) => line \in siLive'[f]
  /\ IsFiniteSet(siLive'[f])
  BY SiAppendLive DEF SiInv, SiJoined
<1>3.
  /\ siSeen.last \in Nat /\ siDay \in Nat /\ IsFiniteSet(siSeen.records)
  /\ \A r \in siSeen.records : /\ r.n \in 1 .. siSeen.last /\ r.file \in SiFiles
                               /\ r.at \in Int /\ r.at <= siDay /\ r.ok \in BOOLEAN
                               /\ r.iteration \in Int /\ SiLineShape(r)
  /\ \A g \in SiFiles : SiLines(g, siLive[g], siSeen.records)
  BY DEF SiInv, SiTyped
<1>4.
  /\ SiLineShape(line) /\ line.n = siSeen.last + 1 /\ line.n \in Nat /\ f \in SiFiles
  /\ line.at = siDay /\ line.ok \in BOOLEAN /\ line.iteration \in Int
  BY <1>3 DEF SiNewLine
<1>5.
  /\ siSeen.records \subseteq siSeen'.records /\ siSeen.taken \subseteq siSeen'.taken
  /\ \A r \in siSeen'.records : r \in siSeen.records \/ (whole /\ r = line)
  /\ siSeen.sized \subseteq siSeen'.sized
 <2> DEFINE new == IF whole THEN {line} ELSE {}
   gone == IF whole /\ SiLost(line) THEN {line.n} ELSE {}
 <2>1. \A r \in new : whole /\ r = line OBVIOUS
 <2>2. siSeen'.records = siSeen.records \cup new /\ siSeen'.taken = siSeen.taken \cup gone
   BY <1>1
 <2> HIDE DEF new, gone
 <2>3. siSeen'.sized = siSeen.sized BY <1>1
 <2> QED BY <2>1, <2>2, <2>3
<1>6. \A g \in SiFiles : SiLines(g, siLive'[g], siSeen'.records)
 <2>1. SUFFICES ASSUME NEW g \in SiFiles
   PROVE SiLines(g, siLive'[g], siSeen'.records)
   OBVIOUS
 <2>2. CASE g # f BY <1>2, <1>3, <1>5, <2>2 DEF SiLines
 <2>3. CASE g = f
  <3>1. SiLines(f, siLive[f], siSeen.records) BY <1>3, <1>4
  <3>2. whole => line \in siSeen'.records BY <1>1
  <3> HIDE DEF f
  <3>3. \A r \in siLive'[f] : /\ SiLineShape(r) /\ r.file = f /\ r.n \in Int
                              /\ SiParses(r) => r \in siSeen'.records
   <4>1. SUFFICES ASSUME NEW r \in siLive'[f]
     PROVE
       /\ SiLineShape(r) /\ r.file = f /\ r.n \in Int
       /\ SiParses(r) => r \in siSeen'.records
     OBVIOUS
   <4>2. CASE r \in siLive[f]
    <5>1. SiLineShape(r) /\ r.file = f /\ r.n \in Int /\ (SiParses(r) => r \in siSeen.records)
      BY <3>1, <4>2 DEF SiLines
    <5>2. siSeen.records \subseteq siSeen'.records BY <1>5
    <5> QED BY ONLY <5>1, <5>2
   <4>3. CASE whole /\ r = line BY <1>4, <3>2, <4>3 DEF f
   <4>4. CASE ~ SiParses(r) /\ r.n \in Int /\ r.file = f /\ SiLineShape(r) BY <4>4
   <4> QED BY <1>2, <4>2, <4>3, <4>4
  <3> QED BY <1>2, <2>3, <3>3 DEF SiLines
 <2> QED BY <2>2, <2>3
<1>7. SiTyped'
 <2>1. IsFiniteSet(siSeen'.records)
  <3>1. IsFiniteSet(siSeen.records \cup {line}) /\ siSeen.records \cup {} = siSeen.records
    BY <1>3, FS_AddElement
  <3> QED BY <1>1, <1>3, <3>1
 <2>2.
   \A r \in siSeen'.records : /\ r.n \in 1 .. siSeen'.last /\ r.file \in SiFiles
                              /\ r.at \in Int /\ r.at <= siDay' /\ r.ok \in BOOLEAN
                              /\ r.iteration \in Int /\ SiLineShape(r)
  <3>1. SUFFICES ASSUME NEW r \in siSeen'.records
    PROVE
      /\ r.n \in 1 .. siSeen'.last /\ r.file \in SiFiles
      /\ r.at \in Int /\ r.at <= siDay' /\ r.ok \in BOOLEAN
      /\ r.iteration \in Int /\ SiLineShape(r)
    OBVIOUS
  <3>2. CASE r \in siSeen.records BY <1>1, <1>3, <3>2
  <3>3. CASE r = line BY <1>1, <1>3, <1>4, <3>3
  <3> QED BY <1>5, <3>2, <3>3
 <2>3. siDay' \in Nat /\ siSeen'.last \in Nat BY <1>1, <1>3
 <2> QED BY <1>1, <1>2, <1>6, <2>1, <2>2, <2>3 DEF SiTyped
<1>8. SiNumbered'
 <2>1. SUFFICES ASSUME NEW a \in siSeen'.records, NEW b \in siSeen'.records
   PROVE (a.n = b.n => a = b) /\ (a.n < b.n => a.at <= b.at)
   BY DEF SiNumbered
 <2>2. CASE a \in siSeen.records /\ b \in siSeen.records BY <2>2 DEF SiInv, SiNumbered
 <2>3. CASE a = line /\ b = line BY <2>3, <1>3, <1>4
 <2>4. CASE a \in siSeen.records /\ b = line BY <2>4, <1>3, <1>4
 <2>5. CASE a = line /\ b \in siSeen.records BY <2>5, <1>3, <1>4
 <2> QED BY <1>5, <2>2, <2>3, <2>4, <2>5
\* What a file holds for the reader of the rotation.
<1>9.
  \A g \in SiFiles :
    /\ \A r \in SiHeld(g)' : \/ r \in SiHeld(g) \/ (whole /\ r = line /\ g = f)
                             \/ (~ SiParses(r) /\ r.n \in Int)
    /\ SiHeld(g) \subseteq SiHeld(g)'
 <2>1. SUFFICES ASSUME NEW g \in SiFiles
   PROVE
     /\ \A r \in SiHeld(g)' : \/ r \in SiHeld(g) \/ (whole /\ r = line /\ g = f)
                              \/ (~ SiParses(r) /\ r.n \in Int)
     /\ SiHeld(g) \subseteq SiHeld(g)'
   OBVIOUS
 <2>2. CASE g \in siRotation.open BY <2>2 DEF SiHeld
 <2>3. CASE g \notin siRotation.open
  <3>1. SiHeld(g) = siLive[g] /\ SiHeld(g)' = siLive'[g] BY <2>3 DEF SiHeld
  <3>2. CASE g = f BY <1>2, <3>1, <3>2
  <3>3. CASE g # f BY <1>2, <3>1, <3>3
  <3> QED BY <3>2, <3>3
 <2> QED BY <2>2, <2>3
<1>10. whole /\ line.n \notin siSeen'.taken => line \in SiHeld(f)'
 <2>1. SUFFICES ASSUME whole, line.n \notin siSeen'.taken
   PROVE line \in SiHeld(f)'
   OBVIOUS
 <2>2. ~ SiLost(line) BY <1>1, <2>1
 <2>3. f \notin siRotation.open
  <3>1. f \notin siRotation.touched BY <2>2 DEF SiLost
  <3>2. siRotation = SiNoRotation => siRotation.open = {} BY DEF SiNoRotation
  <3>3. siRotation # SiNoRotation => siRotation.open \subseteq siRotation.touched
    BY DEF SiInv, SiRotating, SiPlan
  <3> QED BY <3>1, <3>2, <3>3
 <2> QED BY <1>2, <2>1, <2>2, <2>3 DEF SiHeld
<1>11. SiRotating'
 <2>1. SUFFICES ASSUME siRotation # SiNoRotation
   PROVE SiRotating'
   BY DEF SiRotating
 <2> DEFINE R == siRotation
 <2>2. SiPlan(R) /\ R.touched \subseteq SiFiles BY <2>1 DEF SiInv, SiRotating, SiPlan
 <2>3. ASSUME NEW g \in R.touched
   PROVE
     /\ SiLines(g, R.kept[g], siSeen'.records)
     /\ SiPart(R.kept[g], R.moved[g], SiHeld(g)', siSeen', siDay' - SiMaxAge)
     /\ g \in R.todo \/ \A r \in R.moved[g] : r.n \in siArchive' \cup siSeen'.taken
     /\ g \in R.open => \A r \in siLive'[g] : SiParses(r) => r.n \in siSeen'.taken
  <3>1.
    /\ SiLines(g, R.kept[g], siSeen.records)
    /\ SiPart(R.kept[g], R.moved[g], SiHeld(g), siSeen, siDay - SiMaxAge)
    /\ g \in R.todo \/ \A r \in R.moved[g] : r.n \in siArchive \cup siSeen.taken
    /\ g \in R.open => \A r \in siLive[g] : SiParses(r) => r.n \in siSeen.taken
    BY <2>1, <2>3 DEF SiInv, SiRotating
  <3>2. g \in SiFiles /\ (whole /\ f = g => line.n \in siSeen'.taken)
    BY <1>1, <2>2, <2>3 DEF SiLost
  <3> HIDE DEF R
  <3>3. SiLines(g, R.kept[g], siSeen'.records) BY <1>5, <3>1 DEF SiLines
  <3>4. SiPart(R.kept[g], R.moved[g], SiHeld(g)', siSeen', siDay' - SiMaxAge)
   <4> DEFINE held == SiHeld(g)
     held2 == SiHeld(g)'
     limit == siDay - SiMaxAge
   <4>1. SiPart(R.kept[g], R.moved[g], held, siSeen, limit) /\ limit \in Int /\ limit <= limit
     BY <1>3, <3>1, SiAssumption
   <4>2. R.kept[g] \subseteq held2 /\ \A r \in R.moved[g] : r.at \in Int
    <5>1. R.kept[g] \subseteq held /\ R.moved[g] \subseteq siSeen.records BY <3>1 DEF SiPart
    <5>2. held \subseteq held2 BY <1>9, <3>2
    <5>3. \A r \in siSeen.records : r.at \in Int BY <1>3
    <5> HIDE DEF held, held2
    <5> QED BY ONLY <5>1, <5>2, <5>3
   <4>3. \A r \in R.kept[g] : r.n \in Int BY <3>1 DEF SiLines
   <4>4. \A r \in held2 : \/ r \in held \/ (r.n \in Int /\ (SiParses(r) => r.n \in siSeen'.taken))
    <5>1. \A r \in held2 : \/ r \in held \/ (whole /\ r = line /\ g = f)
                           \/ (~ SiParses(r) /\ r.n \in Int)
      BY <1>9, <3>2
    <5>2. line.n \in Int BY <1>4
    <5> HIDE DEF held, held2, f
    <5> QED BY <3>2, <5>1, <5>2
   <4>5. siDay' - SiMaxAge = limit OBVIOUS
   <4> HIDE DEF held, held2, limit
   <4>6. SiPart(R.kept[g], R.moved[g], held2, siSeen', limit)
     BY <1>5, <4>1, <4>2, <4>3, <4>4, SiPartMore
   <4> QED BY <4>5, <4>6 DEF held2
  <3>5. g \in R.todo \/ \A r \in R.moved[g] : r.n \in siArchive' \cup siSeen'.taken
    BY <1>5, <3>1
  <3>6. g \in R.open => \A r \in siLive'[g] : SiParses(r) => r.n \in siSeen'.taken
    BY <1>2, <1>5, <3>1, <3>2
  <3> QED BY <3>3, <3>4, <3>5, <3>6
 <2>4. siRotation' = R OBVIOUS
 <2> HIDE DEF R
 <2> QED BY <2>2, <2>3, <2>4 DEF SiRotating
<1>12. SiNewestLive'
 <2>1. SUFFICES ASSUME NEW b \in siSeen'.records, b.n \notin siSeen'.taken,
     NEW a \in SiHeld(b.file)', SiParses(a), a.n < b.n
   PROVE b \in SiHeld(b.file)'
   BY DEF SiNewestLive
 <2>2. CASE whole /\ b = line BY <1>10, <2>1, <2>2
 <2>3. CASE b \in siSeen.records
  <3>1. b.file \in SiFiles /\ b.n \in Nat /\ b.n <= siSeen.last BY <1>3, <2>3
  <3>2. a.n # siSeen.last + 1 BY <1>3, <2>1, <3>1 DEF SiParses
  <3>3. a \in SiHeld(b.file) BY <1>4, <1>9, <2>1, <3>1, <3>2
  <3>4. b \in SiHeld(b.file) BY <1>5, <2>1, <2>3, <3>3 DEF SiInv, SiNewestLive
  <3> QED BY <1>9, <3>1, <3>4
 <2> QED BY <1>5, <2>2, <2>3
<1>13. SiNothingLost'
 <2>1. SUFFICES ASSUME NEW r \in siSeen'.records, r.n \notin siSeen'.taken \cup siArchive
   PROVE r \in SiHeld(r.file)'
   BY DEF SiNothingLost
 <2>2. CASE r \in siSeen.records BY <1>3, <1>5, <1>9, <2>1, <2>2 DEF SiInv, SiNothingLost
 <2> QED BY <1>5, <1>10, <2>1, <2>2
<1>14. SiRecentLive'
 <2>1. SUFFICES ASSUME NEW r \in siSeen'.records, r.at >= siDay - SiMaxAge,
     r.n \notin siSeen'.sized \cup siSeen'.taken
   PROVE r \in SiHeld(r.file)'
   BY DEF SiRecentLive
 <2>2. CASE r \in siSeen.records BY <1>3, <1>5, <1>9, <2>1, <2>2 DEF SiInv, SiRecentLive
 <2> QED BY <1>5, <1>10, <2>1, <2>2
<1> QED BY <1>7, <1>8, <1>11, <1>12, <1>13, <1>14

\* The gate says that runs converged only of two that passed, and those it looks at
\* are the two with the highest iterations.
SiSecond(runs, a) == \A c \in runs \ {a} : c.n < a.n

LEMMA SiFirstIsLast ==
  ASSUME NEW records, \A r \in records : r.n \in Nat /\ r.iteration \in Int,
    \A a, b \in records : a.n = b.n => a = b,
    SiInOrder(records), NEW a \in records, SiSecond(records, a)
  PROVE SiFirst(records) = a
<1>1. \A b \in records \ {a} : SiAhead(a, b) BY DEF SiAhead, SiInOrder, SiSecond
<1>2. ASSUME NEW c \in records, \A b \in records \ {c} : SiAhead(c, b)
  PROVE c = a
 <2>1. SUFFICES ASSUME c # a
   PROVE FALSE
   OBVIOUS
 <2>2. SiAhead(c, a) /\ SiAhead(a, c) BY <1>1, <1>2, <2>1
 <2> QED BY <2>2 DEF SiAhead
<1> QED BY <1>1, <1>2 DEF SiFirst

LEMMA SiConverged ==
  ASSUME NEW records, IsFiniteSet(records), SiJudge(records) = "converged"
  PROVE
    /\ ~ Cardinality(records) < 2
    /\ SiFirst(records).ok /\ SiFirst(records \ {SiFirst(records)}).ok
<1> DEFINE newest == SiFirst(records)
  second == SiFirst(records \ {newest})
  stale == siDay - newest.at > SiStaleDays
  passed == newest.ok /\ second.ok
  few == Cardinality(records) < 2
  many == Cardinality(records) >= 2
  delta == SiDelta(newest, second) > 10
<1>1.
  SiJudge(records) =
    CASE few -> "insufficient-iters"
      [] many /\ stale -> "stale"
      [] many /\ ~ stale /\ ~ passed -> "not-all-passed"
      [] many /\ ~ stale /\ passed -> IF delta THEN "steps-delta" ELSE "converged"
  BY DEF SiJudge
<1>2. (few \/ many) /\ ~ (few /\ many) BY FS_CardinalityType
<1> HIDE DEF stale, passed, few, many, delta
<1>3. ~ few BY <1>1, <1>2
<1>4. ~ stale BY <1>1, <1>2, <1>3
<1>5. passed BY <1>1, <1>2, <1>3, <1>4
<1> QED BY <1>3, <1>5 DEF few, passed

\* If what the gate has read has no gap at its end, and it converged, the last two runs passed.
LEMMA SiGateAgrees ==
  ASSUME NEW runs, NEW rest \in SUBSET runs, NEW last \in Nat, IsFiniteSet(rest),
    \A r \in runs : r.n \in Nat /\ r.n <= last /\ r.iteration \in Int,
    \A a, b \in runs : a.n = b.n => a = b,
    \A b \in runs \ rest : \A a \in rest : ~ (a.n < b.n),
    SiJudge(rest) = "converged", SiInOrder(rest)
  PROVE
    \E a, b \in runs : /\ a # b /\ a.ok /\ b.ok
                       /\ \A c \in runs \ {a, b} : c.n < a.n /\ c.n < b.n
<1>1. ASSUME NEW S \in SUBSET rest, S # {}
  PROVE \E a \in S : SiSecond(S, a)
 <2> DEFINE T == {r.n : r \in S}
 <2>1. T \in SUBSET (0 .. last) /\ T # {} BY <1>1
 <2> HIDE DEF T
 <2>2. PICK x \in T : \A y \in T : y <= x BY <2>1, GreatestMember
 <2>3. PICK b \in S : b.n = x BY DEF T
 <2>4. \A c \in S \ {b} : c.n <= b.n /\ c.n # b.n /\ c.n \in Nat /\ b.n \in Nat
   BY <1>1, <2>2, <2>3 DEF T
 <2>5. \A c \in S \ {b} : c.n < b.n BY <2>4
 <2> QED BY <2>5 DEF SiSecond
<1>2. ASSUME NEW S \in SUBSET rest, NEW a \in S, SiSecond(S, a)
  PROVE SiFirst(S) = a
 <2>1. SiInOrder(S) BY <1>2 DEF SiInOrder
 <2>2. \A r \in S : r.n \in Nat /\ r.iteration \in Int BY <1>2
 <2>3. \A x, y \in S : x.n = y.n => x = y BY <1>2
 <2> QED BY <1>2, <2>1, <2>2, <2>3, SiFirstIsLast
<1>3. /\ ~ Cardinality(rest) < 2 /\ SiFirst(rest).ok /\ SiFirst(rest \ {SiFirst(rest)}).ok
  BY SiConverged
<1>4. rest # {} BY <1>3, FS_EmptySet
<1>5. PICK a \in rest : SiSecond(rest, a) BY <1>1, <1>4
<1>6. SiFirst(rest) = a BY <1>2, <1>5
<1>7. rest \ {a} # {}
 <2>1. rest \ {a} = {} => rest = {a} BY <1>5
 <2> QED BY <1>3, <2>1, FS_Singleton
<1>8. PICK b \in rest \ {a} : SiSecond(rest \ {a}, b) BY <1>1, <1>7
<1>9. SiFirst(rest \ {a}) = b BY <1>2, <1>8
<1>10. a.ok /\ b.ok /\ a # b /\ a \in runs /\ b \in runs BY <1>3, <1>6, <1>8, <1>9
<1>11. \A c \in runs \ {a, b} : c.n < a.n /\ c.n < b.n
 <2>1. SUFFICES ASSUME NEW c \in runs \ {a, b}
   PROVE c.n < a.n /\ c.n < b.n
   OBVIOUS
 <2>2. c.n \in Nat /\ a.n \in Nat /\ b.n \in Nat /\ c.n # a.n /\ c.n # b.n BY <1>10, <2>1
 <2>3. CASE c \in rest BY <1>5, <1>8, <2>1, <2>3 DEF SiSecond
 <2>4. CASE c \notin rest
  <3>1. ~ (a.n < c.n) /\ ~ (b.n < c.n) BY <1>5, <1>8, <2>1, <2>4
  <3> QED BY ONLY <2>2, <3>1
 <2> QED BY <2>3, <2>4
<1> QED BY <1>10, <1>11

\* The records that are read are finitely many.
LEMMA SiReadCounted ==
  ASSUME SiTyped, NEW f \in SiFiles
  PROVE Cardinality(SiRead(f, 0)) \in Nat
<1>1. SiRead(f, 0) \in SUBSET siSeen.records /\ IsFiniteSet(siSeen.records)
  BY DEF SiTyped, SiLines, SiRead
<1> QED BY <1>1, FS_Subset, FS_CardinalityType

LEMMA SiGateStep ==
  ASSUME SiTyped', SiNumbered', SiRotating', SiNewestLive',
    UNCHANGED siDay,
    siVerdict' = [reason |-> SiJudge(SiRead(SiRuns, 0)'), ordered |-> SiInOrder(SiRead(SiRuns, 0)')]
  PROVE SiGateHonest'
<1> DEFINE rest == SiRead(SiRuns, 0)'
  runs == {r \in siSeen'.records : r.file = SiRuns}
<1>1. SUFFICES ASSUME SiJudge(rest) = "converged", SiInOrder(rest),
    \A r \in runs : r.n \notin siSeen'.taken
  PROVE
    \E a, b \in runs : /\ a # b /\ a.ok /\ b.ok
                       /\ \A c \in runs \ {a, b} : c.n < a.n /\ c.n < b.n
 <2>1. siVerdict'.reason = SiJudge(rest) /\ siVerdict'.ordered = SiInOrder(rest) OBVIOUS
 <2> HIDE DEF rest
 <2> QED BY <2>1 DEF SiGateHonest
<1>2.
  /\ SiRuns \in SiFiles /\ siSeen'.last \in Nat /\ IsFiniteSet(siSeen'.records)
  /\ \A r \in siSeen'.records : r.n \in Nat /\ r.n <= siSeen'.last /\ r.iteration \in Int
  /\ \A a, b \in siSeen'.records : a.n = b.n => a = b
  BY DEF SiTyped, SiNumbered, SiRuns, SiFiles
<1>3. rest = {r \in siLive'[SiRuns] : SiParses(r)} BY DEF SiRead
<1>4. rest \subseteq runs /\ IsFiniteSet(rest)
 <2>1. rest \subseteq runs
  <3>1. SiLines(SiRuns, siLive'[SiRuns], siSeen'.records) BY <1>2 DEF SiTyped
  <3> HIDE DEF rest
  <3> QED BY <1>3, <3>1 DEF SiLines
 <2>2. rest \in SUBSET siSeen'.records BY <2>1
 <2> HIDE DEF rest, runs
 <2> QED BY <1>2, <2>1, <2>2, FS_Subset
<1> HIDE DEF rest
<1>5. rest # {}
 <2>1. ~ Cardinality(rest) < 2 BY <1>1, <1>4, SiConverged
 <2> QED BY <2>1, FS_EmptySet
\* An empty file that is written anew has no run that stays.
<1>6. SiRuns \notin siRotation'.open
 <2>1. SUFFICES ASSUME SiRuns \in siRotation'.open
   PROVE FALSE
   OBVIOUS
 <2>2. siRotation' # SiNoRotation BY <2>1 DEF SiNoRotation
 <2>3. \A r \in siLive'[SiRuns] : SiParses(r) => r.n \in siSeen'.taken
   BY <2>1, <2>2 DEF SiRotating, SiPlan
 <2>4. PICK r \in rest : TRUE BY <1>5
 <2> QED BY <1>1, <1>3, <1>4, <2>3, <2>4
<1>7. \A b \in runs \ rest : \A a \in rest : ~ (a.n < b.n)
 <2>1. SUFFICES ASSUME NEW b \in runs \ rest, NEW a \in rest, a.n < b.n
   PROVE FALSE
   OBVIOUS
 <2>2. SiHeld(SiRuns)' = siLive'[SiRuns] BY <1>6 DEF SiHeld
 <2>3. a \in siLive'[SiRuns] /\ SiParses(a) /\ b.file = SiRuns /\ b.n \notin siSeen'.taken
   BY <1>1, <1>3, <2>1
 <2>4. b \in siLive'[SiRuns] BY <2>1, <2>2, <2>3 DEF SiNewestLive
 <2>5. a.n \in Nat /\ b.n \in Nat /\ b.n > 0 BY <1>2, <1>4, <2>1 DEF SiTyped
 <2> QED BY <1>3, <2>1, <2>4, <2>5 DEF SiParses
<1>8. rest \in SUBSET runs /\ \A r \in runs : r.n \in Nat /\ r.n <= siSeen'.last /\ r.iteration \in Int
  BY <1>2, <1>4
<1>9. \A a, b \in runs : a.n = b.n => a = b BY <1>2
<1> HIDE DEF runs
<1> QED BY <1>1, <1>2, <1>4, <1>7, <1>8, <1>9, SiGateAgrees

LEMMA SiRunStep ==
  ASSUME SiInv, SiRun
  PROVE SiInv'
<1>1.
  PICK ok \in BOOLEAN, steps \in {0, 1, 2}, whole \in BOOLEAN :
    SiAppend(SiLine(siSeen.last + 1, SiRuns, siDay, Cardinality(SiRead(SiRuns, 0)) + 1, <<0, 0>>,
                    ok, steps), whole)
  BY DEF SiRun
<1> DEFINE
  line == SiLine(siSeen.last + 1, SiRuns, siDay, Cardinality(SiRead(SiRuns, 0)) + 1, <<0, 0>>,
                 ok, steps)
<1>2. SiAppend(line, whole) /\ SiNewLine(line) /\ line.file = SiRuns
 <2>1. SiRuns \in SiFiles /\ Cardinality(SiRead(SiRuns, 0)) \in Nat
   BY SiReadCounted DEF SiInv, SiRuns, SiFiles
 <2> QED BY <1>1, <2>1 DEF SiNewLine, SiLineShape, SiLine
<1> HIDE DEF line
<1>3.
  /\ siVerdict' = [reason |-> SiJudge(SiRead(SiRuns, 0)'), ordered |-> SiInOrder(SiRead(SiRuns, 0)')]
  /\ UNCHANGED <<siArchive, siDay, siRotation, siTracked, siRegistry, siEnding, siVariants, siPicks>>
  BY DEF SiRun, siSessionVars, siExperimentVars
<1>4. /\ SiTyped' /\ SiNumbered' /\ SiRotating' /\ SiNewestLive' /\ SiNothingLost' /\ SiRecentLive'
  BY <1>1, <1>2, <1>3, SiAppendKeeps
<1>5. SiGateHonest' BY <1>3, <1>4, SiGateStep
<1>6.
  /\ siSeen'.procs = siSeen.procs /\ siSeen'.overlap = siSeen.overlap
  /\ siSeen'.records = siSeen.records \cup (IF whole THEN {line} ELSE {})
  BY <1>1, <1>2, SiAppendSeen DEF SiInv, SiTyped, SiAppended
<1>7. \A r \in siSeen'.records : r \in siSeen.records \/ r.file = SiRuns BY <1>2, <1>6
<1>8. SiSessionsOnce' BY <1>3, <1>6, <1>7 DEF SiInv, SiSessionsOnce, SiMadeBefore, SiSkillsOf
<1>9. SiOneOfEach' BY <1>7 DEF SiInv, SiOneOfEach
<1>10. SiDealt' BY <1>3, <1>6 DEF SiInv, SiDealt
<1> QED BY <1>4, <1>5, <1>8, <1>9, <1>10 DEF SiInv

\* What a step does that only counts as an operation or ends a process, or not even that.
SiSeenSame ==
  /\ SiShape(siSeen') /\ siSeen'.last = siSeen.last /\ siSeen'.records = siSeen.records
  /\ siSeen'.sized = siSeen.sized /\ siSeen'.taken = siSeen.taken

LEMMA SiSpentSame ==
  ASSUME SiShape(siSeen), NEW procs, NEW overlap,
    \/ siSeen' = [SiSpent EXCEPT !.procs = procs] /\ overlap = siSeen.overlap
    \/ siSeen' = [SiSpent EXCEPT !.overlap = overlap] /\ procs = siSeen.procs
    \/ siSeen' = SiSpent /\ procs = siSeen.procs /\ overlap = siSeen.overlap
    \/ siSeen' = [siSeen EXCEPT !.procs = procs] /\ overlap = siSeen.overlap
  PROVE SiSeenSame /\ siSeen'.overlap = overlap /\ siSeen'.procs = procs
<1>1.
  SiSpent = [ops |-> siSeen.ops + 1, last |-> siSeen.last, records |-> siSeen.records,
             sized |-> siSeen.sized, taken |-> siSeen.taken, procs |-> siSeen.procs,
             overlap |-> siSeen.overlap]
  BY DEF SiSpent, SiShape
<1>2.
  PICK ops : siSeen' = [ops |-> ops, last |-> siSeen.last, records |-> siSeen.records,
                        sized |-> siSeen.sized, taken |-> siSeen.taken, procs |-> procs,
                        overlap |-> overlap]
 <2>1. CASE siSeen' = [SiSpent EXCEPT !.procs = procs] /\ overlap = siSeen.overlap BY <1>1, <2>1
 <2>2. CASE siSeen' = [SiSpent EXCEPT !.overlap = overlap] /\ procs = siSeen.procs BY <1>1, <2>2
 <2>3. CASE siSeen' = SiSpent /\ procs = siSeen.procs /\ overlap = siSeen.overlap BY <1>1, <2>3
 <2>4. CASE siSeen' = [siSeen EXCEPT !.procs = procs] /\ overlap = siSeen.overlap
   BY <2>4 DEF SiShape
 <2> QED BY <2>1, <2>2, <2>3, <2>4
<1>3.
  /\ siSeen'.ops = ops /\ siSeen'.last = siSeen.last /\ siSeen'.records = siSeen.records
  /\ siSeen'.sized = siSeen.sized /\ siSeen'.taken = siSeen.taken /\ siSeen'.procs = procs
  /\ siSeen'.overlap = overlap
  BY ONLY <1>2
<1>4. SiSeenSame BY ONLY <1>2, <1>3 DEF SiSeenSame, SiShape
<1> QED BY <1>3, <1>4

\* Such a step, if it leaves the files and the rotation alone, leaves alone what is known of them.
LEMMA SiEvidenceStays ==
  ASSUME SiInv, SiSeenSame, UNCHANGED <<siLive, siArchive, siDay, siRotation, siVerdict>>
  PROVE
    /\ SiTyped' /\ SiNumbered' /\ SiRotating' /\ SiNewestLive' /\ SiNothingLost'
    /\ SiRecentLive' /\ SiOneOfEach' /\ SiGateHonest'
<1>1. SiTyped' BY DEF SiInv, SiTyped, SiSeenSame
<1>2. SiNumbered' BY DEF SiInv, SiNumbered, SiSeenSame
<1>3. \A f : SiHeld(f)' = SiHeld(f) BY DEF SiHeld
<1>4. SiRotating' BY <1>3 DEF SiInv, SiRotating, SiSeenSame, SiPart
<1>5. SiNewestLive' /\ SiNothingLost' /\ SiRecentLive'
  BY <1>3 DEF SiInv, SiNewestLive, SiNothingLost, SiRecentLive, SiSeenSame
<1>6. SiOneOfEach' /\ SiGateHonest' BY DEF SiInv, SiOneOfEach, SiGateHonest, SiSeenSame
<1> QED BY <1>1, <1>2, <1>4, <1>5, <1>6

\* An LRU map has each session once, however often it is touched.
LEMMA SiTouched ==
  ASSUME NEW lru \in Seq(SiEntries), NEW s \in 1 .. SiSessions, NEW value \in SUBSET SiSkills
  PROVE
    /\ SiTouch(lru, s, value) \in Seq(SiEntries)
    /\ SiOnce(lru) => SiOnce(SiTouch(lru, s, value))
    /\ \A i \in DOMAIN SiTouch(lru, s, value) :
         \/ SiTouch(lru, s, value)[i].s = s
         \/ \E j \in DOMAIN lru : SiTouch(lru, s, value)[i].s = lru[j].s
<1> DEFINE there == {i \in DOMAIN lru : lru[i].s = s}
  k == CHOOSE i \in there : TRUE
  others == IF there = {} THEN lru ELSE SubSeq(lru, 1, k - 1) \o SubSeq(lru, k + 1, Len(lru))
  entry == [s |-> s, value |-> value]
  all == Append(others, entry)
<1>1. Len(lru) \in Nat /\ DOMAIN lru = 1 .. Len(lru) BY Indices
<1>2.
  /\ others \in Seq(SiEntries)
  /\ \A i \in DOMAIN others : \E j \in DOMAIN lru : others[i] = lru[j]
  /\ SiOnce(lru) => SiOnce(others) /\ \A i \in DOMAIN others : others[i].s # s
 <2>1. CASE there = {} BY <2>1
 <2>2. CASE there # {}
  <3>1. k \in there BY <2>2
  <3> HIDE DEF k, others
  <3>2. k \in 1 .. Len(lru) /\ lru[k].s = s BY <1>1, <3>1
  <3>3. others = RemoveAt(lru, k) BY <2>2 DEF RemoveAt, others
  <3>4. /\ others \in Seq(SiEntries) /\ Len(others) = Len(lru) - 1
        /\ \A i \in 1 .. Len(others) : others[i] = IF i < k THEN lru[i] ELSE lru[i + 1]
   <4>1.
     LET r == RemoveAt(lru, k)
     IN  /\ r \in Seq(SiEntries) /\ Len(r) = Len(lru) - 1
         /\ \A i \in 1 .. Len(r) : r[i] = IF i < k THEN lru[i] ELSE lru[i + 1]
     BY <3>2, RemoveAtIndex
   <4> QED BY ONLY <3>3, <4>1
  <3>5. DOMAIN others = 1 .. Len(others) BY <3>4, Indices
  <3> HIDE DEF there
  <3>6. \A i \in DOMAIN others : \E j \in DOMAIN lru : others[i] = lru[j]
    BY <1>1, <3>2, <3>4, <3>5
  <3>7. SiOnce(lru) => SiOnce(others) /\ \A i \in DOMAIN others : others[i].s # s
   <4>1. SUFFICES ASSUME SiOnce(lru)
     PROVE SiOnce(others) /\ \A i \in DOMAIN others : others[i].s # s
     OBVIOUS
   <4>2.
     \A i \in DOMAIN others : /\ i \in Nat /\ i <= Len(lru) - 1
                              /\ others[i] = lru[IF i < k THEN i ELSE i + 1]
                              /\ (IF i < k THEN i ELSE i + 1) \in (DOMAIN lru) \ {k}
     BY <1>1, <3>2, <3>4, <3>5
   <4>3. \A i \in DOMAIN others : others[i].s # s BY <3>2, <4>1, <4>2, <1>1 DEF SiOnce
   <4>4. SiOnce(others) BY <3>2, <4>1, <4>2, <1>1 DEF SiOnce
   <4> QED BY <4>3, <4>4
  <3> QED BY <3>4, <3>6, <3>7
 <2> QED BY <2>1, <2>2
<1>3. entry \in SiEntries /\ entry.s = s BY DEF SiEntries
<1> HIDE DEF others, entry
<1>4.
  /\ all \in Seq(SiEntries) /\ Len(all) = Len(others) + 1
  /\ \A i \in 1 .. Len(all) : all[i] = IF i <= Len(others) THEN others[i] ELSE entry
  BY <1>2, <1>3, AppendNew
<1>5. /\ Len(others) \in Nat /\ DOMAIN others = 1 .. Len(others) /\ DOMAIN all = 1 .. Len(all)
  BY <1>2, <1>4, Indices
<1> HIDE DEF all
<1>6.
  \A i \in DOMAIN all : \/ all[i].s = s
                        \/ \E j \in DOMAIN lru : all[i].s = lru[j].s
  BY <1>2, <1>3, <1>4, <1>5
<1>7. SiOnce(lru) => SiOnce(all) BY <1>2, <1>3, <1>4, <1>5 DEF SiOnce
<1>8. SiTouch(lru, s, value) = IF Len(all) > SiCap THEN Tail(all) ELSE all
  BY DEF SiTouch, all, others, entry
<1>9. CASE ~ Len(all) > SiCap BY <1>4, <1>6, <1>7, <1>8, <1>9
<1>10. CASE Len(all) > SiCap
 <2> DEFINE rest == Tail(all)
 <2>1.
   /\ rest \in Seq(SiEntries) /\ Len(rest) = Len(all) - 1 /\ DOMAIN rest = 1 .. Len(rest)
   /\ \A i \in DOMAIN rest : i + 1 \in DOMAIN all /\ rest[i] = all[i + 1]
   BY <1>4, <1>5
 <2> HIDE DEF rest
 <2>2. SiOnce(lru) => SiOnce(rest) BY <1>5, <1>7, <2>1 DEF SiOnce
 <2>3.
   \A i \in DOMAIN rest : \/ rest[i].s = s
                          \/ \E j \in DOMAIN lru : rest[i].s = lru[j].s
   BY <1>6, <2>1
 <2> QED BY <1>8, <1>10, <2>1, <2>2, <2>3 DEF rest
<1> QED BY <1>9, <1>10

LEMMA SiTurnStep ==
  ASSUME SiInv, SiTurn
  PROVE SiInv'
<1>1.
  PICK s \in 1 .. SiSessions, used \in SUBSET SiSkills, completed \in BOOLEAN :
    /\ siRegistry' = SiTouch(siRegistry, s, SiSkillsOf(s) \cup used)
    /\ siTracked' = IF completed THEN SiTouch(siTracked, s, {}) ELSE siTracked
  BY DEF SiTurn
<1>2.
  /\ siSeen' = SiSpent /\ ~ siEnding
  /\ UNCHANGED <<siLive, siArchive, siDay, siRotation, siEnding, siVerdict, siVariants, siPicks>>
  BY DEF SiTurn, siExperimentVars
<1>3. SiSeenSame /\ siSeen'.overlap = siSeen.overlap /\ siSeen'.procs = siSeen.procs
  BY <1>2, SiSpentSame DEF SiInv, SiTyped
<1>4. SiSessionsOnce BY DEF SiInv
<1>5. siRegistry' \in Seq(SiEntries)
 <2>1. SiSkillsOf(s) \cup used \in SUBSET SiSkills
  <3>1. \A i \in DOMAIN siRegistry : siRegistry[i] \in SiEntries
    BY <1>4, Indices DEF SiSessionsOnce
  <3> QED BY <3>1 DEF SiSkillsOf, SiEntries
 <2> QED BY <1>1, <1>4, <2>1, SiTouched DEF SiSessionsOnce
<1>6. siTracked' \in Seq(SiEntries) /\ SiOnce(siTracked')
 <2>1. CASE completed BY <1>1, <1>4, <2>1, SiTouched DEF SiSessionsOnce
 <2>2. CASE ~ completed BY <1>1, <1>4, <2>2 DEF SiSessionsOnce
 <2> QED BY <2>1, <2>2
<1>7. SiSessionsOnce' BY <1>2, <1>3, <1>4, <1>5, <1>6 DEF SiSessionsOnce, SiSeenSame
<1>8. SiDealt' BY <1>2, <1>3 DEF SiInv, SiDealt
<1> QED BY <1>2, <1>3, <1>7, <1>8, SiEvidenceStays DEF SiInv

LEMMA SiEndStep ==
  ASSUME SiInv, SiEnd
  PROVE SiInv'
<1>1.
  /\ siEnding' = TRUE /\ ~ siEnding /\ siTracked # <<>>
  /\ UNCHANGED <<siLive, siArchive, siDay, siRotation, siTracked, siRegistry, siVerdict, siVariants,
                 siPicks, siSeen>>
  BY DEF SiEnd, siExperimentVars
<1>2. SiSeenSame BY <1>1 DEF SiInv, SiTyped, SiSeenSame
<1>3. SiSessionsOnce' BY <1>1 DEF SiInv, SiSessionsOnce
<1>4. SiDealt' BY <1>1 DEF SiInv, SiDealt
<1> QED BY <1>1, <1>2, <1>3, <1>4, SiEvidenceStays DEF SiInv

\* A skill of the first session has its record of this process now, and no more than one.
LEMMA SiUseStep ==
  ASSUME SiInv, SiUse
  PROVE SiInv'
<1> DEFINE s == Head(siTracked).s
  p == siSeen.procs
  reg(k) == [i \in DOMAIN siRegistry |->
              IF siRegistry[i].s = s THEN [siRegistry[i] EXCEPT !.value = @ \ {k}] ELSE siRegistry[i]]
<1>1.
  PICK k \in SiSkillsOf(s), whole \in BOOLEAN :
    /\ SiAppend(SiLine(siSeen.last + 1, k, siDay, Cardinality(SiRead(k, 0)) + 1, <<s, p>>, TRUE, 0), whole)
    /\ siRegistry' = reg(k)
  BY DEF SiUse
<1> DEFINE line == SiLine(siSeen.last + 1, k, siDay, Cardinality(SiRead(k, 0)) + 1, <<s, p>>, TRUE, 0)
<1>2.
  /\ siEnding
  /\ UNCHANGED <<siArchive, siDay, siRotation, siTracked, siEnding, siVerdict, siVariants, siPicks>>
  BY DEF SiUse, siExperimentVars
<1>3.
  /\ SiSessionsOnce /\ siTracked \in Seq(SiEntries) /\ siTracked # <<>> /\ SiOnce(siTracked)
  /\ siRegistry \in Seq(SiEntries) /\ siSeen.procs \in Nat
  BY <1>2 DEF SiInv, SiSessionsOnce
<1>4. 1 \in DOMAIN siTracked /\ Head(siTracked) = siTracked[1] /\ siTracked[1].s = s BY <1>3
<1>5. \A i \in DOMAIN siRegistry : siRegistry[i] \in SiEntries BY <1>3, Indices
<1>6. k \in SiSkills BY <1>1, <1>5 DEF SiSkillsOf, SiEntries
<1>7. SiAppend(line, whole) /\ SiNewLine(line) /\ line.file = k /\ line.session = <<s, p>>
 <2>1. k \in SiFiles /\ Cardinality(SiRead(k, 0)) \in Nat
   BY <1>6, SiReadCounted DEF SiInv, SiFiles
 <2> QED BY <1>1, <2>1 DEF SiNewLine, SiLineShape, SiLine
<1> HIDE DEF line
<1>8. /\ SiTyped' /\ SiNumbered' /\ SiRotating' /\ SiNewestLive' /\ SiNothingLost' /\ SiRecentLive'
  BY <1>1, <1>2, <1>7, SiAppendKeeps
<1>9.
  /\ siSeen'.procs = siSeen.procs /\ siSeen'.overlap = siSeen.overlap
  /\ siSeen'.records = siSeen.records \cup (IF whole THEN {line} ELSE {})
  /\ siSeen.taken \subseteq siSeen'.taken
 <2>1. SiAppended(line, whole) BY <1>1, <1>7, SiAppendSeen DEF SiInv, SiTyped
 <2> QED BY <2>1 DEF SiAppended
<1>10. \A r \in siSeen'.records : r \in siSeen.records \/ r = line BY <1>9
<1>11.
  siRegistry' \in Seq(SiEntries) /\ DOMAIN siRegistry' = DOMAIN siRegistry
  /\ \A i \in DOMAIN siRegistry : /\ siRegistry'[i].s = siRegistry[i].s
                                  /\ siRegistry'[i].value \subseteq siRegistry[i].value
                                  /\ siRegistry[i].s = s => k \notin siRegistry'[i].value
 <2> DEFINE to(i) == IF siRegistry[i].s = s THEN [siRegistry[i] EXCEPT !.value = @ \ {k}] ELSE siRegistry[i]
 <2>1.
   \A i \in DOMAIN siRegistry : /\ to(i) \in SiEntries /\ to(i).s = siRegistry[i].s
                                /\ to(i).value \subseteq siRegistry[i].value
                                /\ siRegistry[i].s = s => k \notin to(i).value
   BY <1>5 DEF SiEntries
 <2>2. siRegistry' = [i \in DOMAIN siRegistry |-> to(i)] BY <1>1
 <2> HIDE DEF to
 <2>3.
   siRegistry' \in [1 .. Len(siRegistry) -> SiEntries] /\ Len(siRegistry) \in Nat
   /\ DOMAIN siRegistry = 1 .. Len(siRegistry)
   BY <1>3, <2>1, <2>2, Indices
 <2>4. siRegistry' \in Seq(SiEntries) BY <2>3, FromFunction
 <2> QED BY <2>1, <2>2, <2>4
<1>12. \A x : SiSkillsOf(x)' \subseteq SiSkillsOf(x) /\ (x = s => k \notin SiSkillsOf(x)')
 <2>1. ASSUME NEW x, NEW y \in SiSkillsOf(x)'
   PROVE y \in SiSkillsOf(x) /\ (x = s => y # k)
  <3>1. PICK i \in DOMAIN siRegistry' : siRegistry'[i].s = x /\ y \in siRegistry'[i].value
    BY <2>1 DEF SiSkillsOf
  <3>2. /\ i \in DOMAIN siRegistry /\ siRegistry[i].s = x /\ y \in siRegistry[i].value
        /\ x = s => y # k
    BY <1>11, <3>1
  <3> HIDE DEF s
  <3> QED BY <3>2 DEF SiSkillsOf
 <2> HIDE DEF s
 <2> QED BY <2>1
<1>13. k # SiRuns BY <1>6 DEF SiSkills, SiRuns
<1>14. SiSessionsOnce'
 <2>1. ASSUME NEW r \in siSeen'.records, r.file # SiRuns
   PROVE
     /\ r.session[2] \in Nat /\ r.session[2] <= siSeen'.procs
     /\ r.session[2] = siSeen'.procs => siEnding' /\ SiMadeBefore(r)'
  <3>1. CASE r \in siSeen.records
   <4>1. /\ r.session[2] \in Nat /\ r.session[2] <= siSeen.procs
         /\ r.session[2] = siSeen.procs => siEnding /\ SiMadeBefore(r)
     BY <1>3, <2>1, <3>1 DEF SiSessionsOnce
   <4>2. SiMadeBefore(r) => SiMadeBefore(r)' BY <1>2, <1>12 DEF SiMadeBefore
   <4> QED BY <1>2, <1>9, <4>1, <4>2
  <3>2. CASE r = line
   <4>1. r.session[1] = s /\ r.session[2] = p /\ r.file = k BY <1>7, <3>2
   <4>2. SiMadeBefore(r)' BY <1>2, <1>3, <1>4, <1>12, <4>1 DEF SiMadeBefore, SiOnce
   <4> QED BY <1>2, <1>3, <1>9, <4>1, <4>2
  <3> QED BY <1>10, <2>1, <3>1, <3>2
 <2> QED BY <1>2, <1>3, <1>9, <1>11, <2>1 DEF SiSessionsOnce
<1>15. SiOneOfEach'
 <2>1. ASSUME NEW r \in siSeen.records, r.file = k, r.session = <<s, p>>
   PROVE FALSE
  <3>1. r.session[1] = s /\ r.session[2] = p /\ r.file # SiRuns BY <1>13, <2>1
  <3>2. SiMadeBefore(r) BY <1>3, <3>1 DEF SiSessionsOnce
  <3>3. k \notin SiSkillsOf(s) BY <1>4, <2>1, <3>1, <3>2 DEF SiMadeBefore
  <3> QED BY <1>1, <3>3
 <2> QED BY <1>7, <1>10, <2>1 DEF SiInv, SiOneOfEach
<1>16. SiGateHonest'
 <2>1. {r \in siSeen'.records : r.file = SiRuns} = {r \in siSeen.records : r.file = SiRuns}
   BY <1>7, <1>9, <1>13
 <2> QED BY <1>2, <1>9, <2>1 DEF SiInv, SiGateHonest
<1>17. SiDealt' BY <1>2, <1>9 DEF SiInv, SiDealt
<1> QED BY <1>8, <1>14, <1>15, <1>16, <1>17 DEF SiInv

\* A process that is gone has made its records; what another makes has its number.
LEMMA SiGoneStep ==
  ASSUME SiInv, SiGone,
    \/ siSeen' = [siSeen EXCEPT !.procs = @ + 1]
    \/ siSeen' = [SiSpent EXCEPT !.procs = @ + 1]
  PROVE SiInv'
<1>1.
  /\ siTracked' = <<>> /\ siRegistry' = <<>> /\ siEnding' = FALSE
  /\ UNCHANGED <<siLive, siArchive, siDay, siRotation, siVerdict, siVariants, siPicks>>
  BY DEF SiGone, siExperimentVars
<1>2. SiSeenSame /\ siSeen'.overlap = siSeen.overlap /\ siSeen'.procs = siSeen.procs + 1
 <2>1. SiShape(siSeen) BY DEF SiInv, SiTyped
 <2>2. SiSpent.procs = siSeen.procs BY <2>1 DEF SiSpent, SiShape
 <2>3. CASE siSeen' = [siSeen EXCEPT !.procs = @ + 1] BY <2>1, <2>3, SiSpentSame
 <2>4. CASE siSeen' = [SiSpent EXCEPT !.procs = @ + 1]
  <3>1. siSeen' = [SiSpent EXCEPT !.procs = siSeen.procs + 1] BY <2>2, <2>4
  <3> QED BY <2>1, <3>1, SiSpentSame
 <2> QED BY <2>3, <2>4
<1>3. SiSessionsOnce'
 <2>1. siTracked' \in Seq(SiEntries) /\ siRegistry' \in Seq(SiEntries) /\ DOMAIN siTracked' = {}
   BY <1>1, EmptySeq
 <2>2. SiOnce(siTracked') BY <2>1 DEF SiOnce
 <2>3.
   \A r \in siSeen'.records : r.file # SiRuns =>
     r.session[2] \in Nat /\ r.session[2] <= siSeen'.procs /\ r.session[2] # siSeen'.procs
   BY <1>2 DEF SiInv, SiSessionsOnce, SiSeenSame
 <2>4. siSeen'.procs \in Nat BY <1>2 DEF SiInv, SiSessionsOnce
 <2> QED BY <1>1, <2>1, <2>2, <2>3, <2>4 DEF SiSessionsOnce
<1>4. SiDealt' BY <1>1, <1>2 DEF SiInv, SiDealt
<1> QED BY <1>1, <1>2, <1>3, <1>4, SiEvidenceStays DEF SiInv

LEMMA SiFinalizedStep ==
  ASSUME SiInv, SiFinalized
  PROVE SiInv'
<1>1. CASE SiGone /\ siSeen' = [siSeen EXCEPT !.procs = @ + 1] BY <1>1, SiGoneStep
<1>2.
  CASE /\ Len(siTracked) > 1 /\ siTracked' = Tail(siTracked)
       /\ UNCHANGED <<siLive, siArchive, siHalves, siDay, siRotation, siRegistry, siEnding, siVerdict,
                      siExperimentVars, siSeen>>
 <2>1. SiSeenSame BY <1>2 DEF SiInv, SiTyped, SiSeenSame
 <2>2.
   /\ SiSessionsOnce /\ siTracked \in Seq(SiEntries) /\ SiOnce(siTracked)
   /\ Len(siTracked) \in Nat /\ DOMAIN siTracked = 1 .. Len(siTracked)
   BY Indices DEF SiInv, SiSessionsOnce
 <2>3.
   /\ siTracked' \in Seq(SiEntries) /\ Len(siTracked') = Len(siTracked) - 1
   /\ DOMAIN siTracked' = 1 .. Len(siTracked')
   /\ \A i \in DOMAIN siTracked' : i + 1 \in DOMAIN siTracked /\ siTracked'[i] = siTracked[i + 1]
   BY <1>2, <2>2
 <2>4. SiOnce(siTracked') /\ siTracked' # <<>>
  <3>1. SiOnce(siTracked') BY <2>2, <2>3 DEF SiOnce
  <3>2. Len(siTracked') > 0 BY <1>2, <2>2, <2>3
  <3> QED BY <3>1, <3>2
 <2>5. \A r : SiMadeBefore(r) => SiMadeBefore(r)'
  <3>1. SUFFICES ASSUME NEW r, SiMadeBefore(r), NEW i \in DOMAIN siTracked',
      siTracked'[i].s = r.session[1]
    PROVE FALSE
    BY DEF SiMadeBefore
  <3>2. i + 1 \in DOMAIN siTracked /\ siTracked[i + 1].s = r.session[1] /\ i \in Nat /\ i > 0
    BY <2>2, <2>3, <3>1
  <3>3. i + 1 = 1 BY <3>1, <3>2 DEF SiMadeBefore
  <3> QED BY ONLY <3>2, <3>3
 <2>6. SiSessionsOnce' BY <1>2, <2>2, <2>3, <2>4, <2>5 DEF SiSessionsOnce
 <2>7. SiDealt' BY <1>2 DEF SiInv, SiDealt, siExperimentVars
 <2> QED BY <1>2, <2>1, <2>6, <2>7, SiEvidenceStays DEF SiInv
<1> QED BY <1>1, <1>2 DEF SiFinalized

LEMMA SiDieStep ==
  ASSUME SiInv, SiDie
  PROVE SiInv'
BY SiGoneStep DEF SiDie

\* The limit on the size takes the oldest records of a file.
LEMMA SiTooManyOldest ==
  ASSUME SiTyped, SiNumbered, NEW domain \in SiDomains
  PROVE
    /\ \A r \in SiTooMany(domain) : SiParses(r)
    /\ \A f \in domain : \A a, b \in siLive[f] :
         b \in SiTooMany(domain) /\ SiParses(a) /\ ~ SiIsOld(a) /\ a.n < b.n
           => a \in SiTooMany(domain)
<1> DEFINE young == UNION {SiYoung(f) : f \in domain}
  dated == {r \in young : SiParses(r)}
  Before(r) == {q \in dated : SiOlder(q, r)}
  excess == Cardinality(young) - SiMaxSize
<1>1. SiTooMany(domain) = {r \in dated : Cardinality(Before(r)) < excess} BY DEF SiTooMany
<1>2. domain \subseteq SiFiles BY DEF SiDomains, SiFiles
<1>3. dated \subseteq siSeen.records BY <1>2 DEF SiYoung, SiTyped, SiLines
<1>4. IsFiniteSet(siSeen.records) BY DEF SiTyped
<1>5. excess \in Int
 <2>1. IsFiniteSet(young)
  <3>1. \A f \in domain : IsFiniteSet(SiYoung(f))
   <4>1. SUFFICES ASSUME NEW f \in domain
     PROVE IsFiniteSet(SiYoung(f))
     OBVIOUS
   <4>2. IsFiniteSet(siLive[f]) /\ SiYoung(f) \in SUBSET siLive[f]
     BY <1>2 DEF SiTyped, SiLines, SiYoung
   <4> QED BY <4>2, FS_Subset
  <3>2. CASE domain = SiSkills
   <4>1. young = SiYoung(1) \cup SiYoung(2) BY <3>2 DEF SiSkills
   <4>2. IsFiniteSet(SiYoung(1)) /\ IsFiniteSet(SiYoung(2)) BY <3>1, <3>2 DEF SiSkills
   <4> QED BY <4>1, <4>2, FS_Union
  <3>3. CASE domain = {SiRuns}
   <4>1. young = SiYoung(SiRuns) BY <3>3
   <4> QED BY <3>1, <3>3, <4>1
  <3> QED BY <3>2, <3>3 DEF SiDomains
 <2> HIDE DEF young
 <2>2. Cardinality(young) \in Nat BY <2>1, FS_CardinalityType
 <2> QED BY <2>2, SiAssumption
<1>6. ASSUME NEW f \in domain, NEW a \in siLive[f], NEW b \in siLive[f],
    b \in SiTooMany(domain), SiParses(a), ~ SiIsOld(a), a.n < b.n
  PROVE a \in SiTooMany(domain)
 <2>1. a \in dated /\ b \in dated /\ Cardinality(Before(b)) < excess BY <1>1, <1>6 DEF SiYoung
 <2>2. a.file = f /\ b.file = f BY <1>2, <1>6 DEF SiTyped, SiLines
 <2>3. \A q \in dated : q.n \in Int /\ q.at \in Int /\ q.file \in Int
   BY <1>3 DEF SiTyped, SiFiles, SiSkills, SiRuns
 <2>4. a.at <= b.at BY <1>3, <1>6, <2>1 DEF SiNumbered
 <2> HIDE DEF dated, young
 <2>5. Before(a) \in SUBSET Before(b) /\ Before(b) \in SUBSET siSeen.records
   BY <1>3, <1>6, <2>1, <2>2, <2>3, <2>4 DEF SiOlder
 <2> HIDE DEF Before, excess
 <2>6. IsFiniteSet(Before(b)) BY <1>4, <2>5, FS_Subset
 <2>7.
   /\ IsFiniteSet(Before(a)) /\ Cardinality(Before(a)) <= Cardinality(Before(b))
   /\ Cardinality(Before(a)) \in Nat /\ Cardinality(Before(b)) \in Nat
   BY <2>5, <2>6, FS_Subset, FS_CardinalityType
 <2>8. Cardinality(Before(a)) < excess BY <1>5, <2>1, <2>7
 <2> QED BY <1>1, <2>1, <2>8
<1> QED BY <1>1, <1>6

LEMMA SiRotateStep ==
  ASSUME SiInv, NEW domain \in SiDomains, SiRotate(domain)
  PROVE SiInv'
<1> DEFINE sized == SiTooMany(domain)
  moved == [f \in domain |-> {r \in siLive[f] : SiIsOld(r) \/ r \in sized}]
  kept == [f \in domain |-> siLive[f] \ moved[f]]
  touched == {f \in domain : moved[f] # {}}
  more == siSeen.sized \cup SiNumbers(sized)
<1>1.
  /\ siRotation' = [at |-> "archive", todo |-> touched, touched |-> touched,
                    moved |-> moved, kept |-> kept, open |-> {}]
  /\ siRotation = SiNoRotation /\ siSeen' = [SiSpent EXCEPT !.sized = more]
  /\ UNCHANGED <<siLive, siArchive, siDay, siTracked, siRegistry, siEnding, siVerdict, siVariants, siPicks>>
  BY DEF SiRotate, SiSpent, siSessionVars, siExperimentVars
<1>2. domain \subseteq SiFiles BY DEF SiDomains, SiFiles
<1>3. SiTyped /\ SiNumbered /\ SiShape(siSeen) /\ siDay \in Nat /\ SiMaxAge \in Nat
  BY SiAssumption DEF SiInv, SiTyped
<1>4. ASSUME NEW f \in touched
  PROVE
    /\ SiLines(f, kept[f], siSeen.records)
    /\ kept[f] \subseteq siLive[f] /\ moved[f] \subseteq siSeen.records
    /\ \A r \in siLive[f] : r \in kept[f] \cup moved[f]
    /\ \A r \in moved[f] : r.at < siDay - SiMaxAge \/ r.n \in more
    /\ \A a \in kept[f], b \in siLive[f] : SiParses(a) /\ a.n < b.n => b \in kept[f]
 <2>1. f \in domain /\ f \in SiFiles /\ SiLines(f, siLive[f], siSeen.records)
   BY <1>2, <1>3 DEF SiTyped
 <2>2.
   /\ moved[f] = {r \in siLive[f] : SiIsOld(r) \/ r \in sized}
   /\ kept[f] = siLive[f] \ moved[f]
   BY <2>1
 <2>3. \A r \in moved[f] : SiParses(r) BY <1>3, <2>2, SiTooManyOldest DEF SiIsOld
 <2>4. \A r \in sized : r.n \in more BY DEF SiNumbers
 <2> HIDE DEF moved, kept, touched, sized, more
 <2>5. moved[f] \subseteq siSeen.records BY <2>1, <2>2, <2>3 DEF SiLines
 <2>6. kept[f] \subseteq siLive[f] /\ \A r \in siLive[f] : r \in kept[f] \cup moved[f] BY <2>2
 <2>7. \A r \in moved[f] : r.at < siDay - SiMaxAge \/ r.n \in more BY <2>2, <2>4 DEF SiIsOld
 <2>8. ASSUME NEW a \in kept[f], NEW b \in siLive[f], SiParses(a), a.n < b.n
   PROVE b \in kept[f]
  <3>1. a \in siLive[f] /\ ~ SiIsOld(a) /\ a \notin sized BY <2>2, <2>8
  <3>2. a \in siSeen.records /\ a.n \in Int /\ b.n \in Int BY <2>1, <2>8, <3>1 DEF SiLines
  <3>3. SiParses(b) BY <2>8, <3>2 DEF SiParses
  <3>4. b \in siSeen.records BY <2>1, <3>3 DEF SiLines
  <3>5. a.at <= b.at /\ a.at \in Int /\ b.at \in Int
    BY <1>3, <2>8, <3>2, <3>4 DEF SiTyped, SiNumbered
  <3>6. ~ SiIsOld(b) BY <1>3, <2>8, <3>1, <3>5 DEF SiIsOld
  <3>7. b \notin sized BY <1>3, <2>1, <2>8, <3>1, SiTooManyOldest DEF sized
  <3> QED BY <2>2, <3>6, <3>7
 <2>9. IsFiniteSet(kept[f])
  <3>1. kept[f] \in SUBSET siLive[f] /\ IsFiniteSet(siLive[f]) BY <2>1, <2>6 DEF SiLines
  <3> QED BY <3>1, FS_Subset
 <2>10. SiLines(f, kept[f], siSeen.records) BY <2>1, <2>6, <2>9 DEF SiLines
 <2> QED BY <2>5, <2>6, <2>7, <2>8, <2>10
<1>5. siSeen.sized \subseteq more OBVIOUS
<1> HIDE DEF sized, moved, kept, more
<1>6.
  siSeen' = [ops |-> siSeen.ops + 1, last |-> siSeen.last, records |-> siSeen.records,
             sized |-> more, taken |-> siSeen.taken, procs |-> siSeen.procs,
             overlap |-> siSeen.overlap]
  BY <1>1, <1>3 DEF SiSpent, SiShape
<1>7.
  /\ SiShape(siSeen') /\ siSeen'.last = siSeen.last /\ siSeen'.records = siSeen.records
  /\ siSeen'.sized = more /\ siSeen'.taken = siSeen.taken /\ siSeen'.procs = siSeen.procs
  /\ siSeen'.overlap = siSeen.overlap
  BY <1>6 DEF SiShape
<1>8. SiTyped' /\ SiNumbered' BY <1>1, <1>3, <1>7 DEF SiTyped, SiNumbered
<1>9. \A f : SiHeld(f)' = siLive[f] /\ SiHeld(f) = siLive[f] BY <1>1 DEF SiHeld, SiNoRotation
<1>10. SiRotating'
 <2> DEFINE R == siRotation'
 <2>1.
   /\ R.at = "archive" /\ R.todo = touched /\ R.touched = touched
   /\ R.moved = moved /\ R.kept = kept /\ R.open = {}
   /\ R = [at |-> R.at, todo |-> R.todo, touched |-> R.touched, moved |-> R.moved, kept |-> R.kept,
           open |-> R.open]
   BY <1>1
 <2>2. R.touched \subseteq SiFiles BY <1>2, <2>1
 <2> HIDE DEF touched, R
 <2>3. SiPlan(R) BY <2>1, <2>2 DEF SiPlan
 <2>4. ASSUME NEW f \in touched
   PROVE
     /\ SiLines(f, kept[f], siSeen'.records)
     /\ SiPart(kept[f], moved[f], SiHeld(f)', siSeen', siDay' - SiMaxAge)
  <3>1. SiPart(kept[f], moved[f], siLive[f], siSeen', siDay - SiMaxAge)
    BY <1>4, <1>7, <2>4 DEF SiPart
  <3> QED BY <1>1, <1>4, <1>7, <1>9, <2>4, <3>1
 <2> QED BY <2>1, <2>3, <2>4 DEF SiRotating, R
<1>11. SiNewestLive' /\ SiNothingLost' /\ SiRecentLive'
  BY <1>1, <1>5, <1>7, <1>9 DEF SiInv, SiNewestLive, SiNothingLost, SiRecentLive
<1>12. SiOneOfEach' /\ SiGateHonest' BY <1>1, <1>7 DEF SiInv, SiOneOfEach, SiGateHonest
<1>13. SiSessionsOnce' /\ SiDealt'
  BY <1>1, <1>7 DEF SiInv, SiSessionsOnce, SiMadeBefore, SiSkillsOf, SiDealt
<1> QED BY <1>8, <1>10, <1>11, <1>12, <1>13 DEF SiInv

\* A step of a rotation takes no record but those that are lost with it.
SiMoreTaken ==
  /\ SiShape(siSeen') /\ siSeen'.last = siSeen.last /\ siSeen'.records = siSeen.records
  /\ siSeen'.sized = siSeen.sized /\ siSeen'.procs = siSeen.procs /\ siSeen'.overlap = siSeen.overlap
  /\ siSeen.taken \subseteq siSeen'.taken /\ siArchive \subseteq siArchive'
  /\ UNCHANGED <<siDay, siTracked, siRegistry, siEnding, siVerdict, siVariants, siPicks>>

LEMMA SiTakenMore ==
  ASSUME SiShape(siSeen), NEW more, siSeen' = [siSeen EXCEPT !.taken = @ \cup more],
    siArchive \subseteq siArchive',
    UNCHANGED <<siDay, siTracked, siRegistry, siEnding, siVerdict, siVariants, siPicks>>
  PROVE SiMoreTaken /\ siSeen'.taken = siSeen.taken \cup more
<1> DEFINE taken == siSeen.taken \cup more
<1>1. siSeen' = [siSeen EXCEPT !.taken = taken] /\ siSeen.taken \subseteq taken OBVIOUS
<1> HIDE DEF taken
<1>2.
  siSeen' = [ops |-> siSeen.ops, last |-> siSeen.last, records |-> siSeen.records,
             sized |-> siSeen.sized, taken |-> taken, procs |-> siSeen.procs,
             overlap |-> siSeen.overlap]
  BY <1>1 DEF SiShape
<1>3.
  /\ siSeen'.last = siSeen.last /\ siSeen'.records = siSeen.records /\ siSeen'.sized = siSeen.sized
  /\ siSeen'.taken = taken /\ siSeen'.procs = siSeen.procs /\ siSeen'.overlap = siSeen.overlap
  BY ONLY <1>2
<1>4. SiShape(siSeen') BY <1>2, <1>3 DEF SiShape
<1> QED BY <1>1, <1>3, <1>4 DEF SiMoreTaken, taken

LEMMA SiAside ==
  ASSUME SiInv, SiMoreTaken
  PROVE SiNumbered' /\ SiSessionsOnce' /\ SiOneOfEach' /\ SiGateHonest' /\ SiDealt'
<1>1. SiNumbered' /\ SiOneOfEach' BY DEF SiInv, SiNumbered, SiOneOfEach, SiMoreTaken
<1>2. SiSessionsOnce' BY DEF SiInv, SiSessionsOnce, SiMadeBefore, SiSkillsOf, SiMoreTaken
<1>3. SiGateHonest' BY DEF SiInv, SiGateHonest, SiMoreTaken
<1>4. SiDealt' BY DEF SiInv, SiDealt, SiMoreTaken
<1> QED BY <1>1, <1>2, <1>3, <1>4

\* What is held of the files shrinks from its oldest records on, and these are accounted for.
SiShrinks ==
  \A g \in SiFiles :
    /\ \A a \in SiHeld(g)' : SiParses(a) => a \in SiHeld(g)
    /\ \A r \in SiHeld(g) : SiParses(r) =>
         \/ r \in SiHeld(g)' \/ r.n \in siSeen'.taken
         \/ r.n \in siArchive' /\ (r.at < siDay - SiMaxAge \/ r.n \in siSeen.sized)
    /\ \A a \in SiHeld(g)', b \in SiHeld(g) :
         SiParses(a) /\ a.n < b.n /\ b.n \notin siSeen'.taken => b \in SiHeld(g)'

LEMMA SiShrunk ==
  ASSUME SiInv, SiMoreTaken, SiShrinks
  PROVE SiNewestLive' /\ SiNothingLost' /\ SiRecentLive'
<1>1.
  /\ siSeen'.records = siSeen.records /\ siSeen'.sized = siSeen.sized /\ siDay' = siDay
  /\ siSeen.taken \subseteq siSeen'.taken /\ siArchive \subseteq siArchive'
  BY DEF SiMoreTaken
<1>2. \A r \in siSeen.records : r.file \in SiFiles /\ SiParses(r) /\ r.at \in Int
  BY DEF SiInv, SiTyped, SiParses
<1>3. SiNewestLive'
 <2>1. SUFFICES ASSUME NEW b \in siSeen.records, b.n \notin siSeen'.taken,
     NEW a \in SiHeld(b.file)', SiParses(a), a.n < b.n
   PROVE b \in SiHeld(b.file)'
   BY <1>1 DEF SiNewestLive
 <2>2. a \in SiHeld(b.file) BY <1>2, <2>1 DEF SiShrinks
 <2>3. b \in SiHeld(b.file) BY <1>1, <2>1, <2>2 DEF SiInv, SiNewestLive
 <2> QED BY <1>2, <2>1, <2>3 DEF SiShrinks
<1>4. SiNothingLost'
 <2>1. SUFFICES ASSUME NEW r \in siSeen.records, r.n \notin siSeen'.taken \cup siArchive'
   PROVE r \in SiHeld(r.file)'
   BY <1>1 DEF SiNothingLost
 <2>2. r \in SiHeld(r.file) BY <1>1, <2>1 DEF SiInv, SiNothingLost
 <2> QED BY <1>2, <2>1, <2>2 DEF SiShrinks
<1>5. SiRecentLive'
 <2>1. SUFFICES ASSUME NEW r \in siSeen.records, r.at >= siDay - SiMaxAge,
     r.n \notin siSeen.sized \cup siSeen'.taken
   PROVE r \in SiHeld(r.file)'
   BY <1>1 DEF SiRecentLive
 <2>2. r \in SiHeld(r.file) BY <1>1, <2>1 DEF SiInv, SiRecentLive
 <2>3. ~ (r.at < siDay - SiMaxAge)
  <3>1. r.at \in Int /\ siDay \in Nat /\ SiMaxAge \in Nat
    BY <1>2, SiAssumption DEF SiInv, SiTyped
  <3> QED BY ONLY <2>1, <3>1
 <2> QED BY <1>2, <2>1, <2>2, <2>3 DEF SiShrinks
<1> QED BY <1>3, <1>4, <1>5

\* What is known of a rotation under way, after a step of its own.
SiRotatingWith(Q) ==
  Q # SiNoRotation =>
    /\ SiPlan(Q)
    /\ \A f \in Q.touched :
         /\ SiLines(f, Q.kept[f], siSeen'.records)
         /\ SiPart(Q.kept[f], Q.moved[f], SiHeld(f)', siSeen', siDay' - SiMaxAge)
         /\ f \in Q.todo \/ \A r \in Q.moved[f] : r.n \in siArchive' \cup siSeen'.taken
         /\ f \in Q.open => \A r \in siLive'[f] : SiParses(r) => r.n \in siSeen'.taken

\* The same of one file, of which no more is held than before, but all that is kept.
LEMMA SiPartStays ==
  ASSUME SiInv, SiMoreTaken, siRotation # SiNoRotation, NEW f \in siRotation.touched,
    siRotation.kept[f] \subseteq SiHeld(f)', \A r \in SiHeld(f)' : r \in SiHeld(f)
  PROVE
    /\ SiLines(f, siRotation.kept[f], siSeen'.records)
    /\ SiPart(siRotation.kept[f], siRotation.moved[f], SiHeld(f)', siSeen', siDay' - SiMaxAge)
<1> DEFINE kept == siRotation.kept[f]
  moved == siRotation.moved[f]
  held == SiHeld(f)
  held2 == SiHeld(f)'
  limit == siDay - SiMaxAge
<1>1. /\ SiLines(f, kept, siSeen.records) /\ SiPart(kept, moved, held, siSeen, limit)
  BY DEF SiInv, SiRotating
<1>2.
  /\ siSeen'.records = siSeen.records /\ siSeen'.sized = siSeen.sized /\ siDay' = siDay
  /\ siSeen.taken \subseteq siSeen'.taken
  BY DEF SiMoreTaken
<1>3. limit \in Int /\ limit <= limit /\ \A r \in siSeen.records : r.at \in Int
  BY SiAssumption DEF SiInv, SiTyped
<1>4. moved \subseteq siSeen.records BY <1>1 DEF SiPart
<1>5. \A r \in kept : r.n \in Int BY <1>1 DEF SiLines
<1>6. kept \subseteq held2 /\ \A r \in held2 : r \in held OBVIOUS
<1>7. siDay' - SiMaxAge = limit BY <1>2
<1> HIDE DEF kept, moved, held, held2, limit
<1>8. \A r \in moved : r.at \in Int BY <1>3, <1>4
<1>9. SiPart(kept, moved, held2, siSeen', limit)
  BY <1>1, <1>2, <1>3, <1>5, <1>6, <1>8, SiPartMore
<1>10. SiPart(kept, moved, held2, siSeen', siDay' - SiMaxAge) BY <1>7, <1>9
<1> QED BY <1>1, <1>2, <1>10 DEF kept, moved, held2

\* No step of a rotation but those on the live files changes what is held of them.
LEMMA SiHeldStays ==
  ASSUME SiInv, SiMoreTaken, UNCHANGED siLive, \A f : SiHeld(f)' = SiHeld(f)
  PROVE SiTyped' /\ SiShrinks
<1>1. SiTyped' BY DEF SiInv, SiTyped, SiMoreTaken
<1>2. SiShrinks BY DEF SiShrinks
<1> QED BY <1>1, <1>2

\* The parts of an archive's appending: some of what is moved is there, or lost after half a line.
LEMMA SiPutAwaySeen ==
  ASSUME SiShape(siSeen), NEW f, NEW part, NEW half, SiPutAway(f, part, half),
    UNCHANGED <<siDay, siTracked, siRegistry, siEnding, siVerdict, siVariants, siPicks>>
  PROVE SiMoreTaken /\ \A r \in part : r.n \in siArchive' \cup siSeen'.taken
<1> DEFINE shared == {r \in part : <<"archive", f>> \in siHalves /\ \A q \in part : r.n <= q.n}
<1>1.
  /\ siArchive' = siArchive \cup SiNumbers(part \ shared)
  /\ siSeen' = [siSeen EXCEPT !.taken = @ \cup SiNumbers(shared)]
  BY DEF SiPutAway
<1> HIDE DEF shared
<1>2. SiMoreTaken /\ siSeen'.taken = siSeen.taken \cup SiNumbers(shared) BY <1>1, SiTakenMore
<1> QED BY <1>1, <1>2 DEF SiNumbers

LEMMA SiMoveStep ==
  ASSUME SiInv, SiMove
  PROVE SiInv'
<1> DEFINE R == siRotation
<1>1. PICK f \in R.todo : SiPutAway(f, R.moved[f], FALSE) /\ siRotation' = SiArchived(R, f)
  BY DEF SiMove
<1>2.
  /\ R.at = "archive"
  /\ UNCHANGED <<siLive, siDay, siTracked, siRegistry, siEnding, siVerdict, siVariants, siPicks>>
  BY DEF SiMove, siSessionVars, siExperimentVars
<1>3. R # SiNoRotation BY <1>2 DEF SiNoRotation
<1>4. SiMoreTaken /\ \A r \in R.moved[f] : r.n \in siArchive' \cup siSeen'.taken
  BY <1>1, <1>2, SiPutAwaySeen DEF SiInv, SiTyped
<1>5. SiPlan(R) /\ R.open = {} BY <1>2, <1>3 DEF SiInv, SiRotating, SiPlan
<1> DEFINE Q == siRotation'
  at == IF R.todo = {f} THEN "rewrite" ELSE "archive"
<1>6. Q = [R EXCEPT !.todo = R.todo \ {f}, !.at = at] BY <1>1, <1>2 DEF SiArchived
<1>7.
  Q = [at |-> at, todo |-> R.todo \ {f}, touched |-> R.touched, moved |-> R.moved,
       kept |-> R.kept, open |-> R.open]
  BY <1>5, <1>6 DEF SiPlan
<1>8.
  /\ Q.at = at /\ Q.todo = R.todo \ {f} /\ Q.touched = R.touched
  /\ Q.moved = R.moved /\ Q.kept = R.kept /\ Q.open = {}
  BY <1>5, <1>7
<1>9. SiPlan(Q)
 <2>1. Q.at \in {"archive", "rewrite", "fill"} /\ (Q.at # "archive" => Q.todo = {}) BY <1>8
 <2> HIDE DEF at, R, Q
 <2>2.
   Q = [at |-> Q.at, todo |-> Q.todo, touched |-> Q.touched, moved |-> Q.moved,
        kept |-> Q.kept, open |-> Q.open]
   BY <1>5, <1>7, <1>8
 <2> QED BY <1>5, <1>8, <2>1, <2>2 DEF SiPlan
<1>10. \A g : SiHeld(g)' = SiHeld(g) BY <1>2, <1>5, <1>8 DEF SiHeld
<1>11. SiTyped' /\ SiShrinks BY <1>2, <1>4, <1>10, SiHeldStays
<1>12. SiRotating'
 <2>1. ASSUME NEW g \in R.touched
   PROVE
     /\ SiLines(g, R.kept[g], siSeen'.records)
     /\ SiPart(R.kept[g], R.moved[g], SiHeld(g)', siSeen', siDay' - SiMaxAge)
     /\ g \in R.todo \ {f} \/ \A r \in R.moved[g] : r.n \in siArchive' \cup siSeen'.taken
  <3>1. /\ R.kept[g] \subseteq SiHeld(g)
        /\ g \in R.todo \/ \A r \in R.moved[g] : r.n \in siArchive \cup siSeen.taken
    BY <1>3, <2>1 DEF SiInv, SiRotating, SiPart
  <3>2. g \in R.todo \ {f} \/ \A r \in R.moved[g] : r.n \in siArchive' \cup siSeen'.taken
    BY <1>4, <3>1 DEF SiMoreTaken
  <3>3. R.kept[g] \subseteq SiHeld(g)' /\ \A r \in SiHeld(g)' : r \in SiHeld(g) BY <1>10, <3>1
  <3> QED BY <1>3, <1>4, <2>1, <3>2, <3>3, SiPartStays
 <2>2. SiRotatingWith(Q)
  <3> HIDE DEF R, Q
  <3> QED BY <1>8, <1>9, <2>1 DEF SiRotatingWith
 <2> QED BY <2>2 DEF SiRotatingWith, SiRotating
<1> QED BY <1>4, <1>11, <1>12, SiShrunk, SiAside DEF SiInv

\* A rotation that is over, with the live files as they are.
LEMMA SiOverStep ==
  ASSUME SiInv, SiMoreTaken, UNCHANGED siLive, siRotation' = SiNoRotation,
    siRotation.at \in {"archive", "rewrite"}
  PROVE SiInv'
<1>1. siRotation.open = {}
 <2>1. siRotation # SiNoRotation BY DEF SiNoRotation
 <2> QED BY <2>1 DEF SiInv, SiRotating, SiPlan
<1>2. \A f : SiHeld(f)' = SiHeld(f) BY <1>1 DEF SiHeld, SiNoRotation
<1>3. SiTyped' /\ SiShrinks BY <1>2, SiHeldStays
<1>4. SiRotating' BY DEF SiRotating
<1> QED BY <1>3, <1>4, SiShrunk, SiAside DEF SiInv

LEMMA SiStopStep ==
  ASSUME SiInv, SiStop
  PROVE SiInv'
<1>1. SiMoreTaken BY DEF SiStop, SiInv, SiTyped, SiMoreTaken, siSessionVars, siExperimentVars
<1> QED BY <1>1, SiOverStep DEF SiStop

\* What is left of a rotation when a file is done.
LEMMA SiPlanGoesOn ==
  ASSUME NEW R, NEW f \in R.touched, SiPlan(R), R.todo = {}, NEW Q,
    \/ Q = SiRewritten(R, f)
    \/ Q = [R EXCEPT !.at = "fill", !.open = {f}]
  PROVE
    /\ Q = SiRewritten(R, f) => Q.open = {} /\ (Q # SiNoRotation => Q.touched = R.touched \ {f})
    /\ Q # SiRewritten(R, f) => Q.open = {f} /\ Q.touched = R.touched
    /\ Q # SiNoRotation => SiPlan(Q) /\ Q.moved = R.moved /\ Q.kept = R.kept /\ Q.todo = {}
<1>1. CASE Q = SiNoRotation /\ Q = SiRewritten(R, f) BY <1>1 DEF SiNoRotation
<1>2. CASE Q = SiRewritten(R, f) /\ Q # SiNoRotation
 <2>1. Q = [R EXCEPT !.touched = R.touched \ {f}, !.at = "rewrite", !.open = {}]
   BY <1>2 DEF SiRewritten
 <2>2.
   Q = [at |-> "rewrite", todo |-> R.todo, touched |-> R.touched \ {f}, moved |-> R.moved,
        kept |-> R.kept, open |-> {}]
   BY <2>1 DEF SiPlan
 <2>3.
   /\ Q.at = "rewrite" /\ Q.todo = {} /\ Q.touched = R.touched \ {f} /\ Q.moved = R.moved
   /\ Q.kept = R.kept /\ Q.open = {}
   BY <2>2
 <2>4.
   Q = [at |-> Q.at, todo |-> Q.todo, touched |-> Q.touched, moved |-> Q.moved,
        kept |-> Q.kept, open |-> Q.open]
   BY <2>2, <2>3
 <2>5. SiPlan(Q) BY <2>3, <2>4 DEF SiPlan
 <2> QED BY <1>2, <2>3, <2>5
<1>3. CASE Q = [R EXCEPT !.at = "fill", !.open = {f}] /\ Q # SiRewritten(R, f)
 <2>1.
   Q = [at |-> "fill", todo |-> R.todo, touched |-> R.touched, moved |-> R.moved,
        kept |-> R.kept, open |-> {f}]
   BY <1>3 DEF SiPlan
 <2>2.
   /\ Q.at = "fill" /\ Q.todo = {} /\ Q.touched = R.touched /\ Q.moved = R.moved
   /\ Q.kept = R.kept /\ Q.open = {f}
   BY <2>1
 <2>3.
   Q = [at |-> Q.at, todo |-> Q.todo, touched |-> Q.touched, moved |-> Q.moved,
        kept |-> Q.kept, open |-> Q.open]
   BY <2>1, <2>2
 <2>4. SiPlan(Q) BY <2>2, <2>3 DEF SiPlan
 <2> QED BY <1>3, <2>2, <2>4
<1> QED BY <1>1, <1>2, <1>3

\* A live file is emptied, with what it keeps in the rotation, or has that again.
LEMMA SiFileStep ==
  ASSUME SiInv, siRotation # SiNoRotation, siRotation.todo = {}, NEW f \in siRotation.touched,
    siRotation.open \subseteq {f}, NEW lines, siLive' = [siLive EXCEPT ![f] = lines],
    UNCHANGED <<siArchive, siDay, siTracked, siRegistry, siEnding, siVerdict, siVariants, siPicks,
                siSeen>>,
    \/ lines = siRotation.kept[f] /\ siRotation' = SiRewritten(siRotation, f)
    \/ lines = {} /\ siRotation' = [siRotation EXCEPT !.at = "fill", !.open = {f}]
  PROVE SiInv'
<1> DEFINE R == siRotation
  Q == siRotation'
  kept == R.kept[f]
<1>1. SiMoreTaken BY DEF SiMoreTaken, SiInv, SiTyped
<1>2. SiPlan(R) BY DEF SiInv, SiRotating
<1>3. f \in SiFiles /\ SiTyped /\ DOMAIN siLive = SiFiles BY <1>2 DEF SiPlan, SiInv, SiTyped
<1>4.
  /\ SiLines(f, kept, siSeen.records)
  /\ SiPart(kept, R.moved[f], SiHeld(f), siSeen, siDay - SiMaxAge)
  /\ \A r \in R.moved[f] : r.n \in siArchive \cup siSeen.taken
  BY DEF SiInv, SiRotating
<1>5.
  /\ Q = SiRewritten(R, f) => Q.open = {} /\ (Q # SiNoRotation => Q.touched = R.touched \ {f})
  /\ Q # SiRewritten(R, f) => Q.open = {f} /\ Q.touched = R.touched
  /\ Q # SiNoRotation => SiPlan(Q) /\ Q.moved = R.moved /\ Q.kept = R.kept /\ Q.todo = {}
  BY <1>2, SiPlanGoesOn
<1>6. siLive'[f] = lines /\ \A g \in SiFiles \ {f} : siLive'[g] = siLive[g] BY <1>3
<1>7. SiHeld(f)' = kept
 <2>1. CASE lines = kept /\ Q = SiRewritten(R, f) BY <1>5, <1>6, <2>1 DEF SiHeld
 <2>2. CASE lines = {} /\ Q = [R EXCEPT !.at = "fill", !.open = {f}]
  <3>1. Q.open = {f} /\ Q.kept = R.kept BY <1>2, <2>2 DEF SiPlan
  <3> QED BY <3>1 DEF SiHeld
 <2> QED BY <2>1, <2>2
<1>8. \A g \in SiFiles \ {f} : SiHeld(g)' = SiHeld(g) BY <1>5, <1>6 DEF SiHeld
<1>9. lines = {} \/ lines = kept OBVIOUS
<1>10. SiTyped'
 <2>1. SiLines(f, lines, siSeen.records) BY <1>4, <1>9, FS_EmptySet DEF SiLines
 <2>2. \A g \in SiFiles : SiLines(g, siLive'[g], siSeen.records) BY <1>3, <1>6, <2>1 DEF SiTyped
 <2>3. siLive' = [g \in SiFiles |-> siLive'[g]] BY <1>3 DEF SiTyped
 <2> QED BY <1>3, <2>2, <2>3 DEF SiTyped
<1>11. SiShrinks
 <2>1. SUFFICES ASSUME NEW g \in SiFiles
   PROVE
     /\ \A a \in SiHeld(g)' : SiParses(a) => a \in SiHeld(g)
     /\ \A r \in SiHeld(g) : SiParses(r) =>
          \/ r \in SiHeld(g)' \/ r.n \in siSeen'.taken
          \/ r.n \in siArchive' /\ (r.at < siDay - SiMaxAge \/ r.n \in siSeen.sized)
     /\ \A a \in SiHeld(g)', b \in SiHeld(g) :
          SiParses(a) /\ a.n < b.n /\ b.n \notin siSeen'.taken => b \in SiHeld(g)'
   BY DEF SiShrinks
 <2>2. CASE g = f
  <3>1.
    \A r \in SiHeld(f) : SiParses(r) =>
      \/ r \in kept \/ r.n \in siSeen.taken
      \/ (r.n \in siArchive /\ (r.at < siDay - SiMaxAge \/ r.n \in siSeen.sized))
   <4> HIDE DEF kept, R
   <4> QED BY <1>4 DEF SiPart
  <3>2. \A a \in kept : a \in SiHeld(f) BY <1>4 DEF SiPart
  <3>3. \A a \in kept, b \in SiHeld(f) : SiParses(a) /\ a.n < b.n /\ b.n \notin siSeen.taken => b \in kept
    BY <1>4 DEF SiPart
  <3> HIDE DEF kept
  <3> QED BY <1>7, <2>2, <3>1, <3>2, <3>3
 <2>3. CASE g # f BY <1>8, <2>3
 <2> QED BY <2>2, <2>3
<1>12. SiRotating'
 <2>1. ASSUME NEW g \in R.touched
   PROVE
     /\ SiLines(g, R.kept[g], siSeen'.records)
     /\ SiPart(R.kept[g], R.moved[g], SiHeld(g)', siSeen', siDay' - SiMaxAge)
     /\ \A r \in R.moved[g] : r.n \in siArchive' \cup siSeen'.taken
  <3>1. /\ R.kept[g] \subseteq SiHeld(g) /\ g \in SiFiles
        /\ \A r \in R.moved[g] : r.n \in siArchive \cup siSeen.taken
    BY <1>2, <2>1 DEF SiInv, SiRotating, SiPart, SiPlan
  <3>2. R.kept[g] \subseteq SiHeld(g)' /\ \A r \in SiHeld(g)' : r \in SiHeld(g)
   <4>1. CASE g = f
    <5>1. kept \subseteq SiHeld(f) BY <1>4 DEF SiPart
    <5> QED BY <1>7, <4>1, <5>1
   <4>2. CASE g # f BY <1>8, <3>1, <4>2
   <4> QED BY <4>1, <4>2
  <3> QED BY <1>1, <2>1, <3>1, <3>2, SiPartStays
 <2>2. \A g \in Q.open : \A r \in siLive'[g] : SiParses(r) => r.n \in siSeen'.taken
  <3>1. CASE Q = SiRewritten(R, f) BY <1>5, <3>1
  <3>2. CASE Q # SiRewritten(R, f) BY <1>5, <1>6, <3>2
  <3> QED BY <3>1, <3>2
 <2>3. SiRotatingWith(Q)
  <3>1. Q # SiNoRotation => SiPlan(Q) /\ Q.moved = R.moved /\ Q.kept = R.kept /\ Q.todo = {}
                            /\ Q.touched \subseteq R.touched
    BY <1>5
  <3> HIDE DEF R, Q
  <3> QED BY <2>1, <2>2, <3>1 DEF SiRotatingWith
 <2> QED BY <2>3 DEF SiRotatingWith, SiRotating
<1> QED BY <1>1, <1>10, <1>11, <1>12, SiShrunk, SiAside DEF SiInv

LEMMA SiRewriteStep ==
  ASSUME SiInv, SiRewrite
  PROVE SiInv'
<1> DEFINE R == siRotation
<1>1.
  PICK f \in R.touched : /\ siLive' = [siLive EXCEPT ![f] = {}]
                         /\ siRotation' = IF R.kept[f] = {} THEN SiRewritten(R, f)
                                          ELSE [R EXCEPT !.at = "fill", !.open = {f}]
  BY DEF SiRewrite
<1>2.
  /\ R.at = "rewrite"
  /\ UNCHANGED <<siArchive, siDay, siTracked, siRegistry, siEnding, siVerdict, siVariants, siPicks,
                 siSeen>>
  BY DEF SiRewrite, siSessionVars, siExperimentVars
<1>3. R # SiNoRotation BY <1>2 DEF SiNoRotation
<1>4. R.todo = {} /\ R.open \subseteq {f} BY <1>2, <1>3 DEF SiInv, SiRotating, SiPlan
<1>5. CASE R.kept[f] = {} BY <1>1, <1>2, <1>3, <1>4, <1>5, SiFileStep
<1>6. CASE R.kept[f] # {}
 <2>1. siRotation' = [R EXCEPT !.at = "fill", !.open = {f}] BY <1>1, <1>6
 <2> QED BY <1>1, <1>2, <1>3, <1>4, <2>1, SiFileStep
<1> QED BY <1>5, <1>6

LEMMA SiFillStep ==
  ASSUME SiInv, SiFill
  PROVE SiInv'
<1> DEFINE R == siRotation
<1>1.
  PICK f \in R.open : /\ siLive' = [siLive EXCEPT ![f] = R.kept[f]]
                      /\ siRotation' = SiRewritten(R, f)
  BY DEF SiFill
<1>2.
  /\ R.at = "fill"
  /\ UNCHANGED <<siArchive, siDay, siTracked, siRegistry, siEnding, siVerdict, siVariants, siPicks,
                 siSeen>>
  BY DEF SiFill, siSessionVars, siExperimentVars
<1>3. R # SiNoRotation BY <1>2 DEF SiNoRotation
<1>4. R.todo = {} /\ R.open \subseteq {f} /\ f \in R.touched
  BY <1>1, <1>2, <1>3 DEF SiInv, SiRotating, SiPlan
<1> QED BY <1>1, <1>2, <1>3, <1>4, SiFileStep

\* The lines that were begun are lines of the file, and half of one does not parse.
LEMMA SiBrokenLines ==
  ASSUME NEW f, NEW kept, NEW records, SiLines(f, kept, records), NEW part \in SiBegun(kept),
    NEW half \in BOOLEAN, \A r \in records : r.n \in Nat
  PROVE
    LET new == part \cup (IF half THEN SiBroken(kept, part) ELSE {})
    IN  /\ SiLines(f, new, records) /\ part \subseteq kept
        /\ \A r \in new : SiParses(r) => r \in part
<1> DEFINE rest == {q \in kept \ part : \A o \in kept \ part : SiPlace(q) <= SiPlace(o)}
  more == IF half THEN SiBroken(kept, part) ELSE {}
  new == part \cup more
<1>1. part \subseteq kept BY DEF SiBegun
<1>2. SiBroken(kept, part) = {SiHalf(r) : r \in rest} BY DEF SiBroken
<1>3. rest \in SUBSET kept /\ part \in SUBSET kept /\ IsFiniteSet(kept) BY <1>1 DEF SiLines
<1>4. \A r \in kept : ~ SiParses(SiHalf(r)) /\ SiHalf(r).file = f /\ SiHalf(r).n \in Int /\ SiLineShape(SiHalf(r))
 <2>1. SUFFICES ASSUME NEW r \in kept
   PROVE ~ SiParses(SiHalf(r)) /\ SiHalf(r).file = f /\ SiHalf(r).n \in Int /\ SiLineShape(SiHalf(r))
   OBVIOUS
 <2>2. SiLineShape(r) /\ r.file = f /\ r.n \in Int BY DEF SiLines
 <2>3. CASE SiParses(r)
  <3>1. SiHalf(r) = SiLine(0 - r.n, f, r.at, r.iteration, r.session, r.ok, r.steps)
    BY <2>2, <2>3 DEF SiHalf, SiLineShape, SiLine
  <3>2. ~ (0 - r.n > 0) /\ 0 - r.n \in Int BY <2>2, <2>3 DEF SiParses
  <3> QED BY <3>1, <3>2 DEF SiLine, SiParses, SiLineShape
 <2>4. CASE ~ SiParses(r) BY <2>2, <2>4 DEF SiHalf
 <2> QED BY <2>3, <2>4
<1>5. IsFiniteSet(new)
 <2>1. IsFiniteSet(rest) /\ IsFiniteSet(part)
  <3> HIDE DEF rest
  <3> QED BY <1>3, FS_Subset
 <2> DEFINE halves == {SiHalf(r) : r \in rest}
   to == [r \in rest |-> SiHalf(r)]
 <2>2. to \in Surjection(rest, halves) BY DEF Surjection
 <2> HIDE DEF to, rest
 <2>3. IsFiniteSet(halves)
  <3> HIDE DEF halves
  <3> QED BY <2>1, <2>2, FS_Surjection
 <2>4. IsFiniteSet(more) BY <1>2, <2>3, FS_EmptySet
 <2> HIDE DEF more
 <2> QED BY <2>1, <2>4, FS_Union
<1>6. \A r \in more : ~ SiParses(r) /\ r.file = f /\ r.n \in Int /\ SiLineShape(r)
 <2> HIDE DEF rest
 <2> QED BY <1>2, <1>3, <1>4
<1> HIDE DEF more
<1>7. \A r \in new : r \in part \/ r \in more OBVIOUS
<1> HIDE DEF new
<1>8. SiLines(f, new, records) BY <1>1, <1>5, <1>6, <1>7 DEF SiLines
<1> QED BY <1>1, <1>6, <1>7, <1>8 DEF new, more

LEMMA SiFailStep ==
  ASSUME SiInv, SiFail
  PROVE SiInv'
<1> DEFINE R == siRotation
<1>1.
  PICK f \in IF R.at = "archive" THEN R.todo ELSE R.open, half \in BOOLEAN :
    IF R.at = "archive"
    THEN /\ \E part \in SiBegun(R.moved[f]) : SiPutAway(f, part, half)
         /\ UNCHANGED siLive
    ELSE /\ \E part \in SiBegun(R.kept[f]) :
              /\ siLive' = [siLive EXCEPT ![f] = part \cup IF half THEN SiBroken(R.kept[f], part) ELSE {}]
              /\ siSeen' = [siSeen EXCEPT !.taken = @ \cup SiNumbers(R.kept[f] \ part)]
         /\ UNCHANGED siArchive
  BY DEF SiFail
<1>2.
  /\ R.at \in {"archive", "fill"} /\ siRotation' = SiNoRotation
  /\ UNCHANGED <<siDay, siTracked, siRegistry, siEnding, siVerdict, siVariants, siPicks>>
  BY DEF SiFail, SiAfterFailure, siSessionVars, siExperimentVars
<1>3. R # SiNoRotation BY <1>2 DEF SiNoRotation
<1>4. CASE R.at = "archive"
 <2>1. PICK part : SiPutAway(f, part, half) /\ UNCHANGED siLive BY <1>1, <1>4
 <2>2. SiMoreTaken BY <1>2, <2>1, SiPutAwaySeen DEF SiInv, SiTyped
 <2> QED BY <1>2, <1>4, <2>1, <2>2, SiOverStep
<1>5. CASE R.at = "fill"
 <2> DEFINE kept == R.kept[f]
 <2>1.
   PICK part \in SiBegun(kept) :
     /\ siLive' = [siLive EXCEPT ![f] = part \cup IF half THEN SiBroken(kept, part) ELSE {}]
     /\ siSeen' = [siSeen EXCEPT !.taken = @ \cup SiNumbers(kept \ part)]
     /\ UNCHANGED siArchive
   BY <1>1, <1>5
 <2> DEFINE new == part \cup (IF half THEN SiBroken(kept, part) ELSE {})
 <2>2. SiPlan(R) /\ f \in R.open /\ f \in R.touched /\ f \in SiFiles
   BY <1>1, <1>3, <1>5 DEF SiInv, SiRotating, SiPlan
 <2>3. SiMoreTaken /\ siSeen'.taken = siSeen.taken \cup SiNumbers(kept \ part)
   BY <1>2, <2>1, SiTakenMore DEF SiInv, SiTyped
 <2>4. SiLines(f, kept, siSeen.records) /\ SiHeld(f) = kept /\ SiTyped
   BY <1>3, <2>2 DEF SiInv, SiRotating, SiHeld
 <2>5.
   /\ SiLines(f, new, siSeen.records) /\ part \subseteq kept
   /\ \A r \in new : SiParses(r) => r \in part
  <3>1. \A r \in siSeen.records : r.n \in Nat BY <2>4 DEF SiTyped
  <3> HIDE DEF kept
  <3> QED BY <2>4, <3>1, SiBrokenLines
 <2>6. siLive' = [siLive EXCEPT ![f] = new] /\ part \subseteq new BY <2>1
 <2> HIDE DEF new, kept
 <2>7.
   /\ siLive'[f] = new /\ \A g \in SiFiles \ {f} : siLive'[g] = siLive[g]
   /\ siLive' = [g \in SiFiles |-> siLive'[g]]
   BY <2>2, <2>4, <2>6 DEF SiTyped
 <2>8. SiHeld(f)' = new /\ \A g \in SiFiles \ {f} : SiHeld(g)' = SiHeld(g)
   BY <1>2, <2>2, <2>7 DEF SiHeld, SiNoRotation, SiPlan
 <2>9. SiTyped'
  <3>1. \A g \in SiFiles : SiLines(g, siLive'[g], siSeen.records)
    BY <2>4, <2>5, <2>7 DEF SiTyped
  <3> QED BY <2>3, <2>4, <2>7, <3>1 DEF SiTyped, SiMoreTaken
 <2>10. SiShrinks
  <3>1. SUFFICES ASSUME NEW g \in SiFiles
    PROVE
      /\ \A a \in SiHeld(g)' : SiParses(a) => a \in SiHeld(g)
      /\ \A r \in SiHeld(g) : SiParses(r) => r \in SiHeld(g)' \/ r.n \in siSeen'.taken
      /\ \A a \in SiHeld(g)', b \in SiHeld(g) :
           SiParses(a) /\ a.n < b.n /\ b.n \notin siSeen'.taken => b \in SiHeld(g)'
    BY DEF SiShrinks
  <3>2. \A r \in kept : r \in part \/ r.n \in siSeen'.taken BY <2>3 DEF SiNumbers
  <3>3. CASE g = f BY <2>4, <2>5, <2>6, <2>8, <3>2, <3>3
  <3>4. CASE g # f BY <2>8, <3>4
  <3> QED BY <3>3, <3>4
 <2>11. SiRotating' BY <1>2 DEF SiRotating
 <2> QED BY <2>3, <2>9, <2>10, <2>11, SiShrunk, SiAside DEF SiInv
<1> QED BY <1>2, <1>4, <1>5

LEMMA SiTickStep ==
  ASSUME SiInv, SiTick
  PROVE SiInv'
<1>1.
  UNCHANGED <<siLive, siArchive, siRotation, siTracked, siRegistry, siEnding, siVerdict, siVariants,
              siPicks, siSeen>>
  BY DEF SiTick, siSessionVars, siExperimentVars
<1>2. siDay' \in Nat /\ siDay \in Nat /\ siDay <= siDay' /\ SiMaxAge \in Nat
  BY SiAssumption DEF SiTick, SiInv, SiTyped
<1>2b. siDay - SiMaxAge \in Int /\ siDay' - SiMaxAge \in Int /\ siDay - SiMaxAge <= siDay' - SiMaxAge
 <2>1. PICK d \in Nat, e \in Nat, m \in Nat : d = siDay /\ e = siDay' /\ m = SiMaxAge BY <1>2
 <2>2. d <= e BY <1>2, <2>1
 <2>3. d - m \in Int /\ e - m \in Int /\ d - m <= e - m BY <2>2
 <2> QED BY <2>1, <2>3
<1>3. SiTyped' BY <1>1, <1>2 DEF SiInv, SiTyped
<1>4. \A f : SiHeld(f)' = SiHeld(f) BY <1>1 DEF SiHeld
<1>5. SiRotating'
 <2>1. SUFFICES ASSUME siRotation # SiNoRotation
   PROVE SiRotating'
   BY <1>1 DEF SiRotating
 <2>2. ASSUME NEW f \in siRotation.touched
   PROVE SiPart(siRotation.kept[f], siRotation.moved[f], SiHeld(f), siSeen, siDay' - SiMaxAge)
  <3> DEFINE kept == siRotation.kept[f]
    moved == siRotation.moved[f]
    held == SiHeld(f)
    limit == siDay - SiMaxAge
    limit2 == siDay' - SiMaxAge
  <3>1. SiLines(f, kept, siSeen.records) /\ SiPart(kept, moved, held, siSeen, limit)
    BY <2>1, <2>2 DEF SiInv, SiRotating
  <3>2. limit \in Int /\ limit2 \in Int /\ limit <= limit2 BY <1>2b
  <3>3. (\A r \in moved : r.at \in Int) /\ (\A r \in kept : r.n \in Int) /\ kept \subseteq held
    BY <3>1 DEF SiInv, SiTyped, SiLines, SiPart
  <3> HIDE DEF kept, moved, held, limit, limit2
  <3>4. SiPart(kept, moved, held, siSeen, limit2) BY <3>1, <3>2, <3>3, SiPartMore
  <3> QED BY <3>4 DEF kept, moved, held, limit2
 <2> QED BY <1>1, <1>4, <2>1, <2>2 DEF SiInv, SiRotating
<1>6. SiRecentLive'
 <2>1. SUFFICES ASSUME NEW r \in siSeen.records, r.at >= siDay' - SiMaxAge,
     r.n \notin siSeen.sized \cup siSeen.taken
   PROVE r \in SiHeld(r.file)
   BY <1>1, <1>4 DEF SiRecentLive
 <2>2. r.at \in Int BY DEF SiInv, SiTyped
 <2>3. r.at >= siDay - SiMaxAge BY ONLY <1>2, <2>1, <2>2
 <2> QED BY <2>1, <2>3 DEF SiInv, SiRecentLive
<1>7. SiNumbered' /\ SiNewestLive' /\ SiNothingLost'
  BY <1>1, <1>4 DEF SiInv, SiNumbered, SiNewestLive, SiNothingLost
<1>8. SiSessionsOnce' /\ SiOneOfEach' /\ SiGateHonest' /\ SiDealt'
  BY <1>1 DEF SiInv, SiSessionsOnce, SiMadeBefore, SiSkillsOf, SiOneOfEach, SiGateHonest,
    SiDealt
<1> QED BY <1>3, <1>5, <1>6, <1>7, <1>8 DEF SiInv

\* A step of an experiment only counts as an operation, or not even that.
LEMMA SiOnlyExperiment ==
  ASSUME SiInv, SiSeenSame, siSeen'.procs = siSeen.procs, SiDealt',
    UNCHANGED <<siLive, siArchive, siDay, siRotation, siTracked, siRegistry, siEnding, siVerdict>>
  PROVE SiInv'
<1>1. SiSessionsOnce' BY DEF SiInv, SiSessionsOnce, SiMadeBefore, SiSkillsOf, SiSeenSame
<1> QED BY <1>1, SiEvidenceStays DEF SiInv

LEMMA SiLookStep ==
  ASSUME SiInv, NEW p \in SiProcs, SiLook(p)
  PROVE SiInv'
<1> DEFINE looking == \E q \in SiProcs : siPicks[q] # <<>>
  overlap == siSeen.overlap \/ looking
<1>1.
  /\ siPicks[p] = <<>> /\ siPicks' = [siPicks EXCEPT ![p] = <<siVariants>>]
  /\ siSeen' = [SiSpent EXCEPT !.overlap = siSeen.overlap \/ looking]
  /\ UNCHANGED <<siLive, siArchive, siDay, siRotation, siTracked, siRegistry, siEnding, siVerdict, siVariants>>
  BY DEF SiLook, SiSpent, siSessionVars
<1>2. SiShape(siSeen) /\ SiDealt BY DEF SiInv, SiTyped
<1> HIDE DEF looking
<1>3. SiSeenSame /\ siSeen'.overlap = (siSeen.overlap \/ looking) /\ siSeen'.procs = siSeen.procs
  BY <1>1, <1>2, SiSpentSame
<1>4.
  /\ siPicks' = [q \in SiProcs |-> siPicks'[q]] /\ DOMAIN siPicks' = SiProcs
  /\ siPicks'[p] = <<siVariants>> /\ \A q \in SiProcs \ {p} : siPicks'[q] = siPicks[q]
  BY <1>1, <1>2 DEF SiDealt
<1>5. SiDealt'
 <2>1. siSeen'.overlap \in BOOLEAN BY <1>3
 <2>2. ASSUME ~ siSeen'.overlap
   PROVE
     /\ SiEven(siVariants')
     /\ \A q \in SiProcs : siPicks'[q] # <<>> => siPicks'[q] = <<siVariants'>>
     /\ \A q, r \in SiProcs : siPicks'[q] # <<>> /\ siPicks'[r] # <<>> => q = r
  <3>1. ~ siSeen.overlap /\ \A q \in SiProcs : siPicks[q] = <<>> BY <1>3, <2>2 DEF looking
  <3>2. SiEven(siVariants') BY <1>1, <1>2, <3>1 DEF SiDealt
  <3> QED BY <1>1, <1>4, <3>1, <3>2
 <2> QED BY <1>4, <2>1, <2>2 DEF SiDealt
<1> QED BY <1>1, <1>3, <1>5, SiOnlyExperiment

LEMMA SiDealStep ==
  ASSUME SiInv, NEW p \in SiProcs, SiDeal(p)
  PROVE SiInv'
<1> DEFINE read == siPicks[p][1]
  i == IF read.by[2] < read.by[1] THEN 2 ELSE 1
<1>1.
  /\ siPicks[p] # <<>> /\ siPicks' = [siPicks EXCEPT ![p] = <<>>]
  /\ siVariants' = [runs |-> read.runs + 1, by |-> [read.by EXCEPT ![i] = @ + 1]]
  /\ UNCHANGED <<siLive, siArchive, siDay, siRotation, siTracked, siRegistry, siEnding, siVerdict, siSeen>>
  BY DEF SiDeal, siSessionVars
<1>2. SiShape(siSeen) /\ SiDealt BY DEF SiInv, SiTyped
<1>3. SiSeenSame BY <1>1, <1>2 DEF SiSeenSame
<1>4.
  /\ siPicks' = [q \in SiProcs |-> siPicks'[q]] /\ DOMAIN siPicks' = SiProcs
  /\ siPicks'[p] = <<>> /\ \A q \in SiProcs \ {p} : siPicks'[q] = siPicks[q]
  BY <1>1, <1>2 DEF SiDealt
<1> HIDE DEF i
<1>5. ASSUME ~ siSeen.overlap
  PROVE SiEven(siVariants') /\ \A q \in SiProcs : siPicks'[q] = <<>>
 <2>1. SiEven(siVariants) /\ siPicks[p] = <<siVariants>> BY <1>1, <1>2, <1>5 DEF SiDealt
 <2>2. read = siVariants BY <2>1
 <2> HIDE DEF read
 <2>3.
   PICK a \in Nat, b \in Nat : /\ a - b \in {0, 1}
                               /\ read = [runs |-> a + b, by |-> <<a, b>>]
   BY <2>1, <2>2 DEF SiEven
 <2>4. read.runs = a + b /\ read.by = <<a, b>> /\ read.by[1] = a /\ read.by[2] = b BY <2>3
 <2>5. CASE a - b = 1
  <3>1. i = 2 /\ [read.by EXCEPT ![i] = @ + 1] = <<a, b + 1>> BY <2>3, <2>4, <2>5 DEF i
  <3>2. siVariants' = [runs |-> a + (b + 1), by |-> <<a, b + 1>>] BY <1>1, <2>3, <2>4, <3>1
  <3>3. siVariants'.by[1] = a /\ siVariants'.by[2] = b + 1 BY <3>2
  <3>4. b + 1 \in Nat /\ a - (b + 1) \in {0, 1} BY <2>3, <2>5
  <3> QED BY <3>2, <3>3, <3>4, <1>1, <1>2, <1>4, <1>5, <2>3 DEF SiEven, SiDealt
 <2>6. CASE a - b = 0
  <3>1. i = 1 /\ [read.by EXCEPT ![i] = @ + 1] = <<a + 1, b>> BY <2>3, <2>4, <2>6 DEF i
  <3>2. siVariants' = [runs |-> (a + 1) + b, by |-> <<a + 1, b>>] BY <1>1, <2>3, <2>4, <3>1
  <3>3. siVariants'.by[1] = a + 1 /\ siVariants'.by[2] = b BY <3>2
  <3>4. a + 1 \in Nat /\ (a + 1) - b \in {0, 1} BY <2>3, <2>6
  <3> QED BY <3>2, <3>3, <3>4, <1>1, <1>2, <1>4, <1>5, <2>3 DEF SiEven, SiDealt
 <2> QED BY <2>3, <2>5, <2>6
<1>6. SiDealt' BY <1>1, <1>2, <1>4, <1>5 DEF SiDealt
<1> QED BY <1>1, <1>3, <1>6, SiOnlyExperiment

LEMMA SiRegisterStep ==
  ASSUME SiInv, SiRegister
  PROVE SiInv'
<1> DEFINE looking == \E q \in SiProcs : siPicks[q] # <<>>
<1>1.
  /\ siVariants' = [runs |-> 0, by |-> <<0, 0>>]
  /\ siSeen' = [SiSpent EXCEPT !.overlap = siSeen.overlap \/ looking]
  /\ UNCHANGED <<siLive, siArchive, siDay, siRotation, siTracked, siRegistry, siEnding, siVerdict, siPicks>>
  BY DEF SiRegister, SiSpent, siSessionVars
<1>2. SiShape(siSeen) /\ SiDealt BY DEF SiInv, SiTyped
<1> HIDE DEF looking
<1>3. SiSeenSame /\ siSeen'.overlap = (siSeen.overlap \/ looking) /\ siSeen'.procs = siSeen.procs
  BY <1>1, <1>2, SiSpentSame
<1>4. SiEven(siVariants')
 <2>1. siVariants'.by[1] = 0 /\ siVariants'.by[2] = 0 BY <1>1
 <2> QED BY <1>1, <2>1 DEF SiEven
<1>5. ~ siSeen'.overlap => \A q \in SiProcs : siPicks'[q] = <<>> BY <1>1, <1>3 DEF looking
<1>6. SiDealt' BY <1>1, <1>2, <1>3, <1>4, <1>5 DEF SiDealt
<1> QED BY <1>1, <1>3, <1>6, SiOnlyExperiment

LEMMA SiInitHolds ==
  ASSUME SiInit
  PROVE SiInv
<1>1.
  siSeen = [ops |-> 0, last |-> 0, records |-> {}, sized |-> {}, taken |-> {}, procs |-> 1,
            overlap |-> FALSE]
  BY DEF SiInit
<1>2.
  /\ SiShape(siSeen) /\ siSeen.last = 0 /\ siSeen.records = {} /\ siSeen.procs = 1
  /\ siSeen.overlap = FALSE
  BY <1>1 DEF SiShape
<1>3. SiTyped
 <2>1. siLive = [f \in SiFiles |-> siLive[f]] BY DEF SiInit
 <2>2. \A f \in SiFiles : siLive[f] = {} \/ (f = 1 /\ siLive[f] = {SiGarbled}) BY DEF SiInit
 <2>3. SiLineShape(SiGarbled) /\ SiGarbled.file = 1 /\ SiGarbled.n = 0
   BY DEF SiGarbled, SiLine, SiLineShape
 <2>4. IsFiniteSet({}) /\ IsFiniteSet({SiGarbled}) /\ siDay \in Nat
   BY FS_EmptySet, FS_Singleton DEF SiInit
 <2>5. \A f \in SiFiles : SiLines(f, siLive[f], siSeen.records)
   BY <2>2, <2>3, <2>4 DEF SiLines, SiParses
 <2> QED BY <1>2, <2>1, <2>4, <2>5 DEF SiTyped
<1>4. SiNumbered /\ SiNewestLive /\ SiNothingLost /\ SiRecentLive /\ SiOneOfEach
  BY <1>2 DEF SiNumbered, SiNewestLive, SiNothingLost, SiRecentLive, SiOneOfEach
<1>5. SiRotating BY DEF SiInit, SiRotating
<1>6. SiSessionsOnce
 <2>1. siTracked \in Seq(SiEntries) /\ siRegistry \in Seq(SiEntries) /\ DOMAIN siTracked = {}
   BY EmptySeq DEF SiInit
 <2>2. siEnding = FALSE /\ siSeen.procs \in Nat BY <1>2 DEF SiInit
 <2>3. SiOnce(siTracked) BY <2>1 DEF SiOnce
 <2>4. \A r : r \notin siSeen.records BY <1>2
 <2> QED BY <2>1, <2>2, <2>3, <2>4 DEF SiSessionsOnce
<1>7. SiGateHonest
 <2>1. siVerdict.reason = "none" BY DEF SiInit
 <2> QED BY <2>1 DEF SiGateHonest
<1>8. SiDealt
 <2>1.
   /\ siVariants = [runs |-> 0, by |-> <<0, 0>>] /\ siVariants.by[1] = 0 /\ siVariants.by[2] = 0
   /\ siPicks = [p \in SiProcs |-> <<>>]
   BY DEF SiInit
 <2>2. SiEven(siVariants) BY <2>1 DEF SiEven
 <2> QED BY <1>2, <2>1, <2>2 DEF SiDealt
<1> QED BY <1>3, <1>4, <1>5, <1>6, <1>7, <1>8 DEF SiInv

\* Recent records are in their files, so the summary of these days counts them.
LEMMA SiRecentCounted ==
  ASSUME SiInv
  PROVE SiSummaryKept
<1>1. SiTyped /\ SiRecentLive /\ IsFiniteSet(siSeen.records) /\ SiMaxAge \in Nat
  BY SiAssumption DEF SiInv, SiTyped
<1>2. ASSUME NEW f \in SiFiles \ siRotation.open
  PROVE
    LET recent == {r \in siSeen.records : /\ r.file = f /\ r.at >= siDay - SiMaxAge
                                           /\ r.n \notin siSeen.sized \cup siSeen.taken}
        told == SiSummary(SiRead(f, SiMaxAge))
    IN told.passed >= SiSummary(recent).passed /\ told.failed >= SiSummary(recent).failed
 <2> DEFINE
   recent == {r \in siSeen.records : /\ r.file = f /\ r.at >= siDay - SiMaxAge
                                     /\ r.n \notin siSeen.sized \cup siSeen.taken}
   read == SiRead(f, SiMaxAge)
   Good(S) == {r \in S : r.ok}
   Bad(S) == {r \in S : ~ r.ok}
 <2>1. recent \subseteq read BY <1>1, <1>2 DEF SiRead, SiRecentLive, SiTyped, SiParses, SiHeld
 <2>2. IsFiniteSet(read)
  <3>1. read \in SUBSET siSeen.records BY <1>1 DEF SiRead, SiTyped, SiLines
  <3> QED BY <1>1, <3>1, FS_Subset
 <2> HIDE DEF recent, read
 <2>3. ASSUME NEW S \in SUBSET read
   PROVE
     /\ SiSummary(S).passed = Cardinality(Good(S))
     /\ SiSummary(S).failed = Cardinality(Bad(S))
  <3>1. IsFiniteSet(S) /\ Bad(S) = S \ Good(S) BY <2>2, <2>3, FS_Subset
  <3>2. S \cap Good(S) = Good(S) OBVIOUS
  <3>3. Cardinality(Bad(S)) = Cardinality(S) - Cardinality(Good(S))
   <4> HIDE DEF Good, Bad
   <4>1. Cardinality(S \ Good(S)) = Cardinality(S) - Cardinality(S \cap Good(S))
     BY <3>1, FS_Difference
   <4> QED BY <3>1, <3>2, <4>1
  <3> QED BY <3>3 DEF SiSummary
 <2>4.
   /\ Good(recent) \in SUBSET Good(read) /\ IsFiniteSet(Good(read))
   /\ Bad(recent) \in SUBSET Bad(read) /\ IsFiniteSet(Bad(read))
   BY <2>1, <2>2, FS_Subset
 <2> HIDE DEF Good, Bad
 <2>5.
   /\ Cardinality(Good(read)) \in Nat /\ Cardinality(Bad(read)) \in Nat
   /\ Cardinality(Good(recent)) \in Nat /\ Cardinality(Bad(recent)) \in Nat
   /\ Cardinality(Good(recent)) <= Cardinality(Good(read))
   /\ Cardinality(Bad(recent)) <= Cardinality(Bad(read))
   BY <2>4, FS_Subset, FS_CardinalityType
 <2>6.
   /\ SiSummary(read).passed >= SiSummary(recent).passed
   /\ SiSummary(read).failed >= SiSummary(recent).failed
   BY <2>1, <2>3, <2>5
 <2> QED BY <2>6 DEF recent, read
<1> QED BY <1>2 DEF SiSummaryKept

LEMMA SiInvSound ==
  ASSUME SiInv
  PROVE EvidenceSound
<1>1. SiVariantsEven
 <2>1. SUFFICES ASSUME ~ siSeen.overlap
   PROVE
     /\ siVariants.by[1] - siVariants.by[2] \in {0, 1}
     /\ siVariants.runs = siVariants.by[1] + siVariants.by[2]
   BY DEF SiVariantsEven
 <2>2. SiEven(siVariants) BY <2>1 DEF SiInv, SiDealt
 <2> QED BY <2>2 DEF SiEven
<1> QED BY <1>1, SiRecentCounted DEF SiInv, EvidenceSound

\* Every step of the operations of self-improvement keeps the invariant: what is
\* known of the records, of a rotation under way, of the sessions and of the turns
\* of an experiment.
THEOREM EvidenceInvariant == SiSpec => []SiInv
<1>1. SiInv /\ SiNext => SiInv'
  BY SiTurnStep, SiEndStep, SiUseStep, SiFinalizedStep, SiDieStep, SiRunStep, SiTickStep,
    SiRotateStep, SiMoveStep, SiRewriteStep, SiFillStep, SiFailStep, SiStopStep, SiLookStep,
    SiDealStep, SiRegisterStep DEF SiNext
<1>2. SiInv /\ UNCHANGED siVars => SiInv'
 <2>1. SUFFICES ASSUME SiInv, UNCHANGED siVars
   PROVE SiInv'
   OBVIOUS
 <2>2.
   UNCHANGED <<siLive, siArchive, siDay, siRotation, siTracked, siRegistry, siEnding, siVerdict,
               siVariants, siPicks, siSeen>>
   BY <2>1 DEF siVars, siSessionVars, siExperimentVars
 <2>3. SiSeenSame BY <2>1, <2>2 DEF SiInv, SiTyped, SiSeenSame
 <2>4. SiDealt' BY <2>1, <2>2 DEF SiInv, SiDealt
 <2> QED BY <2>1, <2>2, <2>3, <2>4, SiOnlyExperiment
<1> QED BY SiInitHolds, <1>1, <1>2, PTL DEF SiSpec

\* No record is lost, counted twice or passed over, whatever the files hold and wherever a
\* rotation fails, but those a write that is cut off had not written or left half a line
\* before, and those appended while a rotation had read the file; and two agreeing runs are
\* what the gate converges on.
THEOREM EvidenceIsSound == SiSpec => []EvidenceSound
  BY EvidenceInvariant, SiInvSound, PTL

--------------------
(* MemoryStore, while one process has the directory open *)

MemOps == {"write", "summary", "promote", "up", "down", "touch", "fade", "restore", "bury"}
            \cup MemTiers
MemKinds == {"write", "bury", "change", "drop"}
\* The tasks that an operation has none of but one.
MemAlone == {"write", "summary", "restore", "bury", "drop"}
MemSteps == {"idle", "file", "fill", "index", "rows", "bury", "unlink"}

MemIsEntry(e) == e = [body |-> e.body, tier |-> e.tier, hits |-> e.hits, dead |-> e.dead]
MemIsTomb(t) == /\ t = [name |-> t.name, num |-> t.num, entry |-> t.entry]
                /\ t.name \in MemNames /\ MemIsEntry(t.entry)

\* What is known of the files: of one that is being filled what will be in it, of one that
\* is lost nothing, for which MemTorn stands.
MemView(files, lost, j) ==
  [n \in MemNames |-> IF n \in lost THEN MemTorn
                      ELSE IF j.step = "fill" /\ n = Head(j.todo).name THEN j.entry ELSE files[n]]

\* An entry with the body that the file of that name has.
MemSame(view, n, e) ==
  /\ MemIsEntry(e)
  /\ view[n] # MemTorn => view[n] # MemAbsent /\ e.body = view[n].body

MemListOk(view, list) ==
  /\ list = [n \in DOMAIN list |-> list[n]] /\ DOMAIN list \subseteq MemNames
  /\ \A n \in DOMAIN list : MemSame(view, n, list[n])

\* What is still to be done: an entry to be promoted is the one in the file.
MemTaskSet(E) == [op: MemOps \cup MemKinds, name: MemNames, entry: E]
MemTodoOk(view, todo) ==
  /\ \E E : todo \in Seq(MemTaskSet(E))
  /\ \A i \in 1 .. Len(todo) :
       /\ todo[i].op = "promote" => MemSame(view, todo[i].name, todo[i].entry)
       /\ todo[i].op \in MemAlone => Len(todo) = 1

MemJobOk(view, j) ==
  /\ j = [step |-> j.step, todo |-> j.todo, entry |-> j.entry, rows |-> j.rows]
  /\ j.step \in MemSteps /\ j.rows \subseteq MemNames /\ MemTodoOk(view, j.todo)
  /\ \A i \in 1 .. Len(j.todo) : (i # 1 \/ j.step = "idle") => j.todo[i].op \in MemOps
  /\ j.step # "idle" => j.todo # <<>> /\ j.todo[1].op \in MemKinds
  /\ j.step \in {"file", "fill"} => MemIsEntry(j.entry)
  /\ j.step = "file" /\ j.todo[1].op # "write" => MemSame(view, j.todo[1].name, j.entry)
  /\ j.step \in {"bury", "unlink"} => j.todo[1].op = "drop"
  /\ j.step = "unlink" => view[j.todo[1].name] \in {MemAbsent, MemTorn}

\* The cache tells of the files, except of one that is given a new body.
MemWriting(j) == j.step \in {"fill", "index", "rows"} /\ j.todo[1].op = "write"
MemSeen(view, j) == IF MemWriting(j) THEN [view EXCEPT ![j.todo[1].name] = MemTorn] ELSE view
MemCacheOk(view, j, c) ==
  c # MemAbsent => /\ j.step = "idle" \/ j.todo[1].op # "drop"
                   /\ MemListOk(MemSeen(view, j), c)

\* What a task has written can be read, and what it gives a new body is the newest.
MemWhole(files, newest, j) ==
  /\ j.step \notin {"idle", "file", "fill"} => files[j.todo[1].name] # MemTorn
  /\ j.step = "fill" /\ j.todo[1].op = "write" => newest[j.todo[1].name] = j.entry.body

MemFilesOk(files) ==
  /\ files = [n \in MemNames |-> files[n]]
  /\ \A n \in MemNames : files[n] = MemAbsent \/ files[n] = MemTorn \/ MemIsEntry(files[n])

MemShapes ==
  /\ MemFilesOk(memFile) /\ memNewest = [n \in MemNames |-> memNewest[n]]
  /\ memRows \subseteq MemNames
  /\ IsFiniteSet(memTombs) /\ \A t \in memTombs : MemIsTomb(t)
  /\ memCache = [s \in MemSessions |-> memCache[s]]
  /\ memJob = [s \in MemSessions |-> memJob[s]]

MemKept(view, lost, tombs, newest) ==
  \A n \in MemNames \ lost :
    /\ view[n] # MemTorn
    /\ newest[n] # 0 => \/ view[n].body = newest[n]
                        \/ \E t \in tombs : t.name = n /\ t.entry.body = newest[n]

\* What one process is doing, has read and has written.
MemSound(view, lost, files, tombs, newest, j, c) ==
  /\ view = MemView(files, lost, j) /\ MemJobOk(view, j) /\ MemCacheOk(view, j, c)
  /\ MemWhole(files, newest, j) /\ MemKept(view, lost, tombs, newest)

MemInv ==
  /\ MemShapes
  /\ \A s \in MemSessions :
       MemSound(MemView(memFile, memLost, memJob[s]), memLost, memFile, memTombs, memNewest,
                memJob[s], memCache[s])

LEMMA MemEntryIsThere == \A e : MemIsEntry(e) => e # MemAbsent /\ e # MemTorn
<1>1. ASSUME NEW e, MemIsEntry(e), e = MemAbsent \/ e = MemTorn
  PROVE FALSE
 <2>1. DOMAIN e = {"body", "tier", "hits", "dead"} BY <1>1 DEF MemIsEntry
 <2>2. DOMAIN e = {"body"} BY <1>1 DEF MemAbsent, MemTorn
 <2> QED BY <2>1, <2>2
<1> QED BY <1>1

LEMMA MemTwoMarks == MemTorn # MemAbsent /\ MemAbsent.body = 0
BY DEF MemTorn, MemAbsent

LEMMA MemViewIs ==
  ASSUME NEW files, NEW lost, NEW j
  PROVE
    LET view == MemView(files, lost, j)
    IN  /\ view = [n \in MemNames |-> view[n]]
        /\ \A n \in MemNames :
             /\ n \in lost => view[n] = MemTorn
             /\ n \notin lost /\ j.step = "fill" /\ n = Head(j.todo).name => view[n] = j.entry
             /\ n \notin lost /\ ~ (j.step = "fill" /\ n = Head(j.todo).name)
                  => view[n] = files[n]
BY DEF MemView

\* Outside of the filling of a file, it does not matter what the process is doing.
LEMMA MemViewStays ==
  ASSUME NEW files, NEW lost, NEW j, NEW k, j.step # "fill", k.step # "fill"
  PROVE MemView(files, lost, k) = MemView(files, lost, j)
BY DEF MemView

\* Every change leaves an entry its body.
LEMMA MemChangedBody ==
  ASSUME NEW e, MemIsEntry(e), NEW op \in MemOps \ {"write", "summary", "promote"}
  PROVE MemIsEntry(MemChanged(op, e)) /\ MemChanged(op, e).body = e.body
<1>0. e = [body |-> e.body, tier |-> e.tier, hits |-> e.hits, dead |-> e.dead] BY DEF MemIsEntry
<1>1.
  \A x : /\ MemIsEntry([e EXCEPT !.tier = x]) /\ [e EXCEPT !.tier = x].body = e.body
         /\ MemIsEntry([e EXCEPT !.hits = x]) /\ [e EXCEPT !.hits = x].body = e.body
         /\ MemIsEntry([e EXCEPT !.dead = x]) /\ [e EXCEPT !.dead = x].body = e.body
  BY <1>0 DEF MemIsEntry
<1>2. CASE op \in MemTiers
 <2>1. MemChanged(op, e) = [e EXCEPT !.tier = op] BY <1>2 DEF MemChanged, MemTiers
 <2> QED BY <1>1, <2>1
<1>3. CASE op \in {"up", "down"}
 <2>1.
   MemChanged(op, e) = IF op = "up" THEN [e EXCEPT !.tier = MemHigher(e.tier)]
                                    ELSE [e EXCEPT !.tier = MemLower(e.tier)]
   BY <1>3 DEF MemChanged, MemTiers
 <2> QED BY <1>1, <2>1
<1>4. CASE op = "touch"
 <2>1. MemChanged(op, e) = [e EXCEPT !.hits = MemMore(e.hits)] BY <1>4 DEF MemChanged, MemTiers
 <2> QED BY <1>1, <2>1
<1>5. CASE op \in {"fade", "restore", "bury"}
 <2> PICK dead \in BOOLEAN : dead = (op = "bury") OBVIOUS
 <2>1. MemChanged(op, e) = IF op = "fade" THEN e ELSE [e EXCEPT !.dead = dead]
   BY <1>5 DEF MemChanged, MemTiers, MemFaded, MemRestored, MemFlagged
 <2> QED BY <1>0, <1>1, <2>1 DEF MemIsEntry
<1> QED BY <1>2, <1>3, <1>4, <1>5 DEF MemOps

\* What a task writes is an entry, and unless it is a new one, with the old body.
LEMMA MemWantedSame ==
  ASSUME MemShapes, NEW t, t.op \in MemOps, t.name \in MemNames,
    NEW view, view[t.name] = MemTorn \/ view[t.name] = memFile[t.name],
    t.op = "promote" => MemSame(view, t.name, t.entry),
    MemWanted(t) # MemAbsent
  PROVE
    /\ MemIsEntry(MemWanted(t))
    /\ t.op \in {"write", "summary"} \/ MemSame(view, t.name, MemWanted(t))
<1> PICK tier : tier = IF MemLive(t.name) THEN memFile[t.name].tier ELSE "core" OBVIOUS
<1> PICK e : e = memFile[t.name] OBVIOUS
<1>0. \A x : MemIsEntry(MemFresh(x, 0)) /\ MemIsEntry(MemFresh(x, 1))
  BY DEF MemFresh, MemIsEntry
<1>1. CASE t.op = "write" BY <1>0, <1>1 DEF MemWanted
<1>2. CASE t.op = "summary" BY <1>0, <1>2 DEF MemWanted
<1>3. CASE t.op = "promote"
 <2>1. MemWanted(t) = [t.entry EXCEPT !.tier = "core"] BY <1>3 DEF MemWanted
 <2>2. MemIsEntry(t.entry) BY <1>3 DEF MemSame
 <2>3. MemIsEntry(MemWanted(t)) /\ MemWanted(t).body = t.entry.body BY <2>1, <2>2 DEF MemIsEntry
 <2> QED BY <1>3, <2>3 DEF MemSame
<1>4. CASE t.op \notin {"write", "summary", "promote"}
 <2>1. e # MemAbsent /\ e # MemTorn /\ MemWanted(t) = MemChanged(t.op, e)
   BY <1>4 DEF MemWanted, MemLive
 <2>2. MemIsEntry(e) BY <2>1 DEF MemShapes, MemFilesOk
 <2>3. MemIsEntry(MemWanted(t)) /\ MemWanted(t).body = e.body
   BY <1>4, <2>1, <2>2, MemChangedBody
 <2> QED BY <2>1, <2>3 DEF MemSame
<1> QED BY <1>1, <1>2, <1>3, <1>4

\* The loop of decayTombstone ends: there is a free number.
LEMMA MemFreeNumber ==
  ASSUME MemShapes, NEW n \in MemNames
  PROVE \A t \in memTombs : ~ (t.name = n /\ t.num = MemFree(n))
<1> DEFINE k == Cardinality(memTombs)
  Used(i) == \E t \in memTombs : t.name = n /\ t.num = i
  Free == {i \in 0 .. k : ~ Used(i)}
<1>1. k \in Nat /\ IsFiniteSet(memTombs) BY FS_CardinalityType DEF MemShapes
<1>2. Free # {}
 <2> SUFFICES ASSUME \A i \in 0 .. k : Used(i)
   PROVE FALSE
   OBVIOUS
 <2> DEFINE f == [i \in 0 .. k |-> CHOOSE t \in memTombs : t.name = n /\ t.num = i]
 <2>1. \A i \in 0 .. k : f[i] \in memTombs /\ f[i].num = i OBVIOUS
 <2>2. f \in [0 .. k -> memTombs] BY <2>1
 <2> HIDE DEF f
 <2>3. IsFiniteSet(0 .. k) /\ Cardinality(0 .. k) = k + 1 BY <1>1, FS_Interval
 <2>4. PICK x, y \in 0 .. k : x # y /\ f[x] = f[y]
  <3>1. k < Cardinality(0 .. k) BY <1>1, <2>3
  <3> QED BY <1>1, <2>2, <2>3, <3>1, FS_PigeonHole
 <2> QED BY <2>1, <2>4
<1>3. PICK i \in Free : \A j \in Free : i <= j
 <2>1. Free \in SUBSET Nat BY <1>1
 <2> HIDE DEF Free
 <2> QED BY <1>2, <2>1, LeastMember
<1>4. \A j \in 0 .. i - 1 : Used(j)
 <2> SUFFICES ASSUME NEW j \in 0 .. i - 1, ~ Used(j)
   PROVE FALSE
   OBVIOUS
 <2>1. i \in 0 .. k /\ j \in 0 .. k /\ ~ (i <= j) BY <1>1, <1>3
 <2> QED BY <1>3, <2>1
<1>5. \A t \in memTombs : ~ (t.name = n /\ t.num = i) BY <1>3
<1>6. MemFree(n) \in 0 .. k /\ \A t \in memTombs : ~ (t.name = n /\ t.num = MemFree(n))
  BY <1>3, <1>4, <1>5 DEF MemFree
<1> QED BY <1>6

\* Nothing to do, and everything but the task at hand.
LEMMA MemIdleOk ==
  ASSUME NEW files
  PROVE MemJobOk(files, MemIdle)
<1>1. <<>> \in Seq(MemTaskSet({})) /\ Len(<<>>) = 0 BY EmptySeq
<1>2. MemTodoOk(files, <<>>) BY <1>1 DEF MemTodoOk
<1>3. \A i \in 1 .. Len(<<>>) : FALSE BY <1>1
<1> QED BY <1>2, <1>3 DEF MemJobOk, MemIdle, MemToDo, MemSteps

LEMMA MemTailOk ==
  ASSUME NEW files, NEW j, MemJobOk(files, j), j.todo # <<>>
  PROVE MemJobOk(files, MemToDo(Tail(j.todo)))
<1> DEFINE todo == j.todo
  rest == Tail(j.todo)
<1>1. PICK E : todo \in Seq(MemTaskSet(E)) BY DEF MemJobOk, MemTodoOk
<1>2.
  /\ Len(todo) \in Nat /\ rest \in Seq(MemTaskSet(E)) /\ Len(rest) = Len(todo) - 1
  /\ \A i \in 1 .. Len(rest) : rest[i] = todo[i + 1]
  BY <1>1, LenProperties, HeadTailProperties
<1> HIDE DEF rest
<1>4. ASSUME NEW i \in 1 .. Len(rest)
  PROVE
    /\ rest[i].op \in MemOps
    /\ rest[i].op = "promote" => MemSame(files, rest[i].name, rest[i].entry)
    /\ rest[i].op \notin MemAlone
 <2>1. i + 1 \in 1 .. Len(todo) /\ i + 1 # 1 /\ Len(todo) # 1 BY <1>2
 <2> QED BY <1>2, <2>1 DEF MemJobOk, MemTodoOk
<1>5. MemTodoOk(files, rest) BY <1>2, <1>4 DEF MemTodoOk
<1> QED BY <1>4, <1>5 DEF MemJobOk, MemSteps, MemToDo, rest

\* A task replaced by one of the same list.
LEMMA MemReplaced ==
  ASSUME NEW S, NEW todo \in Seq(S), todo # <<>>, NEW r \in S
  PROVE
    LET new == [todo EXCEPT ![1] = r]
    IN  /\ new \in Seq(S) /\ Len(new) = Len(todo) /\ new # <<>> /\ new[1] = r
        /\ \A i \in 1 .. Len(todo) : i # 1 => new[i] = todo[i]
<1>1. Len(todo) \in Nat \ {0} /\ DOMAIN todo = 1 .. Len(todo) BY Indices, EmptySeq
<1>2. \A i \in 1 .. Len(todo) : todo[i] \in S BY ElementOfSeq
<1> DEFINE new == [todo EXCEPT ![1] = r]
<1>3. new \in [1 .. Len(todo) -> S] BY <1>1, <1>2
<1>4. new[1] = r /\ \A i \in 1 .. Len(todo) : i # 1 => new[i] = todo[i] BY <1>1
<1> HIDE DEF new
<1>5. new \in Seq(S) /\ Len(new) = Len(todo) BY <1>1, <1>3, FromFunction
<1>6. new # <<>> BY <1>1, <1>5, EmptySeq
<1> QED BY <1>4, <1>5, <1>6 DEF new

LEMMA MemListedNames ==
  ASSUME MemShapes
  PROVE MemListed \subseteq MemNames
BY DEF MemListed, MemShapes

\* Whoever reads the list reads of every file what it says.
LEMMA MemReadAllOk ==
  ASSUME MemShapes, NEW view, \A n \in MemNames : view[n] = MemTorn \/ view[n] = memFile[n]
  PROVE MemListOk(view, MemReadAll)
<1>1. DOMAIN MemReadAll \subseteq MemNames BY MemListedNames DEF MemReadAll
<1>2. \A n \in DOMAIN MemReadAll : MemReadAll[n] = memFile[n] /\ MemLive(n) BY DEF MemReadAll
<1>3. MemReadAll = [n \in DOMAIN MemReadAll |-> MemReadAll[n]] BY DEF MemReadAll
<1>4. ASSUME NEW n \in DOMAIN MemReadAll
  PROVE MemSame(view, n, MemReadAll[n])
 <2>1. n \in MemNames /\ MemReadAll[n] = memFile[n] BY <1>1, <1>2
 <2>2. memFile[n] # MemAbsent /\ memFile[n] # MemTorn BY <1>2 DEF MemLive
 <2>3. MemIsEntry(memFile[n]) BY <2>1, <2>2 DEF MemShapes, MemFilesOk
 <2> QED BY <2>1, <2>2, <2>3 DEF MemSame
<1> QED BY <1>1, <1>3, <1>4 DEF MemListOk

--------------------

\* To know less of a file disturbs nothing.
LEMMA MemLess ==
  ASSUME NEW view, view = [n \in MemNames |-> view[n]], NEW m,
    NEW less, less = [view EXCEPT ![m] = MemTorn]
  PROVE
    /\ \A n \in MemNames : \A e : MemSame(view, n, e) => MemSame(less, n, e)
    /\ \A list : MemListOk(view, list) => MemListOk(less, list)
<1>1. \A n \in MemNames : less[n] = MemTorn \/ less[n] = view[n] OBVIOUS
<1>2. \A n \in MemNames : \A e : MemSame(view, n, e) => MemSame(less, n, e) BY <1>1 DEF MemSame
<1> QED BY <1>2 DEF MemListOk

LEMMA MemTodoLess ==
  ASSUME NEW view, NEW less, NEW todo, MemTodoOk(view, todo),
    \A n \in MemNames : \A e : MemSame(view, n, e) => MemSame(less, n, e)
  PROVE MemTodoOk(less, todo)
<1>1. PICK E : todo \in Seq(MemTaskSet(E)) BY DEF MemTodoOk
<1>2. ASSUME NEW i \in 1 .. Len(todo), todo[i].op = "promote"
  PROVE MemSame(less, todo[i].name, todo[i].entry)
 <2>1. todo[i] \in MemTaskSet(E) BY <1>1, ElementOfSeq
 <2>2. todo[i].name \in MemNames BY <2>1 DEF MemTaskSet
 <2>3. MemSame(view, todo[i].name, todo[i].entry) BY <1>2 DEF MemTodoOk
 <2> QED BY <2>2, <2>3
<1> QED BY <1>2 DEF MemTodoOk

\* What one session is doing and has read.
LEMMA MemNow ==
  ASSUME MemInv, NEW s, MemSessions = {s}
  PROVE
    LET view == MemView(memFile, memLost, memJob[s])
    IN  /\ MemShapes /\ MemJobOk(view, memJob[s])
        /\ MemCacheOk(view, memJob[s], memCache[s])
        /\ MemWhole(memFile, memNewest, memJob[s])
        /\ MemKept(view, memLost, memTombs, memNewest)
        /\ memJob = [memJob EXCEPT ![s] = memJob[s]]
        /\ memCache = [memCache EXCEPT ![s] = memCache[s]]
BY DEF MemInv, MemShapes, MemSound

\* A step, after which everything is as it should be.
MemMoves(s, j, c, view) ==
  /\ memJob' = [memJob EXCEPT ![s] = j] /\ memCache' = [memCache EXCEPT ![s] = c]
  /\ memRows' \subseteq MemNames /\ MemFilesOk(memFile')
  /\ memNewest' = [n \in MemNames |-> memNewest'[n]]
  /\ IsFiniteSet(memTombs') /\ \A t \in memTombs' : MemIsTomb(t)
  /\ MemSound(view, memLost', memFile', memTombs', memNewest', j, c)

LEMMA MemMove ==
  ASSUME MemInv, NEW s, MemSessions = {s}, NEW j, NEW c, NEW view, MemMoves(s, j, c, view)
  PROVE MemInv'
<1>1.
  /\ memJob' = [x \in MemSessions |-> memJob'[x]] /\ memJob'[s] = j
  /\ memCache' = [x \in MemSessions |-> memCache'[x]] /\ memCache'[s] = c
  BY DEF MemInv, MemShapes, MemMoves
<1>2. MemShapes' BY <1>1 DEF MemMoves, MemShapes
<1>3. MemSound(view, memLost', memFile', memTombs', memNewest', j, c) BY DEF MemMoves
<1>4. view = MemView(memFile', memLost', memJob'[s]) BY <1>1, <1>3 DEF MemSound
<1> QED BY <1>1, <1>2, <1>3, <1>4 DEF MemInv

\* A step that changes no file.
LEMMA MemJobStep ==
  ASSUME MemInv, NEW s, MemSessions = {s}, NEW j, NEW c,
    memJob' = [memJob EXCEPT ![s] = j], memCache' = [memCache EXCEPT ![s] = c],
    memRows' \subseteq MemNames, UNCHANGED <<memFile, memTombs, memNewest, memLost>>,
    memJob[s].step # "fill", j.step # "fill",
    j.step \notin {"idle", "file"} => memFile[j.todo[1].name] # MemTorn,
    LET view == MemView(memFile, memLost, memJob[s])
    IN  MemJobOk(view, j) /\ MemCacheOk(view, j, c)
  PROVE MemInv'
<1> PICK view : view = MemView(memFile, memLost, memJob[s]) OBVIOUS
<1>1. view = MemView(memFile', memLost', j) BY MemViewStays
<1>2. MemShapes /\ MemKept(view, memLost, memTombs, memNewest) BY MemNow
<1>3. MemWhole(memFile', memNewest', j) BY DEF MemWhole
<1>4. MemSound(view, memLost', memFile', memTombs', memNewest', j, c)
  BY <1>1, <1>2, <1>3 DEF MemSound
<1>5. MemMoves(s, j, c, view) BY <1>2, <1>4 DEF MemMoves, MemShapes
<1> QED BY <1>5, MemMove

\* The beginning of an operation, which may have filled the cache.
LEMMA MemBeginStep ==
  ASSUME MemInv, NEW s, MemSessions = {s}, NEW tasks, NEW c, MemBegin(s, tasks),
    memCache' = [memCache EXCEPT ![s] = c],
    NEW view, view = MemView(memFile, memLost, memJob[s]),
    c = memCache[s] \/ MemListOk(view, c),
    MemTodoOk(view, tasks), \A i \in 1 .. Len(tasks) : tasks[i].op \in MemOps
  PROVE MemInv'
<1> PICK j : j = MemToDo(tasks) OBVIOUS
<1>1.
  /\ memJob[s] = MemIdle /\ memJob' = [memJob EXCEPT ![s] = j]
  /\ UNCHANGED <<memFile, memRows, memTombs, memNewest, memLost>>
  BY DEF MemBegin, MemSet
<1>2.
  /\ j = [step |-> j.step, todo |-> j.todo, entry |-> j.entry, rows |-> j.rows]
  /\ j.step = "idle" /\ j.todo = tasks /\ j.rows = {} /\ memJob[s].step = "idle"
  BY <1>1 DEF MemToDo, MemIdle
<1>3. MemJobOk(view, j) BY <1>2 DEF MemJobOk, MemSteps
<1>4. MemCacheOk(view, j, c)
 <2>1. MemCacheOk(view, memJob[s], memCache[s]) BY MemNow
 <2>2. MemSeen(view, j) = view /\ MemSeen(view, memJob[s]) = view
   BY <1>2 DEF MemSeen, MemWriting
 <2> QED BY <1>2, <2>1, <2>2 DEF MemCacheOk
<1>5. memRows' \subseteq MemNames BY <1>1 DEF MemInv, MemShapes
<1>6. j.step \notin {"idle", "file"} => memFile[j.todo[1].name] # MemTorn BY <1>2
<1>7. memJob[s].step # "fill" /\ j.step # "fill" BY <1>2
<1> QED BY <1>1, <1>3, <1>4, <1>5, <1>6, <1>7, MemJobStep

\* One task for each of some names.
LEMMA MemTasksOk ==
  ASSUME NEW view, NEW names \in SUBSET MemNames, NEW op \in {"touch", "archival", "fade"}
  PROVE
    /\ MemTodoOk(view, MemTasks(op, names))
    /\ \A i \in 1 .. Len(MemTasks(op, names)) : MemTasks(op, names)[i].op \in MemOps
<1>1. IsFiniteSet(names) BY MemAssumption, FS_Subset
<1> PICK k, q : k = Cardinality(names) /\ q = SetToSeq(names) OBVIOUS
<1>2. k \in Nat /\ q \in [1 .. k -> names] BY <1>1, SetToSeqMembers
<1> DEFINE tasks == MemTasks(op, names)
<1>3. tasks = [i \in 1 .. k |-> [op |-> op, name |-> q[i], entry |-> MemAbsent]]
  BY DEF MemTasks, MemTask
<1>4. tasks \in [1 .. k -> MemTaskSet({MemAbsent})]
  BY <1>2, <1>3 DEF MemTaskSet, MemOps, MemTiers
<1>5. \A i \in 1 .. k : tasks[i].op = op BY <1>3
<1> HIDE DEF tasks
<1>6. tasks \in Seq(MemTaskSet({MemAbsent})) /\ Len(tasks) = k BY <1>2, <1>4, FromFunction
<1> QED BY <1>5, <1>6 DEF MemTodoOk, MemAlone, MemOps, MemTiers, tasks

LEMMA MemTaskOk ==
  ASSUME NEW view, NEW n \in MemNames, NEW op \in MemOps \ {"promote"}
  PROVE
    LET tasks == <<MemTask(op, n)>>
    IN  /\ MemTodoOk(view, tasks)
        /\ \A i \in 1 .. Len(tasks) : tasks[i].op \in MemOps
<1> PICK t : t = MemTask(op, n) OBVIOUS
<1>1. t \in MemTaskSet({MemAbsent}) /\ t.op = op BY DEF MemTask, MemTaskSet
<1>2. <<t>> \in Seq(MemTaskSet({MemAbsent})) /\ Len(<<t>>) = 1 /\ <<t>>[1] = t BY <1>1
<1>3. \A i \in 1 .. Len(<<t>>) : <<t>>[i] = t BY <1>2
<1> QED BY <1>1, <1>2, <1>3 DEF MemTodoOk

\* Between two tasks every file is seen as it is, or not at all.
LEMMA MemIdleView ==
  ASSUME NEW j, j.step # "fill", NEW view, view = MemView(memFile, memLost, j)
  PROVE \A n \in MemNames : view[n] = MemTorn \/ view[n] = memFile[n]
BY DEF MemView

LEMMA MemTierListOk ==
  ASSUME MemInv, NEW s, MemSessions = {s}, memJob[s] = MemIdle,
    NEW view, view = MemView(memFile, memLost, memJob[s])
  PROVE MemListOk(view, MemTierList(s))
<1>1. MemShapes /\ MemCacheOk(view, memJob[s], memCache[s]) /\ memJob[s].step = "idle"
  BY MemNow DEF MemIdle, MemToDo
<1>2. MemSeen(view, memJob[s]) = view BY <1>1 DEF MemSeen, MemWriting
<1>3. MemListOk(view, MemReadAll) BY <1>1, MemIdleView, MemReadAllOk
<1> QED BY <1>1, <1>2, <1>3 DEF MemCacheOk, MemTierList

\* The operations begin with tasks of what the files say.
LEMMA MemOperations ==
  ASSUME MemInv, NEW s, MemSessions = {s},
    \/ MemPromote(s) \/ MemSelect(s) \/ MemCompact(s) \/ MemDecayRun(s)
    \/ \E n \in MemNames : MemoryWrite(s, n) \/ MemSummarise(s, n)
    \/ \E n \in MemNames, op \in MemTiers \cup {"up", "down", "touch", "fade", "restore", "bury"} :
         MemChange(s, op, n)
  PROVE MemInv'
<1> PICK view : view = MemView(memFile, memLost, memJob[s]) OBVIOUS
<1>0. MemShapes /\ memCache = [memCache EXCEPT ![s] = memCache[s]] BY MemNow
<1>1. CASE MemPromote(s)
 <2> PICK list : list = MemTierList(s) OBVIOUS
 <2> PICK due : due = {n \in MemOfTier(list, "recall") : list[n].hits >= MemThreshold} OBVIOUS
 <2> PICK k, q : k = Cardinality(due) /\ q = SetToSeq(due) OBVIOUS
 <2> DEFINE tasks == [i \in 1 .. k |-> [op |-> "promote", name |-> q[i], entry |-> list[q[i]]]]
   E == {list[n] : n \in DOMAIN list}
 <2>1. MemBegin(s, tasks) /\ memCache' = [memCache EXCEPT ![s] = list] BY <1>1 DEF MemPromote
 <2>2. MemListOk(view, list) BY <2>1, MemTierListOk DEF MemBegin
 <2>3. due \subseteq DOMAIN list /\ DOMAIN list \subseteq MemNames
   BY <2>2 DEF MemListOk, MemOfTier
 <2>4. k \in Nat /\ q \in [1 .. k -> due]
  <3>1. IsFiniteSet(due) BY <2>3, MemAssumption, FS_Subset
  <3> QED BY <3>1, SetToSeqMembers
 <2>5. tasks \in [1 .. k -> MemTaskSet(E)] BY <2>3, <2>4 DEF MemTaskSet, MemOps
 <2>6.
   \A i \in 1 .. k : /\ tasks[i].op = "promote"
                     /\ MemSame(view, tasks[i].name, tasks[i].entry)
   BY <2>2, <2>3, <2>4 DEF MemListOk
 <2> HIDE DEF tasks, E
 <2>7. tasks \in Seq(MemTaskSet(E)) /\ Len(tasks) = k BY <2>4, <2>5, FromFunction
 <2>8. MemTodoOk(view, tasks) /\ \A i \in 1 .. Len(tasks) : tasks[i].op \in MemOps
   BY <2>6, <2>7 DEF MemTodoOk, MemAlone, MemOps
 <2> QED BY <2>1, <2>2, <2>8, MemBeginStep
<1>2. CASE MemSelect(s)
 <2>1.
   PICK names \in MemWorkingSets(s), touch \in BOOLEAN :
     /\ memCache' = [memCache EXCEPT ![s] = MemTierList(s)]
     /\ MemBegin(s, IF touch THEN MemTasks("touch", names) ELSE <<>>)
   BY <1>2 DEF MemSelect
 <2> PICK list : list = MemTierList(s) OBVIOUS
 <2>2. MemListOk(view, list) BY <2>1, MemTierListOk DEF MemBegin
 <2>3. names \subseteq MemNames
  <3>1. \A tier : MemOfTier(list, tier) \subseteq MemNames BY <2>2 DEF MemOfTier, MemListOk
  <3>2. PICK some \in SUBSET MemOfTier(list, "recall") : names = MemOfTier(list, "core") \cup some
    BY DEF MemWorkingSets
  <3> QED BY <3>1, <3>2
 <2> DEFINE tasks == IF touch THEN MemTasks("touch", names) ELSE <<>>
 <2>4. MemTodoOk(view, tasks) /\ \A i \in 1 .. Len(tasks) : tasks[i].op \in MemOps
  <3>1. CASE touch BY <2>3, <3>1, MemTasksOk
  <3>2. CASE ~ touch
   <4>1. tasks = MemIdle.todo BY <3>2 DEF MemIdle, MemToDo
   <4>2. MemJobOk(view, MemIdle) /\ MemIdle.step = "idle" BY MemIdleOk DEF MemIdle, MemToDo
   <4> QED BY <4>1, <4>2 DEF MemJobOk
  <3> QED BY <3>1, <3>2
 <2> HIDE DEF tasks
 <2>5. MemBegin(s, tasks) /\ memCache' = [memCache EXCEPT ![s] = list] BY <2>1 DEF tasks
 <2> QED BY <2>2, <2>4, <2>5, MemBeginStep
<1>3. CASE MemCompact(s) \/ MemDecayRun(s)
 <2>1.
   \E op \in {"archival", "fade"}, names \in SUBSET DOMAIN MemReadAll :
     MemBegin(s, MemTasks(op, names)) /\ UNCHANGED memCache
  <3>1. CASE MemCompact(s)
   <4>1. PICK names \in MemCompactable : MemBegin(s, MemTasks("archival", names)) /\ UNCHANGED memCache
     BY <3>1 DEF MemCompact
   <4>2. names \in SUBSET DOMAIN MemReadAll BY DEF MemCompactable, MemOfTier
   <4> QED BY <4>1, <4>2
  <3>2. CASE MemDecayRun(s)
   <4>1. PICK names \in SUBSET {n \in DOMAIN MemReadAll : ~ memFile[n].dead} :
           MemBegin(s, MemTasks("fade", names)) /\ UNCHANGED memCache
     BY <3>2 DEF MemDecayRun
   <4>2. names \in SUBSET DOMAIN MemReadAll OBVIOUS
   <4> QED BY <4>1, <4>2
  <3> QED BY <1>3, <3>1, <3>2
 <2> PICK op \in {"archival", "fade"}, names \in SUBSET DOMAIN MemReadAll :
       MemBegin(s, MemTasks(op, names)) /\ UNCHANGED memCache
   BY <2>1
 <2>2. names \subseteq MemNames BY <1>0, MemListedNames DEF MemReadAll
 <2> PICK tasks : tasks = MemTasks(op, names) OBVIOUS
 <2>3. MemTodoOk(view, tasks) /\ \A i \in 1 .. Len(tasks) : tasks[i].op \in MemOps
   BY <2>2, MemTasksOk
 <2>4. memCache' = [memCache EXCEPT ![s] = memCache[s]] /\ MemBegin(s, tasks) BY <1>0
 <2> QED BY <2>3, <2>4, MemBeginStep
<1>4.
  CASE \/ \E n \in MemNames : MemoryWrite(s, n) \/ MemSummarise(s, n)
       \/ \E n \in MemNames, op \in MemTiers \cup {"up", "down", "touch", "fade", "restore", "bury"} :
            MemChange(s, op, n)
 <2>1.
   PICK n \in MemNames, op \in MemOps \ {"promote"} :
     MemBegin(s, <<MemTask(op, n)>>) /\ UNCHANGED memCache
   BY <1>4 DEF MemoryWrite, MemSummarise, MemChange, MemOps, MemTiers
 <2> PICK tasks : tasks = <<MemTask(op, n)>> OBVIOUS
 <2>2. MemTodoOk(view, tasks) /\ \A i \in 1 .. Len(tasks) : tasks[i].op \in MemOps BY MemTaskOk
 <2>3. memCache' = [memCache EXCEPT ![s] = memCache[s]] /\ MemBegin(s, tasks) BY <1>0, <2>1
 <2> QED BY <2>2, <2>3, MemBeginStep
<1> QED BY <1>1, <1>2, <1>3, <1>4

\* What is written with the body it has is the same to all others.
LEMMA MemSameStays ==
  ASSUME NEW view, view = [n \in MemNames |-> view[n]], NEW m \in MemNames, NEW e,
    MemSame(view, m, e), NEW n \in MemNames, NEW x, MemSame(view, n, x),
    NEW now, now = [view EXCEPT ![m] = IF view[m] = MemTorn THEN MemTorn ELSE e]
  PROVE MemSame(now, n, x)
<1>1. e # MemAbsent BY MemEntryIsThere DEF MemSame
<1>2. CASE n = m
 <2>1. CASE view[m] = MemTorn
  <3>1. now[n] = MemTorn BY <1>2, <2>1
  <3> QED BY <3>1 DEF MemSame
 <2>2. CASE view[m] # MemTorn
  <3>1. now[n] = e BY <1>2, <2>2
  <3> QED BY <1>1, <1>2, <2>2, <3>1 DEF MemSame
 <2> QED BY <2>1, <2>2
<1>3. CASE n # m
 <2>1. now[n] = view[n] BY <1>3
 <2> QED BY <2>1 DEF MemSame
<1> QED BY <1>2, <1>3

\* The task at the head of the list.
LEMMA MemHead ==
  ASSUME NEW files, NEW j, MemJobOk(files, j), j.todo # <<>>
  PROVE
    /\ Head(j.todo) = j.todo[1] /\ 1 \in 1 .. Len(j.todo)
    /\ j.todo[1].name \in MemNames /\ j.todo[1].op \in MemOps \cup MemKinds
<1>1. PICK E : j.todo \in Seq(MemTaskSet(E)) BY DEF MemJobOk, MemTodoOk
<1>2. Len(j.todo) \in Nat \ {0} BY <1>1, EmptySeq
<1>3. j.todo[1] \in MemTaskSet(E) BY <1>1, <1>2, ElementOfSeq
<1> QED BY <1>1, <1>2, <1>3, HeadTailProperties DEF MemTaskSet

\* The reads before the first write, and what there is nothing to write for.
LEMMA MemPrepareStep ==
  ASSUME MemInv, NEW s, MemSessions = {s}, MemPrepare(s)
  PROVE MemInv'
<1> PICK j : j = memJob[s] OBVIOUS
<1> PICK todo : todo = j.todo OBVIOUS
<1> PICK t : t = Head(todo) OBVIOUS
<1> PICK e, rows, kind : e = MemWanted(t) /\ rows = MemListed \cup {t.name} /\ kind = MemKind(t.op)
  OBVIOUS
<1> PICK view : view = MemView(memFile, memLost, memJob[s]) OBVIOUS
<1> PICK r : r = [t EXCEPT !.op = kind] OBVIOUS
<1> PICK new : new = [todo EXCEPT ![1] = r] OBVIOUS
<1>1.
  /\ MemShapes /\ MemJobOk(view, j) /\ MemCacheOk(view, j, memCache[s])
  /\ memCache = [memCache EXCEPT ![s] = memCache[s]]
  BY MemNow
<1>2.
  /\ j.step = "idle" /\ todo # <<>> /\ e # MemAbsent
  /\ UNCHANGED <<memFile, memRows, memTombs, memCache, memNewest, memLost>>
  BY DEF MemPrepare
<1>3. /\ t = todo[1] /\ 1 \in 1 .. Len(todo) /\ t.name \in MemNames /\ t.op \in MemOps
 <2>1. /\ Head(j.todo) = j.todo[1] /\ 1 \in 1 .. Len(j.todo) /\ j.todo[1].name \in MemNames
   BY <1>1, <1>2, MemHead
 <2>2. j.todo[1].op \in MemOps BY <1>1, <1>2, <2>1 DEF MemJobOk
 <2> QED BY <2>1, <2>2
<1>4.
  /\ t.op = "promote" => MemSame(view, t.name, t.entry)
  /\ t.op \in MemAlone => Len(todo) = 1
  BY <1>1, <1>3 DEF MemJobOk, MemTodoOk
<1>5.
  /\ MemIsEntry(e)
  /\ t.op \in {"write", "summary"} \/ MemSame(view, t.name, e)
 <2>1. view[t.name] = MemTorn \/ view[t.name] = memFile[t.name] BY <1>2, <1>3, MemIdleView
 <2> QED BY <1>1, <1>2, <1>3, <1>4, <2>1, MemWantedSame
<1>6. PICK E : todo \in Seq(MemTaskSet(E)) BY <1>1 DEF MemJobOk, MemTodoOk
<1>7. t \in MemTaskSet(E) BY <1>3, <1>6, ElementOfSeq
<1>8.
  /\ kind \in MemKinds /\ kind # "drop"
  /\ kind = "write" <=> t.op \in {"write", "summary"}
  /\ kind = "bury" <=> t.op = "bury"
  BY <1>3 DEF MemKind, MemKinds, MemOps, MemTiers
<1>9. /\ r \in MemTaskSet(E) /\ r.op = kind /\ r.name = t.name
 <2>1.
   PICK o \in MemOps \cup MemKinds, n \in MemNames, x \in E :
     t = [op |-> o, name |-> n, entry |-> x]
   BY <1>7 DEF MemTaskSet
 <2>2. r = [op |-> kind, name |-> n, entry |-> x] BY <2>1
 <2> QED BY <1>8, <2>1, <2>2 DEF MemTaskSet
<1>10.
  /\ new \in Seq(MemTaskSet(E)) /\ Len(new) = Len(todo) /\ new # <<>> /\ new[1] = r
  /\ \A i \in 1 .. Len(todo) : i # 1 => new[i] = todo[i]
  BY <1>2, <1>6, <1>9, MemReplaced
<1> PICK k : k = [step |-> "file", todo |-> new, entry |-> e, rows |-> rows] OBVIOUS
<1>11. memJob' = [memJob EXCEPT ![s] = k]
 <2>1.
   memJob' = [memJob EXCEPT ![s] = [step |-> "file", todo |-> [todo EXCEPT ![1].op = kind],
                                    entry |-> e, rows |-> rows]]
   BY DEF MemPrepare, MemSet
 <2>2. [todo EXCEPT ![1].op = kind] = new BY <1>3
 <2> QED BY <2>1, <2>2
<1>12. MemTodoOk(view, new)
 <2>1. ASSUME NEW i \in 1 .. Len(new)
   PROVE
     /\ new[i].op = "promote" => MemSame(view, new[i].name, new[i].entry)
     /\ new[i].op \in MemAlone => Len(new) = 1
  <3>1. CASE i = 1 BY <1>4, <1>8, <1>9, <1>10, <3>1 DEF MemAlone, MemKinds
  <3>2. CASE i # 1 BY <1>1, <1>10, <3>2 DEF MemJobOk, MemTodoOk
  <3> QED BY <3>1, <3>2
 <2> QED BY <1>10, <2>1 DEF MemTodoOk
<1>13. MemJobOk(view, k)
 <2>1. rows \subseteq MemNames BY <1>1, <1>3, MemListedNames
 <2>2. \A i \in 1 .. Len(new) : i # 1 => new[i].op \in MemOps BY <1>1, <1>2, <1>10 DEF MemJobOk
 <2>3. new[1].op = kind /\ (kind # "write" => MemSame(view, new[1].name, e))
   BY <1>5, <1>8, <1>9, <1>10
 <2> QED BY <1>5, <1>8, <1>10, <1>12, <2>1, <2>2, <2>3 DEF MemJobOk, MemSteps
<1>14. MemCacheOk(view, k, memCache[s])
 <2>1. MemSeen(view, k) = view /\ MemSeen(view, j) = view BY <1>2 DEF MemSeen, MemWriting
 <2>2. k.todo[1].op # "drop" BY <1>3, <1>9, <1>10 DEF MemKind
 <2> QED BY <1>1, <2>1, <2>2 DEF MemCacheOk
<1>15. /\ memCache' = [memCache EXCEPT ![s] = memCache[s]] /\ memRows' \subseteq MemNames
  BY <1>1, <1>2 DEF MemShapes
<1>16.
  /\ memJob[s].step # "fill" /\ k.step # "fill"
  /\ k.step \notin {"idle", "file"} => memFile[k.todo[1].name] # MemTorn
  BY <1>2
<1>17. UNCHANGED <<memFile, memTombs, memNewest, memLost>> BY <1>2
<1> QED BY <1>11, <1>13, <1>14, <1>15, <1>16, <1>17, MemJobStep

\* A job that goes on with the next task, or with none.
LEMMA MemEnds ==
  ASSUME NEW s, NEW view, MemJobOk(view, memJob[s]), memJob[s].todo # <<>>,
    NEW k, k = MemIdle \/ k = MemDone(s)
  PROVE MemJobOk(view, k) /\ k.step = "idle"
<1>1. MemJobOk(view, MemDone(s)) /\ MemJobOk(view, MemIdle) BY MemTailOk, MemIdleOk DEF MemDone
<1>2. k.step = "idle" BY DEF MemIdle, MemDone, MemToDo
<1> QED BY <1>1, <1>2

LEMMA MemSkipStep ==
  ASSUME MemInv, NEW s, MemSessions = {s}, MemSkip(s)
  PROVE MemInv'
<1> PICK view : view = MemView(memFile, memLost, memJob[s]) OBVIOUS
<1>1.
  /\ MemShapes /\ MemCacheOk(view, memJob[s], memCache[s]) /\ MemJobOk(view, memJob[s])
  /\ memCache = [memCache EXCEPT ![s] = memCache[s]]
  BY MemNow
<1>2.
  /\ memJob[s].step = "idle" /\ memJob[s].todo # <<>>
  /\ UNCHANGED <<memFile, memRows, memTombs, memCache, memNewest, memLost>>
  BY DEF MemSkip
<1>3. PICK k : (k = MemIdle \/ k = MemDone(s)) /\ memJob' = [memJob EXCEPT ![s] = k]
  BY DEF MemSkip, MemSet
<1>4. MemJobOk(view, k) /\ k.step = "idle" BY <1>1, <1>2, <1>3, MemEnds
<1>5. MemCacheOk(view, k, memCache[s]) BY <1>1, <1>2, <1>4 DEF MemCacheOk, MemSeen, MemWriting
<1>6. memCache' = [memCache EXCEPT ![s] = memCache[s]] /\ memRows' \subseteq MemNames
  BY <1>1, <1>2 DEF MemShapes
<1>7. memJob[s].step # "fill" /\ k.step # "fill" /\ k.step = "idle" BY <1>2, <1>4
<1> QED BY <1>2, <1>3, <1>4, <1>5, <1>6, <1>7, MemJobStep

\* A step of a task that has its next task at hand, and a job with the same list.
LEMMA MemGoesOn ==
  ASSUME NEW view, NEW j, MemJobOk(view, j), j.step # "idle",
    NEW step \in MemSteps \ {"idle", "file", "fill", "bury", "unlink"},
    NEW k, k = [step |-> step, todo |-> j.todo, entry |-> k.entry, rows |-> k.rows],
    k.rows \subseteq MemNames
  PROVE MemJobOk(view, k)
<1>1.
  /\ k.step = step /\ k.todo = j.todo
  /\ k = [step |-> k.step, todo |-> k.todo, entry |-> k.entry, rows |-> k.rows]
  OBVIOUS
<1>2.
  /\ MemTodoOk(view, j.todo) /\ j.todo # <<>> /\ j.todo[1].op \in MemKinds
  /\ \A i \in 1 .. Len(j.todo) : i # 1 => j.todo[i].op \in MemOps
  BY DEF MemJobOk
<1>3. step \in MemSteps /\ step \notin {"idle", "file", "fill", "bury", "unlink"} OBVIOUS
<1> QED BY <1>1, <1>2, <1>3 DEF MemJobOk

LEMMA MemOpenIndexStep ==
  ASSUME MemInv, NEW s, MemSessions = {s}, MemOpenIndex(s)
  PROVE MemInv'
<1> PICK view, j : view = MemView(memFile, memLost, memJob[s]) /\ j = memJob[s] OBVIOUS
<1> PICK k : k = [j EXCEPT !.step = "rows"] OBVIOUS
<1>1.
  /\ MemShapes /\ MemCacheOk(view, j, memCache[s]) /\ MemJobOk(view, j)
  /\ memCache = [memCache EXCEPT ![s] = memCache[s]] /\ MemWhole(memFile, memNewest, j)
  BY MemNow
<1>2.
  /\ j.step = "index" /\ memRows' = {} /\ memJob' = [memJob EXCEPT ![s] = k]
  /\ UNCHANGED <<memFile, memTombs, memCache, memNewest, memLost>>
  BY DEF MemOpenIndex, MemSet
<1>3.
  /\ k = [step |-> "rows", todo |-> j.todo, entry |-> k.entry, rows |-> k.rows]
  /\ k.rows = j.rows
 <2>1. k = [step |-> "rows", todo |-> j.todo, entry |-> j.entry, rows |-> j.rows]
   BY <1>1 DEF MemJobOk
 <2> QED BY <2>1
<1>4. k.step = "rows" /\ k.todo = j.todo /\ k.rows \subseteq MemNames BY <1>1, <1>3 DEF MemJobOk
<1>5. MemJobOk(view, k) BY <1>1, <1>2, <1>3, <1>4, MemGoesOn DEF MemSteps
<1>6. MemCacheOk(view, k, memCache[s])
 <2>1. MemSeen(view, k) = MemSeen(view, j) BY <1>2, <1>4 DEF MemSeen, MemWriting
 <2> QED BY <1>1, <1>2, <1>4, <2>1 DEF MemCacheOk
<1>7. memFile[k.todo[1].name] # MemTorn BY <1>1, <1>2, <1>4 DEF MemWhole
<1>8. memJob[s].step # "fill" /\ k.step # "fill" /\ memRows' \subseteq MemNames BY <1>2, <1>4
<1>9. memCache' = [memCache EXCEPT ![s] = memCache[s]] BY <1>1, <1>2
<1> QED BY <1>2, <1>5, <1>6, <1>7, <1>8, <1>9, MemJobStep

\* The index is written, and a burial goes on to move the file.
LEMMA MemFillIndexStep ==
  ASSUME MemInv, NEW s, MemSessions = {s}, MemFillIndex(s)
  PROVE MemInv'
<1> PICK view, j : view = MemView(memFile, memLost, memJob[s]) /\ j = memJob[s] OBVIOUS
<1> PICK todo : todo = j.todo OBVIOUS
<1>1. MemShapes /\ MemJobOk(view, j) /\ MemWhole(memFile, memNewest, j) BY MemNow
<1>2.
  /\ j.step = "rows" /\ memRows' = j.rows /\ memCache' = [memCache EXCEPT ![s] = MemAbsent]
  /\ memJob' = [memJob EXCEPT ![s] =
                  IF Head(todo).op = "bury" THEN [j EXCEPT !.step = "bury", !.todo[1].op = "drop"]
                  ELSE MemDone(s)]
  /\ UNCHANGED <<memFile, memTombs, memNewest, memLost>>
  BY DEF MemFillIndex, MemSet, MemInvalidated
<1>3. \A k : MemCacheOk(view, k, MemAbsent) BY DEF MemCacheOk
<1>4. todo # <<>> /\ Head(todo) = todo[1] /\ 1 \in 1 .. Len(todo) /\ todo[1].name \in MemNames
 <2>1. j.todo # <<>> BY <1>1, <1>2 DEF MemJobOk
 <2> QED BY <1>1, <2>1, MemHead
<1>5. memRows' \subseteq MemNames BY <1>1, <1>2 DEF MemJobOk
<1>6. CASE Head(todo).op = "bury"
 <2> PICK t : t = todo[1] OBVIOUS
 <2> PICK r : r = [t EXCEPT !.op = "drop"] OBVIOUS
 <2> PICK new : new = [todo EXCEPT ![1] = r] OBVIOUS
 <2> PICK k : k = [j EXCEPT !.step = "bury", !.todo = new] OBVIOUS
 <2>1. PICK E : todo \in Seq(MemTaskSet(E)) BY <1>1 DEF MemJobOk, MemTodoOk
 <2>2. r \in MemTaskSet(E) /\ r.op = "drop" /\ r.name = t.name
  <3>1. t \in MemTaskSet(E) BY <1>4, <2>1, ElementOfSeq
  <3>2. PICK o \in MemOps \cup MemKinds, n \in MemNames, x \in E :
          t = [op |-> o, name |-> n, entry |-> x]
    BY <3>1 DEF MemTaskSet
  <3>3. r = [op |-> "drop", name |-> n, entry |-> x] BY <3>2
  <3> QED BY <3>2, <3>3 DEF MemTaskSet, MemKinds
 <2>3. Len(todo) = 1 BY <1>1, <1>4, <1>6 DEF MemJobOk, MemTodoOk, MemAlone
 <2>4. new \in Seq(MemTaskSet(E)) /\ Len(new) = 1 /\ new # <<>> /\ new[1] = r
   BY <1>4, <2>1, <2>2, <2>3, MemReplaced
 <2>5. memJob' = [memJob EXCEPT ![s] = k]
  <3>1. [j EXCEPT !.step = "bury", !.todo[1].op = "drop"] = k BY <1>4
  <3> QED BY <1>2, <1>6, <3>1
 <2>6.
   /\ k = [step |-> k.step, todo |-> k.todo, entry |-> k.entry, rows |-> k.rows]
   /\ k.step = "bury" /\ k.todo = new /\ k.rows = j.rows
  <3>1. k = [step |-> "bury", todo |-> new, entry |-> j.entry, rows |-> j.rows]
    BY <1>1 DEF MemJobOk
  <3> QED BY <3>1
 <2>7. MemTodoOk(view, new) BY <2>2, <2>4 DEF MemTodoOk
 <2>8. MemJobOk(view, k)
  <3>1. j.rows \subseteq MemNames BY <1>1 DEF MemJobOk
  <3>2. k.todo[1].op = "drop" /\ k.todo # <<>> /\ \A i \in 1 .. Len(k.todo) : i = 1
    BY <2>2, <2>4, <2>6
  <3> QED BY <2>6, <2>7, <3>1, <3>2 DEF MemJobOk, MemSteps, MemKinds
 <2>9. memFile[k.todo[1].name] # MemTorn BY <1>1, <1>2, <2>2, <2>4, <2>6 DEF MemWhole
 <2>10. memJob[s].step # "fill" /\ k.step # "fill" BY <1>2, <2>6
 <2> QED BY <1>2, <1>3, <1>5, <2>5, <2>8, <2>9, <2>10, MemJobStep
<1>7. CASE Head(todo).op # "bury"
 <2> PICK k : k = MemDone(s) OBVIOUS
 <2>1. MemJobOk(view, k) /\ k.step = "idle" BY <1>1, <1>4, MemEnds
 <2>2. memJob[s].step # "fill" /\ k.step # "fill" BY <1>2, <2>1
 <2>3. memJob' = [memJob EXCEPT ![s] = k] BY <1>2, <1>7
 <2> QED BY <1>2, <1>3, <1>5, <2>1, <2>2, <2>3, MemJobStep
<1> QED BY <1>6, <1>7

\* writeEntry empties the file: a body that is new is the newest, and any other is the file's
\* own.
LEMMA MemOpenFileStep ==
  ASSUME MemInv, NEW s, MemSessions = {s}, MemOpenFile(s)
  PROVE MemInv'
<1> PICK view, j : view = MemView(memFile, memLost, memJob[s]) /\ j = memJob[s] OBVIOUS
<1> PICK todo : todo = j.todo OBVIOUS
<1> PICK t, e : t = Head(todo) /\ e = j.entry OBVIOUS
<1> PICK n : n = t.name OBVIOUS
<1> PICK k : k = [j EXCEPT !.step = "fill"] OBVIOUS
<1> PICK now : now = MemView(memFile', memLost, k) OBVIOUS
<1>1.
  /\ MemShapes /\ MemJobOk(view, j) /\ MemCacheOk(view, j, memCache[s])
  /\ MemKept(view, memLost, memTombs, memNewest)
  /\ memCache = [memCache EXCEPT ![s] = memCache[s]]
  BY MemNow
<1>2.
  /\ j.step = "file" /\ memFile' = [memFile EXCEPT ![n] = MemTorn]
  /\ memNewest' = [memNewest EXCEPT ![n] = IF t.op = "write" THEN e.body ELSE memNewest[n]]
  /\ memJob' = [memJob EXCEPT ![s] = k]
  /\ UNCHANGED <<memRows, memTombs, memCache, memLost>>
  BY DEF MemOpenFile, MemSet
<1>3.
  /\ todo # <<>> /\ t.op \in MemKinds /\ MemIsEntry(e)
  /\ t = todo[1] /\ 1 \in 1 .. Len(todo) /\ n \in MemNames
  /\ t.op # "write" => MemSame(view, n, e)
 <2>1. j.todo # <<>> /\ j.todo[1].op \in MemKinds /\ MemIsEntry(e) BY <1>1, <1>2 DEF MemJobOk
 <2>2. t = j.todo[1] /\ 1 \in 1 .. Len(j.todo) /\ j.todo[1].name \in MemNames
   BY <1>1, <2>1, MemHead
 <2>3. t.op # "write" => MemSame(view, n, e) BY <1>1, <1>2, <2>2 DEF MemJobOk
 <2> QED BY <2>1, <2>2, <2>3
<1>4.
  /\ k = [step |-> k.step, todo |-> k.todo, entry |-> k.entry, rows |-> k.rows]
  /\ k.step = "fill" /\ k.todo = todo /\ k.rows = j.rows /\ k.entry = e
 <2>1. k = [step |-> "fill", todo |-> todo, entry |-> j.entry, rows |-> j.rows]
   BY <1>1 DEF MemJobOk
 <2> QED BY <2>1
<1>5.
  /\ MemFilesOk(memFile')
  /\ \A m \in MemNames : m # n => memFile'[m] = memFile[m]
  BY <1>1, <1>2, <1>3 DEF MemShapes, MemFilesOk
<1>6.
  /\ memNewest' = [m \in MemNames |-> memNewest'[m]]
  /\ memNewest'[n] = IF t.op = "write" THEN e.body ELSE memNewest[n]
  /\ \A m \in MemNames : m # n => memNewest'[m] = memNewest[m]
  BY <1>1, <1>2, <1>3 DEF MemShapes
<1>7.
  /\ view = [m \in MemNames |-> view[m]] /\ now = [m \in MemNames |-> now[m]]
  /\ \A m \in MemNames : m # n => now[m] = view[m]
  /\ now[n] = IF n \in memLost THEN MemTorn ELSE e
  /\ n \in memLost => view[n] = MemTorn
 <2>1. view = [m \in MemNames |-> view[m]] /\ now = [m \in MemNames |-> now[m]] BY MemViewIs
 <2>2. ASSUME NEW m \in MemNames, m # n
   PROVE now[m] = view[m]
  <3>1. Head(k.todo).name = n /\ j.step # "fill" /\ memFile'[m] = memFile[m]
    BY <1>2, <1>4, <1>5, <2>2
  <3>2. CASE m \in memLost BY <3>2, MemViewIs
  <3>3. CASE m \notin memLost
   <4>1. view[m] = memFile[m] BY <3>1, <3>3, MemViewIs
   <4>2. now[m] = memFile'[m] BY <2>2, <3>1, <3>3 DEF MemView
   <4> QED BY <3>1, <4>1, <4>2
  <3> QED BY <3>2, <3>3
 <2>3. (n \in memLost => view[n] = MemTorn) /\ now[n] = IF n \in memLost THEN MemTorn ELSE e
   BY <1>3, <1>4, MemViewIs
 <2> QED BY <2>1, <2>2, <2>3
<1>8. n \notin memLost => view[n] # MemTorn BY <1>1, <1>3 DEF MemKept
<1>9. now = [view EXCEPT ![n] = IF view[n] = MemTorn THEN MemTorn ELSE e] BY <1>3, <1>7, <1>8
<1>10. t.op # "write" => \A m \in MemNames : \A x : MemSame(view, m, x) => MemSame(now, m, x)
  BY <1>3, <1>7, <1>9, MemSameStays
<1>11. MemTodoOk(now, todo)
 <2>1. CASE t.op = "write"
  <3>1. Len(todo) = 1 BY <1>1, <1>3, <2>1 DEF MemJobOk, MemTodoOk, MemAlone
  <3>2. \A i \in 1 .. Len(todo) : todo[i].op = "write" BY <1>3, <2>1, <3>1
  <3> QED BY <1>1, <3>1, <3>2 DEF MemJobOk, MemTodoOk
 <2>2. CASE t.op # "write"
  <3>1. MemTodoOk(view, todo) BY <1>1 DEF MemJobOk
  <3> QED BY <1>10, <2>2, <3>1, MemTodoLess
 <2> QED BY <2>1, <2>2
<1>12. MemJobOk(now, k)
 <2>1. (\A i \in 1 .. Len(todo) : i # 1 => todo[i].op \in MemOps) /\ j.rows \subseteq MemNames
   BY <1>1 DEF MemJobOk
 <2> QED BY <1>3, <1>4, <1>11, <2>1 DEF MemJobOk, MemSteps
<1>13. MemCacheOk(now, k, memCache[s])
 <2> PICK c : c = memCache[s] OBVIOUS
 <2>1. ASSUME c # MemAbsent
   PROVE k.todo[1].op # "drop" /\ MemListOk(MemSeen(now, k), c)
  <3>1. k.todo[1].op # "drop" /\ MemListOk(view, c)
    BY <1>1, <1>2, <1>4, <2>1 DEF MemCacheOk, MemSeen, MemWriting
  <3>2. CASE t.op = "write"
   <4>1. MemSeen(now, k) = [now EXCEPT ![n] = MemTorn]
     BY <1>3, <1>4, <3>2 DEF MemSeen, MemWriting
   <4>2. [now EXCEPT ![n] = MemTorn] = [view EXCEPT ![n] = MemTorn] BY <1>3, <1>7
   <4>3. MemListOk([view EXCEPT ![n] = MemTorn], c) BY <1>7, <3>1, MemLess
   <4> QED BY <3>1, <4>1, <4>2, <4>3
  <3>3. CASE t.op # "write"
   <4>1. MemSeen(now, k) = now BY <1>3, <1>4, <3>3 DEF MemSeen, MemWriting
   <4>2. MemListOk(now, c) BY <1>10, <3>1, <3>3 DEF MemListOk
   <4> QED BY <3>1, <4>1, <4>2
  <3> QED BY <3>2, <3>3
 <2> QED BY <2>1 DEF MemCacheOk
<1>14. MemKept(now, memLost, memTombs, memNewest')
 <2>1. ASSUME NEW m \in MemNames \ memLost
   PROVE
     /\ now[m] # MemTorn
     /\ memNewest'[m] # 0 =>
          \/ now[m].body = memNewest'[m]
          \/ \E x \in memTombs : x.name = m /\ x.entry.body = memNewest'[m]
  <3>1.
    /\ view[m] # MemTorn
    /\ memNewest[m] # 0 => \/ view[m].body = memNewest[m]
                           \/ \E x \in memTombs : x.name = m /\ x.entry.body = memNewest[m]
    BY <1>1, <2>1 DEF MemKept
  <3>2. CASE m = n
   <4>1. now[m] = e /\ e # MemTorn BY <1>3, <1>7, <2>1, <3>2, MemEntryIsThere
   <4>2. CASE t.op = "write" BY <1>6, <3>2, <4>1, <4>2
   <4>3. CASE t.op # "write"
    <5>1. e.body = view[m].body BY <1>3, <3>1, <3>2, <4>3 DEF MemSame
    <5> QED BY <1>6, <3>1, <3>2, <4>1, <4>3, <5>1
   <4> QED BY <4>2, <4>3
  <3>3. CASE m # n BY <1>6, <1>7, <3>1, <3>3
  <3> QED BY <3>2, <3>3
 <2> QED BY <2>1 DEF MemKept
<1>15. MemWhole(memFile', memNewest', k) BY <1>3, <1>4, <1>6 DEF MemWhole
<1>16. MemSound(now, memLost', memFile', memTombs', memNewest', k, memCache[s])
  BY <1>2, <1>12, <1>13, <1>14, <1>15 DEF MemSound
<1>17. MemMoves(s, k, memCache[s], now) BY <1>1, <1>2, <1>5, <1>6, <1>16 DEF MemMoves, MemShapes
<1> QED BY <1>17, MemMove

\* and fills it.
LEMMA MemFillFileStep ==
  ASSUME MemInv, NEW s, MemSessions = {s}, MemFillFile(s)
  PROVE MemInv'
<1> PICK view, j : view = MemView(memFile, memLost, memJob[s]) /\ j = memJob[s] OBVIOUS
<1> PICK todo : todo = j.todo OBVIOUS
<1> PICK t, e : t = Head(todo) /\ e = j.entry OBVIOUS
<1> PICK n : n = t.name OBVIOUS
<1> PICK k : k = [j EXCEPT !.step = "index", !.entry = MemAbsent] OBVIOUS
<1> PICK now : now = MemView(memFile', memLost', k) OBVIOUS
<1>1.
  /\ MemShapes /\ MemJobOk(view, j) /\ MemCacheOk(view, j, memCache[s])
  /\ MemKept(view, memLost, memTombs, memNewest) /\ MemWhole(memFile, memNewest, j)
  /\ memCache = [memCache EXCEPT ![s] = memCache[s]]
  BY MemNow
<1>2.
  /\ j.step = "fill" /\ memFile' = [memFile EXCEPT ![n] = e]
  /\ memLost' = IF t.op = "write" THEN memLost \ {n} ELSE memLost
  /\ memJob' = [memJob EXCEPT ![s] = k]
  /\ UNCHANGED <<memRows, memTombs, memCache, memNewest>>
  BY DEF MemFillFile, MemSet
<1>3.
  /\ todo # <<>> /\ t.op \in MemKinds /\ MemIsEntry(e)
  /\ t = todo[1] /\ 1 \in 1 .. Len(todo) /\ n \in MemNames
 <2>1. j.todo # <<>> /\ j.todo[1].op \in MemKinds /\ MemIsEntry(e) BY <1>1, <1>2 DEF MemJobOk
 <2>2. t = j.todo[1] /\ 1 \in 1 .. Len(j.todo) /\ j.todo[1].name \in MemNames
   BY <1>1, <2>1, MemHead
 <2> QED BY <2>1, <2>2
<1>4.
  /\ k = [step |-> "index", todo |-> j.todo, entry |-> k.entry, rows |-> k.rows]
  /\ k.rows = j.rows /\ k.todo = todo /\ k.step = "index"
 <2>1. k = [step |-> "index", todo |-> todo, entry |-> MemAbsent, rows |-> j.rows]
   BY <1>1 DEF MemJobOk
 <2> QED BY <2>1
<1>5.
  /\ MemFilesOk(memFile') /\ memFile'[n] = e
  /\ \A m \in MemNames : m # n => memFile'[m] = memFile[m]
  BY <1>1, <1>2, <1>3 DEF MemShapes, MemFilesOk
<1>6.
  /\ view = [m \in MemNames |-> view[m]] /\ now = [m \in MemNames |-> now[m]]
  /\ \A m \in MemNames : m # n => now[m] = view[m]
  /\ n \notin memLost => now[n] = view[n] /\ view[n] = e
  /\ n \in memLost => view[n] = MemTorn
  /\ now[n] = IF n \in memLost' THEN MemTorn ELSE e
 <2>1. view = [m \in MemNames |-> view[m]] /\ now = [m \in MemNames |-> now[m]] BY MemViewIs
 <2>2. ASSUME NEW m \in MemNames, m # n
   PROVE now[m] = view[m]
  <3>1. m \in memLost' <=> m \in memLost BY <1>2, <2>2
  <3>2. k.step # "fill" /\ Head(j.todo).name = n /\ memFile'[m] = memFile[m] BY <1>4, <1>5, <2>2
  <3> QED BY <2>2, <3>1, <3>2 DEF MemView
 <2>3. now[n] = IF n \in memLost' THEN MemTorn ELSE e BY <1>3, <1>4, <1>5 DEF MemView
 <2>4. view[n] = IF n \in memLost THEN MemTorn ELSE e BY <1>2, <1>3 DEF MemView
 <2>5. n \notin memLost => n \notin memLost' BY <1>2
 <2> QED BY <2>1, <2>2, <2>3, <2>4, <2>5
<1>7. t.op # "write" => now = view
 <2> SUFFICES ASSUME t.op # "write" PROVE now = view OBVIOUS
 <2>1. memLost' = memLost BY <1>2
 <2>2. now[n] = view[n] BY <1>6, <2>1
 <2>3. \A m \in MemNames : now[m] = view[m] BY <1>6, <2>2
 <2> QED BY <1>6, <2>3
<1>8. MemTodoOk(now, todo)
 <2>1. CASE t.op = "write"
  <3>1. Len(todo) = 1 BY <1>1, <1>3, <2>1 DEF MemJobOk, MemTodoOk, MemAlone
  <3>2. \A i \in 1 .. Len(todo) : todo[i].op = "write" BY <1>3, <2>1, <3>1
  <3> QED BY <1>1, <3>1, <3>2 DEF MemJobOk, MemTodoOk
 <2>2. CASE t.op # "write" BY <1>1, <1>7, <2>2 DEF MemJobOk
 <2> QED BY <2>1, <2>2
<1>9. MemJobOk(now, k)
 <2>1.
   /\ \A i \in 1 .. Len(todo) : i # 1 => todo[i].op \in MemOps
   /\ j.rows \subseteq MemNames
   BY <1>1 DEF MemJobOk
 <2>2. k = [step |-> k.step, todo |-> k.todo, entry |-> k.entry, rows |-> k.rows] BY <1>4
 <2> QED BY <1>3, <1>4, <1>8, <2>1, <2>2 DEF MemJobOk, MemSteps
<1>10. MemCacheOk(now, k, memCache[s])
 <2>1. CASE t.op = "write"
  <3>1. /\ MemSeen(now, k) = [now EXCEPT ![n] = MemTorn]
        /\ MemSeen(view, j) = [view EXCEPT ![n] = MemTorn]
    BY <1>2, <1>3, <1>4, <2>1 DEF MemSeen, MemWriting
  <3>2. [now EXCEPT ![n] = MemTorn] = [view EXCEPT ![n] = MemTorn] BY <1>3, <1>6
  <3> QED BY <1>1, <1>2, <1>3, <1>4, <2>1, <3>1, <3>2 DEF MemCacheOk
 <2>2. CASE t.op # "write"
  <3>1. MemSeen(now, k) = view /\ MemSeen(view, j) = view
    BY <1>2, <1>3, <1>4, <1>7, <2>2 DEF MemSeen, MemWriting
  <3> QED BY <1>1, <1>2, <1>3, <1>4, <3>1 DEF MemCacheOk
 <2> QED BY <2>1, <2>2
<1>11. MemKept(now, memLost', memTombs, memNewest)
 <2>1. ASSUME NEW m \in MemNames \ memLost'
   PROVE
     /\ now[m] # MemTorn
     /\ memNewest[m] # 0 =>
          \/ now[m].body = memNewest[m]
          \/ \E x \in memTombs : x.name = m /\ x.entry.body = memNewest[m]
  <3>1. CASE m \in memLost
   <4>1. t.op = "write" /\ m = n /\ now[m] = e BY <1>2, <1>6, <2>1, <3>1
   <4>2. memNewest[m] = e.body BY <1>1, <1>2, <1>3, <4>1 DEF MemWhole
   <4> QED BY <1>3, <4>1, <4>2, MemEntryIsThere
  <3>2. CASE m \notin memLost
   <4>1. now[m] = view[m] BY <1>6, <2>1, <3>2
   <4> QED BY <1>1, <2>1, <3>2, <4>1 DEF MemKept
  <3> QED BY <3>1, <3>2
 <2> QED BY <2>1 DEF MemKept
<1>12. MemWhole(memFile', memNewest, k)
 <2>1. memFile'[k.todo[1].name] = e BY <1>3, <1>4, <1>5
 <2> QED BY <1>3, <1>4, <2>1, MemEntryIsThere DEF MemWhole
<1>13. MemSound(now, memLost', memFile', memTombs', memNewest', k, memCache[s])
  BY <1>2, <1>9, <1>10, <1>11, <1>12 DEF MemSound
<1>14. MemMoves(s, k, memCache[s], now) BY <1>1, <1>2, <1>5, <1>13 DEF MemMoves, MemShapes
<1> QED BY <1>14, MemMove

\* What a write that is cut off leaves, when nothing more is to be done or the next task.
LEMMA MemCutOffStep ==
  ASSUME MemInv, NEW s, MemSessions = {s}, memJob[s].step # "idle", MemCutOff(s),
    NEW k, k = MemIdle \/ k = MemDone(s), memJob' = [memJob EXCEPT ![s] = k],
    NEW c,
    \/ c = MemAbsent
    \/ c = memCache[s] /\ (MemWriting(memJob[s]) => Head(memJob[s].todo).name \in memLost'),
    memCache' = [memCache EXCEPT ![s] = c],
    memLost' = memLost \/ memLost' = memLost \cup {Head(memJob[s].todo).name},
    memJob[s].step = "fill" => Head(memJob[s].todo).name \in memLost'
  PROVE MemInv'
<1> PICK view, j : view = MemView(memFile, memLost, memJob[s]) /\ j = memJob[s] OBVIOUS
<1> PICK n : n = Head(j.todo).name OBVIOUS
<1> PICK now : now = MemView(memFile', memLost', k) OBVIOUS
<1>1.
  /\ MemShapes /\ MemJobOk(view, j) /\ MemCacheOk(view, j, memCache[s])
  /\ MemKept(view, memLost, memTombs, memNewest)
  /\ memCache = [memCache EXCEPT ![s] = memCache[s]]
  BY MemNow
<1>2. j.todo # <<>> /\ Head(j.todo) = j.todo[1] /\ n \in MemNames
 <2>1. j.todo # <<>> BY <1>1 DEF MemJobOk
 <2> QED BY <1>1, <2>1, MemHead
<1>3.
  /\ memTombs' = memTombs /\ memNewest' = memNewest /\ memRows' \subseteq MemNames
  /\ j.step # "fill" => memFile' = memFile
  /\ j.step = "fill" => \E left \in {MemTorn, [j.entry EXCEPT !.body = 0]} :
                          memFile' = [memFile EXCEPT ![n] = left]
  BY <1>1 DEF MemCutOff, MemShapes, MemJobOk
<1>4. MemFilesOk(memFile') /\ \A m \in MemNames : m # n => memFile'[m] = memFile[m]
 <2>1. CASE j.step # "fill" BY <1>1, <1>3, <2>1 DEF MemShapes
 <2>2. CASE j.step = "fill"
  <3>1. PICK left \in {MemTorn, [j.entry EXCEPT !.body = 0]} :
          memFile' = [memFile EXCEPT ![n] = left]
    BY <1>3, <2>2
  <3>2. MemIsEntry(j.entry) BY <1>1, <2>2 DEF MemJobOk
  <3>3. left = MemTorn \/ MemIsEntry(left) BY <3>2 DEF MemIsEntry
  <3> QED BY <1>1, <1>2, <3>1, <3>3 DEF MemShapes, MemFilesOk
 <2> QED BY <2>1, <2>2
<1>5. k.step = "idle" BY DEF MemIdle, MemDone, MemToDo
<1>6.
  /\ view = [m \in MemNames |-> view[m]] /\ now = [m \in MemNames |-> now[m]]
  /\ \A m \in MemNames : m # n => now[m] = view[m]
  /\ now[n] = view[n] \/ now[n] = MemTorn
  /\ n \in memLost' => now[n] = MemTorn
  /\ n \notin memLost' => now[n] = view[n]
 <2>1. view = [m \in MemNames |-> view[m]] /\ now = [m \in MemNames |-> now[m]] BY MemViewIs
 <2>2. ASSUME NEW m \in MemNames, m # n
   PROVE now[m] = view[m]
  <3>1. m \in memLost' <=> m \in memLost BY <2>2
  <3>2. memFile'[m] = memFile[m] /\ Head(j.todo).name = n BY <1>4, <2>2
  <3> QED BY <1>5, <2>2, <3>1, <3>2 DEF MemView
 <2>3. n \in memLost' => now[n] = MemTorn BY <1>2 DEF MemView
 <2>4. n \notin memLost' => now[n] = view[n]
  <3> SUFFICES ASSUME n \notin memLost' PROVE now[n] = view[n] OBVIOUS
  <3>1. j.step # "fill" /\ memFile' = memFile /\ n \notin memLost BY <1>3
  <3> QED BY <1>2, <1>5, <3>1 DEF MemView
 <2> QED BY <2>1, <2>2, <2>3, <2>4
<1>7.
  /\ \A m \in MemNames : \A e : MemSame(view, m, e) => MemSame(now, m, e)
  /\ \A list : MemListOk(view, list) => MemListOk(now, list)
 <2>1. \A m \in MemNames : now[m] = MemTorn \/ now[m] = view[m] BY <1>6
 <2>2. \A m \in MemNames : \A e : MemSame(view, m, e) => MemSame(now, m, e) BY <2>1 DEF MemSame
 <2> QED BY <2>2 DEF MemListOk
<1>8. MemJobOk(view, k) /\ k.step = "idle" BY <1>1, <1>2, MemEnds
<1>9. MemJobOk(now, k)
 <2>1. MemTodoOk(now, k.todo) BY <1>7, <1>8, MemTodoLess DEF MemJobOk
 <2> QED BY <1>8, <2>1 DEF MemJobOk
<1>10. MemCacheOk(now, k, c)
 <2> SUFFICES ASSUME c # MemAbsent PROVE MemListOk(MemSeen(now, k), c) BY <1>8 DEF MemCacheOk
 <2>1. MemSeen(now, k) = now BY <1>8 DEF MemSeen, MemWriting
 <2>2. MemListOk(MemSeen(view, j), c) BY <1>1 DEF MemCacheOk
 <2>3. CASE MemWriting(j)
  <3>1. now = [view EXCEPT ![n] = MemTorn] BY <1>2, <1>6, <2>3
  <3>2. MemSeen(view, j) = [view EXCEPT ![n] = MemTorn] BY <1>2, <2>3 DEF MemSeen
  <3> QED BY <2>1, <2>2, <3>1, <3>2
 <2>4. CASE ~ MemWriting(j) BY <1>7, <2>1, <2>2, <2>4 DEF MemSeen
 <2> QED BY <2>3, <2>4
<1>11. MemKept(now, memLost', memTombs, memNewest)
 <2>1. \A m \in MemNames \ memLost' : m \notin memLost /\ now[m] = view[m] BY <1>6
 <2> QED BY <1>1, <2>1 DEF MemKept
<1>12. MemWhole(memFile', memNewest, k) BY <1>8 DEF MemWhole
<1>13. MemSound(now, memLost', memFile', memTombs', memNewest', k, c)
  BY <1>3, <1>9, <1>10, <1>11, <1>12 DEF MemSound
<1>14. MemMoves(s, k, c, now) BY <1>1, <1>3, <1>4, <1>13 DEF MemMoves, MemShapes
<1> QED BY <1>14, MemMove

LEMMA MemFailStep ==
  ASSUME MemInv, NEW s, MemSessions = {s}, MemFail(s)
  PROVE MemInv'
<1> PICK j : j = memJob[s] OBVIOUS
<1>1. j.step # "idle" /\ MemCutOff(s) /\ memCache' = memCache BY DEF MemFail
<1>2. Head(j.todo) = j.todo[1]
 <2>1. MemJobOk(MemView(memFile, memLost, memJob[s]), j) BY MemNow
 <2>2. j.todo # <<>> BY <1>1, <2>1 DEF MemJobOk
 <2> QED BY <2>1, <2>2, MemHead
<1>3. PICK k : (k = MemIdle \/ k = MemDone(s)) /\ memJob' = [memJob EXCEPT ![s] = k]
  BY DEF MemFail, MemSet
<1>4.
  memLost' = IF \/ j.step = "fill"
                \/ j.step \in {"index", "rows"} /\ j.todo[1].op = "write"
             THEN memLost \cup {j.todo[1].name} ELSE memLost
  BY DEF MemFail
<1>5. memCache' = [memCache EXCEPT ![s] = memCache[s]] BY <1>1, MemNow
<1>6. MemWriting(j) => Head(j.todo).name \in memLost' BY <1>2, <1>4 DEF MemWriting
<1>7.
  /\ memLost' = memLost \/ memLost' = memLost \cup {Head(j.todo).name}
  /\ j.step = "fill" => Head(j.todo).name \in memLost'
  BY <1>2, <1>4
<1> QED BY <1>1, <1>3, <1>5, <1>6, <1>7, MemCutOffStep

LEMMA MemCrashStep ==
  ASSUME MemInv, NEW s, MemSessions = {s}, MemCrash(s)
  PROVE MemInv'
<1> PICK view, j : view = MemView(memFile, memLost, memJob[s]) /\ j = memJob[s] OBVIOUS
<1>1.
  /\ MemCutOff(s) /\ memJob' = [memJob EXCEPT ![s] = MemIdle]
  /\ memCache' = [memCache EXCEPT ![s] = MemAbsent]
  /\ memLost' = IF j.step = "fill" THEN memLost \cup {Head(j.todo).name} ELSE memLost
  BY DEF MemCrash, MemSet
<1>2. CASE j.step # "idle"
 <2>1.
   /\ memLost' = memLost \/ memLost' = memLost \cup {Head(j.todo).name}
   /\ j.step = "fill" => Head(j.todo).name \in memLost'
   BY <1>1
 <2> PICK k, c : k = MemIdle /\ c = MemAbsent OBVIOUS
 <2>2. memJob' = [memJob EXCEPT ![s] = k] /\ memCache' = [memCache EXCEPT ![s] = c] BY <1>1
 <2>3. k = MemIdle \/ k = MemDone(s) OBVIOUS
 <2>4.
   \/ c = MemAbsent
   \/ c = memCache[s] /\ (MemWriting(memJob[s]) => Head(memJob[s].todo).name \in memLost')
   OBVIOUS
 <2>5. memJob[s].step # "idle" /\ MemCutOff(s) BY <1>1, <1>2
 <2> QED BY <2>1, <2>2, <2>3, <2>4, <2>5, MemCutOffStep
<1>3. CASE j.step = "idle"
 <2>1. /\ UNCHANGED <<memFile, memTombs, memNewest, memLost>> /\ memRows' \subseteq MemNames
  <3>1. MemShapes BY MemNow
  <3> QED BY <1>1, <1>3, <3>1 DEF MemCutOff, MemShapes
 <2>2. MemJobOk(view, MemIdle) /\ MemCacheOk(view, MemIdle, MemAbsent) /\ MemIdle.step = "idle"
   BY MemIdleOk DEF MemCacheOk, MemIdle, MemToDo
 <2> QED BY <1>1, <1>3, <2>1, <2>2, MemJobStep
<1> QED BY <1>2, <1>3

\* recoverFromTombstones: what is dug up goes to a name that has no file, or one is lost.
LEMMA MemDigStep ==
  ASSUME MemInv, NEW s, MemSessions = {s}, MemDig(s)
  PROVE MemInv'
<1> PICK view, j : view = MemView(memFile, memLost, memJob[s]) /\ j = memJob[s] OBVIOUS
<1> PICK todo : todo = j.todo OBVIOUS
<1> PICK t : t = Head(todo) OBVIOUS
<1>1.
  /\ MemShapes /\ MemJobOk(view, j) /\ MemCacheOk(view, j, memCache[s])
  /\ MemKept(view, memLost, memTombs, memNewest)
  /\ memCache = [memCache EXCEPT ![s] = memCache[s]]
  BY MemNow
<1>2.
  /\ j.step = "idle" /\ todo # <<>> /\ t.op = "restore" /\ ~ MemLive(t.name)
  /\ UNCHANGED <<memRows, memCache, memNewest>>
  BY DEF MemDig
<1>3.
  PICK f \in MemFindable(t.name) :
    /\ memTombs' = memTombs \ {f} /\ memFile' = [memFile EXCEPT ![f.name] = f.entry]
    /\ memLost' = IF f.name # t.name /\ MemExists(f.name) THEN memLost \cup {f.name} ELSE memLost
    /\ memJob' = [memJob EXCEPT ![s] = IF f.entry = MemTorn THEN MemIdle
                                       ELSE [j EXCEPT !.todo[1].name = f.name]]
  BY DEF MemDig, MemSet
<1> PICK n, e : n = f.name /\ e = f.entry OBVIOUS
<1> PICK r : r = [t EXCEPT !.name = n] OBVIOUS
<1> PICK new : new = [todo EXCEPT ![1] = r] OBVIOUS
<1> PICK k : k = [j EXCEPT !.todo = new] OBVIOUS
<1> PICK now : now = MemView(memFile', memLost', k) OBVIOUS
<1>4. f \in memTombs /\ n \in MemNames /\ MemIsEntry(e)
  BY <1>1 DEF MemFindable, MemShapes, MemIsTomb
<1>5. /\ t = todo[1] /\ 1 \in 1 .. Len(todo) /\ t.name \in MemNames /\ Len(todo) = 1
 <2>1. t = j.todo[1] /\ 1 \in 1 .. Len(j.todo) /\ j.todo[1].name \in MemNames
   BY <1>1, <1>2, MemHead
 <2>2. Len(j.todo) = 1 BY <1>1, <1>2, <2>1 DEF MemJobOk, MemTodoOk, MemAlone
 <2> QED BY <2>1, <2>2
<1>6. n \notin memLost' => n \notin memLost /\ memFile[n] \in {MemAbsent, MemTorn}
 <2>1. CASE n = t.name BY <1>2, <1>3, <2>1 DEF MemLive
 <2>2. CASE n # t.name BY <1>3, <2>2 DEF MemExists
 <2> QED BY <2>1, <2>2
<1>7.
  /\ MemFilesOk(memFile') /\ memFile'[n] = e
  /\ \A m \in MemNames : m # n => memFile'[m] = memFile[m]
  BY <1>1, <1>3, <1>4 DEF MemShapes, MemFilesOk
<1>8. PICK E : todo \in Seq(MemTaskSet(E)) BY <1>1 DEF MemJobOk, MemTodoOk
<1>9. r \in MemTaskSet(E) /\ r.op = "restore"
 <2>1. t \in MemTaskSet(E) BY <1>5, <1>8, ElementOfSeq
 <2>2.
   PICK o \in MemOps \cup MemKinds, m \in MemNames, x \in E :
     t = [op |-> o, name |-> m, entry |-> x]
   BY <2>1 DEF MemTaskSet
 <2>3. r = [op |-> o, name |-> n, entry |-> x] BY <2>2
 <2> QED BY <1>2, <1>4, <2>2, <2>3 DEF MemTaskSet
<1>10. /\ new \in Seq(MemTaskSet(E)) /\ Len(new) = 1 /\ new # <<>> /\ new[1] = r
  BY <1>2, <1>5, <1>8, <1>9, MemReplaced
<1>11. memJob' = [memJob EXCEPT ![s] = k]
 <2>1. [j EXCEPT !.todo[1].name = n] = k BY <1>5
 <2>2. e # MemTorn BY <1>4, MemEntryIsThere
 <2> QED BY <1>3, <2>1, <2>2
<1>12.
  /\ k = [step |-> k.step, todo |-> k.todo, entry |-> k.entry, rows |-> k.rows]
  /\ k.step = "idle" /\ k.todo = new /\ k.rows = j.rows
 <2>1. k = [step |-> "idle", todo |-> new, entry |-> j.entry, rows |-> j.rows]
   BY <1>1, <1>2 DEF MemJobOk
 <2> QED BY <2>1
<1>13.
  /\ view = [m \in MemNames |-> view[m]] /\ now = [m \in MemNames |-> now[m]]
  /\ \A m \in MemNames : m # n => now[m] = view[m]
  /\ n \in memLost' => now[n] = MemTorn
  /\ n \notin memLost' => now[n] = e /\ view[n] = MemAbsent
 <2>1. view = [m \in MemNames |-> view[m]] /\ now = [m \in MemNames |-> now[m]] BY MemViewIs
 <2>2. ASSUME NEW m \in MemNames, m # n
   PROVE now[m] = view[m]
  <3>1. (m \in memLost' <=> m \in memLost) /\ memFile'[m] = memFile[m] BY <1>3, <1>7, <2>2
  <3> QED BY <1>2, <1>12, <3>1 DEF MemView
 <2>3. n \in memLost' => now[n] = MemTorn BY <1>4 DEF MemView
 <2>4. ASSUME n \notin memLost'
   PROVE now[n] = e /\ view[n] = MemAbsent
  <3>1. now[n] = e BY <1>4, <1>7, <1>12, <2>4 DEF MemView
  <3>2. view[n] = memFile[n] BY <1>2, <1>4, <1>6, <2>4 DEF MemView
  <3>3. view[n] # MemTorn BY <1>1, <1>4, <1>6, <2>4 DEF MemKept
  <3> QED BY <1>6, <2>4, <3>1, <3>2, <3>3
 <2> QED BY <2>1, <2>2, <2>3, <2>4
<1>14. MemJobOk(now, k)
 <2>1. \A i \in 1 .. Len(new) : new[i].op = "restore" BY <1>9, <1>10
 <2>2. MemTodoOk(now, new) BY <1>10, <2>1 DEF MemTodoOk
 <2>3. j.rows \subseteq MemNames BY <1>1 DEF MemJobOk
 <2> QED BY <1>12, <2>1, <2>2, <2>3 DEF MemJobOk, MemSteps, MemOps
<1>15. MemCacheOk(now, k, memCache[s])
 <2>1. MemSeen(now, k) = now /\ MemSeen(view, j) = view BY <1>2, <1>12 DEF MemSeen, MemWriting
 <2>2. ASSUME NEW m \in MemNames, NEW x, MemSame(view, m, x)
   PROVE MemSame(now, m, x)
  <3>1. CASE m # n BY <1>13, <2>2, <3>1 DEF MemSame
  <3>2. CASE m = n
   <4>1. view[n] = MemTorn \/ view[n] # MemAbsent BY <2>2, <3>2 DEF MemSame
   <4>2. n \in memLost' BY <1>13, <4>1, MemTwoMarks, <2>2, <3>2 DEF MemSame
   <4> QED BY <1>13, <2>2, <3>2, <4>2 DEF MemSame
  <3> QED BY <3>1, <3>2
 <2>3. memCache[s] # MemAbsent => MemListOk(now, memCache[s])
   BY <1>1, <2>1, <2>2 DEF MemCacheOk, MemListOk
 <2> QED BY <1>12, <2>1, <2>3 DEF MemCacheOk
<1>16. MemKept(now, memLost', memTombs', memNewest)
 <2>1. ASSUME NEW m \in MemNames \ memLost'
   PROVE
     /\ now[m] # MemTorn
     /\ memNewest[m] # 0 =>
          \/ now[m].body = memNewest[m]
          \/ \E x \in memTombs \ {f} : x.name = m /\ x.entry.body = memNewest[m]
  <3>1. m \notin memLost BY <1>3, <2>1
  <3>2.
    /\ view[m] # MemTorn
    /\ memNewest[m] # 0 => \/ view[m].body = memNewest[m]
                           \/ \E x \in memTombs : x.name = m /\ x.entry.body = memNewest[m]
    BY <1>1, <2>1, <3>1 DEF MemKept
  <3>3. CASE m = n
   <4>1. now[m] = e /\ view[m].body = 0 /\ e # MemTorn
     BY <1>4, <1>13, <2>1, <3>3, MemTwoMarks, MemEntryIsThere
   <4> QED BY <3>2, <3>3, <4>1
  <3>4. CASE m # n BY <1>13, <2>1, <3>2, <3>4
  <3> QED BY <3>3, <3>4
 <2> QED BY <1>3, <2>1 DEF MemKept
<1>17. IsFiniteSet(memTombs') /\ \A x \in memTombs' : MemIsTomb(x)
  BY <1>1, <1>3, FS_RemoveElement DEF MemShapes
<1>18. MemWhole(memFile', memNewest, k) BY <1>12 DEF MemWhole
<1>19. MemSound(now, memLost', memFile', memTombs', memNewest', k, memCache[s])
  BY <1>2, <1>14, <1>15, <1>16, <1>18 DEF MemSound
<1>20. MemMoves(s, k, memCache[s], now)
  BY <1>1, <1>2, <1>7, <1>11, <1>17, <1>19 DEF MemMoves, MemShapes
<1> QED BY <1>20, MemMove

\* decayTombstone: the file moves to a number that was free.
LEMMA MemBuryStep ==
  ASSUME MemInv, NEW s, MemSessions = {s}, MemBury(s)
  PROVE MemInv'
<1> PICK view, j : view = MemView(memFile, memLost, memJob[s]) /\ j = memJob[s] OBVIOUS
<1> PICK n : n = Head(j.todo).name OBVIOUS
<1> PICK num : num = MemFree(n) OBVIOUS
<1> PICK tomb : tomb = [name |-> n, num |-> num, entry |-> memFile[n]] OBVIOUS
<1> PICK k : k = [j EXCEPT !.step = "unlink"] OBVIOUS
<1> PICK now : now = MemView(memFile', memLost', k) OBVIOUS
<1>1.
  /\ MemShapes /\ MemJobOk(view, j) /\ MemCacheOk(view, j, memCache[s])
  /\ MemWhole(memFile, memNewest, j) /\ MemKept(view, memLost, memTombs, memNewest)
  /\ memCache = [memCache EXCEPT ![s] = memCache[s]]
  BY MemNow
<1>2.
  /\ j.step = "bury" /\ memJob' = [memJob EXCEPT ![s] = k]
  /\ UNCHANGED <<memRows, memCache, memNewest, memLost>>
  BY DEF MemBury, MemSet
<1>3.
  /\ j.todo # <<>> /\ j.todo[1].op = "drop" /\ Len(j.todo) = 1
  /\ n = j.todo[1].name /\ n \in MemNames
 <2>1. j.todo # <<>> /\ j.todo[1].op = "drop" BY <1>1, <1>2 DEF MemJobOk
 <2>2. Head(j.todo) = j.todo[1] /\ 1 \in 1 .. Len(j.todo) /\ j.todo[1].name \in MemNames
   BY <1>1, <2>1, MemHead
 <2>3. Len(j.todo) = 1 BY <1>1, <2>1, <2>2 DEF MemJobOk, MemTodoOk, MemAlone
 <2> QED BY <2>1, <2>2, <2>3
<1>4. memFile[n] = MemAbsent \/ MemIsEntry(memFile[n])
  BY <1>1, <1>2, <1>3 DEF MemShapes, MemFilesOk, MemWhole
<1>5.
  /\ MemFilesOk(memFile') /\ memFile'[n] = MemAbsent
  /\ \A m \in MemNames : m # n => memFile'[m] = memFile[m]
  /\ memTombs' = IF MemExists(n) THEN memTombs \cup {tomb} ELSE memTombs
 <2>1. CASE MemExists(n)
  <3>1. memTombs' = {x \in memTombs : ~ (x.name = n /\ x.num = num)} \cup {tomb}
    BY <2>1 DEF MemBury
  <3>2. {x \in memTombs : ~ (x.name = n /\ x.num = num)} = memTombs BY <1>1, <1>3, MemFreeNumber
  <3>3. memFile' = [memFile EXCEPT ![n] = MemAbsent] BY <2>1 DEF MemBury
  <3> QED BY <1>1, <1>3, <2>1, <3>1, <3>2, <3>3 DEF MemShapes, MemFilesOk
 <2>2. CASE ~ MemExists(n)
  <3>1. memFile' = memFile /\ memTombs' = memTombs BY <2>2 DEF MemBury
  <3> QED BY <1>1, <1>3, <2>2, <3>1 DEF MemShapes, MemExists
 <2> QED BY <2>1, <2>2
<1>6. MemExists(n) => MemIsTomb(tomb) BY <1>3, <1>4 DEF MemExists, MemIsTomb
<1>7. IsFiniteSet(memTombs') /\ \A x \in memTombs' : MemIsTomb(x)
  BY <1>1, <1>5, <1>6, FS_AddElement DEF MemShapes
<1>8.
  /\ k = [step |-> k.step, todo |-> k.todo, entry |-> k.entry, rows |-> k.rows]
  /\ k.step = "unlink" /\ k.todo = j.todo /\ k.rows = j.rows
 <2>1. k = [step |-> "unlink", todo |-> j.todo, entry |-> j.entry, rows |-> j.rows]
   BY <1>1 DEF MemJobOk
 <2> QED BY <2>1
<1>9.
  /\ \A m \in MemNames : m # n => now[m] = view[m]
  /\ now[n] = IF n \in memLost THEN MemTorn ELSE MemAbsent
  /\ n \notin memLost => view[n] = memFile[n]
 <2>1. ASSUME NEW m \in MemNames, m # n
   PROVE now[m] = view[m]
   BY <1>2, <1>5, <1>8, <2>1 DEF MemView
 <2>2. now[n] = IF n \in memLost THEN MemTorn ELSE MemAbsent
   BY <1>2, <1>3, <1>5, <1>8 DEF MemView
 <2>3. n \notin memLost => view[n] = memFile[n] BY <1>2, <1>3 DEF MemView
 <2> QED BY <2>1, <2>2, <2>3
<1>10. MemJobOk(now, k)
 <2>1. \A i \in 1 .. Len(j.todo) : i = 1 /\ j.todo[i].op = "drop" BY <1>3
 <2>2. MemTodoOk(now, j.todo) BY <1>1, <1>3, <2>1 DEF MemJobOk, MemTodoOk
 <2>3. j.rows \subseteq MemNames BY <1>1 DEF MemJobOk
 <2> QED BY <1>3, <1>8, <1>9, <2>1, <2>2, <2>3 DEF MemJobOk, MemSteps, MemKinds
<1>11. MemCacheOk(now, k, memCache[s]) BY <1>1, <1>2, <1>3 DEF MemCacheOk
<1>12. MemKept(now, memLost, memTombs', memNewest)
 <2>1. ASSUME NEW m \in MemNames \ memLost
   PROVE
     /\ now[m] # MemTorn
     /\ memNewest[m] # 0 =>
          \/ now[m].body = memNewest[m]
          \/ \E x \in memTombs' : x.name = m /\ x.entry.body = memNewest[m]
  <3>1.
    /\ view[m] # MemTorn
    /\ memNewest[m] # 0 => \/ view[m].body = memNewest[m]
                           \/ \E x \in memTombs : x.name = m /\ x.entry.body = memNewest[m]
    BY <1>1, <2>1 DEF MemKept
  <3>2. CASE m = n
   <4>1. now[m] # MemTorn BY <1>9, <2>1, <3>2, MemTwoMarks
   <4>2. CASE MemExists(n)
    <5>1. tomb \in memTombs' /\ tomb.name = m /\ tomb.entry = view[m]
      BY <1>5, <1>9, <2>1, <3>2, <4>2
    <5>2. \A x \in memTombs : x \in memTombs' BY <1>5
    <5> QED BY <3>1, <4>1, <5>1, <5>2
   <4>3. CASE ~ MemExists(n)
    <5>1. view[m] = now[m] /\ memTombs' = memTombs BY <1>5, <1>9, <2>1, <3>2, <4>3 DEF MemExists
    <5> QED BY <3>1, <4>1, <5>1
   <4> QED BY <4>2, <4>3
  <3>3. CASE m # n
   <4>1. \A x \in memTombs : x \in memTombs' BY <1>5
   <4> QED BY <1>9, <2>1, <3>1, <3>3, <4>1
  <3> QED BY <3>2, <3>3
 <2> QED BY <2>1 DEF MemKept
<1>13. MemWhole(memFile', memNewest, k)
 <2>1. memFile'[k.todo[1].name] # MemTorn BY <1>3, <1>5, <1>8, MemTwoMarks
 <2> QED BY <1>8, <2>1 DEF MemWhole
<1>14. MemSound(now, memLost', memFile', memTombs', memNewest', k, memCache[s])
  BY <1>2, <1>10, <1>11, <1>12, <1>13 DEF MemSound
<1>15. MemMoves(s, k, memCache[s], now) BY <1>1, <1>2, <1>5, <1>7, <1>14 DEF MemMoves, MemShapes
<1> QED BY <1>15, MemMove

\* deleteEntry, after the file has moved: there is none to remove.
LEMMA MemUnlinkStep ==
  ASSUME MemInv, NEW s, MemSessions = {s}, MemUnlink(s)
  PROVE MemInv'
<1> PICK view, j : view = MemView(memFile, memLost, memJob[s]) /\ j = memJob[s] OBVIOUS
<1> PICK n : n = Head(j.todo).name OBVIOUS
<1> PICK k : k = IF ~ MemExists(n) /\ n \notin MemListed THEN MemDone(s)
                 ELSE [j EXCEPT !.step = "index", !.rows = MemListed \ {n}]
  OBVIOUS
<1>1.
  /\ MemShapes /\ MemJobOk(view, j) /\ MemCacheOk(view, j, memCache[s])
  /\ MemWhole(memFile, memNewest, j) /\ MemKept(view, memLost, memTombs, memNewest)
  /\ memCache = [memCache EXCEPT ![s] = memCache[s]]
  BY MemNow
<1>2.
  /\ j.step = "unlink" /\ memFile' = [memFile EXCEPT ![n] = MemAbsent]
  /\ memJob' = [memJob EXCEPT ![s] = k]
  /\ UNCHANGED <<memRows, memTombs, memCache, memNewest, memLost>>
  BY DEF MemUnlink, MemSet
<1>3.
  /\ j.todo # <<>> /\ j.todo[1].op = "drop" /\ n = j.todo[1].name /\ n \in MemNames
  /\ view[n] \in {MemAbsent, MemTorn}
 <2>1. j.todo # <<>> /\ j.todo[1].op = "drop" /\ view[j.todo[1].name] \in {MemAbsent, MemTorn}
   BY <1>1, <1>2 DEF MemJobOk
 <2>2. Head(j.todo) = j.todo[1] /\ j.todo[1].name \in MemNames BY <1>1, <2>1, MemHead
 <2> QED BY <2>1, <2>2
<1>4.
  /\ MemFilesOk(memFile') /\ memFile'[n] = MemAbsent
  /\ \A m \in MemNames : m # n => memFile'[m] = memFile[m]
  BY <1>1, <1>2, <1>3 DEF MemShapes, MemFilesOk
<1>5. memCache[s] = MemAbsent BY <1>1, <1>2, <1>3 DEF MemCacheOk
<1>6. MemJobOk(view, k) /\ k.step \in {"idle", "index"} /\ (k.step # "idle" => k.todo = j.todo)
 <2>1. CASE ~ MemExists(n) /\ n \notin MemListed
  <3>1. k = MemDone(s) BY <2>1
  <3> QED BY <1>1, <1>3, <3>1, MemEnds
 <2>2. CASE ~ (~ MemExists(n) /\ n \notin MemListed)
  <3>1. k = [step |-> "index", todo |-> j.todo, entry |-> j.entry, rows |-> MemListed \ {n}]
    BY <1>1, <2>2 DEF MemJobOk
  <3>2. /\ k = [step |-> "index", todo |-> j.todo, entry |-> k.entry, rows |-> k.rows]
        /\ k.step = "index" /\ k.todo = j.todo
    BY <3>1
  <3>3. k.rows \subseteq MemNames BY <1>1, <3>1, MemListedNames
  <3>4. "index" \in MemSteps \ {"idle", "file", "fill", "bury", "unlink"} /\ j.step # "idle"
    BY <1>2 DEF MemSteps
  <3>5. MemJobOk(view, k) BY <1>1, <3>2, <3>3, <3>4, MemGoesOn
  <3> QED BY <3>2, <3>5
 <2> QED BY <2>1, <2>2
<1>7. view = MemView(memFile', memLost', k)
 <2>1. ASSUME NEW m \in MemNames
   PROVE view[m] = IF m \in memLost THEN MemTorn ELSE memFile'[m]
  <3>1. view[m] = IF m \in memLost THEN MemTorn ELSE memFile[m] BY <1>2 DEF MemView
  <3>2. m = n /\ m \notin memLost => view[m] = MemAbsent BY <1>1, <1>3 DEF MemKept
  <3> QED BY <1>4, <3>1, <3>2
 <2>2. view = [m \in MemNames |-> view[m]] BY MemViewIs
 <2> QED BY <1>2, <1>6, <2>1, <2>2 DEF MemView
<1>8. MemWhole(memFile', memNewest, k)
 <2>1. k.step # "idle" => memFile'[k.todo[1].name] # MemTorn BY <1>3, <1>4, <1>6, MemTwoMarks
 <2> QED BY <1>6, <2>1 DEF MemWhole
<1>9. MemCacheOk(view, k, MemAbsent) BY DEF MemCacheOk
<1>10. MemSound(view, memLost', memFile', memTombs', memNewest', k, memCache[s])
  BY <1>1, <1>2, <1>5, <1>6, <1>7, <1>8, <1>9 DEF MemSound
<1>11. MemMoves(s, k, memCache[s], view) BY <1>1, <1>2, <1>4, <1>10 DEF MemMoves, MemShapes
<1> QED BY <1>11, MemMove

LEMMA MemInitHolds ==
  ASSUME NEW s, MemSessions = {s}, MemInit
  PROVE MemInv
<1> PICK view : view = MemView(memFile, memLost, MemIdle) OBVIOUS
<1>1. MemShapes BY FS_EmptySet DEF MemInit, MemShapes, MemFilesOk
<1>2. memJob[s] = MemIdle /\ memCache[s] = MemAbsent /\ MemIdle.step = "idle"
  BY DEF MemInit, MemIdle, MemToDo
<1>3. MemJobOk(view, MemIdle) BY MemIdleOk
<1>4. MemKept(view, memLost, memTombs, memNewest)
 <2>1. \A n \in MemNames : view[n] = MemAbsent /\ memNewest[n] = 0 BY <1>2 DEF MemInit, MemView
 <2> QED BY <2>1, MemTwoMarks DEF MemKept
<1>5. MemWhole(memFile, memNewest, MemIdle) /\ MemCacheOk(view, MemIdle, MemAbsent)
  BY <1>2 DEF MemWhole, MemCacheOk
<1>6. MemSound(view, memLost, memFile, memTombs, memNewest, memJob[s], memCache[s])
  BY <1>2, <1>3, <1>4, <1>5 DEF MemSound
<1> QED BY <1>1, <1>2, <1>6 DEF MemInv

\* What the cache, a promotion and a job between two writes say of a memory agrees with
\* its file, unless the memory is among those that were lost, whatever the process does
\* and wherever it dies or a write fails (memory-store.ts, tiering, decay).
THEOREM MemoryInvariant ==
  ASSUME NEW s, MemSessions = {s}
  PROVE MemSpec => []MemInv
<1>1. MemInit => MemInv BY MemInitHolds
<1>2. MemInv /\ [MemNext]_memVars => MemInv'
 <2> SUFFICES ASSUME MemInv, [MemNext]_memVars
   PROVE MemInv'
   OBVIOUS
 <2>1. CASE UNCHANGED memVars BY <2>1 DEF memVars, MemInv, MemShapes, MemFilesOk
 <2>2. CASE MemStep(s)
   BY <2>2, MemPrepareStep, MemSkipStep, MemDigStep, MemOpenFileStep, MemFillFileStep,
     MemOpenIndexStep, MemFillIndexStep, MemBuryStep, MemUnlinkStep, MemFailStep DEF MemStep
 <2>3. CASE MemNext /\ ~ MemStep(s) BY <2>3, MemOperations, MemCrashStep DEF MemNext
 <2> QED BY <2>1, <2>2, <2>3
<1> QED BY <1>1, <1>2, PTL DEF MemSpec

\* The newest body of a memory is in its file, among the tombstones or in the hands of the
\* write under way, in a directory that one process has open, unless a write of it was cut
\* off or a restore of another name moved a tombstone over it (the operations of src/memory
\* that write entries).
THEOREM NewestBodyStays ==
  ASSUME NEW s, MemSessions = {s}
  PROVE MemSpec => []NewestBodyKept
<1>1. MemInv => NewestBodyKept
 <2> SUFFICES ASSUME MemInv, NEW n \in MemNames, memNewest[n] > 0, n \notin memLost
   PROVE
     \/ memFile[n].body = memNewest[n]
     \/ \E t \in memTombs : t.name = n /\ t.entry.body = memNewest[n]
     \/ /\ memJob[s].step = "fill" /\ Head(memJob[s].todo).name = n
        /\ memJob[s].entry.body = memNewest[n]
   BY DEF NewestBodyKept
 <2> PICK view : view = MemView(memFile, memLost, memJob[s]) OBVIOUS
 <2>1.
   \/ view[n].body = memNewest[n]
   \/ \E t \in memTombs : t.name = n /\ t.entry.body = memNewest[n]
  <3>1. memNewest[n] # 0 OBVIOUS
  <3> QED BY <3>1, MemNow DEF MemKept
 <2>2.
   \/ view[n] = memFile[n]
   \/ /\ memJob[s].step = "fill" /\ Head(memJob[s].todo).name = n
      /\ view[n] = memJob[s].entry
   BY DEF MemView
 <2> QED BY <2>1, <2>2
<1> QED BY <1>1, MemoryInvariant, PTL
====
