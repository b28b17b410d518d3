-------------------------------- MODULE Verdicts --------------------------------
(***************************************************************************)
(* Is the work done?  The evaluator (plan-execute/evaluator.ts) says of    *)
(* the result of every task whether it succeeded, executePlan gives the    *)
(* task a status and a verification accordingly, and when the plan has     *)
(* been run four readers answer for the whole of it: the status of the     *)
(* plan run record (index.ts), the completion judge, the verification      *)
(* pack and the recovery advice (src/agent/reliability).                   *)
(*                                                                         *)
(* A result says something about itself in up to four places: in a record  *)
(* of its verification, in fields of its own, through what a hint of the   *)
(* task looks at, and in its texts.  Of a text only the patterns it        *)
(* matches are kept.  VdDoneSome and VdLatestFirst are versions of the     *)
(* definitions after them with a plausible fault.                          *)
(***************************************************************************)
EXTENDS Integers, Sequences

CONSTANTS
  VdMaxTasks,     \* bound: tasks of a plan
  VdMaxRetries    \* bound: retryBudget of a task, which only a library caller sets

VARIABLES
  vdTasks,    \* the tasks: status, verification, what they depend on
  vdSteps,    \* the steps executePlan recorded
  vdAt,       \* cursor; 0 once the run has stopped
  vdAnswers   \* what the four readers say of the run

vdVars == <<vdTasks, vdSteps, vdAt, vdAnswers>>

VdDone == {"completed", "verified"}                  \* TERMINAL_SUCCESS_STATUSES
VdFailing == {"failed", "blocked", "needs_user"}     \* FAILURE_STATUSES
VdNoAnswers == [known |-> FALSE]

VdPriors == {[status |-> "pending", verified |-> "none"]}
            \cup {[status |-> s, verified |-> "passed"] : s \in VdDone}
            \cup {[status |-> "verified", verified |-> "ambiguous"]}

\* A plan, some of whose tasks may have been done before a resume.
VdInit ==
  /\ \E n \in 1 .. VdMaxTasks : \E prior \in [1 .. n -> VdPriors] :
     \E needs \in {d \in [1 .. n -> SUBSET (1 .. n)] : \A i \in 1 .. n : d[i] \subseteq 1 .. (i - 1)} :
       vdTasks = [i \in 1 .. n |-> [status |-> prior[i].status, verified |-> prior[i].verified,
                                    needs |-> needs[i], retries |-> 0]]
  /\ vdSteps = <<>> /\ vdAt = 1 /\ vdAnswers = VdNoAnswers

-----------------------------------------------------------------------------
(* A result *)

VdSilent == [outcome |-> "none", success |-> "none", status |-> "none", isError |-> "none"]

\* The record of a verification, or the result's own fields: usually one of
\* them says it, but an outcome and a status may contradict each other.
VdRecords(outcomes, statuses) ==
  [outcome: outcomes \cup {"none"}, success: {"none"}, status: statuses \cup {"none"},
   isError: {"none"}]
  \cup [outcome: {"none"}, success: {"success", "failure"}, status: {"none"}, isError: {"none"}]
  \cup [outcome: {"none"}, success: {"none"}, status: {"none"}, isError: {"success", "failure"}]

VdOutcomes == {"success", "failure", "ambiguous"}
VdTexts == {"done", "so-so", "broken", "timeout", "offline", "denied"}

VdResult(verif, own, hint, texts) ==
  [verif |-> verif, own |-> own, hint |-> hint, texts |-> texts]

VdResults ==
  {VdResult(v, VdSilent, "none", <<"done">>) :
     v \in VdRecords({"success", "failure"}, {"success", "failure", "pending"})
           \cup VdRecords({"ambiguous"}, {}) \cup VdRecords({}, {"ambiguous"})}
  \cup {VdResult(VdSilent, o, "none", <<"broken">>) :
     o \in VdRecords(VdOutcomes, {})
           \cup VdRecords({}, {"success", "failure", "needs_user", "blocked"})}
  \cup {VdResult(VdSilent, VdSilent, h, <<"broken">>) : h \in {"met", "missed", "mute"}}
  \cup {VdResult(VdSilent, VdSilent, "none", t) :
     t \in {<<text>> : text \in VdTexts} \cup {<<>>, <<"so-so", "broken">>}}

-----------------------------------------------------------------------------
(* The evaluator *)

VdByText(text) ==
  IF text \in {"broken", "timeout", "offline", "denied"} THEN "failure"
  ELSE IF text = "done" THEN "success" ELSE "ambiguous"

\* Of the fields of a record: the first one that says something.
VdByRecord(rec) ==
  LET byStatus == IF rec.status \in VdOutcomes THEN rec.status ELSE "none" IN
  IF rec.outcome # "none" THEN rec.outcome
  ELSE IF rec.success # "none" THEN rec.success
  ELSE IF byStatus # "none" THEN byStatus
  ELSE rec.isError

VdVerdict(outcome, strategy, reason) ==
  [outcome |-> outcome, strategy |-> strategy, reason |-> reason]

\* An exit code or an assertion that finds nothing to look at says nothing.
VdByHint(hint) == IF hint = "met" THEN "success" ELSE "failure"

VdByTexts(texts) ==
  LET clear == {i \in DOMAIN texts : VdByText(texts[i]) # "ambiguous"} IN
  IF texts = <<>> THEN VdVerdict("failure", "structural", "plain")
  ELSE IF clear = {} THEN VdVerdict("ambiguous", "structural", "plain")
  ELSE LET first == CHOOSE i \in clear : \A j \in clear : i <= j
       IN VdVerdict(VdByText(texts[first]), "structural", texts[first])

VdEvaluate(result) ==
  IF VdByRecord(result.verif) # "none"
  THEN VdVerdict(VdByRecord(result.verif), "deterministic", "none")
  ELSE IF VdByRecord(result.own) # "none"
  THEN VdVerdict(VdByRecord(result.own), "deterministic", "none")
  ELSE IF result.hint \in {"met", "missed"}
  THEN VdVerdict(VdByHint(result.hint), "deterministic", "plain")
  ELSE VdByTexts(result.texts)

VdSucceeds(verdict) == verdict.outcome # "failure"

\* What the result says everywhere, if it is of one mind (for the properties).
VdSaid(result) ==
  LET fields(rec) == {rec.outcome, rec.success, rec.status, rec.isError}
      hinted == IF result.hint \in {"met", "missed"} THEN {VdByHint(result.hint)} ELSE {}
      texts == {VdByText(result.texts[i]) : i \in DOMAIN result.texts}
      all == (fields(result.verif) \cup fields(result.own) \cup hinted \cup texts)
             \ {"none", "pending"}
  IN IF all \subseteq {"failure"} THEN "failure"
     ELSE IF all = {"success"} THEN "success" ELSE "mixed"

-----------------------------------------------------------------------------
(* executePlan *)

\* inferFailureDisposition; a rate limit or a lost network blocks.
VdDisposition(result, verdict) ==
  LET texts == {result.texts[i] : i \in DOMAIN result.texts} \cup {verdict.reason} IN
  IF result.own.status = "needs_user" \/ "denied" \in texts THEN "needs_user"
  ELSE IF result.own.status = "blocked" \/ "offline" \in texts THEN "blocked"
  ELSE "failed"

\* classifySuccessfulTask
VdSuccessStatus(verdict) ==
  IF verdict.outcome = "success" /\ verdict.strategy = "deterministic" THEN "completed"
  ELSE "verified"

\* applyVerification: what the result says its verification's status is wins.
VdVerified(stated, verdict) ==
  CASE stated = "success" -> "passed"
    [] stated = "failure" -> "failed"
    [] stated \in {"ambiguous", "pending"} -> stated
    [] OTHER -> CASE verdict.outcome = "success" -> "passed"
                  [] verdict.outcome = "failure" -> "failed"
                  [] OTHER -> "ambiguous"

VdStep(id, status, verified, verdict, said) ==
  [id |-> id, status |-> status, verified |-> verified, outcome |-> verdict.outcome,
   reason |-> verdict.reason, said |-> said]

VdTask == vdTasks[vdAt]
VdGoOn == vdAt' = IF vdAt = Len(vdTasks) THEN 0 ELSE vdAt + 1
VdAtTask == vdAt # 0 /\ VdTask.status \notin VdDone

VdSkip ==
  /\ vdAt # 0 /\ VdTask.status \in VdDone
  /\ VdGoOn
  /\ UNCHANGED <<vdTasks, vdSteps, vdAnswers>>

VdMissing == {d \in VdTask.needs : vdTasks[d].status \notin VdDone}

\* createDependencyFailure; its wording reads like a permission problem when
\* the dependency is blocked.
VdBlock ==
  /\ VdAtTask /\ VdMissing # {}
  /\ LET first == CHOOSE d \in VdMissing : \A e \in VdMissing : d <= e
         verdict == VdVerdict("failure", "structural",
                              IF vdTasks[first].status = "blocked" THEN "denied" ELSE "plain")
     IN /\ vdTasks' = [vdTasks EXCEPT ![vdAt].status = "blocked", ![vdAt].verified = "failed"]
        /\ vdSteps' = Append(vdSteps, VdStep(vdAt, "blocked", "failed", verdict, "failure"))
  /\ VdGoOn
  /\ UNCHANGED vdAnswers

\* The task runs once.
VdRun ==
  /\ VdAtTask /\ VdMissing = {}
  /\ \E result \in VdResults :
       LET verdict == VdEvaluate(result)
           status == IF VdSucceeds(verdict) THEN VdSuccessStatus(verdict)
                     ELSE VdDisposition(result, verdict)
           verified == VdVerified(result.verif.status, verdict)
           again == status = "failed" /\ VdTask.retries < VdMaxRetries
       IN /\ vdSteps' = Append(vdSteps, VdStep(vdAt, status, verified, verdict, VdSaid(result)))
          /\ vdTasks' = [vdTasks EXCEPT
               ![vdAt].status = IF again THEN "pending" ELSE status,
               ![vdAt].verified = verified,
               ![vdAt].retries = IF again THEN @ + 1 ELSE @]
          /\ IF again THEN UNCHANGED vdAt
             ELSE IF status = "needs_user" THEN vdAt' = 0 ELSE VdGoOn
  /\ UNCHANGED vdAnswers

-----------------------------------------------------------------------------
(* The record of the run *)

VdHas(status) == \E i \in DOMAIN vdTasks : vdTasks[i].status = status
VdHasStep(outcome) == \E i \in DOMAIN vdSteps : vdSteps[i].outcome = outcome

\* As if one finished task were enough.
VdDoneSome(tasks) == \E i \in DOMAIN tasks : tasks[i].status \in VdDone
\* isPlanComplete
VdAllDone(tasks) == \A i \in DOMAIN tasks : tasks[i].status \in VdDone

\* derivePlanRunStatus
VdRecordStatus ==
  IF VdHas("needs_user") THEN "needs_user"
  ELSE IF VdHas("blocked") THEN "blocked"
  ELSE IF VdAllDone(vdTasks) THEN "completed"
  ELSE IF VdHas("failed") THEN "failed" ELSE "running"

\* buildPlanRunContextFromResult: class and reason of the last step, whatever
\* became of the steps before it.
VdFailureClass ==
  IF vdSteps # <<>> /\ vdSteps[Len(vdSteps)].status \in VdFailing
  THEN vdSteps[Len(vdSteps)].status ELSE "none"

-----------------------------------------------------------------------------
(* judgeCompletion and buildVerificationPack *)

VdCoreVerification ==
  \/ \E i \in DOMAIN vdTasks : vdTasks[i].verified = "passed"
  \/ VdHasStep("success") \/ VdHasStep("ambiguous")

VdJudge ==
  IF VdHas("needs_user") THEN "needs_user"
  ELSE IF VdHas("blocked") THEN "blocked"
  ELSE IF VdHas("failed") \/ VdHasStep("failure") THEN "failed"
  ELSE IF ~ VdAllDone(vdTasks) \/ ~ VdCoreVerification THEN "partial"
  ELSE "completed"

VdOfVerification(verified) ==
  CASE verified = "pending" -> "not_run" [] OTHER -> verified

\* The same fact enters the pack twice: from the run and, in the words of the
\* judge's evidence, from its decision.
VdTaskItems(task) ==
  {VdOfVerification(task.verified)}
  \cup {CASE task.status = "completed" -> "passed"
          [] task.status = "failed" -> "failed" [] OTHER -> "ambiguous"}
  \cup {IF task.verified \in {"passed", "failed"} THEN task.verified ELSE "ambiguous"}

VdStepItems(step) ==
  {VdOfVerification(step.verified)}
  \cup {IF step.outcome = "failure" THEN "failed" ELSE "passed"}
  \cup {IF step.outcome = "success" THEN "passed" ELSE "ambiguous"}

VdRunItem(status) ==
  CASE status = "completed" -> "passed" [] status = "failed" -> "failed" [] OTHER -> "ambiguous"

VdJudgeItem(judged) ==
  CASE judged = "completed" -> "passed" [] judged = "failed" -> "failed"
    [] OTHER -> "not_applicable"

VdPackItems ==
  (UNION {VdTaskItems(vdTasks[i]) : i \in DOMAIN vdTasks})
  \cup (UNION {VdStepItems(vdSteps[i]) : i \in DOMAIN vdSteps})
  \cup {VdRunItem(VdRecordStatus), VdJudgeItem(VdJudge)}

VdLacksEvidence == VdJudge = "partial" /\ VdAllDone(vdTasks)

\* aggregateStatus
VdPack ==
  IF "failed" \in VdPackItems THEN "failed"
  ELSE IF "ambiguous" \in VdPackItems \/ VdLacksEvidence THEN "ambiguous"
  ELSE IF "passed" \in VdPackItems THEN "passed" ELSE "not_run"

-----------------------------------------------------------------------------
(* The recovery advice *)

VdStepsOf(id) == {i \in DOMAIN vdSteps : vdSteps[i].id = id}

\* As if the first step of a task were kept.
VdLatestFirst(indices) == CHOOSE i \in indices : \A j \in indices : i <= j
\* Of the steps of a task the last one stays in the map.
VdLatest(indices) == CHOOSE i \in indices : \A j \in indices : i >= j

\* allRunTasks
VdMerged(id) ==
  IF VdStepsOf(id) = {} THEN vdTasks[id].status ELSE vdSteps[VdLatest(VdStepsOf(id))].status

VdDoNotRepeat == {id \in DOMAIN vdTasks : VdMerged(id) \in VdDone}

VdActive ==
  LET open == DOMAIN vdTasks \ VdDoNotRepeat
  IN IF open = {} THEN 0 ELSE CHOOSE id \in open : \A other \in open : id <= other

\* latestFailureReason: the reason of the last step, be it a success.
VdReason ==
  LET failed == {i \in DOMAIN vdSteps : vdSteps[i].status \in VdFailing} IN
  IF vdSteps = <<>> THEN "none"
  ELSE IF vdSteps[Len(vdSteps)].reason # "none" THEN vdSteps[Len(vdSteps)].reason
  ELSE IF failed = {} THEN "none" ELSE vdSteps[VdLatest(failed)].reason

VdWas(status) == VdRecordStatus = status \/ VdFailureClass = status
VdPermissionIssue == VdReason = "denied"
VdTransientIssue == VdReason \in {"timeout", "offline"}

VdUnblock == IF VdPermissionIssue THEN "ask_user" ELSE "replan"
VdRetry == IF VdTransientIssue THEN "retry" ELSE "replan"

\* actionFromRun looks at the completion first, suggestedNextActionForRun last.
VdAction ==
  IF VdAllDone(vdTasks) THEN "stop"
  ELSE IF VdWas("needs_user") THEN "ask_user"
  ELSE IF VdWas("blocked") THEN VdUnblock
  ELSE IF VdWas("failed") THEN VdRetry ELSE "continue"

VdSuggestion ==
  IF VdWas("needs_user") THEN "ask_user"
  ELSE IF VdWas("blocked") THEN VdUnblock
  ELSE IF VdWas("failed") THEN VdRetry
  ELSE IF VdAllDone(vdTasks) THEN "stop" ELSE "continue"

\* classifyResumeRisk
VdRisk ==
  IF VdAllDone(vdTasks) THEN "low"
  ELSE IF VdWas("needs_user") \/ VdPermissionIssue \/ VdWas("blocked") THEN "high"
  ELSE IF VdWas("failed") THEN IF VdTransientIssue THEN "medium" ELSE "high"
  ELSE "low"

\* createStoredPlanRunRecord asks all four.
VdAnswer ==
  /\ vdAt = 0 /\ ~ vdAnswers.known
  /\ vdAnswers' = [known |-> TRUE, status |-> VdRecordStatus, judged |-> VdJudge,
                   pack |-> VdPack, action |-> VdAction, suggestion |-> VdSuggestion,
                   risk |-> VdRisk, from |-> VdActive, skip |-> VdDoNotRepeat]
  /\ UNCHANGED <<vdTasks, vdSteps, vdAt>>

VdNext == VdSkip \/ VdBlock \/ VdRun \/ VdAnswer

VdSpec == VdInit /\ [][VdNext]_vdVars

-----------------------------------------------------------------------------
(* Properties *)

\* A result that says nothing but failure, wherever it says it, or nothing at
\* all, is never a success, and one that says nothing but success never a failure.
VdUnanimous ==
  \A i \in DOMAIN vdSteps :
    /\ vdSteps[i].said = "failure" => vdSteps[i].outcome = "failure"
    /\ vdSteps[i].said = "success" => vdSteps[i].outcome = "success"

\* What is reported as finished is finished, for every reader.
VdFinished ==
  LET done == {i \in DOMAIN vdTasks : vdTasks[i].status \in VdDone} IN
  vdAnswers.known =>
    /\ vdAnswers.judged = "completed" =>
         done = DOMAIN vdTasks /\ vdAnswers.status = "completed" /\ vdAnswers.action = "stop"
    /\ vdAnswers.pack = "passed" =>
         /\ vdAnswers.judged = "completed"
         /\ \A i \in DOMAIN vdTasks : vdTasks[i].verified = "passed"
    /\ vdAnswers.action = "stop" <=> done = DOMAIN vdTasks

\* The advice goes on from a task that is not done, after earlier ones that are,
\* never tells to repeat or to skip the wrong ones, and names one action only.
VdAdviceSound ==
  LET done == {i \in DOMAIN vdTasks : vdTasks[i].status \in VdDone} IN
  vdAnswers.known =>
    /\ vdAnswers.skip = done
    /\ vdAnswers.from \notin done
    /\ vdAnswers.from = 0 <=> done = DOMAIN vdTasks
    /\ vdAnswers.suggestion = vdAnswers.action
    /\ vdAnswers.action \in {"ask_user", "replan"} => vdAnswers.risk = "high"

\* The record and the judge differ only of a run the record calls completed, and then
\* because the judge holds against it that a task failed before the retry that did it, or
\* that nothing was run and nothing had passed; the pack fails a run the judge completes
\* only when a result contradicts itself, its verification's status being a failure.
VdSplits ==
  vdAnswers.known =>
    /\ vdAnswers.judged # vdAnswers.status =>
         /\ vdAnswers.status = "completed"
         /\ \/ /\ vdAnswers.judged = "failed"
               /\ \E i \in DOMAIN vdSteps : /\ vdSteps[i].outcome = "failure"
                                            /\ vdTasks[vdSteps[i].id].retries > 0
            \/ /\ vdAnswers.judged = "partial" /\ vdSteps = <<>>
               /\ \A i \in DOMAIN vdTasks : vdTasks[i].verified # "passed"
    /\ vdAnswers.judged = "completed" /\ vdAnswers.pack = "failed" =>
         \E i \in DOMAIN vdSteps : vdSteps[i].verified = "failed" /\ vdSteps[i].said = "mixed"

\* The evaluator, the record, the judge, the pack and the advice each read other fields of
\* the tasks and steps, in another order.  What the judge or the pack calls finished the
\* others call finished too, and the advice follows the tasks.  They do differ: the record
\* and the advice call a run finished that the judge does not, or that the pack fails, but
\* only for one of the three reasons of VdSplits (evaluator.ts, completion-judge.ts:177,
\* verification-pack.ts, recovery.ts).
VerdictsAgree == VdUnanimous /\ VdFinished /\ VdAdviceSound /\ VdSplits
================================================================================
