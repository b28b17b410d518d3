------------------------------ MODULE RemoteTasks ------------------------------
(***************************************************************************)
(* Tasks sent to other agents over HTTP (src/agent/remote) and the         *)
(* pipeline of stages built on them (src/agent/pipeline-runner.ts).        *)
(*                                                                         *)
(* A batch runs its tasks in windows; a task is tried on one endpoint      *)
(* after the other, in turns that all tasks share, and a failure marks the *)
(* endpoint as unhealthy for all of them.  A pipeline is a batch of one    *)
(* task per stage, which stops at the first stage that fails.  A request   *)
(* may be answered, fail, time out or be aborted with the caller, whatever *)
(* the server makes of it.  Prompts, texts and usage are left out.         *)
(* RemPickHealthy is a version of the definition after it with a plausible *)
(* fault.                                                                  *)
(***************************************************************************)
EXTENDS Integers, FiniteSets, Sequences

CONSTANTS
  RemMaxTasks,     \* bound: tasks of a batch, stages of a pipeline
  RemEndpoints,    \* how many endpoints there are
  RemConcurrent,   \* maxConcurrent
  RemMaxRetries    \* retry.maxRetries

ASSUME RemAssumption ==
  /\ {RemMaxTasks, RemEndpoints, RemMaxRetries} \subseteq Nat
  /\ RemConcurrent \in Nat \ {0}

VARIABLES
  remOp,        \* [kind, phase, first, aborted]: the batch and where its window begins
  remTask,      \* every task: [at, attempt, endpoint, status]
  remHealthy,   \* endpoints whose healthy is not false
  remTurn,      \* roundRobinIndex, as far as its remainders go
  remLog        \* what became of the requests of every task, in order

remVars == <<remOp, remTask, remHealthy, remTurn, remLog>>

RemAll == 1 .. RemEndpoints
RemTasks == DOMAIN remTask

RemInit ==
  /\ remOp = [kind |-> "none", phase |-> "idle", first |-> 1, aborted |-> FALSE]
  /\ remTask = <<>>
  /\ remHealthy = RemAll
  /\ remTurn = 0
  /\ remLog = <<>>

-----------------------------------------------------------------------------
(* Endpoints *)

\* The endpoints in order, from 0.
RemNth(endpoints, k) ==
  CHOOSE e \in endpoints : Cardinality({x \in endpoints : x < e}) = k

RemPickHealthy(attempt) ==
  IF remHealthy = {} THEN 0
  ELSE RemNth(remHealthy, remTurn % Cardinality(remHealthy))

\* pickEndpoint, 0 for none: an unhealthy one only in a retry when there is no other.
RemPick(attempt) ==
  IF remHealthy # {} THEN RemNth(remHealthy, remTurn % Cardinality(remHealthy))
  ELSE IF attempt > 0 THEN RemNth(RemAll, remTurn % RemEndpoints)
  ELSE 0

\* Every remainder of the counter by a number of endpoints is one of this.
RemCycle == LET product[n \in 0 .. RemEndpoints] == IF n = 0 THEN 1 ELSE n * product[n - 1]
            IN  product[RemEndpoints]

\* refreshHealth sets the endpoints one by one, as their answers come.
RemCheckHealth ==
  /\ \E e \in RemAll : remHealthy' \in {remHealthy \cup {e}, remHealthy \ {e}}
  /\ UNCHANGED <<remOp, remTask, remTurn, remLog>>

-----------------------------------------------------------------------------
(* One task *)

RemUntried == [at |-> "waits", attempt |-> 0, endpoint |-> 0, status |-> "none"]
RemResult(i, status) == [remTask[i] EXCEPT !.at = "done", !.status = status]

\* executeWithRetry has a result; a pipeline makes "failed" of all but "completed", be it
\* "timeout" or "aborted".
RemReturn(i, status) ==
  RemResult(i, IF remOp.kind = "pipeline" /\ status # "completed" THEN "failed" ELSE status)

\* The top of executeWithRetry, up to the request.
RemTry(i) ==
  /\ remTask[i].at = "ready"
  /\ IF remOp.aborted
     THEN /\ remTask' = [remTask EXCEPT ![i] = RemReturn(i, "aborted")]
          /\ UNCHANGED remTurn
     ELSE LET e == RemPick(remTask[i].attempt) IN
          /\ remTurn' = (remTurn + 1) % RemCycle
          /\ remTask' = [remTask EXCEPT ![i] =
                           IF e = 0 THEN RemReturn(i, "failed")
                           ELSE [remTask[i] EXCEPT !.at = "sent", !.endpoint = e]]
  /\ UNCHANGED <<remOp, remHealthy, remLog>>

\* isRetryable: an error of the 400s is not.
RemRetries(i, outcome) ==
  remTask[i].attempt < RemMaxRetries /\ outcome # "refused"

\* sendRemoteTask returns.  Only an abort that came first makes a request "aborted";
\* any failure marks the endpoint.
RemAnswer(i) ==
  /\ remTask[i].at = "sent"
  /\ \E outcome \in {"completed", "refused", "failed", "timeout", "aborted"} :
       /\ outcome = "aborted" => remOp.aborted
       /\ remLog' = [remLog EXCEPT ![i] = Append(@, outcome)]
       /\ \/ /\ outcome \in {"completed", "aborted"}
             /\ remTask' = [remTask EXCEPT ![i] = RemReturn(i, outcome)]
             /\ UNCHANGED remHealthy
          \/ /\ outcome \notin {"completed", "aborted"}
             /\ remHealthy' = remHealthy \ {remTask[i].endpoint}
             /\ remTask' = [remTask EXCEPT ![i] =
                  IF RemRetries(i, outcome)
                  THEN [remTask[i] EXCEPT !.at = "sleeps", !.attempt = @ + 1]
                  ELSE RemReturn(i, IF outcome = "timeout" THEN "timeout" ELSE "failed")]
  /\ UNCHANGED <<remOp, remTurn>>

\* The backoff ends, or an abort ends it.
RemWake(i) ==
  /\ remTask[i].at = "sleeps"
  /\ remTask' = [remTask EXCEPT ![i].at = "ready"]
  /\ UNCHANGED <<remOp, remHealthy, remTurn, remLog>>

-----------------------------------------------------------------------------
(* The batch *)

RemWidth == IF remOp.kind = "pipeline" THEN 1 ELSE RemConcurrent
RemWindow == {i \in RemTasks : remOp.first <= i /\ i < remOp.first + RemWidth}

\* RemoteSubAgentRuntime.run: one task, subtasks or a pipeline.
RemBegin ==
  /\ remOp.phase = "idle"
  /\ \E kind \in {"batch", "pipeline"}, n \in 1 .. RemMaxTasks :
       /\ remOp' = [remOp EXCEPT !.kind = kind, !.phase = "next"]
       /\ remTask' = [i \in 1 .. n |-> RemUntried]
       /\ remLog' = [i \in 1 .. n |-> <<>>]
  /\ UNCHANGED <<remHealthy, remTurn>>

\* A pipeline stops when the stage before is not completed.
RemStopped ==
  /\ remOp.kind = "pipeline" /\ remOp.first > 1
  /\ remTask[remOp.first - 1].status # "completed"

\* The rest, from the window that would be next.
RemRest(status) ==
  [i \in RemTasks |-> IF i >= remOp.first THEN RemResult(i, status) ELSE remTask[i]]

\* schedule and runPipeline before every window, or after the last one.
RemOpen ==
  /\ remOp.phase = "next"
  /\ \/ /\ remOp.first > Len(remTask)
        /\ remOp' = [remOp EXCEPT !.phase = "done"]
        /\ UNCHANGED remTask
     \/ /\ remOp.first <= Len(remTask)
        /\ remOp.aborted \/ RemStopped
        /\ remOp' = [remOp EXCEPT !.phase = "done"]
        /\ remTask' = RemRest(IF remOp.aborted THEN "aborted" ELSE "skipped")
     \/ /\ remOp.first <= Len(remTask)
        /\ ~ remOp.aborted /\ ~ RemStopped
        /\ remOp' = [remOp EXCEPT !.phase = "window"]
        /\ remTask' = [i \in RemTasks |->
                         IF i \in RemWindow THEN [remTask[i] EXCEPT !.at = "ready"] ELSE remTask[i]]
  /\ UNCHANGED <<remHealthy, remTurn, remLog>>

\* The window has settled.
RemClose ==
  /\ remOp.phase = "window"
  /\ \A i \in RemWindow : remTask[i].at = "done"
  /\ remOp' = [remOp EXCEPT !.phase = "next", !.first = @ + RemWidth]
  /\ UNCHANGED <<remTask, remHealthy, remTurn, remLog>>

\* The signal of the caller.
RemAbort ==
  /\ ~ remOp.aborted
  /\ remOp' = [remOp EXCEPT !.aborted = TRUE]
  /\ UNCHANGED <<remTask, remHealthy, remTurn, remLog>>

RemNext ==
  \/ RemBegin \/ RemOpen \/ RemClose \/ RemAbort \/ RemCheckHealth
  \/ \E i \in RemTasks : RemTry(i) \/ RemAnswer(i) \/ RemWake(i)

RemSpec == RemInit /\ [][RemNext]_remVars

-----------------------------------------------------------------------------
(* Properties *)

RemLastOf(i, outcome) == remLog[i] # <<>> /\ remLog[i][Len(remLog[i])] = outcome

\* A stage whose request was aborted, or whose retry was due after the abort.
RemCutOff(i) ==
  /\ remOp.kind = "pipeline" /\ remOp.aborted
  /\ RemLastOf(i, "aborted") \/ Len(remLog[i]) = remTask[i].attempt

\* When a batch is over, every task has a result that its requests bear out: a task is
\* given up only when all its retries are used up, when an endpoint refused it, or when no
\* endpoint was healthy before its first request, whatever other tasks and health checks
\* do to the endpoints meanwhile (scheduler.ts:33, :117); no stage is sent after one that
\* did not complete (pipeline-runner.ts:135).  The abort of the caller ends a task early:
\* it is then "aborted", but "failed" if it is a stage that had been started
\* (pipeline-runner.ts:192), so that of the stages only those never sent are "aborted".
RemResultsEarned ==
  remOp.phase = "done" =>
    \A i \in RemTasks :
      /\ (remOp.kind = "pipeline" /\ remLog[i] # <<>>)
         => \A j \in 1 .. i - 1 : remTask[j].status = "completed"
      /\ CASE remTask[i].status = "completed" -> RemLastOf(i, "completed")
           [] remTask[i].status = "aborted" ->
                remOp.aborted /\ (remOp.kind = "pipeline" => remLog[i] = <<>>)
           [] remTask[i].status \in {"failed", "timeout"} ->
                \/ remLog[i] = <<>> \/ RemLastOf(i, "refused")
                \/ Len(remLog[i]) = RemMaxRetries + 1
                \/ RemCutOff(i)
           [] OTHER -> /\ remTask[i].status = "skipped"
                       /\ remOp.kind = "pipeline" /\ remLog[i] = <<>>
                       /\ \E j \in 1 .. i - 1 : remTask[j].status # "completed"
=============================================================================
