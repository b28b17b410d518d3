------------------------------- MODULE SubAgents -------------------------------
(***************************************************************************)
(* Delegation: the Agent tool's calls of DefaultSubAgentRuntime            *)
(* (src/agent/subagent-runtime.ts, pipeline-runner.ts).  A call runs its   *)
(* requests as child agents, in windows or one after the other as a        *)
(* pipeline, and a child may call again.  A child's result is that of its  *)
(* agentLoop or of its abort handle, whichever comes first; the loop whose *)
(* handle came first is told to stop and goes on until it notices.         *)
(*                                                                         *)
(* The children a call may start are fixed by the constants, a tree of     *)
(* depth two below the Root, which is the depth the runtime allows.        *)
(* OnlyKids, Unraced and SettleBatchShort are versions of the definition   *)
(* after them with one plausible fault.                                    *)
(***************************************************************************)
EXTENDS Integers, FiniteSets, SequencesExt, Functions

CONSTANTS
  Agents, Root,   \* the children, and the agent nobody delegated to
  Requests,       \* for every agent, the children its call asks for
  Pipelines,      \* agents whose call is a pipeline
  Timed,          \* children with a timeoutMs
  BatchTimed,     \* agents whose batch has one
  MaxConcurrent   \* maxConcurrentChildren

Callers == Agents \cup {Root}
Kids(p) == Range(Requests[p])
Descendants(p) == Kids(p) \cup UNION {Kids(m) : m \in Kids(p)}

ASSUME RequestsAssumption == Requests \in [Callers -> Seq(Agents)]
ASSUME TreeAssumption ==
  /\ Root \notin Agents
  /\ Agents = Descendants(Root)
  /\ \A p, q \in Callers : p # q => Kids(p) \cap Kids(q) = {}
  /\ \A p \in Callers : IsInjective(Requests[p])
ASSUME DepthAssumption ==
  \A p \in Kids(Root) : \A m \in Kids(p) : Requests[m] = <<>>
\* A batch hands its timeoutMs on to its children; stages and the children of
\* children have one in any case.
ASSUME TimersAssumption ==
  /\ Pipelines \subseteq Callers /\ Timed \subseteq Agents /\ BatchTimed \subseteq Callers
  /\ \A p \in BatchTimed \cup Pipelines \cup Agents : Kids(p) \subseteq Timed
ASSUME WindowAssumption == MaxConcurrent \in Nat \ {0}

Status == {"completed", "failed", "timeout", "aborted"}
Cause == {"none", "aborted", "timeout"}

VARIABLES
  aborted,   \* the abort signal of every agent's own state
  loop,      \* agentLoop of a child: "none", "running" or how it ended
  handle,    \* cause of a child's scoped abort handle
  result,    \* what executeChildTask returned for a child
  call,      \* the Agent call of every agent: "unused", "open" or "over"
  window,    \* index of the first request of its window
  answer,    \* statuses of its requests, as far as known
  cause      \* cause of the batch's own abort handle

vars == <<aborted, loop, handle, result, call, window, answer, cause>>

Init ==
  /\ aborted = [p \in Callers |-> FALSE]
  /\ loop = [m \in Agents |-> "none"]
  /\ handle = [m \in Agents |-> "none"]
  /\ result = [m \in Agents |-> "none"]
  /\ call = [p \in Callers |-> "unused"]
  /\ window = [p \in Callers |-> 1]
  /\ answer = [p \in Callers |-> <<>>]
  /\ cause = [p \in Callers |-> "none"]

-----------------------------------------------------------------------------
(* Aborts *)

Parent == [m \in Agents |-> CHOOSE p \in Callers : m \in Kids(p)]

\* The race of this child is not decided: its handle listens.
Pending(m) == loop[m] = "running" /\ result[m] = "none"

OnlyKids(ps) == {m \in Agents : Pending(m) /\ Parent[m] \in ps}

\* The children whose handles hear of an abort of the agents ps, at once and
\* through the children in between.
Below(ps) ==
  LET kids == {m \in Agents : Pending(m) /\ Parent[m] \in ps}
  IN  kids \cup {m \in Agents : Pending(m) /\ Parent[m] \in kids}

\* resolveAbortCause, for a child whose handle and batch have these causes.
Resolved(own, batch) == IF "timeout" \in {own, batch} THEN "timeout" ELSE "aborted"

Unraced(hit, own, batch) == result

\* abortPromise: the children that are hit return without their loops.
Raced(hit, own, batch) ==
  [m \in Agents |-> IF m \in hit THEN Resolved(own[m], batch[Parent[m]]) ELSE result[m]]

\* The handles of the children in hit fire, the first of them for the reason
\* given, and with them the signals of their loops and of the batches they run.
Abort(hit, signals, timedOut, batch) ==
  LET own == [m \in Agents |-> IF m \notin hit THEN handle[m]
                               ELSE IF m \in timedOut THEN "timeout" ELSE "aborted"]
      told == hit \cup signals
      heard == [p \in Callers |-> IF p \in told /\ call[p] = "open" /\ p \notin Pipelines
                                     /\ batch[p] = "none"
                                  THEN "aborted" ELSE batch[p]]
  IN  /\ handle' = own
      /\ cause' = heard
      /\ aborted' = [p \in Callers |-> aborted[p] \/ p \in told]
      /\ result' = Raced(hit, own, heard)
      /\ UNCHANGED <<loop, call, window, answer>>

\* The user interrupts, or the run of the Root is aborted from elsewhere.
AbortRoot ==
  /\ ~ aborted[Root]
  /\ Abort(Below({Root}), {Root}, {}, cause)

\* A child's own timer.
ChildTimer(m) ==
  /\ m \in Timed /\ Pending(m)
  /\ Abort({m} \cup Below({m}), {}, {m}, cause)

\* The timer of a batch.
BatchTimer(p) ==
  /\ p \in BatchTimed \ Pipelines /\ call[p] = "open" /\ cause[p] = "none"
  /\ Abort(Below({p}), {}, {}, [cause EXCEPT ![p] = "timeout"])

-----------------------------------------------------------------------------
(* Calls *)

Width(p) == IF p \in Pipelines THEN 1 ELSE MaxConcurrent
WindowFrom(p, at) == {i \in DOMAIN Requests[p] : i \in at .. at + Width(p) - 1}

\* executeChildTask for the requests of a window.  Nothing is awaited since the
\* signals were found not to be aborted.
StartWindow(p, at) ==
  /\ window' = [window EXCEPT ![p] = at]
  /\ loop' = [m \in Agents |-> IF \E i \in WindowFrom(p, at) : m = Requests[p][i]
                               THEN "running" ELSE loop[m]]

\* run: an agent's call of the Agent tool.
Call(p) ==
  /\ Requests[p] # <<>> /\ call[p] = "unused"
  /\ p # Root => loop[p] = "running"
  /\ IF aborted[p]
     THEN call' = [call EXCEPT ![p] = "over"] /\ UNCHANGED <<window, loop>>
     ELSE call' = [call EXCEPT ![p] = "open"] /\ StartWindow(p, 1)
  /\ UNCHANGED <<aborted, handle, result, answer, cause>>

\* A child's agentLoop ends for a reason of its own, or because it was told to;
\* the tool call it was in must have returned.
LoopEnds(m, how) ==
  /\ loop[m] = "running" /\ call[m] # "open"
  /\ how = "stopped" => aborted[m]
  /\ loop' = [loop EXCEPT ![m] = how]
  /\ result' = IF result[m] = "none" THEN [result EXCEPT ![m] = how] ELSE result
  /\ aborted' = [aborted EXCEPT ![m] = TRUE]
  /\ UNCHANGED <<handle, call, window, answer, cause>>

Settled(p) ==
  /\ call[p] = "open"
  /\ \A i \in WindowFrom(p, window[p]) : result[Requests[p][i]] # "none"

After(p) == window[p] + Width(p)
Rest(p, status) == [i \in 1 .. Len(Requests[p]) - After(p) + 1 |-> status]

\* The statuses of the window that settled; a pipeline knows only of stages
\* that completed or failed.
Known(p) ==
  LET of(i) == result[Requests[p][window[p] + i - 1]]
      seen(i) == IF p \in Pipelines /\ of(i) # "completed" THEN "failed" ELSE of(i)
  IN  answer[p] \o [i \in 1 .. Cardinality(WindowFrom(p, window[p])) |-> seen(i)]

Over(p, statuses) ==
  /\ call' = [call EXCEPT ![p] = "over"]
  /\ answer' = [answer EXCEPT ![p] = statuses]
  /\ UNCHANGED <<window, loop>>

NextWindow(p) ==
  /\ answer' = [answer EXCEPT ![p] = Known(p)]
  /\ StartWindow(p, After(p))
  /\ UNCHANGED call

SettleBatchShort(p) ==
  /\ p \notin Pipelines /\ Settled(p)
  /\ IF cause[p] # "none" \/ After(p) > Len(Requests[p])
     THEN Over(p, Known(p)) ELSE NextWindow(p)
  /\ UNCHANGED <<aborted, handle, result, cause>>

\* runTaskBatch when a window has settled.
SettleBatch(p) ==
  /\ p \notin Pipelines /\ Settled(p)
  /\ IF cause[p] # "none"
     THEN Over(p, Known(p) \o Rest(p, cause[p]))
     ELSE IF After(p) > Len(Requests[p]) THEN Over(p, Known(p)) ELSE NextWindow(p)
  /\ UNCHANGED <<aborted, handle, result, cause>>

\* runPipeline when a stage has returned.
SettlePipeline(p) ==
  /\ p \in Pipelines /\ Settled(p)
  /\ IF After(p) > Len(Requests[p]) THEN Over(p, Known(p))
     ELSE IF aborted[p] THEN Over(p, Known(p) \o Rest(p, "aborted"))
     ELSE IF Last(Known(p)) = "failed" THEN Over(p, Known(p) \o Rest(p, "skipped"))
     ELSE NextWindow(p)
  /\ UNCHANGED <<aborted, handle, result, cause>>

Settle(p) == SettleBatch(p) \/ SettlePipeline(p)

Next ==
  \/ AbortRoot
  \/ \E m \in Agents : ChildTimer(m)
  \/ \E p \in Callers : BatchTimer(p) \/ Call(p) \/ Settle(p)
  \/ \E m \in Agents, how \in {"completed", "failed", "stopped"} : LoopEnds(m, how)

\* The reactions to settled promises run.  Nothing is assumed of the loops: a
\* provider or a tool may never answer.
Spec == Init /\ [][Next]_vars /\ WF_vars(\E p \in Callers : Settle(p))

-----------------------------------------------------------------------------
(* Properties *)

TypeOK ==
  /\ aborted \in [Callers -> BOOLEAN]
  /\ loop \in [Agents -> {"none", "running", "completed", "failed", "stopped"}]
  /\ handle \in [Agents -> Cause]
  /\ result \in [Agents -> Status \cup {"none"}]
  /\ call \in [Callers -> {"unused", "open", "over"}]
  /\ window \in [Callers -> Nat]
  /\ \A p \in Callers : window[p] \in 1 .. Len(Requests[p]) + 1
  /\ answer \in [Callers -> Seq(Status \cup {"skipped"})]
  /\ cause \in [Callers -> Cause]

\* The statuses are true of the first requests of p.
Tells(p, statuses) ==
  \A i \in DOMAIN statuses :
    LET m == Requests[p][i]
    IN  /\ statuses[i] = "completed" => loop[m] = "completed"
        /\ statuses[i] = "timeout" => "timeout" \in {handle[m], cause[p]}
        /\ statuses[i] = "aborted" => aborted[p]
        /\ loop[m] = "none" => statuses[i] \in {"timeout", "aborted", "skipped"}

\* A call that was not refused answers every request, in order, with what
\* became of it: a child is called completed only if its own loop completed,
\* timed out only if its timer or its batch's fired, aborted only if the caller
\* was aborted, and one that was never started says so (runTaskBatch,
\* runPipeline, executeChildTask).
AnswersTell ==
  \A p \in Callers : call[p] = "over" /\ answer[p] # <<>> =>
    Len(answer[p]) = Len(Requests[p]) /\ Tells(p, answer[p])

\* Once a child has returned, nothing below it works on unnoticed: every loop
\* that still runs there, at any depth, has been told to stop (linkAbort, the
\* race in executeChildTask).
NoOrphans ==
  \A m \in Agents : result[m] # "none" =>
    \A d \in {m} \cup Descendants(m) : loop[d] = "running" => aborted[d]

\* An aborted agent gets the result of its call, however long the loops below
\* it hang (abortPromise).  A call opens once and nobody's abort is taken back,
\* so an agent that waited forever would falsify this from some point on.
AbortReturns == []<> \A p \in Callers : ~ (call[p] = "open" /\ aborted[p])
=============================================================================
