------------------------------- MODULE Delegation -------------------------------
(***************************************************************************)
(* The Agent tool (tools/agent/agent-tool.ts): what a child agent may do   *)
(* and for how long (subagent-runtime.ts), what the caller is told of its  *)
(* children, and what is written of them into the session file and the     *)
(* evidence of the project.  Windows, cascades of aborts and the races of  *)
(* timers are SubAgents'; here a call of the root and one call of its      *)
(* first child are followed with their requests and their records.         *)
(*                                                                         *)
(* A field a request may omit is a sequence of no or one element.          *)
(* DelRequested, DelStatusByAbort and DelOrCombined are versions of the    *)
(* definitions after them with a plausible fault.                          *)
(***************************************************************************)
EXTENDS Integers, SequencesExt

CONSTANTS
  DelRoots,      \* how the program was started: [mode, rule, ui, saver]
  DelOuter,      \* requests of the root
  DelInner       \* requests of its first child

VARIABLES
  delRoot,    \* one of DelRoots
  delCalls,   \* the two calls of the Agent tool
  delTold,    \* callers whose abort signal fired
  delSaved    \* what was written, in order: [call, kind, kid, status, success, counts]

delVars == <<delRoot, delCalls, delTold, delSaved>>

DelTools == {"FileRead", "FileWrite", "Agent", "mcp:tool"}
DelReadOnly == {"FileRead"}     \* SUB_AGENT_DEFAULT_TOOL_ALLOWLIST
DelWriting == {"FileWrite"}     \* SUB_AGENT_WRITE_TOOL_ALLOWLIST
DelNames == {"outer", "inner"}
DelDepth == [outer |-> 1, inner |-> 2]   \* of the children
DelNoCall == [state |-> "unused"]

\* What the input schema of the tool lets through.
DelPart == [tools : Seq(SUBSET DelTools), turns : Seq(Int), timeout : Seq(Int), write : Seq(BOOLEAN)]
DelRequest ==
  [shape : {"single", "batch", "pipeline", "both"}, tools : Seq(SUBSET DelTools),
   turns : Seq(Int), timeout : Seq(Int), write : Seq(BOOLEAN), debug : Seq(BOOLEAN),
   background : BOOLEAN, subs : Seq(DelPart)]

\* A batch or a pipeline has something to do; a stage has no field for writing.
ASSUME DelAssumption ==
  /\ \A root \in DelRoots : root.saver \in BOOLEAN
  /\ DelOuter \cup DelInner \subseteq DelRequest
  /\ \A request \in DelOuter \cup DelInner :
       /\ request.shape \in {"batch", "pipeline"} => request.subs # <<>>
       /\ request.shape = "pipeline" =>
            \A i \in DOMAIN request.subs : request.subs[i].write = <<>>

DelInit ==
  /\ delRoot \in DelRoots
  /\ delCalls = [c \in DelNames |-> DelNoCall]
  /\ delTold = {} /\ delSaved = <<>>

-----------------------------------------------------------------------------
(* What a child is given *)

DelOrCombined(option, default) ==
  IF option = <<>> \/ default = <<TRUE>> THEN default ELSE option

DelOr(option, default) == IF option = <<>> THEN default ELSE option

\* resolveTaskRequest: the fields a subtask omits are those of its request.
DelTask(request, sub) ==
  [tools |-> DelOr(sub.tools, request.tools), turns |-> DelOr(sub.turns, request.turns),
   timeout |-> DelOr(sub.timeout, request.timeout), write |-> DelOr(sub.write, request.write)]

\* A stage has no say in turns and writing, and always a timeout.
DelStage(request, sub) ==
  [tools |-> DelOr(sub.tools, request.tools), turns |-> request.turns,
   timeout |-> DelOr(sub.timeout, DelOr(request.timeout, <<120>>)), write |-> request.write]

DelTasks(request) ==
  CASE request.shape = "batch" -> [i \in DOMAIN request.subs |-> DelTask(request, request.subs[i])]
    [] request.shape = "pipeline" -> [i \in DOMAIN request.subs |-> DelStage(request, request.subs[i])]
    [] OTHER -> <<[tools |-> request.tools, turns |-> request.turns,
                   timeout |-> request.timeout, write |-> request.write]>>

DelClamp(option, default, top) ==
  LET asked == IF option = <<>> THEN default ELSE option[1]
  IN  IF asked < 1 THEN 1 ELSE IF asked > top THEN top ELSE asked

\* resolveChildLimits; a timeout is in seconds.
DelLimits(depth, task) ==
  IF depth >= 2
  THEN [turns |-> DelClamp(task.turns, 3, 3), timeout |-> <<DelClamp(task.timeout, 15, 15)>>,
        write |-> FALSE, agent |-> FALSE]
  ELSE [turns |-> DelClamp(task.turns, 6, 8), timeout |-> task.timeout,
        write |-> task.write = <<TRUE>>, agent |-> TRUE]

DelRequested(task, limits) ==
  {t \in DelTools : /\ t \in DelWriting => limits.write \/ task.tools # <<>>
                    /\ t \in DelReadOnly \cup DelWriting \cup {"Agent"}
                    /\ t = "Agent" => limits.agent
                    /\ task.tools # <<>> => t \in task.tools[1]}

\* buildChildTools, isAllowedChildTool: out of all tools, not out of the parent's.
DelAllowed(task, limits) ==
  {t \in DelTools : /\ t \in DelReadOnly \cup DelWriting \cup {"Agent"}
                    /\ t \in DelWriting => limits.write
                    /\ t = "Agent" => limits.agent
                    /\ task.tools # <<>> => t \in task.tools[1]}

\* buildChildState and executeChildTask for the i-th task of the call c; the
\* provider that was asked for may not be there.
DelChild(c, request, i, found) ==
  LET task == DelTasks(request)[i]
      limits == DelLimits(DelDepth[c], task)
  IN  [status |-> IF found THEN "open" ELSE "failed", loop |-> found,
       tools |-> DelAllowed(task, limits), turns |-> limits.turns,
       timeout |-> limits.timeout, wrote |-> FALSE]

-----------------------------------------------------------------------------
(* Calls *)

\* PermissionEngine.check for the Agent tool; the tool's own checkPermissions has no caller.
DelVerdict(mode, request) ==
  IF mode = "acceptAll" THEN "allow" ELSE IF mode = "denyAll" THEN "deny"
  ELSE IF delRoot.rule = "agent-denied" THEN "deny"
  ELSE IF request.tools # <<>> /\ request.tools[1] \cap DelWriting # {} THEN "ask"
  ELSE "allow"

DelMode(c) ==
  IF c = "outer" THEN delRoot.mode
  ELSE IF delRoot.mode = "denyAll" THEN "denyAll" ELSE "default"

DelCanCall(c) ==
  /\ delCalls[c].state = "unused"
  /\ c = "inner" => /\ delCalls["outer"].state # "unused"
                    /\ delCalls["outer"].kids # <<>>
                    /\ delCalls["outer"].kids[1].loop
                    /\ "Agent" \in delCalls["outer"].kids[1].tools

\* run: batches start all their children at once, a pipeline its first.
DelStarting(request) ==
  IF request.shape = "pipeline" THEN {1} ELSE DOMAIN DelTasks(request)

\* Only the root's own state in the terminal has a scheduler.
DelBackground(c, request) == request.background /\ c = "outer" /\ delRoot.ui = "terminal"

DelOpened(c, request, missing) ==
  [state |-> IF request.background THEN "background" ELSE "open", request |-> request,
   kids |-> [i \in 1 .. Cardinality(DelStarting(request)) |->
               DelChild(c, request, i, i \notin missing)]]

DelOver(request, answer, kids) ==
  [state |-> "over", request |-> request, answer |-> answer, kids |-> kids]

DelSet(c, call) == delCalls' = [delCalls EXCEPT ![c] = call]

\* The permission pass refuses, or the tool cannot run in the background here.
DelRefuse(c, request) ==
  /\ DelCanCall(c)
  /\ \/ DelVerdict(DelMode(c), request) # "allow"
     \/ request.background /\ ~ DelBackground(c, request)
  /\ DelSet(c, DelOver(request, "error", <<>>))
  /\ UNCHANGED <<delRoot, delTold, delSaved>>

\* Confirmed where there is somebody to ask, or allowed without.
DelMayRun(c, request) ==
  /\ \/ DelVerdict(DelMode(c), request) = "allow"
     \/ DelVerdict(DelMode(c), request) = "ask" /\ c = "outer" /\ delRoot.ui = "terminal"
  /\ request.background => DelBackground(c, request)

DelBegin(c, request) ==
  /\ DelCanCall(c) /\ DelMayRun(c, request)
  /\ c \notin delTold /\ request.shape # "both"
  /\ \E missing \in SUBSET DelStarting(request) :
       DelSet(c, DelOpened(c, request, missing))
  /\ UNCHANGED <<delRoot, delTold, delSaved>>

-----------------------------------------------------------------------------
(* What is written *)

DelStatusByAbort(reason) == IF reason = "timeout" THEN "aborted" ELSE reason

\* normalizeRecordStatus
DelRecordStatus(reason) ==
  IF reason \in {"completed", "aborted"} THEN reason ELSE "error"

DelRecord(c, kind, kid, status, success, counts) ==
  [call |-> c, kind |-> kind, kid |-> kid, status |-> status, success |-> success,
   counts |-> counts]

DelCount(kids, statuses) == Cardinality({i \in DOMAIN kids : kids[i].status \in statuses})

\* buildCoordinatorResult: the last child that did not complete decides.
DelReason(kids) ==
  LET bad == {i \in DOMAIN kids : kids[i].status # "completed"}
      last == CHOOSE i \in bad : \A j \in bad : j <= i
  IN  IF bad = {} THEN "completed"
      ELSE IF kids[last].status = "aborted" THEN "aborted" ELSE "error"

\* runPipelineMode: an aborted stage counts as failed, one that did not start not at all.
DelPipelineResult(request, kids) ==
  LET bad == DelCount(kids, {"failed", "timeout", "aborted"})
      good == DelCount(kids, {"completed"})
  IN  [reason |-> IF good = Len(request.subs) THEN "completed" ELSE "error",
       partial |-> bad > 0 /\ good > 0, counts |-> <<good, bad>>]

\* What run returns: of a batch, a pipeline, or the one child.
DelResult(request, kids) ==
  CASE request.shape = "batch" ->
         [reason |-> DelReason(kids), partial |-> DelReason(kids) # "completed",
          counts |-> <<DelCount(kids, {"completed"}),
                       DelCount(kids, {"failed", "timeout", "aborted"})>>]
    [] request.shape = "pipeline" -> DelPipelineResult(request, kids)
    [] OTHER -> [reason |-> kids[1].status, partial |-> FALSE, counts |-> <<0, 0>>]

\* recordSubagentRun
DelEvidence(c, kid, status, success, counts) ==
  DelRecord(c, "evidence", kid, status, success, counts)

\* persistChildResult for one child
DelChildRecord(c, kids, i) ==
  DelRecord(c, "child", i, DelRecordStatus(kids[i].status), kids[i].status = "completed", <<>>)

DelChildEvidence(c, kids, i) ==
  DelEvidence(c, i, kids[i].status, kids[i].status = "completed", <<>>)

\* ... and for all, one after the other.
DelChildRecords(c, kids, evidence) ==
  IF evidence
  THEN [n \in 1 .. 2 * Len(kids) |->
          LET i == (n + 1) \div 2
          IN  IF n = 2 * i THEN DelChildEvidence(c, kids, i) ELSE DelChildRecord(c, kids, i)]
  ELSE [i \in DOMAIN kids |-> DelChildRecord(c, kids, i)]

\* withDefaultDebug: asked for, or else wherever somebody saves.
DelDebug(request) == DelOr(request.debug, <<delRoot.saver>>)

\* persistSubAgentRuns
DelTopRecords(c, request, kids, result) ==
  LET good == result.reason = "completed" IN
  IF request.shape = "batch" /\ kids # <<>>
  THEN IF DelDebug(request) = <<FALSE>> THEN <<>>
       ELSE <<DelRecord(c, "coordinator", 0, DelRecordStatus(result.reason),
                        good /\ ~ result.partial, result.counts)>>
  ELSE <<DelRecord(c, "single", 0, DelRecordStatus(result.reason), good, <<>>)>>

DelPersisted(c, request, kids, result, evidence) ==
  LET children == IF request.shape = "batch" THEN DelChildRecords(c, kids, evidence) ELSE <<>>
      whole == DelTopRecords(c, request, kids, result)
      top == IF evidence
             THEN <<DelEvidence(c, 0, result.reason,
                                result.reason = "completed" /\ ~ result.partial, result.counts)>>
             ELSE <<>>
  IN  IF delRoot.saver THEN children \o whole \o top ELSE top

\* The call returns and everything is written, of the evidence only if there is a
\* project to keep it and its file can be written; or the session file cannot be
\* written at some record, and the call throws.
DelPersist(c, request, kids, result) ==
  \E evidence \in BOOLEAN :
    LET all == DelPersisted(c, request, kids, result, evidence)
        told == IF result.reason = "completed" THEN "ok" ELSE "error"
    IN  \/ /\ delSaved' = delSaved \o all
           /\ DelSet(c, DelOver(request, told, kids))
        \/ \E i \in DOMAIN all :
             /\ all[i].kind # "evidence"
             /\ delSaved' = delSaved \o SubSeq(all, 1, i - 1)
             /\ DelSet(c, [DelOver(request, "error", kids) EXCEPT !.state = "failed"])

\* run returns at once: aborted before, or two modes asked for.
DelAtOnce(c, request) ==
  /\ DelCanCall(c) /\ DelMayRun(c, request) /\ ~ request.background
  /\ c \in delTold \/ request.shape = "both"
  /\ DelPersist(c, request, <<>>,
       [reason |-> IF c \in delTold THEN "aborted" ELSE "error", partial |-> FALSE,
        counts |-> <<0, 0>>])
  /\ UNCHANGED <<delRoot, delTold>>

-----------------------------------------------------------------------------
(* Children *)

DelRunning(c) == delCalls[c].state \in {"open", "background"}
DelSetKid(c, i, kid) == delCalls' = [delCalls EXCEPT ![c].kids[i] = kid]

\* A child writes a file: its engine is not interactive and its mode the default,
\* so that only a rule of the user allows it.
DelWrite(c, i) ==
  /\ delRoot.rule = "write-allowed"
  /\ delCalls[c].kids[i].loop /\ DelWriting \cap delCalls[c].kids[i].tools # {}
  /\ DelSetKid(c, i, [delCalls[c].kids[i] EXCEPT !.wrote = TRUE])
  /\ UNCHANGED <<delRoot, delTold, delSaved>>

\* Its loop ends, when its own call of the Agent tool has returned.
DelEnds(c, i, how) ==
  /\ delCalls[c].kids[i].loop
  /\ c = "outer" /\ i = 1 => delCalls["inner"].state # "open"
  /\ LET kid == delCalls[c].kids[i]
     IN  DelSetKid(c, i, [kid EXCEPT !.loop = FALSE,
                                     !.status = IF @ = "open" THEN how ELSE @])
  /\ UNCHANGED <<delRoot, delTold, delSaved>>

DelCut(kids, which, cause) ==
  [i \in DOMAIN kids |-> IF i \in which /\ kids[i].status = "open"
                         THEN [kids[i] EXCEPT !.status = cause] ELSE kids[i]]

\* The children in which of the call c are cut off, and what the first of them runs.
DelAbort(c, which, cause) ==
  LET below == c = "outer" /\ 1 \in which /\ delCalls[c].kids[1].status = "open"
  IN  /\ delCalls' = [d \in DelNames |->
           IF d = c THEN [delCalls[c] EXCEPT !.kids = DelCut(@, which, cause)]
           ELSE IF d = "inner" /\ below /\ DelRunning("inner")
           THEN [delCalls[d] EXCEPT !.kids = DelCut(@, DOMAIN @, "aborted")]
           ELSE delCalls[d]]
      /\ delTold' = delTold \cup (IF below THEN {"inner"} ELSE {})

\* A timer of a child, or of its batch.
DelTimeout(c, i) ==
  /\ DelRunning(c) /\ delCalls[c].kids[i].status = "open"
  /\ delCalls[c].kids[i].timeout # <<>>
  /\ \E which \in {{i}} \cup (IF delCalls[c].request.shape = "batch"
                                 /\ delCalls[c].request.timeout # <<>>
                              THEN {DOMAIN delCalls[c].kids} ELSE {}) :
       DelAbort(c, which, "timeout")
  /\ UNCHANGED <<delRoot, delSaved>>

\* The user interrupts the root, or stops the task in the background.
DelInterrupt ==
  /\ "outer" \notin delTold
  /\ IF DelRunning("outer")
     THEN /\ delCalls' = [d \in DelNames |->
               IF DelRunning(d)
                  /\ (d = "inner" => delCalls["outer"].kids[1].status = "open")
               THEN [delCalls[d] EXCEPT !.kids = DelCut(@, DOMAIN @, "aborted")]
               ELSE delCalls[d]]
          /\ delTold' = delTold \cup {"outer"}
               \cup (IF delCalls["outer"].kids[1].status = "open" THEN {"inner"} ELSE {})
     ELSE delTold' = delTold \cup {"outer"} /\ UNCHANGED delCalls
  /\ UNCHANGED <<delRoot, delSaved>>

\* runPipeline goes on.
DelNextStage(c) ==
  LET call == delCalls[c] IN
  /\ DelRunning(c) /\ call.request.shape = "pipeline" /\ Last(call.kids).status = "completed"
  /\ Len(call.kids) < Len(call.request.subs) /\ c \notin delTold
  /\ \E found \in BOOLEAN :
       DelSet(c, [call EXCEPT !.kids = Append(@, DelChild(c, call.request, Len(@) + 1, found))])
  /\ UNCHANGED <<delRoot, delTold, delSaved>>

DelSettled(c) ==
  LET call == delCalls[c] IN
  /\ \A i \in DOMAIN call.kids : call.kids[i].status # "open"
  /\ \/ call.request.shape # "pipeline" \/ Last(call.kids).status # "completed"
     \/ Len(call.kids) = Len(call.request.subs) \/ c \in delTold

\* AgentTool.call after run.
DelReturn(c) ==
  LET call == delCalls[c] IN
  /\ call.state = "open" /\ DelSettled(c)
  /\ DelPersist(c, call.request, call.kids, DelResult(call.request, call.kids))
  /\ UNCHANGED <<delRoot, delTold>>

\* The work of a background task returns or throws to the scheduler, which
\* keeps the result; nothing is written.
DelBackgroundEnds ==
  LET call == delCalls["outer"] IN
  /\ call.state = "background" /\ DelSettled("outer")
  /\ DelSet("outer", [DelOver(call.request,
                              IF DelResult(call.request, call.kids).reason = "completed"
                              THEN "ok" ELSE "error", call.kids) EXCEPT !.state = "ended"])
  /\ UNCHANGED <<delRoot, delTold, delSaved>>

DelKidSteps(c) ==
  /\ delCalls[c].state # "unused"
  /\ \E i \in DOMAIN delCalls[c].kids :
       \/ DelWrite(c, i)
       \/ \E how \in {"completed", "failed"} : DelEnds(c, i, how)
       \/ DelTimeout(c, i)

DelNext ==
  \/ \E c \in DelNames : \E request \in IF c = "outer" THEN DelOuter ELSE DelInner :
       DelRefuse(c, request) \/ DelBegin(c, request) \/ DelAtOnce(c, request)
  \/ \E c \in DelNames : DelKidSteps(c)
  \/ \E c \in DelNames : delCalls[c].state # "unused" /\ (DelNextStage(c) \/ DelReturn(c))
  \/ DelInterrupt \/ DelBackgroundEnds

DelSpec == DelInit /\ [][DelNext]_delVars
-----------------------------------------------------------------------------
(* Properties *)

DelAllDone(call) ==
  /\ Len(call.kids) = Len(DelTasks(call.request))
  /\ \A i \in DOMAIN call.kids : call.kids[i].status = "completed"

\* A caller is told that all went well exactly when every task of its request
\* was done by a child that completed, whatever cut off, failed or was never
\* started, except that nobody hears it if the records could not be written.
DelAnswersTrue ==
  \A c \in DelNames : delCalls[c].state \in {"over", "failed", "ended"} /\ delCalls[c].kids # <<>> =>
    (delCalls[c].answer = "ok" <=> DelAllDone(delCalls[c]) /\ delCalls[c].state # "failed")

DelOf(c, kind) == {i \in DOMAIN delSaved : delSaved[i].call = c /\ delSaved[i].kind = kind}

\* The record of the whole and its evidence say what the caller was told.
DelWholeTold(c) ==
  LET call == delCalls[c]
      ok == call.answer = "ok"
      top == {i \in DelOf(c, "evidence") : delSaved[i].kid = 0}
      whole == DelOf(c, "single") \cup DelOf(c, "coordinator")
  IN  /\ Cardinality(top) <= 1 /\ \A i \in top \cup whole : delSaved[i].success = ok
      /\ \A i \in DelOf(c, "coordinator") :
           delSaved[i].counts[1] + delSaved[i].counts[2] = Len(call.kids)
      /\ delRoot.saver =>
           Cardinality(whole) = IF call.request.shape = "batch"
                                   /\ call.request.debug = <<FALSE>> THEN 0 ELSE 1

\* Every child of a batch has one record, that says how it ended.
DelChildrenTold(c) ==
  LET call == delCalls[c] IN
  delRoot.saver /\ call.request.shape = "batch" => \A k \in DOMAIN call.kids :
    \E i \in DelOf(c, "child") :
      /\ \A j \in DelOf(c, "child") : delSaved[j].kid = k <=> j = i
      /\ delSaved[i].success = (call.kids[k].status = "completed")
      /\ delSaved[i].status = "aborted" <=> call.kids[k].status = "aborted"

\* Of a call that was answered, the session file has one record for every child and
\* one for the whole, the evidence at most that, and these agree with the children
\* and with what the caller was told; counts add up; and of a call that has not been
\* answered or runs in the background there is none (persistSubAgentRuns).
DelRecordsAgree ==
  \A c \in DelNames :
    IF delCalls[c].state = "over" /\ delCalls[c].kids # <<>>
    THEN DelWholeTold(c) /\ DelChildrenTold(c)
    ELSE delCalls[c].state \in {"unused", "open", "background", "ended"} =>
           \A i \in DOMAIN delSaved : delSaved[i].call # c

\* The records of what a child delegated come before its own, unless it was cut
\* off: then its caller's records may say so before it has written anything.
DelInOrder ==
  \A i \in DOMAIN delSaved : \A j \in DOMAIN delSaved :
    /\ delSaved[i].call = "outer" /\ delSaved[j].call = "inner" /\ i < j
    /\ \/ delSaved[i].kind = "single"
       \/ delSaved[i].kind = "child" /\ delSaved[i].kid = 1
    => ~ delSaved[i].success

\* No child has more than the tools it was asked to have: at the first depth it
\* writes only if its own task was asked to, and only with a rule of the user;
\* at the second it neither writes nor delegates, has three turns at most and a
\* timer in any case, whatever was asked for (Depth Tiers).
DelChildLimited(c, i) ==
  LET kid == delCalls[c].kids[i]
      request == delCalls[c].request
      sub == IF request.shape = "single" THEN request ELSE request.subs[i]
  IN  /\ kid.turns \in 1 .. (IF c = "outer" THEN 8 ELSE 3)
      /\ DelWriting \cap kid.tools # {} =>
           /\ c = "outer"
           /\ <<TRUE>> \in {sub.write, request.write} /\ sub.write # <<FALSE>>
      /\ kid.wrote => DelWriting \cap kid.tools # {} /\ delRoot.rule = "write-allowed"
      /\ c = "inner" => "Agent" \notin kid.tools /\ kid.timeout # <<>> /\ kid.timeout[1] <= 15
      /\ sub.tools # <<>> => kid.tools \subseteq sub.tools[1]

DelWithinLimits ==
  \A c \in DelNames : delCalls[c].state # "unused" =>
    \A i \in DOMAIN delCalls[c].kids : DelChildLimited(c, i)

\* What the caller, the session file and the evidence say of delegated work
\* agrees with the work, and the work stays within what was asked for.
DelegationTold == DelAnswersTrue /\ DelRecordsAgree /\ DelInOrder /\ DelWithinLimits
=============================================================================
