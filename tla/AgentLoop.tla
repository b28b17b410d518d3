------------------------------ MODULE AgentLoop ------------------------------
(***************************************************************************)
(* The agent loop and the tool orchestration it calls: agentLoop of        *)
(* src/agent/loop.ts with runToolCalls and executeSingle of                *)
(* src/tools/orchestration.ts, the repetition guards, the permission       *)
(* prompt and the hooks around a tool call.                                *)
(*                                                                         *)
(* agentLoop is an async generator: between two awaits or yields nothing   *)
(* else runs, so that stretch is one action.  What the model says, what a  *)
(* permission rule, a hook or a tool answers is nondeterministic; a tool   *)
(* call is a tool and an input, and its id is its position in the answer.  *)
(* A definition X that is preceded by another named X and a change         *)
(* (BatchDoneFirstSettled before BatchDone) has there a version of itself  *)
(* with one plausible fault, to measure the properties against.            *)
(***************************************************************************)
EXTENDS Integers, FiniteSets, SequencesExt

CONSTANTS
  Tools,            \* names of registered tools
  SafeTools,        \* those whose isConcurrencySafe answers true
  Inputs,           \* inputs the model gives a tool
  MaxTurns,         \* maxTurns
  MaxCalls,         \* bound on the tool calls of one run
  MaxAnswer,        \* bound on the tool calls of one answer
  MaxConcurrency,   \* MAX_CONCURRENCY
  MaxDuplicates,    \* MAX_TOOL_CALL_DUPLICATES
  HistoryLimit      \* DEFAULT_HISTORY_LIMIT

ASSUME ToolsAssumption == SafeTools \subseteq Tools
ASSUME BoundsAssumption == /\ MaxTurns \in Nat
                           /\ MaxCalls \in Nat
                           /\ MaxAnswer \in 0..MaxCalls
                           /\ MaxConcurrency \in Nat \ {0}
                           /\ MaxDuplicates \in Nat \ {0}
                           /\ HistoryLimit \in Nat \ {0}

Call   == [tool: Tools, input: Inputs]
CallId == 1..MaxAnswer

\* Who consumes the events: the terminal UI, a one-shot prompt, or a sub-agent
\* (nonInteractive).
Consumer == {"tui", "print", "child"}

\* Where a call of the current answer has got to in executeSingle.
Stage == {"idle", "hook", "calling", "post", "settled"}

VARIABLES
  consumer,
  pc,         \* where agentLoop is suspended
  reason,     \* reason it returned with
  turn,       \* turnCount
  requests,   \* provider requests sent so far
  aborted,    \* state.abortController
  history,    \* toolLoopGuard: last tool names
  dedup,      \* toolCallDedup: last call and its consecutive count
  calls,      \* tool calls of the current answer
  spent,      \* calls of earlier answers, for MaxCalls
  decided,    \* how many blocks the permission pass has decided
  verdict,    \* what permissionEngine.check said of each block not denied
  consent,    \* blocks the user said yes to
  approved,   \* approvedBlocks that runToolCalls has not looked up
  todo,       \* approved calls with a tool and a valid input, not started
  batch,      \* calls of the running batch, in order
  stage,      \* position of each call in executeSingle
  ran,        \* calls whose tool.call began
  results     \* toolResults: ids in order

guards == <<history, dedup>>
answer == <<calls, spent>>
passed == <<decided, verdict, consent, approved>>
exec   == <<todo, batch, stage, ran>>
vars   == <<consumer, pc, reason, turn, requests, aborted, guards, answer,
            passed, exec, results>>

Safe(i) == calls[i].tool \in SafeTools
Done(r) == /\ pc' = "done"
           /\ reason' = r

\* The local variables of a turn, which const and let make afresh.
NewTurn(answered) ==
  /\ calls' = answered
  /\ spent' = spent + Len(calls)
  /\ decided' = 0
  /\ verdict' = [i \in CallId |-> "none"]
  /\ consent' = {}
  /\ approved' = <<>>
  /\ todo' = <<>>
  /\ batch' = <<>>
  /\ stage' = [i \in CallId |-> "idle"]
  /\ ran' = {}
  /\ results' = <<>>

Init ==
  /\ consumer \in Consumer
  /\ pc = "top"
  /\ reason = "none"
  /\ turn = 0
  /\ requests = 0
  /\ aborted = FALSE
  /\ history = <<>>
  /\ dedup = [last |-> <<>>, count |-> 0]
  /\ calls = <<>> /\ spent = 0
  /\ decided = 0
  /\ verdict = [i \in CallId |-> "none"]
  /\ consent = {}
  /\ approved = <<>>
  /\ todo = <<>> /\ batch = <<>>
  /\ stage = [i \in CallId |-> "idle"]
  /\ ran = {}
  /\ results = <<>>

-----------------------------------------------------------------------------
(* Repetition guards *)

\* ToolCallPatternGuard.record: the last HistoryLimit tool names.
Remember(h, tool) ==
  LET longer == Append(h, tool)
  IN  SubSeq(longer, IF Len(longer) > HistoryLimit
                     THEN Len(longer) - HistoryLimit + 1 ELSE 1, Len(longer))

\* findRepeatedSuffix: the last n names, of which two differ, occur twice in a
\* row at the end of the history.
RepeatedSuffix(h, n) ==
  /\ Len(h) >= 2 * n
  /\ \A k \in 1..n : h[Len(h) - n + k] = h[Len(h) - 2 * n + k]
  /\ Cardinality({h[Len(h) - n + k] : k \in 1..n}) >= 2

LoopDetected(h) == RepeatedSuffix(h, 3) \/ RepeatedSuffix(h, 2)

\* ToolCallDedup.record.
Repeat(d, c) == IF d.last = <<c>> THEN [d EXCEPT !.count = @ + 1]
                ELSE [last |-> <<c>>, count |-> 1]

-----------------------------------------------------------------------------
(* Provider requests *)

TopNoAbortCheck ==
  /\ pc = "top"
  /\ \/ /\ turn = MaxTurns
        /\ Done("max_turns")
        /\ UNCHANGED <<turn, requests>>
     \/ /\ turn < MaxTurns
        /\ turn' = turn + 1
        /\ pc' = "streaming"
        /\ requests' = requests + 1
        /\ UNCHANGED reason
  /\ UNCHANGED <<consumer, aborted, guards, answer, passed, exec, results>>

TopOneTurnMore ==
  /\ pc = "top"
  /\ \/ /\ turn > MaxTurns
        /\ Done("max_turns")
        /\ UNCHANGED <<turn, requests>>
     \/ /\ turn <= MaxTurns
        /\ turn' = turn + 1
        /\ pc' = "streaming"
        /\ requests' = requests + 1
        /\ UNCHANGED reason
  /\ UNCHANGED <<consumer, aborted, guards, answer, passed, exec, results>>

\* Head of the while loop, up to the stream of the first request.  The abort
\* signal is looked at here and after a failed stream, nowhere else.
Top ==
  /\ pc = "top"
  /\ \/ /\ turn = MaxTurns
        /\ Done("max_turns")
        /\ UNCHANGED <<turn, requests>>
     \/ /\ turn < MaxTurns
        /\ turn' = turn + 1
        /\ \/ /\ aborted
              /\ Done("aborted")
              /\ UNCHANGED requests
           \/ /\ ~aborted
              /\ pc' = "streaming"
              /\ requests' = requests + 1
              /\ UNCHANGED reason
  /\ UNCHANGED <<consumer, aborted, guards, answer, passed, exec, results>>

\* The stream of the first request throws: one more request, sent whatever the
\* error was.  withRetry only sees the creation of that stream succeed.
StreamFails ==
  /\ pc = "streaming"
  /\ \/ /\ aborted
        /\ Done("aborted")
        /\ UNCHANGED requests
     \/ /\ ~aborted
        /\ pc' = "retrying"
        /\ requests' = requests + 1
        /\ UNCHANGED reason
  /\ UNCHANGED <<consumer, turn, aborted, guards, answer, passed, exec, results>>

\* The stream of the second request throws.
RetryFails ==
  /\ pc = "retrying"
  /\ Done("error")
  /\ UNCHANGED <<consumer, turn, requests, aborted, guards, answer, passed,
                 exec, results>>

\* The cost tracker is over budget and stopOnBudgetExceeded is set: the answer
\* is dropped before it becomes a message.
OverBudget ==
  /\ pc \in {"streaming", "retrying"}
  /\ Done("aborted")
  /\ UNCHANGED <<consumer, turn, requests, aborted, guards, answer, passed,
                 exec, results>>

\* The stream ends with an answer: without tool calls the turn is complete.
Answer ==
  /\ pc \in {"streaming", "retrying"}
  /\ \E n \in 0..MaxAnswer : \E answered \in [1..n -> Call] :
          /\ spent + Len(calls) + n <= MaxCalls
          /\ NewTurn(answered)
          /\ IF n = 0 THEN Done("completed")
             ELSE pc' = "deciding" /\ UNCHANGED reason
  /\ UNCHANGED <<consumer, turn, requests, aborted, guards>>

-----------------------------------------------------------------------------
(* The permission pass: one block at a time *)

Block == decided + 1

\* A block gets an error result instead of being run.
Refuse == /\ decided' = Block
          /\ results' = Append(results, Block)
          /\ UNCHANGED approved

Approve == /\ decided' = Block
           /\ approved' = Append(approved, Block)
           /\ UNCHANGED results

\* One block through the guards and permissionEngine.check.  The history grows
\* in any case, the duplicate count only when no pattern was found.
Decide ==
  /\ pc = "deciding"
  /\ decided < Len(calls)
  /\ history' = Remember(history, calls[Block].tool)
  /\ \/ /\ LoopDetected(history')
        /\ Refuse
        /\ UNCHANGED <<pc, dedup, verdict>>
     \/ /\ ~LoopDetected(history')
        /\ dedup' = Repeat(dedup, calls[Block])
        /\ \/ /\ dedup'.count > MaxDuplicates
              /\ Refuse
              /\ UNCHANGED <<pc, verdict>>
           \/ /\ dedup'.count <= MaxDuplicates
              /\ \E behavior \in {"allow", "ask", "deny"} :
                   /\ \/ /\ behavior = "allow"
                         /\ verdict' = [verdict EXCEPT ![Block] = "allow"]
                         /\ Approve
                         /\ UNCHANGED pc
                      \/ /\ \/ behavior = "deny"
                            \/ behavior = "ask" /\ consumer = "child"
                         /\ Refuse
                         /\ UNCHANGED <<pc, verdict>>
                      \/ /\ behavior = "ask" /\ consumer # "child"
                         /\ verdict' = [verdict EXCEPT ![Block] = "ask"]
                         /\ pc' = "asking"
                         /\ UNCHANGED <<decided, approved, results>>
  /\ UNCHANGED <<consumer, reason, turn, requests, aborted, answer, consent,
                 exec>>

\* The user answers the prompt.  Only the terminal UI shows one, and it resumes
\* the generator after the answer.
UserAnswers ==
  /\ pc = "asking"
  /\ consumer = "tui"
  /\ pc' = "deciding"
  /\ \/ Approve /\ consent' = consent \cup {Block}
     \/ Refuse /\ UNCHANGED consent
  /\ UNCHANGED <<consumer, reason, turn, requests, aborted, guards, answer,
                 verdict, exec>>

AutoDenyResolvesTrue ==
  /\ pc = "asking"
  /\ consumer = "print"
  /\ pc' = "deciding"
  /\ Approve
  /\ UNCHANGED <<consumer, reason, turn, requests, aborted, guards, answer,
                 verdict, consent, exec>>

\* The timer that denies a prompt nobody answers.  It is set after the yield of
\* permission_ask returns: at once for a consumer that ignores the event, and
\* for the UI not before the answer is there.
AutoDeny ==
  /\ pc = "asking"
  /\ consumer = "print"
  /\ pc' = "deciding"
  /\ Refuse
  /\ UNCHANGED <<consumer, reason, turn, requests, aborted, guards, answer,
                 verdict, consent, exec>>

\* Every block is decided: runToolCalls looks up the approved ones in turn, answers
\* a call of an unknown tool or with an invalid input, and keeps the others.
Resolve ==
  /\ pc = "deciding"
  /\ decided = Len(calls)
  /\ \/ /\ approved # <<>>
        /\ approved' = Tail(approved)
        /\ \/ todo' = Append(todo, Head(approved)) /\ UNCHANGED results
           \/ results' = Append(results, Head(approved)) /\ UNCHANGED todo
        /\ UNCHANGED pc
     \/ /\ approved = <<>>
        /\ pc' = "executing"
        /\ UNCHANGED <<approved, todo, results>>
  /\ UNCHANGED <<consumer, reason, turn, requests, aborted, guards, answer,
                 decided, verdict, consent, batch, stage, ran>>

-----------------------------------------------------------------------------
(* runToolCalls *)

NextBatchIgnoringSafety(s) ==
  SubSeq(s, 1, IF Len(s) < MaxConcurrency THEN Len(s) ELSE MaxConcurrency)

\* The calls that start together: the leading safe ones, MaxConcurrency at
\* most, or a single unsafe one.
NextBatch(s) ==
  LET safePrefix == {n \in 1..Len(s) : /\ n <= MaxConcurrency
                                       /\ \A k \in 1..n : Safe(s[k])}
  IN  IF safePrefix = {} THEN SubSeq(s, 1, 1)
      ELSE SubSeq(s, 1, Cardinality(safePrefix))

\* Promise.all, or the next serial call: executeSingle of each is called and
\* suspends in its PreTool hooks.
StartBatch ==
  /\ pc = "executing"
  /\ batch = <<>>
  /\ todo # <<>>
  /\ batch' = NextBatch(todo)
  /\ todo' = SubSeq(todo, Len(batch') + 1, Len(todo))
  /\ stage' = [i \in CallId |-> IF i \in ToSet(batch') THEN "hook" ELSE stage[i]]
  /\ UNCHANGED <<consumer, pc, reason, turn, requests, aborted, guards, answer,
                 passed, ran, results>>

\* The PreTool hooks of call i have run: one blocks, or tool.call begins.
HooksDone(i) ==
  /\ stage[i] = "hook"
  /\ \/ /\ stage' = [stage EXCEPT ![i] = "settled"]
        /\ UNCHANGED ran
     \/ /\ stage' = [stage EXCEPT ![i] = "calling"]
        /\ ran' = ran \cup {i}
  /\ UNCHANGED <<consumer, pc, reason, turn, requests, aborted, guards, answer,
                 passed, todo, batch, results>>

\* tool.call fulfils or rejects; either way the PostTool hooks run.
CallDone(i) ==
  /\ stage[i] = "calling"
  /\ stage' = [stage EXCEPT ![i] = "post"]
  /\ UNCHANGED <<consumer, pc, reason, turn, requests, aborted, guards, answer,
                 passed, todo, batch, ran, results>>

\* The PostTool hooks have run and executeSingle has a result.
PostDone(i) ==
  /\ stage[i] = "post"
  /\ stage' = [stage EXCEPT ![i] = "settled"]
  /\ UNCHANGED <<consumer, pc, reason, turn, requests, aborted, guards, answer,
                 passed, todo, batch, ran, results>>

BatchDoneFirstSettled ==
  /\ batch # <<>>
  /\ \E i \in ToSet(batch) : stage[i] = "settled"
  /\ results' = results \o SelectSeq(batch, LAMBDA i : stage[i] = "settled")
  /\ batch' = <<>>
  /\ UNCHANGED <<consumer, pc, reason, turn, requests, aborted, guards, answer,
                 passed, todo, stage, ran>>

BatchDoneWhenAllRan ==
  /\ batch # <<>>
  /\ \A i \in ToSet(batch) : i \in ran /\ stage[i] = "settled"
  /\ results' = results \o batch
  /\ batch' = <<>>
  /\ UNCHANGED <<consumer, pc, reason, turn, requests, aborted, guards, answer,
                 passed, todo, stage, ran>>

\* The whole batch has settled: its results are yielded in call order.
BatchDone ==
  /\ batch # <<>>
  /\ \A i \in ToSet(batch) : stage[i] = "settled"
  /\ results' = results \o batch
  /\ batch' = <<>>
  /\ UNCHANGED <<consumer, pc, reason, turn, requests, aborted, guards, answer,
                 passed, todo, stage, ran>>

\* Nothing is left to run: the results become one user message.
AppendResults ==
  /\ pc = "executing"
  /\ todo = <<>> /\ batch = <<>>
  /\ pc' = "top"
  /\ UNCHANGED <<consumer, reason, turn, requests, aborted, guards, answer,
                 passed, exec, results>>

-----------------------------------------------------------------------------

\* Ctrl+C, the watchdog or the parent of a sub-agent.
Abort ==
  /\ pc # "done"
  /\ ~aborted
  /\ aborted' = TRUE
  /\ UNCHANGED <<consumer, pc, reason, turn, requests, guards, answer, passed,
                 exec, results>>

LoopStep ==
  \/ Top \/ StreamFails \/ RetryFails \/ OverBudget \/ Answer
  \/ Decide \/ AutoDeny \/ Resolve
  \/ StartBatch \/ BatchDone \/ AppendResults

ToolStep(i) == HooksDone(i) \/ CallDone(i) \/ PostDone(i)

Next == \/ LoopStep
        \/ \E i \in CallId : ToolStep(i)
        \/ UserAnswers
        \/ Abort

\* Streams end, hooks have a timeout and tools settle; the user need not answer.
Fairness == /\ WF_vars(LoopStep)
            /\ \A i \in CallId : WF_vars(ToolStep(i))

Spec == Init /\ [][Next]_vars /\ Fairness

-----------------------------------------------------------------------------

TypeOK ==
  /\ consumer \in Consumer
  /\ pc \in {"top", "streaming", "retrying", "deciding", "asking", "executing",
             "done"}
  /\ reason \in {"none", "max_turns", "aborted", "error", "completed"}
  /\ turn \in 0..MaxTurns
  /\ requests \in 0..(2 * MaxTurns)
  /\ aborted \in BOOLEAN
  /\ history \in Seq(Tools)
  /\ Len(history) <= HistoryLimit
  /\ dedup \in [last: {<<>>} \cup {<<c>> : c \in Call}, count: 0..MaxCalls]
  /\ calls \in Seq(Call)
  /\ spent \in 0..MaxCalls
  /\ spent + Len(calls) <= MaxCalls
  /\ decided \in 0..Len(calls)
  /\ verdict \in [CallId -> {"none", "allow", "ask"}]
  /\ consent \in SUBSET CallId
  /\ approved \in Seq(CallId)
  /\ todo \in Seq(CallId)
  /\ batch \in Seq(CallId)
  /\ stage \in [CallId -> Stage]
  /\ ran \in SUBSET CallId
  /\ results \in Seq(CallId)

\* The message protocol of the providers: at the next request every tool call
\* of the last answer has exactly one result, whether it was refused by a
\* guard, a rule or the user, unknown, invalid, blocked by a hook or run.
EveryCallAnswered ==
  pc = "top" => /\ Len(results) = Len(calls)
                /\ ToSet(results) = 1..Len(calls)

\* No tool runs without permission: one that ran was allowed by the rules, or
\* the rules said ask and the user said yes to this very call.
ConsentBeforeEffect ==
  \A i \in ran : \/ verdict[i] = "allow"
                 \/ verdict[i] = "ask" /\ i \in consent

\* A call that is not concurrency safe runs alone and in the order of the
\* answer: of two approved calls one of which is unsafe, the later does not
\* start, hooks included, before the earlier has settled.
UnsafeRunsAlone ==
  \A i, j \in 1..Len(calls) :
    (i < j /\ {i, j} \subseteq ToSet(batch) \cup ToSet(todo) \cup ran
           /\ ~(Safe(i) /\ Safe(j)) /\ stage[j] # "idle")
      => stage[i] = "settled"

\* Every value in its range, and tools only with leave and in order.
EffectsOrderly == TypeOK /\ ConsentBeforeEffect /\ UnsafeRunsAlone

\* No request is sent once the abort signal has fired, on any path back to the
\* provider.
NoRequestAfterAbort == [][aborted => requests' = requests]_vars

\* A run ends, unless it waits for its user: the turn limit bounds the requests
\* and every refused, failed or blocked call still lets the turn go on.
EndsUnlessUserAway ==
  <>[](pc = "done") \/ <>[](pc = "asking" /\ consumer = "tui")

-----------------------------------------------------------------------------
(* What the source says of itself *)

\* loop.ts:578, on the prompt: "Auto-deny after 5 minutes if no response
\* (safety net)".
PromptsTimeOut == pc = "asking" ~> pc # "asking"

=============================================================================
