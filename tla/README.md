# Verification of coreline-agent

coreline-agent is a coding agent for the terminal, written in TypeScript: a model
provider streams answers, the answers call tools, tools may delegate to sub-agents
or to MCP servers, and plans of several tasks are executed, saved and resumed. It is
one JavaScript process with one event loop. Nothing runs in parallel inside it, but
every `await` and `yield` is a point where anything else may run, and that is where
its difficulties are: settled promises that are looked at later, aborts and timers that
race results, registries and files that several runs share, and restarts that know only
what was saved.

This directory has TLA+ models of the parts that carry this logic, the TLC
configurations that check them, and proofs for TLAPS. Paths below are relative to
`src/src/` unless they start with `src/`.

- [1 Inventory](#1-inventory) – the components, their state, operations and hazards
- [2 Plan](#2-plan) – modules, order, compositions, runs, theorems
- [3 The modules](#3-the-modules) – state, actions, properties, bounds, fairness
- [4 What is proved](#4-what-is-proved)
- [5 Disagreements found](#5-disagreements-found)
- [6 What is not modelled](#6-what-is-not-modelled)
- [7 Running the checks](#7-running-the-checks)

## 1 Inventory

How the parts are put together:

```
 index.ts / tui/repl.tsx / proxy ──── start runs, hold the conversation, save sessions
      │            │
      │            └── plan-execute/*  a plan's tasks, each one run of agentLoop
      ▼                                │
 agent/loop.ts  ◄──────────────────────┘
      │  requests a provider, decides permissions, runs tool calls
      ├── providers/*        stream of chunks
      ├── permissions/*      allow, ask, deny
      ├── hooks/*            PreTool, PostTool, PermissionRequest, ...
      └── tools/orchestration.ts ── tools/*
                                     ├── Agent tool ── subagent-runtime.ts ── agentLoop again
                                     │                 parallel/scheduler.ts (background tasks)
                                     ├── MCP tools ── mcp/connection.ts ── stdio-transport.ts ── child process
                                     └── memory tools ── memory/* ── files under a lock
```

### Components that are modelled

| Component | State | Operations | What must hold |
|---|---|---|---|
| Parallel agent runtime `agent/parallel` | records, runtime handles, order of terminal records; queue, slots, idle waiters | submit, stop, session shutdown, promise chain of a task, progress, waitForIdle | slots bounded and never idle while work waits; terminal records frozen; retention exact; every completion settles, every waiter is woken |
| Agent loop and orchestration `agent/loop.ts`, `tools/orchestration.ts`, the two repetition guards | turn, abort signal, decided blocks, verdicts, running batch, results | request, retry, decide, prompt, auto-deny, start and settle calls, abort | one result per call; no effect without consent; unsafe calls alone; no request after abort; ends |
| Conversation `tui/repl.tsx`, `agent/context-manager.ts`, `agent/context-snip.ts`, `session/*` | messages of the UI, compacted copy, snip markers shared by all runs, session file | prompt, plan step, compaction, persisting a message, restart, throw, `/compact` | requests contain saved messages only, the newest is in them, memory and file agree |
| MCP client `mcp/*`, `tools/mcp*` | table of sessions, handshake promise, inventory cache, pending requests, child process | connect, handshake, list with pages, call, timeout, late answer, exit, garbage, close | a request is answered once and never lost; handshake first; silent once closed; calls return |
| Plan execution `agent/plan-execute`, plan parts of `index.ts` and `repl.tsx` | plan, cursor, attempts, cycle, loop guard, plan run record in the session | start, task outcomes, retry, replan, cycle, save, crash, `--resume` | dependencies first, no work twice, record keeps up, nothing forgotten, ends |
| Sub-agents `agent/subagent-runtime.ts`, `agent/pipeline-runner.ts` | abort handle, loop and result of each child; window and cause of each batch | batch in windows, pipeline, nested call, timers, abort | answers tell the truth; no orphan works on; aborted callers return |
| Project memory `memory/project-memory.ts`, `auto-promote.ts`, `decay.ts`, tiers | entry files, index rows, tombstones, list cached by each process | write, summarise, touch, promote, demote, decay, bury, restore, compact, select | the newest body of a memory is in its file or among the tombstones, but for two losses that are known |
| Links and file lock `memory/links*.ts`, `memory/file-lock.ts` | `forward.json`, `backlinks.json`, their temporary files and lock directories | scan, rebuild, stale removal, time-out, queries | no file torn by two writers, queries agree |
| Record stores `agent/incident`, `agent/decision`, `agent/runbook` | one file per record, failure counters | record, update, link, re-decide, match, escalate | what an incident says of a decision is confirmed by the decision; one runbook a pattern |
| Commands: sandbox of runbooks, fork verifier, test loop, Bash, Git, command hooks, CLI providers | child process, timer, signal, attempts | spawn, exit, time-out, abort, kill, next attempt | a reported success was one |
| Remote agents `agent/remote`, `agent/pipeline-runner.ts` | health and turns of endpoints, windows of tasks | batch, retry, backoff, abort, health check | a task is given up only for a cause its requests bear out |
| Permissions `permissions/*` | rules, mode, classification of a shell command | check of a call | harmless parts only are allowed; deny over ask over allow |
| Proxy and providers `proxy/*`, `providers/*` | request, parser, mapper, batch, credentials | accept, convert, stream, batch, refresh | nothing lost or out of order; block structure of the protocols; credentials stay good |
| File tools `tools/file-*`, `agent/tool-cache.ts`, `agent/file-backup.ts`, `agent/file-transaction.ts` | disk, cache, what was read, backups | read, edit, write, undo, transaction, restart | changes can be taken back, rest on what was seen, show in the next read |
| Agent tool `tools/agent/agent-tool.ts`, `agent/parallel/background-runner.ts` | requests, limits of children, records and evidence | call, refuse, run in the background, child ends or is cut, persist | caller, session file and evidence agree with the children; children stay within what was asked |
| Verdicts `plan-execute/evaluator.ts`, `agent/reliability/*` | tasks and steps of a run | evaluate, derive status, judge, pack, advise | four readers of one run differ for three known reasons only |
| Session records `session/*` | lines of the session file, running record | append, crash, load, search, replay, export | what is read is what was written |
| Self-improvement `agent/self-improve/*` | evidence files, archive, sessions tracked, variants | record, finalise, rotate, judge convergence, deal variants | no record counted twice or passed over, none lost but by a write that is cut off or another process |
| Supervision `agent/lifecycle.ts`, `agent/status*.ts`, `agent/watchdog.ts`, `agent/cost-tracker.ts`, `index.ts`, `tui/app.tsx` | cleanups, listeners, status file, timer, account | run, touch, fire, signal, kill, destroy, exit | the end is told once and last, unless a signal ends the terminal; the watchdog fires only on silence; costs add up |

### Components that are not modelled

| Component | What it is | Why it is left out |
|---|---|---|
| Hook engine | list of registered hooks, dispatch | AgentLoop takes any answer of a hook and Commands has the command executor; the list itself is one assignment a call |
| Memory content | facts, digest, search, recall, loaders | scores and renders texts |
| Root causes and critique | hypotheses, reviews | asks a model, changes nothing |
| Provider registry and retry | chooses a provider, repeats a request | AgentLoop takes the stream or the error it ends in |
| Traces, slop detection; planner; other tools; worktrees and collectors; configuration and roles; prompts, skills, scaffold; terminal UI; dashboard | texts, patterns, I/O | nothing a state model would say, see section 6 |

`PROJECT.json` lists every component with its files, and under `hazards` each line at which
something can go wrong that a test would hardly reach.

### Where the hard behaviour is

* **Await points.** `pump()` hangs `work → then/catch → finally` on a task and `stop()` runs
  between any two (`scheduler.ts:109`). A batch of tool calls settles as a whole while single
  calls interleave (`orchestration.ts:206`). Several calls wait for one handshake
  (`mcp/connection.ts:82`).
* **Races of a result with an abort or a timer.** `Promise.race` of a child's loop and its abort
  handle (`subagent-runtime.ts:871`); an MCP answer after its timeout (`stdio-transport.ts:97`);
  a permission prompt and its auto-deny (`loop.ts:579`).
* **Stale data.** Markers with indices into a transcript that compaction shifts
  (`context-snip.ts:217`); a plan run record updated by task id after the plan was replaced
  (`index.ts:1209`); a record captured before a transition (`scheduler.ts:185`).
* **Crashes.** The session file is written message by message and step by step
  (`repl.tsx:2186`, `index.ts:1223`); a memory is a file and a row of the index
  (`project-memory.ts:252`), a decision one file and each of its incidents another (`decision-store.ts:386`),
  a rotation several archives and then several live files (`evidence-rotation.ts:349`). Most of these files are written in place, so that one may also be left empty or half written.
* **Processes that share a directory.** Memory, links, evidence and credentials have no owner; only the links have a lock
  (`file-lock.ts:47`).
* **Things that may end twice.** A child that exits just before its timer or signal (`fork-verifier.ts:198`); a signal's
  handler that starts `destroy()` while `main` goes on and starts it again (`index.ts:943`), or while the terminal's own handler exits (`tui/app.tsx:87`).
* **Several readers of one fact.** Judge, pack, record and advice of one run (`completion-judge.ts:177`); search, replay and
  export of one session (`replay.ts:42`).
* **Bounds.** Slots, retained records, retries, replans and cycles, context window, turns.

## 2 Plan

Order, by how much of the rest depends on a part. Steps 1–9 are done.

1. `ParallelScheduler`, `SequenceLemmas`, `ParallelSchedulerProofs` – the core: the runtime
   of background agents, with its invariant proved.
2. `AgentLoop`, `AgentLoopProofs` – the loop everything else is called from.
3. `Conversation` – what the loop works on, compaction and restarts.
4. `RequestLedger` (abstract) and `Mcp` (detailed, refines it), `MCMcp`; proved in `ComponentProofs`.
5. `PlanExecute`, `MCPlanExecute`, `PlanExecuteProofs`.
6. `SubAgents`, `MCSubAgents`, `SubAgentsProofs` – delegation, with all its safety proved.
7. *More proofs*: `AgentLoop` (EveryCallAnswered, EffectsOrderly, NoRequestAfterAbort), `Mcp` (TransportOrderly,
   SilentOnceClosed, the refinement of RequestLedger), `PlanExecute` (PlanAccounted, StartsInOrder), `Conversation` (all its safety) and, in
   `ComponentProofs`, seven of the components of steps 8 and 9; `Permissions`, which the loop asks, and `TextEdits` (EditsExact), which its FileEdit computes with, in `AgentLoopProofs`; `Proxy`
   (ProxyPassesOn) in `ProxyProofs`; `Delegation` (DelegationTold) with the children it is about, in `SubAgentsProofs`;
   `SelfImprove` (EvidenceSound), whose gate judges runs of plans, and `MemoryStore` (NewestBodyKept) in `PlanExecuteProofs`; `Sessions` (SessionReadsTrue), the file a conversation is read back from, in `ConversationProofs`. What is left is liveness.
8. *Stores and processes around the core*: `MemoryStore`, `LinkIndex`, `RecordStore`, `Sessions`, `SelfImprove`,
   `FileChanges`, `Commands`, `RemoteTasks`, `Delegation`, `Supervision`.
9. *Decisions and conversions*, pure operators compared with reference definitions over enumerated
   inputs: `Permissions`, `TextEdits`, `Verdicts`, `ProviderStreams` with `Proxy`. `MCComponents` checks the modules of
   steps 8 and 9 in one run: they share no state, so every behaviour is one of a single component.
10. *Compositions*: the hook engine and the abort of a plan in the terminal (`repl.tsx:1244`) as AgentLoop under
    PlanExecute.

Abstract specifications: `RequestLedger` for a transport is written and refined. The stores have theirs as state
predicates: an atomic map for memories (`NewestBodyKept`), exclusion for the file lock (`LinkFilesWhole`), an
append-only log for sessions (`ssWritten`, against which all readers are compared), a reference edit for texts
(`TxtExpected`).

Runs stay few and broad: one passing run for each module of the core, one for all the components around it, and one more
for every disagreement with a document. Their bounds are in section 3 with the reason why they are enough.

## 3 The modules

Conventions. An action is what one synchronous stretch of JavaScript does, from one await, yield,
timer or event to the next. Choices the modelled code does not make (what a provider, rule, hook, tool,
server or user answers) are nondeterministic. A definition that stands before another one with the same
name and a suffix (`Excess`/`ExcessOffByOne`) is that definition with one plausible fault; `PROJECT.json`
says which property must fail with it, so every property is known to depend on the code it is about.
Every run switches deadlock checking off: all these systems stop when their
tasks, turns, calls or launches are used up. A property that is a conjunction of several named ones (`EffectsOrderly`,
`SessionComplete`, `TransportOrderly`, `PlanAccounted`, and those of the components) has a comment at each of them; where it has a
type invariant, that is its first part.

### ParallelScheduler – `agent/parallel`

| TLA+ | Code |
|---|---|
| `status`, `progress`, `handles`, `terminalOrder`, `nextId` | `InMemoryParallelAgentTaskRegistry` |
| `queue`, `running` | the scheduler's queue and map of entries with a slot |
| `phase` | how far the promise chain of an entry is |
| `signalled`, `completion`, `waiter` | abort controllers, completion promises, waitForIdle resolvers |
| `Submit`, `Pump` | `submitTask`, `pump` |
| `StopQueued`, `StopRunning`, `SessionShutdown` | `stop`, the `parallel-agent.stop` cleanup in `index.ts` |
| `WorkStart`, `WorkProgress`, `WorkSettle` | the first reaction, the progress sink, the end of the work |
| `RecordResult`, `RecordError`, `ReleaseSlot` | `then`, `catch`, `finally` |

Run `parallel` (3 tasks, 2 slots, 1 retained record, 1 waiter): slots, queue, handles, eviction order
and completions agree in every interleaving; completions settle and waiters return. Two slots and three
tasks are the smallest numbers with a task in the queue while two run; retaining one record makes
pruning happen while the work of the pruned record still runs. The theorems of section 4 cover every other number.
Fairness is one weak fairness per promise chain: the event loop runs every reaction, and the work ends
because a child run has a turn limit. Nothing is assumed of submissions or stops.

### AgentLoop – `agent/loop.ts`, `tools/orchestration.ts`

`pc` says at which await or yield the generator is suspended. `Top`, `StreamFails`, `RetryFails`,
`OverBudget` and `Answer` are the request part; `Decide`, `UserAnswers`, `AutoDeny` and `Resolve` the permission
pass, the last of which looks the approved calls up one by one as `runToolCalls` does; `StartBatch`, `HooksDone`, `CallDone`, `PostDone`, `BatchDone` and `AppendResults` are `runToolCalls` and
`executeSingle`. `consumer` is who pulls the events: terminal UI, one-shot prompt or parent agent; it decides
who can answer a prompt and when its timer is armed.

Run `agent_loop` (two turns, up to three calls an answer and four in all, one safe and one unsafe tool, two at once): every call of an
answer has one result when the next request is made, however it was refused, blocked, failed or run;
what ran was allowed or consented to; an unsafe call never overlaps; no request follows an abort; runs
end unless a prompt waits for the user of the terminal. Three calls allow safe–unsafe–safe and a safe
batch that is cut by the concurrency limit; the second turn shows what the first left behind. Fairness: streams end, hooks
have timeouts, tools settle; the user need not answer and nobody need abort. The loop detector needs four calls of
alternating tools, the duplicate guard three equal ones; both happen within four calls.

### Conversation – `tui/repl.tsx`, context manager, snipping, session file

A message is a kind, an id and a size. `messages` is the UI's list, `saved` the session file, `local` the copy
agentLoop compacts, `registry` the snip markers that chat turns and plan steps share. `Compact` is `compactMessages`
with `Selected`/`Snip` (markers that still match, greedily by priority) and `Trim` (longest suffix that fits). `Restart` is
the end of the process at any point followed by `--resume`; `Throw` an exception out of the run.

Run `conversation` (6 messages, room for 4 tokens, results of size 1 or 5, protection of 2, cap of 2 markers): a result larger than the
window, two compactions and a marker older than either all fit in six messages. There is no liveness to state:
every step is driven by the user or the provider.

### Mcp refines RequestLedger – `mcp/*`

`RequestLedger` says what the code above a transport relies on: a request gets one answer, which is never
changed, and a shut connection answers those that wait and takes no more. `Mcp` has `table` (sessions by server),
`session` (handshake and cache), `link` (transport: pending table, what the process still owes, reader, closed), `call` (calls of
the manager's methods) and `shutdown`. Actions of the transport are `Response`, `Timeout`, `WriteFails`, `Garbage`, `Exit`; of a handshake
`AskHandshake`, `Notify`, `Notified`; of a call `Begin`, `Connect`, `Proceed`, `Rejected`, `NextPage`, `ManyPages`, `PagingFails`, `LastAnswer`; of the shutdown
`CloseSessions`, `CloseReturns`. A listing goes on while the server names a next page (`connection.ts:109`), and nothing bounds that. Its first
`Pages` requests are modelled one by one; from then on it is `"paging"` until a request fails.

Run `mcp` (two servers, one of two pages, one call that lists both and one that calls or lists the second): the
pending table is exact, nothing precedes the handshake or follows the close, `OneAnswerEach` is the refinement of `RequestLedger`, every
call returns, except for a listing whose server lives, is heard and names one more page each time (`Served`): a server that is silent, dies, talks garbage or is shut
down ends it after the time-out of one request. Two calls that meet on one server is the least for the shared handshake and the shared cache; two pages give an await in
the middle of a listing. Fairness: due timers fire and reactions run. The server owes nothing, not even an end of its pages.

### PlanExecute – `agent/plan-execute`, `index.ts`, `repl.tsx`

`plan`, `cursor` and `replans` are executePlan's; `cycle` and `guard` the autopilot's; `record` the plan run record of
the session file. A task has an id, which every plan numbers from 1 again, and a piece of `work`, which is never reused: the
properties talk of work, the code only of ids. `Crash` loses everything but `record`; `Resume` is `--resume` in a mode of
the user's choice. The program never passes a retry budget or a replanner; a library caller of executePlan may, so these exist
in mode "library" only.

Run `plan_execute` (plans of one or two tasks in five shapes, four tails a replanner answers with, one replan, two cycles, three launches): a task starts after what it depends on
was really done and never when it was done already, the record is never behind by more than the running task, nothing is
forgotten at the end, every run ends. Two tasks give every dependency there is (none, forward, backward, cut off); the tails reuse ids of the finished prefix, drop dependencies and repeat ids. Fairness: a task ends
(bounded turns) and the code between tasks runs; launches and crashes are free.

Two things the model showed that no document contradicts: with the default limits the no-progress check of the autopilot's loop
guard cannot fire before its tail check (equal snapshots have equal tails), and a task that depends on a later task which asks for
the user makes every resume stop at once.

### SubAgents – `agent/subagent-runtime.ts`, `agent/pipeline-runner.ts`

The tree of possible children is a constant. For each agent: `aborted` (signal of its own state), `loop` (its agentLoop), `handle`
(cause of its scoped abort handle), `result` (what `executeChildTask` returned); for each caller: `call`, `window`, `answer`, `cause` (the batch's
handle). `Abort` is one synchronous cascade of abort events through all listening handles below. A child that lost the race
against its handle keeps a running loop until `LoopEnds`.

Run `sub_agents` (a root with three children in windows of two, of which one runs a two-stage pipeline and one a batch, timers everywhere): what
a call answers is true of every child, including those that never started; below a child that has returned nothing runs that was not told to stop; an
aborted caller gets its result although loops below hang for ever. Depth two is the deepest the runtime allows, so the tree is as deep as it
gets. Fairness is only that of the event loop: loops need not end. Loops told to stop may overlap the next window, so
that more than `maxConcurrentChildren` loops run at once; the sources promise no bound there and no property states one.

### The components around the core – `MCComponents`

Each of the following modules has its own variables, `Init` and `Next`, all named with the component's prefix, so that
`MCComponents` can extend them together. They do not touch each other's state in the model, and hardly do in the code: what they share
there is files of other kinds. `focus` says which component a behaviour is of; `OthersStay` keeps the rest where it
starts. The run `components` therefore visits the sum of their state spaces, 2.3 million states, and not the product. It has one
property for each module, a conjunction of the named parts. It states no liveness: what must end in these components ends by a timer
or a bound that is a guard of the module. Where the code
only promises something short of a race, the property names the race and the module keeps a history variable that records it
(`memLost`, `siSeen.taken`, `touched`, `linkForced`, `overlap`): the interleaving is in the model and is explored, and the property says what survives it. What such
a property excuses, it does not check: after the lock of a live process was removed nothing is said of the link files, nor of credentials while two senders overlap, nor of a
file others change meanwhile. `TxtExpected` counts matches and looks at quotes as the code does, and checks what is then replaced.

#### MemoryStore – `memory/project-memory.ts`, `auto-promote.ts`, `decay.ts`, `tiering.ts`

`memFile` and `memRows` are the entry files and the index, `memTombs` the tombstone directory, `memCache` the tier list a process has
read. An operation is a list of tasks (`MemTasks`); a task is `MemPrepare` or `MemDig`, then the entry's file and the index, and, for a tombstone,
`MemBury` and `MemUnlink` with the index once more. `writeFileSync` works in place: `MemOpenFile` and `MemOpenIndex` empty a file, `MemFillFile` and `MemFillIndex` fill it, and
`MemCrash` or `MemFail` may come before, between or after (`MemCutOff`: no entry, half a body, some of the rows). `MemAlso` says whose tombstones a restoration finds besides those of its own name:
those of the name in lower case or with other characters (`generateNameVariants`), and those of a name that goes on after a dot. `NewestBodyKept` is the atomic
map the store promises, with its two exceptions, which `memLost` records: the body whose own write was cut off or failed, and the one over which the
restoration of another name moved a tombstone (`decay.ts:398`). Nothing else loses a body. Two names, of which a restoration of the one finds the other's tombstones, two revisions, one crash or failed write, a promotion threshold and a working
set of one: an entry is promoted out of the cache after it was written again, and buried and restored in the middle of it.

#### LinkIndex – `memory/links.ts`, `links-backlinks.ts`, `file-lock.ts`

A process reads the memories, takes the lock of `forward.json`, writes a temporary file in two steps, renames it, reads it again and does the same
for `backlinks.json`. The lock is a directory: `LinkMkdir`, `LinkStat` (is it old?), `LinkRemoveStale` on what was seen before, `LinkGiveUp`. `LinkAge`
lets five time-outs pass. Two processes, one file, two entities of which one is named like the file (`LinkNamed`), two hops, one edit, one death: enough for a waiter that finds the lock of a
dead process old while another removes it, and for a graph that leads through a file. `LinkFilesWhole` is exclusion as long as no live holder was overdue; `LinkQueriesAgree` compares
`linkForward`, `linkBacklinks`, `linkGraph` and `linkOrphans`.

#### RecordStore – `agent/incident`, `agent/decision`, `agent/runbook`

Each write may succeed, throw, or be cut off with the process (`RecTry`). `RecRecordDecision`, `RecUpdateDecision` leave in `recJob` the incidents still
to be linked, `RecLink` writes them; `RecToolFails` counts to the escalation threshold and records an incident. `RecordsAgree` relates the files of two
stores. Two incidents of one decision and two runbooks of one pattern are the least for a link that is half done and a duplicate; one fault.

#### Commands – everything that spawns and waits

Seven callers with seven orders of looking at exit code, time-out and abort (`CmdVerdict`, `CmdLooksFirst`, `CmdForces`, ...) share the actions
of a child: it exits, keeps its pipes open through a process it left behind, ignores SIGTERM, exits just before the timer or the
signal. `cmdTrail` is what really became of each. `CmdSuccessIsReal`: no success is reported of a command that was killed in vain. Two commands
and three attempts: a failure between two successes.

#### RemoteTasks – `agent/remote`, `agent/pipeline-runner.ts`

`RemOpen`/`RemClose` are the windows, `RemTry`, `RemAnswer`, `RemWake` a task with its backoff, `RemPick` the shared round robin over what is still healthy, `RemCheckHealth`
the health check that runs at any time. Two tasks at once on two endpoints with one retry: each can mark the other's last endpoint. `RemReturn` is what a caller gets: a pipeline makes "failed" of every stage result
that is not completed (`pipeline-runner.ts:192`), an aborted or timed-out one too, so that only stages never sent are "aborted" there.

#### Delegation – `tools/agent/agent-tool.ts`, `agent/parallel/background-runner.ts`

What `SubAgents` leaves out: `DelTask`, `DelStage`, `DelLimits` and `DelAllowed` make of a request what each child gets; `DelRefuse`, `DelAtOnce` and
`DelBegin` are the permission and the start of a call, `DelEnds`, `DelTimeout` and `DelInterrupt` its children's ends, `DelReturn` with `DelPersist` the records
written one by one before it returns (`DelPersisted`, each child's record and evidence in turn, then the whole's; a write of the session file may throw; the evidence is written or, without a project, not), `DelBackgroundEnds` a call the scheduler ran.
`DelegationTold`: what the caller is told, the session file and the evidence agree with the children, records come in the order the work was done, and no child exceeds
what was asked for or what its depth allows. Five ways to start the program, eight requests of the root and four of its first child: single, batch and pipeline with
inherited fields given and omitted; two children, the first with one call of its own, are enough for one that was cut off while its own call still writes.

#### Permissions – `permissions/*`

Questions are built token by token or rule by rule, and `PermCheck` is the answer: hardened paths, `PermFold` over the rules, modes, defaults and `PermClassify`, which splits
lists, pipelines and simple commands and looks behind wrappers. `PermHarmless` and the order deny, ask, allow are stated without the code's recursion. Commands
of up to four tokens have a wrapped command in a pipe or list; two rules are every pair of behaviours in both orders.

#### ProviderStreams and Proxy – `providers/*`, `proxy/*`

`ProviderStreams` has, for each provider, the conversion of messages (`ProvConvert`) and the parser of its stream (`ProvHear`). `Proxy` sends every conversation of up to three blocks through
`PxToChatRequest` and that conversion, and every stream of up to four events through the parser and the mapper of the protocol (`PxAnthropic`, `PxChat`,
`PxResponses`, or `PxCollect` without a stream), event by event (`PxMapAll`), with clients that leave and upstreams that fail; without a
stream the text is kept apart (`PxSay`) until `PxBody` puts it in front of the calls. Batches have workers and a timer for each item; `pxKeys` is the
file of credentials two senders refresh. Reference definitions: `PxNothingLost` (blocks in, blocks out), `PxStreamWhole` (blocks are opened and closed once, in order),
`PxBatchWhole`, `PxKeysGood`. Four events are text, two calls and late text.

#### TextEdits and FileChanges – `tools/file-*`, `agent/tool-cache.ts`, `agent/file-backup.ts`, `agent/file-transaction.ts`

`TextEdits` compares `TxtApply` (places, line endings, quotes, replacement from right to left) with `TxtExpected`, and `TxtDiff` with the two
texts, on all texts of up to three characters of five kinds, pieces of up to two, and up to four lines for the preview. `FileChanges` takes a content as a number and has the
steps: read, check, backup, rename or truncate and fill, refresh of the cache, undo, transaction and restart, with others who change any file between two of them.
One file that is there and one that is not, a cache of one entry, one read, one change by others.

#### Verdicts – `plan-execute/evaluator.ts`, `agent/reliability/*`

`VdEvaluate` reads a result in the evaluator's order, `VdRun` derives status and verification as `executePlan` does, and `VdRecordStatus`, `VdJudge`, `VdPack`, `VdAction` are the four readers. `VerdictsAgree`
says which combinations of their answers must not occur, and why those that differ do (`VdSplits`): the record and the advice may call a run finished that the judge and the pack
fail, but only when a step failed whose task was retried; that the judge calls partial, only when nothing was run; that the pack alone fails, only when a result
says two things of itself. Two tasks, one retry: a failed step of a task that succeeded later.

#### Sessions – `session/*`

A line has a kind, an id, a turn and a time. `ssWritten` is the log of what was written whole. `SsTear` cuts a write, and the next is glued to it, be it whole or cut off itself. Readers are definitions:
`SsMessages`, `SsPlanRuns`, `SsResumable`, `SsAllEntries` (search), `SsReplay`, `SsDocument`, `SsDraft` (export). Three writes, two runs of plans, one crash.

#### SelfImprove – `agent/self-improve`

Live files, archive, a rotation file by file (`SiRotate`, `SiMove`, `SiRewrite`, `SiFill`, with `SiFail` and `SiStop`) with appends in between, the list of tracked sessions with its cap, the gate
over the last two records, and the variants dealt by two processes. A file is the set of its numbered lines: they are appended in that order, a rotation keeps it, and
no reader depends on more. Live files are emptied and filled in place, so a death or a full disk loses what was not written yet; any append may leave half a line, and then the next
one is lost with it (`siHalves`); what these and appends behind a rotation's back cost is in `siSeen.taken`, and `SiNothingLost` says that it is all. `SiOneOfEach` is about one process: one that resumes a session records its skills once more. Three operations, an age of one day, room for one record in a domain, two sessions, an LRU of one.

#### Supervision – `agent/lifecycle.ts`, `status*.ts`, `watchdog.ts`, `cost-tracker.ts`, `index.ts`

`supMain` is `main`; `SupSignal` and `SupQuit` start `destroy()`, `SupCleanup` and `SupTell` run it, and `main` goes on meanwhile. `SupTick`, `SupFires` and `SupEvent` are the watchdog against the events of the
loop. In the terminal a signal is `SupKilled`: a second handler (`tui/app.tsx:84`) exits in the tick in which `destroy()` began, so that the
parallel agents are stopped, `mcp.close` and `proxy.stop` are not, no listener is told and the status file keeps what it last said. `SupEndsOnce` says so, and requires the whole end of
every other exit. SIGTERM is handled as SIGINT. `SupEndsOnce`, `SupWatchHonest`, `SupStatusLast`, `SupCostsTrue`. Two signals, of which the second comes while the first one's cleanups run.

## 4 What is proved

TLAPS checks `SequenceLemmas` (sequences without repetition: subsequences, appending, removing, cardinality; the values a recursive function on
the numbers or on a grid takes; sequences joined from parts; the least and the greatest of a set), a proof module for each of `ParallelScheduler`, `SubAgents`, `AgentLoop`, `PlanExecute`,
`Conversation` with `Sessions` and `Proxy` with `ProviderStreams`, and `ComponentProofs` for `Mcp` and seven components around the core;
`Permissions` and `TextEdits` are in `AgentLoopProofs`, beside the loop that asks the one and edits with the other, `Delegation` is in `SubAgentsProofs`, beside the runtime it calls, `SelfImprove` and `MemoryStore` are in
`PlanExecuteProofs`, beside the plans the one keeps records of and whose runs the other remembers. `ParallelSchedulerProofs` holds for any number of tasks, slots (at least one), retained records, progress events and
waiters. The assumptions are those named in `ParallelScheduler`: the first three constants are what `normalizeMaxParallel` and
`normalizeRetainedLimit` return.

None of the invariants is inductive alone. That slots are bounded needs that slots are exactly the closures
between `pump` and `finally`; that a launched entry was not running needs that the queue has no entry twice and consists of the
entries whose closure is not launched; that pruning keeps the eviction order exact needs that it lists exactly the terminal
records, once each; that handles can be detached blindly needs that they are those of running records. `IInv` conjoins these:

```
IInv == TypeOK /\ QueueOf /\ SlotsOf /\ RecordsOf /\ HandlesOf /\ OrderOf
        /\ Cardinality(running) <= MaxParallel /\ NoIdleSlot /\ CompletionAgrees /\ NoStrandedWaiter
```

The proof has one lemma per action (`SubmitStep`, `StopQueuedStep`, ..., `ReleaseSlotStep`) over four lemmas about what the helpers do to
any arguments (`LaunchedEffect`, `PumpEffect`, `FinishAllEffect`, `FinishEffect`). `Invariant` is the result; the safety
properties of the run `parallel` follow (`TypeCorrect`, `SlotsBounded`, `WorkConserved`, `LiveTasksReachable`, `RetentionBounded`,
`CompletionsAgree`), and besides `NobodyStranded`, `CompletionsSettleOnce`, `WaitersReleasedWhenIdle` and `TerminalRecordsFrozen`.

`SubAgentsProofs` proves the safety of `SubAgents` for every tree of children of depth two, every division of its calls into batches and
pipelines, every choice of timers the code allows and every width of a window. It assumes what `SubAgents` names: requests are sequences of
agents, each of which is asked for once and by one caller (`RequestsAssumption`, `TreeAssumption`: a child is a fresh agent every time); children of children delegate nothing
(`DepthAssumption`: the runtime denies them the Agent tool); who hands a timer on (`TimersAssumption`); a window has a slot
(`WindowAssumption`).

That nothing is orphaned is not inductive: that an abort reaches a loop at the bottom depends on everybody above it still listening. The
strengthening says for every child when it listens, and for every call what its window, its abort handle and its answer say of its children:

```
IInv == TypeOK /\ Listening /\ Windows /\ Open /\ Results /\ AnswersSoFar
```

`Listening` is the heart: a loop runs untold exactly while its result is open, and then so does its parent's. `BelowEffect`
says which children a cascade of aborts reaches, and `AbortStep` that any cascade keeps `IInv`; `AbortRootStep`, `ChildTimerStep` and
`BatchTimerStep` apply it. `StartStep` does the same for every way in which children start (a call, a next window, a next stage), and
`KnownEffect`, `RestEffect` and `OverStep` say what an answer may contain. From `Invariant` follow `TypeCorrect`, `CallsAnswerTruly`
(AnswersTell) and `NothingOrphaned` (NoOrphans): all the safety properties of the run `sub_agents`.

`AgentLoopProofs` proves the safety of a run of `AgentLoop` for every set of tools (`ToolsAssumption`: some of them are known and
some of those safe), and any number of turns, calls and concurrent calls (`BoundsAssumption`). `EveryCallAnswered` speaks of results only, so it
is not inductive: a call that is nowhere, or in two places, would break it later. The strengthening says where each call is:

```
IInv == types /\ Counted /\ Placed /\ PlacesByPc /\ Staged /\ Consented
```

A decided call is in exactly one of four places, approved, looked up, in the batch, or among the results, and in each in the model's
order (`Placed`); which of them may be occupied depends on where the generator is suspended (`PlacesByPc`); how far `executeSingle` is with a
member of the batch agrees with its result (`Staged`), and whatever is past the permission pass was allowed (`Consented`).
`CallsAnswered`, `EffectsInOrder` and `SilentAfterAbort` follow: all the safety properties of the run `agent_loop`.

The same module proves `VerdictsAreJustified` of `Permissions`, which the loop asks, for commands of any length: what is allowed was
judged, at each of its places, in one piece that has exactly what no
`;` or `|` parts from that place (`PermPlaceJudged`: the part of a pipeline in its part of a list, found by intervals and not by recursion). So its first
command, what is in front of it and the redirections are those of the part `PermHarmless` speaks of. The loop over the rules gives the strictest answer of the rules
so far, by induction along the loop.

Its last part proves `EditsAreExact` of `TextEdits`, for texts, pieces, replacements and previews of any length (`TxtAssumption` says only that the
bounds of the enumeration are numbers).

`TxtInv` says that the text under an edit, its piece and its replacement are texts and the result is `TxtApply` of them, or that the preview is `TxtDiff` of
the two texts it is about. Each edit and each preview is a function of its inputs, so the invariant has to keep no more than that; the work is in comparing the code's
functions with what `EditsExact` says of them. Each of them is a recursive function on the places of a text, or on pairs of places for the table, so there
are two kinds of induction, along a pass (`PassExists`) and over a grid (`GridRecursion`, `GridInduction`), both in `SequenceLemmas`:

* *Places.* What `collectMatchPositions` finds rises, and each place is behind the end of the one before (`TxtPositionsFrom`). It finds one wherever the piece stands, since a
  place it passes over is one where the piece is not (`TxtPositionsFound`), whence a literal match is never refused as not found (`TxtFound`).
* *Replacement.* The code writes from the last place to the first, on a text that grows and shrinks behind the place it is at. Writing at one place leaves what is in
  front of it as it was (`TxtReplaceOneType`), so the earlier places stay right, and the result is that of the one pass from left to right that `TxtExpected`
  is (`TxtReplaceExpected`). That pass writes plain letters for plain letters, so the line endings and quotes around them stay (`TxtExpectedKept`).
* *Preview.* Each line of it moves one cell down, right or both, and the cells behind it spell the rest of the two texts (`TxtDiffSides`). The table
  has, in each cell, as many lines as any set of pairs of equal lines, none crossing another, from there on (`TxtTableLongest`): a pair in the cell's
  corner is taken out, or all of them leave one of its two sides. So no preview keeps more lines than this one.

`ComponentProofs` proves, in its last part, the safety of `Mcp` and that it implements `RequestLedger`, for every finite set of servers, every set of calls (none of which is
the handshake, `CallsAssumption`) and inventories, whatever a call wants (`WantedAssumption`) and however many pages are asked for one by one.

```
McpInv == McpLinkTypes /\ McpCallTypes /\ McpTabled /\ McpDivided /\ McpLinked
```

`McpLinked` relates each session to its transport: the pending table is the requests that wait (`McpBooks`), and the handshake agrees with the
requests sent so far (`McpGreeted`). `McpCallTypes` has that a call waits only at a session that is ready, without which a request could precede
the handshake. `McpTabled` and `McpDivided` bound the sessions: until the shutdown is through the table leads to all of them, after it only
to those made since, so there are at most two a server. Each action has a lemma that it keeps `McpInv`, maps to a step of `RequestLedger` or a
stutter, and writes nothing to a closed transport (`McpKept`); the answers, exits and timers share `McpAnswersKeep`. The theorems are
`TransportsOrderly`, `QuietOnceClosed` and `McpImplements` (OneAnswerEach).

`PlanExecuteProofs` proves the safety of `PlanExecute` for plans of any size, any tails of a replanner, any budgets and any number of
cycles, crashes and resumes. It assumes of a plan what `normalizePlanTasks` sees to, ids that count from 1 and no task that depends on itself
(`ShapesAssumption`); of a replanned tail nothing but that its ids are among `1..MaxId` (`TailsAssumption`), so it may repeat ids and depend on itself.

```
IInv == TypeOK /\ Planning /\ Starting /\ Recording /\ Saved /\ Working /\ Passed
```

`StartsInOrder` needs that *completed* and *done* are the same of every task of the plan (`Planning`), which holds of a resumed plan because it
held of the record (`Recording`), which is the plan itself while the run goes on (`Saved`): all three together are inductive as long as there
is one plan, and fail after the second, which is the finding `plan_execute_stale`. That a status saved by id reaches the right task
needs that ids do not repeat, also after `Fresh` has filtered a tail. `NoTaskForgotten` needs that a plan stopped for another task that waits for the
user: that one is not the stopped task because a task that ran does not depend on itself (`Working`). `MarkStep` is the one lemma about a status
written to plan and record; `GoOnStep`, `StopStep` and `ReplanStep` are what follows it, and the handlers are combinations of these.

`EvidenceIsSound`, in the same module, is about evidence files of any length, any number of sessions and skills used, an LRU of any size (at least one, `SiAssumption`)
and any interleaving of rotations with what other processes append.

```
SiInv == SiTyped /\ SiNumbered /\ SiRotating /\ SiNewestLive /\ SiNothingLost /\ SiRecentLive
         /\ SiSessionsOnce /\ SiOneOfEach /\ SiGateHonest /\ SiDealt
```

That a rotation loses only what it says needs of a rotation under way (`SiRotating`) that what it read of a file is what it keeps and what it moves, that the latter is in
the archive before any live file is written anew, and that whatever else is in the file by then was appended behind its back. The other ways the
code loses a record are a live file whose writing is cut off and half a line, and all of them end in `siSeen.taken`. The gate is honest because records are numbered in the order of their days
(`SiNumbered`), so age and size both take the oldest of a file (`SiTooManyOldest`) and what is left of it is its newest part (`SiNewestLive`); then the two records with the highest
iterations are the last two runs, unless the iterations themselves are out of order. They can be: an iteration is one more than the
number of records in the file, so it starts again after a rotation. A file like that may converge on an older run, and `SiGateHonest` is about
the others (`siVerdict.ordered`). That a session makes one record of each skill needs that an LRU has no session twice (`SiTouched`) and that a record names the process it was made in. The summary of the recent days
counts all their records by comparing two finite sets (`SiRecentCounted`).

`NewestBodyStays`, there too, is about the memory of a project: any names and any relation `MemAlso` between them, any number of revisions, crashes and failed writes (`MemAssumption`: the names
are finitely many). It is proved for one process. With two, a promotion writes back the body in the cache of the process that promotes, which may be an old one; the model has that (section 5), and
the property does not hold of it. For one, `MemInv` says of every memory that is not lost that the cache has the body of the file wherever it has an entry at all (`MemCacheOk`), and of every step
between two writes what is where: the body a file is about to be filled with is in the job, and a file is torn only then or when its memory is lost.

`ConversationProofs` proves the safety of `Conversation` for any number of messages, restarts, tools and markers, any window and any sizes of results.
It assumes that the latest message is protected (`PolicyAssumption`: nobody sets `protectRecentMessages`, whose default is 4, `context-snip.ts:6`,
`context-snip.ts:115`) and that a result is not empty (`BudgetAssumption`).

```
IInv == TypeOK /\ Phases /\ Rooms /\ Orders /\ WrittenAhead /\ Agrees /\ Cuts /\ Newest
```

That a request is a selection of the session file in its order is not inductive, since a marker may snip, and a trim drop, any part of it. But the
messages of the terminal, of the run, of its copy and of the file are all in the one order of their ids (`Orders`), and each is in the
file (`WrittenAhead`): then what two of them share is in the same order in both, whatever was cut out. `CompactFollows` shows that of every choice of
markers (`Selected`, by induction along the greedy choice) and of every trim; `Newest` that neither reaches the protected end. `Cuts` counts the calls
without results, at most one for each stop, throw or restart between a call and its results. `RequestsAreSaved`, `NewestIsSent` and `SessionStaysComplete` follow: all the
safety properties of the run `conversation`.

`SessionReadsBack`, in the same module, is about session files of any length, with any number of messages, runs, restarts and crashes between two writes or
within one. `SsAssumption` says that a pause and the limit of an export's lists are numbers.

```
SsInv == SsTypeOK /\ SsTornLast(ssFile) /\ SsMessagesRise(ssFile, ssCounts.messages)
         /\ SsDatesRise(ssFile, ssNow) /\ SsRunNewest(ssFile, ssRun, ssNow)
         /\ SsFewLost(ssFile, ssWritten, ssCounts.crashes) /\ SsUnwritten(ssFile, ssWritten)
```

`SsFewLost` counts the line that the next write will spoil as lost already: one for each crash, and no more, because a line without an end can only be the last (`SsTornLast`).
`SsRunNewest` is why the dates rise: two records with one date are of one run, since a step of a run keeps the date of its start and every other date is that of
the write. The readers are then followed one by one. `FlattenPlaces` gives of what is put together from parts the place of each piece,
by induction along the parts: it is where the lines of a kind (`OfKind`), the entries made of messages (`FallbackIs`) and what a search adds to the explicit ones
(`FoundIs`) come from. That the later date wins, the lower line among equals, finds the last record of each run (`LatestIs`, along the recursion of the code's loop) because
the dates rise with the lines; for the same reason the list of runs, sorted by date, has each of them once (`ListIs`).

`DelegationIsTold`, in the same module as the children's runtime, is about requests of any number of subtasks or stages with any fields. `DelAssumption` is what
the input schema of the tool refuses (`agent-tool.ts:30`, `agent-tool.ts:381`): an empty batch or pipeline, and a stage with a field for writing.

```
DelInv == DelTyped /\ (\A c \in DelNames : DelCallFits(c, delCalls[c]))
          /\ DelRecordsAgree /\ DelClaimsTrue /\ DelInnerDone /\ DelInOrder
```

`DelCallFits` keeps of each child what was made of its task (`DelKidFits`), from which its limits follow by `DelChildWithin` alone, and of each answered call that its answer
is true of its children. `DelWritten` and `DelComplete` are what a call writes, whatever its request: every line is true, none is there twice, and
those that must be there are. A later step leaves both as they are (`DelLinesStay`, `DelCallStays`). The order of the records needs one more
thing: the call of the first child is over before that child is, unless the child was cut off (`DelInnerDone`), and what a line claims was so
when it was written (`DelClaimsTrue`).

`ComponentProofs` proves, besides, the run's property of seven components, each with an inductive invariant of its own; where nothing else is said,
for every value of the constants.

* `LinkIndex` (`LinksStaySound`): `LinkInv` says that, unless a lock in use was removed or overdue (`linkForced`), whoever is between lock and release made
  the lock that is there and is alone, and that the temporary file is as it left it. That the four queries agree wherever the two files are inverse is a
  fact about `LinkGraph`, proved for any number of hops by induction along its recursion: after n hops it has what the links reach in n.
* `RecordStore` (`RecordsStayInAgreement`): what a job still has to write is about a decision already on disk, so that a write that throws, is cut off or
  never comes leaves an incident without a link and never with a false one.
* `Commands` (`CommandSuccessIsReal`): each verdict so far is that of the command it was taken from (`cmdTrail`).
* `RemoteTasks` (`RemoteResultsEarned`): each task has one request more than retries behind it, or is done as its last request says, in the word of a batch or of a pipeline.
  The count of turns wraps at `RemCycle`, a product over the endpoints, whose type is another induction along a recursive function.
* `FileChanges` (`ChangesStaySafe`): `FcInv` says that a file has one backup at most, of what it held before its first change, that whatever is being changed
  has one, that an entry of the cache without a race was in the file at its time, and that what a call relies on was shown.
* `Verdicts` (`VerdictsStayInAgreement`): the last step of a task tells whether it is done, and a step that failed is of a task that was retried or has not succeeded. The rest is a comparison of the four readers case by case.
* `Supervision` (`SupervisionIsSound`): each cleanup and listener is done or still to do, once and in order; one timer at most is set and it is the
  latest; without a signal `main` writes nothing after `destroy()`; a terminal a signal ended had begun it; the account is the number of uses of each model at its price.

`ProxyProofs` proves `ProxyPassesOn` for conversations and streams of any length, any number of batch items, workers and refreshes
(`PxBoundsAssumption` says only that these bounds are numbers), every protocol and every provider.

```
PxInv == PxRequestInv /\ PxBatchInv /\ PxKeysInv
```

* *Conversations.* What is sent for one is a function of it, so no invariant is needed: the lemmas follow `PxToChatRequest` (messages one after the other have the
  blocks of the conversation in its order) and then `ProvConvert` for each provider (the same blocks, each
  call before its result). Each is a recursive function on a segment of the
  numbers; `RecursionUpTo` gives its values, and each lemma is an induction of its own along it.
* *Streams.* `PxStreamWhole` compares the events of a finished answer with those the upstream sent. While the answer is under way it says nothing, so
  it is far from inductive. The strengthening is a ledger between the two: how many texts, which calls, which ends and arguments the mapper was given. What
  the parser has passed on of what it heard, and what it keeps back, is in the ledger (`PxPassedOn`, one case for each provider's parser), and what the mapper
  has given out tells the ledger: blocks opened once, filled while open, closed once, in order (`PxSound`, one case for each protocol,
  with and without a stream). An event keeps both, whatever it is; the last one leaves nothing kept back and nothing open, whence `PxStreamWhole`.
* *Batches.* An item waits exactly until its turn; from then on its result is that of its fate, no more run than there are workers,
  and an answered batch has each of them timed out or done (`PxBatchInv`).
* *Credentials.* While no two senders overlapped and every token was written, one sender at most is busy: it asks with the token of the file and, once
  answered, has the good one itself (`PxKeysInOrder`).

Only model-checked is all liveness: fairness and ENABLED are out of the prover's reach. Every safety property and every action property of the passing runs, and the
refinement of `RequestLedger`, is a theorem.

## 5 Disagreements found

Five runs expect a violation. Each quotes a sentence of the repository that the code does not keep.

* `parallel_stale_completion` – a running task is stopped, its record is evicted by later terminal tasks, its work then returns normally:
  the completion promise resolves with the copy taken before the task was marked running, status "pending"
  (`agent/parallel/scheduler.ts:185`). A test expects "aborted" of a stopped task.
* `agent_loop_prompt` – the auto-deny timer of a permission prompt is armed after `yield` returns, and the terminal UI pulls the next
  event only after the user's answer (`agent/loop.ts:579`), so the "safety net" of five minutes never runs there.
* `conversation_pairs` – trimming drops single messages, so a request can begin with tool results whose call was dropped
  (`agent/context-manager.ts:61`), though the comment says pairs are dropped.
* `plan_execute_stale` – the autopilot's second plan is saved under the ids of the first; after a crash a run can be recorded and resumed as
  complete whose second plan was cut short (`index.ts:502`).
* `replay_in_order` – a replay gives each message line entries of its own beside the saved ones, under other turn numbers and times, so that
  messages are told twice and not in the order of time (`session/replay.ts:42`), which a design document promises.

Met on the way, without a run of their own. In the core:

* `stop()` does not drain the queue although `src/dev-plan/implement_20260419_223101.md:216`
  has it so (every path that frees a slot pumps, so nothing is lost).
* `runner.ts:702` says retry comes before replan, while a "blocked" result is replanned with its retry budget unspent.
* A stream that failed is retried once whatever the error (`loop.ts:380`).
* Concurrent listings of one MCP server may overwrite a newer cache with an older answer (`mcp/connection.ts:120`); a
  failed handshake is never tried again (`connection.ts:86`), and `sessions.clear()` forgets a session made meanwhile (`connection.ts:443`).
* Aborting a plan in the terminal counts the partial text of the task as its result (`repl.tsx:1244`).

In the Agent tool:

* `src/README.md:220` has a request with `write: true` confirmed, but the check that does so is the tool's own `checkPermissions`, which nothing calls: a request
  that names no writing tool in `allowedTools` is not confirmed. The child's own writes still need a rule of the user.
* The time-outs in `src/README.md:385-390` are not the code's (`subagent-runtime.ts:549`: none at depth one, at most 15 s at depth two).
* Calls in the background leave no record in the session, while the calls their children make do. A record that cannot be written turns finished work into an error.
* A child at depth two chooses from all tools, not from its parent's (`subagent-runtime.ts:144`).

In stores and files:

* A second process writes back bodies and tiers its tier list still has, so that the newest body may be lost to it. A death between an entry's file and the index leaves an entry no list shows.
  A write that is cut off loses the body it replaces, since entries are written in place (`project-memory.ts:256`).
* A restoration that finds no tombstone of its name tries variants of it, and a name that goes on after a dot: restoring `FOO` takes the tombstone of `foo` and moves it over a live,
  newer `foo.md`, whose body is gone (`decay.ts:398`).
* Two concurrent scans may leave `forward.json` and `backlinks.json` in disagreement, though
  `src/dev-plan/implement_20260425_200000.md:377` promises them consistent.
* The counters behind an escalation are never reset by a success, though `src/dev-plan/implement_20260425_150000.md:51` speaks of three failures in a row.
* A decision accepted again stays in the archival tier with its end date. An incident already in a decision's list is not repaired after a crash.
* The cache key of a read is made after the load (`tool-cache.ts:151`); a change between FileEdit's check and its rename is lost; FileWrite truncates in place; `/undo` leaves the cache.
  An edit with a line feed inside CRLF text leaves two carriage returns.
* Evidence another process appends during a rotation is lost, so is what a rotation kept but had not yet written when it was cut off (`evidence-rotation.ts:366`, in place), and the line
  after half a line. A session that is resumed after its end records its skills again. After a rotation iterations repeat, so that the convergence gate may miss the newest runs (`convergence-gate.ts:68`).
* A failed run of plan mode counts as resumable for `--goal`; the spread at `records.ts:612` puts unnormalised fields back.

In commands, remote agents and the proxy:

* Executors that spawn a shell send SIGTERM to the shell alone and then wait for pipes its children hold. A Bash command that timed out and exits with zero is no error. `git` has no time-out.
* `createForkVerifierTaskWork` returns normally from a failed verification.
* A stage of a pipeline that the caller's abort cut short is reported as failed, with its retries unspent (`pipeline-runner.ts:192`).
* A 4xx answer marks an endpoint unhealthy for everybody; a retry after a time-out may do the work twice.
* The responses mapper gives items indexes that repeat (`mapper-openai-responses.ts:255`). The Codex parser loses an event split over two reads (`codex-backend.ts:140`).
  Arguments in the first chunk of a call are lost (`openai-compatible.ts:363`). A batch item that never answers keeps its batch (`server.ts:414`).

In the MCP client: a listing has no bound on its pages (`connection.ts:109`), so a server that always names one more keeps it for ever.

In verdicts and supervision:

* One run may be completed for its record and for the advice ("stop") and failed for judge and pack, after a task that failed once was retried: the judge looks at all steps
  (`completion-judge.ts:177`), the record at the tasks. A plan whose tasks were all done before, so that nothing ran,
  is completed for the record and partial for the judge unless one of them is marked as verified.
* A verification with outcome success and status failed is "completed" for the judge and failed for the pack; a verified task never yields a passed pack.
* In a one-shot run signal handlers start `destroy()` but `main` goes on, so that a status written later replaces "exited". In the terminal a second handler exits before `destroy()`
  has done more than its first cleanup: MCP servers and proxy are not closed, no evidence is written, and the status file keeps "running" or "idle".
* The watchdog counts the wait for a permission prompt as no progress. A cleanup that hangs keeps the process.

## 6 What is not modelled

* Texts: prompts, summaries, shell grammar, scoring, planning and judging by patterns. The models take any outcome.
* Pure I/O: the effects of tools, git worktrees, terminal rendering, dashboard, configuration files. The one store the
  hook engine keeps, its list, is changed by one assignment a call.
* Bytes: framing of MCP messages, encodings and images, the spelling of shell commands (`permissions/bash-safety.ts` is represented by kinds of words).
* Inside modelled components: `McpConnectionManager.close(name)` (no caller), the abort of a
  plan in the terminal, `timeoutTask`, `appendMessageProgress`, `runMany` and the Agent tool's `checkPermissions` (no caller).
* Inside the components around the core: routes of the proxy for A2A, hooks and listings; the asynchronous file lock, which has the same
  steps; completion by `judgeAutopilotCompletion`, the wait for piped input before the terminal is up, cleanup of backups, late cleanups and the random choice of variants (none has a caller).
* What section 2, step 10, still plans.

## 7 Running the checks

In this directory, with TLC, the community modules and TLAPS installed:

```
tlc -workers 2 -config ParallelScheduler.cfg ParallelScheduler.tla
tlc -workers 2 -config Mcp.cfg MCMcp.tla          # MC modules carry constants that are functions
tlc -workers 2 -config Components.cfg MCComponents.tla   # a few minutes
tlapm ParallelSchedulerProofs.tla
tlapm SubAgentsProofs.tla                         # five minutes
tlapm AgentLoopProofs.tla
tlapm PlanExecuteProofs.tla                       # three minutes
tlapm ConversationProofs.tla                      # seven minutes
tlapm ProxyProofs.tla                             # nine minutes
tlapm ComponentProofs.tla                         # the longest, twenty minutes
```

| Run | Module | Expect |
|---|---|---|
| `parallel` | ParallelScheduler | pass |
| `parallel_stale_completion` | ParallelScheduler | violation of CompletionIsTerminal |
| `agent_loop` | AgentLoop | pass |
| `agent_loop_prompt` | AgentLoop | violation of PromptsTimeOut |
| `conversation` | Conversation | pass |
| `conversation_pairs` | Conversation | violation of PairsDropTogether |
| `mcp` | MCMcp | pass |
| `plan_execute` | MCPlanExecute | pass |
| `plan_execute_stale` | MCPlanExecute | violation of CompletedMeansDone |
| `sub_agents` | MCSubAgents | pass |
| `replay_in_order` | Sessions | violation of ReplayInOrder |
| `components` | MCComponents | pass |
