----------------------------- MODULE Conversation -----------------------------
(***************************************************************************)
(* The life of a conversation: the messages the terminal UI holds          *)
(* (src/tui/repl.tsx), the copy agentLoop works on and compacts            *)
(* (src/agent/loop.ts, context-manager.ts, context-snip.ts), the markers   *)
(* of ranges that may be snipped, which all runs share, and the session    *)
(* file a restart resumes from (src/session).                              *)
(*                                                                         *)
(* A message is its kind, a unique id that stands for its content hash and *)
(* a size in tokens.  An assistant message with tool calls is a "use", the *)
(* user message with their results a "result" with the id of its use.      *)
(* A definition X that is preceded by another named X and a change has     *)
(* there a version of itself with one plausible fault, to measure the      *)
(* properties against.                                                     *)
(***************************************************************************)
EXTENDS Integers, FiniteSets, SequencesExt

CONSTANTS
  MaxMessages,     \* bound on the messages created
  MaxRestarts,     \* bound on restarts and on runs that throw
  Available,       \* maxTokens - reservedForResponse - systemPromptTokens
  ResultSizes,     \* sizes of a tool result; any other message has size 1
  ProtectRecent,   \* protectRecentMessages
  MarkerCap        \* markerCap

ASSUME BoundsAssumption == MaxMessages \in Nat /\ MaxRestarts \in Nat
ASSUME BudgetAssumption == Available \in Int /\ ResultSizes \subseteq Nat \ {0}
\* Nobody sets protectRecentMessages, which is 4 then.
ASSUME PolicyAssumption == ProtectRecent \in Nat \ {0} /\ MarkerCap \in Nat \ {0}

Kind == {"user", "text", "use", "result", "summary"}
Message == [kind: Kind, id: 0..MaxMessages, size: {1} \cup ResultSizes]

Msg(kind, id, size) == [kind |-> kind, id |-> id, size |-> size]
Summary == Msg("summary", 0, 1)
Assistant(m) == m.kind \in {"text", "use"}

VARIABLES
  messages,   \* the UI's messages
  saved,      \* messages in the session file
  registry,   \* SnipRegistry: markers, oldest first
  local,      \* agentLoop's copy of the messages
  persisted,  \* messages the current run handed to onMessage
  run,        \* what is running: a chat turn, a step of a plan, nothing
  pc,         \* where it is suspended
  nextId,     \* ids given out
  clean,      \* messages neither compacted nor left behind by a throw
  cut         \* runs cut short by a restart or a throw

vars == <<messages, saved, registry, local, persisted, run, pc, nextId, clean,
          cut>>

Init ==
  /\ messages = <<>> /\ saved = <<>> /\ registry = <<>>
  /\ local = <<>> /\ persisted = <<>>
  /\ run = "none" /\ pc = "idle"
  /\ nextId = 0
  /\ clean = TRUE
  /\ cut = 0

-----------------------------------------------------------------------------
(* Compaction *)

Tokens(ms) ==
  LET first[n \in 0..Len(ms)] == IF n = 0 THEN 0 ELSE first[n - 1] + ms[n].size
  IN  first[Len(ms)]
LastOf(ms, n) == SubSeq(ms, Len(ms) - n + 1, Len(ms))

TrimAllowingNone(ms) ==
  LET fits == {n \in 0..Len(ms) : Tokens(LastOf(ms, n)) <= Available}
  IN  LastOf(ms, CHOOSE n \in fits : \A k \in fits : k <= n)

\* trimToContextWindow and trimToBudget: the longest suffix that fits, at least
\* the last message; the last two when the prompt leaves no room at all.
Trim(ms) ==
  LET fits == {n \in 1..Len(ms) : Tokens(LastOf(ms, n)) <= Available}
  IN  IF Available <= 0 THEN LastOf(ms, IF Len(ms) < 2 THEN Len(ms) ELSE 2)
      ELSE IF fits = {} THEN LastOf(ms, IF ms = <<>> THEN 0 ELSE 1)
      ELSE LastOf(ms, CHOOSE n \in fits : \A k \in fits : k <= n)

\* getSnipTurnIndex: assistant messages up to index i.
TurnIndex(ms, i) == Cardinality({k \in 1..i : Assistant(ms[k])})

\* markSnipRange of messages i and j of ms.
Marker(ms, i, j, priority) ==
  [start |-> i, end |-> j, startTurn |-> TurnIndex(ms, i),
   endTurn |-> TurnIndex(ms, j), startId |-> ms[i].id, endId |-> ms[j].id,
   startKind |-> ms[i].kind, endKind |-> ms[j].kind, priority |-> priority]

RegisterUnbounded(reg, m) == Append(reg, m)

\* SnipRegistry.add and pruneToCap: the oldest of the lowest priority goes.
Register(reg, m) ==
  LET longer == Append(reg, m)
      lowest == {i \in DOMAIN longer :
                   \A k \in DOMAIN longer : longer[i].priority <= longer[k].priority}
  IN  IF Len(longer) <= MarkerCap THEN longer
      ELSE RemoveAt(longer, CHOOSE i \in lowest : \A k \in lowest : i <= k)

\* markerMatchesMessages: the range is there and its ends have the same turn
\* and content as when it was marked.
Matches(m, ms) ==
  /\ m.end <= Len(ms)
  /\ TurnIndex(ms, m.start) = m.startTurn /\ TurnIndex(ms, m.end) = m.endTurn
  /\ ms[m.start].id = m.startId /\ ms[m.start].kind = m.startKind
  /\ ms[m.end].id = m.endId /\ ms[m.end].kind = m.endKind

Overlap(m, n) == m.start <= n.end /\ n.start <= m.end

\* The markers applySnips applies: unprotected, matching, and greedily without
\* overlap, higher priorities first and then older ones, so that each is
\* looked at twice.
Selected(ms) ==
  LET n == Len(registry)
      marker(k) == registry[IF k <= n THEN k ELSE k - n]
      usable(m, priority) == /\ m.priority = priority
                             /\ m.end <= Len(ms) - ProtectRecent
                             /\ Matches(m, ms)
      chosen[k \in 0..2 * n] ==
        IF k = 0 THEN {}
        ELSE IF /\ usable(marker(k), IF k <= n THEN 30 ELSE 10)
                /\ \A m \in chosen[k - 1] : ~Overlap(m, marker(k))
             THEN chosen[k - 1] \cup {marker(k)} ELSE chosen[k - 1]
  IN  chosen[2 * n]

\* The k-th of a set of indices.
Nth(indices, k) ==
  CHOOSE i \in indices : Cardinality({j \in indices : j < i}) = k - 1

\* insertSegmentSummaries: one summary for every maximal snipped range.
Snip(ms, chosen) ==
  LET gone(i) == \E m \in chosen : i \in m.start..m.end
      shown == {i \in DOMAIN ms : ~gone(i) \/ i = 1 \/ ~gone(i - 1)}
  IN  [k \in 1..Cardinality(shown) |->
         IF gone(Nth(shown, k)) THEN Summary ELSE ms[Nth(shown, k)]]

\* compactMessages.
Compact(ms) ==
  IF Tokens(ms) <= Available THEN ms
  ELSE IF Selected(ms) # {} THEN Trim(Snip(ms, Selected(ms)))
  ELSE IF Trim(ms) = ms THEN ms
  ELSE <<Summary>> \o Trim(ms)

-----------------------------------------------------------------------------
(* Runs *)

Fresh == nextId + 1

PromptSavedLate ==
  /\ pc = "idle"
  /\ nextId < MaxMessages
  /\ LET m == Msg("user", Fresh, 1)
     IN  /\ messages' = Append(messages, m)
         /\ local' = Append(messages, m)
  /\ nextId' = Fresh
  /\ persisted' = <<>>
  /\ run' = "chat" /\ pc' = "top"
  /\ UNCHANGED <<saved, registry, clean, cut>>

\* The user sends a prompt: it joins the UI's messages and the session file,
\* and agentLoop starts on a copy.
Prompt ==
  /\ pc = "idle"
  /\ nextId < MaxMessages
  /\ LET m == Msg("user", Fresh, 1)
     IN  /\ messages' = Append(messages, m)
         /\ saved' = Append(saved, m)
         /\ local' = Append(messages, m)
  /\ nextId' = Fresh
  /\ persisted' = <<>>
  /\ run' = "chat" /\ pc' = "top"
  /\ UNCHANGED <<registry, clean, cut>>

\* A step of a plan runs on a conversation of its own, which nobody keeps, but
\* with the same marker registry.
PlanStep ==
  /\ pc = "idle"
  /\ nextId < MaxMessages
  /\ local' = <<Msg("user", Fresh, 1)>>
  /\ nextId' = Fresh
  /\ persisted' = <<>>
  /\ run' = "step" /\ pc' = "top"
  /\ UNCHANGED <<messages, saved, registry, clean, cut>>

\* Head of agentLoop's loop: compact the copy, send it to the provider.
Request ==
  /\ pc = "top"
  /\ local' = Compact(local)
  /\ pc' = "waiting"
  /\ UNCHANGED <<messages, saved, registry, persisted, run, nextId, clean, cut>>

\* onMessage: the chat keeps and saves what its run produces.
OnMessage(m) ==
  IF run = "chat" THEN /\ saved' = Append(saved, m)
                       /\ persisted' = Append(persisted, m)
  ELSE UNCHANGED <<saved, persisted>>

\* The answer has tool calls.
AnswerWithCalls ==
  /\ pc = "waiting"
  /\ nextId < MaxMessages
  /\ LET m == Msg("use", Fresh, 1)
     IN  local' = Append(local, m) /\ OnMessage(m)
  /\ nextId' = Fresh
  /\ pc' = "tools"
  /\ UNCHANGED <<messages, registry, run, clean, cut>>

\* The calls are answered: the result joins its use, and the two are marked.
ToolsDone ==
  /\ pc = "tools"
  /\ \E size \in ResultSizes :
       LET m == Msg("result", nextId, size)
           n == Len(local) + 1
       IN  /\ local' = Append(local, m)
           /\ OnMessage(m)
           /\ registry' = Register(registry, Marker(local', n - 1, n, 30))
  /\ pc' = "top"
  /\ UNCHANGED <<messages, run, nextId, clean, cut>>

\* The UI appends what the run handed over, however the run ended.
EndRun ==
  /\ messages' = IF run = "chat" THEN messages \o persisted' ELSE messages
  /\ run' = "none" /\ pc' = "idle"
  /\ UNCHANGED <<clean, cut>>

\* The answer has no tool calls: the last two messages are marked and the run
\* ends.
AnswerAndStop ==
  /\ pc = "waiting"
  /\ nextId < MaxMessages
  /\ LET m == Msg("text", Fresh, 1)
         n == Len(local) + 1
     IN  /\ local' = Append(local, m)
         /\ OnMessage(m)
         /\ registry' = Register(registry,
                          Marker(local', IF n = 1 THEN 1 ELSE n - 1, n, 10))
  /\ nextId' = Fresh
  /\ EndRun

StopKeepingNothing ==
  /\ pc \in {"top", "waiting"}
  /\ run' = "none" /\ pc' = "idle"
  /\ UNCHANGED <<messages, saved, registry, local, persisted, nextId, clean, cut>>

StopDuringTools ==
  /\ pc \in {"top", "waiting", "tools"}
  /\ UNCHANGED <<saved, registry, local, persisted, nextId>>
  /\ EndRun

\* The run returns without an answer: aborted, over budget, failed or out of
\* turns.
Stop ==
  /\ pc \in {"top", "waiting"}
  /\ UNCHANGED <<saved, registry, local, persisted, nextId>>
  /\ EndRun

\* Something in the run throws: the UI shows the error and keeps the messages
\* it had.
Throw ==
  /\ pc # "idle"
  /\ cut < MaxRestarts
  /\ cut' = cut + 1
  /\ clean' = (clean /\ (run = "step" \/ persisted = <<>>))
  /\ run' = "none" /\ pc' = "idle"
  /\ UNCHANGED <<messages, saved, registry, local, persisted, nextId>>

\* The process ends at any point and is started with --resume: what survives is
\* the session file.
Restart ==
  /\ cut < MaxRestarts
  /\ cut' = cut + 1
  /\ messages' = saved
  /\ registry' = <<>>
  /\ local' = <<>> /\ persisted' = <<>>
  /\ run' = "none" /\ pc' = "idle"
  /\ clean' = TRUE
  /\ UNCHANGED <<saved, nextId>>

\* The compact command: the UI's messages only.
SlashCompact ==
  /\ pc = "idle"
  /\ Compact(messages) # messages
  /\ messages' = Compact(messages)
  /\ clean' = FALSE
  /\ UNCHANGED <<saved, registry, local, persisted, run, pc, nextId, cut>>

Next == \/ Prompt \/ PlanStep \/ Request
        \/ AnswerWithCalls \/ ToolsDone \/ AnswerAndStop \/ Stop
        \/ Throw \/ Restart \/ SlashCompact

Spec == Init /\ [][Next]_vars

-----------------------------------------------------------------------------

MarkerType ==
  [start: 1..(2 * MaxMessages), end: 1..(2 * MaxMessages),
   startTurn: 0..MaxMessages, endTurn: 0..MaxMessages,
   startId: 0..MaxMessages, endId: 0..MaxMessages,
   startKind: Kind, endKind: Kind, priority: {10, 30}]

TypeOK ==
  /\ messages \in Seq(Message)
  /\ saved \in Seq(Message)
  /\ registry \in Seq(MarkerType) /\ Len(registry) <= MarkerCap
  /\ local \in Seq(Message)
  /\ persisted \in Seq(Message)
  /\ run \in {"none", "chat", "step"}
  /\ pc \in {"idle", "top", "waiting", "tools"}
  /\ nextId \in 0..MaxMessages
  /\ clean \in BOOLEAN
  /\ cut \in 0..MaxRestarts

\* Every message in ms but the summaries is in file, where they come in the
\* same order, and each once.
SelectedFrom(ms, file) ==
  LET real == {i \in DOMAIN ms : ms[i].kind # "summary"} IN
  /\ \A k, l \in DOMAIN file : file[k] = file[l] => k = l
  /\ \A i \in real : \E k \in DOMAIN file : file[k] = ms[i]
  /\ \A i, j \in real, k, l \in DOMAIN file :
       i < j /\ file[k] = ms[i] /\ file[l] = ms[j] => k < l

\* Write ahead: whatever a chat shows the provider, a restart restores.  A
\* request, summaries aside, is a selection of the session file in its order.
RequestIsSaved == (pc = "waiting" /\ run = "chat") => SelectedFrom(local, saved)

\* The newest message reaches the provider uncompacted whatever the markers of
\* earlier runs say and however little room there is, and the request fits
\* the window but for one summary.
NewestReachesProvider ==
  pc = "waiting" => /\ Last(local).id = nextId
                    /\ Last(local).kind \in {"user", "result"}
                    /\ Tokens(local) <= Available + 1 \/ Len(local) <= 3

\* Calls in the session file that are not followed at once by their result.
Dangling ==
  {i \in DOMAIN saved :
     /\ saved[i].kind = "use"
     /\ ~ /\ i < Len(saved)
          /\ saved[i + 1].kind = "result"
          /\ saved[i + 1].id = saved[i].id}

\* Only a run that was cut short leaves such a call.
DanglingOnlyIfCut == Cardinality(Dangling) <= cut + (IF pc = "tools" THEN 1 ELSE 0)

\* Between runs the UI and the session file agree, unless the user compacted or
\* a run threw after it had saved something.
MemoryMatchesSession == (pc = "idle" /\ clean) => messages = saved

\* Every value in its range, and the session file as complete as its run.
SessionComplete == TypeOK /\ DanglingOnlyIfCut /\ MemoryMatchesSession

-----------------------------------------------------------------------------
(* What the source says of itself *)

\* context-manager.ts:45, on the strategy: "Oldest user/assistant pairs are
\* dropped first": no request has a result whose use was dropped.
PairsDropTogether ==
  pc = "waiting" =>
    \A i \in DOMAIN local :
      local[i].kind = "result" =>
        i > 1 /\ local[i - 1].kind = "use" /\ local[i - 1].id = local[i].id

=============================================================================
