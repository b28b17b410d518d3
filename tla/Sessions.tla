-------------------------------- MODULE Sessions --------------------------------
(***************************************************************************)
(* Session files (src/session): one line per record, only ever appended.   *)
(* A message is written as itself and again as the entries of a            *)
(* transcript, a run of a plan as one record per step.  The program reads  *)
(* the file to go on with the conversation, to find a run it can resume,   *)
(* to search, to replay and to export it.  It may die between two writes   *)
(* and within one, which leaves a line without an end that the next write  *)
(* is glued to.                                                            *)
(*                                                                         *)
(* Time is counted in seconds.  A message is its number and what it is; a  *)
(* run of a plan its number, the time its record is dated and its status.  *)
(* SsSupersedesEarlier, SsFoundInEntries are versions of the definitions   *)
(* after them with a plausible fault.                                      *)
(***************************************************************************)
EXTENDS Integers, FiniteSets, SequencesExt

CONSTANTS
  SsMaxWrites,     \* bound: messages and records of runs that are written
  SsMaxPlans,      \* bound: runs of plans started
  SsMaxCrashes,    \* bound: crashes
  SsPause,         \* bound: seconds the user waits once
  SsListItems      \* maxListItems of an export

ASSUME SsAssumption == SsPause \in Nat /\ SsListItems \in Nat

VARIABLES
  ssFile,      \* lines of the file
  ssNow,       \* the clock
  ssUp,        \* the process: runs, or is dead
  ssTurn,      \* transcriptTurnIndex
  ssRun,       \* runningPlanRun
  ssCounts,    \* what happened so far, for the bounds
  ssWritten    \* what was written as a whole, in the order of the writes

ssVars == <<ssFile, ssNow, ssUp, ssTurn, ssRun, ssCounts, ssWritten>>

SsLine(kind, id, turn, at, what) ==
  [kind |-> kind, id |-> id, turn |-> turn, at |-> at, what |-> what]

SsHeader == SsLine("header", 0, 0, 0, "none")
SsGarbled == SsLine("garbled", 0, 0, 0, "none")
SsNoRun == [id |-> 0, at |-> 0, status |-> "none", mode |-> "idle"]

SsModes == {"goal", "plan"}     \* autopilot saves as goal does
SsOpen == {"running", "failed", "aborted", "blocked", "needs_user"}
SsEnds == {"completed", "failed"}

\* normalizeMessage: the roles of a message's entries.  The assistant's text
\* and its call are an entry each.
SsRoles(what) ==
  CASE what = "user" -> <<"user">>
    [] what = "assistant" -> <<"assistant", "assistant">>
    [] OTHER -> <<"tool">>

SsMessage(id, what, at) == SsLine("message", id, 0, at, what)
SsEntries(id, what, turn, at) ==
  [i \in 1 .. Len(SsRoles(what)) |-> SsLine("entry", id, turn, at, SsRoles(what)[i])]

\* A session of this version, or one of an older that wrote no transcript and
\* called a sub-agent's record child_execution.
SsOld == <<SsHeader, SsMessage(1, "user", 0), SsLine("child_execution", 1, 0, 0, "completed")>>

SsInit ==
  /\ ssFile \in {<<SsHeader>>, SsOld}
  /\ ssNow = Len(ssFile)
  /\ ssUp = TRUE /\ ssRun = SsNoRun
  /\ ssTurn = IF ssFile = SsOld THEN 1 ELSE 0
  /\ ssCounts = [messages |-> ssTurn, records |-> 0, plans |-> 0, crashes |-> 0,
               waited |-> FALSE]
  /\ ssWritten = Tail(ssFile)

-----------------------------------------------------------------------------
(* Writing *)

\* What is appended after a line without an end makes one unreadable line.
SsAppend(file, lines) ==
  IF file # <<>> /\ Last(file).kind = "torn" /\ lines # <<>>
  THEN Front(file) \o <<SsGarbled>> \o Tail(lines) ELSE file \o lines

SsWrite(lines) ==
  /\ ssFile' = SsAppend(ssFile, lines)
  /\ ssWritten' = ssWritten \o lines

SsMayWrite == ssCounts.messages + ssCounts.records < SsMaxWrites

\* The last of the lines is cut off, and the process dies.  After a line without
\* an end, half a line has none either.
SsTear(lines) ==
  /\ ssFile' = IF Len(lines) = 1 /\ ssFile # <<>> /\ Last(ssFile).kind = "torn" THEN ssFile
               ELSE SsAppend(ssFile, [lines EXCEPT ![Len(lines)] = SsLine("torn", 0, 0, 0, "none")])
  /\ ssWritten' = ssWritten \o Front(lines)

SsDie ==
  /\ ssUp' = FALSE /\ ssRun' = SsNoRun /\ ssTurn' = 0
  /\ ssCounts.crashes < SsMaxCrashes

\* saveMessage: the message, then its entries in one write.
SsSaveMessage(what) ==
  LET id == ssCounts.messages + 1
      message == <<SsMessage(id, what, ssNow)>>
      entries == SsEntries(id, what, ssTurn, ssNow)
  IN /\ ssUp /\ SsMayWrite
     /\ ssNow' = ssNow + 1
     /\ \/ /\ SsWrite(message \o entries)
           /\ ssTurn' = ssTurn + 1
           /\ ssCounts' = [ssCounts EXCEPT !.messages = id]
           /\ UNCHANGED <<ssUp, ssRun>>
        \/ /\ SsWrite(message) \/ SsTear(message) \/ SsTear(message \o entries)
           /\ SsDie
           /\ ssCounts' = [ssCounts EXCEPT !.messages = id, !.crashes = @ + 1]

SsRecord(run) == SsLine("plan", run.id, 0, run.at, <<run.mode, run.status>>)

\* savePlanRun, with what becomes of the runningPlanRun
SsSaveRun(record, run) ==
  /\ ssUp /\ SsMayWrite
  /\ ssRun' = run /\ ssNow' = ssNow + 1
  /\ SsWrite(<<SsRecord(record)>>)
  /\ UNCHANGED <<ssUp, ssTurn>>

SsCountRecord == ssCounts' = [ssCounts EXCEPT !.records = @ + 1]

SsStartRun ==
  /\ ssUp /\ SsMayWrite /\ ssRun = SsNoRun /\ ssCounts.plans < SsMaxPlans
  /\ ssCounts' = [ssCounts EXCEPT !.plans = @ + 1, !.records = @ + 1]
  /\ \E mode \in SsModes :
       LET run == [id |-> ssCounts'.plans, at |-> ssNow, status |-> "running", mode |-> mode]
       IN IF mode = "goal" THEN SsSaveRun(run, run)
          ELSE ssRun' = run /\ ssNow' = ssNow + 1 /\ UNCHANGED <<ssFile, ssUp, ssTurn, ssWritten>>

\* onTaskStart and onTaskEnd: the same date at every step.
SsStepRun ==
  /\ ssRun.mode \in {"goal", "none"}
  /\ \E status \in {"running", "blocked"} :
       LET run == [ssRun EXCEPT !.status = status] IN SsSaveRun(run, run)
  /\ SsCountRecord

\* createStoredPlanRunRecord dates the last record anew.  A run in mode plan
\* is stored without its mode.
SsEndRun ==
  /\ ssRun # SsNoRun
  /\ \E status \in SsEnds :
       SsSaveRun([ssRun EXCEPT !.status = status, !.at = ssNow,
                               !.mode = IF @ = "plan" THEN "none" ELSE "goal"], SsNoRun)
  /\ SsCountRecord

\* The process is killed, perhaps while it writes a record of its run.
SsCrash ==
  /\ ssUp /\ SsDie
  /\ ssNow' = ssNow + 1
  /\ \/ UNCHANGED <<ssFile, ssWritten>>
     \/ ssRun.mode \in {"goal", "none"} /\ SsTear(<<SsRecord(ssRun)>>)
  /\ ssCounts' = [ssCounts EXCEPT !.crashes = @ + 1]

SsWait ==
  /\ ssUp /\ ~ ssCounts.waited
  /\ ssNow' = ssNow + SsPause
  /\ ssCounts' = [ssCounts EXCEPT !.waited = TRUE]
  /\ UNCHANGED <<ssFile, ssUp, ssTurn, ssRun, ssWritten>>

\* appendSubAgentRunRecord: a sub-agent's record, when it has returned.
SsSaveChild ==
  /\ ssUp /\ SsMayWrite
  /\ SsWrite(<<SsLine("sub_agent_run", ssCounts.records + 2, 0, ssNow, "completed")>>)
  /\ ssNow' = ssNow + 1
  /\ SsCountRecord
  /\ UNCHANGED <<ssUp, ssTurn, ssRun>>

-----------------------------------------------------------------------------
(* Reading *)

\* parseSessionLine: what a line is taken for.
SsParse(l) ==
  CASE l.kind = "message" -> "message"
    [] l.kind \in {"sub_agent_run", "child_execution"} -> "sub_agent_run"
    [] l.kind = "plan" -> "plan_run"
    [] l.kind = "entry" -> "transcript_entry"
    [] l.kind = "header" -> "session_header"
    [] OTHER -> "unknown"

\* normalizeSubAgentRunRecord: an older record is taken for one of today's.
SsTakenChild(l) == [l EXCEPT !.kind = "sub_agent_run"]

\* normalizePlanRunRecord: a status or a mode that is none is left out.
SsTakenPlan(l) ==
  [l EXCEPT !.what = <<IF @[1] \in SsModes THEN @[1] ELSE "none",
                       IF @[2] \in SsOpen \cup SsEnds THEN @[2] ELSE "none">>]

SsTaken(kind, l) ==
  CASE kind = "sub_agent_run" -> SsTakenChild(l)
    [] kind = "plan_run" -> SsTakenPlan(l)
    [] OTHER -> l

SsOfKind(kind) ==
  FlattenSeq([n \in DOMAIN ssFile |->
    IF SsParse(ssFile[n]) = kind THEN <<SsTaken(kind, ssFile[n])>> ELSE <<>>])

\* loadSession
SsMessages == SsOfKind("message")

\* As if the first of two records of a date were kept.
SsSupersedesEarlier(new, old) == new.at > old.at
\* dedupePlanRuns: of two records of a run the later date wins, of two of a
\* date the one further down in the file.
SsSupersedes(new, old) == new.at >= old.at

SsLatestOf(id, records) ==
  LET kept[n \in 0 .. Len(records)] ==
        IF n = 0 THEN SsGarbled
        ELSE IF records[n].id = id /\ (kept[n - 1].id = 0 \/ SsSupersedes(records[n], kept[n - 1]))
             THEN records[n] ELSE kept[n - 1]
  IN kept[Len(records)]

SsLatest ==
  LET records == SsOfKind("plan_run") IN
  {SsLatestOf(records[i].id, records) : i \in DOMAIN records}

\* In the order of their dates, which no two runs share.
SsPlanRuns ==
  [k \in 1 .. Cardinality(SsLatest) |->
     CHOOSE r \in SsLatest : Cardinality({s \in SsLatest : s.at < r.at}) = k - 1]

\* loadLatestResumablePlanRun; a run stored without a mode counts.
SsResumable ==
  LET open == {r \in SsLatest : r.what[1] # "plan" /\ r.what[2] \in SsOpen}
  IN IF open = {} THEN SsGarbled ELSE CHOOSE r \in open : \A s \in open : s.at <= r.at

\* The process starts again on this session, and takes up a run or none.
SsStart ==
  /\ ~ ssUp
  /\ ssUp' = TRUE
  /\ ssTurn' = Len(SsMessages)
  /\ ssNow' = ssNow + 1
  /\ \/ UNCHANGED <<ssRun, ssFile, ssWritten>>
     \/ /\ SsMayWrite /\ SsResumable # SsGarbled
        /\ ssRun' = [id |-> SsResumable.id, at |-> ssNow, status |-> "running",
                     mode |-> SsResumable.what[1]]
        /\ SsWrite(<<SsRecord(ssRun')>>)
  /\ IF ssRun' = SsNoRun THEN UNCHANGED ssCounts ELSE SsCountRecord

-----------------------------------------------------------------------------
(* Search and replay *)

\* A message without entries is given entries: its line is its turn, and its
\* time a second after the line before.
SsFallback ==
  FlattenSeq([n \in DOMAIN ssFile |->
    IF SsParse(ssFile[n]) = "message"
    THEN SsEntries(ssFile[n].id, ssFile[n].what, n - 1, n - 1) ELSE <<>>])

\* hasEquivalentExplicitEntry; text stands for the message.
SsEquivalent(entry, explicit) ==
  explicit.turn = entry.turn /\ explicit.what = entry.what /\ explicit.id = entry.id

\* As if a session with a transcript were searched in the transcript alone.
SsFoundInEntries(explicit, fallback) == IF explicit = <<>> THEN fallback ELSE explicit
\* readSessionEntries
SsFound(explicit, fallback) ==
  explicit \o FlattenSeq([n \in DOMAIN fallback |->
    IF \E i \in DOMAIN explicit : SsEquivalent(fallback[n], explicit[i])
    THEN <<>> ELSE <<fallback[n]>>])

SsAllEntries == SsFound(SsOfKind("transcript_entry"), SsFallback)

SsRoleOrder(role) == CASE role = "user" -> 0 [] role = "assistant" -> 1 [] OTHER -> 2

\* replaySession: by time, then turn, then role.
SsBefore(a, b) ==
  \/ a.at < b.at
  \/ a.at = b.at /\ a.turn < b.turn
  \/ a.at = b.at /\ a.turn = b.turn /\ SsRoleOrder(a.what) < SsRoleOrder(b.what)

SsReplay == SortSeq(SsAllEntries, SsBefore)

-----------------------------------------------------------------------------
(* Export *)

SsFirstItems(items) == SubSeq(items, 1, Min({Len(items), SsListItems}))

\* A section: the first records of a kind, and how many more there are.
SsSection(items) ==
  [shown |-> SsFirstItems(items), omitted |-> Len(items) - Len(SsFirstItems(items))]

\* assertExportable
SsExportable == \E kind \in {"message", "plan_run", "sub_agent_run"} : SsOfKind(kind) # <<>>

\* "Last activity": the date of the last record of the first kind there is.
SsTouched(runs, children) ==
  IF runs # <<>> THEN Last(runs).at ELSE IF children # <<>> THEN Last(children).at ELSE 0

\* renderSessionDocument: every message, and a section of each kind of record.
SsDocument ==
  LET children == SsOfKind("sub_agent_run")
      runs == SsPlanRuns
  IN
  [header |-> ssFile # <<>> /\ SsParse(ssFile[1]) = "session_header",
   messages |-> SsMessages,
   runs |-> SsSection(runs),
   children |-> SsSection(children),
   touched |-> SsTouched(runs, children)]

\* renderPrDescription: of the messages only the first and the last, and the
\* number of the records next to the first of them.
SsDraft ==
  LET children == SsOfKind("sub_agent_run")
      runs == SsPlanRuns
  IN
  [messages |-> Len(SsMessages),
   ends |-> IF SsMessages = <<>> THEN {} ELSE {SsMessages[1], Last(SsMessages)},
   runs |-> Len(runs), listed |-> SsFirstItems(runs),
   children |-> Len(children),
   touched |-> SsTouched(runs, children)]

SsNext ==
  \/ \E what \in {"user", "assistant", "result"} : SsSaveMessage(what)
  \/ SsStartRun \/ SsStepRun \/ SsEndRun \/ SsSaveChild \/ SsCrash \/ SsWait \/ SsStart

SsSpec == SsInit /\ [][SsNext]_ssVars

-----------------------------------------------------------------------------
(* Properties *)

SsCount(lines) ==
  Cardinality({n \in DOMAIN lines : lines[n].kind \in {"message", "plan", "entry"}})

\* A crash costs at most the write it cut off and the next one; what is left of
\* the conversation is in its order.
SsLittleLost ==
  /\ SsCount(ssWritten) - SsCount(ssFile) <= ssCounts.crashes
  /\ LET kept == SsMessages IN \A i, j \in DOMAIN kept : i < j => kept[i].id < kept[j].id

\* Whatever of a message is left in the file, itself or its entries, the search
\* finds it, and nothing else.
SsAllFound ==
  LET left == {ssFile[n].id : n \in {m \in DOMAIN ssFile :
                 SsParse(ssFile[m]) \in {"message", "transcript_entry"}}}
      all == SsAllEntries
  IN {all[i].id : i \in DOMAIN all} = left

\* Every run has in the list the last state that can be read of it, and the run
\* offered for a resume is the last one that is not over.
SsRunsTrue ==
  LET plans == {n \in DOMAIN ssFile : SsParse(ssFile[n]) = "plan_run"}
      final == {n \in plans : \A m \in plans : ssFile[m].id = ssFile[n].id => m <= n}
      open == {n \in final : ssFile[n].what[2] # "completed"}
      listed == SsPlanRuns
  IN /\ {listed[i] : i \in DOMAIN listed} = {ssFile[n] : n \in final}
     /\ IF open = {} THEN SsResumable = SsGarbled
        ELSE SsResumable = ssFile[CHOOSE n \in open : \A m \in open : m <= n]

\* The document and the draft tell of the same session: the draft's first and
\* last message are said in the document, its numbers are what the document
\* shows and leaves out; an export is refused only where there is nothing.
SsExportTrue ==
  LET document == SsDocument
      draft == SsDraft
  IN /\ SsExportable <=> \E n \in DOMAIN ssFile :
          ssFile[n].kind \notin {"header", "garbled", "torn", "entry"}
     /\ draft.messages = Len(document.messages)
     /\ draft.ends \subseteq {ssFile[n] : n \in DOMAIN ssFile}
     /\ draft.runs = Len(document.runs.shown) + document.runs.omitted
     /\ draft.runs = Cardinality({ssFile[n].id : n \in {m \in DOMAIN ssFile : ssFile[m].kind = "plan"}})
     /\ draft.listed = document.runs.shown
     /\ draft.children = Len(document.children.shown) + document.children.omitted

\* What is read back from a session file, by each of its readers, is what was
\* written to it, whenever and wherever in a write the program died; of nothing
\* there is no export.
SessionReadsTrue ==
  IF ssWritten = <<>> THEN ~ SsExportable
  ELSE SsLittleLost /\ SsAllFound /\ SsRunsTrue /\ SsExportTrue

\* A replay tells the messages in the order they were said.
ReplayInOrder ==
  LET replay == SsReplay IN \A i, j \in DOMAIN replay : i < j => replay[i].id <= replay[j].id
================================================================================
