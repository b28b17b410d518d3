------------------------------ MODULE SelfImprove ------------------------------
(***************************************************************************)
(* What the program learns of its own runs (src/agent/self-improve).       *)
(* Every evidence record is a line of a file for a skill, a kind of        *)
(* sub-agent or a plan.  The skills a session used are remembered and      *)
(* become records once, when the process ends.  /evidence-rotate moves old *)
(* records into an archive, first into it and then out of the live file,   *)
(* which it writes anew in place, while other processes append.  Any of    *)
(* these writes may be cut off, by an error or a death, and what is        *)
(* appended after half a line shares it.  A plan stops when its last       *)
(* records agree, and an experiment deals its variants in turn.            *)
(*                                                                         *)
(* Files 1 and 2 are two skills of one domain; SiRuns is the file of a     *)
(* plan or of a kind of sub-agent, a domain of its own.  A file is the set *)
(* of its lines: they are appended in the order of their numbers, and a    *)
(* rotation keeps it.  A line that lacks its end counts as half a line.    *)
(* The archive is that of one month.  Time is in days.                     *)
(* SiAfterFailureGoesOn, SiAheadOldest are versions of the definitions     *)
(* after them with a plausible fault.                                      *)
(***************************************************************************)
EXTENDS Integers, Sequences, FiniteSets

CONSTANTS
  SiMaxOps,       \* bound: operations
  SiMaxAge,       \* maxAgeDays
  SiMaxSize,      \* maxSizeBytes, in records
  SiCap,          \* entries of a SessionStateLRU and of the skill registry
  SiSessions,     \* bound: sessions
  SiStaleDays     \* TIER_STALE_DAYS of recall

ASSUME SiAssumption ==
  /\ {SiMaxOps, SiMaxAge, SiMaxSize, SiSessions, SiStaleDays} \subseteq Nat
  /\ SiCap \in Nat \ {0}

VARIABLES
  siLive,       \* lines of each file
  siArchive,    \* records in the archive
  siHalves,     \* live files, and files of the archive, that end with half a line
  siDay,        \* the clock
  siRotation,   \* the rotation under way
  siTracked,    \* sessions, the one longest untouched first
  siRegistry,   \* skills of sessions, likewise
  siEnding,     \* the sessions are being finalized
  siVerdict,    \* what the convergence gate said last
  siVariants,   \* runs and runsByVariant of an experiment
  siPicks,      \* what each process has read of it
  siSeen        \* what happened so far, for the bounds and the properties

siSessionVars == <<siTracked, siRegistry, siEnding>>
siExperimentVars == <<siVariants, siPicks>>
siVars == <<siLive, siArchive, siHalves, siDay, siRotation, siSessionVars, siVerdict,
            siExperimentVars, siSeen>>

SiSkills == {1, 2}
SiRuns == 3
SiFiles == SiSkills \cup {SiRuns}
SiDomains == {SiSkills, {SiRuns}}
SiProcs == {1, 2}

\* A line: its number among all (0 or less: it does not parse), file, day, iteration,
\* session and process it was in, outcome, and tool calls (0: not told).
SiLine(n, file, at, iteration, session, ok, steps) ==
  [n |-> n, file |-> file, at |-> at, iteration |-> iteration, session |-> session,
   ok |-> ok, steps |-> steps]
SiGarbled == SiLine(0, 1, 0, 0, <<0, 0>>, FALSE, 0)
SiParses(line) == line.n > 0
SiHalf(line) == IF SiParses(line) THEN [line EXCEPT !.n = 0 - @] ELSE line
SiPlace(line) == IF SiParses(line) THEN line.n ELSE 0 - line.n
SiNumbers(lines) == {r.n : r \in lines}

\* What there can be of the lines when their writing is cut off: the first of them, and
\* perhaps half of another.
SiBegun(lines) == {part \in SUBSET lines :
                     \A r \in part, q \in lines : SiPlace(q) < SiPlace(r) => q \in part}
SiBroken(lines, part) == {SiHalf(r) : r \in {q \in lines \ part :
                            \A o \in lines \ part : SiPlace(q) <= SiPlace(o)}}

SiNoRotation ==
  [at |-> "idle", todo |-> {}, touched |-> {}, moved |-> <<>>, kept |-> <<>>, open |-> {}]

SiInit ==
  /\ siLive \in {[f \in SiFiles |-> {}], [f \in SiFiles |-> IF f = 1 THEN {SiGarbled} ELSE {}]}
  /\ siArchive = {} /\ siHalves = {} /\ siDay = 0 /\ siRotation = SiNoRotation
  /\ siTracked = <<>> /\ siRegistry = <<>> /\ siEnding = FALSE
  /\ siVerdict = [reason |-> "none", ordered |-> TRUE]
  /\ siVariants = [runs |-> 0, by |-> <<0, 0>>]
  /\ siPicks = [p \in SiProcs |-> <<>>]
  /\ siSeen = [ops |-> 0, last |-> 0, records |-> {}, sized |-> {}, taken |-> {}, procs |-> 1,
               overlap |-> FALSE]

SiMayAct == siSeen.ops < SiMaxOps
SiSpent == [siSeen EXCEPT !.ops = @ + 1]

-----------------------------------------------------------------------------
(* Records *)

\* readEvidence: the lines that parse, of all days or of the last few.
SiRead(f, days) ==
  {r \in siLive[f] : SiParses(r) /\ (days = 0 \/ r.at >= siDay - days)}

\* summariseEval
SiSummary(records) ==
  LET passed == Cardinality({r \in records : r.ok})
  IN [total |-> Cardinality(records), passed |-> passed, failed |-> Cardinality(records) - passed]

\* appendEvidence, which says so when it cannot.  After half a line the new one is lost,
\* and so is one that a rotation of another process has not read, for that will write the
\* file anew.
SiAppend(line, whole) ==
  LET f == line.file
      shared == <<"live", f>> \in siHalves
  IN /\ siLive' = [siLive EXCEPT ![f] = @ \cup IF shared THEN {}
                                               ELSE IF whole THEN {line} ELSE {SiHalf(line)}]
     /\ siHalves' = IF whole THEN siHalves \ {<<"live", f>>} ELSE siHalves \cup {<<"live", f>>}
     /\ siSeen' = [SiSpent EXCEPT
          !.last = line.n,
          !.records = IF whole THEN @ \cup {line} ELSE @,
          !.taken = IF whole /\ (shared \/ f \in siRotation.touched) THEN @ \cup {line.n} ELSE @]

-----------------------------------------------------------------------------
(* Sessions and the skills they used *)

\* SessionStateLRU.set
SiTouch(lru, s, value) ==
  LET there == {i \in DOMAIN lru : lru[i].s = s}
      others == IF there = {} THEN lru
                ELSE LET i == CHOOSE i \in there : TRUE
                     IN SubSeq(lru, 1, i - 1) \o SubSeq(lru, i + 1, Len(lru))
      all == Append(others, [s |-> s, value |-> value])
  IN IF Len(all) > SiCap THEN Tail(all) ELSE all

SiSkillsOf(s) == UNION {siRegistry[i].value : i \in {j \in DOMAIN siRegistry : siRegistry[j].s = s}}

\* A turn: the router's selections join those of the session, and if it is
\* completed the session is tracked.  A session that was over may be resumed.
SiTurn ==
  /\ SiMayAct /\ ~ siEnding
  /\ \E s \in 1 .. SiSessions, used \in SUBSET SiSkills, completed \in BOOLEAN :
       /\ siRegistry' = SiTouch(siRegistry, s, SiSkillsOf(s) \cup used)
       /\ siTracked' = IF completed THEN SiTouch(siTracked, s, {}) ELSE siTracked
  /\ siSeen' = SiSpent
  /\ UNCHANGED <<siLive, siArchive, siHalves, siDay, siRotation, siEnding, siVerdict, siExperimentVars>>

\* finalizeAllSessions, when the process ends,
SiEnd ==
  /\ SiMayAct /\ ~ siEnding /\ siTracked # <<>>
  /\ siEnding' = TRUE
  /\ UNCHANGED <<siLive, siArchive, siHalves, siDay, siRotation, siTracked, siRegistry, siVerdict,
                 siExperimentVars, siSeen>>

\* evaluateSessionSkills and recordSkillRun: one record for each skill of a session, and
\* always a success, for finalizeSession says completed.  Its iteration is one more than
\* the number of records there.
SiUse ==
  LET s == Head(siTracked).s
      p == siSeen.procs
  IN /\ siEnding
     /\ \E k \in SiSkillsOf(s), whole \in BOOLEAN :
          /\ SiAppend(SiLine(siSeen.last + 1, k, siDay, Cardinality(SiRead(k, 0)) + 1, <<s, p>>,
                             TRUE, 0), whole)
          /\ siRegistry' = [i \in DOMAIN siRegistry |->
               IF siRegistry[i].s = s THEN [siRegistry[i] EXCEPT !.value = @ \ {k}] ELSE siRegistry[i]]
     /\ UNCHANGED <<siArchive, siDay, siRotation, siTracked, siEnding, siVerdict, siExperimentVars>>

\* The process and what it only remembered are gone; another may resume its sessions.
SiGone ==
  /\ siTracked' = <<>> /\ siRegistry' = <<>> /\ siEnding' = FALSE
  /\ UNCHANGED <<siLive, siArchive, siHalves, siDay, siRotation, siVerdict, siExperimentVars>>

\* The next session, or the end of the process.
SiFinalized ==
  /\ siEnding /\ SiSkillsOf(Head(siTracked).s) = {}
  /\ \/ /\ Len(siTracked) > 1
        /\ siTracked' = Tail(siTracked)
        /\ UNCHANGED <<siLive, siArchive, siHalves, siDay, siRotation, siRegistry, siEnding, siVerdict,
                       siExperimentVars, siSeen>>
     \/ /\ Len(siTracked) = 1
        /\ SiGone /\ siSeen' = [siSeen EXCEPT !.procs = @ + 1]

\* The process dies, before it has finalized its sessions or meanwhile.
SiDie ==
  /\ SiMayAct /\ siRegistry # <<>>
  /\ SiGone /\ siSeen' = [SiSpent EXCEPT !.procs = @ + 1]

-----------------------------------------------------------------------------
(* Convergence *)

SiAheadOldest(a, b) == a.iteration < b.iteration \/ (a.iteration = b.iteration /\ a.n < b.n)
\* checkConvergence sorts by iteration, the highest first.
SiAhead(a, b) == a.iteration > b.iteration \/ (a.iteration = b.iteration /\ a.n < b.n)
SiFirst(records) == CHOOSE a \in records : \A b \in records \ {a} : SiAhead(a, b)

\* computeDelta, in hundredths of the mean; nothing told is no difference.
SiDelta(a, b) ==
  LET d == a.steps - b.steps
  IN IF a.steps = 0 \/ b.steps = 0 THEN 0 ELSE (200 * (IF d < 0 THEN - d ELSE d)) \div (a.steps + b.steps)

\* checkConvergence of the last two, in the order of its tests.
SiJudge(records) ==
  LET newest == SiFirst(records)
      second == SiFirst(records \ {newest})
      stale == siDay - newest.at > SiStaleDays
      passed == newest.ok /\ second.ok
  IN CASE Cardinality(records) < 2 -> "insufficient-iters"
       [] Cardinality(records) >= 2 /\ stale -> "stale"
       [] Cardinality(records) >= 2 /\ ~ stale /\ ~ passed -> "not-all-passed"
       [] Cardinality(records) >= 2 /\ ~ stale /\ passed ->
            IF SiDelta(newest, second) > 10 THEN "steps-delta" ELSE "converged"

\* Each iteration is after all before it, which a rotation may end.
SiInOrder(records) == \A a, b \in records : a.n < b.n => a.iteration < b.iteration

\* recordIterationAndCheck, which tells no tool calls and judges what it then reads, and
\* recordSubagentRun, which does tell.
SiRun ==
  /\ SiMayAct
  /\ \E ok \in BOOLEAN, steps \in {0, 1, 2}, whole \in BOOLEAN :
       SiAppend(SiLine(siSeen.last + 1, SiRuns, siDay, Cardinality(SiRead(SiRuns, 0)) + 1, <<0, 0>>,
                       ok, steps), whole)
  /\ siVerdict' = [reason |-> SiJudge(SiRead(SiRuns, 0)'), ordered |-> SiInOrder(SiRead(SiRuns, 0)')]
  /\ UNCHANGED <<siArchive, siDay, siRotation, siSessionVars, siExperimentVars>>

-----------------------------------------------------------------------------
(* Rotation *)

SiIsOld(line) == SiParses(line) /\ line.at < siDay - SiMaxAge
SiYoung(f) == {r \in siLive[f] : ~ SiIsOld(r)}
SiOlder(a, b) ==
  \/ a.at < b.at
  \/ a.at = b.at /\ a.file < b.file
  \/ a.at = b.at /\ a.file = b.file /\ a.n < b.n

\* The oldest records of a domain, one for each it has too many; a line that
\* does not parse counts but stays.
SiTooMany(domain) ==
  LET young == UNION {SiYoung(f) : f \in domain}
      dated == {r \in young : SiParses(r)}
  IN {r \in dated : Cardinality({q \in dated : SiOlder(q, r)}) < Cardinality(young) - SiMaxSize}

\* performRotation reads every file of a domain; there may be nothing to move.
SiRotate(domain) ==
  LET sized == SiTooMany(domain)
      moved == [f \in domain |-> {r \in siLive[f] : SiIsOld(r) \/ r \in sized}]
      kept == [f \in domain |-> siLive[f] \ moved[f]]
      touched == {f \in domain : moved[f] # {}}
  IN /\ SiMayAct /\ siRotation = SiNoRotation /\ touched # {}
     /\ siRotation' = [at |-> "archive", todo |-> touched, touched |-> touched, moved |-> moved,
                       kept |-> kept, open |-> {}]
     /\ siSeen' = [SiSpent EXCEPT !.sized = @ \cup SiNumbers(sized)]
     /\ UNCHANGED <<siLive, siArchive, siHalves, siDay, siSessionVars, siVerdict, siExperimentVars>>

SiArchived(rotation, f) ==
  [rotation EXCEPT !.todo = @ \ {f}, !.at = IF rotation.todo = {f} THEN "rewrite" ELSE @]

\* Some of the records moved are appended to the archive, or begun: after half a line the
\* first of them is lost.
SiPutAway(f, part, half) ==
  LET shared == {r \in part : <<"archive", f>> \in siHalves /\ \A q \in part : r.n <= q.n}
  IN /\ siArchive' = siArchive \cup SiNumbers(part \ shared)
     /\ siHalves' = IF half THEN siHalves \cup {<<"archive", f>>}
                    ELSE IF part # {} THEN siHalves \ {<<"archive", f>>} ELSE siHalves
     /\ siSeen' = [siSeen EXCEPT !.taken = @ \cup SiNumbers(shared)]

\* appendArchive, a file at a time, in the order of its queues.
SiMove ==
  /\ siRotation.at = "archive"
  /\ \E f \in siRotation.todo :
       SiPutAway(f, siRotation.moved[f], FALSE) /\ siRotation' = SiArchived(siRotation, f)
  /\ UNCHANGED <<siLive, siDay, siSessionVars, siVerdict, siExperimentVars>>

SiRewritten(rotation, f) ==
  IF rotation.touched = {f} THEN SiNoRotation
  ELSE [rotation EXCEPT !.touched = @ \ {f}, !.at = "rewrite", !.open = {}]

\* The live files, once all of them are in the archive: one with nothing to keep is removed,
\* any other emptied,
SiRewrite ==
  /\ siRotation.at = "rewrite"
  /\ \E f \in siRotation.touched :
       /\ siLive' = [siLive EXCEPT ![f] = {}] /\ siHalves' = siHalves \ {<<"live", f>>}
       /\ siRotation' = IF siRotation.kept[f] = {} THEN SiRewritten(siRotation, f)
                        ELSE [siRotation EXCEPT !.at = "fill", !.open = {f}]
  /\ UNCHANGED <<siArchive, siDay, siSessionVars, siVerdict, siExperimentVars, siSeen>>

\* and written, over what was appended meanwhile.
SiFill ==
  /\ siRotation.at = "fill"
  /\ \E f \in siRotation.open :
       /\ siLive' = [siLive EXCEPT ![f] = siRotation.kept[f]]
       /\ siHalves' = siHalves \ {<<"live", f>>}
       /\ siRotation' = SiRewritten(siRotation, f)
  /\ UNCHANGED <<siArchive, siDay, siSessionVars, siVerdict, siExperimentVars, siSeen>>

\* As if it went on with the next file.
SiAfterFailureGoesOn(rotation, f) ==
  IF rotation.at = "archive" THEN SiArchived(rotation, f) ELSE SiNoRotation
\* The rotation returns with the error.
SiAfterFailure(rotation, f) == SiNoRotation

\* A file cannot be written, or the process dies, between two writes or in the middle of
\* one: of a live file the rest of what was kept is lost.
SiFail ==
  /\ siRotation.at \in {"archive", "fill"}
  /\ \E f \in IF siRotation.at = "archive" THEN siRotation.todo ELSE siRotation.open, half \in BOOLEAN :
       /\ IF siRotation.at = "archive"
          THEN /\ \E part \in SiBegun(siRotation.moved[f]) :
                    (half => part # siRotation.moved[f]) /\ SiPutAway(f, part, half)
               /\ UNCHANGED siLive
          ELSE \E part \in SiBegun(siRotation.kept[f]) :
                 /\ half => part # siRotation.kept[f]
                 /\ siLive' = [siLive EXCEPT ![f] =
                      part \cup IF half THEN SiBroken(siRotation.kept[f], part) ELSE {}]
                 /\ siHalves' = IF half THEN siHalves \cup {<<"live", f>>} ELSE siHalves \ {<<"live", f>>}
                 /\ siSeen' = [siSeen EXCEPT !.taken = @ \cup SiNumbers(siRotation.kept[f] \ part)]
                 /\ UNCHANGED siArchive
       /\ siRotation' = SiAfterFailure(siRotation, f)
  /\ UNCHANGED <<siDay, siSessionVars, siVerdict, siExperimentVars>>

\* The same between two live files.
SiStop ==
  /\ siRotation.at = "rewrite"
  /\ siRotation' = SiNoRotation
  /\ UNCHANGED <<siLive, siArchive, siHalves, siDay, siSessionVars, siVerdict, siExperimentVars, siSeen>>

\* Once, for the bound: some days pass, within the age kept or beyond it.
SiTick ==
  /\ siDay = 0
  /\ siDay' \in {1, SiMaxAge + 1}
  /\ UNCHANGED <<siLive, siArchive, siHalves, siRotation, siSessionVars, siVerdict,
                 siExperimentVars, siSeen>>

-----------------------------------------------------------------------------
(* Experiments *)

\* pickVariant reads the experiment ...
SiLook(p) ==
  /\ SiMayAct /\ siPicks[p] = <<>>
  /\ siPicks' = [siPicks EXCEPT ![p] = <<siVariants>>]
  /\ siSeen' = [SiSpent EXCEPT !.overlap = @ \/ \E q \in SiProcs : siPicks[q] # <<>>]
  /\ UNCHANGED <<siLive, siArchive, siHalves, siDay, siRotation, siSessionVars, siVerdict, siVariants>>

\* ... and saves it with one more run of the variant that had fewest.
SiDeal(p) ==
  /\ siPicks[p] # <<>>
  /\ LET read == siPicks[p][1]
         i == IF read.by[2] < read.by[1] THEN 2 ELSE 1
     IN siVariants' = [runs |-> read.runs + 1, by |-> [read.by EXCEPT ![i] = @ + 1]]
  /\ siPicks' = [siPicks EXCEPT ![p] = <<>>]
  /\ UNCHANGED <<siLive, siArchive, siHalves, siDay, siRotation, siSessionVars, siVerdict, siSeen>>

\* registerExperiment, also of a name that there is: its counts start again.
SiRegister ==
  /\ SiMayAct /\ siVariants.runs > 0
  /\ siVariants' = [runs |-> 0, by |-> <<0, 0>>]
  /\ siSeen' = [SiSpent EXCEPT !.overlap = @ \/ \E q \in SiProcs : siPicks[q] # <<>>]
  /\ UNCHANGED <<siLive, siArchive, siHalves, siDay, siRotation, siSessionVars, siVerdict, siPicks>>

SiNext ==
  \/ SiTurn \/ SiEnd \/ SiUse \/ SiFinalized \/ SiDie \/ SiRun \/ SiTick
  \/ \E domain \in SiDomains : SiRotate(domain)
  \/ SiMove \/ SiRewrite \/ SiFill \/ SiFail \/ SiStop
  \/ \E p \in SiProcs : SiLook(p) \/ SiDeal(p)
  \/ SiRegister

SiSpec == SiInit /\ [][SiNext]_siVars

-----------------------------------------------------------------------------
(* Properties *)

\* A file that a rotation has emptied is about to have again what it keeps.
SiHeld(f) == IF f \in siRotation.open THEN siRotation.kept[f] ELSE siLive[f]

\* However a rotation fails, every record is in its live file or in the archive, but one that
\* another process appended between the reading and the writing, one that was not written
\* yet when the writing of the live file was cut off, and one that came after half a line.
SiNothingLost ==
  \A r \in siSeen.records : r.n \in siSeen.taken \cup siArchive \/ r \in SiHeld(r.file)

\* The summary of the days a rotation keeps counts the other records of those days, but in
\* the moment in which the file is empty; only the limit on the size takes any of them.
SiSummaryKept ==
  \A f \in SiFiles \ siRotation.open :
    LET recent == {r \in siSeen.records : /\ r.file = f /\ r.at >= siDay - SiMaxAge
                                          /\ r.n \notin siSeen.sized \cup siSeen.taken}
        told == SiSummary(SiRead(f, SiMaxAge))
    IN told.passed >= SiSummary(recent).passed /\ told.failed >= SiSummary(recent).failed

\* A process makes one record of each skill of a session, however many turns used it; one
\* that resumes the session makes another.
SiOneOfEach ==
  \A a, b \in siSeen.records :
    (a.file # SiRuns /\ a.file = b.file /\ a.session = b.session) => a = b

\* If the iterations it read were in order and no run was lost, the gate converged on two
\* runs that were the last two and both a success.
SiGateHonest ==
  LET runs == {r \in siSeen.records : r.file = SiRuns}
  IN (/\ siVerdict.reason = "converged" /\ siVerdict.ordered
      /\ \A r \in runs : r.n \notin siSeen.taken)
     => \E a, b \in runs : /\ a # b /\ a.ok /\ b.ok
                           /\ \A c \in runs \ {a, b} : c.n < a.n /\ c.n < b.n

\* Unless two processes picked at once the variants have had equal turns.
SiVariantsEven ==
  ~ siSeen.overlap => /\ siVariants.by[1] - siVariants.by[2] \in {0, 1}
                      /\ siVariants.runs = siVariants.by[1] + siVariants.by[2]

\* What is learned rests on what happened: no record is lost, counted twice or passed over,
\* by a rotation that fails between two files least of all.  A write that is cut off loses
\* what it had not written, and one record more where it leaves half a line
\* (evidence-rotation.ts:145 and 366, evidence.ts:54).
EvidenceSound ==
  SiNothingLost /\ SiSummaryKept /\ SiOneOfEach /\ SiGateHonest /\ SiVariantsEven
================================================================================
