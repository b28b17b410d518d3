------------------------------ MODULE MemoryStore ------------------------------
(***************************************************************************)
(* The project memory of a directory (src/memory): one file per memory,    *)
(* an index of them, a directory of tombstones, and in every process a     *)
(* cache of the list.  Nothing is locked.  An operation is a list of tasks *)
(* and a task writes the entry's file first and the index after it, both   *)
(* in place: a file is emptied and then filled.  A process may die, a      *)
(* write fail or another process work between any two of these steps.      *)
(*                                                                         *)
(* An entry is its body's revision, 0 for a body that was cut off, tier,   *)
(* access count and whether it is flagged as a tombstone; its weight and   *)
(* dates are left out.  MemCacheKept is a version of the definition after  *)
(* it with a plausible fault.                                              *)
(***************************************************************************)
EXTENDS Integers, SequencesExt

CONSTANTS
  MemNames,       \* names of memories
  MemAlso,        \* pairs <<a, b>>: who restores a finds the tombstones of b as well
  MemSessions,    \* processes that have the directory open
  MemRevisions,   \* bound: bodies ever written
  MemMaxFaults,   \* bound: crashes and writes that fail
  MemThreshold,   \* AUTO_PROMOTE_THRESHOLD
  MemLimit        \* the size of the working set

\* A directory holds finitely many files.
ASSUME MemAssumption == IsFiniteSet(MemNames)

VARIABLES
  memFile,    \* the entry in the file of every name, MemAbsent or MemTorn
  memRows,    \* names the index lists; without rows it counts as absent
  memTombs,   \* files among the tombstones: [name, num, entry]
  memCache,   \* tierList of every process, or MemAbsent
  memJob,     \* what every process is doing
  memNewest,  \* the newest body given to every name, 0 for none
  memLost,    \* names whose body a write that failed or another's tombstone took
  memFaults   \* crashes and failed writes so far

memVars == <<memFile, memRows, memTombs, memCache, memJob, memNewest, memLost, memFaults>>

MemTiers == {"core", "recall", "archival"}
MemAbsent == [body |-> 0]
MemTorn == [body |-> -1]   \* a file that does not read as an entry
MemEntry == [body : 0 .. MemRevisions, tier : MemTiers, hits : 0 .. MemThreshold,
             dead : BOOLEAN]
MemToDo(tasks) == [step |-> "idle", todo |-> tasks, entry |-> MemAbsent, rows |-> {}]
MemIdle == MemToDo(<<>>)

MemInit ==
  /\ memFile = [n \in MemNames |-> MemAbsent]
  /\ memRows = {}
  /\ memTombs = {}
  /\ memCache = [s \in MemSessions |-> MemAbsent]
  /\ memJob = [s \in MemSessions |-> MemIdle]
  /\ memNewest = [n \in MemNames |-> 0]
  /\ memLost = {} /\ memFaults = 0

-----------------------------------------------------------------------------
(* Reading *)

MemExists(n) == memFile[n] # MemAbsent
\* readEntry makes something of the file.
MemLive(n) == memFile[n] \notin {MemAbsent, MemTorn}

\* listEntries: the rows of the index, or every file that can be read when it has none.
MemListed == IF memRows # {} THEN memRows ELSE {n \in MemNames : MemLive(n)}

\* tierList and its cache: the entries of the rows whose file can be read.
MemReadAll == [n \in {m \in MemListed : MemLive(m)} |-> memFile[n]]
MemTierList(s) == IF memCache[s] # MemAbsent THEN memCache[s] ELSE MemReadAll
MemOfTier(list, tier) == {n \in DOMAIN list : list[n].tier = tier}

\* computeSelection: core is never cut, recall fills what is left.  Which of
\* the recalled are taken is a matter of dates.
MemWorkingSets(s) ==
  LET list == MemTierList(s)
      room == MemLimit - Cardinality(MemOfTier(list, "core"))
  IN  {MemOfTier(list, "core") \cup some :
         some \in {r \in SUBSET MemOfTier(list, "recall") :
                     \/ r = {} /\ room <= 0
                     \/ room > 0 /\ (\/ Cardinality(r) = room
                                     \/ Cardinality(r) < room /\ r = MemOfTier(list, "recall"))}}

\* compact: entries of neither core nor archival that are very old, or old and
\* of low importance, and recalled ones, oldest first, while all are too long.
\* Age, importance and length are data: any set of the recalled may qualify.
MemCompactable == SUBSET MemOfTier(MemReadAll, "recall")

-----------------------------------------------------------------------------
(* What a task makes of the entry it reads *)

MemTask(op, n) == [op |-> op, name |-> n, entry |-> MemAbsent]
MemTasks(op, names) == [i \in 1 .. Cardinality(names) |-> MemTask(op, SetToSeq(names)[i])]

MemRevision == 1 + FoldFunction(LAMBDA a, b : IF a > b THEN a ELSE b, 0, memNewest)

\* The MemoryWrite tool writes an entry without the old one's fields.
MemFresh(tier, hits) ==
  [body |-> MemRevision, tier |-> tier, hits |-> hits, dead |-> FALSE]

MemHigher(tier) == IF tier = "archival" THEN "recall" ELSE "core"
MemLower(tier) == IF tier = "core" THEN "recall" ELSE "archival"
MemMore(hits) == IF hits < MemThreshold THEN hits + 1 ELSE hits

\* decayApply, whose weight is left out, decayRestore, and the first half of
\* decayTombstone.
MemFaded(e) == e
MemRestored(e) == [e EXCEPT !.dead = FALSE]
MemFlagged(e) == [e EXCEPT !.dead = TRUE]

\* The functions that change an entry, by name.
MemChanged(op, e) ==
  CASE op \in MemTiers -> [e EXCEPT !.tier = op]
    [] op = "up" -> [e EXCEPT !.tier = MemHigher(e.tier)]
    [] op = "down" -> [e EXCEPT !.tier = MemLower(e.tier)]
    [] op = "touch" -> [e EXCEPT !.hits = MemMore(e.hits)]
    [] op = "fade" -> MemFaded(e)
    [] op = "restore" -> MemRestored(e)
    [] op = "bury" -> MemFlagged(e)

\* The entry a task writes.  Those that change one need it to be there, which
\* requireEntry and its likes check; promotion writes what its list said.
MemWanted(t) ==
  CASE t.op = "write" -> MemFresh("recall", 0)
    [] t.op = "summary" -> MemFresh(IF MemLive(t.name) THEN memFile[t.name].tier ELSE "core", 1)
    [] t.op = "promote" -> [t.entry EXCEPT !.tier = "core"]
    [] OTHER -> IF MemLive(t.name) THEN MemChanged(t.op, memFile[t.name]) ELSE MemAbsent

\* tierPromote and tierDemote write nothing when the tier stays.
MemUnchanged(t) == t.op \in {"up", "down"} /\ MemWanted(t) = memFile[t.name]

-----------------------------------------------------------------------------
(* The writes of a task, one at a time *)

\* findTombstoneFile: the name itself or one of its numbered copies, but also the name in
\* lower case or with other characters in place of some, and, by the prefix it looks for, a
\* name that goes on after a dot.
MemFindable(n) == {t \in memTombs : t.name = n \/ <<n, t.name>> \in MemAlso}

MemSet(s, job) == memJob' = [memJob EXCEPT ![s] = job]
MemDone(s) == MemToDo(Tail(memJob[s].todo))

\* What the writes of a task are for: a new body, a burial or a change.
MemKind(op) == CASE op \in {"write", "summary"} -> "write" [] op = "bury" -> "bury" [] OTHER -> "change"

\* The reads before the first write: the entry, and the list for the index.
MemPrepare(s) ==
  LET t == Head(memJob[s].todo)
  IN  /\ memJob[s].step = "idle" /\ memJob[s].todo # <<>>
      /\ MemWanted(t) # MemAbsent /\ ~ MemUnchanged(t)
      /\ MemSet(s, [step |-> "file", todo |-> [memJob[s].todo EXCEPT ![1].op = MemKind(t.op)],
                    entry |-> MemWanted(t), rows |-> MemListed \cup {t.name}])
      /\ UNCHANGED <<memFile, memRows, memTombs, memCache, memNewest, memLost, memFaults>>

\* Nothing to write, or nothing to read: then an operation throws, except that
\* decayRun collects the error and goes on.
MemSkip(s) ==
  LET t == Head(memJob[s].todo)
  IN  /\ memJob[s].step = "idle" /\ memJob[s].todo # <<>>
      /\ \/ MemWanted(t) # MemAbsent /\ MemUnchanged(t)
         \/ MemWanted(t) = MemAbsent /\ ~ (t.op = "restore" /\ MemFindable(t.name) # {})
      /\ MemSet(s, IF MemWanted(t) # MemAbsent \/ t.op = "fade" THEN MemDone(s) ELSE MemIdle)
      /\ UNCHANGED <<memFile, memRows, memTombs, memCache, memNewest, memLost, memFaults>>

\* recoverFromTombstones: the first file found moves back under the name in it, over
\* whatever is there, and the restoration goes on with that name if the file can be read.
MemDig(s) ==
  LET t == Head(memJob[s].todo)
  IN  /\ memJob[s].step = "idle" /\ memJob[s].todo # <<>>
      /\ t.op = "restore" /\ ~ MemLive(t.name)
      /\ \E f \in MemFindable(t.name) :
           /\ memTombs' = memTombs \ {f}
           /\ memFile' = [memFile EXCEPT ![f.name] = f.entry]
           /\ memLost' = IF f.name # t.name /\ MemExists(f.name) THEN memLost \cup {f.name}
                         ELSE memLost
           /\ MemSet(s, IF f.entry = MemTorn THEN MemIdle
                        ELSE [memJob[s] EXCEPT !.todo[1].name = f.name])
      /\ UNCHANGED <<memRows, memCache, memNewest, memFaults>>

\* writeEntry: the file is emptied,
MemOpenFile(s) ==
  LET t == Head(memJob[s].todo)
      e == memJob[s].entry
  IN  /\ memJob[s].step = "file"
      /\ memFile' = [memFile EXCEPT ![t.name] = MemTorn]
      /\ memNewest' = [memNewest EXCEPT ![t.name] = IF t.op = "write" THEN e.body ELSE @]
      /\ MemSet(s, [memJob[s] EXCEPT !.step = "fill"])
      /\ UNCHANGED <<memRows, memTombs, memCache, memLost, memFaults>>

\* and written.
MemFillFile(s) ==
  LET t == Head(memJob[s].todo)
  IN  /\ memJob[s].step = "fill"
      /\ memFile' = [memFile EXCEPT ![t.name] = memJob[s].entry]
      /\ memLost' = IF t.op = "write" THEN memLost \ {t.name} ELSE memLost
      /\ MemSet(s, [memJob[s] EXCEPT !.step = "index", !.entry = MemAbsent])
      /\ UNCHANGED <<memRows, memTombs, memCache, memNewest, memFaults>>

\* writeEntry and deleteEntry: so is the index, from the list read before the file was
\* written.  One without rows is removed.
MemOpenIndex(s) ==
  /\ memJob[s].step = "index"
  /\ memRows' = {}
  /\ MemSet(s, [memJob[s] EXCEPT !.step = "rows"])
  /\ UNCHANGED <<memFile, memTombs, memCache, memNewest, memLost, memFaults>>

MemCacheKept(s) == memCache

\* invalidate: only this process hears of it.
MemInvalidated(s) == [memCache EXCEPT ![s] = MemAbsent]

MemFillIndex(s) ==
  /\ memJob[s].step = "rows"
  /\ memRows' = memJob[s].rows
  /\ memCache' = MemInvalidated(s)
  /\ MemSet(s, IF Head(memJob[s].todo).op = "bury"
               THEN [memJob[s] EXCEPT !.step = "bury", !.todo[1].op = "drop"] ELSE MemDone(s))
  /\ UNCHANGED <<memFile, memTombs, memNewest, memLost, memFaults>>

\* The first number under which the tombstones have no file of that name.
MemFree(n) == CHOOSE i \in 0 .. Cardinality(memTombs) :
                /\ \A t \in memTombs : ~ (t.name = n /\ t.num = i)
                /\ \A j \in 0 .. i - 1 : \E t \in memTombs : t.name = n /\ t.num = j

\* decayTombstone: the file moves.
MemBury(s) ==
  LET n == Head(memJob[s].todo).name
      num == MemFree(n)
  IN  /\ memJob[s].step = "bury"
      /\ IF MemExists(n)
         THEN /\ memTombs' = {t \in memTombs : ~ (t.name = n /\ t.num = num)}
                               \cup {[name |-> n, num |-> num, entry |-> memFile[n]]}
              /\ memFile' = [memFile EXCEPT ![n] = MemAbsent]
         ELSE UNCHANGED <<memTombs, memFile>>
      /\ MemSet(s, [memJob[s] EXCEPT !.step = "unlink"])
      /\ UNCHANGED <<memRows, memCache, memNewest, memLost, memFaults>>

\* deleteEntry: reads the list, removes the file if there is one.
MemUnlink(s) ==
  LET n == Head(memJob[s].todo).name
  IN  /\ memJob[s].step = "unlink"
      /\ memFile' = [memFile EXCEPT ![n] = MemAbsent]
      /\ MemSet(s, IF ~ MemExists(n) /\ n \notin MemListed THEN MemDone(s)
                   ELSE [memJob[s] EXCEPT !.step = "index", !.rows = MemListed \ {n}])
      /\ UNCHANGED <<memRows, memTombs, memCache, memNewest, memLost, memFaults>>

\* What a write that does not come to its end leaves: of a file something that is no entry
\* or one with half a body, of the index some of the rows.
MemCutOff(s) ==
  LET n == Head(memJob[s].todo).name
      half == [memJob[s].entry EXCEPT !.body = 0]
  IN  /\ IF memJob[s].step = "fill"
         THEN \E left \in {MemTorn, half} : memFile' = [memFile EXCEPT ![n] = left]
         ELSE UNCHANGED memFile
      /\ IF memJob[s].step = "rows" THEN memRows' \in SUBSET memJob[s].rows ELSE UNCHANGED memRows
      /\ memFaults < MemMaxFaults /\ memFaults' = memFaults + 1
      /\ UNCHANGED <<memTombs, memNewest>>

\* A write fails: the operation throws, which decayRun collects, and whatever the cache
\* said of the file before stays in it.
MemFail(s) ==
  LET todo == memJob[s].todo
      late == memJob[s].step \in {"index", "rows"} /\ todo[1].op = "write"
  IN  /\ memJob[s].step # "idle"
      /\ MemCutOff(s)
      /\ memLost' = IF memJob[s].step = "fill" \/ late THEN memLost \cup {todo[1].name} ELSE memLost
      /\ MemSet(s, IF Len(todo) > 1 /\ todo[2].op = "fade" THEN MemDone(s) ELSE MemIdle)
      /\ UNCHANGED memCache

-----------------------------------------------------------------------------
(* The operations *)

MemBegin(s, tasks) ==
  /\ memJob[s] = MemIdle
  /\ MemSet(s, MemToDo(tasks))
  /\ UNCHANGED <<memFile, memRows, memTombs, memNewest, memLost, memFaults>>

\* The MemoryWrite tool, in the project's scope.
MemoryWrite(s, n) ==
  /\ MemRevision <= MemRevisions
  /\ MemBegin(s, <<MemTask("write", n)>>) /\ UNCHANGED memCache

\* maybeWriteAutoSummary at the end of a turn, when it is worth one.
MemSummarise(s, n) ==
  /\ MemRevision <= MemRevisions
  /\ MemBegin(s, <<MemTask("summary", n)>>) /\ UNCHANGED memCache

\* tierSet, tierPromote, tierDemote, tierTouch, decayApply, decayRestore and
\* decayTombstone of one memory.
MemChange(s, op, n) ==
  /\ op \in MemTiers \cup {"up", "down", "touch", "fade", "restore", "bury"}
  /\ MemBegin(s, <<MemTask(op, n)>>) /\ UNCHANGED memCache

\* promoteByAccessCount when a session ends: the entries of the list are written
\* back, with another tier.
MemPromote(s) ==
  LET list == MemTierList(s)
      due == {n \in MemOfTier(list, "recall") : list[n].hits >= MemThreshold}
      tasks == [i \in 1 .. Cardinality(due) |->
                  [op |-> "promote", name |-> SetToSeq(due)[i], entry |-> list[SetToSeq(due)[i]]]]
  IN  /\ memCache' = [memCache EXCEPT ![s] = list]
      /\ MemBegin(s, tasks)

\* The system prompt's selection, which fills the cache and may touch the
\* entries it takes.
MemSelect(s) ==
  \E names \in MemWorkingSets(s), touch \in BOOLEAN :
    /\ memCache' = [memCache EXCEPT ![s] = MemTierList(s)]
    /\ MemBegin(s, IF touch THEN MemTasks("touch", names) ELSE <<>>)

\* compact without dryRun.
MemCompact(s) ==
  \E names \in MemCompactable :
    /\ names # {} /\ MemBegin(s, MemTasks("archival", names)) /\ UNCHANGED memCache

\* decayRun: the criteria take any of the entries that are no tombstones.
MemDecayRun(s) ==
  \E names \in SUBSET {n \in DOMAIN MemReadAll : ~ memFile[n].dead} :
    /\ names # {} /\ MemBegin(s, MemTasks("fade", names)) /\ UNCHANGED memCache

\* The process dies and is started again.
MemCrash(s) ==
  /\ memJob[s] # MemIdle \/ memCache[s] # MemAbsent
  /\ MemCutOff(s)
  /\ memLost' = IF memJob[s].step = "fill" THEN memLost \cup {Head(memJob[s].todo).name}
                ELSE memLost
  /\ MemSet(s, MemIdle)
  /\ memCache' = [memCache EXCEPT ![s] = MemAbsent]

MemStep(s) ==
  \/ MemPrepare(s) \/ MemSkip(s) \/ MemDig(s)
  \/ MemOpenFile(s) \/ MemFillFile(s) \/ MemOpenIndex(s) \/ MemFillIndex(s)
  \/ MemBury(s) \/ MemUnlink(s) \/ MemFail(s)

MemNext ==
  \E s \in MemSessions :
    \/ MemStep(s) \/ MemPromote(s) \/ MemSelect(s)
    \/ MemCompact(s) \/ MemDecayRun(s) \/ MemCrash(s)
    \/ \E n \in MemNames : MemoryWrite(s, n) \/ MemSummarise(s, n)
    \/ \E n \in MemNames, op \in MemTiers \cup {"up", "down", "touch", "fade", "restore", "bury"} :
         MemChange(s, op, n)

MemSpec == MemInit /\ [][MemNext]_memVars
-----------------------------------------------------------------------------
(* Properties *)

\* The newest body of a memory is always somewhere: in its file, among the tombstones or
\* in the hands of the write under way, wherever a process has died between the writes of
\* an operation and whatever was decayed, promoted from the cache, buried or restored,
\* while one process has the directory open (a second one writes back what its cache still
\* says).  It is lost in two ways only: a write of the memory was cut off or failed, or a
\* restore of another name, which finds this one's tombstones, moved an older body over it
\* (project-memory.ts:252, decay.ts:398).
NewestBodyKept ==
  \A n \in MemNames :
    memNewest[n] > 0 =>
      \/ memFile[n].body = memNewest[n]
      \/ \E t \in memTombs : t.name = n /\ t.entry.body = memNewest[n]
      \/ \E s \in MemSessions : /\ memJob[s].step = "fill" /\ Head(memJob[s].todo).name = n
                                /\ memJob[s].entry.body = memNewest[n]
      \/ n \in memLost
=============================================================================
