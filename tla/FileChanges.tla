------------------------------ MODULE FileChanges ------------------------------
(***************************************************************************)
(* Files the agent reads and changes: FileRead with its cache, FileEdit    *)
(* and FileWrite, the backups behind /undo, and file transactions.         *)
(*                                                                         *)
(* A content is a number, 0 for a file that is not there, and fcTorn for   *)
(* one whose writing was cut short.  Anyone else may change a file at any  *)
(* time: an editor, a command, a sub-agent.  The tools look at a file in   *)
(* several steps; reads run together, a change runs alone.  Backups are    *)
(* kept on disk; what was read, the cache and the last path changed are    *)
(* gone with the process.  What an edit does to a text is in TextEdits.    *)
(* FcStaleAllowed and FcBackupNewest are versions of the definition after  *)
(* each of them with a plausible fault.                                    *)
(***************************************************************************)
EXTENDS Integers, Sequences, FiniteSets

CONSTANTS
  FcFiles,         \* files
  FcThere,         \* those that are there at the start of the session
  FcReaders,       \* calls of FileRead that may run at a time
  FcCacheSize,     \* maxEntries of ToolCache
  FcMaxContents,   \* bound: contents ever made
  FcMaxReads,      \* bound: calls of FileRead
  FcMaxTouches     \* bound: changes by others, undos, transactions and restarts

ASSUME FcBounds ==
  /\ FcThere \subseteq FcFiles
  /\ FcCacheSize \in Nat \ {0} /\ FcMaxContents \in Nat \ {0}
  /\ FcMaxReads \in Nat /\ FcMaxTouches \in Nat

VARIABLES
  fcDisk,      \* what every file holds and when it was changed
  fcMade,      \* contents made, reads, and changes by others
  fcCache,     \* ToolCache: contents by file, time and range
  fcSeen,      \* readFileState
  fcBackups,   \* the backups of the session on disk, in the order they were taken
  fcLast,      \* lastPath of the BackupStore
  fcReads,     \* the reads under way
  fcCall,      \* the FileEdit or FileWrite under way
  fcTx,        \* a FileTransaction
  fcPast       \* history: content before the first change, contents shown, files touched

fcVars == <<fcDisk, fcMade, fcCache, fcSeen, fcBackups, fcLast, fcReads, fcCall, fcTx, fcPast>>

fcTorn == -1
FcIdle == [step |-> "idle"]
FcUnread == [content |-> 0, part |-> FALSE, known |-> FALSE]
FcNoTx == [status |-> "none", files |-> <<>>]

\* The agent has seen none of them.
FcInit ==
  /\ fcDisk = [f \in FcFiles |-> [content |-> IF f \in FcThere THEN 1 ELSE 0, time |-> 0]]
  /\ fcMade = [contents |-> 1, reads |-> 0, touches |-> 0]
  /\ fcCache = {}
  /\ fcSeen = [f \in FcFiles |-> FcUnread]
  /\ fcBackups = <<>>
  /\ fcLast = <<>>
  /\ fcReads = [r \in FcReaders |-> FcIdle]
  /\ fcCall = FcIdle
  /\ fcTx = FcNoTx
  /\ fcPast = [f \in FcFiles |-> [first |-> fcTorn, shown |-> {}, touched |-> FALSE]]

FcReading == \E r \in FcReaders : fcReads[r].step # "idle"

-----------------------------------------------------------------------------
(* The disk *)

\* A new time with every change.
FcPut(f, content) ==
  fcDisk' = [fcDisk EXCEPT ![f] = [content |-> content, time |-> @.time + 1]]

\* Someone else writes or removes a file.
FcOthers ==
  /\ fcMade.touches < FcMaxTouches
  /\ \E f \in FcFiles :
       /\ \E content \in {0, fcMade.contents + 1} \ {fcDisk[f].content} :
            /\ content <= FcMaxContents
            /\ FcPut(f, content)
            /\ fcMade' = [fcMade EXCEPT !.touches = @ + 1,
                                        !.contents = IF content = 0 THEN @ ELSE content]
       /\ fcPast' = [fcPast EXCEPT ![f].touched = TRUE]
       /\ fcReads' = [r \in FcReaders |->
                        IF fcReads[r].step # "idle" /\ fcReads[r].file = f
                        THEN [fcReads[r] EXCEPT !.raced = TRUE] ELSE fcReads[r]]
       /\ fcCall' = IF fcCall.step # "idle" /\ fcCall.file = f
                    THEN [fcCall EXCEPT !.raced = TRUE] ELSE fcCall
  /\ UNCHANGED <<fcCache, fcSeen, fcBackups, fcLast, fcTx>>

-----------------------------------------------------------------------------
(* FileRead *)

\* recordReadStateFromResult.
FcShown(f, content, part) ==
  /\ fcSeen' = [fcSeen EXCEPT ![f] = [content |-> content, part |-> part, known |-> TRUE]]
  /\ fcPast' = [fcPast EXCEPT ![f].shown = IF part THEN @ ELSE @ \cup {content}]

FcKey(f, range) == [file |-> f, time |-> fcDisk[f].time, range |-> range]

\* getOrSet: what the cache holds for the file as it is now, or a read.
FcRead ==
  /\ fcCall.step = "idle" /\ fcTx.status # "rolling"
  /\ fcMade.reads < FcMaxReads
  /\ fcMade' = [fcMade EXCEPT !.reads = @ + 1]
  /\ \E r \in FcReaders, f \in FcFiles, range \in {"all", "some"} :
       /\ fcReads[r].step = "idle"
       /\ \/ \E entry \in fcCache :
               /\ entry.key = FcKey(f, range)
               /\ FcShown(f, entry.content, range = "some")
               /\ UNCHANGED fcReads
          \/ /\ ~ \E entry \in fcCache : entry.key = FcKey(f, range)
             /\ fcReads' = [fcReads EXCEPT ![r] =
                              [step |-> "looked", file |-> f, range |-> range,
                               content |-> 0, raced |-> FALSE]]
             /\ UNCHANGED <<fcSeen, fcPast>>
  /\ UNCHANGED <<fcDisk, fcCache, fcBackups, fcLast, fcCall, fcTx>>

\* A file that cannot be read is an answer too, and cached, but leaves no state.
FcReadContent ==
  \E r \in FcReaders :
    /\ fcReads[r].step = "looked"
    /\ fcReads' = [fcReads EXCEPT ![r].step = "read",
                                  ![r].content = fcDisk[fcReads[r].file].content]
    /\ UNCHANGED <<fcDisk, fcMade, fcCache, fcSeen, fcBackups, fcLast, fcCall, fcTx, fcPast>>

\* The key is made again, from the file as it is by now; an entry too many goes.
FcReadDone ==
  \E r \in FcReaders :
    LET read == fcReads[r]
        others == {entry \in fcCache : entry.key # FcKey(read.file, read.range)}
    IN
    /\ read.step = "read"
    /\ \E kept \in SUBSET others :
         /\ Cardinality(kept) = IF Cardinality(others) < FcCacheSize
                                THEN Cardinality(others) ELSE FcCacheSize - 1
         /\ fcCache' = kept \cup {[key |-> FcKey(read.file, read.range),
                                    content |-> read.content, raced |-> read.raced]}
    /\ IF read.content = 0 THEN UNCHANGED <<fcSeen, fcPast>>
       ELSE FcShown(read.file, read.content, read.range = "some")
    /\ fcReads' = [fcReads EXCEPT ![r] = FcIdle]
    /\ UNCHANGED <<fcDisk, fcMade, fcBackups, fcLast, fcCall, fcTx>>

\* Past its time to live.
FcForgets ==
  /\ fcCache # {}
  /\ \E entry \in fcCache : fcCache' = fcCache \ {entry}
  /\ UNCHANGED <<fcDisk, fcMade, fcSeen, fcBackups, fcLast, fcReads, fcCall, fcTx, fcPast>>

-----------------------------------------------------------------------------
(* Backups *)

FcEntries(f) == {i \in DOMAIN fcBackups : fcBackups[i].file = f}
FcEntry(f) == fcBackups[CHOOSE i \in FcEntries(f) : \A j \in FcEntries(f) : i <= j]

\* As if every change were backed up.
FcBackupNewest(f) ==
  /\ fcBackups' = Append(SelectSeq(fcBackups, LAMBDA e : e.file # f),
                         [file |-> f, content |-> fcDisk[f].content])
  /\ fcLast' = <<f>>

\* Only the first change of a file in a session is.
FcBackup(f) ==
  /\ fcBackups' = IF FcEntries(f) # {} THEN fcBackups
                  ELSE Append(fcBackups, [file |-> f, content |-> fcDisk[f].content])
  /\ fcLast' = <<f>>

\* restoreLast; after a restart the newest backup is the last one.
FcUndo ==
  /\ fcCall.step = "idle" /\ ~ FcReading /\ fcTx.status # "rolling"
  /\ fcMade.touches < FcMaxTouches
  /\ fcBackups # <<>>
  /\ LET f == IF fcLast = <<>> THEN fcBackups[Len(fcBackups)].file ELSE fcLast[1] IN
     /\ FcPut(f, FcEntry(f).content)
     /\ fcLast' = <<f>>
  /\ fcMade' = [fcMade EXCEPT !.touches = @ + 1]
  /\ UNCHANGED <<fcCache, fcSeen, fcBackups, fcReads, fcCall, fcTx, fcPast>>

-----------------------------------------------------------------------------
(* FileEdit and FileWrite *)

FcStart ==
  /\ fcCall.step = "idle" /\ ~ FcReading /\ fcTx.status # "rolling"
  /\ \E f \in FcFiles, tool \in {"edit", "write"} :
       fcCall' = [step |-> IF tool = "edit" THEN "check" ELSE "backup", tool |-> tool,
                  file |-> f, base |-> fcTorn, raced |-> FALSE]
  /\ UNCHANGED <<fcDisk, fcMade, fcCache, fcSeen, fcBackups, fcLast, fcReads, fcTx, fcPast>>

\* As if what was read before were good enough.
FcStaleAllowed(f) == fcSeen[f].known /\ ~ fcSeen[f].part

\* Neither unread, nor read in part, nor changed since.
FcMayEdit(f) ==
  fcSeen[f].known /\ ~ fcSeen[f].part /\ fcSeen[f].content = fcDisk[f].content

\* Files too large or not text, and edits that do not apply, are refused as well.
FcCheck ==
  /\ fcCall.step = "check"
  /\ LET f == fcCall.file IN
     \/ /\ FcMayEdit(f) /\ fcDisk[f].content # 0
        /\ fcCall' = [fcCall EXCEPT !.step = "backup", !.base = fcDisk[f].content]
     \/ fcCall' = FcIdle
  /\ UNCHANGED <<fcDisk, fcMade, fcCache, fcSeen, fcBackups, fcLast, fcReads, fcTx, fcPast>>

\* No change without a backup.
FcBacksUp ==
  /\ fcCall.step = "backup"
  /\ \/ /\ FcBackup(fcCall.file)
        /\ fcCall' = [fcCall EXCEPT !.step = IF fcCall.tool = "edit" THEN "rename" ELSE "truncate"]
     \/ fcCall' = FcIdle /\ UNCHANGED <<fcBackups, fcLast>>
  /\ UNCHANGED <<fcDisk, fcMade, fcCache, fcSeen, fcReads, fcTx, fcPast>>

FcChanges(f) ==
  fcPast' = [fcPast EXCEPT ![f].first = IF @ = fcTorn THEN fcDisk[f].content ELSE @,
                           ![f].touched = @ \/ (fcCall.raced /\ fcPast[f].first = fcTorn)]

\* A file beside it becomes the file, or goes away.
FcRename ==
  /\ fcCall.step = "rename"
  /\ \/ /\ fcMade.contents < FcMaxContents
        /\ FcPut(fcCall.file, fcMade.contents + 1)
        /\ fcMade' = [fcMade EXCEPT !.contents = @ + 1]
        /\ FcChanges(fcCall.file)
        /\ fcCall' = [fcCall EXCEPT !.step = "refresh", !.base = fcMade.contents + 1]
     \/ /\ fcCall' = FcIdle
        /\ UNCHANGED <<fcDisk, fcMade, fcPast>>
  /\ UNCHANGED <<fcCache, fcSeen, fcBackups, fcLast, fcReads, fcTx>>

\* invalidatePath, and what the agent knows of the file now.
FcRefresh ==
  /\ fcCall.step = "refresh"
  /\ LET f == fcCall.file IN
     /\ fcCache' = {entry \in fcCache : entry.key.file # f}
     /\ IF fcDisk[f].content = 0
        THEN /\ fcSeen' = [fcSeen EXCEPT ![f] = FcUnread]
             /\ UNCHANGED fcPast
        ELSE FcShown(f, fcCall.base, FALSE)
  /\ fcCall' = FcIdle
  /\ UNCHANGED <<fcDisk, fcMade, fcBackups, fcLast, fcReads, fcTx>>

\* FileWrite writes in place: the old content goes first.
FcTruncate ==
  /\ fcCall.step = "truncate"
  /\ \/ /\ fcMade.contents < FcMaxContents
        /\ FcPut(fcCall.file, fcTorn)
        /\ fcMade' = [fcMade EXCEPT !.contents = @ + 1]
        /\ FcChanges(fcCall.file)
        /\ fcCall' = [fcCall EXCEPT !.step = "fill", !.base = fcMade.contents + 1]
     \/ fcCall' = FcIdle /\ UNCHANGED <<fcDisk, fcMade, fcPast>>
  /\ UNCHANGED <<fcCache, fcSeen, fcBackups, fcLast, fcReads, fcTx>>

\* A disk that is full leaves the file cut short, and the cache and state as they were.
FcFill ==
  /\ fcCall.step = "fill"
  /\ LET f == fcCall.file IN
     \/ /\ FcPut(f, fcCall.base)
        /\ fcCache' = {entry \in fcCache : entry.key.file # f}
        /\ fcSeen' = [fcSeen EXCEPT ![f] = FcUnread]
     \/ UNCHANGED <<fcDisk, fcCache, fcSeen>>
  /\ fcCall' = FcIdle
  /\ UNCHANGED <<fcMade, fcBackups, fcLast, fcReads, fcTx, fcPast>>

-----------------------------------------------------------------------------
(* Transactions *)

FcTxBegin ==
  /\ fcCall.step = "idle" /\ ~ FcReading /\ fcTx.status = "none"
  /\ fcMade.touches < FcMaxTouches
  /\ fcMade' = [fcMade EXCEPT !.touches = @ + 1]
  /\ fcTx' = [status |-> "active", files |-> <<>>]
  /\ UNCHANGED <<fcDisk, fcCache, fcSeen, fcBackups, fcLast, fcReads, fcCall, fcPast>>

FcTxAdd ==
  /\ fcCall.step = "idle" /\ ~ FcReading /\ fcTx.status = "active"
  /\ \E f \in FcFiles :
       /\ ~ \E i \in DOMAIN fcTx.files : fcTx.files[i] = f
       /\ FcBackup(f)
       /\ fcTx' = [fcTx EXCEPT !.files = Append(@, f)]
  /\ UNCHANGED <<fcDisk, fcMade, fcCache, fcSeen, fcReads, fcCall, fcPast>>

\* commit leaves the backups.  rollback restores the last file added first; an error
\* is noted and the others are restored all the same.
FcTxEnd ==
  /\ fcCall.step = "idle" /\ ~ FcReading /\ fcTx.status = "active"
  /\ \E status \in {"committed", "rolling"} : fcTx' = [fcTx EXCEPT !.status = status]
  /\ UNCHANGED <<fcDisk, fcMade, fcCache, fcSeen, fcBackups, fcLast, fcReads, fcCall, fcPast>>

\* A restore that throws leaves the file; the cache forgets it all the same.  The
\* status at the end, rolled_back or rollback_partial, is not told apart.
FcTxRestore ==
  /\ fcCall.step = "idle" /\ fcTx.status = "rolling"
  /\ IF fcTx.files = <<>>
     THEN /\ fcTx' = [fcTx EXCEPT !.status = "rolled_back"]
          /\ UNCHANGED <<fcDisk, fcCache, fcLast>>
     ELSE LET f == fcTx.files[Len(fcTx.files)] IN
          /\ \/ FcPut(f, FcEntry(f).content) /\ fcLast' = <<f>>
             \/ UNCHANGED <<fcDisk, fcLast>>
          /\ fcCache' = {entry \in fcCache : entry.key.file # f}
          /\ fcTx' = [fcTx EXCEPT !.files = SubSeq(@, 1, Len(@) - 1)]
  /\ UNCHANGED <<fcMade, fcSeen, fcBackups, fcReads, fcCall, fcPast>>

\* The process ends at any point, and the session is resumed.
FcRestart ==
  /\ fcMade.touches < FcMaxTouches
  /\ fcMade' = [fcMade EXCEPT !.touches = @ + 1]
  /\ fcCache' = {}
  /\ fcSeen' = [f \in FcFiles |-> FcUnread]
  /\ fcLast' = <<>>
  /\ fcReads' = [r \in FcReaders |-> FcIdle]
  /\ fcCall' = FcIdle
  /\ fcTx' = FcNoTx
  /\ fcPast' = [f \in FcFiles |-> [fcPast[f] EXCEPT !.shown = {}]]
  /\ UNCHANGED <<fcDisk, fcBackups>>

FcNext ==
  \/ FcOthers \/ FcRead \/ FcReadContent \/ FcReadDone \/ FcForgets
  \/ FcUndo \/ FcStart \/ FcCheck \/ FcBacksUp \/ FcRename \/ FcRefresh
  \/ FcTruncate \/ FcFill
  \/ FcTxBegin \/ FcTxAdd \/ FcTxEnd \/ FcTxRestore \/ FcRestart

FcSpec == FcInit /\ [][FcNext]_fcVars

-----------------------------------------------------------------------------
(* Properties *)

\* Once the agent has changed a file, even if that was cut short, even after a restart,
\* the session's backup holds what the file held before its first change, unless
\* someone else changed it in between.
FcUndoable ==
  \A f \in FcFiles :
    fcPast[f].first # fcTorn /\ ~ fcPast[f].touched =>
      FcEntries(f) # {} /\ FcEntry(f).content = fcPast[f].first

\* What FileEdit is about to replace is a content the agent was shown in full or wrote
\* itself, in this process.
FcNoBlindEdit ==
  fcCall.step = "rename" => fcCall.base \in fcPast[fcCall.file].shown

\* What the cache holds for a file as it is now is what the file holds, unless someone
\* else changed it while it was read.
FcCacheTrue ==
  \A entry \in fcCache :
    ~ entry.raced /\ entry.key.time = fcDisk[entry.key.file].time =>
      entry.content = fcDisk[entry.key.file].content

\* The agent's changes can be taken back, rest on what it saw, and show in its next
\* read (BackupStore, FileEdit's checks, ToolCache).
ChangesAreSafe == FcUndoable /\ FcNoBlindEdit /\ FcCacheTrue
================================================================================
