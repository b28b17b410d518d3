------------------------------- MODULE LinkIndex -------------------------------
(***************************************************************************)
(* The wiki links between memories (src/memory/links.ts and                *)
(* links-backlinks.ts): forward.json, which entities a file mentions, and  *)
(* backlinks.json, its inverse, each written to a temporary file of a      *)
(* fixed name and renamed, under a lock of its own (file-lock.ts), a       *)
(* directory that mkdir creates.  A scan of a process reads the memories,  *)
(* writes the one and then, from what it finds there, the other.           *)
(*                                                                         *)
(* The clock is two facts about a lock: it is young, or older than five    *)
(* time-outs.  A waiter may run out of time whenever it does not get the   *)
(* lock.  LinkMakesRecursive is a version of the definition after it with  *)
(* a plausible fault.                                                      *)
(***************************************************************************)
EXTENDS Integers, FiniteSets, Functions

CONSTANTS
  LinkProcs,     \* processes that share the memory directory
  LinkFiles,     \* memories, files
  LinkEntities,  \* what they may mention
  LinkNamed,     \* pairs <<f, e>> where f is e and ".md"
  LinkMaxHops,   \* LINK_MAX_HOPS, 2
  LinkWaits,     \* whether a wait may be as long as a time-out
  LinkEdits,     \* bound: how often a memory changes
  LinkCrashes    \* bound: how often a process dies

\* linkGraph refuses less than one hop, and the constant allows two.
ASSUME LinkAssumption == LinkMaxHops \in Nat \ {0}

LinkTargets == {"forward", "back"}
LinkNone == {<<>>}   \* no such file
LinkTorn == {<<"torn">>}   \* half a file, which does not parse

VARIABLES
  linkText,    \* the pairs <<file, entity>> the memories hold
  linkFile,    \* the two files: pairs, LinkNone or LinkTorn
  linkTmp,     \* the temporary file of each
  linkLock,    \* the lock directory of each: "free", "young" or "old"
  linkProc,    \* [at, target, index] of every process
  linkForced,  \* a lock that was in use has been removed or is overdue
  linkBudget   \* edits and crashes left

linkVars == <<linkText, linkFile, linkTmp, linkLock, linkProc, linkForced, linkBudget>>

LinkIdle == [at |-> "idle", target |-> "forward", index |-> {}]

LinkInit ==
  /\ linkText = {}
  /\ linkFile = [t \in LinkTargets |-> LinkNone]
  /\ linkTmp = [t \in LinkTargets |-> LinkNone]
  /\ linkLock = [t \in LinkTargets |-> "free"]
  /\ linkProc = [p \in LinkProcs |-> LinkIdle]
  /\ linkForced = FALSE
  /\ linkBudget = [edits |-> LinkEdits, crashes |-> LinkCrashes]

LinkGo(p, at) == linkProc' = [linkProc EXCEPT ![p].at = at]
LinkAt(p, at) == linkProc[p].at = at

-----------------------------------------------------------------------------
(* Contents.  An index is a set of pairs; the inverse is kept as the pairs   *)
(* turned round.                                                             *)

\* loadForward: a file that is missing or does not parse is an empty index.
LinkLoaded(t) == IF linkFile[t] \in {LinkNone, LinkTorn} THEN {} ELSE linkFile[t]

\* inverseForward.
LinkInverse(index) == {<<e[2], e[1]>> : e \in index}

\* linkScan of every memory, or of one file merged onto the index it loads.
LinkScanned(f) == {e \in LinkLoaded("forward") : e[1] # f} \cup {e \in linkText : e[1] = f}

\* linkForward, linkBacklinks and linkOrphans.
LinkForward(f) == {e[2] : e \in {x \in LinkLoaded("forward") : x[1] = f}}
LinkBacklinks(n) == {e[2] : e \in {x \in LinkLoaded("back") : x[1] = n}}
LinkDefined(files) == {e[2] : e \in {x \in LinkNamed : x[1] \in files}}
LinkOrphans(files) == {e[2] : e \in LinkLoaded("forward")} \ LinkDefined(files)

\* linkGraph: one hop of its breadth-first search.  Going forward: the files
\* that mention a node or are named for it, what else they mention, and what a
\* file mentions; going backward: the files that mention it by backlinks.json.
LinkHop(n, forward, backward) ==
  LET index == LinkLoaded("forward")
      srcs == {e[1] : e \in {x \in index : x[2] = n \/ <<x[1], n>> \in LinkNamed}}
      both == {e[2] : e \in {x \in index : x[1] \in srcs \cup {n}}}
  IN  {n} \cup (IF forward THEN srcs \cup both ELSE {})
          \cup (IF backward THEN LinkBacklinks(n) ELSE {})

\* Its nodes, for at most LINK_MAX_HOPS hops.
LinkGraph(n, hops, forward, backward) ==
  LET cap == IF hops < LinkMaxHops THEN hops ELSE LinkMaxHops
      ball[k \in 0 .. cap] ==
        IF k = 0 THEN {n} ELSE UNION {LinkHop(m, forward, backward) : m \in ball[k - 1]}
  IN  ball[cap]

-----------------------------------------------------------------------------
(* The scan *)

\* A memory is written or removed.
LinkEdit ==
  /\ linkBudget.edits > 0
  /\ \E f \in LinkFiles, es \in SUBSET LinkEntities :
       linkText' = {e \in linkText : e[1] # f} \cup {<<f, e>> : e \in es}
  /\ linkBudget' = [linkBudget EXCEPT !.edits = @ - 1]
  /\ UNCHANGED <<linkFile, linkTmp, linkLock, linkProc, linkForced>>

\* linkScan reads, before the lock: everything, or one file.  linkForward,
\* linkGraph and linkOrphans start one as well when the index is empty.
LinkRead(p) ==
  /\ LinkAt(p, "idle")
  /\ \E index \in {linkText} \cup {LinkScanned(f) : f \in LinkFiles} :
       linkProc' = [linkProc EXCEPT ![p] = [at |-> "wait", target |-> "forward", index |-> index]]
  /\ UNCHANGED <<linkText, linkFile, linkTmp, linkLock, linkForced, linkBudget>>

\* rebuildBacklinks reads forward.json and inverts it, before its lock.
LinkReread(p) ==
  /\ LinkAt(p, "rebuild")
  /\ linkProc' = [linkProc EXCEPT ![p] = [at |-> "wait", target |-> "back",
                                          index |-> LinkInverse(LinkLoaded("forward"))]]
  /\ UNCHANGED <<linkText, linkFile, linkTmp, linkLock, linkForced, linkBudget>>

LinkMakesRecursive(t) == TRUE

\* mkdir without "recursive" fails when the directory is there.
LinkMakes(t) == linkLock[t] = "free"

\* tryAcquire.
LinkMkdir(p) ==
  LET t == linkProc[p].target
  IN  /\ linkProc[p].at \in {"wait", "last"}
      /\ LinkMakes(t)
      /\ linkLock' = [linkLock EXCEPT ![t] = "young"]
      /\ LinkGo(p, "locked")
      /\ UNCHANGED <<linkText, linkFile, linkTmp, linkForced, linkBudget>>

\* tryRemoveStaleLock: it looks at the age, when it polls or as a last attempt.
LinkStat(p) ==
  /\ LinkAt(p, "wait") /\ linkLock[linkProc[p].target] = "old"
  /\ \E at \in {"stale", "lastStale"} : LinkGo(p, at)
  /\ UNCHANGED <<linkText, linkFile, linkTmp, linkLock, linkForced, linkBudget>>

\* And then it removes the directory, whoever made the one that is there now.
LinkRemoveStale(p) ==
  LET t == linkProc[p].target
  IN  /\ linkProc[p].at \in {"stale", "lastStale"}
      /\ linkLock' = [linkLock EXCEPT ![t] = "free"]
      /\ linkForced' = (linkForced \/ linkLock[t] = "young")
      /\ LinkGo(p, IF LinkAt(p, "stale") THEN "wait" ELSE "last")
      /\ UNCHANGED <<linkText, linkFile, linkTmp, linkBudget>>

\* The time-out: acquireFileLockSync throws and the scan ends.
LinkGiveUp(p) ==
  /\ LinkWaits
  /\ linkProc[p].at \in {"wait", "last"} /\ linkLock[linkProc[p].target] # "free"
  /\ linkProc' = [linkProc EXCEPT ![p] = LinkIdle]
  /\ UNCHANGED <<linkText, linkFile, linkTmp, linkLock, linkForced, linkBudget>>

\* writeFileSync of the temporary file empties it and fills it.
LinkOpenTmp(p) ==
  LET t == linkProc[p].target
  IN  /\ LinkAt(p, "locked")
      /\ linkTmp' = [linkTmp EXCEPT ![t] = LinkTorn]
      /\ LinkGo(p, "writing")
      /\ UNCHANGED <<linkText, linkFile, linkLock, linkForced, linkBudget>>

\* The bytes go to the file that was opened, even if it has been renamed since.
LinkFillTmp(p) ==
  LET t == linkProc[p].target
  IN  /\ LinkAt(p, "writing")
      /\ IF linkTmp[t] = LinkNone
         THEN linkFile' = [linkFile EXCEPT ![t] = linkProc[p].index] /\ UNCHANGED linkTmp
         ELSE linkTmp' = [linkTmp EXCEPT ![t] = linkProc[p].index] /\ UNCHANGED linkFile
      /\ LinkGo(p, "written")
      /\ UNCHANGED <<linkText, linkLock, linkForced, linkBudget>>

\* renameSync, or its error when the temporary file is gone.
LinkRename(p) ==
  LET t == linkProc[p].target
  IN  /\ LinkAt(p, "written")
      /\ IF linkTmp[t] = LinkNone
         THEN LinkGo(p, "failed") /\ UNCHANGED <<linkFile, linkTmp>>
         ELSE /\ linkFile' = [linkFile EXCEPT ![t] = linkTmp[t]]
              /\ linkTmp' = [linkTmp EXCEPT ![t] = LinkNone]
              /\ LinkGo(p, "renamed")
      /\ UNCHANGED <<linkText, linkLock, linkForced, linkBudget>>

\* release, which removes the directory whoever made it; what was written well
\* as forward.json is followed by backlinks.json.
LinkRelease(p) ==
  LET t == linkProc[p].target
  IN  /\ linkProc[p].at \in {"renamed", "failed"}
      /\ linkLock' = [linkLock EXCEPT ![t] = "free"]
      /\ IF LinkAt(p, "renamed") /\ t = "forward"
         THEN LinkGo(p, "rebuild")
         ELSE linkProc' = [linkProc EXCEPT ![p] = LinkIdle]
      /\ UNCHANGED <<linkText, linkFile, linkTmp, linkForced, linkBudget>>

LinkInside == {"locked", "writing", "written", "renamed", "failed"}

\* Five time-outs go by.
LinkAge(t) ==
  /\ LinkWaits
  /\ linkLock[t] = "young"
  /\ linkLock' = [linkLock EXCEPT ![t] = "old"]
  /\ linkForced' = (linkForced \/ \E p \in LinkProcs : linkProc[p].target = t
                                                       /\ linkProc[p].at \in LinkInside)
  /\ UNCHANGED <<linkText, linkFile, linkTmp, linkProc, linkBudget>>

\* A process dies, leaving its lock and its temporary file, and is started again.
LinkCrash(p) ==
  /\ linkBudget.crashes > 0 /\ linkProc[p] # LinkIdle
  /\ linkProc' = [linkProc EXCEPT ![p] = LinkIdle]
  /\ linkBudget' = [linkBudget EXCEPT !.crashes = @ - 1]
  /\ UNCHANGED <<linkText, linkFile, linkTmp, linkLock, linkForced>>

LinkNext ==
  \/ LinkEdit
  \/ \E t \in LinkTargets : LinkAge(t)
  \/ \E p \in LinkProcs :
       \/ LinkRead(p) \/ LinkReread(p)
       \/ LinkMkdir(p) \/ LinkStat(p) \/ LinkRemoveStale(p) \/ LinkGiveUp(p)
       \/ LinkOpenTmp(p) \/ LinkFillTmp(p) \/ LinkRename(p) \/ LinkRelease(p)
       \/ LinkCrash(p)

LinkSpec == LinkInit /\ [][LinkNext]_linkVars
-----------------------------------------------------------------------------
(* Properties *)

\* Whatever process died where, and although a dead one's lock is removed by
\* force, neither file is ever torn: two processes write the same file at once
\* only after a lock in use was overdue, or was removed by a waiter that had
\* looked at the one before it.
LinkFilesWhole ==
  ~ linkForced =>
    /\ \A t \in LinkTargets : linkFile[t] # LinkTorn
    /\ \A p, q \in LinkProcs : (p # q /\ {linkProc[p].at, linkProc[q].at} \subseteq LinkInside)
                               => linkProc[p].target # linkProc[q].target

\* Where backlinks.json is the inverse of forward.json, and not empty, a file is
\* one hop back from what it mentions and that one hop forward from it, an
\* orphan unless a file is named for it, and more hops only add: linkForward,
\* linkBacklinks, linkGraph and linkOrphans tell of the same links.
LinkQueriesAgree ==
  LinkLoaded("back") # {} /\ LinkLoaded("back") = LinkInverse(LinkLoaded("forward")) =>
    \A f \in LinkFiles, n \in LinkEntities :
      /\ n # f => (n \in LinkForward(f) <=> f \in LinkGraph(n, 1, FALSE, TRUE))
      /\ n \in LinkForward(f) => /\ n \in LinkGraph(f, 1, TRUE, FALSE)
                                 /\ n \in LinkOrphans(LinkFiles) \cup LinkDefined(LinkFiles)
      /\ LinkGraph(n, 1, TRUE, TRUE) \subseteq LinkGraph(n, LinkMaxHops + 1, TRUE, TRUE)

\* The index: neither file torn by two writers, and the queries of one mind.
LinkIndexSound == LinkFilesWhole /\ LinkQueriesAgree
================================================================================
