---- MODULE ComponentProofs ----
(***************************************************************************)
(* What the components around the core promise, each for any number of     *)
(* what it deals with.  Those that keep files: the links between memories  *)
(* (LinkIndex, for any number of processes), the incidents, decisions and  *)
(* runbooks (RecordStore).  Those that hand out work and wait for it:      *)
(* Commands, RemoteTasks.  The file tools (FileChanges), what is made of a *)
(* finished plan (Verdicts), the end of the process (Supervision) and the  *)
(* servers of tools (Mcp, which implements RequestLedger).                 *)
(***************************************************************************)
EXTENDS LinkIndex, RecordStore, Commands, RemoteTasks, FileChanges, Verdicts,
        Supervision, Mcp, SequenceLemmas

--------------------
(* LinkIndex *)

\* What is in an index.  No set of pairs is the half file LinkTorn.
LinkPairs == SUBSET ((LinkFiles \X LinkEntities) \cup (LinkEntities \X LinkFiles))

LinkPlaces ==
  {"idle", "wait", "last", "stale", "lastStale", "rebuild"} \cup LinkInside

LinkTypes ==
  /\ linkText \in SUBSET (LinkFiles \X LinkEntities)
  /\ linkFile \in [LinkTargets -> LinkPairs \cup {LinkNone, LinkTorn}]
  /\ linkTmp \in [LinkTargets -> LinkPairs \cup {LinkNone, LinkTorn}]
  /\ linkLock \in [LinkTargets -> {"free", "young", "old"}]
  /\ linkProc \in [LinkProcs -> [at: LinkPlaces, target: LinkTargets, index: LinkPairs]]

LinkHolds(p, t) == linkProc[p].target = t /\ linkProc[p].at \in LinkInside

\* Who is inside made the lock that is there, and is alone with it.
LinkExclusive ==
  \A t \in LinkTargets, p \in LinkProcs : LinkHolds(p, t) =>
    /\ linkLock[t] = "young"
    /\ \A q \in LinkProcs : LinkHolds(q, t) => q = p

\* The temporary file is as the process with the lock left it.
LinkWhole ==
  /\ \A t \in LinkTargets : linkFile[t] # LinkTorn
  /\ \A p \in LinkProcs :
       /\ LinkAt(p, "writing") => linkTmp[linkProc[p].target] # LinkNone
       /\ LinkAt(p, "written") => linkTmp[linkProc[p].target] = linkProc[p].index

LinkInv == LinkTypes /\ (~ linkForced => LinkExclusive /\ LinkWhole)

LEMMA LinkPairsNotTorn == \A x \in LinkPairs : x # LinkTorn
<1>1. \A a, b : <<a, b>> # <<"torn">> OBVIOUS
<1>2. \A x \in LinkPairs : <<"torn">> \notin x BY DEF LinkPairs
<1> QED BY <1>2 DEF LinkTorn

LEMMA LinkNoneNotTorn == LinkNone # LinkTorn
<1>1. <<>> # <<"torn">> OBVIOUS
<1> QED BY <1>1 DEF LinkNone, LinkTorn

\* An index read from a file is a set of pairs.
LEMMA LinkLoadedPairs ==
  ASSUME LinkTypes, NEW t \in LinkTargets
  PROVE LinkLoaded(t) \in LinkPairs
BY DEF LinkTypes, LinkLoaded, LinkPairs

\* What a scan puts together, and what the inverse of an index is.
LEMMA LinkScannedPairs ==
  ASSUME LinkTypes, NEW f
  PROVE LinkScanned(f) \in LinkPairs
<1>1. LinkLoaded("forward") \in LinkPairs /\ linkText \in LinkPairs
  BY LinkLoadedPairs DEF LinkTypes, LinkTargets, LinkPairs
<1> QED BY <1>1 DEF LinkScanned, LinkPairs

LEMMA LinkInversePairs ==
  ASSUME NEW index \in LinkPairs
  PROVE LinkInverse(index) \in LinkPairs
<1>1. ASSUME NEW e \in index
  PROVE <<e[2], e[1]>> \in (LinkFiles \X LinkEntities) \cup (LinkEntities \X LinkFiles)
 <2>1. e \in (LinkFiles \X LinkEntities) \cup (LinkEntities \X LinkFiles) BY DEF LinkPairs
 <2> QED BY <2>1
<1> QED BY <1>1 DEF LinkInverse, LinkPairs

\* A process that is not inside afterwards, and touches nothing but itself.
LEMMA LinkOutsideStep ==
  ASSUME LinkInv, NEW p \in LinkProcs,
    NEW r \in [at: LinkPlaces \ LinkInside, target: LinkTargets, index: LinkPairs],
    linkProc' = [linkProc EXCEPT ![p] = r],
    UNCHANGED <<linkText, linkFile, linkTmp, linkLock, linkForced>>
  PROVE LinkInv'
<1>1. LinkTypes' BY DEF LinkInv, LinkTypes, LinkPlaces
<1>2. ASSUME ~ linkForced
  PROVE LinkExclusive' /\ LinkWhole'
 <2>1. linkProc'[p] = r /\ \A q \in LinkProcs \ {p} : linkProc'[q] = linkProc[q]
   BY DEF LinkInv, LinkTypes
 <2>2. LinkExclusive /\ LinkWhole BY <1>2 DEF LinkInv
 <2>3. LinkExclusive' BY <2>1, <2>2 DEF LinkExclusive, LinkHolds
 <2>4. LinkWhole' BY <2>1, <2>2 DEF LinkWhole, LinkAt, LinkInside
 <2> QED BY <2>3, <2>4
<1> QED BY <1>1, <1>2 DEF LinkInv

LEMMA LinkEditStep == LinkInv /\ LinkEdit => LinkInv'
<1> SUFFICES ASSUME LinkInv, LinkEdit
  PROVE LinkInv'
  OBVIOUS
<1>1. linkText' \in SUBSET (LinkFiles \X LinkEntities) BY DEF LinkEdit, LinkInv, LinkTypes
<1>2. UNCHANGED <<linkFile, linkTmp, linkLock, linkProc, linkForced>> BY DEF LinkEdit
<1> QED BY <1>1, <1>2 DEF LinkInv, LinkTypes, LinkExclusive, LinkWhole, LinkHolds, LinkAt

LEMMA LinkWaitingSteps ==
  ASSUME LinkInv, NEW p \in LinkProcs,
    LinkRead(p) \/ LinkReread(p) \/ LinkStat(p) \/ LinkGiveUp(p) \/ LinkCrash(p)
  PROVE LinkInv'
<1>1. /\ linkProc[p] \in [at: LinkPlaces, target: LinkTargets, index: LinkPairs] /\ LinkTypes
  BY DEF LinkInv, LinkTypes
<1>2. LinkIdle \in [at: LinkPlaces \ LinkInside, target: LinkTargets, index: LinkPairs]
  BY DEF LinkIdle, LinkPlaces, LinkInside, LinkTargets, LinkPairs
<1>3. CASE LinkRead(p)
 <2>1.
   PICK index \in {linkText} \cup {LinkScanned(f) : f \in LinkFiles} :
     linkProc' = [linkProc EXCEPT ![p] = [at |-> "wait", target |-> "forward", index |-> index]]
   BY <1>3 DEF LinkRead
 <2>2. index \in LinkPairs BY <1>1, LinkScannedPairs DEF LinkTypes, LinkPairs
 <2>3.
   [at |-> "wait", target |-> "forward", index |-> index]
     \in [at: LinkPlaces \ LinkInside, target: LinkTargets, index: LinkPairs]
   BY <2>2 DEF LinkPlaces, LinkInside, LinkTargets
 <2> QED BY <1>3, <2>1, <2>3, LinkOutsideStep DEF LinkRead
<1>4. CASE LinkReread(p)
 <2> DEFINE
   r == [at |-> "wait", target |-> "back",
         index |-> LinkInverse(LinkLoaded("forward"))]
 <2>1. LinkInverse(LinkLoaded("forward")) \in LinkPairs
   BY <1>1, LinkLoadedPairs, LinkInversePairs DEF LinkTargets
 <2>2. r \in [at: LinkPlaces \ LinkInside, target: LinkTargets, index: LinkPairs]
   BY <2>1 DEF LinkPlaces, LinkInside, LinkTargets
 <2> QED BY <1>4, <2>2, LinkOutsideStep DEF LinkReread
<1>5. CASE LinkStat(p)
 <2>1. PICK at \in {"stale", "lastStale"} : linkProc' = [linkProc EXCEPT ![p].at = at]
   BY <1>5 DEF LinkStat, LinkGo
 <2> DEFINE r == [linkProc[p] EXCEPT !.at = at]
 <2>2. r \in [at: LinkPlaces \ LinkInside, target: LinkTargets, index: LinkPairs]
   BY <1>1 DEF LinkPlaces, LinkInside
 <2>3. linkProc' = [linkProc EXCEPT ![p] = r] BY <2>1
 <2> HIDE DEF r
 <2> QED BY <1>5, <2>2, <2>3, LinkOutsideStep DEF LinkStat
<1>6. CASE LinkGiveUp(p) \/ LinkCrash(p)
  BY <1>2, <1>6, LinkOutsideStep DEF LinkGiveUp, LinkCrash
<1> QED BY <1>3, <1>4, <1>5, <1>6

\* Only one process makes the directory.
LEMMA LinkMkdirStep ==
  ASSUME LinkInv, NEW p \in LinkProcs, LinkMkdir(p)
  PROVE LinkInv'
<1> DEFINE t == linkProc[p].target
  r == [linkProc[p] EXCEPT !.at = "locked"]
<1>1.
  /\ linkLock[t] = "free" /\ linkLock' = [linkLock EXCEPT ![t] = "young"]
  /\ linkProc' = [linkProc EXCEPT ![p] = r]
  /\ UNCHANGED <<linkText, linkFile, linkTmp, linkForced>>
  BY DEF LinkMkdir, LinkMakes, LinkGo
<1>2.
  /\ LinkTypes /\ t \in LinkTargets
  /\ linkProc[p] \in [at: LinkPlaces, target: LinkTargets, index: LinkPairs]
  BY DEF LinkInv, LinkTypes
<1>3.
  /\ r \in [at: LinkPlaces, target: LinkTargets, index: LinkPairs]
  /\ r.target = t /\ r.at = "locked"
  BY <1>2 DEF LinkPlaces, LinkInside
<1> HIDE DEF r
<1>4. LinkTypes' BY <1>1, <1>2, <1>3 DEF LinkTypes
<1>5.
  /\ linkProc'[p] = r /\ \A q \in LinkProcs \ {p} : linkProc'[q] = linkProc[q]
  /\ linkLock'[t] = "young"
  /\ \A u \in LinkTargets \ {t} : linkLock'[u] = linkLock[u]
  BY <1>1, <1>2 DEF LinkTypes
<1>6. ASSUME ~ linkForced
  PROVE LinkExclusive' /\ LinkWhole'
 <2>1. LinkExclusive /\ LinkWhole BY <1>6 DEF LinkInv
 <2>2. \A q \in LinkProcs : ~ LinkHolds(q, t) BY <1>1, <1>2, <2>1 DEF LinkExclusive
 <2>3. LinkExclusive' BY <1>2, <1>3, <1>5, <2>1, <2>2 DEF LinkExclusive, LinkHolds
 <2>4. LinkWhole' BY <1>1, <1>3, <1>5, <2>1 DEF LinkWhole, LinkAt
 <2> QED BY <2>3, <2>4
<1> QED BY <1>1, <1>4, <1>6 DEF LinkInv

\* A lock that is removed by force, or grows old, is nobody's, or counts as forced.
LEMMA LinkForcingSteps ==
  ASSUME LinkInv,
    \/ \E p \in LinkProcs : LinkRemoveStale(p)
    \/ \E t \in LinkTargets : LinkAge(t)
  PROVE LinkInv'
<1>1. CASE \E p \in LinkProcs : LinkRemoveStale(p)
 <2>1. PICK p \in LinkProcs : LinkRemoveStale(p) BY <1>1
 <2> DEFINE t == linkProc[p].target
   at == IF LinkAt(p, "stale") THEN "wait" ELSE "last"
   r == [linkProc[p] EXCEPT !.at = at]
 <2>2.
   /\ linkProc[p].at \in {"stale", "lastStale"}
   /\ linkLock' = [linkLock EXCEPT ![t] = "free"]
   /\ linkForced' = (linkForced \/ linkLock[t] = "young")
   /\ linkProc' = [linkProc EXCEPT ![p] = r] /\ UNCHANGED <<linkText, linkFile, linkTmp>>
   BY <2>1 DEF LinkRemoveStale, LinkGo
 <2>3.
   /\ LinkTypes /\ t \in LinkTargets
   /\ linkProc[p] \in [at: LinkPlaces, target: LinkTargets, index: LinkPairs]
   BY DEF LinkInv, LinkTypes
 <2>4.
   /\ r \in [at: LinkPlaces, target: LinkTargets, index: LinkPairs]
   /\ r.at \in {"wait", "last"}
   BY <2>3 DEF LinkPlaces
 <2> HIDE DEF r, at
 <2>5. LinkTypes' BY <2>2, <2>3, <2>4 DEF LinkTypes
 <2>6.
   /\ linkProc'[p] = r /\ \A q \in LinkProcs \ {p} : linkProc'[q] = linkProc[q]
   /\ \A u \in LinkTargets \ {t} : linkLock'[u] = linkLock[u]
   BY <2>2, <2>3 DEF LinkTypes
 <2>7. ASSUME ~ linkForced'
   PROVE LinkExclusive' /\ LinkWhole'
  <3>1. LinkExclusive /\ LinkWhole /\ linkLock[t] # "young" BY <2>2, <2>7 DEF LinkInv
  <3>2. \A q \in LinkProcs : ~ LinkHolds(q, t) BY <2>3, <3>1 DEF LinkExclusive
  <3>3. LinkExclusive' BY <2>3, <2>4, <2>6, <3>1, <3>2 DEF LinkExclusive, LinkHolds, LinkInside
  <3>4. LinkWhole' BY <2>2, <2>4, <2>6, <3>1 DEF LinkWhole, LinkAt
  <3> QED BY <3>3, <3>4
 <2> QED BY <2>5, <2>7 DEF LinkInv
<1>2. CASE \E t \in LinkTargets : LinkAge(t)
 <2>1. PICK t \in LinkTargets : LinkAge(t) BY <1>2
 <2>2.
   /\ linkLock' = [linkLock EXCEPT ![t] = "old"]
   /\ UNCHANGED <<linkText, linkFile, linkTmp, linkProc>>
   /\ linkForced' = (linkForced \/ \E p \in LinkProcs : LinkHolds(p, t))
   BY <2>1 DEF LinkAge, LinkHolds
 <2>3. LinkTypes' BY <2>2 DEF LinkInv, LinkTypes
 <2>4. ASSUME ~ linkForced'
   PROVE LinkExclusive' /\ LinkWhole'
  <3>1. LinkExclusive /\ LinkWhole /\ \A p \in LinkProcs : ~ LinkHolds(p, t)
    BY <2>2, <2>4 DEF LinkInv
  <3>2. \A u \in LinkTargets \ {t} : linkLock'[u] = linkLock[u] BY <2>2 DEF LinkInv, LinkTypes
  <3>3. LinkExclusive' BY <2>2, <3>1, <3>2 DEF LinkExclusive, LinkHolds
  <3>4. LinkWhole' BY <2>2, <3>1 DEF LinkWhole, LinkAt
  <3> QED BY <3>3, <3>4
 <2> QED BY <2>3, <2>4 DEF LinkInv
<1> QED BY <1>1, <1>2

\* A process inside writes its temporary file or renames it, and stays inside.
LinkWrites(p, at, f, m) ==
  /\ linkProc[p].at \in LinkInside /\ at \in LinkInside
  /\ linkProc' = [linkProc EXCEPT ![p].at = at] /\ f \in LinkPairs \cup {LinkNone, LinkTorn}
  /\ m \in LinkPairs \cup {LinkNone, LinkTorn}
  /\ linkFile' = [linkFile EXCEPT ![linkProc[p].target] = f]
  /\ linkTmp' = [linkTmp EXCEPT ![linkProc[p].target] = m]
  /\ at = "writing" => m # LinkNone
  /\ ~ linkForced => f # LinkTorn /\ (at = "written" => m = linkProc[p].index)
  /\ UNCHANGED <<linkText, linkLock, linkForced>>

LEMMA LinkInsideStep ==
  ASSUME LinkInv, NEW p \in LinkProcs, NEW at, NEW f, NEW m, LinkWrites(p, at, f, m)
  PROVE LinkInv'
<1> USE DEF LinkWrites
<1> DEFINE t == linkProc[p].target
  r == [linkProc[p] EXCEPT !.at = at]
<1>1.
  /\ LinkTypes /\ t \in LinkTargets
  /\ linkProc[p] \in [at: LinkPlaces, target: LinkTargets, index: LinkPairs]
  BY DEF LinkInv, LinkTypes
<1>2.
  /\ r \in [at: LinkPlaces, target: LinkTargets, index: LinkPairs]
  /\ r.at = at /\ r.target = t /\ r.index = linkProc[p].index
  BY <1>1 DEF LinkPlaces
<1>3. linkProc' = [linkProc EXCEPT ![p] = r] OBVIOUS
<1> HIDE DEF r
<1>4. LinkTypes' BY <1>1, <1>2, <1>3 DEF LinkTypes
<1>5.
  /\ linkProc'[p] = r /\ \A q \in LinkProcs \ {p} : linkProc'[q] = linkProc[q]
  /\ linkFile'[t] = f /\ linkTmp'[t] = m
  /\ \A u \in LinkTargets \ {t} : linkFile'[u] = linkFile[u] /\ linkTmp'[u] = linkTmp[u]
  BY <1>1, <1>3 DEF LinkTypes
<1>6. ASSUME ~ linkForced
  PROVE LinkExclusive' /\ LinkWhole'
 <2>1. LinkExclusive /\ LinkWhole BY <1>6 DEF LinkInv
 <2>2. \A q \in LinkProcs \ {p} : ~ LinkHolds(q, t) BY <1>1, <2>1 DEF LinkExclusive, LinkHolds
 <2>3. LinkExclusive' BY <1>2, <1>5, <2>1 DEF LinkExclusive, LinkHolds
 <2>4. \A u \in LinkTargets : linkFile'[u] # LinkTorn BY <1>5, <1>6, <2>1 DEF LinkWhole
 <2>5. ASSUME NEW q \in LinkProcs \ {p}
   PROVE
     /\ LinkAt(q, "writing")' => linkTmp'[linkProc'[q].target] # LinkNone
     /\ LinkAt(q, "written")' => linkTmp'[linkProc'[q].target] = linkProc'[q].index
  <3>1. CASE linkProc[q].at \in LinkInside
   <4>1. linkProc[q].target \in LinkTargets \ {t} BY <1>1, <2>2, <3>1 DEF LinkHolds, LinkTypes
   <4> QED BY <1>5, <2>1, <4>1 DEF LinkWhole, LinkAt
  <3>2. CASE linkProc[q].at \notin LinkInside BY <1>5, <3>2 DEF LinkAt, LinkInside
  <3> QED BY <3>1, <3>2
 <2>6.
   /\ LinkAt(p, "writing")' => linkTmp'[linkProc'[p].target] # LinkNone
   /\ LinkAt(p, "written")' => linkTmp'[linkProc'[p].target] = linkProc'[p].index
   BY <1>2, <1>5, <1>6 DEF LinkAt
 <2>7. LinkWhole' BY <2>4, <2>5, <2>6 DEF LinkWhole
 <2> QED BY <2>3, <2>7
<1> QED BY <1>4, <1>6 DEF LinkInv

LEMMA LinkWritingSteps ==
  ASSUME LinkInv, NEW p \in LinkProcs, LinkOpenTmp(p) \/ LinkFillTmp(p) \/ LinkRename(p)
  PROVE LinkInv'
<1> DEFINE t == linkProc[p].target
<1> PICK file, tmp, index :
      file = linkFile[t] /\ tmp = linkTmp[t] /\ index = linkProc[p].index
  OBVIOUS
<1>1.
  /\ LinkTypes /\ t \in LinkTargets /\ index \in LinkPairs
  /\ file \in LinkPairs \cup {LinkNone, LinkTorn}
  /\ tmp \in LinkPairs \cup {LinkNone, LinkTorn} /\ linkFile = [linkFile EXCEPT ![t] = file]
  /\ linkTmp = [linkTmp EXCEPT ![t] = tmp]
  BY DEF LinkInv, LinkTypes
<1>2.
  /\ index # LinkTorn /\ LinkNone # LinkTorn
  /\ ~ linkForced => file # LinkTorn
  BY <1>1, LinkPairsNotTorn, LinkNoneNotTorn DEF LinkInv, LinkWhole
<1>3. CASE LinkOpenTmp(p)
 <2>1.
   /\ linkProc[p].at \in LinkInside /\ "writing" \in LinkInside
   /\ linkProc' = [linkProc EXCEPT ![p].at = "writing"]
   /\ linkTmp' = [linkTmp EXCEPT ![t] = LinkTorn]
   /\ linkFile' = [linkFile EXCEPT ![t] = file]
   /\ UNCHANGED <<linkText, linkLock, linkForced>>
   BY <1>1, <1>3 DEF LinkOpenTmp, LinkAt, LinkGo, LinkInside
 <2>2. LinkWrites(p, "writing", file, LinkTorn) BY <1>1, <1>2, <2>1 DEF LinkWrites
 <2> QED BY <2>2, LinkInsideStep
<1>4. CASE LinkFillTmp(p)
 <2>1.
   /\ linkProc[p].at \in LinkInside /\ "written" \in LinkInside
   /\ linkProc' = [linkProc EXCEPT ![p].at = "written"]
   /\ UNCHANGED <<linkText, linkLock, linkForced>>
   BY <1>4 DEF LinkFillTmp, LinkAt, LinkGo, LinkInside
 <2>2. CASE tmp = LinkNone
  <3>1. linkForced BY <1>4, <2>2 DEF LinkInv, LinkWhole, LinkFillTmp
  <3>2. /\ linkFile' = [linkFile EXCEPT ![t] = index] /\ linkTmp' = [linkTmp EXCEPT ![t] = tmp]
    BY <1>1, <1>4, <2>2 DEF LinkFillTmp
  <3>3. LinkWrites(p, "written", index, tmp) BY <1>1, <1>2, <2>1, <3>1, <3>2 DEF LinkWrites
  <3> QED BY <3>3, LinkInsideStep
 <2>3. CASE tmp # LinkNone
  <3>1. /\ linkFile' = [linkFile EXCEPT ![t] = file] /\ linkTmp' = [linkTmp EXCEPT ![t] = index]
    BY <1>1, <1>4, <2>3 DEF LinkFillTmp
  <3>2. LinkWrites(p, "written", file, index) BY <1>1, <1>2, <2>1, <3>1 DEF LinkWrites
  <3> QED BY <3>2, LinkInsideStep
 <2> QED BY <2>2, <2>3
<1>5. CASE LinkRename(p)
 <2>1.
   /\ linkProc[p].at = "written" /\ linkProc[p].at \in LinkInside
   /\ {"renamed", "failed"} \subseteq LinkInside
   /\ UNCHANGED <<linkText, linkLock, linkForced>>
   BY <1>5 DEF LinkRename, LinkAt, LinkInside
 <2>2. CASE tmp = LinkNone
  <3>1. /\ linkProc' = [linkProc EXCEPT ![p].at = "failed"]
        /\ linkFile' = [linkFile EXCEPT ![t] = file] /\ linkTmp' = [linkTmp EXCEPT ![t] = tmp]
    BY <1>1, <1>5, <2>2 DEF LinkRename, LinkGo
  <3>2. LinkWrites(p, "failed", file, tmp) BY <1>1, <1>2, <2>1, <3>1 DEF LinkWrites
  <3> QED BY <3>2, LinkInsideStep
 <2>3. CASE tmp # LinkNone
  <3>1.
    /\ linkProc' = [linkProc EXCEPT ![p].at = "renamed"]
    /\ linkFile' = [linkFile EXCEPT ![t] = tmp]
    /\ linkTmp' = [linkTmp EXCEPT ![t] = LinkNone]
    BY <1>1, <1>5, <2>3 DEF LinkRename, LinkGo
  <3>2. ~ linkForced => tmp # LinkTorn BY <1>2, <2>1 DEF LinkInv, LinkWhole, LinkAt
  <3>3. LinkWrites(p, "renamed", tmp, LinkNone) BY <1>1, <2>1, <3>1, <3>2 DEF LinkWrites
  <3> QED BY <3>3, LinkInsideStep
 <2> QED BY <2>2, <2>3
<1> QED BY <1>3, <1>4, <1>5

\* The release removes its own lock, unless one was forced.
LEMMA LinkReleaseStep ==
  ASSUME LinkInv, NEW p \in LinkProcs, LinkRelease(p)
  PROVE LinkInv'
<1> DEFINE t == linkProc[p].target
  r == IF LinkAt(p, "renamed") /\ t = "forward"
       THEN [linkProc[p] EXCEPT !.at = "rebuild"] ELSE LinkIdle
<1>1.
  /\ LinkTypes /\ t \in LinkTargets
  /\ linkProc[p] \in [at: LinkPlaces, target: LinkTargets, index: LinkPairs]
  BY DEF LinkInv, LinkTypes
<1>2.
  /\ linkProc[p].at \in LinkInside /\ linkLock' = [linkLock EXCEPT ![t] = "free"]
  /\ linkProc' = [linkProc EXCEPT ![p] = r]
  /\ UNCHANGED <<linkText, linkFile, linkTmp, linkForced>>
  BY DEF LinkRelease, LinkGo, LinkInside
<1>3.
  /\ r \in [at: LinkPlaces, target: LinkTargets, index: LinkPairs]
  /\ r.at \in {"rebuild", "idle"}
  BY <1>1 DEF LinkPlaces, LinkIdle, LinkTargets, LinkPairs
<1> HIDE DEF r
<1>4. LinkTypes' BY <1>1, <1>2, <1>3 DEF LinkTypes
<1>5.
  /\ linkProc'[p] = r /\ \A q \in LinkProcs \ {p} : linkProc'[q] = linkProc[q]
  /\ \A u \in LinkTargets \ {t} : linkLock'[u] = linkLock[u]
  BY <1>1, <1>2 DEF LinkTypes
<1>6. ASSUME ~ linkForced
  PROVE LinkExclusive' /\ LinkWhole'
 <2>1. LinkExclusive /\ LinkWhole BY <1>6 DEF LinkInv
 <2>2. \A q \in LinkProcs \ {p} : ~ LinkHolds(q, t)
   BY <1>1, <1>2, <2>1 DEF LinkExclusive, LinkHolds
 <2>3. LinkExclusive' BY <1>3, <1>5, <2>1, <2>2 DEF LinkExclusive, LinkHolds, LinkInside
 <2>4. LinkWhole' BY <1>2, <1>3, <1>5, <2>1 DEF LinkWhole, LinkAt
 <2> QED BY <2>3, <2>4
<1> QED BY <1>2, <1>4, <1>6 DEF LinkInv

LEMMA LinkInitHolds == LinkInit => LinkInv
<1> SUFFICES ASSUME LinkInit
  PROVE LinkInv
  OBVIOUS
<1>1. LinkTypes BY DEF LinkInit, LinkTypes, LinkIdle, LinkPlaces, LinkTargets, LinkPairs
<1>2. LinkExclusive /\ LinkWhole
  BY LinkNoneNotTorn DEF LinkInit, LinkExclusive, LinkWhole, LinkHolds, LinkAt, LinkIdle,
    LinkInside
<1> QED BY <1>1, <1>2 DEF LinkInv

\* The lock of the index, made, forced and released by any number of processes that
\* may die, is held by the process that writes, unless it was forced (file-lock.ts).
THEOREM LinkInvariant == LinkSpec => []LinkInv
<1>1. LinkInv /\ [LinkNext]_linkVars => LinkInv'
 <2> SUFFICES ASSUME LinkInv, [LinkNext]_linkVars
   PROVE LinkInv'
   OBVIOUS
 <2>1. CASE UNCHANGED linkVars
   BY <2>1 DEF linkVars, LinkInv, LinkTypes, LinkExclusive, LinkWhole, LinkHolds, LinkAt
 <2>2. CASE LinkNext
   BY <2>2, LinkEditStep, LinkWaitingSteps, LinkMkdirStep, LinkForcingSteps, LinkWritingSteps,
     LinkReleaseStep DEF LinkNext
 <2> QED BY <2>1, <2>2
<1> QED BY <1>1, LinkInitHolds, PTL DEF LinkSpec

\* Neither file is torn, and no two processes are inside one lock, as long as no
\* lock in use was removed by force or overdue (links.ts, links-backlinks.ts).
THEOREM LinkFilesStayWhole == LinkSpec => []LinkFilesWhole
<1>1. LinkInv => LinkFilesWhole
  BY DEF LinkInv, LinkTypes, LinkExclusive, LinkWhole, LinkHolds, LinkFilesWhole
<1> QED BY <1>1, LinkInvariant, PTL

\* A node is among its own neighbours.
LEMMA LinkHopSelf ==
  ASSUME NEW n, NEW forward, NEW backward
  PROVE n \in LinkHop(n, forward, backward)
BY DEF LinkHop

LinkSpread(nodes, forward, backward) == UNION {LinkHop(m, forward, backward) : m \in nodes}

\* The balls of growing radius around a node.
LinkIsBall(ball, cap, n, forward, backward) ==
  ball = [k \in 0 .. cap |->
            IF k = 0 THEN {n} ELSE LinkSpread(ball[k - 1], forward, backward)]

\* The recursion of linkGraph has a solution, whatever the nodes are.
LEMMA LinkBallExists ==
  ASSUME NEW cap \in Nat, NEW n, NEW forward, NEW backward
  PROVE \E ball : LinkIsBall(ball, cap, n, forward, backward)
<1> DEFINE index == LinkLoaded("forward")
  U == {n} \cup {e[1] : e \in index} \cup {e[2] : e \in index}
           \cup {e[2] : e \in LinkLoaded("back")}
  spread == [v \in SUBSET U |-> LinkSpread(v, forward, backward)]
  step == [k \in Nat |-> spread]
<1>1. \A m \in U : LinkHop(m, forward, backward) \subseteq U BY DEF LinkHop, LinkBacklinks
<1>2. {n} \in SUBSET U OBVIOUS
<1> HIDE DEF U
<1>3. spread \in [SUBSET U -> SUBSET U] BY <1>1 DEF LinkSpread
<1> HIDE DEF spread
<1>4. step \in [Nat -> [SUBSET U -> SUBSET U]] BY <1>3
<1>5. PICK f : Recurs(f, SUBSET U, {n}, step)
 <2> HIDE DEF step
 <2> QED BY <1>2, <1>4, Recursion
<1>6.
  /\ f \in [Nat -> SUBSET U] /\ f[0] = {n}
  /\ \A k \in Nat : f[k + 1] = LinkSpread(f[k], forward, backward)
  BY <1>5 DEF Recurs, spread
<1> DEFINE ball == [k \in 0 .. cap |-> f[k]]
<1>7.
  \A k \in 0 .. cap :
    f[k] = IF k = 0 THEN {n} ELSE LinkSpread(ball[k - 1], forward, backward)
 <2> SUFFICES ASSUME NEW k \in 0 .. cap, k # 0
   PROVE f[k] = LinkSpread(ball[k - 1], forward, backward)
   BY <1>6
 <2>1. k - 1 \in 0 .. cap /\ k - 1 \in Nat /\ (k - 1) + 1 = k OBVIOUS
 <2>2. f[(k - 1) + 1] = LinkSpread(f[k - 1], forward, backward) BY <1>6, <2>1
 <2>3. ball[k - 1] = f[k - 1] BY <2>1
 <2> QED BY <2>1, <2>2, <2>3
<1>8. LinkIsBall(ball, cap, n, forward, backward) BY <1>7 DEF LinkIsBall
<1> QED BY <1>8

\* So linkGraph returns a ball, one hop of it is what one hop reaches, and more hops
\* reach more.
LEMMA LinkGraphIsBall ==
  ASSUME NEW n, NEW hops \in Nat \ {0}, NEW forward, NEW backward
  PROVE
    /\ LinkGraph(n, 1, forward, backward) = LinkHop(n, forward, backward)
    /\ LinkHop(n, forward, backward) \subseteq LinkGraph(n, hops, forward, backward)
<1> USE LinkAssumption
<1>1. ASSUME NEW h \in Nat \ {0}
  PROVE
    \E ball, cap : /\ LinkGraph(n, h, forward, backward) = ball[cap]
                   /\ LinkIsBall(ball, cap, n, forward, backward)
                   /\ cap = IF h < LinkMaxHops THEN h ELSE LinkMaxHops
 <2> DEFINE cap == IF h < LinkMaxHops THEN h ELSE LinkMaxHops
   ball == CHOOSE b : LinkIsBall(b, cap, n, forward, backward)
 <2>1. cap \in Nat OBVIOUS
 <2>2. LinkGraph(n, h, forward, backward) = ball[cap] BY DEF LinkGraph, LinkIsBall, LinkSpread
 <2> HIDE DEF cap
 <2>3. \E b : LinkIsBall(b, cap, n, forward, backward) BY <2>1, LinkBallExists
 <2>4. LinkIsBall(ball, cap, n, forward, backward) BY <2>3
 <2> HIDE DEF ball
 <2> QED BY <2>2, <2>4 DEF cap
<1>2. ASSUME NEW cap \in Nat \ {0}, NEW ball, LinkIsBall(ball, cap, n, forward, backward)
  PROVE ball[1] = LinkHop(n, forward, backward)
 <2>1. 0 \in 0 .. cap /\ 1 \in 0 .. cap /\ 1 - 1 = 0 OBVIOUS
 <2>2. ball[0] = {n} /\ ball[1] = LinkSpread(ball[0], forward, backward)
   BY <1>2, <2>1 DEF LinkIsBall
 <2> QED BY <2>2 DEF LinkSpread
<1>3. LinkGraph(n, 1, forward, backward) = LinkHop(n, forward, backward)
 <2>1.
   PICK ball, cap : /\ LinkGraph(n, 1, forward, backward) = ball[cap]
                    /\ LinkIsBall(ball, cap, n, forward, backward)
                    /\ cap = IF 1 < LinkMaxHops THEN 1 ELSE LinkMaxHops
   BY <1>1
 <2>2. cap = 1 BY <2>1
 <2> QED BY <1>2, <2>1, <2>2
<1>4.
  PICK ball, cap : /\ LinkGraph(n, hops, forward, backward) = ball[cap]
                   /\ LinkIsBall(ball, cap, n, forward, backward)
                   /\ cap = IF hops < LinkMaxHops THEN hops ELSE LinkMaxHops
  BY <1>1
<1>5. cap \in Nat \ {0} BY <1>4
<1> DEFINE T == {k \in Nat : k + 1 \in 0 .. cap => LinkHop(n, forward, backward) \subseteq ball[k + 1]}
<1>6. Nat \subseteq T
 <2>1. 0 \in T BY <1>2, <1>4, <1>5
 <2>2. ASSUME NEW k \in Nat, k \in T
   PROVE k + 1 \in T
  <3> SUFFICES ASSUME (k + 1) + 1 \in 0 .. cap
    PROVE LinkHop(n, forward, backward) \subseteq ball[(k + 1) + 1]
    OBVIOUS
  <3>1. k + 1 \in 0 .. cap BY <1>5
  <3>2. LinkHop(n, forward, backward) \subseteq ball[k + 1] BY <2>2, <3>1
  <3>3. ball[(k + 1) + 1] = LinkSpread(ball[k + 1], forward, backward)
   <4>1. (k + 1) + 1 # 0 /\ ((k + 1) + 1) - 1 = k + 1 OBVIOUS
   <4> QED BY <1>4, <4>1 DEF LinkIsBall
  <3> QED BY <3>2, <3>3, LinkHopSelf DEF LinkSpread
 <2> HIDE DEF T
 <2> QED BY <2>1, <2>2, EveryNumber
<1>7. cap - 1 \in Nat /\ (cap - 1) + 1 = cap BY <1>5
<1>8. LinkHop(n, forward, backward) \subseteq ball[cap] BY <1>6, <1>7
<1> QED BY <1>3, <1>4, <1>8

\* With the inverse of forward.json in backlinks.json the queries tell of the same links.
LEMMA LinkQueries ==
  ASSUME LinkLoaded("forward") \in LinkPairs
  PROVE LinkQueriesAgree
<1> DEFINE index == LinkLoaded("forward")
<1> SUFFICES ASSUME LinkLoaded("back") = LinkInverse(index),
    NEW f \in LinkFiles, NEW n \in LinkEntities
  PROVE
    /\ n # f => (n \in LinkForward(f) <=> f \in LinkGraph(n, 1, FALSE, TRUE))
    /\ n \in LinkForward(f) => /\ n \in LinkGraph(f, 1, TRUE, FALSE)
                               /\ n \in LinkOrphans(LinkFiles) \cup LinkDefined(LinkFiles)
    /\ LinkGraph(n, 1, TRUE, TRUE) \subseteq LinkGraph(n, LinkMaxHops + 1, TRUE, TRUE)
  BY DEF LinkQueriesAgree
<1>1.
  /\ LinkGraph(n, 1, FALSE, TRUE) = LinkHop(n, FALSE, TRUE)
  /\ LinkGraph(f, 1, TRUE, FALSE) = LinkHop(f, TRUE, FALSE)
 <2>1. 1 \in Nat \ {0} OBVIOUS
 <2> QED BY <2>1, LinkGraphIsBall
<1>0. \A e \in index : e = <<e[1], e[2]>> BY DEF LinkPairs
<1>2. \A a, b : <<a, b>> \in index <=> <<b, a>> \in LinkLoaded("back") BY <1>0 DEF LinkInverse
<1>3. n \in LinkForward(f) <=> <<f, n>> \in index BY <1>0 DEF LinkForward
<1>4. f \in LinkBacklinks(n) <=> <<n, f>> \in LinkLoaded("back")
 <2>1. \A e \in LinkLoaded("back") : e = <<e[1], e[2]>> BY DEF LinkInverse
 <2> QED BY <2>1 DEF LinkBacklinks
<1>5. n # f => (n \in LinkForward(f) <=> f \in LinkGraph(n, 1, FALSE, TRUE))
  BY <1>1, <1>2, <1>3, <1>4 DEF LinkHop
<1>6. ASSUME n \in LinkForward(f)
  PROVE
    /\ n \in LinkGraph(f, 1, TRUE, FALSE)
    /\ n \in LinkOrphans(LinkFiles) \cup LinkDefined(LinkFiles)
 <2>1. <<f, n>> \in index BY <1>3, <1>6
 <2>2. n \in LinkHop(f, TRUE, FALSE)
  <3>1. n \in {e[2] : e \in {x \in index : x[1] \in
                {d[1] : d \in {y \in index : y[2] = f \/ <<y[1], f>> \in LinkNamed}} \cup {f}}}
    BY <2>1
  <3> QED BY <3>1 DEF LinkHop
 <2>3. n \in {e[2] : e \in index} BY <2>1
 <2> QED BY <1>1, <2>2, <2>3 DEF LinkOrphans
<1>7. LinkGraph(n, 1, TRUE, TRUE) \subseteq LinkGraph(n, LinkMaxHops + 1, TRUE, TRUE)
 <2>1. LinkMaxHops + 1 \in Nat \ {0} BY LinkAssumption
 <2> QED BY <2>1, LinkGraphIsBall
<1> QED BY <1>5, <1>6, <1>7

\* LinkIndex is sound for any number of processes, files, entities, edits and crashes:
\* neither file is torn unless a lock in use was forced, and where the one file is the
\* inverse of the other, linkForward, linkBacklinks, linkGraph and linkOrphans tell of
\* the same links.
THEOREM LinksStaySound == LinkSpec => []LinkIndexSound
<1>1. LinkInv => LinkQueriesAgree
 <2>1. LinkInv => LinkLoaded("forward") \in LinkPairs
   BY LinkLoadedPairs DEF LinkInv, LinkTargets
 <2> QED BY <2>1, LinkQueries
<1>2. LinkFilesWhole /\ LinkQueriesAgree => LinkIndexSound BY DEF LinkIndexSound
<1> QED BY <1>1, <1>2, LinkInvariant, LinkFilesStayWhole, PTL

--------------------
(* RecordStore *)

RecGone == {RecAbsent, RecTorn}

RecJobs ==
  {RecIdle} \cup [op: {"link"}, decision: RecDecisions, left: SUBSET RecIncidents]
    \cup [op: {"touch"}, left: SUBSET RecRunbooks]

RecTypes ==
  /\ recIncident \in [RecIncidents -> RecIncident \cup RecGone]
  /\ recDecision \in [RecDecisions -> RecDecision \cup RecGone]
  /\ recRunbook \in [RecRunbooks -> RecRunbook \cup RecGone] /\ recJob \in RecJobs
  /\ recFailed \in [RecTools -> Nat] /\ recFaults \in Nat

\* The decision that an incident names was written once, and names it if it can be read.
RecConfirmed ==
  \A i \in RecIncidents, d \in RecDecisions :
    RecReadable(recIncident[i]) /\ d \in recIncident[i].related =>
      /\ recDecision[d] # RecAbsent
      /\ RecReadable(recDecision[d]) => i \in recDecision[d].links

\* What is still to be linked is in the decision's file.
RecLinking ==
  recJob.op = "link" => /\ RecReadable(recDecision[recJob.decision])
                        /\ recJob.left \subseteq recDecision[recJob.decision].links

RecOneRunbook ==
  \A r, s \in RecRunbooks :
    /\ RecReadable(recRunbook[r]) /\ RecReadable(recRunbook[s])
    /\ recRunbook[r].pattern = recRunbook[s].pattern
    => r = s

RecInv == RecTypes /\ RecConfirmed /\ RecLinking /\ RecOneRunbook

\* What can be read is a record of its kind.
LEMMA RecReadables ==
  /\ \A x \in RecIncident : RecReadable(x)
  /\ \A x \in RecDecision : RecReadable(x)
  /\ \A x \in RecRunbook : RecReadable(x)
  /\ \A x \in RecGone : ~ RecReadable(x)
  /\ RecAbsent # RecTorn
<1>1. RecAbsent.status = "absent" /\ RecTorn.status = "torn" BY DEF RecAbsent, RecTorn
<1>2.
  /\ \A x \in RecIncident : x.status \in {"open", "resolved"}
  /\ \A x \in RecDecision : x.status \in {"accepted", "rejected"}
  /\ \A x \in RecRunbook : x.status = "kept"
  BY DEF RecIncident, RecDecision, RecRunbook
<1> QED BY <1>1, <1>2 DEF RecReadable, RecGone

LEMMA RecIdleIsNoJob == RecIdle.op = "idle" /\ RecIdle \in RecJobs
BY DEF RecIdle, RecJobs

\* A write leaves what was to be written, or what was there, or half of it; only what is
\* written well goes on.
LEMMA RecWrites ==
  ASSUME NEW old, NEW new, NEW w \in RecTry(old, new)
  PROVE
    /\ w.file \in {old, new, RecTorn} /\ w.end \in {"done", "threw", "died"}
    /\ w.end = "done" => w.file = new
<1>1.
  w = [file |-> new, end |-> "done"]
  \/ w \in [file : {old, RecTorn}, end : IF recFaults < RecMaxFaults THEN {"threw", "died"} ELSE {}]
  BY DEF RecTry
<1>2. CASE w = [file |-> new, end |-> "done"] BY <1>2
<1>3. CASE w \in [file : {old, RecTorn}, end : IF recFaults < RecMaxFaults THEN {"threw", "died"} ELSE {}]
  BY <1>3
<1> QED BY <1>1, <1>2, <1>3

LEMMA RecEndTypes ==
  ASSUME RecTypes, NEW w, NEW job \in RecJobs, NEW counters \in [RecTools -> Nat],
    RecEnds(w, job, counters)
  PROVE
    /\ recJob' \in {RecIdle, job} /\ recJob' \in RecJobs
    /\ recFailed' \in [RecTools -> Nat] /\ recFaults' \in Nat
    /\ recJob' = RecIdle \/ w.end # "died"
BY RecIdleIsNoJob DEF RecEnds, RecTypes

\* An incident that is written anew, while no decision is being linked, names no decision
\* it did not name.
LEMMA RecIncidentStep ==
  ASSUME RecInv, recJob = RecIdle, NEW i \in RecIncidents, NEW file \in RecIncident \cup RecGone,
    RecReadable(file) => \/ file.related = {}
                         \/ /\ RecReadable(recIncident[i])
                            /\ file.related \subseteq recIncident[i].related,
    recIncident' = [recIncident EXCEPT ![i] = file], recJob' = RecIdle,
    recFailed' \in [RecTools -> Nat], recFaults' \in Nat,
    UNCHANGED <<recDecision, recRunbook>>
  PROVE RecInv'
<1>1. RecTypes' BY RecIdleIsNoJob DEF RecInv, RecTypes
<1>2. RecConfirmed'
 <2>1. \A k \in RecIncidents : recIncident'[k] = IF k = i THEN file ELSE recIncident[k]
   BY DEF RecInv, RecTypes
 <2> QED BY <2>1 DEF RecInv, RecConfirmed
<1>3. RecLinking' /\ RecOneRunbook' BY RecIdleIsNoJob DEF RecInv, RecLinking, RecOneRunbook
<1> QED BY <1>1, <1>2, <1>3 DEF RecInv

LEMMA RecNewIncidentStep ==
  ASSUME RecInv, recJob = RecIdle, NEW i \in RecIncidents, NEW resolved \in BOOLEAN,
    NEW w \in RecTry(RecAbsent, RecNewIncident(resolved)),
    NEW counters \in [RecTools -> Nat],
    recIncident' = [recIncident EXCEPT ![i] = w.file], RecEnds(w, RecIdle, counters),
    UNCHANGED <<recDecision, recRunbook>>
  PROVE RecInv'
<1>1. RecNewIncident(resolved) \in RecIncident /\ RecNewIncident(resolved).related = {}
  BY DEF RecNewIncident, RecIncident, RecTiers
<1>2. w.file \in {RecAbsent, RecTorn, RecNewIncident(resolved)} BY RecWrites
<1>3. /\ recJob' = RecIdle /\ recFailed' \in [RecTools -> Nat] /\ recFaults' \in Nat
  BY RecEndTypes, RecIdleIsNoJob DEF RecInv
<1>4. w.file \in RecIncident \cup RecGone /\ (RecReadable(w.file) => w.file.related = {})
  BY <1>1, <1>2, RecReadables DEF RecGone
<1> QED BY <1>3, <1>4, RecIncidentStep

LEMMA RecUpdateIncidentStep == RecInv /\ RecUpdateIncident => RecInv'
<1> SUFFICES ASSUME RecInv, RecUpdateIncident
  PROVE RecInv'
  OBVIOUS
<1>1. recJob = RecIdle /\ UNCHANGED <<recDecision, recRunbook>> BY DEF RecUpdateIncident
<1>2.
  PICK i \in RecIncidents, text \in BOOLEAN, resolved \in {"yes", "no", "unset"} :
    /\ RecReadable(recIncident[i])
    /\ \E w \in RecTry(recIncident[i], RecUpdated(recIncident[i], text, resolved)) :
         /\ recIncident' = [recIncident EXCEPT ![i] = w.file]
         /\ RecEnds(w, RecIdle, recFailed)
  BY DEF RecUpdateIncident
<1>3. PICK new : new = RecUpdated(recIncident[i], text, resolved) OBVIOUS
<1>4.
  PICK w \in RecTry(recIncident[i], new) :
    /\ recIncident' = [recIncident EXCEPT ![i] = w.file] /\ RecEnds(w, RecIdle, recFailed)
  BY <1>2, <1>3
<1>5. recIncident[i] \in RecIncident BY <1>2, RecReadables DEF RecInv, RecTypes
<1>6. new \in RecIncident /\ new.related = recIncident[i].related
  BY <1>3, <1>5 DEF RecUpdated, RecIncident, RecTiers
<1>7. w.file \in {recIncident[i], new, RecTorn} BY RecWrites
<1>8. w.file \in RecIncident \cup RecGone /\ (RecReadable(w.file) => w.file.related \subseteq recIncident[i].related)
  BY <1>5, <1>6, <1>7, RecReadables DEF RecGone
<1>9. /\ recJob' = RecIdle /\ recFailed' \in [RecTools -> Nat] /\ recFaults' \in Nat
  BY <1>4, RecEndTypes, RecIdleIsNoJob DEF RecInv, RecTypes
<1> QED BY <1>1, <1>2, <1>4, <1>8, <1>9, RecIncidentStep

LEMMA RecToolFailsStep == RecInv /\ RecToolFails => RecInv'
<1> SUFFICES ASSUME RecInv, RecToolFails
  PROVE RecInv'
  OBVIOUS
<1>1. recJob = RecIdle /\ UNCHANGED <<recDecision, recRunbook>> BY DEF RecToolFails
<1>2.
  PICK t \in RecTools :
    LET counted == [recFailed EXCEPT ![t] = @ + 1] IN
    \/ /\ counted[t] < RecThreshold
       /\ recFailed' = counted /\ UNCHANGED <<recIncident, recJob, recFaults>>
    \/ /\ counted[t] >= RecThreshold
       /\ \E i \in RecIncidents :
            /\ recIncident[i] = RecAbsent
            /\ \E w \in RecTry(RecAbsent, RecNewIncident(FALSE)) :
                 /\ recIncident' = [recIncident EXCEPT ![i] = w.file]
                 /\ RecEnds(w, RecIdle,
                            IF w.end = "done" THEN [recFailed EXCEPT ![t] = 0] ELSE counted)
  BY DEF RecToolFails
<1>3. PICK counted : counted = [recFailed EXCEPT ![t] = @ + 1] OBVIOUS
<1>4. counted \in [RecTools -> Nat] /\ [recFailed EXCEPT ![t] = 0] \in [RecTools -> Nat]
  BY <1>3 DEF RecInv, RecTypes
<1>5. CASE recFailed' = counted /\ UNCHANGED <<recIncident, recJob, recFaults>>
  BY <1>1, <1>4, <1>5 DEF RecInv, RecTypes, RecConfirmed, RecLinking, RecOneRunbook
<1>6.
  CASE \E i \in RecIncidents, w \in RecTry(RecAbsent, RecNewIncident(FALSE)) :
         /\ recIncident' = [recIncident EXCEPT ![i] = w.file]
         /\ RecEnds(w, RecIdle, IF w.end = "done" THEN [recFailed EXCEPT ![t] = 0] ELSE counted)
 <2>1.
   PICK i \in RecIncidents, w \in RecTry(RecAbsent, RecNewIncident(FALSE)) :
     /\ recIncident' = [recIncident EXCEPT ![i] = w.file]
     /\ RecEnds(w, RecIdle, IF w.end = "done" THEN [recFailed EXCEPT ![t] = 0] ELSE counted)
   BY <1>6
 <2>2. PICK counters : counters = IF w.end = "done" THEN [recFailed EXCEPT ![t] = 0] ELSE counted
   OBVIOUS
 <2>3. counters \in [RecTools -> Nat] /\ RecEnds(w, RecIdle, counters) BY <1>4, <2>1, <2>2
 <2> QED BY <1>1, <2>1, <2>3, RecNewIncidentStep
<1> QED BY <1>2, <1>3, <1>5, <1>6

\* The decision's file, with links no fewer than it had.
LEMMA RecDecideStep ==
  ASSUME RecInv, recJob = RecIdle, NEW d \in RecDecisions, NEW decision \in RecDecision,
    NEW fresh \in SUBSET RecIncidents, fresh \subseteq decision.links,
    RecReadable(recDecision[d]) => recDecision[d].links \subseteq decision.links,
    recDecision[d] # RecTorn,
    RecDecide(d, decision, fresh)
  PROVE RecInv'
<1>1.
  PICK w \in RecTry(recDecision[d], decision) :
    /\ recDecision' = [recDecision EXCEPT ![d] = w.file]
    /\ RecEnds(w, RecJobAfter(w, [op |-> "link", decision |-> d, left |-> fresh]), recFailed)
    /\ UNCHANGED <<recIncident, recRunbook>>
  BY DEF RecDecide
<1> DEFINE linked == [op |-> "link", decision |-> d, left |-> fresh]
<1>2. PICK job : job = RecJobAfter(w, linked) OBVIOUS
<1>3.
  /\ w.file \in {recDecision[d], decision, RecTorn}
  /\ w.end = "done" => w.file = decision
  BY RecWrites
<1>4. linked \in RecJobs /\ linked.op = "link" /\ linked.decision = d /\ linked.left = fresh
  BY DEF RecJobs
<1>5. job \in RecJobs /\ (job = RecIdle \/ (job = linked /\ w.file = decision))
  BY <1>2, <1>3, <1>4, RecIdleIsNoJob DEF RecJobAfter
<1>6. RecEnds(w, job, recFailed) BY <1>1, <1>2
<1>7.
  /\ recJob' \in RecJobs /\ recJob' \in {RecIdle, job}
  /\ recFailed' \in [RecTools -> Nat] /\ recFaults' \in Nat
  BY <1>5, <1>6, RecEndTypes DEF RecInv, RecTypes
<1>8. recDecision[d] \in RecDecision \cup RecGone BY DEF RecInv, RecTypes
<1>9. RecTypes' BY <1>1, <1>3, <1>7, <1>8 DEF RecInv, RecTypes, RecGone
<1>10. \A e \in RecDecisions : recDecision'[e] = IF e = d THEN w.file ELSE recDecision[e]
  BY <1>1 DEF RecInv, RecTypes
<1>11. RecConfirmed'
 <2> SUFFICES ASSUME NEW i \in RecIncidents, NEW e \in RecDecisions,
     RecReadable(recIncident[i]), e \in recIncident[i].related
   PROVE
     /\ recDecision'[e] # RecAbsent
     /\ RecReadable(recDecision'[e]) => i \in recDecision'[e].links
   BY <1>1 DEF RecConfirmed
 <2>1.
   /\ recDecision[e] # RecAbsent
   /\ RecReadable(recDecision[e]) => i \in recDecision[e].links
   BY DEF RecInv, RecConfirmed
 <2>2. CASE e # d BY <1>10, <2>1, <2>2
 <2>3. CASE e = d
  <3>1. RecReadable(recDecision[d]) /\ i \in recDecision[d].links BY <2>1, <2>3 DEF RecReadable
  <3>2. w.file # RecAbsent /\ (RecReadable(w.file) => i \in w.file.links)
    BY <1>3, <2>1, <2>3, <3>1, RecReadables DEF RecReadable, RecGone
  <3> QED BY <1>10, <2>3, <3>2
 <2> QED BY <2>2, <2>3
<1>12. RecLinking'
 <2> SUFFICES ASSUME recJob'.op = "link"
   PROVE
     /\ RecReadable(recDecision'[recJob'.decision])
     /\ recJob'.left \subseteq recDecision'[recJob'.decision].links
   BY DEF RecLinking
 <2>1. recJob' = linked /\ w.file = decision BY <1>5, <1>7, RecIdleIsNoJob
 <2>2. recJob'.decision = d /\ recJob'.left = fresh /\ recDecision'[d] = decision
   BY <1>4, <1>10, <2>1
 <2> QED BY <2>2, RecReadables
<1>13. RecOneRunbook' BY <1>1 DEF RecInv, RecOneRunbook
<1> QED BY <1>9, <1>11, <1>12, <1>13 DEF RecInv

LEMMA RecDecisionSteps ==
  ASSUME RecInv, RecRecordDecision \/ RecUpdateDecision
  PROVE RecInv'
<1>1. CASE RecRecordDecision
 <2>1. recJob = RecIdle BY <1>1 DEF RecRecordDecision
 <2>2.
   PICK d \in RecDecisions, links \in SUBSET RecIncidents, status \in {"accepted", "rejected"} :
     /\ recDecision[d] = RecAbsent
     /\ RecDecide(d, [status |-> status, ended |-> FALSE, links |-> links,
                      tier |-> IF status \in RecOver THEN "archival" ELSE "core"], links)
   BY <1>1 DEF RecRecordDecision
 <2>3.
   PICK decision : decision = [status |-> status, ended |-> FALSE, links |-> links,
                               tier |-> IF status \in RecOver THEN "archival" ELSE "core"]
   OBVIOUS
 <2>4. decision \in RecDecision /\ decision.links = links BY <2>3 DEF RecDecision, RecTiers
 <2>5. RecDecide(d, decision, links) BY <2>2, <2>3
 <2>6. recDecision[d] # RecTorn /\ ~ RecReadable(recDecision[d])
   BY <2>2, RecReadables DEF RecGone
 <2> QED BY <2>1, <2>4, <2>5, <2>6, RecDecideStep
<1>2. CASE RecUpdateDecision
 <2>1. recJob = RecIdle BY <1>2 DEF RecUpdateDecision
 <2>2.
   PICK d \in RecDecisions, links \in SUBSET RecIncidents,
        status \in {"unset", "accepted", "rejected"} :
     /\ RecReadable(recDecision[d])
     /\ RecDecide(d, [RecReviewed(recDecision[d], status) EXCEPT !.links = @ \cup links],
                  links \ recDecision[d].links)
   BY <1>2 DEF RecUpdateDecision
 <2>3. recDecision[d] \in RecDecision /\ recDecision[d] # RecTorn
   BY <2>2, RecReadables DEF RecInv, RecTypes, RecGone
 <2>4. PICK reviewed : reviewed = RecReviewed(recDecision[d], status) OBVIOUS
 <2>5. reviewed \in RecDecision /\ reviewed.links = recDecision[d].links
   BY <2>3, <2>4 DEF RecReviewed, RecDecision, RecTiers, RecOver
 <2>6. PICK decision : decision = [reviewed EXCEPT !.links = @ \cup links] OBVIOUS
 <2>7. decision \in RecDecision /\ decision.links = recDecision[d].links \cup links
   BY <2>5, <2>6 DEF RecDecision
 <2>8. PICK fresh : fresh = links \ recDecision[d].links OBVIOUS
 <2>9. RecDecide(d, decision, fresh) BY <2>2, <2>4, <2>6, <2>8
 <2> QED BY <2>1, <2>3, <2>7, <2>8, <2>9, RecDecideStep
<1> QED BY <1>1, <1>2

LEMMA RecLinkStep == RecInv /\ RecLink => RecInv'
<1> SUFFICES ASSUME RecInv, RecLink
  PROVE RecInv'
  OBVIOUS
<1>1.
  PICK i \in recJob.left :
    LET incident == recIncident[i]
        d == recJob.decision
        job == IF recJob.left = {i} THEN RecIdle ELSE [recJob EXCEPT !.left = @ \ {i}]
    IN  IF RecReadable(incident) /\ d \notin incident.related
        THEN \E w \in RecTry(incident, [incident EXCEPT !.related = @ \cup {d}]) :
                /\ recIncident' = [recIncident EXCEPT ![i] = w.file]
                /\ RecEnds(w, job, recFailed)
        ELSE /\ recJob' = job
             /\ UNCHANGED <<recIncident, recFailed, recFaults>>
  BY DEF RecLink
<1>2. recJob.op = "link" /\ UNCHANGED <<recDecision, recRunbook>> BY DEF RecLink
<1>3.
  /\ recJob \in [op: {"link"}, decision: RecDecisions, left: SUBSET RecIncidents]
  /\ i \in RecIncidents /\ recJob.decision \in RecDecisions
 <2>1. recJob \in [op: {"link"}, decision: RecDecisions, left: SUBSET RecIncidents]
   BY <1>2, RecIdleIsNoJob DEF RecInv, RecTypes, RecJobs
 <2> QED BY <2>1
<1>4. PICK job : job = IF recJob.left = {i} THEN RecIdle ELSE [recJob EXCEPT !.left = @ \ {i}]
  OBVIOUS
<1>5.
  /\ job \in RecJobs
  /\ job.op = "link" => job.decision = recJob.decision /\ job.left \subseteq recJob.left
 <2>1. CASE job = RecIdle BY <2>1, RecIdleIsNoJob
 <2>2. CASE job = [recJob EXCEPT !.left = @ \ {i}]
  <3>1. job \in [op: {"link"}, decision: RecDecisions, left: SUBSET RecIncidents]
        /\ job.decision = recJob.decision /\ job.left = recJob.left \ {i}
    BY <1>3, <2>2
  <3> QED BY <3>1 DEF RecJobs
 <2> QED BY <1>4, <2>1, <2>2
<1>6.
  \A j \in {RecIdle, job} :
    j.op = "link" => /\ RecReadable(recDecision[j.decision])
                     /\ j.left \subseteq recDecision[j.decision].links
  BY <1>2, <1>5, RecIdleIsNoJob DEF RecInv, RecLinking
<1>7. i \in recDecision[recJob.decision].links /\ RecReadable(recDecision[recJob.decision])
  BY <1>2 DEF RecInv, RecLinking
<1>8. RecOneRunbook' BY <1>2 DEF RecInv, RecOneRunbook
<1>9. CASE recJob' = job /\ UNCHANGED <<recIncident, recFailed, recFaults>>
 <2>1. RecTypes' BY <1>2, <1>5, <1>9 DEF RecInv, RecTypes
 <2>2. RecConfirmed' /\ RecLinking' BY <1>2, <1>6, <1>9 DEF RecInv, RecConfirmed, RecLinking
 <2> QED BY <1>8, <2>1, <2>2 DEF RecInv
<1>10.
  CASE /\ RecReadable(recIncident[i])
       /\ \E w \in RecTry(recIncident[i], [recIncident[i] EXCEPT !.related = @ \cup {recJob.decision}]) :
            /\ recIncident' = [recIncident EXCEPT ![i] = w.file]
            /\ RecEnds(w, job, recFailed)
 <2>1. recIncident[i] \in RecIncident BY <1>3, <1>10, RecReadables DEF RecInv, RecTypes
 <2>2. PICK new : new = [recIncident[i] EXCEPT !.related = @ \cup {recJob.decision}] OBVIOUS
 <2>3. new \in RecIncident /\ new.related = recIncident[i].related \cup {recJob.decision}
   BY <1>3, <2>1, <2>2 DEF RecIncident
 <2>4.
   PICK w \in RecTry(recIncident[i], new) :
     /\ recIncident' = [recIncident EXCEPT ![i] = w.file] /\ RecEnds(w, job, recFailed)
   BY <1>10, <2>2
 <2>5. w.file \in {recIncident[i], new, RecTorn} BY RecWrites
 <2>6.
   /\ recJob' \in {RecIdle, job} /\ recJob' \in RecJobs
   /\ recFailed' \in [RecTools -> Nat] /\ recFaults' \in Nat
   BY <1>5, <2>4, RecEndTypes DEF RecInv, RecTypes
 <2>7. RecTypes' BY <1>2, <1>3, <2>1, <2>3, <2>4, <2>5, <2>6 DEF RecInv, RecTypes, RecGone
 <2>8. \A k \in RecIncidents : recIncident'[k] = IF k = i THEN w.file ELSE recIncident[k]
   BY <2>4 DEF RecInv, RecTypes
 <2>9. RecConfirmed'
  <3> SUFFICES ASSUME NEW k \in RecIncidents, NEW e \in RecDecisions,
      RecReadable(recIncident'[k]), e \in recIncident'[k].related
    PROVE
      /\ recDecision[e] # RecAbsent
      /\ RecReadable(recDecision[e]) => k \in recDecision[e].links
    BY <1>2 DEF RecConfirmed
  <3>1. CASE k = i /\ e = recJob.decision BY <1>7, <3>1, RecReadables DEF RecGone
  <3>2. CASE k = i /\ e # recJob.decision
   <4>1. RecReadable(recIncident[i]) /\ e \in recIncident[i].related
     BY <1>10, <2>3, <2>5, <2>8, <3>2, RecReadables DEF RecGone
   <4> QED BY <3>2, <4>1 DEF RecInv, RecConfirmed
  <3>3. CASE k # i BY <2>8, <3>3 DEF RecInv, RecConfirmed
  <3> QED BY <3>1, <3>2, <3>3
 <2>10. RecLinking' BY <1>2, <1>6, <2>6 DEF RecLinking
 <2> QED BY <1>8, <2>7, <2>9, <2>10 DEF RecInv
<1> QED BY <1>1, <1>4, <1>9, <1>10

\* A runbook's file is written, and has the pattern it had or one no other has.
LEMMA RecRunbookStep ==
  ASSUME RecInv, NEW r \in RecRunbooks, NEW new \in RecRunbook \cup RecGone,
    RecReadable(new) =>
      \A s \in RecRunbooks : RecReadable(recRunbook[s]) /\ recRunbook[s].pattern = new.pattern
                             => s = r,
    NEW w \in RecTry(recRunbook[r], new), NEW job \in RecJobs, job.op # "link",
    recRunbook' = [recRunbook EXCEPT ![r] = w.file], RecEnds(w, job, recFailed),
    UNCHANGED <<recIncident, recDecision>>
  PROVE RecInv'
<1>1. w.file \in {recRunbook[r], new, RecTorn} BY RecWrites
<1>2.
  /\ recJob' \in {RecIdle, job} /\ recJob' \in RecJobs
  /\ recFailed' \in [RecTools -> Nat] /\ recFaults' \in Nat
  BY RecEndTypes DEF RecInv, RecTypes
<1>3. RecTypes' BY <1>1, <1>2 DEF RecInv, RecTypes, RecGone
<1>4. RecConfirmed' /\ RecLinking' BY <1>2, RecIdleIsNoJob DEF RecInv, RecConfirmed, RecLinking
<1>5. \A s \in RecRunbooks : recRunbook'[s] = IF s = r THEN w.file ELSE recRunbook[s]
  BY DEF RecInv, RecTypes
<1>6.
  RecReadable(w.file) =>
    \A s \in RecRunbooks : RecReadable(recRunbook[s]) /\ recRunbook[s].pattern = w.file.pattern
                           => s = r
  BY <1>1, RecReadables DEF RecInv, RecOneRunbook, RecGone
<1>7. RecOneRunbook' BY <1>5, <1>6 DEF RecInv, RecOneRunbook
<1> QED BY <1>3, <1>4, <1>7 DEF RecInv

LEMMA RecRunbookSteps ==
  ASSUME RecInv, RecAddRunbook \/ RecMatch \/ RecTouch
  PROVE RecInv'
<1>1. CASE RecAddRunbook
 <2>1.
   PICK pattern \in RecPatterns, r \in RecRunbooks :
     /\ \/ r \in RecFound(pattern)
        \/ RecFound(pattern) = {} /\ recRunbook[r] = RecAbsent
     /\ \E w \in RecTry(recRunbook[r], [status |-> "kept", pattern |-> pattern]) :
          /\ recRunbook' = [recRunbook EXCEPT ![r] = w.file]
          /\ RecEnds(w, RecIdle, recFailed)
   BY <1>1 DEF RecAddRunbook
 <2>2. PICK new : new = [status |-> "kept", pattern |-> pattern] OBVIOUS
 <2>3.
   PICK w \in RecTry(recRunbook[r], new) :
     /\ recRunbook' = [recRunbook EXCEPT ![r] = w.file] /\ RecEnds(w, RecIdle, recFailed)
   BY <2>1, <2>2
 <2>4. new \in RecRunbook /\ new.pattern = pattern BY <2>2 DEF RecRunbook
 <2>5. ASSUME NEW s \in RecRunbooks, RecReadable(recRunbook[s]), recRunbook[s].pattern = new.pattern
   PROVE s = r
  <3>1. s \in RecFound(pattern) BY <2>4, <2>5 DEF RecFound
  <3>2. RecReadable(recRunbook[r]) /\ recRunbook[r].pattern = pattern BY <2>1, <3>1 DEF RecFound
  <3> QED BY <2>4, <2>5, <3>2 DEF RecInv, RecOneRunbook
 <2>6. UNCHANGED <<recIncident, recDecision>> BY <1>1 DEF RecAddRunbook
 <2> QED BY <2>3, <2>4, <2>5, <2>6, RecIdleIsNoJob, RecRunbookStep
<1>2. CASE RecMatch
 <2>1. PICK some \in SUBSET RecRunbooks : recJob' = [op |-> "touch", left |-> some]
   BY <1>2 DEF RecMatch
 <2>2. recJob' \in RecJobs /\ recJob'.op = "touch" BY <2>1 DEF RecJobs
 <2>3. UNCHANGED <<recIncident, recDecision, recRunbook, recFailed, recFaults>>
   BY <1>2 DEF RecMatch
 <2> QED BY <2>2, <2>3 DEF RecInv, RecTypes, RecConfirmed, RecLinking, RecOneRunbook
<1>3. CASE RecTouch
 <2>1. recJob.op = "touch" /\ UNCHANGED <<recIncident, recDecision>> BY <1>3 DEF RecTouch
 <2>2. recJob \in [op: {"touch"}, left: SUBSET RecRunbooks]
   BY <2>1, RecIdleIsNoJob DEF RecInv, RecTypes, RecJobs
 <2>3.
   PICK r \in recJob.left :
     \E w \in RecTry(recRunbook[r], recRunbook[r]) :
       /\ recRunbook' = [recRunbook EXCEPT ![r] = w.file]
       /\ RecEnds(w, IF recJob.left = {r} THEN RecIdle ELSE [recJob EXCEPT !.left = @ \ {r}],
                  recFailed)
   BY <1>3 DEF RecTouch
 <2>4. PICK job : job = IF recJob.left = {r} THEN RecIdle ELSE [recJob EXCEPT !.left = @ \ {r}]
   OBVIOUS
 <2>5.
   PICK w \in RecTry(recRunbook[r], recRunbook[r]) :
     /\ recRunbook' = [recRunbook EXCEPT ![r] = w.file] /\ RecEnds(w, job, recFailed)
   BY <2>3, <2>4
 <2>6. job \in RecJobs /\ job.op # "link"
  <3>1. CASE job = RecIdle BY <3>1, RecIdleIsNoJob
  <3>2. CASE job = [recJob EXCEPT !.left = @ \ {r}]
   <4>1. job \in [op: {"touch"}, left: SUBSET RecRunbooks] BY <2>2, <3>2
   <4> QED BY <4>1 DEF RecJobs
  <3> QED BY <2>4, <3>1, <3>2
 <2>7. r \in RecRunbooks /\ recRunbook[r] \in RecRunbook \cup RecGone
   BY <2>2 DEF RecInv, RecTypes
 <2>8.
   RecReadable(recRunbook[r]) =>
     \A s \in RecRunbooks : RecReadable(recRunbook[s])
                            /\ recRunbook[s].pattern = recRunbook[r].pattern => s = r
   BY <2>7 DEF RecInv, RecOneRunbook
 <2> QED BY <2>1, <2>5, <2>6, <2>7, <2>8, RecRunbookStep
<1> QED BY <1>1, <1>2, <1>3

LEMMA RecDiesStep == RecInv /\ RecDies => RecInv'
<1> SUFFICES ASSUME RecInv, RecDies
  PROVE RecInv'
  OBVIOUS
<1>1. UNCHANGED <<recIncident, recDecision, recRunbook>> BY DEF RecDies
<1>2. PICK w : w = [end |-> "died"] OBVIOUS
<1>3. RecEnds(w, RecIdle, recFailed) BY <1>2 DEF RecDies
<1>4. /\ recJob' = RecIdle /\ recFailed' \in [RecTools -> Nat] /\ recFaults' \in Nat
  BY <1>3, RecEndTypes, RecIdleIsNoJob DEF RecInv, RecTypes
<1> QED BY <1>1, <1>4, RecIdleIsNoJob DEF RecInv, RecTypes, RecConfirmed, RecLinking,
    RecOneRunbook

\* The inductive invariant: a decision's file is written before the incidents are.
THEOREM RecordsInvariant == RecSpec => []RecInv
<1>1. RecInit => RecInv
 <2> SUFFICES ASSUME RecInit
   PROVE RecInv
   OBVIOUS
 <2>1. RecTypes BY RecIdleIsNoJob DEF RecInit, RecTypes, RecGone
 <2>2.
   /\ \A i \in RecIncidents : ~ RecReadable(recIncident[i])
   /\ \A r \in RecRunbooks : ~ RecReadable(recRunbook[r])
   /\ recJob.op # "link"
   BY RecReadables, RecIdleIsNoJob DEF RecInit, RecGone
 <2> QED BY <2>1, <2>2 DEF RecInv, RecConfirmed, RecLinking, RecOneRunbook
<1>2. RecInv /\ [RecNext]_recVars => RecInv'
 <2> SUFFICES ASSUME RecInv, [RecNext]_recVars
   PROVE RecInv'
   OBVIOUS
 <2>1. CASE UNCHANGED recVars
   BY <2>1 DEF recVars, RecInv, RecTypes, RecConfirmed, RecLinking, RecOneRunbook
 <2>2. CASE RecRecordIncident
  <3>1. recJob = RecIdle /\ UNCHANGED <<recDecision, recRunbook>> BY <2>2 DEF RecRecordIncident
  <3>2.
    PICK i \in RecIncidents, resolved \in BOOLEAN :
      \E w \in RecTry(RecAbsent, RecNewIncident(resolved)) :
        /\ recIncident' = [recIncident EXCEPT ![i] = w.file]
        /\ RecEnds(w, RecIdle, recFailed)
    BY <2>2 DEF RecRecordIncident
  <3>3. recFailed \in [RecTools -> Nat] BY DEF RecInv, RecTypes
  <3> QED BY <3>1, <3>2, <3>3, RecNewIncidentStep
 <2>3. CASE RecUpdateIncident BY <2>3, RecUpdateIncidentStep
 <2>4. CASE RecToolFails BY <2>4, RecToolFailsStep
 <2>5. CASE RecRecordDecision \/ RecUpdateDecision BY <2>5, RecDecisionSteps
 <2>6. CASE RecLink BY <2>6, RecLinkStep
 <2>7. CASE RecAddRunbook \/ RecMatch \/ RecTouch BY <2>7, RecRunbookSteps
 <2>8. CASE RecDies BY <2>8, RecDiesStep
 <2> QED BY <2>1, <2>2, <2>3, <2>4, <2>5, <2>6, <2>7, <2>8 DEF RecNext
<1> QED BY <1>1, <1>2, PTL DEF RecSpec

\* What an incident says of a decision is confirmed by the decision's own file, and no
\* pattern has two runbooks, whichever writes failed or were cut off.
THEOREM RecordsStayInAgreement == RecSpec => []RecordsAgree
<1>1. RecInv => RecordsAgree BY DEF RecInv, RecConfirmed, RecOneRunbook, RecordsAgree
<1> QED BY RecordsInvariant, <1>1, PTL

--------------------
(* Commands *)

CmdChildren == [exit: {"none", "runs", "zero", "other"}, held: BOOLEAN,
                sent: {"none", "term", "kill"}, late: BOOLEAN, stopped: BOOLEAN]

CmdOperations ==
  [kind: CmdKinds, phase: {"next", "waits", "judged", "fixing", "done"}, at: Nat, count: Nat,
   failFast: BOOLEAN, real: BOOLEAN, ok: BOOLEAN,
   verdict: {"none", "passed", "failed", "aborted", "timeout", "denied"}, late: BOOLEAN]

CmdTypes ==
  /\ (cmdOp = [phase |-> "idle"] /\ cmdTrail = <<>>) \/ cmdOp \in CmdOperations
  /\ cmdChild \in CmdChildren /\ cmdTrail \in Seq(CmdChildren) /\ cmdAborted \in BOOLEAN

\* A child only while one is waited for; a runbook hears no signal and Git has no timer.
CmdOneChild ==
  /\ cmdOp.phase # "waits" => cmdChild = CmdNone
  /\ cmdOp.phase = "waits" => /\ cmdOp.kind = "runbook" => ~ cmdChild.stopped
                              /\ cmdOp.kind = "git" => ~ cmdChild.late

\* The commands before the current one, and how many there are.
CmdCounted ==
  /\ cmdOp.at \in 1 .. cmdOp.count
  /\ cmdOp.kind \notin CmdSeveral => cmdOp.count = 1
  /\ cmdOp.phase = "judged" => cmdTrail # <<>>
  /\ cmdOp.kind # "tests" =>
       /\ cmdOp.phase # "fixing"
       /\ cmdOp.phase \in {"next", "waits"} => Len(cmdTrail) = cmdOp.at - 1
       /\ cmdOp.phase = "judged" => Len(cmdTrail) = cmdOp.at
       /\ (cmdOp.ok /\ cmdOp.phase \in {"next", "waits", "judged"})
          => \A i \in 1 .. cmdOp.at - 1 : CmdSucceeded(cmdTrail[i])

\* A verdict that is good and on time is about a child that succeeded.
CmdJustified ==
  (cmdOp.phase = "judged" /\ cmdOp.verdict = "passed") =>
    /\ ~ cmdOp.late => CmdSucceeded(cmdTrail[Len(cmdTrail)])
    /\ cmdOp.kind \in CmdSeveral => ~ cmdOp.late

CmdInv ==
  /\ CmdTypes /\ CmdOneChild
  /\ cmdOp.phase # "idle" => CmdCounted /\ CmdJustified
  /\ CmdSuccessIsReal

LEMMA CmdInitHolds == CmdInit => CmdInv
<1> SUFFICES ASSUME CmdInit
  PROVE CmdInv
  OBVIOUS
<1>1.
  /\ cmdOp = [phase |-> "idle"] /\ cmdOp.phase = "idle"
  /\ cmdTrail = <<>> /\ cmdChild = CmdNone /\ cmdAborted = FALSE
  BY DEF CmdInit
<1>2. CmdTypes
 <2>1. <<>> \in Seq(CmdChildren) /\ CmdNone \in CmdChildren BY EmptySeq DEF CmdChildren, CmdNone
 <2> QED BY <1>1, <2>1 DEF CmdTypes
<1>3. CmdOneChild /\ CmdSuccessIsReal BY <1>1 DEF CmdOneChild, CmdSuccessIsReal
<1> QED BY <1>1, <1>2, <1>3 DEF CmdInv

\* An operation that is going on.
LEMMA CmdGoing ==
  ASSUME CmdInv, cmdOp.phase # "idle"
  PROVE
    /\ cmdOp \in CmdOperations /\ cmdChild \in CmdChildren
    /\ cmdTrail \in Seq(CmdChildren) /\ cmdAborted \in BOOLEAN
    /\ CmdOneChild /\ CmdCounted /\ CmdJustified
BY DEF CmdInv, CmdTypes

LEMMA CmdStartStep ==
  ASSUME CmdInv, CmdStart
  PROVE CmdInv'
<1>1. cmdOp.phase = "idle" /\ cmdTrail = <<>> /\ cmdChild = CmdNone
  BY DEF CmdInv, CmdTypes, CmdStart, CmdOneChild, CmdOperations
<1>2.
  PICK kind \in CmdKinds, count \in 1 .. CmdMaxCommands, failFast \in BOOLEAN, real \in BOOLEAN :
    /\ kind \in {"bash", "git", "hook", "cli"} => count = 1
    /\ cmdOp' = [kind |-> kind, phase |-> IF real THEN "next" ELSE "done",
                 at |-> 1, count |-> IF kind = "tests" THEN CmdMaxAttempts ELSE count,
                 failFast |-> failFast, real |-> real, ok |-> TRUE,
                 verdict |-> "none", late |-> FALSE]
  BY DEF CmdStart
<1>3. cmdChild' = CmdNone /\ cmdTrail' = <<>> /\ UNCHANGED cmdAborted BY <1>1 DEF CmdStart
<1>4. cmdOp' \in CmdOperations BY <1>2, CmdAssumption DEF CmdOperations
<1>5. CmdTypes' BY <1>3, <1>4 DEF CmdTypes, CmdInv, CmdChildren, CmdNone
<1>6. cmdOp'.phase = (IF real THEN "next" ELSE "done") /\ cmdOp'.real = real BY <1>2
<1>7. CmdOneChild' BY <1>3, <1>6 DEF CmdOneChild
<1>8. CmdCounted'
 <2>1.
   cmdOp'.at = 1 /\ cmdOp'.kind = kind
   /\ cmdOp'.count = IF kind = "tests" THEN CmdMaxAttempts ELSE count
   BY <1>2
 <2>2. cmdOp'.count \in Nat \ {0} BY <2>1, CmdAssumption
 <2>3. Len(cmdTrail') = 0 BY <1>3
 <2>4. kind \notin CmdSeveral => cmdOp'.count = 1 BY <1>2, <2>1 DEF CmdSeveral, CmdKinds
 <2> QED BY <1>6, <2>1, <2>2, <2>3, <2>4 DEF CmdCounted
<1>9. CmdJustified' /\ CmdSuccessIsReal' BY <1>6 DEF CmdJustified, CmdSuccessIsReal
<1> QED BY <1>5, <1>7, <1>8, <1>9 DEF CmdInv

\* A verdict about the current child, if a good one is about a child that succeeded.
LEMMA CmdJudgedStep ==
  ASSUME CmdInv, NEW verdict \in {"passed", "failed", "aborted", "timeout", "denied"},
    cmdOp.phase \in {"next", "waits"},
    CmdJudged(verdict), UNCHANGED cmdAborted,
    verdict = "passed" => /\ ~ cmdChild.late => CmdSucceeded(cmdChild)
                          /\ cmdOp.kind \in CmdSeveral => ~ cmdChild.late
  PROVE CmdInv'
<1>1.
  /\ cmdOp \in CmdOperations /\ cmdChild \in CmdChildren /\ cmdTrail \in Seq(CmdChildren)
  /\ CmdCounted /\ cmdAborted \in BOOLEAN
  BY CmdGoing
<1>2.
  /\ cmdOp' = [cmdOp EXCEPT !.phase = "judged", !.verdict = verdict, !.late = cmdChild.late]
  /\ cmdTrail' = Append(cmdTrail, cmdChild) /\ cmdChild' = CmdNone
  BY DEF CmdJudged
<1>3.
  /\ cmdTrail' \in Seq(CmdChildren) /\ Len(cmdTrail') = Len(cmdTrail) + 1
  /\ cmdTrail'[Len(cmdTrail')] = cmdChild
  /\ \A i \in 1 .. Len(cmdTrail) : cmdTrail'[i] = cmdTrail[i]
  /\ Len(cmdTrail) \in Nat
  BY <1>1, <1>2, AppendProperties, LenProperties
<1>4.
  /\ cmdOp' \in CmdOperations
  /\ cmdOp'.phase = "judged" /\ cmdOp'.verdict = verdict /\ cmdOp'.late = cmdChild.late
  /\ cmdOp'.kind = cmdOp.kind /\ cmdOp'.at = cmdOp.at /\ cmdOp'.count = cmdOp.count
  /\ cmdOp'.ok = cmdOp.ok
  BY <1>1, <1>2 DEF CmdOperations, CmdChildren
<1>5. CmdTypes' BY <1>1, <1>2, <1>3, <1>4 DEF CmdTypes, CmdChildren, CmdNone
<1>6. CmdOneChild' /\ CmdSuccessIsReal' BY <1>2, <1>4 DEF CmdOneChild, CmdSuccessIsReal
<1>7. CmdCounted'
 <2>1. cmdTrail' # <<>> BY <1>3
 <2>2. ASSUME cmdOp.kind # "tests"
   PROVE
     /\ Len(cmdTrail) = cmdOp.at - 1 /\ Len(cmdTrail') = cmdOp.at
     /\ cmdOp.ok => \A i \in 1 .. cmdOp.at - 1 : CmdSucceeded(cmdTrail'[i])
  <3>1. Len(cmdTrail) = cmdOp.at - 1 /\ cmdOp.at \in Nat
    BY <1>1, <2>2 DEF CmdCounted, CmdOperations
  <3>2. cmdOp.ok => \A i \in 1 .. cmdOp.at - 1 : CmdSucceeded(cmdTrail[i])
    BY <1>1, <2>2 DEF CmdCounted
  <3>3. \A i \in 1 .. cmdOp.at - 1 : cmdTrail'[i] = cmdTrail[i] BY <1>3, <3>1
  <3>4. Len(cmdTrail') = cmdOp.at BY <1>3, <3>1
  <3> QED BY <3>1, <3>2, <3>3, <3>4
 <2> QED BY <1>1, <1>4, <2>1, <2>2 DEF CmdCounted
<1>8. CmdJustified' BY <1>3, <1>4 DEF CmdJustified
<1> QED BY <1>5, <1>6, <1>7, <1>8 DEF CmdInv

\* The child changes, or the signal of the caller.
LEMMA CmdChildStep ==
  ASSUME CmdInv, UNCHANGED <<cmdOp, cmdTrail>>, cmdAborted' \in BOOLEAN,
    \/ UNCHANGED cmdChild
    \/ /\ cmdOp.phase = "waits"
       /\ cmdChild' \in CmdChildren
       /\ cmdOp.kind = "runbook" => cmdChild'.stopped = cmdChild.stopped
       /\ cmdOp.kind = "git" => cmdChild'.late = cmdChild.late
  PROVE CmdInv'
<1>1. CmdTypes' /\ CmdOneChild' BY DEF CmdInv, CmdTypes, CmdOneChild
<1>2. (cmdOp'.phase # "idle" => CmdCounted' /\ CmdJustified') /\ CmdSuccessIsReal'
  BY DEF CmdInv, CmdCounted, CmdJustified, CmdSuccessIsReal
<1> QED BY <1>1, <1>2 DEF CmdInv

LEMMA CmdChildSteps ==
  ASSUME CmdInv, CmdExits \/ CmdLetsGo \/ CmdTimer \/ CmdForce \/ CmdAbort
  PROVE CmdInv'
<1>1. CmdOneChild /\ cmdChild \in CmdChildren /\ cmdAborted \in BOOLEAN BY DEF CmdInv, CmdTypes
<1>2. CASE CmdExits \/ CmdLetsGo
 <2>1. cmdOp.phase = "waits"
  <3>1. CmdNone.exit = "none" /\ CmdNone.held = FALSE BY DEF CmdNone
  <3>2. cmdChild.exit = "runs" \/ cmdChild.held BY <1>2 DEF CmdExits, CmdLetsGo
  <3> QED BY <1>1, <3>1, <3>2 DEF CmdOneChild
 <2>2. UNCHANGED <<cmdOp, cmdAborted, cmdTrail>> BY <1>2 DEF CmdExits, CmdLetsGo
 <2>3.
   /\ cmdChild' \in CmdChildren
   /\ cmdChild'.stopped = cmdChild.stopped /\ cmdChild'.late = cmdChild.late
   BY <1>1, <1>2 DEF CmdExits, CmdLetsGo, CmdChildren
 <2> QED BY <1>1, <2>1, <2>2, <2>3, CmdChildStep
<1>3. CASE CmdTimer
 <2>1. cmdOp.phase = "waits" /\ cmdOp.kind # "git" /\ UNCHANGED <<cmdOp, cmdAborted, cmdTrail>>
   BY <1>3 DEF CmdTimer, CmdTimed
 <2>2. cmdChild' \in CmdChildren /\ cmdChild'.stopped = cmdChild.stopped
   BY <1>1, <1>3 DEF CmdTimer, CmdChildren
 <2> QED BY <1>1, <2>1, <2>2, CmdChildStep
<1>4. CASE CmdForce
 <2>1. cmdOp.phase = "waits" /\ UNCHANGED <<cmdOp, cmdAborted, cmdTrail>> BY <1>4 DEF CmdForce
 <2>2.
   /\ cmdChild' \in CmdChildren
   /\ cmdChild'.stopped = cmdChild.stopped /\ cmdChild'.late = cmdChild.late
   BY <1>1, <1>4 DEF CmdForce, CmdChildren
 <2> QED BY <1>1, <2>1, <2>2, CmdChildStep
<1>5. CASE CmdAbort
 <2>1. UNCHANGED <<cmdOp, cmdTrail>> /\ cmdAborted' \in BOOLEAN BY <1>5 DEF CmdAbort
 <2>2.
   CASE /\ cmdOp.phase = "waits" /\ cmdOp.kind # "runbook"
        /\ CmdLeaves(cmdOp.kind) => cmdChild.exit = "runs"
  <3>1. cmdChild' \in CmdChildren /\ cmdChild'.late = cmdChild.late
    BY <1>1, <1>5 DEF CmdAbort, CmdChildren
  <3> QED BY <2>1, <2>2, <3>1, CmdChildStep
 <2>3.
   CASE ~ (/\ cmdOp.phase = "waits" /\ cmdOp.kind # "runbook"
           /\ CmdLeaves(cmdOp.kind) => cmdChild.exit = "runs")
  <3>1. UNCHANGED cmdChild BY <1>5, <2>3 DEF CmdAbort, CmdHears
  <3> QED BY <2>1, <3>1, CmdChildStep
 <2> QED BY <2>2, <2>3
<1> QED BY <1>2, <1>3, <1>4, <1>5

\* The operation is over without success.
LEMMA CmdGivesUp ==
  ASSUME CmdInv, cmdOp.phase # "idle", cmdOp.phase # "waits",
    cmdOp' = CmdFinished(FALSE), UNCHANGED <<cmdChild, cmdAborted, cmdTrail>>
  PROVE CmdInv'
<1>1.
  /\ cmdOp \in CmdOperations /\ cmdChild \in CmdChildren /\ cmdTrail \in Seq(CmdChildren)
  /\ cmdAborted \in BOOLEAN /\ CmdOneChild /\ CmdCounted
  BY CmdGoing
<1>2.
  /\ cmdOp' \in CmdOperations /\ cmdOp'.phase = "done" /\ cmdOp'.ok = FALSE
  /\ cmdOp'.kind = cmdOp.kind /\ cmdOp'.at = cmdOp.at /\ cmdOp'.count = cmdOp.count
  BY <1>1 DEF CmdFinished, CmdOperations
<1>3. CmdTypes' /\ CmdOneChild' BY <1>1, <1>2 DEF CmdTypes, CmdOneChild
<1>4. CmdCounted' /\ CmdJustified' /\ CmdSuccessIsReal'
  BY <1>1, <1>2 DEF CmdCounted, CmdJustified, CmdSuccessIsReal
<1> QED BY <1>3, <1>4 DEF CmdInv

LEMMA CmdNotStartedStep ==
  ASSUME CmdInv, CmdNotStarted
  PROVE CmdInv'
<1>1. cmdOp.phase = "next" /\ UNCHANGED cmdAborted BY DEF CmdNotStarted
<1>2. CASE \E verdict \in {"denied", "aborted", "failed"} : CmdJudged(verdict)
 <2>1. PICK verdict \in {"denied", "aborted", "failed"} : CmdJudged(verdict) BY <1>2
 <2> QED BY <1>1, <2>1, CmdJudgedStep
<1>3. CASE cmdOp' = CmdFinished(FALSE) /\ UNCHANGED <<cmdChild, cmdTrail>>
  BY <1>1, <1>3, CmdGivesUp
<1> QED BY <1>2, <1>3 DEF CmdNotStarted

LEMMA CmdSpawnStep ==
  ASSUME CmdInv, CmdSpawn
  PROVE CmdInv'
<1>1.
  /\ cmdOp \in CmdOperations /\ cmdTrail \in Seq(CmdChildren) /\ cmdAborted \in BOOLEAN
  /\ CmdCounted /\ cmdOp.phase = "next"
  BY CmdGoing DEF CmdSpawn
<1>2. /\ cmdOp' = [cmdOp EXCEPT !.phase = "waits"] /\ UNCHANGED <<cmdAborted, cmdTrail>>
  BY DEF CmdSpawn
<1>3.
  /\ cmdChild' \in CmdChildren /\ ~ cmdChild'.late
  /\ cmdOp.kind = "runbook" => ~ cmdChild'.stopped
  BY <1>1 DEF CmdSpawn, CmdHearsThePast, CmdNone, CmdChildren
<1>4.
  /\ cmdOp' \in CmdOperations /\ cmdOp'.phase = "waits" /\ cmdOp'.kind = cmdOp.kind
  /\ cmdOp'.at = cmdOp.at /\ cmdOp'.count = cmdOp.count /\ cmdOp'.ok = cmdOp.ok
  BY <1>1, <1>2 DEF CmdOperations
<1>5. CmdTypes' /\ CmdOneChild' BY <1>1, <1>2, <1>3, <1>4 DEF CmdTypes, CmdOneChild
<1>6. CmdCounted' /\ CmdJustified' /\ CmdSuccessIsReal'
  BY <1>1, <1>2, <1>4 DEF CmdCounted, CmdJustified, CmdSuccessIsReal
<1> QED BY <1>5, <1>6 DEF CmdInv

\* Only a child that exited with zero passes; where it is not looked at first whether it
\* was stopped or late, it was not stopped, or it is told that it was late.
LEMMA CmdClosedStep ==
  ASSUME CmdInv, CmdClosed
  PROVE CmdInv'
<1>1.
  /\ cmdOp.phase = "waits" /\ UNCHANGED cmdAborted
  /\ cmdOp \in CmdOperations /\ CmdOneChild /\ cmdChild \in CmdChildren
  BY CmdGoing DEF CmdClosed
<1>2. CASE CmdJudged("failed") BY <1>1, <1>2, CmdJudgedStep
<1>3.
  CASE /\ ~ (CmdLeaves(cmdOp.kind) /\ cmdChild.stopped)
       /\ CmdJudged(CmdVerdict(cmdOp.kind, cmdChild))
 <2>1. PICK verdict : verdict = CmdVerdict(cmdOp.kind, cmdChild) OBVIOUS
 <2>2. verdict \in {"passed", "failed", "aborted", "timeout", "denied"} BY <2>1 DEF CmdVerdict
 <2>3. ASSUME verdict = "passed"
   PROVE
     /\ cmdChild.exit = "zero" /\ ~ cmdChild.stopped
     /\ cmdOp.kind \in CmdSeveral => ~ cmdChild.late
  <3>1. cmdOp.kind \in CmdKinds BY <1>1 DEF CmdOperations
  <3>2. cmdOp.kind = "runbook" => ~ cmdChild.stopped BY <1>1 DEF CmdOneChild
  <3> QED BY <1>3, <2>1, <2>3, <3>1, <3>2 DEF CmdVerdict, CmdKinds, CmdLeaves, CmdSeveral
 <2>4.
   verdict = "passed" => /\ ~ cmdChild.late => CmdSucceeded(cmdChild)
                         /\ cmdOp.kind \in CmdSeveral => ~ cmdChild.late
   BY <2>3 DEF CmdSucceeded
 <2>5. CmdJudged(verdict) BY <1>3, <2>1
 <2> QED BY <1>1, <2>2, <2>4, <2>5, CmdJudgedStep
<1> QED BY <1>2, <1>3 DEF CmdClosed

LEMMA CmdNextCommandStep ==
  ASSUME CmdInv, CmdNextCommand
  PROVE CmdInv'
<1>1.
  /\ cmdOp \in CmdOperations /\ cmdTrail \in Seq(CmdChildren) /\ cmdAborted \in BOOLEAN
  /\ cmdChild \in CmdChildren
  /\ CmdOneChild /\ CmdCounted /\ CmdJustified /\ cmdOp.phase = "judged"
  /\ cmdOp.at < cmdOp.count
  BY CmdGoing DEF CmdNextCommand
<1>2. UNCHANGED <<cmdChild, cmdAborted, cmdTrail>> BY DEF CmdNextCommand
<1>3.
  /\ cmdOp' \in CmdOperations
  /\ cmdOp'.phase = (IF cmdOp.kind = "tests" THEN "fixing" ELSE "next")
  /\ cmdOp'.kind = cmdOp.kind /\ cmdOp'.at = cmdOp.at + 1 /\ cmdOp'.count = cmdOp.count
  /\ cmdOp'.ok = (cmdOp.ok /\ (cmdOp.verdict = "passed" \/ cmdOp.kind = "tests"))
 <2>1.
   PICK ok \in BOOLEAN :
     ok = (cmdOp.ok /\ (cmdOp.verdict = "passed" \/ cmdOp.kind = "tests"))
   OBVIOUS
 <2>2.
   cmdOp' = [cmdOp EXCEPT !.at = @ + 1,
                          !.phase = IF cmdOp.kind = "tests" THEN "fixing" ELSE "next",
                          !.ok = ok]
   BY <2>1 DEF CmdNextCommand
 <2>3. cmdOp.at + 1 \in Nat BY <1>1 DEF CmdOperations
 <2>4.
   /\ cmdOp' \in CmdOperations /\ cmdOp'.ok = ok
   /\ cmdOp'.phase = (IF cmdOp.kind = "tests" THEN "fixing" ELSE "next")
   /\ cmdOp'.kind = cmdOp.kind /\ cmdOp'.at = cmdOp.at + 1 /\ cmdOp'.count = cmdOp.count
   BY <1>1, <2>2, <2>3 DEF CmdOperations
 <2> QED BY <2>1, <2>4
<1>4. CmdTypes' /\ CmdOneChild' BY <1>1, <1>2, <1>3 DEF CmdTypes, CmdOneChild
<1>5. CmdCounted'
 <2>1. cmdOp.at \in Nat /\ cmdOp.count \in Nat /\ cmdOp.kind \in CmdSeveral
   BY <1>1 DEF CmdOperations, CmdCounted
 <2>2. ASSUME cmdOp.kind # "tests"
   PROVE
     /\ Len(cmdTrail) = cmdOp.at
     /\ cmdOp'.ok => \A i \in 1 .. cmdOp.at : CmdSucceeded(cmdTrail[i])
  <3>1. Len(cmdTrail) = cmdOp.at BY <1>1, <2>2 DEF CmdCounted
  <3>2. cmdOp.ok => \A i \in 1 .. cmdOp.at - 1 : CmdSucceeded(cmdTrail[i])
    BY <1>1, <2>2 DEF CmdCounted
  <3>3. cmdOp.verdict = "passed" => CmdSucceeded(cmdTrail[cmdOp.at])
    BY <1>1, <2>1, <3>1 DEF CmdJustified
  <3>4. cmdOp'.ok => cmdOp.ok /\ cmdOp.verdict = "passed" BY <1>1, <1>3, <2>2
  <3>5. 1 .. cmdOp.at = (1 .. cmdOp.at - 1) \cup {cmdOp.at} BY <1>1, <2>1 DEF CmdCounted
  <3> QED BY <3>1, <3>2, <3>3, <3>4, <3>5
 <2>3. cmdOp.at + 1 \in 1 .. cmdOp.count /\ (cmdOp.at + 1) - 1 = cmdOp.at
   BY <1>1, <2>1 DEF CmdCounted
 <2> QED BY <1>2, <1>3, <2>1, <2>2, <2>3 DEF CmdCounted
<1>6. CmdJustified' /\ CmdSuccessIsReal' BY <1>3 DEF CmdJustified, CmdSuccessIsReal
<1> QED BY <1>4, <1>5, <1>6 DEF CmdInv

LEMMA CmdEndsStep ==
  ASSUME CmdInv, CmdEnds
  PROVE CmdInv'
<1>1.
  /\ cmdOp \in CmdOperations /\ cmdTrail \in Seq(CmdChildren) /\ cmdAborted \in BOOLEAN
  /\ cmdChild \in CmdChildren
  /\ CmdOneChild /\ CmdCounted /\ CmdJustified /\ cmdOp.phase = "judged"
  /\ ~ (CmdGoesOn /\ cmdOp.at < cmdOp.count)
  BY CmdGoing DEF CmdEnds
<1>2. UNCHANGED <<cmdChild, cmdAborted, cmdTrail>> BY DEF CmdEnds
<1>3.
  /\ cmdOp' \in CmdOperations /\ cmdOp'.phase = "done"
  /\ cmdOp'.kind = cmdOp.kind /\ cmdOp'.at = cmdOp.at /\ cmdOp'.count = cmdOp.count
  /\ cmdOp'.late = cmdOp.late /\ cmdOp'.ok = (cmdOp.ok /\ cmdOp.verdict = "passed")
  BY <1>1 DEF CmdEnds, CmdFinished, CmdOperations
<1>4. CmdTypes' /\ CmdOneChild' BY <1>1, <1>2, <1>3 DEF CmdTypes, CmdOneChild
<1>5. CmdCounted' /\ CmdJustified' BY <1>1, <1>2, <1>3 DEF CmdCounted, CmdJustified
<1>6. CmdSuccessIsReal'
 <2> SUFFICES ASSUME cmdOp.ok, cmdOp.verdict = "passed", ~ cmdOp.late
   PROVE
     /\ cmdTrail # <<>>
     /\ IF cmdOp.kind = "tests"
        THEN CmdSucceeded(cmdTrail[Len(cmdTrail)])
        ELSE /\ Len(cmdTrail) = cmdOp.count
             /\ \A i \in DOMAIN cmdTrail : CmdSucceeded(cmdTrail[i])
   BY <1>1, <1>2, <1>3 DEF CmdSuccessIsReal
 <2>1. cmdTrail # <<>> /\ CmdSucceeded(cmdTrail[Len(cmdTrail)])
   BY <1>1 DEF CmdCounted, CmdJustified
 <2>2. ASSUME cmdOp.kind # "tests"
   PROVE
     /\ Len(cmdTrail) = cmdOp.count
     /\ \A i \in DOMAIN cmdTrail : CmdSucceeded(cmdTrail[i])
  <3>1.
    /\ Len(cmdTrail) = cmdOp.at /\ cmdOp.at \in 1 .. cmdOp.count
    /\ \A i \in 1 .. cmdOp.at - 1 : CmdSucceeded(cmdTrail[i])
    /\ cmdOp.kind \notin CmdSeveral => cmdOp.count = 1
    BY <1>1, <2>2 DEF CmdCounted
  <3>2. cmdOp.at \in Nat /\ cmdOp.count \in Nat /\ cmdOp.kind \in CmdKinds
    BY <1>1 DEF CmdOperations
  <3>3. cmdOp.kind \in {"runbook", "verify"} => CmdGoesOn BY DEF CmdGoesOn
  <3>4. cmdOp.at = cmdOp.count BY <1>1, <2>2, <3>1, <3>2, <3>3 DEF CmdSeveral, CmdKinds
  <3>5. DOMAIN cmdTrail = 1 .. cmdOp.at BY <1>1, <3>1, LenProperties
  <3>6. 1 .. cmdOp.at = (1 .. cmdOp.at - 1) \cup {cmdOp.at} BY <3>1, <3>2
  <3> QED BY <2>1, <3>1, <3>4, <3>5, <3>6
 <2> QED BY <2>1, <2>2
<1> QED BY <1>4, <1>5, <1>6 DEF CmdInv

LEMMA CmdFixStep ==
  ASSUME CmdInv, CmdFix
  PROVE CmdInv'
<1>1.
  /\ cmdOp \in CmdOperations /\ cmdTrail \in Seq(CmdChildren) /\ cmdAborted \in BOOLEAN
  /\ cmdChild \in CmdChildren /\ CmdOneChild /\ CmdCounted /\ cmdOp.phase = "fixing"
  BY CmdGoing DEF CmdFix
<1>2. UNCHANGED <<cmdChild, cmdAborted, cmdTrail>> BY DEF CmdFix
<1>3. CASE cmdOp' = [cmdOp EXCEPT !.phase = "next"]
 <2>1.
   /\ cmdOp' \in CmdOperations /\ cmdOp'.phase = "next"
   /\ cmdOp'.kind = cmdOp.kind /\ cmdOp'.at = cmdOp.at /\ cmdOp'.count = cmdOp.count
   BY <1>1, <1>3 DEF CmdOperations
 <2>2. cmdOp.kind = "tests" BY <1>1 DEF CmdCounted
 <2>3. CmdTypes' /\ CmdOneChild' BY <1>1, <1>2, <2>1 DEF CmdTypes, CmdOneChild
 <2>4. CmdCounted' /\ CmdJustified' /\ CmdSuccessIsReal'
   BY <1>1, <1>2, <2>1, <2>2 DEF CmdCounted, CmdJustified, CmdSuccessIsReal, CmdSeveral
 <2> QED BY <2>3, <2>4 DEF CmdInv
<1>4. CASE cmdOp' = CmdFinished(FALSE) BY <1>1, <1>2, <1>4, CmdGivesUp
<1> QED BY <1>3, <1>4 DEF CmdFix

\* The inductive invariant: the verdicts so far are those of the commands so far.
THEOREM CommandsInvariant == CmdSpec => []CmdInv
<1>1. CmdInv /\ [CmdNext]_cmdVars => CmdInv'
 <2> SUFFICES ASSUME CmdInv, [CmdNext]_cmdVars
   PROVE CmdInv'
   OBVIOUS
 <2>1. CASE UNCHANGED cmdVars
   BY <2>1 DEF cmdVars, CmdInv, CmdTypes, CmdOneChild, CmdCounted, CmdJustified,
     CmdSuccessIsReal
 <2>2. CASE CmdStart BY <2>2, CmdStartStep
 <2>3. CASE CmdNotStarted BY <2>3, CmdNotStartedStep
 <2>4. CASE CmdSpawn BY <2>4, CmdSpawnStep
 <2>5. CASE CmdExits \/ CmdLetsGo \/ CmdTimer \/ CmdForce \/ CmdAbort BY <2>5, CmdChildSteps
 <2>6. CASE CmdClosed BY <2>6, CmdClosedStep
 <2>7. CASE CmdNextCommand BY <2>7, CmdNextCommandStep
 <2>8. CASE CmdEnds BY <2>8, CmdEndsStep
 <2>9. CASE CmdFix BY <2>9, CmdFixStep
 <2> QED BY <2>1, <2>2, <2>3, <2>4, <2>5, <2>6, <2>7, <2>8, <2>9 DEF CmdNext
<1> QED BY CmdInitHolds, <1>1, PTL DEF CmdSpec

\* An operation that reports success and tells of no time-out ran commands that succeeded
\* by themselves, whatever timers, signals and left-over processes did meanwhile.
THEOREM CommandSuccessIsReal == CmdSpec => []CmdSuccessIsReal
<1>1. CmdInv => CmdSuccessIsReal BY DEF CmdInv
<1> QED BY CommandsInvariant, <1>1, PTL

--------------------
(* RemoteTasks *)

RemOutcomes == {"completed", "refused", "failed", "timeout", "aborted"}

RemRecords ==
  [at: {"waits", "ready", "sent", "sleeps", "done"}, attempt: 0 .. RemMaxRetries,
   endpoint: 0 .. RemEndpoints,
   status: {"none", "completed", "failed", "timeout", "aborted", "skipped"}]

RemTypes ==
  /\ remOp \in [kind: {"none", "batch", "pipeline"}, phase: {"idle", "next", "window", "done"},
                first: Nat \ {0}, aborted: BOOLEAN]
  /\ remTask \in Seq(RemRecords)
  /\ remLog \in Seq(Seq(RemOutcomes)) /\ Len(remLog) = Len(remTask)
  /\ remHealthy \in SUBSET RemAll /\ remTurn \in Nat

\* RemCutOff, of the record of a task.
RemCut(t, l) ==
  /\ remOp.kind = "pipeline" /\ remOp.aborted
  /\ (l # <<>> /\ l[Len(l)] = "aborted") \/ Len(l) = t.attempt

\* The record of a task fits what became of its requests.
RemFits(t, l) ==
  /\ t.at = "waits" => l = <<>> /\ t.attempt = 0
  /\ t.at \in {"ready", "sent", "sleeps"} => Len(l) = t.attempt
  /\ t.at = "sent" => t.endpoint \in RemAll
  /\ t.attempt > 0 => RemAll # {}
  /\ t.at = "done" <=> t.status # "none"
  /\ t.status = "completed" => l # <<>> /\ l[Len(l)] = "completed"
  /\ t.status = "aborted" => remOp.aborted /\ (remOp.kind = "pipeline" => l = <<>>)
  /\ t.status \in {"failed", "timeout"} =>
       \/ l = <<>> \/ (l # <<>> /\ l[Len(l)] = "refused") \/ Len(l) = RemMaxRetries + 1
       \/ RemCut(t, l)
  /\ t.status = "skipped" => remOp.kind = "pipeline" /\ l = <<>>

RemActive(i) == remTask[i].at \in {"ready", "sent", "sleeps"}

\* Before the window everything is done, after it nothing has begun.
RemInPlace ==
  /\ remOp.phase = "idle" => remTask = <<>> /\ remOp.first = 1
  /\ \A i \in RemTasks :
       /\ i < remOp.first => remTask[i].at = "done"
       /\ remOp.phase = "next" /\ i >= remOp.first => remTask[i].at = "waits"
       /\ remOp.phase = "window" /\ i >= remOp.first + RemWidth => remTask[i].at = "waits"
       /\ remOp.phase = "done" => remTask[i].at = "done"

\* A stage has requests only after stages that completed, and is skipped only after one
\* that did not.
RemStages ==
  /\ \A i \in RemTasks :
       /\ remOp.kind = "pipeline" /\ remLog[i] # <<>> =>
            \A j \in 1 .. i - 1 : remTask[j].status = "completed"
       /\ remTask[i].status = "skipped" => \E j \in 1 .. i - 1 : remTask[j].status # "completed"
  /\ remOp.kind = "pipeline" =>
       \A j \in RemTasks :
         /\ remOp.phase = "window" /\ j < remOp.first => remTask[j].status = "completed"
         /\ remOp.phase = "next" /\ j < remOp.first - 1 => remTask[j].status = "completed"

RemInv ==
  /\ RemTypes
  /\ \A i \in RemTasks : RemFits(remTask[i], remLog[i])
  /\ RemInPlace /\ RemStages

\* The number of turns is a positive one.
LEMMA RemCycleType == RemCycle \in Nat \ {0}
<1> DEFINE P == Nat \ {0}
  step == [n \in Nat |-> [v \in P |-> (n + 1) * v]]
  Is(p) == p = [n \in 0 .. RemEndpoints |-> IF n = 0 THEN 1 ELSE n * p[n - 1]]
  product == CHOOSE p : Is(p)
<1>0. RemEndpoints \in Nat BY RemAssumption
<1>1.
  /\ step \in [Nat -> [P -> P]]
  /\ \A n \in Nat : \A v \in P : (n + 1) * v \in P
 <2>1. ASSUME NEW n \in Nat, NEW v \in P
   PROVE (n + 1) * v \in P
  <3>1. (n + 1) * v = n * v + v /\ n * v \in Nat OBVIOUS
  <3> QED BY <3>1
 <2> QED BY <2>1
<1>2. PICK f : f \in [Nat -> P] /\ f[0] = 1 /\ \A n \in Nat : f[n + 1] = step[n][f[n]]
 <2>1. 1 \in P /\ step \in [Nat -> [P -> P]] BY <1>1
 <2> HIDE DEF step, P
 <2>2. PICK f : Recurs(f, P, 1, step) BY <2>1, Recursion
 <2> QED BY <2>2 DEF Recurs
<1>3. Is([n \in 0 .. RemEndpoints |-> f[n]])
 <2>1. ASSUME NEW n \in 0 .. RemEndpoints, n # 0
   PROVE n - 1 \in 0 .. RemEndpoints /\ f[n] = n * f[n - 1]
  <3>1. n - 1 \in Nat /\ (n - 1) + 1 = n /\ n - 1 \in 0 .. RemEndpoints BY <1>0, <2>1
  <3>2. f[n] = step[n - 1][f[n - 1]] /\ f[n - 1] \in P
   <4> HIDE DEF step
   <4> QED BY <1>2, <3>1
  <3>3. step[n - 1][f[n - 1]] = n * f[n - 1] BY <3>1, <3>2
  <3> QED BY <3>1, <3>2, <3>3
 <2> QED BY <1>2, <2>1
<1>4. Is(product) BY <1>3
<1>5. RemCycle = product[RemEndpoints] BY DEF RemCycle
<1> HIDE DEF product
<1> DEFINE A == {n \in Nat : n <= RemEndpoints => product[n] \in P}
<1>6. 0 \in A BY <1>4, RemAssumption
<1>7. ASSUME NEW n \in Nat, n \in A
  PROVE n + 1 \in A
 <2> SUFFICES ASSUME n + 1 <= RemEndpoints
   PROVE product[n + 1] \in P
   OBVIOUS
 <2>1. product[n] \in P BY <1>7, RemAssumption
 <2>2. product[n + 1] = (n + 1) * product[n]
  <3>1. n + 1 \in 0 .. RemEndpoints /\ n + 1 # 0 /\ (n + 1) - 1 = n BY <1>0
  <3> QED BY <1>4, <3>1
 <2>3. (n + 1) * product[n] \in P BY <1>1, <2>1
 <2> QED BY <2>2, <2>3
<1>8. RemEndpoints \in A
 <2> HIDE DEF A
 <2>1. Nat \subseteq A BY <1>6, <1>7, EveryNumber
 <2> QED BY <2>1, RemAssumption
<1> QED BY <1>5, <1>8, RemAssumption

\* The remainder picks one of the endpoints there are.
LEMMA RemNthMember ==
  ASSUME NEW S \in SUBSET RemAll, S # {}, NEW turn \in Nat
  PROVE RemNth(S, turn % Cardinality(S)) \in S
<1>1. IsFiniteSet(S) /\ Cardinality(S) \in Nat \ {0}
 <2>1. IsFiniteSet(RemAll) BY RemAssumption, FS_Interval DEF RemAll
 <2>2. IsFiniteSet(S) BY <2>1, FS_Subset
 <2> QED BY <2>2, FS_CardinalityType, FS_EmptySet
<1>2. turn % Cardinality(S) \in Nat /\ turn % Cardinality(S) < Cardinality(S)
 <2> DEFINE c == Cardinality(S)
 <2>1. c \in Nat \ {0} BY <1>1
 <2> HIDE DEF c
 <2>2. turn % c \in 0 .. c - 1 BY <2>1
 <2> QED BY <2>1, <2>2 DEF c
<1>3. S \in SUBSET (0 .. RemEndpoints) BY RemAssumption DEF RemAll
<1>4. \E e \in S : Cardinality({x \in S : x < e}) = turn % Cardinality(S)
 <2>1. RemEndpoints \in Nat BY RemAssumption
 <2>2. PICK k : k = turn % Cardinality(S) OBVIOUS
 <2>3. k \in Nat /\ k < Cardinality(S) BY <1>2, <2>2
 <2>4. \E e \in S : Cardinality({x \in S : x < e}) = k BY <1>3, <2>1, <2>3, NthMember
 <2> QED BY <2>2, <2>4
<1> QED BY <1>4 DEF RemNth

\* No endpoint is picked only in a first attempt.
LEMMA RemPickType ==
  ASSUME RemTypes, NEW attempt \in 0 .. RemMaxRetries, attempt > 0 => RemAll # {}
  PROVE
    /\ RemPick(attempt) \in RemAll \cup {0}
    /\ RemPick(attempt) = 0 => attempt = 0
<1>1. remHealthy \in SUBSET RemAll /\ remTurn \in Nat /\ 0 \notin RemAll BY DEF RemTypes, RemAll
<1>2. CASE remHealthy # {} BY <1>1, <1>2, RemNthMember DEF RemPick
<1>3. CASE remHealthy = {} /\ attempt > 0
 <2>1. RemAll # {} /\ Cardinality(RemAll) = RemEndpoints
  <3>1. RemEndpoints \in Nat /\ RemAll # {} BY <1>3, RemAssumption
  <3>2. Cardinality(1 .. RemEndpoints) = IF 1 > RemEndpoints THEN 0 ELSE RemEndpoints - 1 + 1
    BY <3>1, FS_Interval
  <3> QED BY <3>1, <3>2 DEF RemAll
 <2>2. RemNth(RemAll, remTurn % RemEndpoints) \in RemAll BY <1>1, <2>1, RemNthMember
 <2> QED BY <1>1, <1>3, <2>2 DEF RemPick
<1>4. CASE remHealthy = {} /\ ~ attempt > 0
 <2>1. attempt = 0 BY <1>4, RemAssumption
 <2> QED BY <1>4, <2>1 DEF RemPick
<1> QED BY <1>2, <1>3, <1>4

LEMMA RemInitHolds == RemInit => RemInv
<1> SUFFICES ASSUME RemInit
  PROVE RemInv
  OBVIOUS
<1>1.
  /\ remOp = [kind |-> "none", phase |-> "idle", first |-> 1, aborted |-> FALSE]
  /\ remTask = <<>> /\ remLog = <<>> /\ remHealthy = RemAll /\ remTurn = 0 /\ RemTasks = {}
  BY DEF RemInit, RemTasks
<1>2. RemTypes
 <2>1. <<>> \in Seq(RemRecords) /\ <<>> \in Seq(Seq(RemOutcomes)) BY EmptySeq
 <2> QED BY <1>1, <2>1 DEF RemTypes
<1>3. RemInPlace /\ RemStages BY <1>1 DEF RemInPlace, RemStages
<1> QED BY <1>1, <1>2, <1>3 DEF RemInv

\* What the types say of one task.
LEMMA RemTyped ==
  ASSUME RemTypes
  PROVE
    /\ Len(remTask) \in Nat /\ RemTasks = 1 .. Len(remTask) /\ DOMAIN remLog = RemTasks
    /\ \A i \in RemTasks : remTask[i] \in RemRecords /\ remLog[i] \in Seq(RemOutcomes)
BY Indices DEF RemTypes, RemTasks

\* The width of a window.
LEMMA RemWidthType == RemWidth \in Nat \ {0} /\ (remOp.kind = "pipeline" => RemWidth = 1)
BY RemAssumption DEF RemWidth

\* A task under way is in the window, and may become anything that fits its requests.
LEMMA RemTaskStep ==
  ASSUME RemInv, NEW i \in RemTasks, RemActive(i), NEW r \in RemRecords,
    NEW l \in Seq(RemOutcomes),
    r.at # "waits", r.status # "skipped", l # <<>> \/ l = remLog[i], RemFits(r, l),
    remTask' = [remTask EXCEPT ![i] = r], remLog' = [remLog EXCEPT ![i] = l],
    remHealthy' \in SUBSET RemAll, remTurn' \in Nat, UNCHANGED remOp
  PROVE RemInv'
<1>1. RemTypes /\ RemInPlace /\ RemStages /\ \A k \in RemTasks : RemFits(remTask[k], remLog[k])
  BY DEF RemInv
<1>2.
  /\ Len(remTask) \in Nat /\ RemTasks = 1 .. Len(remTask) /\ DOMAIN remLog = RemTasks
  /\ \A k \in RemTasks : remTask[k] \in RemRecords /\ remLog[k] \in Seq(RemOutcomes)
  BY <1>1, RemTyped
<1>3.
  /\ remTask' \in [1 .. Len(remTask) -> RemRecords]
  /\ remLog' \in [1 .. Len(remTask) -> Seq(RemOutcomes)]
 <2>1.
   /\ remTask \in [1 .. Len(remTask) -> RemRecords]
   /\ remLog \in [1 .. Len(remTask) -> Seq(RemOutcomes)]
   BY <1>1, <1>2, Indices DEF RemTypes
 <2> QED BY <1>2, <2>1
<1>4. RemTypes' /\ RemTasks' = RemTasks
 <2>1.
   /\ remTask' \in Seq(RemRecords) /\ remLog' \in Seq(Seq(RemOutcomes))
   /\ Len(remTask') = Len(remTask) /\ Len(remLog') = Len(remTask)
   /\ DOMAIN remTask' = 1 .. Len(remTask)
   BY <1>2, <1>3, FromFunction
 <2> QED BY <1>1, <1>2, <2>1 DEF RemTypes, RemTasks
<1>5.
  /\ remTask'[i] = r /\ remLog'[i] = l
  /\ \A k \in RemTasks : k # i => remTask'[k] = remTask[k] /\ remLog'[k] = remLog[k]
 <2>1. remTask \in [1 .. Len(remTask) -> RemRecords] BY <1>1, <1>2, Indices DEF RemTypes
 <2> QED BY <1>2, <2>1 DEF RemTasks
<1>6. \A k \in RemTasks' : RemFits(remTask[k], remLog[k])'
  BY <1>1, <1>4, <1>5 DEF RemFits, RemCut
<1>7.
  /\ remOp.phase = "window" /\ remOp.first <= i /\ i < remOp.first + RemWidth
  /\ remOp.first \in Nat /\ remTask[i].status = "none"
 <2>1. remTask[i].at # "done" /\ remTask[i].at # "waits" /\ remTask[i].status = "none"
   BY <1>1 DEF RemActive, RemFits
 <2>2. remOp.first \in Nat /\ remOp.phase \in {"idle", "next", "window", "done"} /\ i \in Nat
   BY <1>1, <1>2 DEF RemTypes
 <2>3. remOp.phase # "idle" BY <1>1 DEF RemInPlace, RemTasks
 <2> QED BY <1>1, <2>1, <2>2, <2>3, RemWidthType DEF RemInPlace
<1>8. RemInPlace'
 <2>1. RemWidth' = RemWidth BY DEF RemWidth
 <2>2. remOp'.phase = "window" /\ remOp' = remOp BY <1>7
 <2>3. ~ (i < remOp.first) /\ ~ (i >= remOp.first + RemWidth) BY <1>2, <1>7, RemWidthType
 <2> QED BY <1>1, <1>2, <1>4, <1>5, <1>7, <2>1, <2>2, <2>3 DEF RemInPlace
<1>9. RemStages'
 <2>1. ASSUME NEW k \in RemTasks, remOp.kind = "pipeline", remLog'[k] # <<>>,
     NEW j \in 1 .. k - 1
   PROVE remTask'[j].status = "completed"
  <3>1. j \in RemTasks /\ j < k BY <1>2
  <3>2. CASE k = i
   <4>1. j < remOp.first BY <1>7, <2>1, <3>1, <3>2, RemWidthType
   <4> QED BY <1>1, <1>5, <1>7, <2>1, <3>1, <3>2, <4>1 DEF RemStages
  <3>3. CASE k # i
   <4>1. remTask[j].status = "completed" BY <1>1, <1>5, <2>1, <3>3 DEF RemStages
   <4>2. j # i BY <1>7, <4>1
   <4> QED BY <1>5, <3>1, <4>1, <4>2
  <3> QED BY <3>2, <3>3
 <2>2. ASSUME NEW k \in RemTasks, remTask'[k].status = "skipped"
   PROVE \E j \in 1 .. k - 1 : remTask'[j].status # "completed"
  <3>1. k # i /\ remTask[k].status = "skipped" BY <1>5, <2>2
  <3>2. k \in RemTasks /\ remTask[k].at = "done" BY <1>1, <3>1 DEF RemFits
  <3>3. k < remOp.first
   <4>1. RemWidth = 1 /\ k \in Nat /\ i \in Nat BY <1>1, <1>2, <3>1, RemWidthType DEF RemFits
   <4>2. ~ (k >= remOp.first + RemWidth) BY <1>1, <1>7, <3>2 DEF RemInPlace
   <4> QED BY <1>7, <3>1, <4>1, <4>2
  <3>4. PICK j \in 1 .. k - 1 : remTask[j].status # "completed" BY <1>1, <3>1 DEF RemStages
  <3>5. j # i /\ j \in RemTasks BY <1>2, <1>7, <3>3
  <3> QED BY <1>5, <3>4, <3>5
 <2>3. ASSUME remOp.kind = "pipeline", NEW j \in RemTasks, j < remOp.first
   PROVE remTask'[j].status = "completed"
  <3>1. j # i BY <1>2, <1>7, <2>3
  <3> QED BY <1>1, <1>5, <1>7, <2>3, <3>1 DEF RemStages
 <2> QED BY <1>4, <1>7, <2>1, <2>2, <2>3 DEF RemStages
<1> QED BY <1>4, <1>6, <1>8, <1>9 DEF RemInv

LEMMA RemTryStep ==
  ASSUME RemInv, NEW i \in RemTasks, RemTry(i)
  PROVE RemInv'
<1>1.
  /\ RemTypes /\ RemFits(remTask[i], remLog[i])
  /\ remTask[i] \in RemRecords /\ remLog[i] \in Seq(RemOutcomes)
  /\ remTask[i].at = "ready" /\ RemActive(i)
  BY RemTyped DEF RemInv, RemTry, RemActive
<1>2.
  /\ remLog' = [remLog EXCEPT ![i] = remLog[i]]
  /\ remHealthy' \in SUBSET RemAll /\ UNCHANGED remOp
 <2>1. remLog \in [DOMAIN remLog -> Seq(RemOutcomes)] BY <1>1, Indices DEF RemTypes
 <2> QED BY <1>1, <2>1 DEF RemTry, RemTypes
<1>3. CASE remOp.aborted
 <2> DEFINE r == RemReturn(i, "aborted")
 <2>1. remTask' = [remTask EXCEPT ![i] = r] /\ remTurn' \in Nat
   BY <1>1, <1>3 DEF RemTry, RemTypes
 <2>2.
   /\ r \in RemRecords /\ r.at = "done" /\ r.attempt = remTask[i].attempt
   /\ r.status = IF remOp.kind = "pipeline" THEN "failed" ELSE "aborted"
   BY <1>1 DEF RemReturn, RemResult, RemRecords
 <2>3. RemFits(r, remLog[i]) BY <1>1, <1>3, <2>2 DEF RemFits, RemCut
 <2> HIDE DEF r
 <2> QED BY <1>1, <1>2, <2>1, <2>2, <2>3, RemTaskStep
<1>4. CASE ~ remOp.aborted
 <2>1. PICK e : e = RemPick(remTask[i].attempt) OBVIOUS
 <2>2. e \in RemAll \cup {0} /\ (e = 0 => remTask[i].attempt = 0)
  <3>1. remTask[i].attempt \in 0 .. RemMaxRetries BY <1>1 DEF RemRecords
  <3> QED BY <1>1, <2>1, <3>1, RemPickType DEF RemFits
 <2>3. remTurn' \in Nat
  <3>1. remTurn' = (remTurn + 1) % RemCycle /\ remTurn \in Nat
    BY <1>1, <1>4 DEF RemTry, RemTypes
  <3>2. PICK c \in Nat \ {0} : c = RemCycle BY RemCycleType
  <3>3. (remTurn + 1) % c \in 0 .. c - 1 BY <3>1, <3>2
  <3> QED BY <3>1, <3>2, <3>3
 <2>4. CASE e = 0
  <3> DEFINE r == RemReturn(i, "failed")
  <3>1. remTask' = [remTask EXCEPT ![i] = r] BY <1>1, <1>4, <2>1, <2>4 DEF RemTry
  <3>2. /\ r \in RemRecords /\ r.at = "done" /\ r.status = "failed"
        /\ r.attempt = remTask[i].attempt
    BY <1>1 DEF RemReturn, RemResult, RemRecords
  <3>3. remLog[i] = <<>> BY <1>1, <2>2, <2>4, EmptySeq DEF RemFits
  <3>4. RemFits(r, remLog[i]) BY <1>1, <3>2, <3>3 DEF RemFits
  <3> HIDE DEF r
  <3> QED BY <1>1, <1>2, <2>3, <3>1, <3>2, <3>4, RemTaskStep
 <2>5. CASE e # 0
  <3> DEFINE r == [remTask[i] EXCEPT !.at = "sent", !.endpoint = e]
  <3>1. remTask' = [remTask EXCEPT ![i] = r] BY <1>1, <1>4, <2>1, <2>5 DEF RemTry
  <3>2. /\ r \in RemRecords /\ r.at = "sent" /\ r.status = remTask[i].status
        /\ r.attempt = remTask[i].attempt /\ r.endpoint = e
   <4>1. e \in 0 .. RemEndpoints
    <5>1. RemEndpoints \in Nat BY RemAssumption
    <5> QED BY <2>2, <2>5, <5>1 DEF RemAll
   <4> QED BY <1>1, <4>1 DEF RemRecords
  <3>3. RemFits(r, remLog[i]) /\ r.status = "none" BY <1>1, <2>2, <2>5, <3>2 DEF RemFits
  <3> HIDE DEF r
  <3> QED BY <1>1, <1>2, <2>3, <3>1, <3>2, <3>3, RemTaskStep
 <2> QED BY <2>4, <2>5
<1> QED BY <1>3, <1>4

LEMMA RemAnswerStep ==
  ASSUME RemInv, NEW i \in RemTasks, RemAnswer(i)
  PROVE RemInv'
<1>1.
  /\ RemTypes /\ RemFits(remTask[i], remLog[i])
  /\ remTask[i] \in RemRecords /\ remLog[i] \in Seq(RemOutcomes)
  /\ remTask[i].at = "sent" /\ RemActive(i) /\ DOMAIN remLog = RemTasks
  BY RemTyped DEF RemInv, RemAnswer, RemActive
<1>2.
  PICK outcome \in RemOutcomes :
    /\ outcome = "aborted" => remOp.aborted
    /\ remLog' = [remLog EXCEPT ![i] = Append(@, outcome)]
    /\ \/ /\ outcome \in {"completed", "aborted"}
          /\ remTask' = [remTask EXCEPT ![i] = RemReturn(i, outcome)]
          /\ UNCHANGED remHealthy
       \/ /\ outcome \notin {"completed", "aborted"}
          /\ remHealthy' = remHealthy \ {remTask[i].endpoint}
          /\ remTask' = [remTask EXCEPT ![i] =
               IF RemRetries(i, outcome)
               THEN [remTask[i] EXCEPT !.at = "sleeps", !.attempt = @ + 1]
               ELSE RemReturn(i, IF outcome = "timeout" THEN "timeout" ELSE "failed")]
  BY DEF RemAnswer, RemOutcomes
<1> DEFINE l == Append(remLog[i], outcome)
<1>3.
  /\ l \in Seq(RemOutcomes) /\ Len(l) = Len(remLog[i]) + 1 /\ l[Len(l)] = outcome
  /\ l # <<>> /\ Len(remLog[i]) = remTask[i].attempt
 <2>1.
   /\ l \in Seq(RemOutcomes) /\ Len(l) = Len(remLog[i]) + 1
   /\ l[Len(remLog[i]) + 1] = outcome /\ l # <<>>
   BY <1>1, AppendProperties
 <2> QED BY <1>1, <2>1 DEF RemFits
<1>4.
  /\ remLog' = [remLog EXCEPT ![i] = l] /\ remHealthy' \in SUBSET RemAll
  /\ remTurn' \in Nat /\ UNCHANGED remOp
  BY <1>1, <1>2 DEF RemAnswer, RemTypes
<1> HIDE DEF l
<1>5. CASE outcome \in {"completed", "aborted"}
 <2> DEFINE r == RemReturn(i, outcome)
 <2>1.
   /\ r \in RemRecords /\ r.at = "done" /\ r.attempt = remTask[i].attempt
   /\ r.status = IF remOp.kind = "pipeline" /\ outcome # "completed" THEN "failed" ELSE outcome
   BY <1>1, <1>5 DEF RemReturn, RemResult, RemRecords
 <2>2. RemFits(r, l) BY <1>1, <1>2, <1>3, <1>5, <2>1 DEF RemFits, RemCut
 <2>3. remTask' = [remTask EXCEPT ![i] = r] BY <1>2, <1>5
 <2> HIDE DEF r
 <2> QED BY <1>1, <1>3, <1>4, <1>5, <2>1, <2>2, <2>3, RemTaskStep
<1>6. CASE outcome \notin {"completed", "aborted"} /\ RemRetries(i, outcome)
 <2> DEFINE r == [remTask[i] EXCEPT !.at = "sleeps", !.attempt = @ + 1]
 <2>1. remTask[i].attempt + 1 \in 0 .. RemMaxRetries
  <3>1. RemMaxRetries \in Nat /\ remTask[i].attempt \in 0 .. RemMaxRetries
    BY <1>1, RemAssumption DEF RemRecords
  <3> QED BY <1>6, <3>1 DEF RemRetries
 <2>2.
   /\ r \in RemRecords /\ r.at = "sleeps" /\ r.status = remTask[i].status
   /\ r.attempt = remTask[i].attempt + 1
   BY <1>1, <2>1 DEF RemRecords
 <2>3. r.status = "none" /\ RemAll # {} BY <1>1, <2>2 DEF RemFits
 <2>4. RemFits(r, l) BY <1>3, <2>2, <2>3 DEF RemFits
 <2>5. remTask' = [remTask EXCEPT ![i] = r] BY <1>2, <1>6
 <2> HIDE DEF r
 <2> QED BY <1>1, <1>3, <1>4, <2>2, <2>3, <2>4, <2>5, RemTaskStep
<1>7. CASE outcome \notin {"completed", "aborted"} /\ ~ RemRetries(i, outcome)
 <2>1.
   PICK status \in {"timeout", "failed"} :
     status = IF outcome = "timeout" THEN "timeout" ELSE "failed"
   OBVIOUS
 <2> DEFINE r == RemReturn(i, status)
 <2>2.
   /\ r \in RemRecords /\ r.at = "done" /\ r.status \in {"timeout", "failed"}
   /\ r.attempt = remTask[i].attempt
   BY <1>1, <2>1 DEF RemReturn, RemResult, RemRecords
 <2>3. Len(l) = RemMaxRetries + 1 \/ l[Len(l)] = "refused"
  <3>1. RemMaxRetries \in Nat /\ remTask[i].attempt \in 0 .. RemMaxRetries
    BY <1>1, RemAssumption DEF RemRecords
  <3> QED BY <1>3, <1>7, <3>1 DEF RemRetries
 <2>4. RemFits(r, l) BY <1>1, <1>3, <2>2, <2>3 DEF RemFits
 <2>5. remTask' = [remTask EXCEPT ![i] = r] BY <1>2, <1>7, <2>1
 <2> HIDE DEF r
 <2> QED BY <1>1, <1>3, <1>4, <2>1, <2>2, <2>4, <2>5, RemTaskStep
<1> QED BY <1>5, <1>6, <1>7

LEMMA RemWakeStep ==
  ASSUME RemInv, NEW i \in RemTasks, RemWake(i)
  PROVE RemInv'
<1>1.
  /\ RemTypes /\ RemFits(remTask[i], remLog[i])
  /\ remTask[i] \in RemRecords /\ remLog[i] \in Seq(RemOutcomes)
  /\ remTask[i].at = "sleeps" /\ RemActive(i)
  BY RemTyped DEF RemInv, RemWake, RemActive
<1>2.
  /\ remLog' = [remLog EXCEPT ![i] = remLog[i]]
  /\ remHealthy' \in SUBSET RemAll /\ remTurn' \in Nat /\ UNCHANGED remOp
 <2>1. remLog \in [DOMAIN remLog -> Seq(RemOutcomes)] BY <1>1, Indices DEF RemTypes
 <2> QED BY <1>1, <2>1 DEF RemWake, RemTypes
<1> DEFINE r == [remTask[i] EXCEPT !.at = "ready"]
<1>3.
  /\ r \in RemRecords /\ r.at = "ready" /\ r.status = remTask[i].status
  /\ r.attempt = remTask[i].attempt
  BY <1>1 DEF RemRecords
<1>4. RemFits(r, remLog[i]) /\ r.status = "none" BY <1>1, <1>3 DEF RemFits
<1>5. remTask' = [remTask EXCEPT ![i] = r] BY DEF RemWake
<1> HIDE DEF r
<1> QED BY <1>1, <1>2, <1>3, <1>4, <1>5, RemTaskStep

LEMMA RemBeginStep ==
  ASSUME RemInv, RemBegin
  PROVE RemInv'
<1>1. RemTypes /\ remOp.phase = "idle" /\ remOp.first = 1 BY DEF RemInv, RemInPlace, RemBegin
<1>2.
  PICK kind \in {"batch", "pipeline"}, n \in 1 .. RemMaxTasks :
    /\ remOp' = [remOp EXCEPT !.kind = kind, !.phase = "next"]
    /\ remTask' = [i \in 1 .. n |-> RemUntried] /\ remLog' = [i \in 1 .. n |-> <<>>]
  BY DEF RemBegin
<1>3. n \in Nat /\ RemMaxRetries \in Nat /\ RemEndpoints \in Nat
 <2>1. RemMaxTasks \in Nat /\ RemMaxRetries \in Nat /\ RemEndpoints \in Nat BY RemAssumption
 <2> QED BY <2>1
<1>4. RemUntried \in RemRecords /\ <<>> \in Seq(RemOutcomes)
  BY <1>3, EmptySeq DEF RemUntried, RemRecords
<1>5.
  /\ remTask' \in Seq(RemRecords) /\ remLog' \in Seq(Seq(RemOutcomes))
  /\ Len(remTask') = n /\ Len(remLog') = n /\ RemTasks' = 1 .. n
 <2>1. remTask' \in [1 .. n -> RemRecords] /\ remLog' \in [1 .. n -> Seq(RemOutcomes)]
   BY <1>2, <1>4
 <2> QED BY <1>3, <2>1, FromFunction DEF RemTasks
<1>6.
  /\ remOp' \in [kind: {"none", "batch", "pipeline"}, phase: {"idle", "next", "window", "done"},
                 first: Nat \ {0}, aborted: BOOLEAN]
  /\ remOp'.phase = "next" /\ remOp'.first = 1
  BY <1>1, <1>2 DEF RemTypes
<1>7. RemTypes' BY <1>1, <1>5, <1>6 DEF RemTypes, RemBegin
<1>8. \A i \in RemTasks' : remTask'[i] = RemUntried /\ remLog'[i] = <<>> BY <1>2, <1>5
<1>9. \A i \in RemTasks' : RemFits(remTask[i], remLog[i])' BY <1>8 DEF RemFits, RemUntried
<1>10. RemInPlace' /\ RemStages'
 <2>1. RemUntried.at = "waits" /\ RemUntried.status = "none" BY DEF RemUntried
 <2>2. \A i \in RemTasks' : ~ (i < remOp'.first) /\ ~ (i < remOp'.first - 1) BY <1>5, <1>6
 <2> QED BY <1>6, <1>8, <2>1, <2>2 DEF RemInPlace, RemStages
<1> QED BY <1>7, <1>9, <1>10 DEF RemInv

\* The tasks after a change of some of them that wait.
LEMMA RemTasksChanged ==
  ASSUME RemTypes, UNCHANGED <<remHealthy, remTurn, remLog>>,
    remTask' \in [RemTasks -> RemRecords],
    remOp' \in [kind: {"none", "batch", "pipeline"}, phase: {"idle", "next", "window", "done"},
                first: Nat \ {0}, aborted: BOOLEAN]
  PROVE RemTypes' /\ RemTasks' = RemTasks
<1>1. Len(remTask) \in Nat /\ RemTasks = 1 .. Len(remTask) BY RemTyped
<1>2. remTask' \in Seq(RemRecords) /\ Len(remTask') = Len(remTask) /\ RemTasks' = RemTasks
  BY <1>1, FromFunction DEF RemTasks
<1> QED BY <1>2 DEF RemTypes

\* Nothing is left that waits: the batch is over.
LEMMA RemOverStep ==
  ASSUME RemInv, remOp.phase = "next",
    remOp' = [remOp EXCEPT !.phase = "done"], UNCHANGED <<remHealthy, remTurn, remLog>>,
    \/ remOp.first > Len(remTask) /\ UNCHANGED remTask
    \/ /\ remOp.aborted \/ RemStopped
       /\ remOp.first <= Len(remTask)
       /\ remTask' = RemRest(IF remOp.aborted THEN "aborted" ELSE "skipped")
  PROVE RemInv'
<1>1.
  /\ RemTypes /\ RemInPlace /\ RemStages
  /\ \A i \in RemTasks : RemFits(remTask[i], remLog[i])
  BY DEF RemInv
<1>2.
  /\ Len(remTask) \in Nat /\ RemTasks = 1 .. Len(remTask) /\ DOMAIN remLog = RemTasks
  /\ \A i \in RemTasks : remTask[i] \in RemRecords /\ remLog[i] \in Seq(RemOutcomes)
  BY <1>1, RemTyped
<1>3.
  /\ remOp' \in [kind: {"none", "batch", "pipeline"}, phase: {"idle", "next", "window", "done"},
                 first: Nat \ {0}, aborted: BOOLEAN]
  /\ remOp'.phase = "done" /\ remOp'.kind = remOp.kind /\ remOp'.first = remOp.first
  /\ remOp'.aborted = remOp.aborted /\ remOp.first \in Nat \ {0}
  BY <1>1 DEF RemTypes
<1>4. CASE remOp.first > Len(remTask) /\ UNCHANGED remTask
 <2>1. RemTypes' /\ RemTasks' = RemTasks BY <1>1, <1>3, <1>4 DEF RemTypes, RemTasks
 <2>2. \A i \in RemTasks : i < remOp.first BY <1>2, <1>3, <1>4
 <2>3. \A i \in RemTasks' : RemFits(remTask[i], remLog[i])'
   BY <1>1, <1>3, <1>4, <2>1 DEF RemFits, RemCut
 <2>4. RemInPlace' BY <1>1, <1>3, <1>4, <2>1, <2>2 DEF RemInPlace
 <2>5. RemStages' BY <1>1, <1>3, <1>4, <2>1 DEF RemStages
 <2> QED BY <2>1, <2>3, <2>4, <2>5 DEF RemInv
<1>5.
  CASE /\ remOp.aborted \/ RemStopped
       /\ remOp.first <= Len(remTask)
       /\ remTask' = RemRest(IF remOp.aborted THEN "aborted" ELSE "skipped")
 <2>1.
   PICK status \in {"aborted", "skipped"} :
     status = IF remOp.aborted THEN "aborted" ELSE "skipped"
   OBVIOUS
 <2>2. remTask' = [i \in RemTasks |-> IF i >= remOp.first THEN RemResult(i, status) ELSE remTask[i]]
   BY <1>5, <2>1 DEF RemRest
 <2>3.
   \A i \in RemTasks : /\ RemResult(i, status) \in RemRecords
                       /\ RemResult(i, status).at = "done"
                       /\ RemResult(i, status).status = status
                       /\ RemResult(i, status).attempt = remTask[i].attempt
   BY <1>2, <2>1 DEF RemResult, RemRecords
 <2>4. RemTypes' /\ RemTasks' = RemTasks
  <3>1. remTask' \in [RemTasks -> RemRecords] BY <1>2, <2>2, <2>3
  <3> QED BY <1>1, <1>3, <3>1, RemTasksChanged
 <2>5.
   \A i \in RemTasks : /\ i >= remOp.first => remTask'[i] = RemResult(i, status)
                       /\ ~ (i >= remOp.first) => remTask'[i] = remTask[i]
   BY <2>2
 <2>6. ASSUME NEW i \in RemTasks, i >= remOp.first
   PROVE
     /\ remTask'[i].at = "done" /\ remTask'[i].status = status
     /\ remTask'[i].attempt = 0 /\ remLog[i] = <<>>
  <3>1. remTask[i].at = "waits" BY <1>1, <2>6 DEF RemInPlace
  <3>2. remLog[i] = <<>> /\ remTask[i].attempt = 0 BY <1>1, <3>1 DEF RemFits
  <3> QED BY <2>3, <2>5, <2>6, <3>2
 <2>7.
   status = "skipped" => /\ remOp.kind = "pipeline" /\ remOp.first > 1
                         /\ remTask[remOp.first - 1].status # "completed"
   BY <1>5, <2>1 DEF RemStopped
 <2>8. ASSUME NEW i \in RemTasks
   PROVE RemFits(remTask[i], remLog[i])'
  <3>1. CASE i >= remOp.first
   <4>1. status = "aborted" => remOp'.aborted BY <1>3, <2>1
   <4>2. status = "skipped" => remOp'.kind = "pipeline" BY <1>3, <2>7
   <4> QED BY <2>1, <2>6, <3>1, <4>1, <4>2 DEF RemFits
  <3>2. CASE ~ (i >= remOp.first) BY <1>1, <1>3, <2>5, <3>2 DEF RemFits, RemCut
  <3> QED BY <3>1, <3>2
 <2>9. RemInPlace'
  <3>1. ASSUME NEW i \in RemTasks
    PROVE remTask'[i].at = "done"
   <4>1. CASE i >= remOp.first BY <2>6, <4>1
   <4>2. CASE ~ (i >= remOp.first)
    <5>1. i < remOp.first BY <1>2, <1>3, <4>2
    <5> QED BY <1>1, <2>5, <4>2, <5>1 DEF RemInPlace
   <4> QED BY <4>1, <4>2
  <3> QED BY <1>3, <2>4, <3>1 DEF RemInPlace
 <2>10. RemStages'
  <3>1. ASSUME NEW i \in RemTasks, remOp.kind = "pipeline", remLog[i] # <<>>,
      NEW j \in 1 .. i - 1
    PROVE remTask'[j].status = "completed"
   <4>1. i < remOp.first BY <1>2, <1>3, <2>6, <3>1
   <4>2. j \in RemTasks /\ ~ (j >= remOp.first) BY <1>2, <1>3, <4>1
   <4> QED BY <1>1, <2>5, <3>1, <4>2 DEF RemStages
  <3>2. ASSUME NEW i \in RemTasks, remTask'[i].status = "skipped"
    PROVE \E j \in 1 .. i - 1 : remTask'[j].status # "completed"
   <4>1. CASE i >= remOp.first
    <5>1. status = "skipped" BY <2>6, <3>2, <4>1
    <5>2. /\ remOp.first - 1 \in 1 .. i - 1 /\ remOp.first - 1 \in RemTasks
          /\ ~ (remOp.first - 1 >= remOp.first)
      BY <1>2, <1>3, <2>7, <4>1, <5>1
    <5> QED BY <2>5, <2>7, <5>1, <5>2
   <4>2. CASE ~ (i >= remOp.first)
    <5>1. PICK j \in 1 .. i - 1 : remTask[j].status # "completed"
      BY <1>1, <2>5, <3>2, <4>2 DEF RemStages
    <5>2. j \in RemTasks /\ ~ (j >= remOp.first) BY <1>2, <1>3, <4>2
    <5> QED BY <2>5, <5>1, <5>2
   <4> QED BY <4>1, <4>2
  <3> QED BY <1>3, <2>4, <3>1, <3>2 DEF RemStages
 <2> QED BY <2>4, <2>8, <2>9, <2>10 DEF RemInv
<1> QED BY <1>4, <1>5

\* The next window begins; in a pipeline only after stages that completed.
LEMMA RemWindowStep ==
  ASSUME RemInv, remOp.phase = "next", ~ RemStopped,
    remOp' = [remOp EXCEPT !.phase = "window"], UNCHANGED <<remHealthy, remTurn, remLog>>,
    remTask' = [i \in RemTasks |->
                  IF i \in RemWindow THEN [remTask[i] EXCEPT !.at = "ready"] ELSE remTask[i]]
  PROVE RemInv'
<1>1.
  /\ RemTypes /\ RemInPlace /\ RemStages
  /\ \A i \in RemTasks : RemFits(remTask[i], remLog[i])
  BY DEF RemInv
<1>2.
  /\ Len(remTask) \in Nat /\ RemTasks = 1 .. Len(remTask)
  /\ \A i \in RemTasks : remTask[i] \in RemRecords /\ remLog[i] \in Seq(RemOutcomes)
  BY <1>1, RemTyped
<1>3.
  /\ remOp' \in [kind: {"none", "batch", "pipeline"}, phase: {"idle", "next", "window", "done"},
                 first: Nat \ {0}, aborted: BOOLEAN]
  /\ remOp'.phase = "window" /\ remOp'.kind = remOp.kind /\ remOp'.first = remOp.first
  /\ remOp'.aborted = remOp.aborted /\ remOp.first \in Nat \ {0} /\ RemWidth' = RemWidth
  BY <1>1 DEF RemTypes, RemWidth
<1>4. ASSUME NEW i \in RemTasks
  PROVE
    /\ [remTask[i] EXCEPT !.at = "ready"] \in RemRecords
    /\ [remTask[i] EXCEPT !.at = "ready"].at = "ready"
    /\ [remTask[i] EXCEPT !.at = "ready"].status = remTask[i].status
    /\ [remTask[i] EXCEPT !.at = "ready"].attempt = remTask[i].attempt
 <2>1. remTask[i] \in RemRecords BY <1>2
 <2> QED BY <2>1 DEF RemRecords
<1>5. RemTypes' /\ RemTasks' = RemTasks
 <2>1. remTask' \in [RemTasks -> RemRecords] BY <1>2, <1>4
 <2> QED BY <1>1, <1>3, <2>1, RemTasksChanged
<1>6. ASSUME NEW i \in RemTasks
  PROVE
    /\ i \in RemWindow => /\ remTask'[i].at = "ready" /\ remTask[i].at = "waits"
                          /\ remTask'[i].attempt = remTask[i].attempt
    /\ i \notin RemWindow => remTask'[i] = remTask[i]
    /\ remTask'[i].status = remTask[i].status
 <2>1. CASE i \in RemWindow
  <3>1. remTask'[i] = [remTask[i] EXCEPT !.at = "ready"] BY <2>1
  <3>2. remTask[i].at = "waits" BY <1>1, <1>2, <1>3, <2>1 DEF RemInPlace, RemWindow
  <3> QED BY <1>4, <2>1, <3>1, <3>2
 <2>2. CASE i \notin RemWindow BY <2>2
 <2> QED BY <2>1, <2>2
<1>7. ASSUME NEW i \in RemTasks
  PROVE RemFits(remTask[i], remLog[i])'
 <2>1. CASE i \in RemWindow
  <3>1. remLog[i] = <<>> /\ remTask[i].attempt = 0 /\ remTask[i].status = "none"
    BY <1>1, <1>2, <1>6, <2>1 DEF RemFits
  <3>2. Len(remLog[i]) = 0 BY <3>1
  <3>3. remTask'[i].at = "ready" /\ remTask'[i].attempt = 0 /\ remTask'[i].status = "none"
    BY <1>6, <2>1, <3>1
  <3> QED BY <3>1, <3>2, <3>3 DEF RemFits
 <2>2. CASE i \notin RemWindow BY <1>1, <1>3, <1>6, <2>2 DEF RemFits, RemCut
 <2> QED BY <2>1, <2>2
<1>8. RemInPlace'
 <2>1. ASSUME NEW i \in RemTasks
   PROVE
     /\ i < remOp.first => remTask'[i].at = "done"
     /\ i >= remOp.first + RemWidth => remTask'[i].at = "waits"
  <3>1. i \in Nat /\ remOp.first \in Nat /\ RemWidth \in Nat \ {0} BY <1>2, <1>3, RemWidthType
  <3>2. i < remOp.first \/ i >= remOp.first + RemWidth => i \notin RemWindow
    BY <3>1 DEF RemWindow
  <3>3. i >= remOp.first + RemWidth => i >= remOp.first BY <3>1
  <3> QED BY <1>1, <1>6, <3>2, <3>3 DEF RemInPlace
 <2> QED BY <1>3, <1>5, <2>1 DEF RemInPlace
<1>9. RemStages'
 <2>1. ASSUME NEW i \in RemTasks, NEW j \in 1 .. i - 1
   PROVE remTask'[j].status = remTask[j].status
  <3>1. j \in RemTasks BY <1>2
  <3> QED BY <1>6, <3>1
 <2>2. ASSUME NEW i \in RemTasks
   PROVE
     /\ remOp.kind = "pipeline" /\ remLog[i] # <<>> =>
          \A j \in 1 .. i - 1 : remTask'[j].status = "completed"
     /\ remTask'[i].status = "skipped" =>
          \E j \in 1 .. i - 1 : remTask'[j].status # "completed"
  <3>1.
    /\ remOp.kind = "pipeline" /\ remLog[i] # <<>> =>
         \A j \in 1 .. i - 1 : remTask[j].status = "completed"
    /\ remTask[i].status = "skipped" =>
         \E j \in 1 .. i - 1 : remTask[j].status # "completed"
    BY <1>1 DEF RemStages
  <3>2. remTask'[i].status = remTask[i].status BY <1>6
  <3>3. \A j \in 1 .. i - 1 : remTask'[j].status = remTask[j].status BY <2>1
  <3> QED BY <3>1, <3>2, <3>3
 <2>3. ASSUME remOp.kind = "pipeline", NEW j \in RemTasks, j < remOp.first
   PROVE remTask'[j].status = "completed"
  <3>1. j < remOp.first - 1 \/ j = remOp.first - 1 BY <1>2, <1>3, <2>3
  <3>2. remOp.first > 1 BY <1>2, <1>3, <2>3
  <3>3. remTask[j].status = "completed" BY <1>1, <2>3, <3>1, <3>2 DEF RemStages, RemStopped
  <3> QED BY <1>6, <3>3
 <2> QED BY <1>3, <1>5, <2>2, <2>3 DEF RemStages
<1> QED BY <1>5, <1>7, <1>8, <1>9 DEF RemInv

LEMMA RemCloseStep ==
  ASSUME RemInv, RemClose
  PROVE RemInv'
<1>1.
  /\ RemTypes /\ RemInPlace /\ RemStages
  /\ \A i \in RemTasks : RemFits(remTask[i], remLog[i])
  BY DEF RemInv
<1>2. Len(remTask) \in Nat /\ RemTasks = 1 .. Len(remTask) BY <1>1, RemTyped
<1>3.
  /\ remOp.phase = "window" /\ \A i \in RemWindow : remTask[i].at = "done"
  /\ remOp' = [remOp EXCEPT !.phase = "next", !.first = @ + RemWidth]
  /\ UNCHANGED <<remTask, remHealthy, remTurn, remLog>>
  BY DEF RemClose
<1>4. RemWidth \in Nat \ {0} /\ remOp.first \in Nat \ {0} BY <1>1, RemWidthType DEF RemTypes
<1>5.
  /\ remOp' \in [kind: {"none", "batch", "pipeline"}, phase: {"idle", "next", "window", "done"},
                 first: Nat \ {0}, aborted: BOOLEAN]
  /\ remOp'.phase = "next" /\ remOp'.kind = remOp.kind
  /\ remOp'.first = remOp.first + RemWidth /\ remOp'.aborted = remOp.aborted
 <2>1. PICK first \in Nat \ {0} : first = remOp.first + RemWidth BY <1>4
 <2>2. remOp' = [remOp EXCEPT !.phase = "next", !.first = first] BY <1>3, <2>1
 <2> QED BY <1>1, <2>1, <2>2 DEF RemTypes
<1>6. RemTypes' /\ RemTasks' = RemTasks BY <1>1, <1>3, <1>5 DEF RemTypes, RemTasks
<1>7. \A i \in RemTasks' : RemFits(remTask[i], remLog[i])'
  BY <1>1, <1>3, <1>5, <1>6 DEF RemFits, RemCut
<1>8. RemInPlace'
 <2>1. ASSUME NEW i \in RemTasks, i < remOp.first + RemWidth
   PROVE remTask[i].at = "done"
  <3>1. i < remOp.first \/ i \in RemWindow BY <1>2, <1>4, <2>1 DEF RemWindow
  <3> QED BY <1>1, <1>3, <3>1 DEF RemInPlace
 <2>2. \A i \in RemTasks : i >= remOp.first + RemWidth => remTask[i].at = "waits"
   BY <1>1, <1>3 DEF RemInPlace
 <2> QED BY <1>3, <1>5, <1>6, <2>1, <2>2 DEF RemInPlace
<1>9. RemStages'
 <2>1. ASSUME remOp.kind = "pipeline", NEW j \in RemTasks, j < remOp'.first - 1
   PROVE remTask[j].status = "completed"
  <3>1. j < remOp.first BY <1>2, <1>4, <1>5, <2>1, RemWidthType
  <3> QED BY <1>1, <1>3, <2>1, <3>1 DEF RemStages
 <2> QED BY <1>1, <1>3, <1>5, <1>6, <2>1 DEF RemStages
<1> QED BY <1>6, <1>7, <1>8, <1>9 DEF RemInv

LEMMA RemOpenStep ==
  ASSUME RemInv, RemOpen
  PROVE RemInv'
<1>1. remOp.phase = "next" /\ UNCHANGED <<remHealthy, remTurn, remLog>> BY DEF RemOpen
<1>2.
  CASE remOp' = [remOp EXCEPT !.phase = "done"]
       /\ \/ remOp.first > Len(remTask) /\ UNCHANGED remTask
          \/ /\ remOp.aborted \/ RemStopped
             /\ remOp.first <= Len(remTask)
             /\ remTask' = RemRest(IF remOp.aborted THEN "aborted" ELSE "skipped")
  BY <1>1, <1>2, RemOverStep
<1>3.
  CASE /\ ~ RemStopped
       /\ remOp' = [remOp EXCEPT !.phase = "window"]
       /\ remTask' = [i \in RemTasks |->
                        IF i \in RemWindow THEN [remTask[i] EXCEPT !.at = "ready"] ELSE remTask[i]]
  BY <1>1, <1>3, RemWindowStep
<1> QED BY <1>2, <1>3 DEF RemOpen

LEMMA RemOutsideSteps ==
  ASSUME RemInv, RemAbort \/ RemCheckHealth
  PROVE RemInv'
<1>1.
  /\ remOp' \in [kind: {"none", "batch", "pipeline"}, phase: {"idle", "next", "window", "done"},
                 first: Nat \ {0}, aborted: BOOLEAN]
  /\ remOp'.phase = remOp.phase /\ remOp'.kind = remOp.kind
  /\ remOp'.first = remOp.first /\ (remOp.aborted => remOp'.aborted)
  /\ UNCHANGED <<remTask, remTurn, remLog>>
  BY DEF RemInv, RemTypes, RemAbort, RemCheckHealth
<1>2. remHealthy' \in SUBSET RemAll BY DEF RemInv, RemTypes, RemAbort, RemCheckHealth
<1>3. RemTypes' /\ RemTasks' = RemTasks /\ RemWidth' = RemWidth
  BY <1>1, <1>2 DEF RemInv, RemTypes, RemTasks, RemWidth
<1>4. \A i \in RemTasks' : RemFits(remTask[i], remLog[i])'
  BY <1>1, <1>3 DEF RemInv, RemFits, RemCut
<1>5. RemInPlace' /\ RemStages' BY <1>1, <1>3 DEF RemInv, RemInPlace, RemStages
<1> QED BY <1>3, <1>4, <1>5 DEF RemInv

\* The inductive invariant: every task has one request more than retries behind it, or is
\* done as its last request says.
THEOREM RemoteInvariant == RemSpec => []RemInv
<1>1. RemInv /\ [RemNext]_remVars => RemInv'
 <2> SUFFICES ASSUME RemInv, [RemNext]_remVars
   PROVE RemInv'
   OBVIOUS
 <2>1. CASE UNCHANGED remVars
   BY <2>1 DEF remVars, RemInv, RemTypes, RemTasks, RemFits, RemCut, RemInPlace, RemStages,
     RemWidth
 <2>2. CASE RemBegin BY <2>2, RemBeginStep
 <2>3. CASE RemOpen BY <2>3, RemOpenStep
 <2>4. CASE RemClose BY <2>4, RemCloseStep
 <2>5. CASE RemAbort \/ RemCheckHealth BY <2>5, RemOutsideSteps
 <2>6. ASSUME NEW i \in RemTasks, RemTry(i) \/ RemAnswer(i) \/ RemWake(i)
   PROVE RemInv'
   BY <2>6, RemTryStep, RemAnswerStep, RemWakeStep
 <2> QED BY <2>1, <2>2, <2>3, <2>4, <2>5, <2>6 DEF RemNext
<1> QED BY RemInitHolds, <1>1, PTL DEF RemSpec

\* When a batch is over, every task has a result that its requests, or the abort of the
\* caller, bear out; a stage the abort cut off is "failed" (pipeline-runner.ts:192), and no
\* stage was sent after one that did not complete.
THEOREM RemoteResultsEarned == RemSpec => []RemResultsEarned
<1>1. RemInv => RemResultsEarned
 <2> SUFFICES ASSUME RemInv, remOp.phase = "done", NEW i \in RemTasks
   PROVE
     /\ (remOp.kind = "pipeline" /\ remLog[i] # <<>>)
        => \A j \in 1 .. i - 1 : remTask[j].status = "completed"
     /\ CASE remTask[i].status = "completed" -> RemLastOf(i, "completed")
          [] remTask[i].status = "aborted" ->
               remOp.aborted /\ (remOp.kind = "pipeline" => remLog[i] = <<>>)
          [] remTask[i].status \in {"failed", "timeout"} ->
               \/ remLog[i] = <<>> \/ RemLastOf(i, "refused")
               \/ Len(remLog[i]) = RemMaxRetries + 1
               \/ RemCutOff(i)
          [] OTHER -> /\ remTask[i].status = "skipped"
                      /\ remOp.kind = "pipeline" /\ remLog[i] = <<>>
                      /\ \E j \in 1 .. i - 1 : remTask[j].status # "completed"
   BY DEF RemResultsEarned
 <2>1.
   /\ RemFits(remTask[i], remLog[i]) /\ remTask[i].at = "done" /\ RemStages
   /\ remTask[i].status \in {"none", "completed", "failed", "timeout", "aborted", "skipped"}
   BY RemTyped DEF RemInv, RemInPlace, RemRecords
 <2>2. remTask[i].status # "none" BY <2>1 DEF RemFits
 <2>3.
   /\ (remOp.kind = "pipeline" /\ remLog[i] # <<>>)
      => \A j \in 1 .. i - 1 : remTask[j].status = "completed"
   /\ remTask[i].status = "skipped" => \E j \in 1 .. i - 1 : remTask[j].status # "completed"
   BY <2>1 DEF RemStages
 <2>4. CASE remTask[i].status = "completed" BY <2>1, <2>3, <2>4 DEF RemFits, RemLastOf
 <2>5. CASE remTask[i].status = "aborted" BY <2>1, <2>3, <2>5 DEF RemFits
 <2>6. CASE remTask[i].status \in {"failed", "timeout"}
   BY <2>1, <2>3, <2>6 DEF RemFits, RemCut, RemCutOff, RemLastOf
 <2>7. CASE remTask[i].status = "skipped" BY <2>1, <2>3, <2>7 DEF RemFits
 <2> QED BY <2>1, <2>2, <2>4, <2>5, <2>6, <2>7
<1> QED BY RemoteInvariant, <1>1, PTL

--------------------
(* FileChanges *)

FcEntryTypes ==
  [key: [file: FcFiles, time: Nat, range: {"all", "some"}], content: Int, raced: BOOLEAN]
FcReadTypes ==
  [step: {"looked", "read"}, file: FcFiles, range: {"all", "some"}, content: Int, raced: BOOLEAN]
FcCallTypes ==
  [step: {"check", "backup", "rename", "refresh", "truncate", "fill"}, tool: {"edit", "write"},
   file: FcFiles, base: Int, raced: BOOLEAN]
FcBackupTypes == [file: FcFiles, content: Nat]
FcSeenTypes == [content: Int, part: BOOLEAN, known: BOOLEAN]
FcPastTypes == [first: Int, shown: SUBSET Int, touched: BOOLEAN]

FcTypes ==
  /\ fcDisk \in [FcFiles -> [content: Int, time: Nat]]
  /\ fcMade \in [contents: Nat, reads: Nat, touches: Nat] /\ fcCache \in SUBSET FcEntryTypes
  /\ fcSeen \in [FcFiles -> FcSeenTypes] /\ fcBackups \in Seq(FcBackupTypes)
  /\ fcLast \in {<<>>} \cup {<<f>> : f \in FcFiles}
  /\ fcReads \in [FcReaders -> {FcIdle} \cup FcReadTypes]
  /\ fcCall \in {FcIdle} \cup FcCallTypes
  /\ fcTx \in [status: {"none", "active", "committed", "rolling", "rolled_back"}, files: Seq(FcFiles)]
  /\ fcPast \in [FcFiles -> FcPastTypes]

FcHas(f) == \E i \in DOMAIN fcBackups : fcBackups[i].file = f

\* A file has one backup at most, and one since its first change at the latest, taken
\* when it held what it held at that change.
FcBacked ==
  /\ \A i, j \in DOMAIN fcBackups : fcBackups[i].file = fcBackups[j].file => i = j
  /\ \A f \in FcFiles : IF fcPast[f].first = fcTorn THEN fcDisk[f].content >= 0 ELSE FcHas(f)
  /\ \A i \in DOMAIN fcBackups :
       LET f == fcBackups[i].file IN
       ~ fcPast[f].touched =>
         fcBackups[i].content = IF fcPast[f].first = fcTorn THEN fcDisk[f].content
                                ELSE fcPast[f].first

\* Whatever will be restored or is about to be changed has its backup.
FcHeld ==
  /\ fcLast # <<>> => FcHas(fcLast[1])
  /\ \A i \in DOMAIN fcTx.files : FcHas(fcTx.files[i])
  /\ fcCall.step \in {"rename", "refresh", "truncate", "fill"} => FcHas(fcCall.file)
  /\ fcCall.step \in {"refresh", "fill"} => fcPast[fcCall.file].first # fcTorn

\* A change runs alone.
FcAlone == fcCall.step # "idle" \/ fcTx.status = "rolling" => ~ FcReading

\* What the agent knows in full it was shown, and an edit rests on it.
FcGrounded ==
  /\ \A f \in FcFiles : fcSeen[f].known /\ ~ fcSeen[f].part => fcSeen[f].content \in fcPast[f].shown
  /\ fcCall.step \in {"backup", "rename"} /\ fcCall.tool = "edit" => fcCall.base \in fcPast[fcCall.file].shown
  /\ fcCall.step = "rename" => fcCall.tool = "edit"

\* No entry is newer than its file; one as new, and a read that has its content, are
\* true if nobody else came between.
FcFresh ==
  /\ \A entry \in fcCache : entry.key.time <= fcDisk[entry.key.file].time
  /\ FcCacheTrue
  /\ \A r \in FcReaders : fcReads[r].step = "read" /\ ~ fcReads[r].raced =>
       fcReads[r].content = fcDisk[fcReads[r].file].content

FcInv == FcTypes /\ FcBacked /\ FcHeld /\ FcAlone /\ FcGrounded /\ FcFresh

LEMMA FcParts ==
  ASSUME FcInv
  PROVE
    /\ FcTypes /\ FcBacked /\ FcHeld /\ FcAlone /\ FcGrounded /\ FcFresh
    /\ Len(fcBackups) \in Nat /\ DOMAIN fcBackups = 1 .. Len(fcBackups)
    /\ \A i \in DOMAIN fcBackups : fcBackups[i] \in FcBackupTypes
    /\ \A r \in FcReaders : fcReads[r].step # "idle" => fcReads[r] \in FcReadTypes
    /\ fcCall.step # "idle" => fcCall \in FcCallTypes
    /\ fcTorn = -1
<1>1.
  /\ Len(fcBackups) \in Nat /\ DOMAIN fcBackups = 1 .. Len(fcBackups)
  /\ \A i \in DOMAIN fcBackups : fcBackups[i] \in FcBackupTypes
  BY Indices DEF FcInv, FcTypes
<1> QED BY <1>1 DEF FcInv, FcTypes, FcIdle, fcTorn

\* Whatever leaves the files, the backups and the past alone.
LEMMA FcBackedSame ==
  ASSUME FcInv, fcBackups' = fcBackups, fcDisk' = fcDisk,
    \A f \in FcFiles : fcPast'[f].first = fcPast[f].first /\ fcPast'[f].touched = fcPast[f].touched
  PROVE FcBacked' /\ \A f : FcHas(f)' <=> FcHas(f)
<1>1. \A f : FcHas(f)' <=> FcHas(f) BY DEF FcHas
<1>2. FcTypes /\ FcBacked BY DEF FcInv
<1>3. \A i \in DOMAIN fcBackups : fcBackups[i].file \in FcFiles BY FcParts DEF FcBackupTypes
<1> QED BY <1>1, <1>2, <1>3 DEF FcBacked

\* What a change of a file does to it and to no other.
LEMMA FcPutFacts ==
  ASSUME FcTypes, NEW f \in FcFiles, NEW c \in Int, FcPut(f, c)
  PROVE
    /\ fcDisk' \in [FcFiles -> [content: Int, time: Nat]]
    /\ fcDisk'[f].content = c /\ fcDisk'[f].time = fcDisk[f].time + 1
    /\ \A g \in FcFiles : g # f => fcDisk'[g] = fcDisk[g]
    /\ \A g \in FcFiles : fcDisk[g].time \in Nat
<1>1. fcDisk \in [FcFiles -> [content: Int, time: Nat]] BY DEF FcTypes
<1>2. PICK time \in Nat : time = fcDisk[f].time + 1 BY <1>1
<1>3. PICK new \in [content: Int, time: Nat] : new = [content |-> c, time |-> time] BY <1>2
<1>4. fcDisk' = [fcDisk EXCEPT ![f] = new] BY <1>1, <1>2, <1>3 DEF FcPut
<1> QED BY <1>1, <1>2, <1>3, <1>4

\* No entry is as new as a file that was just changed.
LEMMA FcPutFresh ==
  ASSUME FcInv, NEW f \in FcFiles, NEW c \in Int, FcPut(f, c), fcCache' \in SUBSET fcCache,
    \A r \in FcReaders : fcReads'[r].step = "read" /\ ~ fcReads'[r].raced =>
      /\ fcReads[r].step = "read" /\ ~ fcReads[r].raced /\ fcReads[r].file # f
      /\ fcReads'[r].content = fcReads[r].content /\ fcReads'[r].file = fcReads[r].file
  PROVE FcFresh'
<1>1.
  /\ fcDisk'[f].time = fcDisk[f].time + 1
  /\ \A g \in FcFiles : g # f => fcDisk'[g] = fcDisk[g]
  /\ \A g \in FcFiles : fcDisk[g].time \in Nat
  BY FcPutFacts DEF FcInv
<1>2.
  \A entry \in fcCache' :
     /\ entry \in fcCache /\ entry.key.file \in FcFiles /\ entry.key.time \in Nat
     /\ entry.key.time <= fcDisk[entry.key.file].time
  BY DEF FcInv, FcTypes, FcFresh, FcEntryTypes
<1>3.
  \A entry \in fcCache' :
     /\ entry.key.time <= fcDisk'[entry.key.file].time
     /\ ~ entry.raced /\ entry.key.time = fcDisk'[entry.key.file].time =>
          entry.content = fcDisk'[entry.key.file].content
 <2> SUFFICES ASSUME NEW entry \in fcCache'
   PROVE
     /\ entry.key.time <= fcDisk'[entry.key.file].time
     /\ ~ entry.raced /\ entry.key.time = fcDisk'[entry.key.file].time =>
          entry.content = fcDisk'[entry.key.file].content
   OBVIOUS
 <2>1. CASE entry.key.file = f
  <3>1. entry.key.time <= fcDisk[f].time /\ entry.key.time \in Nat BY <1>2, <2>1
  <3>2. entry.key.time < fcDisk'[f].time BY <1>1, <3>1
  <3> QED BY <1>1, <2>1, <3>1, <3>2
 <2>2. CASE entry.key.file # f BY <1>1, <1>2, <2>2 DEF FcInv, FcFresh, FcCacheTrue
 <2> QED BY <2>1, <2>2
<1>4.
  \A r \in FcReaders : fcReads'[r].step = "read" /\ ~ fcReads'[r].raced =>
    fcReads'[r].content = fcDisk'[fcReads'[r].file].content
 <2> SUFFICES ASSUME NEW r \in FcReaders, fcReads'[r].step = "read", ~ fcReads'[r].raced
   PROVE fcReads'[r].content = fcDisk'[fcReads'[r].file].content
   OBVIOUS
 <2>1.
   /\ fcReads[r].step = "read" /\ ~ fcReads[r].raced /\ fcReads[r].file # f
   /\ fcReads'[r].content = fcReads[r].content /\ fcReads'[r].file = fcReads[r].file
   OBVIOUS
 <2>2. fcReads[r].file \in FcFiles BY <2>1, FcParts DEF FcReadTypes
 <2>3. fcReads[r].content = fcDisk[fcReads[r].file].content BY <2>1 DEF FcInv, FcFresh
 <2> QED BY <1>1, <2>1, <2>2, <2>3
<1> QED BY <1>3, <1>4 DEF FcFresh, FcCacheTrue

\* Whatever leaves the files and the reads alone.
LEMMA FcFreshSame ==
  ASSUME FcInv, fcDisk' = fcDisk, fcCache' \in SUBSET fcCache, fcReads' = fcReads
  PROVE FcFresh'
BY DEF FcInv, FcFresh, FcCacheTrue

LEMMA FcOthersStep == ASSUME FcInv, FcOthers PROVE FcInv'
<1>1.
  PICK f \in FcFiles :
    /\ \E content \in {0, fcMade.contents + 1} \ {fcDisk[f].content} :
         /\ FcPut(f, content)
         /\ fcMade' = [fcMade EXCEPT !.touches = @ + 1,
                                     !.contents = IF content = 0 THEN @ ELSE content]
    /\ fcPast' = [fcPast EXCEPT ![f].touched = TRUE]
    /\ fcReads' = [r \in FcReaders |->
                     IF fcReads[r].step # "idle" /\ fcReads[r].file = f
                     THEN [fcReads[r] EXCEPT !.raced = TRUE] ELSE fcReads[r]]
    /\ fcCall' = IF fcCall.step # "idle" /\ fcCall.file = f
                 THEN [fcCall EXCEPT !.raced = TRUE] ELSE fcCall
  BY DEF FcOthers
<1>2.
  PICK content \in Nat :
         /\ FcPut(f, content)
         /\ fcMade' = [fcMade EXCEPT !.touches = @ + 1,
                                     !.contents = IF content = 0 THEN @ ELSE content]
 <2>1.
   PICK content \in {0, fcMade.contents + 1} \ {fcDisk[f].content} :
        /\ FcPut(f, content)
        /\ fcMade' = [fcMade EXCEPT !.touches = @ + 1,
                                    !.contents = IF content = 0 THEN @ ELSE content]
   BY <1>1
 <2>2. fcMade.contents \in Nat BY DEF FcInv, FcTypes
 <2>3. content \in Nat BY <2>1, <2>2
 <2> QED BY <2>1, <2>3
<1>3.
  /\ fcCache' = fcCache /\ fcSeen' = fcSeen /\ fcBackups' = fcBackups
  /\ fcLast' = fcLast /\ fcTx' = fcTx
  BY DEF FcOthers
<1>4. FcTypes /\ FcBacked /\ FcHeld /\ FcAlone /\ FcGrounded /\ FcFresh BY DEF FcInv
<1>5.
  /\ fcDisk' \in [FcFiles -> [content: Int, time: Nat]] /\ fcDisk'[f].content = content
  /\ \A g \in FcFiles : g # f => fcDisk'[g] = fcDisk[g]
  BY <1>2, <1>4, FcPutFacts
<1>6. fcMade' \in [contents: Nat, reads: Nat, touches: Nat]
 <2>1. PICK touches \in Nat : touches = fcMade.touches + 1 BY <1>4 DEF FcTypes
 <2>2. PICK contents \in Nat : contents = IF content = 0 THEN fcMade.contents ELSE content
   BY <1>4 DEF FcTypes
 <2>3. fcMade' = [fcMade EXCEPT !.touches = touches, !.contents = contents] BY <1>2, <2>1, <2>2
 <2> QED BY <1>4, <2>3 DEF FcTypes
<1>7.
  /\ fcPast' \in [FcFiles -> FcPastTypes] /\ fcPast'[f].touched
  /\ \A g \in FcFiles : /\ fcPast'[g].first = fcPast[g].first /\ fcPast'[g].shown = fcPast[g].shown
                        /\ g # f => fcPast'[g] = fcPast[g]
 <2>1. fcPast \in [FcFiles -> FcPastTypes] /\ fcPast[f] \in FcPastTypes BY <1>4 DEF FcTypes
 <2>2. PICK new : new = [fcPast[f] EXCEPT !.touched = TRUE] OBVIOUS
 <2>3. new \in FcPastTypes /\ new.touched /\ new.first = fcPast[f].first /\ new.shown = fcPast[f].shown
   BY <2>1, <2>2 DEF FcPastTypes
 <2>4. fcPast' = [fcPast EXCEPT ![f] = new] BY <1>1, <2>2
 <2> QED BY <2>1, <2>3, <2>4
<1>8.
  \A r \in FcReaders :
    /\ fcReads'[r] \in {FcIdle} \cup FcReadTypes /\ fcReads'[r].step = fcReads[r].step
    /\ fcReads[r].step # "idle" =>
         /\ fcReads'[r].file = fcReads[r].file /\ fcReads'[r].content = fcReads[r].content
         /\ ~ fcReads'[r].raced => ~ fcReads[r].raced /\ fcReads[r].file # f
 <2> SUFFICES ASSUME NEW r \in FcReaders
   PROVE
     /\ fcReads'[r] \in {FcIdle} \cup FcReadTypes
     /\ fcReads'[r].step = fcReads[r].step
     /\ fcReads[r].step # "idle" =>
          /\ fcReads'[r].file = fcReads[r].file /\ fcReads'[r].content = fcReads[r].content
          /\ ~ fcReads'[r].raced => ~ fcReads[r].raced /\ fcReads[r].file # f
   OBVIOUS
 <2>1. CASE fcReads[r].step # "idle" /\ fcReads[r].file = f
  <3>1. fcReads[r] \in FcReadTypes BY <2>1, FcParts
  <3>2. fcReads'[r] = [fcReads[r] EXCEPT !.raced = TRUE] BY <1>1, <2>1
  <3> QED BY <3>1, <3>2 DEF FcReadTypes
 <2>2. CASE ~ (fcReads[r].step # "idle" /\ fcReads[r].file = f)
  <3>1. fcReads'[r] = fcReads[r] BY <1>1, <2>2
  <3> QED BY <1>4, <2>2, <3>1 DEF FcTypes
 <2> QED BY <2>1, <2>2
<1>9. fcReads' \in [FcReaders -> {FcIdle} \cup FcReadTypes]
 <2>1. DOMAIN fcReads' = FcReaders /\ fcReads' = [r \in FcReaders |-> fcReads'[r]] BY <1>1
 <2> QED BY <1>8, <2>1
<1>10.
  /\ fcCall' \in {FcIdle} \cup FcCallTypes /\ fcCall'.step = fcCall.step
  /\ fcCall.step # "idle" =>
       fcCall'.file = fcCall.file /\ fcCall'.base = fcCall.base /\ fcCall'.tool = fcCall.tool
 <2>1. CASE fcCall.step # "idle" /\ fcCall.file = f
  <3>1. fcCall \in FcCallTypes BY <2>1, FcParts
  <3>2. fcCall' = [fcCall EXCEPT !.raced = TRUE] BY <1>1, <2>1
  <3> QED BY <3>1, <3>2 DEF FcCallTypes
 <2>2. CASE ~ (fcCall.step # "idle" /\ fcCall.file = f)
  <3>1. fcCall' = fcCall BY <1>1, <2>2
  <3> QED BY <1>4, <3>1 DEF FcTypes
 <2> QED BY <2>1, <2>2
<1>11. FcTypes' BY <1>3, <1>4, <1>5, <1>6, <1>7, <1>9, <1>10 DEF FcTypes
<1>12. \A g : FcHas(g)' <=> FcHas(g) BY <1>3 DEF FcHas
<1>13. FcBacked'
 <2>1. \A i \in DOMAIN fcBackups : fcBackups[i].file \in FcFiles BY FcParts DEF FcBackupTypes
 <2>2. \A g \in FcFiles : IF fcPast'[g].first = fcTorn THEN fcDisk'[g].content >= 0 ELSE FcHas(g)'
  <3> SUFFICES ASSUME NEW g \in FcFiles
    PROVE IF fcPast'[g].first = fcTorn THEN fcDisk'[g].content >= 0 ELSE FcHas(g)'
    OBVIOUS
  <3>1. IF fcPast[g].first = fcTorn THEN fcDisk[g].content >= 0 ELSE FcHas(g)
    BY <1>4 DEF FcBacked
  <3>2. CASE g = f BY <1>5, <1>7, <1>12, <3>1, <3>2
  <3>3. CASE g # f BY <1>5, <1>7, <1>12, <3>1, <3>3
  <3> QED BY <3>2, <3>3
 <2>3.
   \A i \in DOMAIN fcBackups : LET g == fcBackups[i].file IN
     ~ fcPast'[g].touched =>
       fcBackups[i].content = IF fcPast'[g].first = fcTorn THEN fcDisk'[g].content
                              ELSE fcPast'[g].first
   BY <1>4, <1>5, <1>7, <2>1 DEF FcBacked
 <2> QED BY <1>3, <1>4, <2>2, <2>3 DEF FcBacked
<1>14. FcHeld'
 <2>1. fcCall.step # "idle" => fcCall.file \in FcFiles BY FcParts DEF FcCallTypes
 <2> QED BY <1>3, <1>4, <1>7, <1>10, <1>12, <2>1 DEF FcHeld
<1>15. FcAlone' BY <1>3, <1>4, <1>8, <1>10 DEF FcAlone, FcReading
<1>16. FcGrounded'
 <2>1. fcCall.step # "idle" => fcCall.file \in FcFiles BY FcParts DEF FcCallTypes
 <2> QED BY <1>3, <1>4, <1>7, <1>10, <2>1 DEF FcGrounded
<1>17. FcFresh' BY <1>2, <1>3, <1>8, FcPutFresh
<1> QED BY <1>11, <1>13, <1>14, <1>15, <1>16, <1>17 DEF FcInv

\* What the agent knows of a file it was just shown.
LEMMA FcShownFacts ==
  ASSUME FcInv, NEW f \in FcFiles, NEW c \in Int, NEW part \in BOOLEAN,
    FcShown(f, c, part)
  PROVE
    /\ fcSeen' \in [FcFiles -> FcSeenTypes] /\ fcPast' \in [FcFiles -> FcPastTypes]
    /\ \A g \in FcFiles :
         /\ fcPast'[g].first = fcPast[g].first /\ fcPast'[g].touched = fcPast[g].touched
         /\ fcPast[g].shown \subseteq fcPast'[g].shown
         /\ fcSeen'[g].known /\ ~ fcSeen'[g].part => fcSeen'[g].content \in fcPast'[g].shown
<1>1.
  /\ fcSeen \in [FcFiles -> FcSeenTypes] /\ fcPast \in [FcFiles -> FcPastTypes]
  /\ fcPast[f] \in FcPastTypes
  /\ \A g \in FcFiles : fcSeen[g].known /\ ~ fcSeen[g].part => fcSeen[g].content \in fcPast[g].shown
  BY DEF FcInv, FcTypes, FcGrounded
<1>2. PICK seen : seen = [content |-> c, part |-> part, known |-> TRUE] OBVIOUS
<1>3. seen \in FcSeenTypes /\ seen.content = c /\ (seen.part <=> part) BY <1>2 DEF FcSeenTypes
<1>4. PICK past : past = [fcPast[f] EXCEPT !.shown = IF part THEN @ ELSE @ \cup {c}] OBVIOUS
<1>5.
  /\ past \in FcPastTypes /\ past.first = fcPast[f].first /\ past.touched = fcPast[f].touched
  /\ fcPast[f].shown \subseteq past.shown /\ (~ part => c \in past.shown)
 <2>1. PICK shown \in SUBSET Int : shown = IF part THEN fcPast[f].shown ELSE fcPast[f].shown \cup {c}
   BY <1>1 DEF FcPastTypes
 <2>2. past = [fcPast[f] EXCEPT !.shown = shown] BY <1>4, <2>1
 <2> QED BY <1>1, <2>1, <2>2 DEF FcPastTypes
<1>6. fcSeen' = [fcSeen EXCEPT ![f] = seen] /\ fcPast' = [fcPast EXCEPT ![f] = past]
  BY <1>2, <1>4 DEF FcShown
<1>7. ASSUME NEW g \in FcFiles
  PROVE
    /\ fcPast'[g].first = fcPast[g].first /\ fcPast'[g].touched = fcPast[g].touched
    /\ fcPast[g].shown \subseteq fcPast'[g].shown
    /\ fcSeen'[g].known /\ ~ fcSeen'[g].part => fcSeen'[g].content \in fcPast'[g].shown
 <2>1. CASE g = f
  <3>1. fcSeen'[g] = seen /\ fcPast'[g] = past BY <1>1, <1>6, <2>1
  <3> QED BY <1>3, <1>5, <2>1, <3>1
 <2>2. CASE g # f
  <3>1. fcSeen'[g] = fcSeen[g] /\ fcPast'[g] = fcPast[g] BY <1>1, <1>6, <2>2
  <3> QED BY <1>1, <3>1
 <2> QED BY <2>1, <2>2
<1> QED BY <1>1, <1>3, <1>5, <1>6, <1>7

LEMMA FcShownAs ==
  ASSUME NEW f, NEW c, NEW range \in {"all", "some"}, FcShown(f, c, range = "some")
  PROVE \E part \in BOOLEAN : FcShown(f, c, part)
<1>1. CASE range = "some"
 <2>1. (range = "some") = TRUE BY <1>1
 <2>2. FcShown(f, c, TRUE) BY <2>1 DEF FcShown
 <2> QED BY <2>2
<1>2. CASE range = "all"
 <2>1. (range = "some") = FALSE BY <1>2
 <2>2. FcShown(f, c, FALSE) BY <2>1 DEF FcShown
 <2> QED BY <2>2
<1> QED BY <1>1, <1>2

LEMMA FcReadStep == ASSUME FcInv, FcRead PROVE FcInv'
<1>1.
  /\ fcCall.step = "idle" /\ fcTx.status # "rolling"
  /\ fcMade' = [fcMade EXCEPT !.reads = @ + 1]
  /\ fcDisk' = fcDisk /\ fcCache' = fcCache /\ fcBackups' = fcBackups /\ fcLast' = fcLast
  /\ fcCall' = fcCall /\ fcTx' = fcTx
  BY DEF FcRead
<1>2. FcTypes /\ FcBacked /\ FcHeld /\ FcAlone /\ FcGrounded /\ FcFresh BY DEF FcInv
<1>3. fcMade' \in [contents: Nat, reads: Nat, touches: Nat]
 <2>1. PICK reads \in Nat : reads = fcMade.reads + 1 BY <1>2 DEF FcTypes
 <2> QED BY <1>1, <1>2, <2>1 DEF FcTypes
<1>4.
  PICK r \in FcReaders, f \in FcFiles, range \in {"all", "some"} :
   /\ fcReads[r].step = "idle"
   /\ \/ \E entry \in fcCache :
           /\ entry.key = FcKey(f, range) /\ FcShown(f, entry.content, range = "some")
           /\ UNCHANGED fcReads
      \/ /\ fcReads' = [fcReads EXCEPT ![r] =
                          [step |-> "looked", file |-> f, range |-> range,
                           content |-> 0, raced |-> FALSE]]
         /\ UNCHANGED <<fcSeen, fcPast>>
  BY DEF FcRead
<1>5.
  /\ fcSeen' \in [FcFiles -> FcSeenTypes] /\ fcPast' \in [FcFiles -> FcPastTypes]
  /\ fcReads' \in [FcReaders -> {FcIdle} \cup FcReadTypes]
  /\ \A g \in FcFiles :
       /\ fcPast'[g].first = fcPast[g].first /\ fcPast'[g].touched = fcPast[g].touched
       /\ fcSeen'[g].known /\ ~ fcSeen'[g].part => fcSeen'[g].content \in fcPast'[g].shown
  /\ \A q \in FcReaders : fcReads'[q].step = "read" => fcReads'[q] = fcReads[q]
 <2>1.
   CASE \E entry \in fcCache :
          /\ entry.key = FcKey(f, range) /\ FcShown(f, entry.content, range = "some")
          /\ UNCHANGED fcReads
  <3>1. PICK c \in Int : FcShown(f, c, range = "some") /\ fcReads' = fcReads
    BY <1>2, <2>1 DEF FcTypes, FcEntryTypes
  <3>2. PICK part \in BOOLEAN : FcShown(f, c, part) BY <3>1, FcShownAs
  <3> QED BY <1>2, <3>1, <3>2, FcShownFacts DEF FcTypes
 <2>2.
   CASE /\ fcReads' = [fcReads EXCEPT ![r] =
                         [step |-> "looked", file |-> f, range |-> range,
                          content |-> 0, raced |-> FALSE]]
        /\ UNCHANGED <<fcSeen, fcPast>>
  <3>1. PICK new : new = [step |-> "looked", file |-> f, range |-> range,
                          content |-> 0, raced |-> FALSE]
    OBVIOUS
  <3>2. new \in FcReadTypes /\ new.step = "looked" BY <3>1 DEF FcReadTypes
  <3>3. fcReads' = [fcReads EXCEPT ![r] = new] BY <2>2, <3>1
  <3>4. /\ fcReads' \in [FcReaders -> {FcIdle} \cup FcReadTypes]
        /\ \A q \in FcReaders : fcReads'[q].step = "read" => fcReads'[q] = fcReads[q]
   <4>1. fcReads \in [FcReaders -> {FcIdle} \cup FcReadTypes] BY <1>2 DEF FcTypes
   <4> QED BY <3>2, <3>3, <4>1
  <3>5.
    /\ fcSeen' = fcSeen /\ fcPast' = fcPast
    /\ fcSeen \in [FcFiles -> FcSeenTypes] /\ fcPast \in [FcFiles -> FcPastTypes]
    /\ \A g \in FcFiles : fcSeen[g].known /\ ~ fcSeen[g].part => fcSeen[g].content \in fcPast[g].shown
    BY <1>2, <2>2 DEF FcTypes, FcGrounded
  <3> QED BY <3>4, <3>5
 <2> QED BY <1>4, <2>1, <2>2
<1>6. FcTypes' BY <1>1, <1>2, <1>3, <1>5 DEF FcTypes
<1>7. FcBacked' /\ \A g : FcHas(g)' <=> FcHas(g) BY <1>1, <1>5, FcBackedSame
<1>8. FcHeld' BY <1>1, <1>2, <1>7 DEF FcHeld
<1>9. FcAlone' BY <1>1 DEF FcAlone
<1>10. FcGrounded' BY <1>1, <1>5 DEF FcGrounded
<1>11. FcFresh' BY <1>1, <1>2, <1>5 DEF FcFresh, FcCacheTrue
<1> QED BY <1>6, <1>7, <1>8, <1>9, <1>10, <1>11 DEF FcInv

LEMMA FcReadContentStep == ASSUME FcInv, FcReadContent PROVE FcInv'
<1>1.
  PICK r \in FcReaders :
    /\ fcReads[r].step = "looked"
    /\ fcReads' = [fcReads EXCEPT ![r].step = "read",
                                  ![r].content = fcDisk[fcReads[r].file].content]
  BY DEF FcReadContent
<1>2.
  /\ fcDisk' = fcDisk /\ fcMade' = fcMade /\ fcCache' = fcCache /\ fcSeen' = fcSeen
  /\ fcBackups' = fcBackups /\ fcLast' = fcLast /\ fcCall' = fcCall /\ fcTx' = fcTx /\ fcPast' = fcPast
  BY DEF FcReadContent
<1>3. FcTypes /\ FcBacked /\ FcHeld /\ FcAlone /\ FcGrounded /\ FcFresh BY DEF FcInv
<1>4. PICK content : content = fcDisk[fcReads[r].file].content OBVIOUS
<1>5. fcReads[r] \in FcReadTypes BY <1>1, FcParts
<1>6. content \in Int BY <1>3, <1>4, <1>5 DEF FcTypes, FcReadTypes
<1>7. PICK new : new = [fcReads[r] EXCEPT !.step = "read", !.content = content] OBVIOUS
<1>8. new \in FcReadTypes /\ new.step = "read" /\ new.content = content /\ new.file = fcReads[r].file
  BY <1>5, <1>6, <1>7 DEF FcReadTypes
<1>9. fcReads' = [fcReads EXCEPT ![r] = new] BY <1>1, <1>3, <1>4, <1>7 DEF FcTypes
<1>10. FcTypes' BY <1>2, <1>3, <1>8, <1>9 DEF FcTypes
<1>11. FcBacked' /\ \A g : FcHas(g)' <=> FcHas(g) BY <1>2, FcBackedSame
<1>12. FcHeld' BY <1>2, <1>3, <1>11 DEF FcHeld
<1>13. FcAlone'
 <2>1. FcReading BY <1>1 DEF FcReading
 <2> QED BY <1>2, <1>3, <2>1 DEF FcAlone
<1>14. FcGrounded' BY <1>2, <1>3 DEF FcGrounded
<1>15. FcFresh'
 <2>1.
   \A q \in FcReaders : fcReads'[q].step = "read" /\ ~ fcReads'[q].raced =>
     fcReads'[q].content = fcDisk'[fcReads'[q].file].content
  <3> SUFFICES ASSUME NEW q \in FcReaders, fcReads'[q].step = "read", ~ fcReads'[q].raced
    PROVE fcReads'[q].content = fcDisk'[fcReads'[q].file].content
    OBVIOUS
  <3>1. CASE q = r
   <4>1. fcReads'[q] = new BY <1>3, <1>9, <3>1 DEF FcTypes
   <4> QED BY <1>2, <1>4, <1>8, <4>1
  <3>2. CASE q # r
   <4>1. fcReads'[q] = fcReads[q] BY <1>3, <1>9, <3>2 DEF FcTypes
   <4> QED BY <1>2, <1>3, <4>1 DEF FcFresh
  <3> QED BY <3>1, <3>2
 <2> QED BY <1>2, <1>3, <2>1 DEF FcFresh, FcCacheTrue
<1> QED BY <1>10, <1>11, <1>12, <1>13, <1>14, <1>15 DEF FcInv

LEMMA FcReadDoneStep == ASSUME FcInv, FcReadDone PROVE FcInv'
<1>1.
  PICK r \in FcReaders :
    /\ fcReads[r].step = "read"
    /\ \E kept \in SUBSET fcCache :
         fcCache' = kept \cup {[key |-> FcKey(fcReads[r].file, fcReads[r].range),
                                content |-> fcReads[r].content, raced |-> fcReads[r].raced]}
    /\ IF fcReads[r].content = 0 THEN UNCHANGED <<fcSeen, fcPast>>
       ELSE FcShown(fcReads[r].file, fcReads[r].content, fcReads[r].range = "some")
    /\ fcReads' = [fcReads EXCEPT ![r] = FcIdle]
  BY DEF FcReadDone
<1>2.
  /\ fcDisk' = fcDisk /\ fcMade' = fcMade /\ fcBackups' = fcBackups
  /\ fcLast' = fcLast /\ fcCall' = fcCall /\ fcTx' = fcTx
  BY DEF FcReadDone
<1>3. FcTypes /\ FcBacked /\ FcHeld /\ FcAlone /\ FcGrounded /\ FcFresh BY DEF FcInv
<1>4.
  PICK f \in FcFiles, range \in {"all", "some"}, content \in Int, raced \in BOOLEAN :
    /\ f = fcReads[r].file /\ range = fcReads[r].range
    /\ content = fcReads[r].content /\ raced = fcReads[r].raced
  BY <1>1, FcParts DEF FcReadTypes
<1>5. PICK new : new = [key |-> FcKey(f, range), content |-> content, raced |-> raced] OBVIOUS
<1>6.
  /\ new \in FcEntryTypes /\ new.key.file = f /\ new.key.time = fcDisk[f].time
  /\ new.content = content /\ new.raced = raced
  BY <1>3, <1>5 DEF FcEntryTypes, FcKey, FcTypes
<1>7. \A entry \in fcCache' : entry \in fcCache \/ entry = new BY <1>1, <1>4, <1>5
<1>8.
  /\ fcSeen' \in [FcFiles -> FcSeenTypes] /\ fcPast' \in [FcFiles -> FcPastTypes]
  /\ \A g \in FcFiles :
       /\ fcPast'[g].first = fcPast[g].first /\ fcPast'[g].touched = fcPast[g].touched
       /\ fcSeen'[g].known /\ ~ fcSeen'[g].part => fcSeen'[g].content \in fcPast'[g].shown
 <2>1. CASE content = 0 BY <1>1, <1>3, <1>4, <2>1 DEF FcTypes, FcGrounded
 <2>2. CASE content # 0
  <3>1. FcShown(f, content, range = "some") BY <1>1, <1>4, <2>2
  <3>2. PICK part \in BOOLEAN : FcShown(f, content, part) BY <3>1, FcShownAs
  <3> QED BY <3>2, FcShownFacts
 <2> QED BY <2>1, <2>2
<1>9. FcTypes' BY <1>1, <1>2, <1>3, <1>6, <1>7, <1>8 DEF FcTypes
<1>10. FcBacked' /\ \A g : FcHas(g)' <=> FcHas(g) BY <1>2, <1>8, FcBackedSame
<1>11. FcHeld'
 <2>1. fcCall.step # "idle" => fcCall.file \in FcFiles BY FcParts DEF FcCallTypes
 <2> QED BY <1>2, <1>3, <1>8, <1>10, <2>1 DEF FcHeld
<1>12. FcReading BY <1>1 DEF FcReading
<1>13. FcAlone' /\ fcCall.step = "idle" BY <1>2, <1>3, <1>12 DEF FcAlone
<1>14. FcGrounded' BY <1>2, <1>8, <1>13 DEF FcGrounded
<1>15. FcFresh'
 <2>1. ~ raced => content = fcDisk[f].content BY <1>1, <1>3, <1>4 DEF FcFresh
 <2>2.
   \A entry \in fcCache' :
     /\ entry.key.time <= fcDisk[entry.key.file].time
     /\ ~ entry.raced /\ entry.key.time = fcDisk[entry.key.file].time =>
          entry.content = fcDisk[entry.key.file].content
  <3>1. fcDisk[f].time \in Nat BY <1>3 DEF FcTypes
  <3> QED BY <1>3, <1>6, <1>7, <2>1, <3>1 DEF FcFresh, FcCacheTrue
 <2>3. \A q \in FcReaders : fcReads'[q].step = "read" => fcReads'[q] = fcReads[q]
   BY <1>1, <1>3 DEF FcTypes, FcIdle
 <2> QED BY <1>2, <1>3, <2>2, <2>3 DEF FcFresh, FcCacheTrue
<1> QED BY <1>9, <1>10, <1>11, <1>13, <1>14, <1>15 DEF FcInv

LEMMA FcForgetsStep == ASSUME FcInv, FcForgets PROVE FcInv'
<1>1.
  /\ fcCache' \in SUBSET fcCache
  /\ fcDisk' = fcDisk /\ fcMade' = fcMade /\ fcSeen' = fcSeen /\ fcBackups' = fcBackups
  /\ fcLast' = fcLast /\ fcReads' = fcReads /\ fcCall' = fcCall /\ fcTx' = fcTx /\ fcPast' = fcPast
  BY DEF FcForgets
<1>2. FcTypes /\ FcBacked /\ FcHeld /\ FcAlone /\ FcGrounded /\ FcFresh BY DEF FcInv
<1>3. FcTypes' BY <1>1, <1>2 DEF FcTypes
<1>4. FcBacked' /\ \A g : FcHas(g)' <=> FcHas(g) BY <1>1, FcBackedSame
<1>5. FcHeld' /\ FcAlone' /\ FcGrounded'
  BY <1>1, <1>2, <1>4 DEF FcHeld, FcAlone, FcReading, FcGrounded
<1>6. FcFresh' BY <1>1, FcFreshSame
<1> QED BY <1>3, <1>4, <1>5, <1>6 DEF FcInv

\* The backup of a file is the one entry it has.
LEMMA FcEntryFacts ==
  ASSUME FcInv, NEW f \in FcFiles, FcHas(f)
  PROVE
    \E i \in DOMAIN fcBackups :
       /\ fcBackups[i].file = f /\ FcEntry(f) = fcBackups[i]
       /\ \A j \in DOMAIN fcBackups : fcBackups[j].file = f => j = i
       /\ FcEntry(f).content \in Nat
<1>1. PICK i \in DOMAIN fcBackups : fcBackups[i].file = f BY DEF FcHas
<1>2. \A j \in DOMAIN fcBackups : fcBackups[j].file = f => j = i BY <1>1 DEF FcInv, FcBacked
<1>3. FcEntries(f) = {i} BY <1>1, <1>2 DEF FcEntries
<1>4. i \in Nat BY FcParts
<1>5. (CHOOSE k \in FcEntries(f) : \A j \in FcEntries(f) : k <= j) = i BY <1>3, <1>4
<1>6. FcEntry(f) = fcBackups[i] BY <1>5 DEF FcEntry
<1>7. fcBackups[i].content \in Nat BY FcParts DEF FcBackupTypes
<1> QED BY <1>1, <1>2, <1>6, <1>7

LEMMA FcPutBack ==
  ASSUME FcInv, NEW f \in FcFiles, FcHas(f), FcPut(f, FcEntry(f).content),
    fcBackups' = fcBackups, fcPast' = fcPast
  PROVE
    /\ FcEntry(f).content \in Int /\ fcDisk' \in [FcFiles -> [content: Int, time: Nat]]
    /\ FcBacked' /\ \A g : FcHas(g)' <=> FcHas(g)
<1>1.
  PICK i \in DOMAIN fcBackups :
        /\ fcBackups[i].file = f /\ FcEntry(f) = fcBackups[i]
        /\ \A j \in DOMAIN fcBackups : fcBackups[j].file = f => j = i
        /\ FcEntry(f).content \in Nat
  BY FcEntryFacts
<1>2. PICK c \in Nat : c = FcEntry(f).content /\ c = fcBackups[i].content BY <1>1
<1>3.
  /\ fcDisk' \in [FcFiles -> [content: Int, time: Nat]] /\ fcDisk'[f].content = c
  /\ \A g \in FcFiles : g # f => fcDisk'[g] = fcDisk[g]
  BY <1>2, FcPutFacts DEF FcInv
<1>4. \A g : FcHas(g)' <=> FcHas(g) BY DEF FcHas
<1>5. FcBacked BY DEF FcInv
<1>6. \A j \in DOMAIN fcBackups : fcBackups[j].file \in FcFiles BY FcParts DEF FcBackupTypes
<1>7. \A g \in FcFiles : IF fcPast[g].first = fcTorn THEN fcDisk'[g].content >= 0 ELSE FcHas(g)
 <2> SUFFICES ASSUME NEW g \in FcFiles
   PROVE IF fcPast[g].first = fcTorn THEN fcDisk'[g].content >= 0 ELSE FcHas(g)
   OBVIOUS
 <2>1. IF fcPast[g].first = fcTorn THEN fcDisk[g].content >= 0 ELSE FcHas(g)
   BY <1>5 DEF FcBacked
 <2>2. c >= 0 OBVIOUS
 <2> QED BY <1>3, <2>1, <2>2
<1>8.
  \A j \in DOMAIN fcBackups :
    LET g == fcBackups[j].file IN
    ~ fcPast[g].touched =>
      fcBackups[j].content = IF fcPast[g].first = fcTorn THEN fcDisk'[g].content
                             ELSE fcPast[g].first
 <2> SUFFICES ASSUME NEW j \in DOMAIN fcBackups, ~ fcPast[fcBackups[j].file].touched
   PROVE
     fcBackups[j].content =
       IF fcPast[fcBackups[j].file].first = fcTorn THEN fcDisk'[fcBackups[j].file].content
       ELSE fcPast[fcBackups[j].file].first
   OBVIOUS
 <2>1.
   fcBackups[j].content =
     IF fcPast[fcBackups[j].file].first = fcTorn THEN fcDisk[fcBackups[j].file].content
     ELSE fcPast[fcBackups[j].file].first
   BY <1>5 DEF FcBacked
 <2>2. CASE fcBackups[j].file = f BY <1>1, <1>2, <1>3, <2>1, <2>2
 <2>3. CASE fcBackups[j].file # f BY <1>3, <1>6, <2>1, <2>3
 <2> QED BY <2>2, <2>3
<1> QED BY <1>2, <1>3, <1>4, <1>5, <1>7, <1>8 DEF FcBacked

LEMMA FcBackupFacts ==
  ASSUME FcInv, NEW f \in FcFiles, FcBackup(f), fcDisk' = fcDisk, fcPast' = fcPast
  PROVE
    /\ fcBackups' \in Seq(FcBackupTypes) /\ fcLast' \in {<<>>} \cup {<<g>> : g \in FcFiles}
    /\ fcLast'[1] = f
    /\ FcBacked' /\ FcHas(f)' /\ \A g : FcHas(g) => FcHas(g)'
<1>1. fcLast' = <<f>> /\ fcLast'[1] = f BY DEF FcBackup
<1>2. FcTypes /\ FcBacked BY DEF FcInv
<1>3. FcHas(f) <=> FcEntries(f) # {} BY DEF FcHas, FcEntries
<1>4. CASE FcHas(f)
 <2>1. fcBackups' = fcBackups BY <1>3, <1>4 DEF FcBackup
 <2>2. FcBacked' /\ \A g : FcHas(g)' <=> FcHas(g) BY <2>1, FcBackedSame
 <2> QED BY <1>1, <1>2, <1>4, <2>1, <2>2 DEF FcTypes
<1>5. CASE ~ FcHas(f)
 <2>1. fcPast[f].first = fcTorn /\ fcDisk[f].content \in Nat BY <1>2, <1>5 DEF FcBacked, FcTypes
 <2>2. PICK e : e = [file |-> f, content |-> fcDisk[f].content] OBVIOUS
 <2>3. e \in FcBackupTypes /\ e.file = f /\ e.content = fcDisk[f].content
   BY <2>1, <2>2 DEF FcBackupTypes
 <2>4. PICK n \in Nat : n = Len(fcBackups) BY FcParts
 <2>5. PICK more : more = Append(fcBackups, e) OBVIOUS
 <2>6.
   /\ more \in Seq(FcBackupTypes) /\ Len(more) = n + 1
   /\ \A i \in 1 .. Len(more) : more[i] = IF i <= n THEN fcBackups[i] ELSE e
   BY <1>2, <2>3, <2>4, <2>5, AppendNew DEF FcTypes
 <2>7. fcBackups' = more BY <1>3, <1>5, <2>2, <2>5 DEF FcBackup
 <2>8. DOMAIN fcBackups = 1 .. n /\ DOMAIN more = 1 .. n + 1 BY <2>4, <2>6, FcParts, Indices
 <2>9.
   /\ \A i \in DOMAIN fcBackups : i \in DOMAIN more /\ more[i] = fcBackups[i]
   /\ \A i \in DOMAIN more : i \in DOMAIN fcBackups \/ (i = n + 1 /\ more[i] = e)
   /\ n + 1 \in DOMAIN more /\ more[n + 1] = e
   BY <2>4, <2>6, <2>8
 <2>10. FcHas(f)' /\ \A g : FcHas(g) => FcHas(g)' BY <2>3, <2>7, <2>9 DEF FcHas
 <2>11. \A i \in DOMAIN fcBackups : fcBackups[i].file \in FcFiles /\ fcBackups[i].file # f
   BY <1>5, FcParts DEF FcHas, FcBackupTypes
 <2>12. \A i, j \in DOMAIN more : more[i].file = more[j].file => i = j
   BY <1>2, <2>3, <2>9, <2>11 DEF FcBacked
 <2>13.
   \A i \in DOMAIN more :
     LET g == more[i].file IN
     ~ fcPast[g].touched =>
       more[i].content = IF fcPast[g].first = fcTorn THEN fcDisk[g].content
                         ELSE fcPast[g].first
   BY <1>2, <2>1, <2>3, <2>9 DEF FcBacked
 <2>14. \A g \in FcFiles : IF fcPast'[g].first = fcTorn THEN fcDisk'[g].content >= 0 ELSE FcHas(g)'
   BY <1>2, <2>10 DEF FcBacked
 <2>15. FcBacked' BY <2>7, <2>12, <2>13, <2>14 DEF FcBacked
 <2> QED BY <1>1, <2>6, <2>7, <2>10, <2>15
<1> QED BY <1>4, <1>5

\* The first change of a file since its backup leaves what it held there as its past.
LEMMA FcChangesFacts ==
  ASSUME FcInv, NEW f \in FcFiles, NEW c \in Int, FcPut(f, c), FcChanges(f), FcHas(f),
    fcBackups' = fcBackups
  PROVE
    /\ fcPast' \in [FcFiles -> FcPastTypes]
    /\ FcBacked' /\ \A g : FcHas(g)' <=> FcHas(g)
    /\ fcPast'[f].first # fcTorn
    /\ \A g \in FcFiles : fcPast'[g].shown = fcPast[g].shown
<1>1. FcTypes /\ FcBacked BY DEF FcInv
<1>2.
  /\ fcDisk'[f].content = c
  /\ \A g \in FcFiles : g # f => fcDisk'[g] = fcDisk[g]
  BY <1>1, FcPutFacts
<1>3. PICK first \in Int : first = IF fcPast[f].first = fcTorn THEN fcDisk[f].content ELSE fcPast[f].first
  BY <1>1 DEF FcTypes, FcPastTypes
<1>4. first # fcTorn BY <1>1, <1>3 DEF FcBacked, fcTorn
<1>5.
  PICK touched \in BOOLEAN :
    touched <=> fcPast[f].touched \/ (fcCall.raced /\ fcPast[f].first = fcTorn)
  OBVIOUS
<1>6. PICK past : past = [fcPast[f] EXCEPT !.first = first, !.touched = touched] OBVIOUS
<1>7. fcPast \in [FcFiles -> FcPastTypes] /\ fcPast[f] \in FcPastTypes BY <1>1 DEF FcTypes
<1>8.
  /\ past \in FcPastTypes /\ past.first = first /\ past.shown = fcPast[f].shown
  /\ fcPast[f].touched => past.touched
  BY <1>5, <1>6, <1>7 DEF FcPastTypes
<1>9. fcPast' = [fcPast EXCEPT ![f] = past]
 <2>1.
   fcPast' = [fcPast EXCEPT ![f].first = first,
                            ![f].touched = fcPast[f].touched \/ (fcCall.raced /\ fcPast[f].first = fcTorn)]
   BY <1>3 DEF FcChanges
 <2>2. (fcPast[f].touched \/ (fcCall.raced /\ fcPast[f].first = fcTorn)) = touched BY <1>5
 <2>3. fcPast' = [fcPast EXCEPT ![f].first = first, ![f].touched = touched] BY <2>1, <2>2
 <2>4.
   [fcPast EXCEPT ![f].first = first, ![f].touched = touched] =
     [fcPast EXCEPT ![f] = [fcPast[f] EXCEPT !.first = first, !.touched = touched]]
   BY <1>7
 <2> QED BY <1>6, <2>3, <2>4
<1>10.
  /\ fcPast'[f] = past
  /\ \A g \in FcFiles : g # f => fcPast'[g] = fcPast[g]
  BY <1>7, <1>9
<1>11. fcPast' \in [FcFiles -> FcPastTypes] BY <1>7, <1>8, <1>9
<1>12. \A g : FcHas(g)' <=> FcHas(g) BY DEF FcHas
<1>13. \A g \in FcFiles : IF fcPast'[g].first = fcTorn THEN fcDisk'[g].content >= 0 ELSE FcHas(g)
 <2> SUFFICES ASSUME NEW g \in FcFiles
   PROVE IF fcPast'[g].first = fcTorn THEN fcDisk'[g].content >= 0 ELSE FcHas(g)
   OBVIOUS
 <2>1. CASE g = f BY <1>4, <1>8, <1>10, <2>1
 <2>2. CASE g # f BY <1>1, <1>2, <1>10, <2>2 DEF FcBacked
 <2> QED BY <2>1, <2>2
<1>14.
  \A i \in DOMAIN fcBackups :
    LET g == fcBackups[i].file IN
    ~ fcPast'[g].touched =>
      fcBackups[i].content = IF fcPast'[g].first = fcTorn THEN fcDisk'[g].content
                             ELSE fcPast'[g].first
 <2> SUFFICES ASSUME NEW i \in DOMAIN fcBackups, ~ fcPast'[fcBackups[i].file].touched
   PROVE
     fcBackups[i].content =
       IF fcPast'[fcBackups[i].file].first = fcTorn THEN fcDisk'[fcBackups[i].file].content
       ELSE fcPast'[fcBackups[i].file].first
   OBVIOUS
 <2>1. PICK g \in FcFiles : g = fcBackups[i].file BY FcParts DEF FcBackupTypes
 <2>2.
   ~ fcPast[g].touched =>
     fcBackups[i].content = IF fcPast[g].first = fcTorn THEN fcDisk[g].content ELSE fcPast[g].first
   BY <1>1, <2>1 DEF FcBacked
 <2>3. CASE g = f
  <3>1. ~ fcPast[f].touched BY <1>8, <1>10, <2>1, <2>3
  <3>2. fcBackups[i].content = first BY <1>3, <2>2, <2>3, <3>1
  <3> QED BY <1>4, <1>8, <1>10, <2>1, <2>3, <3>2
 <2>4. CASE g # f BY <1>2, <1>10, <2>1, <2>2, <2>4
 <2> QED BY <2>3, <2>4
<1>15. FcBacked' BY <1>1, <1>12, <1>13, <1>14 DEF FcBacked
<1> QED BY <1>4, <1>8, <1>10, <1>11, <1>12, <1>15

LEMMA FcMoreTouches ==
  ASSUME FcInv, fcMade' = [fcMade EXCEPT !.touches = @ + 1]
  PROVE fcMade' \in [contents: Nat, reads: Nat, touches: Nat]
<1>1. PICK touches \in Nat : touches = fcMade.touches + 1 BY DEF FcInv, FcTypes
<1> QED BY <1>1 DEF FcInv, FcTypes

LEMMA FcMoreContents ==
  ASSUME FcInv, fcMade' = [fcMade EXCEPT !.contents = @ + 1]
  PROVE /\ fcMade' \in [contents: Nat, reads: Nat, touches: Nat] /\ fcMade.contents + 1 \in Nat
<1>1. PICK contents \in Nat : contents = fcMade.contents + 1 BY DEF FcInv, FcTypes
<1> QED BY <1>1 DEF FcInv, FcTypes

\* Nothing is read: whatever is put, the reads are none.
LEMMA FcPutAlone ==
  ASSUME FcInv, NEW f \in FcFiles, NEW c \in Int, FcPut(f, c), ~ FcReading,
    fcCache' \in SUBSET fcCache, fcReads' = fcReads
  PROVE FcFresh'
<1>1. \A r \in FcReaders : fcReads'[r].step # "read" BY DEF FcReading
<1> QED BY <1>1, FcPutFresh

LEMMA FcUndoStep == ASSUME FcInv, FcUndo PROVE FcInv'
<1>1.
  /\ fcCall.step = "idle" /\ ~ FcReading /\ fcTx.status # "rolling" /\ fcBackups # <<>>
  /\ fcMade' = [fcMade EXCEPT !.touches = @ + 1]
  /\ fcCache' = fcCache /\ fcSeen' = fcSeen /\ fcBackups' = fcBackups
  /\ fcReads' = fcReads /\ fcCall' = fcCall /\ fcTx' = fcTx /\ fcPast' = fcPast
  BY DEF FcUndo
<1>2.
  PICK f : /\ f = IF fcLast = <<>> THEN fcBackups[Len(fcBackups)].file ELSE fcLast[1]
           /\ FcPut(f, FcEntry(f).content) /\ fcLast' = <<f>>
  BY DEF FcUndo
<1>3. FcTypes /\ FcBacked /\ FcHeld /\ FcAlone /\ FcGrounded /\ FcFresh BY DEF FcInv
<1>4. f \in FcFiles /\ FcHas(f)
 <2>1. CASE fcLast = <<>>
  <3>1. fcBackups \in Seq(FcBackupTypes) BY <1>3 DEF FcTypes
  <3>2. Len(fcBackups) \in DOMAIN fcBackups BY <1>1, <3>1, EmptySeq, Indices
  <3>3. f = fcBackups[Len(fcBackups)].file BY <1>2, <2>1
  <3> QED BY <3>2, <3>3, FcParts DEF FcHas, FcBackupTypes
 <2>2. CASE fcLast # <<>>
  <3>1. PICK g \in FcFiles : fcLast = <<g>> BY <1>3, <2>2 DEF FcTypes
  <3>2. f = g BY <1>2, <2>2, <3>1
  <3> QED BY <1>3, <2>2, <3>1, <3>2 DEF FcHeld
 <2> QED BY <2>1, <2>2
<1>5.
  /\ FcEntry(f).content \in Int /\ fcDisk' \in [FcFiles -> [content: Int, time: Nat]]
  /\ FcBacked' /\ \A g : FcHas(g)' <=> FcHas(g)
  BY <1>1, <1>2, <1>4, FcPutBack
<1>6. fcMade' \in [contents: Nat, reads: Nat, touches: Nat] BY <1>1, FcMoreTouches
<1>7. FcTypes' BY <1>1, <1>2, <1>3, <1>4, <1>5, <1>6 DEF FcTypes
<1>8. FcHeld'
 <2>1. fcLast'[1] = f BY <1>2
 <2> QED BY <1>1, <1>3, <1>4, <1>5, <2>1 DEF FcHeld
<1>9. FcAlone' /\ FcGrounded' BY <1>1, <1>3 DEF FcAlone, FcReading, FcGrounded
<1>10. FcFresh' BY <1>1, <1>2, <1>4, <1>5, FcPutAlone
<1> QED BY <1>5, <1>7, <1>8, <1>9, <1>10 DEF FcInv

LEMMA FcStartStep == ASSUME FcInv, FcStart PROVE FcInv'
<1>1.
  /\ fcCall.step = "idle" /\ ~ FcReading
  /\ fcDisk' = fcDisk /\ fcMade' = fcMade /\ fcCache' = fcCache /\ fcSeen' = fcSeen
  /\ fcBackups' = fcBackups /\ fcLast' = fcLast /\ fcReads' = fcReads /\ fcTx' = fcTx
  /\ fcPast' = fcPast
  BY DEF FcStart
<1>2. FcTypes /\ FcBacked /\ FcHeld /\ FcAlone /\ FcGrounded /\ FcFresh BY DEF FcInv
<1>3.
  PICK f \in FcFiles, tool \in {"edit", "write"} :
    fcCall' = [step |-> IF tool = "edit" THEN "check" ELSE "backup", tool |-> tool,
               file |-> f, base |-> fcTorn, raced |-> FALSE]
  BY DEF FcStart
<1>4.
  /\ fcCall' \in FcCallTypes /\ fcCall'.tool = tool
  /\ \/ tool = "edit" /\ fcCall'.step = "check"
     \/ tool = "write" /\ fcCall'.step = "backup"
  BY <1>3 DEF FcCallTypes, fcTorn
<1>5. FcTypes' BY <1>1, <1>2, <1>4 DEF FcTypes
<1>6. FcBacked' /\ \A g : FcHas(g)' <=> FcHas(g) BY <1>1, FcBackedSame
<1>7. FcHeld' /\ FcAlone' /\ FcGrounded'
  BY <1>1, <1>2, <1>4, <1>6 DEF FcHeld, FcAlone, FcReading, FcGrounded
<1>8. FcFresh' BY <1>1, FcFreshSame
<1> QED BY <1>5, <1>6, <1>7, <1>8 DEF FcInv

LEMMA FcCheckStep == ASSUME FcInv, FcCheck PROVE FcInv'
<1>1.
  /\ fcCall.step = "check"
  /\ fcDisk' = fcDisk /\ fcMade' = fcMade /\ fcCache' = fcCache /\ fcSeen' = fcSeen
  /\ fcBackups' = fcBackups /\ fcLast' = fcLast /\ fcReads' = fcReads /\ fcTx' = fcTx
  /\ fcPast' = fcPast
  BY DEF FcCheck
<1>2. FcTypes /\ FcBacked /\ FcHeld /\ FcAlone /\ FcGrounded /\ FcFresh BY DEF FcInv
<1>3. fcCall \in FcCallTypes /\ fcCall.file \in FcFiles BY <1>1, FcParts DEF FcCallTypes
<1>4.
  /\ fcCall' \in {FcIdle} \cup FcCallTypes
  /\ \/ fcCall'.step = "idle"
     \/ /\ fcCall'.step = "backup" /\ fcCall'.file = fcCall.file
        /\ fcCall'.base \in fcPast[fcCall.file].shown
 <2>1.
   CASE /\ FcMayEdit(fcCall.file)
        /\ fcCall' = [fcCall EXCEPT !.step = "backup", !.base = fcDisk[fcCall.file].content]
  <3>1. PICK base \in Int : base = fcDisk[fcCall.file].content BY <1>2, <1>3 DEF FcTypes
  <3>2. base \in fcPast[fcCall.file].shown BY <1>2, <1>3, <2>1, <3>1 DEF FcMayEdit, FcGrounded
  <3>3. fcCall' = [fcCall EXCEPT !.step = "backup", !.base = base] BY <2>1, <3>1
  <3> QED BY <1>3, <3>1, <3>2, <3>3 DEF FcCallTypes
 <2>2. CASE fcCall' = FcIdle BY <2>2 DEF FcIdle
 <2> QED BY <2>1, <2>2 DEF FcCheck
<1>5. FcTypes' BY <1>1, <1>2, <1>4 DEF FcTypes
<1>6. FcBacked' /\ \A g : FcHas(g)' <=> FcHas(g) BY <1>1, FcBackedSame
<1>7. FcHeld' /\ FcAlone' /\ FcGrounded'
  BY <1>1, <1>2, <1>4, <1>6 DEF FcHeld, FcAlone, FcReading, FcGrounded
<1>8. FcFresh' BY <1>1, FcFreshSame
<1> QED BY <1>5, <1>6, <1>7, <1>8 DEF FcInv

LEMMA FcBacksUpStep == ASSUME FcInv, FcBacksUp PROVE FcInv'
<1>1.
  /\ fcCall.step = "backup"
  /\ fcDisk' = fcDisk /\ fcMade' = fcMade /\ fcCache' = fcCache /\ fcSeen' = fcSeen
  /\ fcReads' = fcReads /\ fcTx' = fcTx /\ fcPast' = fcPast
  BY DEF FcBacksUp
<1>2. FcTypes /\ FcBacked /\ FcHeld /\ FcAlone /\ FcGrounded /\ FcFresh BY DEF FcInv
<1>3. fcCall \in FcCallTypes /\ fcCall.file \in FcFiles BY <1>1, FcParts DEF FcCallTypes
<1>4. FcFresh' BY <1>1, FcFreshSame
<1>5.
  CASE /\ FcBackup(fcCall.file)
       /\ fcCall' = [fcCall EXCEPT !.step = IF fcCall.tool = "edit" THEN "rename" ELSE "truncate"]
 <2>1.
   /\ fcBackups' \in Seq(FcBackupTypes) /\ fcLast' \in {<<>>} \cup {<<g>> : g \in FcFiles}
   /\ fcLast'[1] = fcCall.file
   /\ FcBacked' /\ FcHas(fcCall.file)' /\ \A g : FcHas(g) => FcHas(g)'
   BY <1>1, <1>3, <1>5, FcBackupFacts
 <2>2.
   PICK step \in {"rename", "truncate"} :
     step = (IF fcCall.tool = "edit" THEN "rename" ELSE "truncate")
   OBVIOUS
 <2>3. fcCall' = [fcCall EXCEPT !.step = step] BY <1>5, <2>2
 <2>4.
   /\ fcCall' \in FcCallTypes /\ fcCall'.step = step /\ fcCall'.file = fcCall.file
   /\ fcCall'.tool = fcCall.tool /\ fcCall'.base = fcCall.base
   BY <1>3, <2>3 DEF FcCallTypes
 <2>5. FcTypes' BY <1>1, <1>2, <2>1, <2>4 DEF FcTypes
 <2>6. FcHeld' BY <1>1, <1>2, <2>1, <2>2, <2>4 DEF FcHeld
 <2>7. FcAlone' /\ FcGrounded' BY <1>1, <1>2, <2>2, <2>4 DEF FcAlone, FcReading, FcGrounded
 <2> QED BY <1>4, <2>1, <2>5, <2>6, <2>7 DEF FcInv
<1>6. CASE fcCall' = FcIdle /\ UNCHANGED <<fcBackups, fcLast>>
 <2>1. FcTypes' /\ fcCall'.step = "idle" BY <1>1, <1>2, <1>6 DEF FcTypes, FcIdle
 <2>2. FcBacked' /\ \A g : FcHas(g)' <=> FcHas(g) BY <1>1, <1>6, FcBackedSame
 <2>3. FcHeld' /\ FcAlone' /\ FcGrounded'
   BY <1>1, <1>2, <1>6, <2>1, <2>2 DEF FcHeld, FcAlone, FcReading, FcGrounded
 <2> QED BY <1>4, <2>1, <2>2, <2>3 DEF FcInv
<1> QED BY <1>5, <1>6 DEF FcBacksUp

\* A call that gives up leaves everything as it is.
LEMMA FcGivesUp ==
  ASSUME FcInv, fcCall' = FcIdle, fcDisk' = fcDisk, fcMade' = fcMade, fcPast' = fcPast,
    fcCache' = fcCache, fcSeen' = fcSeen, fcBackups' = fcBackups, fcLast' = fcLast,
    fcReads' = fcReads, fcTx' = fcTx
  PROVE FcInv'
<1>1. FcTypes /\ FcBacked /\ FcHeld /\ FcAlone /\ FcGrounded /\ FcFresh BY DEF FcInv
<1>2. FcTypes' /\ fcCall'.step = "idle" BY <1>1 DEF FcTypes, FcIdle
<1>3. FcBacked' /\ \A g : FcHas(g)' <=> FcHas(g) BY FcBackedSame
<1>4. FcHeld' /\ FcAlone' /\ FcGrounded'
  BY <1>1, <1>2, <1>3 DEF FcHeld, FcAlone, FcReading, FcGrounded
<1>5. FcFresh' BY FcFreshSame
<1> QED BY <1>2, <1>3, <1>4, <1>5 DEF FcInv

\* The file changes under the tool: a new content, or the old one gone first.
LEMMA FcChangeStep ==
  ASSUME FcInv, NEW c \in Int, NEW step \in {"refresh", "fill"},
    fcCall.step \in {"rename", "truncate"},
    FcPut(fcCall.file, c), FcChanges(fcCall.file),
    fcMade' = [fcMade EXCEPT !.contents = @ + 1],
    fcCall' = [fcCall EXCEPT !.step = step, !.base = fcMade.contents + 1],
    fcCache' = fcCache, fcSeen' = fcSeen, fcBackups' = fcBackups, fcLast' = fcLast,
    fcReads' = fcReads, fcTx' = fcTx
  PROVE FcInv'
<1>1. FcTypes /\ FcBacked /\ FcHeld /\ FcAlone /\ FcGrounded /\ FcFresh BY DEF FcInv
<1>2. fcCall \in FcCallTypes /\ fcCall.file \in FcFiles /\ FcHas(fcCall.file) /\ ~ FcReading
  BY <1>1, FcParts DEF FcCallTypes, FcHeld, FcAlone
<1>3.
  /\ fcPast' \in [FcFiles -> FcPastTypes]
  /\ FcBacked' /\ \A g : FcHas(g)' <=> FcHas(g)
  /\ fcPast'[fcCall.file].first # fcTorn
  /\ \A g \in FcFiles : fcPast'[g].shown = fcPast[g].shown
  BY <1>2, FcChangesFacts
<1>4. /\ fcMade' \in [contents: Nat, reads: Nat, touches: Nat] /\ fcMade.contents + 1 \in Nat
  BY FcMoreContents
<1>5. fcDisk' \in [FcFiles -> [content: Int, time: Nat]] BY <1>1, <1>2, FcPutFacts
<1>6. PICK base \in Nat : base = fcMade.contents + 1 BY <1>4
<1>7.
  /\ fcCall' \in FcCallTypes /\ fcCall'.step = step /\ fcCall'.file = fcCall.file
  /\ fcCall'.base = base
 <2>1. PICK next : next = [fcCall EXCEPT !.step = step, !.base = base] OBVIOUS
 <2>2. fcCall' = next BY <1>6, <2>1
 <2>3. base \in Int OBVIOUS
 <2>4. next \in FcCallTypes /\ next.step = step /\ next.file = fcCall.file /\ next.base = base
   BY <1>2, <2>1, <2>3 DEF FcCallTypes
 <2> QED BY <2>2, <2>4
<1>8. FcTypes' BY <1>1, <1>3, <1>4, <1>5, <1>7 DEF FcTypes
<1>9. FcHeld' BY <1>1, <1>2, <1>3, <1>7 DEF FcHeld
<1>10. FcAlone' /\ FcGrounded' BY <1>1, <1>2, <1>3, <1>7 DEF FcAlone, FcReading, FcGrounded
<1>11. FcFresh' BY <1>2, FcPutAlone
<1> QED BY <1>3, <1>8, <1>9, <1>10, <1>11 DEF FcInv

LEMMA FcRenameStep == ASSUME FcInv, FcRename PROVE FcInv'
<1>1.
  /\ fcCall.step = "rename"
  /\ fcCache' = fcCache /\ fcSeen' = fcSeen /\ fcBackups' = fcBackups /\ fcLast' = fcLast
  /\ fcReads' = fcReads /\ fcTx' = fcTx
  BY DEF FcRename
<1>2. CASE fcCall' = FcIdle /\ UNCHANGED <<fcDisk, fcMade, fcPast>> BY <1>1, <1>2, FcGivesUp
<1>3.
  CASE /\ FcPut(fcCall.file, fcMade.contents + 1)
       /\ fcMade' = [fcMade EXCEPT !.contents = @ + 1] /\ FcChanges(fcCall.file)
       /\ fcCall' = [fcCall EXCEPT !.step = "refresh", !.base = fcMade.contents + 1]
 <2>1. fcMade.contents + 1 \in Int BY <1>3, FcMoreContents
 <2>2. PICK c \in Int : c = fcMade.contents + 1 BY <2>1
 <2>3. FcPut(fcCall.file, c) BY <1>3, <2>2
 <2> QED BY <1>1, <1>3, <2>3, FcChangeStep
<1> QED BY <1>2, <1>3 DEF FcRename

LEMMA FcTruncateStep == ASSUME FcInv, FcTruncate PROVE FcInv'
<1>1.
  /\ fcCall.step = "truncate"
  /\ fcCache' = fcCache /\ fcSeen' = fcSeen /\ fcBackups' = fcBackups /\ fcLast' = fcLast
  /\ fcReads' = fcReads /\ fcTx' = fcTx
  BY DEF FcTruncate
<1>2. CASE fcCall' = FcIdle /\ UNCHANGED <<fcDisk, fcMade, fcPast>> BY <1>1, <1>2, FcGivesUp
<1>3.
  CASE /\ FcPut(fcCall.file, fcTorn)
       /\ fcMade' = [fcMade EXCEPT !.contents = @ + 1] /\ FcChanges(fcCall.file)
       /\ fcCall' = [fcCall EXCEPT !.step = "fill", !.base = fcMade.contents + 1]
 <2>1. fcTorn \in Int BY DEF fcTorn
 <2> QED BY <1>1, <1>3, <2>1, FcChangeStep
<1> QED BY <1>2, <1>3 DEF FcTruncate

\* What a file that became unread leaves known.
LEMMA FcUnreadFacts ==
  ASSUME FcInv, NEW f \in FcFiles, fcSeen' = [fcSeen EXCEPT ![f] = FcUnread]
  PROVE
    /\ fcSeen' \in [FcFiles -> FcSeenTypes]
    /\ \A g \in FcFiles : fcSeen'[g].known /\ ~ fcSeen'[g].part => fcSeen'[g].content \in fcPast[g].shown
<1>1. FcUnread \in FcSeenTypes /\ ~ FcUnread.known BY DEF FcUnread, FcSeenTypes
<1>2.
  /\ fcSeen \in [FcFiles -> FcSeenTypes]
  /\ \A g \in FcFiles : fcSeen[g].known /\ ~ fcSeen[g].part => fcSeen[g].content \in fcPast[g].shown
  BY DEF FcInv, FcTypes, FcGrounded
<1> QED BY <1>1, <1>2

LEMMA FcRefreshStep == ASSUME FcInv, FcRefresh PROVE FcInv'
<1>1.
  /\ fcCall.step = "refresh" /\ fcCall' = FcIdle /\ fcCache' \in SUBSET fcCache
  /\ fcDisk' = fcDisk /\ fcMade' = fcMade /\ fcBackups' = fcBackups /\ fcLast' = fcLast
  /\ fcReads' = fcReads /\ fcTx' = fcTx
  BY DEF FcRefresh
<1>2. FcTypes /\ FcBacked /\ FcHeld /\ FcAlone /\ FcGrounded /\ FcFresh BY DEF FcInv
<1>3. fcCall.file \in FcFiles /\ fcCall.base \in Int BY <1>1, FcParts DEF FcCallTypes
<1>4.
  /\ fcSeen' \in [FcFiles -> FcSeenTypes] /\ fcPast' \in [FcFiles -> FcPastTypes]
  /\ \A g \in FcFiles :
       /\ fcPast'[g].first = fcPast[g].first /\ fcPast'[g].touched = fcPast[g].touched
       /\ fcSeen'[g].known /\ ~ fcSeen'[g].part => fcSeen'[g].content \in fcPast'[g].shown
 <2>1. CASE fcDisk[fcCall.file].content = 0
  <3>1. fcSeen' = [fcSeen EXCEPT ![fcCall.file] = FcUnread] /\ fcPast' = fcPast
    BY <2>1 DEF FcRefresh
  <3> QED BY <1>2, <1>3, <3>1, FcUnreadFacts DEF FcTypes
 <2>2. CASE fcDisk[fcCall.file].content # 0
  <3>1. FcShown(fcCall.file, fcCall.base, FALSE) BY <2>2 DEF FcRefresh
  <3>2. FALSE \in BOOLEAN OBVIOUS
  <3> QED BY <1>3, <3>1, <3>2, FcShownFacts
 <2> QED BY <2>1, <2>2
<1>5. FcTypes' /\ fcCall'.step = "idle" BY <1>1, <1>2, <1>4 DEF FcTypes, FcIdle
<1>6. FcBacked' /\ \A g : FcHas(g)' <=> FcHas(g) BY <1>1, <1>4, FcBackedSame
<1>7. FcHeld' /\ FcAlone' /\ FcGrounded'
  BY <1>1, <1>2, <1>4, <1>5, <1>6 DEF FcHeld, FcAlone, FcReading, FcGrounded
<1>8. FcFresh' BY <1>1, FcFreshSame
<1> QED BY <1>5, <1>6, <1>7, <1>8 DEF FcInv

LEMMA FcFillStep == ASSUME FcInv, FcFill PROVE FcInv'
<1>1.
  /\ fcCall.step = "fill" /\ fcCall' = FcIdle
  /\ fcMade' = fcMade /\ fcBackups' = fcBackups /\ fcLast' = fcLast
  /\ fcReads' = fcReads /\ fcTx' = fcTx /\ fcPast' = fcPast
  BY DEF FcFill
<1>2. CASE UNCHANGED <<fcDisk, fcCache, fcSeen>> BY <1>1, <1>2, FcGivesUp
<1>3.
  CASE /\ FcPut(fcCall.file, fcCall.base)
       /\ fcCache' = {entry \in fcCache : entry.key.file # fcCall.file}
       /\ fcSeen' = [fcSeen EXCEPT ![fcCall.file] = FcUnread]
 <2>1. FcTypes /\ FcBacked /\ FcHeld /\ FcAlone /\ FcGrounded /\ FcFresh BY DEF FcInv
 <2>2. PICK f \in FcFiles, c \in Int : f = fcCall.file /\ c = fcCall.base
   BY <1>1, FcParts DEF FcCallTypes
 <2>3. fcPast[f].first # fcTorn /\ ~ FcReading BY <1>1, <2>1, <2>2 DEF FcHeld, FcAlone
 <2>4. FcPut(f, c) /\ fcSeen' = [fcSeen EXCEPT ![f] = FcUnread] /\ fcCache' \in SUBSET fcCache
   BY <1>3, <2>2
 <2>5.
   /\ fcDisk' \in [FcFiles -> [content: Int, time: Nat]]
   /\ \A g \in FcFiles : g # f => fcDisk'[g] = fcDisk[g]
   BY <2>1, <2>4, FcPutFacts
 <2>6.
   /\ fcSeen' \in [FcFiles -> FcSeenTypes]
   /\ \A g \in FcFiles : fcSeen'[g].known /\ ~ fcSeen'[g].part => fcSeen'[g].content \in fcPast[g].shown
   BY <2>4, FcUnreadFacts
 <2>7. FcTypes' /\ fcCall'.step = "idle" BY <1>1, <2>1, <2>4, <2>5, <2>6 DEF FcTypes, FcIdle
 <2>8. \A g : FcHas(g)' <=> FcHas(g) BY <1>1 DEF FcHas
 <2>9. FcBacked'
  <3>1. \A i \in DOMAIN fcBackups : fcBackups[i].file \in FcFiles BY FcParts DEF FcBackupTypes
  <3>2. \A g \in FcFiles : IF fcPast[g].first = fcTorn THEN fcDisk'[g].content >= 0 ELSE FcHas(g)
    BY <2>1, <2>3, <2>5 DEF FcBacked
  <3>3.
    \A i \in DOMAIN fcBackups :
      LET g == fcBackups[i].file IN
      ~ fcPast[g].touched =>
        fcBackups[i].content = IF fcPast[g].first = fcTorn THEN fcDisk'[g].content
                               ELSE fcPast[g].first
    BY <2>1, <2>3, <2>5, <3>1 DEF FcBacked
  <3> QED BY <1>1, <2>1, <2>8, <3>2, <3>3 DEF FcBacked
 <2>10. FcHeld' /\ FcAlone' /\ FcGrounded'
   BY <1>1, <2>1, <2>3, <2>6, <2>7, <2>8 DEF FcHeld, FcAlone, FcReading, FcGrounded
 <2>11. FcFresh' BY <1>1, <2>3, <2>4, FcPutAlone
 <2> QED BY <2>7, <2>9, <2>10, <2>11 DEF FcInv
<1> QED BY <1>2, <1>3 DEF FcFill

LEMMA FcTxBeginStep == ASSUME FcInv, FcTxBegin PROVE FcInv'
<1>1.
  /\ fcMade' = [fcMade EXCEPT !.touches = @ + 1]
  /\ fcTx' = [status |-> "active", files |-> <<>>] /\ ~ FcReading
  /\ fcDisk' = fcDisk /\ fcCache' = fcCache /\ fcSeen' = fcSeen /\ fcBackups' = fcBackups
  /\ fcLast' = fcLast /\ fcReads' = fcReads /\ fcCall' = fcCall /\ fcPast' = fcPast
  BY DEF FcTxBegin
<1>2. FcTypes /\ FcBacked /\ FcHeld /\ FcAlone /\ FcGrounded /\ FcFresh BY DEF FcInv
<1>3.
  /\ fcTx'.status = "active" /\ fcTx'.files = <<>> /\ DOMAIN <<>> = {}
  /\ fcTx' \in [status: {"none", "active", "committed", "rolling", "rolled_back"}, files: Seq(FcFiles)]
  BY <1>1, EmptySeq
<1>4. FcTypes' BY <1>1, <1>2, <1>3, FcMoreTouches DEF FcTypes
<1>5. FcBacked' /\ \A g : FcHas(g)' <=> FcHas(g) BY <1>1, FcBackedSame
<1>6. FcHeld' /\ FcAlone' /\ FcGrounded'
  BY <1>1, <1>2, <1>3, <1>5 DEF FcHeld, FcAlone, FcReading, FcGrounded
<1>7. FcFresh' BY <1>1, FcFreshSame
<1> QED BY <1>4, <1>5, <1>6, <1>7 DEF FcInv

LEMMA FcTxAddStep == ASSUME FcInv, FcTxAdd PROVE FcInv'
<1>1.
  /\ ~ FcReading /\ fcTx.status = "active"
  /\ fcDisk' = fcDisk /\ fcMade' = fcMade /\ fcCache' = fcCache /\ fcSeen' = fcSeen
  /\ fcReads' = fcReads /\ fcCall' = fcCall /\ fcPast' = fcPast
  BY DEF FcTxAdd
<1>2. PICK f \in FcFiles : FcBackup(f) /\ fcTx' = [fcTx EXCEPT !.files = Append(@, f)]
  BY DEF FcTxAdd
<1>3. FcTypes /\ FcBacked /\ FcHeld /\ FcAlone /\ FcGrounded /\ FcFresh BY DEF FcInv
<1>4.
  /\ fcBackups' \in Seq(FcBackupTypes) /\ fcLast' \in {<<>>} \cup {<<g>> : g \in FcFiles}
  /\ fcLast'[1] = f
  /\ FcBacked' /\ FcHas(f)' /\ \A g : FcHas(g) => FcHas(g)'
  BY <1>1, <1>2, FcBackupFacts
<1>5. PICK files : files = fcTx.files OBVIOUS
<1>6. PICK more : more = Append(files, f) OBVIOUS
<1>7. files \in Seq(FcFiles) /\ \A i \in DOMAIN files : FcHas(files[i])
  BY <1>3, <1>5 DEF FcTypes, FcHeld
<1>8.
  /\ more \in Seq(FcFiles)
  /\ \A i \in DOMAIN more : FcHas(more[i])'
 <2>1.
   /\ more \in Seq(FcFiles) /\ Len(more) = Len(files) + 1
   /\ \A i \in 1 .. Len(more) : more[i] = IF i <= Len(files) THEN files[i] ELSE f
   BY <1>6, <1>7, AppendNew
 <2>2. Len(files) \in Nat /\ DOMAIN files = 1 .. Len(files) /\ DOMAIN more = 1 .. Len(files) + 1
   BY <1>7, <2>1, Indices
 <2>3. \A i \in DOMAIN more : (i \in DOMAIN files /\ more[i] = files[i]) \/ more[i] = f
   BY <2>1, <2>2
 <2> QED BY <1>4, <1>7, <2>1, <2>3
<1>9.
  /\ fcTx'.files = more /\ fcTx'.status = fcTx.status
  /\ fcTx' \in [status: {"none", "active", "committed", "rolling", "rolled_back"}, files: Seq(FcFiles)]
 <2>1. fcTx' = [fcTx EXCEPT !.files = more] BY <1>2, <1>5, <1>6
 <2> QED BY <1>3, <1>8, <2>1 DEF FcTypes
<1>10. FcTypes' BY <1>1, <1>3, <1>4, <1>9 DEF FcTypes
<1>11. FcHeld' BY <1>1, <1>3, <1>4, <1>8, <1>9 DEF FcHeld
<1>12. FcAlone' /\ FcGrounded' BY <1>1, <1>3 DEF FcAlone, FcReading, FcGrounded
<1>13. FcFresh' BY <1>1, FcFreshSame
<1> QED BY <1>4, <1>10, <1>11, <1>12, <1>13 DEF FcInv

LEMMA FcTxEndStep == ASSUME FcInv, FcTxEnd PROVE FcInv'
<1>1.
  /\ ~ FcReading
  /\ fcDisk' = fcDisk /\ fcMade' = fcMade /\ fcCache' = fcCache /\ fcSeen' = fcSeen
  /\ fcBackups' = fcBackups /\ fcLast' = fcLast
  /\ fcReads' = fcReads /\ fcCall' = fcCall /\ fcPast' = fcPast
  BY DEF FcTxEnd
<1>2. PICK status \in {"committed", "rolling"} : fcTx' = [fcTx EXCEPT !.status = status]
  BY DEF FcTxEnd
<1>3. FcTypes /\ FcBacked /\ FcHeld /\ FcAlone /\ FcGrounded /\ FcFresh BY DEF FcInv
<1>4. FcTypes' /\ fcTx'.files = fcTx.files BY <1>1, <1>2, <1>3 DEF FcTypes
<1>5. FcBacked' /\ \A g : FcHas(g)' <=> FcHas(g) BY <1>1, FcBackedSame
<1>6. FcHeld' /\ FcAlone' /\ FcGrounded'
  BY <1>1, <1>3, <1>4, <1>5 DEF FcHeld, FcAlone, FcReading, FcGrounded
<1>7. FcFresh' BY <1>1, FcFreshSame
<1> QED BY <1>4, <1>5, <1>6, <1>7 DEF FcInv

LEMMA FcTxRestoreStep == ASSUME FcInv, FcTxRestore PROVE FcInv'
<1>1.
  /\ fcCall.step = "idle" /\ fcTx.status = "rolling"
  /\ fcMade' = fcMade /\ fcSeen' = fcSeen /\ fcBackups' = fcBackups
  /\ fcReads' = fcReads /\ fcCall' = fcCall /\ fcPast' = fcPast
  BY DEF FcTxRestore
<1>2. FcTypes /\ FcBacked /\ FcHeld /\ FcAlone /\ FcGrounded /\ FcFresh BY DEF FcInv
<1>3. ~ FcReading /\ fcCall'.step = "idle" BY <1>1, <1>2 DEF FcAlone
<1>4. CASE fcTx.files = <<>>
 <2>1. fcTx' = [fcTx EXCEPT !.status = "rolled_back"] /\ UNCHANGED <<fcDisk, fcCache, fcLast>>
   BY <1>4 DEF FcTxRestore
 <2>2. FcTypes' /\ fcTx'.files = fcTx.files BY <1>1, <1>2, <2>1 DEF FcTypes
 <2>3. FcBacked' /\ \A g : FcHas(g)' <=> FcHas(g) BY <1>1, <2>1, FcBackedSame
 <2>4. FcHeld' /\ FcAlone' /\ FcGrounded'
   BY <1>1, <1>2, <1>3, <2>1, <2>2, <2>3 DEF FcHeld, FcAlone, FcReading, FcGrounded
 <2>5. FcFresh' BY <1>1, <2>1, FcFreshSame
 <2> QED BY <2>2, <2>3, <2>4, <2>5 DEF FcInv
<1>5. CASE fcTx.files # <<>>
 <2>1. PICK n : n = Len(fcTx.files) OBVIOUS
 <2>2. /\ fcTx.files \in Seq(FcFiles) /\ n \in Nat /\ n # 0 /\ DOMAIN fcTx.files = 1 .. n
   BY <1>2, <1>5, <2>1, EmptySeq, Indices DEF FcTypes
 <2>3. PICK f \in FcFiles : f = fcTx.files[n] /\ FcHas(f)
  <3>1. n \in DOMAIN fcTx.files BY <2>2
  <3> QED BY <1>2, <2>2, <3>1, Indices DEF FcHeld
 <2>4. PICK less : less = SubSeq(fcTx.files, 1, n - 1) OBVIOUS
 <2>5.
   /\ \/ FcPut(f, FcEntry(f).content) /\ fcLast' = <<f>>
      \/ UNCHANGED <<fcDisk, fcLast>>
   /\ fcCache' \in SUBSET fcCache /\ fcTx' = [fcTx EXCEPT !.files = less]
   BY <1>5, <2>1, <2>3, <2>4 DEF FcTxRestore
 <2>6. /\ less \in Seq(FcFiles) /\ \A i \in DOMAIN less : FcHas(less[i])
  <3>1. n - 1 \in Int /\ \A i \in 1 .. n - 1 : i \in DOMAIN fcTx.files BY <2>2
  <3>2. \A i \in 1 .. n - 1 : fcTx.files[i] \in FcFiles BY <2>2, <3>1, Indices
  <3>3. /\ less \in Seq(FcFiles) /\ Len(less) = (IF 1 <= n - 1 THEN n - 1 - 1 + 1 ELSE 0)
        /\ \A i \in 1 .. n - 1 - 1 + 1 : less[i] = fcTx.files[1 + i - 1]
    BY <2>4, <3>1, <3>2, SubSeqProperties
  <3>4. DOMAIN less = 1 .. n - 1 /\ \A i \in 1 .. n - 1 : i \in 1 .. n - 1 - 1 + 1 /\ 1 + i - 1 = i
   <4>1. Len(less) = n - 1 BY <2>2, <3>3
   <4> QED BY <2>2, <3>3, <4>1, Indices
  <3>5. \A i \in DOMAIN less : i \in DOMAIN fcTx.files /\ less[i] = fcTx.files[i]
    BY <3>1, <3>3, <3>4
  <3> QED BY <1>2, <3>3, <3>5 DEF FcHeld
 <2>7.
   /\ fcDisk' \in [FcFiles -> [content: Int, time: Nat]]
   /\ FcBacked' /\ \A g : FcHas(g)' <=> FcHas(g)
   /\ FcFresh'
  <3>1. CASE FcPut(f, FcEntry(f).content) /\ fcLast' = <<f>>
   <4>1. /\ FcEntry(f).content \in Int /\ fcDisk' \in [FcFiles -> [content: Int, time: Nat]]
         /\ FcBacked' /\ \A g : FcHas(g)' <=> FcHas(g)
     BY <1>1, <2>3, <3>1, FcPutBack
   <4>2. FcFresh' BY <1>1, <1>3, <2>5, <3>1, <4>1, FcPutAlone
   <4> QED BY <4>1, <4>2
  <3>2. CASE UNCHANGED <<fcDisk, fcLast>>
   <4>1. FcBacked' /\ \A g : FcHas(g)' <=> FcHas(g) BY <1>1, <3>2, FcBackedSame
   <4>2. FcFresh' BY <1>1, <2>5, <3>2, FcFreshSame
   <4> QED BY <1>2, <3>2, <4>1, <4>2 DEF FcTypes
  <3> QED BY <2>5, <3>1, <3>2
 <2>8. fcTx'.files = less /\ FcTypes' BY <1>1, <1>2, <2>5, <2>6, <2>7 DEF FcTypes
 <2>9. FcHeld'
  <3>1. fcLast' = <<f>> \/ fcLast' = fcLast BY <2>5
  <3> QED BY <1>1, <1>2, <1>3, <2>3, <2>6, <2>7, <2>8, <3>1 DEF FcHeld
 <2>10. FcAlone' /\ FcGrounded' BY <1>1, <1>2, <1>3 DEF FcAlone, FcReading, FcGrounded
 <2> QED BY <2>7, <2>8, <2>9, <2>10 DEF FcInv
<1> QED BY <1>4, <1>5

LEMMA FcRestartStep == ASSUME FcInv, FcRestart PROVE FcInv'
<1>1.
  /\ fcMade' = [fcMade EXCEPT !.touches = @ + 1]
  /\ fcCache' = {} /\ fcSeen' = [f \in FcFiles |-> FcUnread] /\ fcLast' = <<>>
  /\ fcReads' = [r \in FcReaders |-> FcIdle] /\ fcCall' = FcIdle /\ fcTx' = FcNoTx
  /\ fcPast' = [f \in FcFiles |-> [fcPast[f] EXCEPT !.shown = {}]]
  /\ fcDisk' = fcDisk /\ fcBackups' = fcBackups
  BY DEF FcRestart
<1>2. FcTypes /\ FcBacked /\ FcHeld /\ FcAlone /\ FcGrounded /\ FcFresh BY DEF FcInv
<1>3. FcIdle.step = "idle" /\ FcUnread \in FcSeenTypes /\ ~ FcUnread.known
  BY DEF FcIdle, FcUnread, FcSeenTypes
<1>4.
  /\ FcNoTx \in [status: {"none", "active", "committed", "rolling", "rolled_back"}, files: Seq(FcFiles)]
  /\ FcNoTx.files = <<>> /\ FcNoTx.status = "none" /\ DOMAIN <<>> = {}
  BY EmptySeq DEF FcNoTx
<1>5.
  /\ fcPast' \in [FcFiles -> FcPastTypes]
  /\ \A f \in FcFiles : fcPast'[f].first = fcPast[f].first /\ fcPast'[f].touched = fcPast[f].touched
 <2> SUFFICES ASSUME NEW f \in FcFiles
   PROVE
     /\ [fcPast[f] EXCEPT !.shown = {}] \in FcPastTypes
     /\ [fcPast[f] EXCEPT !.shown = {}].first = fcPast[f].first
     /\ [fcPast[f] EXCEPT !.shown = {}].touched = fcPast[f].touched
   BY <1>1
 <2>1. fcPast[f] \in FcPastTypes BY <1>2 DEF FcTypes
 <2> QED BY <2>1 DEF FcPastTypes
<1>6. FcTypes' BY <1>1, <1>2, <1>3, <1>4, <1>5, FcMoreTouches DEF FcTypes
<1>7. FcBacked' /\ \A g : FcHas(g)' <=> FcHas(g) BY <1>1, <1>5, FcBackedSame
<1>8. FcHeld' BY <1>1, <1>3, <1>4 DEF FcHeld
<1>9. FcAlone' /\ FcGrounded' BY <1>1, <1>3, <1>4 DEF FcAlone, FcReading, FcGrounded
<1>10. FcFresh' BY <1>1, <1>3 DEF FcFresh, FcCacheTrue
<1> QED BY <1>6, <1>7, <1>8, <1>9, <1>10 DEF FcInv

LEMMA FcBegin == ASSUME FcInit PROVE FcInv
<1>1.
  /\ fcDisk = [f \in FcFiles |-> [content |-> IF f \in FcThere THEN 1 ELSE 0, time |-> 0]]
  /\ fcMade = [contents |-> 1, reads |-> 0, touches |-> 0]
  /\ fcCache = {} /\ fcSeen = [f \in FcFiles |-> FcUnread]
  /\ fcBackups = <<>> /\ fcLast = <<>>
  /\ fcReads = [r \in FcReaders |-> FcIdle] /\ fcCall = FcIdle /\ fcTx = FcNoTx
  /\ fcPast = [f \in FcFiles |-> [first |-> fcTorn, shown |-> {}, touched |-> FALSE]]
  BY DEF FcInit
<1>2. FcIdle.step = "idle" /\ FcUnread \in FcSeenTypes /\ ~ FcUnread.known
  BY DEF FcIdle, FcUnread, FcSeenTypes
<1>3.
  /\ FcNoTx \in [status: {"none", "active", "committed", "rolling", "rolled_back"}, files: Seq(FcFiles)]
  /\ FcNoTx.files = <<>> /\ FcNoTx.status = "none" /\ DOMAIN <<>> = {}
  /\ <<>> \in Seq(FcBackupTypes)
  BY EmptySeq DEF FcNoTx
<1>4. \A f \in FcFiles : fcDisk[f].content \in {0, 1} /\ fcPast[f].first = fcTorn BY <1>1
<1>5. FcTypes
 <2>1. fcPast \in [FcFiles -> FcPastTypes] BY <1>1 DEF FcPastTypes, fcTorn
 <2>2. fcDisk \in [FcFiles -> [content: Int, time: Nat]] BY <1>1
 <2> QED BY <1>1, <1>2, <1>3, <2>1, <2>2 DEF FcTypes
<1>6. FcBacked BY <1>1, <1>3, <1>4 DEF FcBacked
<1>7. FcHeld /\ FcAlone /\ FcGrounded
  BY <1>1, <1>2, <1>3 DEF FcHeld, FcAlone, FcReading, FcGrounded
<1>8. FcFresh BY <1>1, <1>2 DEF FcFresh, FcCacheTrue
<1> QED BY <1>5, <1>6, <1>7, <1>8 DEF FcInv

\* Whatever reads, edits, writes, transactions, other programs and restarts do to files,
\* each has one backup at most, of what it held before its first change; what is
\* restored or changed has one; and what is known of a file was shown (BackupStore,
\* ToolCache, readFileState).
THEOREM FcInvariant == FcSpec => []FcInv
<1>1. FcInv /\ [FcNext]_fcVars => FcInv'
 <2> SUFFICES ASSUME FcInv, [FcNext]_fcVars PROVE FcInv' OBVIOUS
 <2>1. CASE FcOthers BY <2>1, FcOthersStep
 <2>2. CASE FcRead BY <2>2, FcReadStep
 <2>3. CASE FcReadContent BY <2>3, FcReadContentStep
 <2>4. CASE FcReadDone BY <2>4, FcReadDoneStep
 <2>5. CASE FcForgets BY <2>5, FcForgetsStep
 <2>6. CASE FcUndo BY <2>6, FcUndoStep
 <2>7. CASE FcStart BY <2>7, FcStartStep
 <2>8. CASE FcCheck BY <2>8, FcCheckStep
 <2>9. CASE FcBacksUp BY <2>9, FcBacksUpStep
 <2>10. CASE FcRename BY <2>10, FcRenameStep
 <2>11. CASE FcRefresh BY <2>11, FcRefreshStep
 <2>12. CASE FcTruncate BY <2>12, FcTruncateStep
 <2>13. CASE FcFill BY <2>13, FcFillStep
 <2>14. CASE FcTxBegin BY <2>14, FcTxBeginStep
 <2>15. CASE FcTxAdd BY <2>15, FcTxAddStep
 <2>16. CASE FcTxEnd BY <2>16, FcTxEndStep
 <2>17. CASE FcTxRestore BY <2>17, FcTxRestoreStep
 <2>18. CASE FcRestart BY <2>18, FcRestartStep
 <2>19. CASE UNCHANGED fcVars
  <3>1.
    /\ fcDisk' = fcDisk /\ fcMade' = fcMade /\ fcCache' = fcCache /\ fcSeen' = fcSeen
    /\ fcBackups' = fcBackups /\ fcLast' = fcLast /\ fcReads' = fcReads /\ fcCall' = fcCall
    /\ fcTx' = fcTx /\ fcPast' = fcPast
    BY <2>19 DEF fcVars
  <3>2. FcTypes /\ FcBacked /\ FcHeld /\ FcAlone /\ FcGrounded /\ FcFresh BY DEF FcInv
  <3>3. FcTypes' BY <3>1, <3>2 DEF FcTypes
  <3>4. FcBacked' /\ \A g : FcHas(g)' <=> FcHas(g) BY <3>1, FcBackedSame
  <3>5. FcHeld' /\ FcAlone' /\ FcGrounded'
    BY <3>1, <3>2, <3>4 DEF FcHeld, FcAlone, FcReading, FcGrounded
  <3>6. FcFresh' BY <3>1, FcFreshSame
  <3> QED BY <3>3, <3>4, <3>5, <3>6 DEF FcInv
 <2> QED
   BY <2>1, <2>2, <2>3, <2>4, <2>5, <2>6, <2>7, <2>8, <2>9, <2>10, <2>11, <2>12, <2>13, <2>14,
      <2>15, <2>16, <2>17, <2>18, <2>19 DEF FcNext
<1> QED BY <1>1, FcBegin, PTL DEF FcSpec

\* A change of the agent can be taken back, rests on what it saw, and shows in its next
\* read, for any files, readers and size of the cache (ToolCache, BackupStore, FileEdit).
THEOREM ChangesStaySafe == FcSpec => []ChangesAreSafe
<1>1. FcInv => ChangesAreSafe
 <2> SUFFICES ASSUME FcInv PROVE ChangesAreSafe OBVIOUS
 <2>1. FcUndoable
  <3> SUFFICES ASSUME NEW f \in FcFiles, fcPast[f].first # fcTorn, ~ fcPast[f].touched
    PROVE FcEntries(f) # {} /\ FcEntry(f).content = fcPast[f].first
    BY DEF FcUndoable
  <3>1. FcHas(f) BY DEF FcInv, FcBacked
  <3>2. PICK i \in DOMAIN fcBackups : fcBackups[i].file = f /\ FcEntry(f) = fcBackups[i]
    BY <3>1, FcEntryFacts
  <3>3. fcBackups[i].content = fcPast[f].first BY <3>2 DEF FcInv, FcBacked
  <3> QED BY <3>2, <3>3 DEF FcEntries
 <2>2. FcNoBlindEdit BY DEF FcInv, FcGrounded, FcNoBlindEdit
 <2>3. FcCacheTrue BY DEF FcInv, FcFresh
 <2> QED BY <2>1, <2>2, <2>3 DEF ChangesAreSafe
<1> QED BY <1>1, FcInvariant, PTL

--------------------
(* Verdicts *)

VdTaskTypes ==
  [status: {"pending"} \cup VdDone \cup VdFailing, needs: SUBSET Nat, retries: Nat,
   verified: {"none", "passed", "failed", "ambiguous", "pending"}]

VdReasons == {"none", "plain"} \cup VdTexts

VdStepTypes ==
  [id: Nat, status: VdDone \cup VdFailing, outcome: VdOutcomes, reason: VdReasons,
   verified: {"passed", "failed", "ambiguous", "pending"}, said: {"failure", "success", "mixed"}]

VdTypes ==
  /\ vdTasks \in Seq(VdTaskTypes) /\ vdSteps \in Seq(VdStepTypes)
  /\ \A i \in DOMAIN vdSteps : vdSteps[i].id \in DOMAIN vdTasks
  /\ vdAt \in 0 .. Len(vdTasks)

VdIsLast(i) == \A j \in DOMAIN vdSteps : vdSteps[j].id = vdSteps[i].id => j <= i

\* The last step of a task tells whether it is done; a retry is not.
VdLastAgrees ==
  \A i \in DOMAIN vdSteps : VdIsLast(i) =>
    (vdSteps[i].status \in VdDone <=> vdTasks[vdSteps[i].id].status \in VdDone)

\* What the cursor has passed has been run, what is before it has not failed.
VdPlaces ==
  \A i \in DOMAIN vdTasks :
    /\ vdAt # 0 /\ i < vdAt => vdTasks[i].status # "pending"
    /\ vdAt # 0 /\ i >= vdAt => vdTasks[i].status \notin VdFailing
    /\ vdAt = 0 => vdTasks[i].status # "pending" \/ VdHas("needs_user")

\* Where the failures of tasks and verifications are to be found.
VdFailures ==
  /\ \A i \in DOMAIN vdSteps :
       /\ vdSteps[i].outcome = "failure" =>
            vdTasks[vdSteps[i].id].retries > 0 \/ vdTasks[vdSteps[i].id].status \in VdFailing
       /\ vdSteps[i].verified = "failed" /\ vdSteps[i].outcome # "failure" =>
            vdSteps[i].said = "mixed"
  /\ \A i \in DOMAIN vdTasks : vdTasks[i].verified = "failed" =>
       \E j \in DOMAIN vdSteps : vdSteps[j].verified = "failed"

\* The answers are about what is still there.
VdAsked == (vdAnswers.known => vdAt = 0) /\ VdFinished /\ VdAdviceSound /\ VdSplits

VdInv == VdTypes /\ VdLastAgrees /\ VdUnanimous /\ VdPlaces /\ VdFailures /\ VdAsked

\* What the places of a result can say.
VdSays(rec) ==
  /\ rec.outcome \in VdOutcomes \cup {"none"} /\ rec.success \in {"success", "failure", "none"}
  /\ rec.status \in VdOutcomes \cup {"none", "pending", "needs_user", "blocked"}
  /\ rec.isError \in {"success", "failure", "none"}

LEMMA VdResultTypes ==
  ASSUME NEW result \in VdResults
  PROVE
    /\ VdSays(result.verif) /\ VdSays(result.own)
    /\ result.verif.status \in VdOutcomes \cup {"none", "pending"}
    /\ result.hint \in {"none", "met", "missed", "mute"} /\ result.texts \in Seq(VdTexts)
<1>1. VdSays(VdSilent) /\ VdSilent.status = "none" BY DEF VdSays, VdSilent
<1>2.
  /\ <<>> \in Seq(VdTexts) /\ <<"so-so", "broken">> \in Seq(VdTexts)
  /\ \A t \in VdTexts : <<t>> \in Seq(VdTexts)
  /\ "done" \in VdTexts /\ "broken" \in VdTexts
  BY DEF VdTexts
<1>3. ASSUME NEW o \in SUBSET VdOutcomes, NEW s, NEW rec \in VdRecords(o, s)
  PROVE
    /\ rec.outcome \in VdOutcomes \cup {"none"}
    /\ rec.success \in {"success", "failure", "none"} /\ rec.status \in s \cup {"none"}
    /\ rec.isError \in {"success", "failure", "none"}
  BY <1>3 DEF VdRecords
<1>4. ASSUME
    NEW rec \in VdRecords({"success", "failure"}, {"success", "failure", "pending"})
             \cup VdRecords({"ambiguous"}, {}) \cup VdRecords({}, {"ambiguous"})
  PROVE VdSays(rec) /\ rec.status \in VdOutcomes \cup {"none", "pending"}
 <2>1. CASE rec \in VdRecords({"success", "failure"}, {"success", "failure", "pending"})
   BY <1>3, <2>1 DEF VdSays, VdOutcomes
 <2>2. CASE rec \in VdRecords({"ambiguous"}, {}) BY <1>3, <2>2 DEF VdSays, VdOutcomes
 <2>3. CASE rec \in VdRecords({}, {"ambiguous"}) BY <1>3, <2>3 DEF VdSays, VdOutcomes
 <2> QED BY <1>4, <2>1, <2>2, <2>3
<1>5. ASSUME
    NEW rec \in VdRecords(VdOutcomes, {})
             \cup VdRecords({}, {"success", "failure", "needs_user", "blocked"})
  PROVE VdSays(rec)
 <2>1. CASE rec \in VdRecords(VdOutcomes, {}) BY <1>3, <2>1 DEF VdSays, VdOutcomes
 <2>2. CASE rec \in VdRecords({}, {"success", "failure", "needs_user", "blocked"})
   BY <1>3, <2>2 DEF VdSays, VdOutcomes
 <2> QED BY <1>5, <2>1, <2>2
<1>6.
  CASE \E v \in VdRecords({"success", "failure"}, {"success", "failure", "pending"})
                \cup VdRecords({"ambiguous"}, {}) \cup VdRecords({}, {"ambiguous"}) :
          result = VdResult(v, VdSilent, "none", <<"done">>)
 <2>1.
   PICK v \in VdRecords({"success", "failure"}, {"success", "failure", "pending"})
              \cup VdRecords({"ambiguous"}, {}) \cup VdRecords({}, {"ambiguous"}) :
          result = VdResult(v, VdSilent, "none", <<"done">>)
   BY <1>6
 <2>2. VdSays(v) /\ v.status \in VdOutcomes \cup {"none", "pending"} BY <1>4, <2>1
 <2> QED BY <1>1, <1>2, <2>1, <2>2 DEF VdResult
<1>7.
  CASE \E o \in VdRecords(VdOutcomes, {})
                \cup VdRecords({}, {"success", "failure", "needs_user", "blocked"}) :
          result = VdResult(VdSilent, o, "none", <<"broken">>)
 <2>1.
   PICK o \in VdRecords(VdOutcomes, {})
              \cup VdRecords({}, {"success", "failure", "needs_user", "blocked"}) :
          result = VdResult(VdSilent, o, "none", <<"broken">>)
   BY <1>7
 <2>2. VdSays(o) BY <1>5, <2>1
 <2> QED BY <1>1, <1>2, <2>1, <2>2 DEF VdResult
<1>8.
  CASE \E h \in {"met", "missed", "mute"} :
          result = VdResult(VdSilent, VdSilent, h, <<"broken">>)
  BY <1>1, <1>2, <1>8 DEF VdResult
<1>9.
  CASE \E t \in {<<text>> : text \in VdTexts} \cup {<<>>, <<"so-so", "broken">>} :
          result = VdResult(VdSilent, VdSilent, "none", t)
 <2>1.
   PICK t \in {<<text>> : text \in VdTexts} \cup {<<>>, <<"so-so", "broken">>} :
          result = VdResult(VdSilent, VdSilent, "none", t)
   BY <1>9
 <2>2. t \in Seq(VdTexts) BY <1>2, <2>1
 <2> QED BY <1>1, <2>1, <2>2 DEF VdResult
<1> QED BY <1>6, <1>7, <1>8, <1>9 DEF VdResults

\* The least and the greatest of a set of indices.
LEMMA VdExtremes ==
  ASSUME NEW n \in Nat, NEW T \in SUBSET (1 .. n), T # {}
  PROVE
    /\ \E x \in T : \A y \in T : x <= y
    /\ \E x \in T : \A y \in T : x >= y
<1>1. T \in SUBSET Nat /\ T \in SUBSET (0 .. n) OBVIOUS
<1>2. \E x \in T : \A y \in T : x <= y BY <1>1, LeastMember
<1>3. \E x \in T : \A y \in T : x >= y
 <2>1. PICK x \in T : \A y \in T : y <= x BY <1>1, GreatestMember
 <2>2. \A y \in T : x >= y BY <1>1, <2>1
 <2> QED BY <2>2
<1> QED BY <1>2, <1>3

\* What is said in all places is said by the verdict.
LEMMA VdMeans ==
  ASSUME NEW result \in VdResults
  PROVE
    LET verdict == VdEvaluate(result) IN
    /\ VdSaid(result) \in {"failure", "success", "mixed"}
    /\ verdict.outcome \in VdOutcomes /\ verdict.reason \in VdReasons
    /\ VdSaid(result) = "failure" => verdict.outcome = "failure"
    /\ VdSaid(result) = "success" => verdict.outcome = "success"
    /\ result.verif.status = "failure" /\ verdict.outcome # "failure" =>
         VdSaid(result) = "mixed"
<1> DEFINE fields(rec) == {rec.outcome, rec.success, rec.status, rec.isError}
  hinted == IF result.hint \in {"met", "missed"} THEN {VdByHint(result.hint)} ELSE {}
  words == {VdByText(result.texts[i]) : i \in DOMAIN result.texts}
  all == (fields(result.verif) \cup fields(result.own) \cup hinted \cup words)
         \ {"none", "pending"}
  verdict == VdEvaluate(result)
<1>1.
  /\ VdSays(result.verif) /\ VdSays(result.own)
  /\ result.hint \in {"none", "met", "missed", "mute"} /\ result.texts \in Seq(VdTexts)
  BY VdResultTypes
<1>2.
  VdSaid(result) = IF all \subseteq {"failure"} THEN "failure"
                   ELSE IF all = {"success"} THEN "success" ELSE "mixed"
  BY DEF VdSaid
<1>3. ASSUME NEW rec, VdSays(rec), VdByRecord(rec) # "none"
  PROVE VdByRecord(rec) \in VdOutcomes /\ VdByRecord(rec) \in fields(rec) \ {"none", "pending"}
  BY <1>3 DEF VdSays, VdByRecord, VdOutcomes
<1>4.
  /\ Len(result.texts) \in Nat /\ DOMAIN result.texts = 1 .. Len(result.texts)
  /\ \A i \in DOMAIN result.texts : /\ result.texts[i] \in VdTexts
                                    /\ VdByText(result.texts[i]) \in VdOutcomes
 <2>1.
   /\ Len(result.texts) \in Nat /\ DOMAIN result.texts = 1 .. Len(result.texts)
   /\ \A i \in DOMAIN result.texts : result.texts[i] \in VdTexts
   BY <1>1, Indices
 <2>2. \A t : VdByText(t) \in VdOutcomes BY DEF VdByText, VdOutcomes
 <2> QED BY <2>1, <2>2
<1>5. VdVerdict("failure", "structural", "plain").outcome = "failure" BY DEF VdVerdict
<1>6. \A o, s, r : VdVerdict(o, s, r).outcome = o /\ VdVerdict(o, s, r).reason = r
  BY DEF VdVerdict
\* A verdict is one of the things said, or it is failure and no outcome is said at all.
<1>7.
  /\ verdict.reason \in VdReasons /\ verdict.outcome \in VdOutcomes
  /\ \/ verdict.outcome \in all
     \/ all \subseteq {"needs_user", "blocked"} /\ verdict.outcome = "failure"
 <2>1. CASE VdByRecord(result.verif) # "none"
  <3>1. verdict = VdVerdict(VdByRecord(result.verif), "deterministic", "none")
    BY <2>1 DEF VdEvaluate
  <3> HIDE DEF verdict
  <3>2. VdByRecord(result.verif) \in all /\ VdByRecord(result.verif) \in VdOutcomes
    BY <1>1, <1>3, <2>1
  <3> HIDE DEF all
  <3> QED BY <1>6, <3>1, <3>2 DEF VdReasons
 <2>2. CASE VdByRecord(result.verif) = "none" /\ VdByRecord(result.own) # "none"
  <3>1. verdict = VdVerdict(VdByRecord(result.own), "deterministic", "none")
    BY <2>2 DEF VdEvaluate
  <3> HIDE DEF verdict
  <3>2. VdByRecord(result.own) \in all /\ VdByRecord(result.own) \in VdOutcomes
    BY <1>1, <1>3, <2>2
  <3> HIDE DEF all
  <3> QED BY <1>6, <3>1, <3>2 DEF VdReasons
 <2>3.
   CASE /\ VdByRecord(result.verif) = "none" /\ VdByRecord(result.own) = "none"
        /\ result.hint \in {"met", "missed"}
  <3>1. verdict = VdVerdict(VdByHint(result.hint), "deterministic", "plain")
    BY <2>3 DEF VdEvaluate
  <3> HIDE DEF verdict
  <3>2. VdByHint(result.hint) \in all /\ VdByHint(result.hint) \in VdOutcomes
    BY <2>3 DEF VdByHint, VdOutcomes
  <3> HIDE DEF all
  <3> QED BY <1>6, <3>1, <3>2 DEF VdReasons
 <2>4.
   CASE /\ VdByRecord(result.verif) = "none" /\ VdByRecord(result.own) = "none"
        /\ result.hint \notin {"met", "missed"}
  <3> DEFINE clear == {i \in DOMAIN result.texts : VdByText(result.texts[i]) # "ambiguous"}
  <3>1. verdict = VdByTexts(result.texts) BY <2>4 DEF VdEvaluate
  <3> HIDE DEF verdict
  <3>2. CASE result.texts = <<>>
   <4>1. verdict = VdVerdict("failure", "structural", "plain") BY <3>1, <3>2 DEF VdByTexts
   <4>2. \A rec : VdSays(rec) /\ VdByRecord(rec) = "none" =>
                    fields(rec) \subseteq {"none", "pending", "needs_user", "blocked"}
     BY DEF VdSays, VdByRecord, VdOutcomes
   <4>3. hinted = {} /\ words = {}
    <5>1. DOMAIN result.texts = {} BY <3>2
    <5> QED BY <2>4, <5>1
   <4>4. all \subseteq {"needs_user", "blocked"}
    <5>1. /\ fields(result.verif) \subseteq {"none", "pending", "needs_user", "blocked"}
          /\ fields(result.own) \subseteq {"none", "pending", "needs_user", "blocked"}
      BY <1>1, <2>4, <4>2
    <5> HIDE DEF hinted, words
    <5> QED BY <4>3, <5>1
   <4> HIDE DEF all
   <4> QED BY <1>6, <4>1, <4>4 DEF VdReasons, VdOutcomes
  <3>3. CASE result.texts # <<>> /\ clear = {}
   <4>1. verdict = VdVerdict("ambiguous", "structural", "plain") BY <3>1, <3>3 DEF VdByTexts
   <4>2. 1 \in DOMAIN result.texts BY <1>1, <1>4, <3>3, EmptySeq
   <4>3. VdByText(result.texts[1]) = "ambiguous" BY <3>3, <4>2
   <4>4. "ambiguous" \in all BY <4>2, <4>3
   <4> HIDE DEF all
   <4> QED BY <1>6, <4>1, <4>4 DEF VdReasons, VdOutcomes
  <3>4. CASE result.texts # <<>> /\ clear # {}
   <4> DEFINE first == CHOOSE i \in clear : \A j \in clear : i <= j
   <4>1. verdict = VdVerdict(VdByText(result.texts[first]), "structural", result.texts[first])
     BY <3>1, <3>4 DEF VdByTexts
   <4>2. first \in clear
    <5>1. clear \in SUBSET (1 .. Len(result.texts)) /\ clear # {} BY <1>4, <3>4
    <5> HIDE DEF clear
    <5>2. \E i \in clear : \A j \in clear : i <= j BY <1>4, <5>1, VdExtremes
    <5> QED BY <5>2
   <4> HIDE DEF first
   <4>3. first \in DOMAIN result.texts BY <4>2
   <4>4. VdByText(result.texts[first]) \in all BY <1>4, <4>3 DEF VdOutcomes
   <4> HIDE DEF all
   <4> QED BY <1>4, <1>6, <4>1, <4>3, <4>4 DEF VdReasons
  <3> QED BY <3>2, <3>3, <3>4
 <2> QED BY <2>1, <2>2, <2>3, <2>4
<1>10. result.verif.status = "failure" => "failure" \in all OBVIOUS
<1> HIDE DEF all, verdict
<1>8.
  /\ all \subseteq {"failure"} => verdict.outcome = "failure"
  /\ all = {"success"} => verdict.outcome = "success"
  BY <1>7
<1>9. all = {"success"} => ~ (all \subseteq {"failure"}) OBVIOUS
<1>11. "failure" \in all => all # {"success"} OBVIOUS
<1> QED BY <1>2, <1>7, <1>8, <1>9, <1>10, <1>11 DEF verdict

LEMMA VdInitInv == VdInit => VdInv
<1> SUFFICES ASSUME VdInit
  PROVE VdInv
  OBVIOUS
<1>1.
  PICK n \in 1 .. VdMaxTasks :
    \E prior \in [1 .. n -> VdPriors] :
    \E needs \in {d \in [1 .. n -> SUBSET (1 .. n)] :
                    \A i \in 1 .. n : d[i] \subseteq 1 .. (i - 1)} :
      vdTasks = [i \in 1 .. n |-> [status |-> prior[i].status, verified |-> prior[i].verified,
                                   needs |-> needs[i], retries |-> 0]]
  BY DEF VdInit
<1>2.
  PICK prior \in [1 .. n -> VdPriors] :
    \E needs \in {d \in [1 .. n -> SUBSET (1 .. n)] :
                    \A i \in 1 .. n : d[i] \subseteq 1 .. (i - 1)} :
      vdTasks = [i \in 1 .. n |-> [status |-> prior[i].status, verified |-> prior[i].verified,
                                   needs |-> needs[i], retries |-> 0]]
  BY <1>1
<1>3.
  PICK needs \in [1 .. n -> SUBSET (1 .. n)] :
      vdTasks = [i \in 1 .. n |-> [status |-> prior[i].status, verified |-> prior[i].verified,
                                   needs |-> needs[i], retries |-> 0]]
  BY <1>2
<1>4. n \in Nat OBVIOUS
<1>5. ASSUME NEW i \in 1 .. n
  PROVE
    /\ vdTasks[i] \in VdTaskTypes
    /\ vdTasks[i].verified # "failed" /\ vdTasks[i].status \notin VdFailing
 <2>1.
   vdTasks[i] = [status |-> prior[i].status, verified |-> prior[i].verified,
                 needs |-> needs[i], retries |-> 0]
   BY <1>3
 <2>2. prior[i] \in VdPriors /\ needs[i] \in SUBSET Nat BY <1>4
 <2>3.
   /\ prior[i].status \in {"pending"} \cup VdDone
   /\ prior[i].verified \in {"none", "passed", "ambiguous"}
   BY <2>2 DEF VdPriors, VdDone
 <2>4. vdTasks[i] \in VdTaskTypes BY <2>1, <2>2, <2>3 DEF VdTaskTypes
 <2>5. prior[i].status \notin VdFailing BY <2>3 DEF VdDone, VdFailing
 <2> QED BY <2>1, <2>3, <2>4, <2>5
<1>6. vdTasks \in [1 .. n -> VdTaskTypes] BY <1>3, <1>5
<1>7. vdTasks \in Seq(VdTaskTypes) /\ Len(vdTasks) = n BY <1>4, <1>6, FromFunction
<1>8.
  /\ vdSteps = <<>> /\ vdSteps \in Seq(VdStepTypes) /\ DOMAIN vdSteps = {}
  /\ vdAt = 1 /\ vdAnswers = VdNoAnswers
  BY DEF VdInit
<1>9. vdAt \in 0 .. Len(vdTasks) BY <1>4, <1>7, <1>8
<1>10. VdPlaces /\ VdFailures
 <2>1. DOMAIN vdTasks = 1 .. n BY <1>6
 <2> QED BY <1>5, <1>8, <2>1 DEF VdPlaces, VdFailures
<1> QED
  BY <1>7, <1>8, <1>9, <1>10 DEF VdInv, VdTypes, VdLastAgrees, VdUnanimous, VdAsked,
    VdNoAnswers, VdFinished, VdAdviceSound, VdSplits

\* The cursor stays at a task that is to be run again, goes on from one that has been run,
\* or the run stops.
VdMoves ==
  \/ vdAt' = vdAt /\ vdTasks'[vdAt].status \notin VdFailing
  \/ VdGoOn /\ vdTasks'[vdAt].status # "pending"
  \/ vdAt' = 0 /\ vdTasks'[vdAt].status = "needs_user"

LEMMA VdPlacesKept ==
  ASSUME VdTypes, VdPlaces, vdAt # 0, VdMoves,
    DOMAIN vdTasks' = DOMAIN vdTasks, Len(vdTasks') = Len(vdTasks),
    \A i \in DOMAIN vdTasks : i # vdAt => vdTasks'[i] = vdTasks[i]
  PROVE VdPlaces' /\ vdAt' \in 0 .. Len(vdTasks)
<1>1. /\ Len(vdTasks) \in Nat /\ DOMAIN vdTasks = 1 .. Len(vdTasks) /\ vdAt \in 1 .. Len(vdTasks)
  BY Indices DEF VdTypes
<1>2.
  \A i \in 1 .. Len(vdTasks) : /\ i < vdAt => vdTasks[i].status # "pending"
                               /\ i >= vdAt => vdTasks[i].status \notin VdFailing
  BY <1>1 DEF VdPlaces
<1>3. CASE vdAt' = vdAt /\ vdTasks'[vdAt].status \notin VdFailing
  BY <1>1, <1>2, <1>3 DEF VdPlaces
<1>4. CASE VdGoOn /\ vdTasks'[vdAt].status # "pending"
 <2>1. vdAt' = IF vdAt = Len(vdTasks) THEN 0 ELSE vdAt + 1 BY <1>4 DEF VdGoOn
 <2>2. CASE vdAt = Len(vdTasks) BY <1>1, <1>2, <1>4, <2>1, <2>2 DEF VdPlaces
 <2>3. CASE vdAt # Len(vdTasks)
  <3>1. vdAt' = vdAt + 1 /\ vdAt' # 0
   <4>1. vdAt' = vdAt + 1 BY <2>1, <2>3
   <4>2. vdAt \in Nat /\ vdAt + 1 # 0 BY <1>1
   <4> QED BY <4>1, <4>2
  <3>2. ASSUME NEW i \in 1 .. Len(vdTasks)
    PROVE
      /\ i < vdAt' => vdTasks'[i].status # "pending"
      /\ i >= vdAt' => vdTasks'[i].status \notin VdFailing
   <4>1. CASE i = vdAt BY <1>1, <1>4, <3>1, <4>1
   <4>2. CASE i # vdAt
    <5>1. vdTasks'[i] = vdTasks[i] /\ i \in Int /\ vdAt \in Int BY <1>1, <4>2
    <5>2. i < vdAt' => i < vdAt BY <3>1, <4>2, <5>1
    <5>3. i >= vdAt' => i >= vdAt BY <3>1, <5>1
    <5> QED BY <1>2, <5>1, <5>2, <5>3
   <4> QED BY <4>1, <4>2
  <3>3. vdAt' \in 0 .. Len(vdTasks) BY <1>1, <2>3, <3>1
  <3>4. DOMAIN vdTasks' = 1 .. Len(vdTasks) BY <1>1
  <3> QED BY <3>1, <3>2, <3>3, <3>4 DEF VdPlaces
 <2> QED BY <2>2, <2>3
<1>5. CASE vdAt' = 0 /\ vdTasks'[vdAt].status = "needs_user" BY <1>1, <1>5 DEF VdPlaces, VdHas
<1> QED BY <1>3, <1>4, <1>5 DEF VdMoves

\* A step more, for the task at the cursor, agrees with the status the task gets.
LEMMA VdStepped ==
  ASSUME VdInv, vdAt # 0, NEW step \in VdStepTypes, step.id = vdAt,
    vdSteps' = Append(vdSteps, step),
    vdTasks' \in Seq(VdTaskTypes), Len(vdTasks') = Len(vdTasks),
    \A i \in DOMAIN vdTasks : i # vdAt => vdTasks'[i] = vdTasks[i],
    step.status \in VdDone <=> vdTasks'[vdAt].status \in VdDone,
    step.said = "failure" => step.outcome = "failure",
    step.said = "success" => step.outcome = "success",
    step.verified = "failed" /\ step.outcome # "failure" => step.said = "mixed",
    vdTasks'[vdAt].verified = step.verified,
    vdTasks'[vdAt].retries >= vdTasks[vdAt].retries,
    step.outcome = "failure" =>
      vdTasks'[vdAt].retries > 0 \/ vdTasks'[vdAt].status \in VdFailing,
    VdMoves, vdAnswers' = vdAnswers
  PROVE VdInv'
<1>0.
  /\ vdTasks \in Seq(VdTaskTypes) /\ vdSteps \in Seq(VdStepTypes)
  /\ \A i \in DOMAIN vdSteps : vdSteps[i].id \in DOMAIN vdTasks
  /\ VdLastAgrees /\ VdUnanimous /\ VdAsked /\ vdAt \in 0 .. Len(vdTasks)
  /\ VdTypes /\ VdPlaces /\ VdFailures
  BY DEF VdInv, VdTypes
<1>1.
  /\ Len(vdSteps) \in Nat /\ DOMAIN vdSteps = 1 .. Len(vdSteps)
  /\ Len(vdTasks) \in Nat /\ DOMAIN vdTasks = 1 .. Len(vdTasks)
  /\ DOMAIN vdTasks' = 1 .. Len(vdTasks)
  BY <1>0, Indices
<1>2. PICK m : m = Len(vdSteps) + 1 OBVIOUS
<1>3.
  /\ vdSteps' \in Seq(VdStepTypes) /\ DOMAIN vdSteps' = 1 .. m /\ m \in Nat
  /\ vdSteps'[m] = step /\ m \in DOMAIN vdSteps'
  /\ \A i \in DOMAIN vdSteps : vdSteps'[i] = vdSteps[i] /\ i \in DOMAIN vdSteps' /\ i # m
  /\ \A i \in DOMAIN vdSteps' : i \in DOMAIN vdSteps \/ i = m
 <2>1.
   /\ vdSteps' \in Seq(VdStepTypes) /\ Len(vdSteps') = Len(vdSteps) + 1
   /\ \A i \in 1 .. Len(vdSteps') :
        vdSteps'[i] = IF i <= Len(vdSteps) THEN vdSteps[i] ELSE step
   BY <1>0, AppendNew
 <2>2. DOMAIN vdSteps' = 1 .. Len(vdSteps') BY <2>1, Indices
 <2> QED BY <1>1, <1>2, <2>1, <2>2
<1>4. vdAt \in DOMAIN vdTasks BY <1>0, <1>1
<1>9. VdPlaces' /\ vdAt' \in 0 .. Len(vdTasks) BY <1>0, <1>1, VdPlacesKept
<1>5. VdTypes' BY <1>0, <1>1, <1>3, <1>4, <1>9 DEF VdTypes
<1>10. VdFailures'
 <2>1. vdTasks[vdAt].status \notin VdFailing
  <3>1. vdAt >= vdAt BY <1>0, <1>1
  <3> QED BY <1>0, <1>4, <3>1 DEF VdPlaces
 <2>2. vdTasks[vdAt].retries \in Nat /\ vdTasks'[vdAt].retries \in Nat
  <3>1. vdTasks[vdAt] \in VdTaskTypes BY <1>0, <1>4, Indices
  <3>2. vdTasks'[vdAt] \in VdTaskTypes BY <1>1, <1>4, Indices
  <3> QED BY <3>1, <3>2 DEF VdTaskTypes
 <2>3. ASSUME NEW i \in DOMAIN vdSteps', vdSteps'[i].outcome = "failure"
   PROVE
     \/ vdTasks'[vdSteps'[i].id].retries > 0
     \/ vdTasks'[vdSteps'[i].id].status \in VdFailing
  <3>1. CASE i = m BY <1>3, <2>3, <3>1
  <3>2. CASE i # m
   <4>1. i \in DOMAIN vdSteps /\ vdSteps'[i] = vdSteps[i] BY <1>3, <3>2
   <4>2. \/ vdTasks[vdSteps[i].id].retries > 0
         \/ vdTasks[vdSteps[i].id].status \in VdFailing
     BY <1>0, <2>3, <4>1 DEF VdFailures
   <4>3. CASE vdSteps[i].id = vdAt BY <2>1, <2>2, <4>1, <4>2, <4>3
   <4>4. CASE vdSteps[i].id # vdAt BY <1>0, <4>1, <4>2, <4>4
   <4> QED BY <4>3, <4>4
  <3> QED BY <3>1, <3>2
 <2>4. ASSUME NEW i \in DOMAIN vdSteps', vdSteps'[i].verified = "failed",
     vdSteps'[i].outcome # "failure"
   PROVE vdSteps'[i].said = "mixed"
   BY <1>0, <1>3, <2>4 DEF VdFailures
 <2>5. ASSUME NEW i \in DOMAIN vdTasks', vdTasks'[i].verified = "failed"
   PROVE \E j \in DOMAIN vdSteps' : vdSteps'[j].verified = "failed"
  <3>1. CASE i = vdAt BY <1>3, <2>5, <3>1
  <3>2. CASE i # vdAt BY <1>0, <1>1, <1>3, <2>5, <3>2 DEF VdFailures
  <3> QED BY <3>1, <3>2
 <2> QED BY <2>3, <2>4, <2>5 DEF VdFailures
<1>6. VdLastAgrees'
 <2> SUFFICES ASSUME NEW i \in DOMAIN vdSteps',
     \A j \in DOMAIN vdSteps' : vdSteps'[j].id = vdSteps'[i].id => j <= i
   PROVE
     vdSteps'[i].status \in VdDone
       <=> vdTasks'[vdSteps'[i].id].status \in VdDone
   BY DEF VdLastAgrees, VdIsLast
 <2>1. CASE i = m BY <1>3, <2>1
 <2>2. CASE i # m
  <3>1. i \in DOMAIN vdSteps /\ vdSteps'[i] = vdSteps[i] BY <1>3, <2>2
  <3>2. vdSteps[i].id # vdAt BY <1>1, <1>2, <1>3, <3>1
  <3>3. VdIsLast(i) BY <1>3, <3>1 DEF VdIsLast
  <3>4. vdSteps[i].status \in VdDone <=> vdTasks[vdSteps[i].id].status \in VdDone
    BY <1>0, <3>1, <3>3 DEF VdLastAgrees
  <3> QED BY <1>0, <3>1, <3>2, <3>4
 <2> QED BY <2>1, <2>2
<1>7. VdUnanimous' BY <1>0, <1>3 DEF VdUnanimous
<1>8. VdAsked'
 <2>1. ~ vdAnswers'.known BY <1>0 DEF VdAsked
 <2> QED BY <2>1 DEF VdAsked, VdFinished, VdAdviceSound, VdSplits
<1> QED BY <1>5, <1>6, <1>7, <1>8, <1>9, <1>10 DEF VdInv

LEMMA VdSkipStep == ASSUME VdInv, VdSkip PROVE VdInv'
<1>1. /\ VdMoves /\ vdAt # 0 /\ UNCHANGED <<vdTasks, vdSteps, vdAnswers>>
  BY DEF VdSkip, VdMoves, VdDone, VdTask
<1>2. VdPlaces' /\ vdAt' \in 0 .. Len(vdTasks) BY <1>1, VdPlacesKept DEF VdInv
<1>3. VdAsked' /\ VdFailures'
  BY <1>1 DEF VdInv, VdAsked, VdFinished, VdAdviceSound, VdSplits, VdFailures
<1> QED BY <1>1, <1>2, <1>3 DEF VdInv, VdTypes, VdLastAgrees, VdIsLast, VdUnanimous

LEMMA VdBlockStep == ASSUME VdInv, VdBlock PROVE VdInv'
<1> DEFINE first == CHOOSE d \in VdMissing : \A e \in VdMissing : d <= e
  verdict == VdVerdict("failure", "structural",
                       IF vdTasks[first].status = "blocked" THEN "denied" ELSE "plain")
  step == VdStep(vdAt, "blocked", "failed", verdict, "failure")
<1>1.
  /\ vdAt # 0
  /\ vdTasks' = [vdTasks EXCEPT ![vdAt].status = "blocked", ![vdAt].verified = "failed"]
  /\ vdSteps' = Append(vdSteps, step) /\ vdAnswers' = vdAnswers /\ VdGoOn
  BY DEF VdBlock, VdAtTask
<1>2.
  /\ vdTasks \in Seq(VdTaskTypes) /\ Len(vdTasks) \in Nat
  /\ DOMAIN vdTasks = 1 .. Len(vdTasks) /\ vdAt \in 1 .. Len(vdTasks)
 <2>1. vdTasks \in Seq(VdTaskTypes) /\ vdAt \in 0 .. Len(vdTasks) BY DEF VdInv, VdTypes
 <2> QED BY <1>1, <2>1, Indices
<1>3. /\ verdict.outcome = "failure" /\ verdict.reason \in VdReasons
  BY DEF VdVerdict, VdReasons, VdTexts
<1> HIDE DEF verdict
<1>4.
  /\ step \in VdStepTypes /\ step.id = vdAt /\ step.status = "blocked"
  /\ step.outcome = "failure" /\ step.said = "failure" /\ step.verified = "failed"
  BY <1>2, <1>3 DEF VdStep, VdStepTypes, VdFailing, VdOutcomes
<1> HIDE DEF step
<1>5.
  /\ vdTasks' \in Seq(VdTaskTypes) /\ Len(vdTasks') = Len(vdTasks)
  /\ \A i \in DOMAIN vdTasks : i # vdAt => vdTasks'[i] = vdTasks[i]
  /\ vdTasks'[vdAt].status = "blocked" /\ vdTasks'[vdAt].verified = "failed"
  /\ vdTasks'[vdAt].retries = vdTasks[vdAt].retries /\ vdTasks[vdAt].retries \in Nat
 <2>1. vdTasks[vdAt] \in VdTaskTypes /\ vdTasks \in [1 .. Len(vdTasks) -> VdTaskTypes]
   BY <1>2, Indices
 <2>2.
   /\ DOMAIN vdTasks' = 1 .. Len(vdTasks)
   /\ \A i \in DOMAIN vdTasks : i # vdAt => vdTasks'[i] = vdTasks[i]
   /\ vdTasks'[vdAt] = [vdTasks[vdAt] EXCEPT !.status = "blocked", !.verified = "failed"]
   BY <1>1, <1>2, <2>1
 <2>3.
   /\ vdTasks'[vdAt] \in VdTaskTypes /\ vdTasks'[vdAt].status = "blocked"
   /\ vdTasks'[vdAt].verified = "failed"
   /\ vdTasks'[vdAt].retries = vdTasks[vdAt].retries /\ vdTasks[vdAt].retries \in Nat
   BY <2>1, <2>2 DEF VdTaskTypes, VdFailing
 <2>4. \A i \in 1 .. Len(vdTasks) : vdTasks'[i] \in VdTaskTypes BY <1>2, <2>1, <2>2, <2>3
 <2>5. vdTasks' = [i \in 1 .. Len(vdTasks) |-> vdTasks'[i]] BY <1>1, <1>2, <2>1, <2>2
 <2>6. vdTasks' \in [1 .. Len(vdTasks) -> VdTaskTypes] BY <2>4, <2>5
 <2>7. vdTasks' \in Seq(VdTaskTypes) /\ Len(vdTasks') = Len(vdTasks) BY <1>2, <2>6, FromFunction
 <2> QED BY <2>2, <2>3, <2>7
<1>6. VdMoves BY <1>1, <1>5 DEF VdMoves
<1>7. "blocked" \in VdFailing /\ "blocked" \notin VdDone BY DEF VdFailing, VdDone
<1>8. vdTasks'[vdAt].retries >= vdTasks[vdAt].retries BY <1>5
<1> QED BY <1>1, <1>4, <1>5, <1>6, <1>7, <1>8, VdStepped

LEMMA VdRunStep == ASSUME VdInv, VdRun PROVE VdInv'
<1>0. /\ vdAt # 0 /\ vdAnswers' = vdAnswers BY DEF VdRun, VdAtTask
<1>1.
  /\ vdTasks \in Seq(VdTaskTypes) /\ Len(vdTasks) \in Nat
  /\ DOMAIN vdTasks = 1 .. Len(vdTasks) /\ vdAt \in 1 .. Len(vdTasks)
 <2>1. vdTasks \in Seq(VdTaskTypes) /\ vdAt \in 0 .. Len(vdTasks) BY DEF VdInv, VdTypes
 <2> QED BY <1>0, <2>1, Indices
<1>2.
  PICK result \in VdResults :
    LET verdict == VdEvaluate(result)
        status == IF VdSucceeds(verdict) THEN VdSuccessStatus(verdict)
                  ELSE VdDisposition(result, verdict)
        verified == VdVerified(result.verif.status, verdict)
        again == status = "failed" /\ VdTask.retries < VdMaxRetries
    IN /\ vdSteps' = Append(vdSteps, VdStep(vdAt, status, verified, verdict, VdSaid(result)))
       /\ vdTasks' = [vdTasks EXCEPT
            ![vdAt].status = IF again THEN "pending" ELSE status,
            ![vdAt].verified = verified,
            ![vdAt].retries = IF again THEN @ + 1 ELSE @]
       /\ IF again THEN UNCHANGED vdAt
          ELSE IF status = "needs_user" THEN vdAt' = 0 ELSE VdGoOn
  BY DEF VdRun
<1> DEFINE verdict == VdEvaluate(result)
  status == IF VdSucceeds(verdict) THEN VdSuccessStatus(verdict)
            ELSE VdDisposition(result, verdict)
  verified == VdVerified(result.verif.status, verdict)
  again == status = "failed" /\ VdTask.retries < VdMaxRetries
  step == VdStep(vdAt, status, verified, verdict, VdSaid(result))
<1>3.
  /\ VdSaid(result) \in {"failure", "success", "mixed"}
  /\ verdict.outcome \in VdOutcomes /\ verdict.reason \in VdReasons
  /\ VdSaid(result) = "failure" => verdict.outcome = "failure"
  /\ VdSaid(result) = "success" => verdict.outcome = "success"
  /\ result.verif.status = "failure" /\ verdict.outcome # "failure" => VdSaid(result) = "mixed"
  BY VdMeans
<1> HIDE DEF verdict
<1>4.
  /\ status \in VdDone \cup VdFailing
  /\ verdict.outcome = "failure" => status \in VdFailing
  BY DEF VdSucceeds, VdSuccessStatus, VdDisposition, VdDone, VdFailing
<1>5.
  /\ verified \in {"passed", "failed", "ambiguous", "pending"}
  /\ verified = "failed" /\ verdict.outcome # "failure" => VdSaid(result) = "mixed"
  BY <1>3 DEF VdVerified, VdOutcomes
<1> HIDE DEF status, verified
<1>6.
  PICK said, state, again1, retries :
    /\ said = VdSaid(result) /\ state = (IF again THEN "pending" ELSE status)
    /\ again1 = again /\ retries = (IF again THEN vdTasks[vdAt].retries + 1 ELSE vdTasks[vdAt].retries)
  OBVIOUS
<1>7.
  /\ step \in VdStepTypes /\ step.id = vdAt /\ step.status = status
  /\ step.outcome = verdict.outcome /\ step.said = said /\ step.verified = verified
  BY <1>1, <1>3, <1>4, <1>5, <1>6 DEF VdStep, VdStepTypes
<1> HIDE DEF step
<1>8.
  /\ state \in {"pending"} \cup VdDone \cup VdFailing
  /\ status \in VdDone <=> state \in VdDone
  /\ again => state = "pending"
  /\ ~ again => state = status
  BY <1>4, <1>6 DEF VdDone
<1>9. vdTasks[vdAt] \in VdTaskTypes BY <1>1, Indices
<1>10.
  /\ retries \in Nat /\ retries >= vdTasks[vdAt].retries
  /\ again => retries > 0
 <2>1. vdTasks[vdAt].retries \in Nat BY <1>9 DEF VdTaskTypes
 <2> HIDE DEF again
 <2>2. CASE again BY <1>6, <2>1, <2>2
 <2>3. CASE ~ again BY <1>6, <2>1, <2>3
 <2> QED BY <2>2, <2>3
<1>11.
  vdTasks' = [vdTasks EXCEPT ![vdAt].status = state, ![vdAt].verified = verified,
                             ![vdAt].retries = retries]
 <2>1.
   vdTasks' = [vdTasks EXCEPT ![vdAt].status = IF again THEN "pending" ELSE status,
                              ![vdAt].verified = verified,
                              ![vdAt].retries = IF again THEN @ + 1 ELSE @]
   BY <1>2 DEF status, verified, verdict
 <2> QED BY <1>6, <2>1
<1>12.
  /\ vdTasks' \in Seq(VdTaskTypes) /\ Len(vdTasks') = Len(vdTasks)
  /\ \A i \in DOMAIN vdTasks : i # vdAt => vdTasks'[i] = vdTasks[i]
  /\ vdTasks'[vdAt].status = state /\ vdTasks'[vdAt].verified = verified
  /\ vdTasks'[vdAt].retries = retries
 <2>1. vdTasks \in [1 .. Len(vdTasks) -> VdTaskTypes] BY <1>1, Indices
 <2>2.
   /\ DOMAIN vdTasks' = 1 .. Len(vdTasks)
   /\ \A i \in DOMAIN vdTasks : i # vdAt => vdTasks'[i] = vdTasks[i]
   /\ vdTasks'[vdAt] = [vdTasks[vdAt] EXCEPT !.status = state, !.verified = verified,
                                             !.retries = retries]
   BY <1>1, <1>11, <2>1
 <2>3.
   /\ vdTasks'[vdAt] \in VdTaskTypes /\ vdTasks'[vdAt].status = state
   /\ vdTasks'[vdAt].verified = verified /\ vdTasks'[vdAt].retries = retries
   BY <1>5, <1>8, <1>9, <1>10, <2>2 DEF VdTaskTypes
 <2>4. \A i \in 1 .. Len(vdTasks) : vdTasks'[i] \in VdTaskTypes BY <1>1, <2>1, <2>2, <2>3
 <2>5. vdTasks' = [i \in 1 .. Len(vdTasks) |-> vdTasks'[i]] BY <1>11, <1>1, <2>1, <2>2
 <2>6. vdTasks' \in [1 .. Len(vdTasks) -> VdTaskTypes] BY <2>4, <2>5
 <2>7. vdTasks' \in Seq(VdTaskTypes) /\ Len(vdTasks') = Len(vdTasks) BY <1>1, <2>6, FromFunction
 <2> QED BY <2>2, <2>3, <2>7
<1>13. VdMoves
 <2>1. IF again THEN UNCHANGED vdAt ELSE IF status = "needs_user" THEN vdAt' = 0 ELSE VdGoOn
   BY <1>2 DEF status, verified, verdict
 <2> HIDE DEF again
 <2>2. CASE again BY <1>8, <1>12, <2>1, <2>2 DEF VdMoves, VdFailing
 <2>3. CASE ~ again
  <3>1. status # "pending" BY <1>4 DEF VdDone, VdFailing
  <3> QED BY <1>8, <1>12, <2>1, <2>3, <3>1 DEF VdMoves
 <2> QED BY <2>2, <2>3
<1>14. vdSteps' = Append(vdSteps, step) BY <1>2 DEF step, status, verified, verdict
<1>15.
  /\ step.said = "failure" => step.outcome = "failure"
  /\ step.said = "success" => step.outcome = "success"
  /\ step.verified = "failed" /\ step.outcome # "failure" => step.said = "mixed"
  BY <1>3, <1>5, <1>6, <1>7
<1> HIDE DEF again
<1>16. step.outcome = "failure" => vdTasks'[vdAt].retries > 0 \/ vdTasks'[vdAt].status \in VdFailing
  BY <1>4, <1>7, <1>8, <1>10, <1>12
<1>17. vdTasks'[vdAt].retries >= vdTasks[vdAt].retries /\ vdTasks'[vdAt].verified = step.verified
  BY <1>7, <1>10, <1>12
<1> QED BY <1>0, <1>7, <1>8, <1>12, <1>13, <1>14, <1>15, <1>16, <1>17, VdStepped

\* The last of the steps of a task.
LEMMA VdLatestStep ==
  ASSUME VdTypes, VdLastAgrees, NEW id \in DOMAIN vdTasks
  PROVE VdMerged(id) \in VdDone <=> vdTasks[id].status \in VdDone
<1>1. CASE VdStepsOf(id) = {} BY <1>1 DEF VdMerged
<1>2. CASE VdStepsOf(id) # {}
 <2>1. Len(vdSteps) \in Nat /\ DOMAIN vdSteps = 1 .. Len(vdSteps) BY Indices DEF VdTypes
 <2> DEFINE T == VdStepsOf(id)
   i == VdLatest(T)
 <2>2. T \in SUBSET (1 .. Len(vdSteps)) /\ T # {} BY <1>2, <2>1 DEF VdStepsOf
 <2>3. i \in T /\ \A j \in T : i >= j
  <3> HIDE DEF T
  <3>1. \E x \in T : \A y \in T : x >= y BY <2>1, <2>2, VdExtremes
  <3> QED BY <3>1 DEF VdLatest
 <2>4. VdMerged(id) = vdSteps[i].status BY <1>2 DEF VdMerged
 <2> HIDE DEF i
 <2>5. i \in DOMAIN vdSteps /\ vdSteps[i].id = id BY <2>3 DEF VdStepsOf
 <2>6. VdIsLast(i)
  <3> SUFFICES ASSUME NEW j \in DOMAIN vdSteps, vdSteps[j].id = vdSteps[i].id
    PROVE j <= i
    BY DEF VdIsLast
  <3>1. j \in T BY <2>5 DEF VdStepsOf
  <3> QED BY <2>1, <2>3, <2>5, <3>1
 <2> QED BY <2>4, <2>5, <2>6 DEF VdLastAgrees
<1> QED BY <1>1, <1>2

\* When all is done, the last step was no failure.
LEMMA VdNothingFailed ==
  ASSUME VdTypes, VdLastAgrees, VdAllDone(vdTasks)
  PROVE VdRecordStatus = "completed" /\ VdFailureClass = "none"
<1>1. \A i \in DOMAIN vdTasks : vdTasks[i].status \in VdDone BY DEF VdAllDone
<1>2. ~ VdHas("needs_user") /\ ~ VdHas("blocked") BY <1>1 DEF VdHas, VdDone
<1>3. VdRecordStatus = "completed" BY <1>2 DEF VdRecordStatus
<1>4. CASE vdSteps = <<>> BY <1>3, <1>4 DEF VdFailureClass
<1>5. CASE vdSteps # <<>>
 <2>1. PICK n : n = Len(vdSteps) OBVIOUS
 <2>2. n \in Nat /\ DOMAIN vdSteps = 1 .. n BY <2>1, Indices DEF VdTypes
 <2>3. n # 0 BY <1>5, <2>1, EmptySeq DEF VdTypes
 <2>4. n \in DOMAIN vdSteps /\ VdIsLast(n) BY <2>2, <2>3 DEF VdIsLast
 <2>5. vdSteps[n].status \in VdDone BY <1>1, <2>4 DEF VdTypes, VdLastAgrees
 <2> QED BY <1>3, <2>1, <2>5 DEF VdFailureClass, VdDone, VdFailing
<1> QED BY <1>4, <1>5

\* A pack passes only if every single thing in it does, the judge's word among them.
LEMMA VdPassed ==
  ASSUME VdTypes, VdPack = "passed"
  PROVE VdJudge = "completed" /\ \A i \in DOMAIN vdTasks : vdTasks[i].verified = "passed"
<1>1. "failed" \notin VdPackItems /\ "ambiguous" \notin VdPackItems /\ ~ VdLacksEvidence
  BY DEF VdPack
<1>2. VdRunItem(VdRecordStatus) = "passed" /\ VdJudge # "failed"
 <2>1. VdRunItem(VdRecordStatus) \in VdPackItems /\ VdJudgeItem(VdJudge) \in VdPackItems
  <3> DEFINE A == UNION {VdTaskItems(vdTasks[i]) : i \in DOMAIN vdTasks}
    B == UNION {VdStepItems(vdSteps[i]) : i \in DOMAIN vdSteps}
  <3>1. VdPackItems = A \cup B \cup {VdRunItem(VdRecordStatus), VdJudgeItem(VdJudge)}
    BY DEF VdPackItems
  <3> HIDE DEF A, B
  <3> QED BY <3>1
 <2>2. VdRunItem(VdRecordStatus) \in {"passed", "failed", "ambiguous"} BY DEF VdRunItem
 <2>3. VdJudge = "failed" => VdJudgeItem(VdJudge) = "failed" BY DEF VdJudgeItem
 <2> QED BY <1>1, <2>1, <2>2, <2>3
<1>3. VdRecordStatus = "completed" BY <1>2 DEF VdRunItem
<1>4. ~ VdHas("needs_user") /\ ~ VdHas("blocked") /\ VdAllDone(vdTasks)
  BY <1>3 DEF VdRecordStatus
<1>5. VdJudge # "partial" BY <1>1, <1>4 DEF VdLacksEvidence
<1>6. VdJudge = "completed" BY <1>2, <1>4, <1>5 DEF VdJudge
<1>7. ASSUME NEW i \in DOMAIN vdTasks
  PROVE vdTasks[i].verified = "passed"
 <2>1. VdTaskItems(vdTasks[i]) \subseteq VdPackItems BY DEF VdPackItems
 <2>2.
   (IF vdTasks[i].verified \in {"passed", "failed"} THEN vdTasks[i].verified ELSE "ambiguous")
     \in VdTaskItems(vdTasks[i])
   BY DEF VdTaskItems
 <2> QED BY <1>1, <2>1, <2>2
<1> QED BY <1>6, <1>7

\* Why the judge does not complete a run that is all done, and the pack fails one that the
\* judge completes.
LEMMA VdJudgeSplits ==
  ASSUME VdTypes, VdPlaces, VdFailures, vdAt = 0, VdJudge # VdRecordStatus
  PROVE
    /\ VdRecordStatus = "completed"
    /\ \/ /\ VdJudge = "failed"
          /\ \E i \in DOMAIN vdSteps : /\ vdSteps[i].outcome = "failure"
                                       /\ vdTasks[vdSteps[i].id].retries > 0
       \/ /\ VdJudge = "partial" /\ vdSteps = <<>>
          /\ \A i \in DOMAIN vdTasks : vdTasks[i].verified # "passed"
<1>1. ~ VdHas("needs_user") /\ ~ VdHas("blocked") BY DEF VdJudge, VdRecordStatus
<1>2. VdAllDone(vdTasks)
 <2> SUFFICES ASSUME ~ VdAllDone(vdTasks) PROVE FALSE OBVIOUS
 <2>1. PICK i \in DOMAIN vdTasks : vdTasks[i].status \notin VdDone BY DEF VdAllDone
 <2>2. vdTasks[i].status \in {"pending"} \cup VdDone \cup VdFailing
  <3>1. vdTasks[i] \in VdTaskTypes BY Indices DEF VdTypes
  <3> QED BY <3>1 DEF VdTaskTypes
 <2>3. vdTasks[i].status = "failed" BY <1>1, <2>1, <2>2 DEF VdPlaces, VdHas, VdFailing
 <2>4. VdHas("failed") BY <2>3 DEF VdHas
 <2> QED BY <1>1, <2>4 DEF VdJudge, VdRecordStatus
<1>3. VdRecordStatus = "completed" /\ ~ VdHas("failed")
  BY <1>1, <1>2 DEF VdRecordStatus, VdAllDone, VdHas, VdDone
<1>4. CASE VdHasStep("failure")
 <2>1. PICK i \in DOMAIN vdSteps : vdSteps[i].outcome = "failure" BY <1>4 DEF VdHasStep
 <2>2. vdTasks[vdSteps[i].id].status \in VdDone BY <1>2 DEF VdAllDone, VdTypes
 <2>3. vdTasks[vdSteps[i].id].retries > 0 BY <2>1, <2>2 DEF VdFailures, VdDone, VdFailing
 <2>4. VdJudge = "failed" BY <1>1, <1>4 DEF VdJudge
 <2> QED BY <1>3, <2>1, <2>3, <2>4
<1>5. CASE ~ VdHasStep("failure")
 <2>1. VdJudge = "partial" /\ ~ VdCoreVerification BY <1>1, <1>2, <1>3, <1>5 DEF VdJudge
 <2>2. \A i \in DOMAIN vdSteps : vdSteps[i].outcome \notin VdOutcomes
   BY <1>5, <2>1 DEF VdCoreVerification, VdHasStep, VdOutcomes
 <2>3. \A i \in DOMAIN vdSteps : vdSteps[i].outcome \in VdOutcomes
  <3>1. \A i \in DOMAIN vdSteps : vdSteps[i] \in VdStepTypes BY Indices DEF VdTypes
  <3> QED BY <3>1 DEF VdStepTypes
 <2>4. vdSteps = <<>>
  <3>1. DOMAIN vdSteps = 1 .. Len(vdSteps) /\ Len(vdSteps) \in Nat BY Indices DEF VdTypes
  <3>2. Len(vdSteps) = 0
   <4> SUFFICES ASSUME Len(vdSteps) # 0 PROVE FALSE OBVIOUS
   <4>1. 1 \in DOMAIN vdSteps BY <3>1
   <4> QED BY <2>2, <2>3, <4>1
  <3> QED BY <3>2, EmptySeq DEF VdTypes
 <2> QED BY <1>3, <2>1, <2>4 DEF VdCoreVerification
<1> QED BY <1>4, <1>5

LEMMA VdPackSplits ==
  ASSUME VdTypes, VdFailures, VdJudge = "completed", VdPack = "failed"
  PROVE \E i \in DOMAIN vdSteps : vdSteps[i].verified = "failed" /\ vdSteps[i].said = "mixed"
<1>1.
  /\ VdAllDone(vdTasks) /\ VdRecordStatus = "completed"
  /\ \A i \in DOMAIN vdSteps : vdSteps[i].outcome # "failure"
  BY DEF VdJudge, VdRecordStatus, VdHasStep
<1>2. VdRunItem(VdRecordStatus) = "passed" /\ VdJudgeItem(VdJudge) = "passed"
  BY <1>1 DEF VdRunItem, VdJudgeItem
<1>3. "failed" \in VdPackItems BY DEF VdPack
<1>4. ASSUME NEW i \in DOMAIN vdTasks, "failed" \in VdTaskItems(vdTasks[i])
  PROVE vdTasks[i].verified = "failed"
 <2>1. vdTasks[i].status # "failed" BY <1>1 DEF VdAllDone, VdDone
 <2> QED BY <1>4, <2>1 DEF VdTaskItems, VdOfVerification
<1>5. ASSUME NEW i \in DOMAIN vdSteps, "failed" \in VdStepItems(vdSteps[i])
  PROVE vdSteps[i].verified = "failed"
  BY <1>1, <1>5 DEF VdStepItems, VdOfVerification
<1>6. \E i \in DOMAIN vdSteps : vdSteps[i].verified = "failed"
 <2>1.
   \/ \E i \in DOMAIN vdTasks : "failed" \in VdTaskItems(vdTasks[i])
   \/ \E i \in DOMAIN vdSteps : "failed" \in VdStepItems(vdSteps[i])
   BY <1>2, <1>3 DEF VdPackItems
 <2> QED BY <1>4, <1>5, <2>1 DEF VdFailures
<1> QED BY <1>1, <1>6 DEF VdFailures

LEMMA VdAnswerStep == ASSUME VdInv, VdAnswer PROVE VdInv'
<1>1.
  /\ vdAt = 0 /\ vdAt' = vdAt /\ vdTasks' = vdTasks /\ vdSteps' = vdSteps
  /\ vdAnswers'.known /\ vdAnswers'.status = VdRecordStatus /\ vdAnswers'.judged = VdJudge
  /\ vdAnswers'.pack = VdPack /\ vdAnswers'.action = VdAction
  /\ vdAnswers'.suggestion = VdSuggestion /\ vdAnswers'.risk = VdRisk
  /\ vdAnswers'.from = VdActive /\ vdAnswers'.skip = VdDoNotRepeat
  BY DEF VdAnswer
<1>2. VdTypes' /\ VdLastAgrees' /\ VdUnanimous' /\ VdPlaces' /\ VdFailures'
  BY <1>1 DEF VdInv, VdTypes, VdLastAgrees, VdIsLast, VdUnanimous, VdPlaces, VdHas, VdFailures
<1>3. VdTypes /\ VdLastAgrees /\ VdPlaces /\ VdFailures BY DEF VdInv
<1>4. Len(vdTasks) \in Nat /\ DOMAIN vdTasks = 1 .. Len(vdTasks) BY <1>3, Indices DEF VdTypes
<1> DEFINE done == {i \in DOMAIN vdTasks : vdTasks[i].status \in VdDone}
<1>5. done = DOMAIN vdTasks <=> VdAllDone(vdTasks) BY DEF VdAllDone
<1>6. VdDoNotRepeat = done BY <1>3, VdLatestStep DEF VdDoNotRepeat
<1>7. VdAction = "stop" <=> VdAllDone(vdTasks) BY DEF VdAction, VdUnblock, VdRetry
<1>8. VdJudge = "completed" => VdAllDone(vdTasks) /\ VdRecordStatus = "completed"
  BY DEF VdJudge, VdRecordStatus
<1>9. VdActive \notin done /\ (VdActive = 0 <=> done = DOMAIN vdTasks)
 <2> DEFINE open == DOMAIN vdTasks \ done
 <2>1. VdActive = IF open = {} THEN 0 ELSE CHOOSE id \in open : \A other \in open : id <= other
   BY <1>6 DEF VdActive
 <2>2. CASE open = {}
  <3>1. 0 \notin done BY <1>4
  <3> QED BY <2>1, <2>2, <3>1
 <2>3. CASE open # {}
  <3>1. VdActive \in open
   <4>1. open \in SUBSET (1 .. Len(vdTasks)) BY <1>4
   <4> HIDE DEF open
   <4>2. \E x \in open : \A y \in open : x <= y BY <1>4, <2>3, <4>1, VdExtremes
   <4> QED BY <2>1, <2>3, <4>2
  <3> QED BY <1>4, <3>1
 <2> QED BY <2>2, <2>3
<1>10. VdSuggestion = VdAction
 <2>1. CASE VdAllDone(vdTasks) BY <1>3, <2>1, VdNothingFailed DEF VdSuggestion, VdAction, VdWas
 <2>2. CASE ~ VdAllDone(vdTasks) BY <2>2 DEF VdSuggestion, VdAction
 <2> QED BY <2>1, <2>2
<1>11. VdAction \in {"ask_user", "replan"} => VdRisk = "high"
  BY DEF VdAction, VdRisk, VdUnblock, VdRetry
<1>12.
  VdPack = "passed" => /\ VdJudge = "completed"
                       /\ \A i \in DOMAIN vdTasks : vdTasks[i].verified = "passed"
  BY <1>3, VdPassed
<1>13. VdFinished' BY <1>1, <1>5, <1>7, <1>8, <1>12 DEF VdFinished
<1>14. VdAdviceSound' BY <1>1, <1>6, <1>9, <1>10, <1>11 DEF VdAdviceSound
<1>15. VdSplits' BY <1>1, <1>3, VdJudgeSplits, VdPackSplits DEF VdSplits
<1> QED BY <1>1, <1>2, <1>13, <1>14, <1>15 DEF VdInv, VdAsked

\* Whatever the tasks of a plan, their dependencies, retries and results: the last step of a
\* task tells whether it is done, a failed step is of a task that failed or was retried, and
\* what was answered is about what is there.
THEOREM VdInvariant == VdSpec => []VdInv
<1>1. VdInit => VdInv BY VdInitInv
<1>2. VdInv /\ [VdNext]_vdVars => VdInv'
 <2>1. ASSUME VdInv, UNCHANGED vdVars
   PROVE VdInv'
   BY <2>1 DEF vdVars, VdInv, VdTypes, VdLastAgrees, VdIsLast, VdUnanimous, VdAsked, VdFinished,
     VdAdviceSound, VdSplits, VdPlaces, VdHas, VdFailures
 <2> QED BY <2>1, VdSkipStep, VdBlockStep, VdRunStep, VdAnswerStep DEF VdNext
<1> QED BY <1>1, <1>2, PTL DEF VdSpec

\* For plans of any length with any number of retries: what the judge or the verification
\* pack calls finished is finished for the record and the recovery advice too, and where
\* these call a run finished that the judge or the pack does not, a task was retried, nothing
\* was run, or a result contradicts itself.
THEOREM VerdictsStayInAgreement == VdSpec => []VerdictsAgree
<1>1. VdInv => VerdictsAgree BY DEF VdInv, VdAsked, VerdictsAgree
<1> QED BY <1>1, VdInvariant, PTL

--------------------
(* Supervision *)

SupEntries == {"mcp.close", "proxy.stop", "parallel-agent.stop", "status", "digest", "finalize"}
SupNormal == {"manual", "beforeExit"}

SupUsed == ({{}} \X {0}) \cup (SupModels \X {1})

SupLifes ==
  [phase: {"live", "cleanups", "listeners", "destroyed"},
   reason: {"none", "uncaughtException"} \cup SupReasons \cup SupNormal,
   left: Seq(SupEntries), ran: Seq(SupEntries)]

SupTypes ==
  /\ supMain \in [at: {"prompt", "running", "exiting", "exited"}, mode: SupModes]
  /\ supLife \in SupLifes /\ supTold \in Seq(SupEntries)
  /\ supFile \in {"idle", "running", "aborted", "completed", "failed", "exited"}
  /\ supWatch \in [state: {"none", "active", "stopped", "timedOut"}, last: Nat, fired: Nat,
                   timers: SUBSET Nat]
  /\ supNow \in Nat
  /\ supUses \in [list: Seq(SupUsed), signals: Nat, fatal: BOOLEAN, killed: BOOLEAN]

\* Where a listener stands in its list, and how many have had their turn.
SupPlace(who) == CASE who = "status" -> 1 [] who = "digest" -> 2 [] OTHER -> 3
SupPast == IF supLife.phase = "destroyed" THEN 3
           ELSE IF supLife.phase = "listeners" THEN 3 - Len(supLife.left) ELSE 0

\* The rest of a list is left.
SupRest(left, list) ==
  /\ Len(left) <= Len(list)
  /\ \A i \in 1 .. Len(left) : left[i] = list[Len(list) - Len(left) + i]

\* What ran and what is left make up the cleanups, each in its place.
SupCleaned ==
  /\ supLife.phase = "live" => supLife.ran = <<>>
  /\ supLife.phase # "live" => Len(supLife.ran) >= 1
  /\ supLife.phase = "cleanups" =>
       /\ SupRest(supLife.left, SupLastFirst)
       /\ Len(supLife.ran) + Len(supLife.left) = Len(SupLastFirst)
  /\ supLife.phase \in {"listeners", "destroyed"} => Len(supLife.ran) = Len(SupLastFirst)
  /\ Len(supLife.ran) <= Len(SupLastFirst)
  /\ \A i \in 1 .. Len(supLife.ran) : supLife.ran[i] = SupLastFirst[i]

\* The listeners were told in their order, and all whose turn it was but the digest.
SupHeard ==
  /\ supLife.phase = "listeners" => SupRest(supLife.left, SupListeners)
  /\ \A i \in DOMAIN supTold : supTold[i] \in {SupListeners[k] : k \in 1 .. 3}
                               /\ SupPlace(supTold[i]) <= SupPast
  /\ \A i, j \in DOMAIN supTold : i < j => SupPlace(supTold[i]) < SupPlace(supTold[j])
  /\ SupPast >= 1 => "status" \in ToSet(supTold)
  /\ SupPast >= 2 => ("digest" \in ToSet(supTold) <=> supLife.reason \in SupNormal)
  /\ SupPast >= 3 => "finalize" \in ToSet(supTold)

SupTimer ==
  /\ supWatch.timers = IF supWatch.state = "active" THEN {supWatch.last + SupTimeout} ELSE {}
  /\ SupWatchHonest
  /\ supMain.at = "prompt" => supWatch.timers = {}

\* The terminal exits on a signal, with destroy begun, and main at the end of it.  Without a
\* signal or an error, destroy is main's doing and nothing writes after it.
SupOrderly ==
  /\ supMain.at = "exited" => supLife.phase # "live" /\ (supLife.phase = "destroyed" \/ supUses.killed)
  /\ supUses.killed => supMain.at = "exited" /\ supUses.signals # 0
  /\ supUses.fatal => supMain.at \in {"exiting", "exited"}
  /\ supUses.signals = 0 /\ ~ supUses.fatal =>
       /\ supMain.at \in {"prompt", "running"} <=> supLife.phase = "live"
       /\ supMain.at \in {"exiting", "exited"} => supWatch.timers = {}
       /\ SupPast >= 1 => supFile = "exited"

\* The status: what the listener wrote, or the watchdog after it, as long as no signal
\* came; and main ends no run without writing what came of it.
SupSaid ==
  /\ supUses.signals = 0 /\ SupPast >= 1 => supFile \in {"exited", "aborted"}
  /\ supMain.at = "prompt" => supFile # "running"
  /\ supMain.at \in {"exiting", "exited"} /\ ~ supUses.fatal /\ ~ supUses.killed => supFile # "running"

\* How often a model was used.
SupTimes(model) == Cardinality({i \in DOMAIN supUses.list : supUses.list[i] = <<model, 1>>})

SupCounted ==
  supCost = [m \in SupModels |->
               [tokens |-> SupTimes(m), cost |-> SupTimes(m) * SupPrice(m)]]

SupInv ==
  SupTypes /\ SupCleaned /\ SupHeard /\ SupTimer /\ SupOrderly /\ SupSaid /\ SupCounted

LEMMA SupLists ==
  /\ Len(SupLastFirst) = 3 /\ SupLastFirst \in Seq(SupEntries)
  /\ Len(SupListeners) = 3 /\ SupListeners \in Seq(SupEntries)
  /\ SupListeners[1] = "status" /\ SupListeners[2] = "digest" /\ SupListeners[3] = "finalize"
  /\ Head(SupLastFirst) = SupLastFirst[1] /\ Head(SupLastFirst) \in SupEntries
  /\ Tail(SupLastFirst) \in Seq(SupEntries) /\ Len(Tail(SupLastFirst)) = 2
  /\ \A i \in 1 .. 2 : Tail(SupLastFirst)[i] = SupLastFirst[i + 1]
<1>1. SupCleanups \in Seq(SupEntries) /\ Len(SupCleanups) = 3 BY DEF SupCleanups, SupEntries
<1>2. SupLastFirst = [i \in 1 .. 3 |-> SupCleanups[(3 - i) + 1]]
  BY <1>1 DEF SupLastFirst, Reverse
<1>3. \A i \in 1 .. 3 : (3 - i) + 1 \in 1 .. 3 /\ SupCleanups[(3 - i) + 1] \in SupEntries
 <2>1. DOMAIN SupCleanups = 1 .. 3 /\ \A i \in 1 .. 3 : SupCleanups[i] \in SupEntries
   BY <1>1, Indices
 <2> QED BY <2>1
<1>4. SupLastFirst \in [1 .. 3 -> SupEntries] BY <1>2, <1>3
<1>5. SupLastFirst \in Seq(SupEntries) /\ Len(SupLastFirst) = 3 BY <1>4, FromFunction
<1>6.
  /\ Head(SupLastFirst) = SupLastFirst[1] /\ Head(SupLastFirst) \in SupEntries
  /\ Tail(SupLastFirst) \in Seq(SupEntries) /\ Len(Tail(SupLastFirst)) = 2
  /\ \A i \in 1 .. 2 : Tail(SupLastFirst)[i] = SupLastFirst[i + 1]
 <2>1. PICK s \in Seq(SupEntries) : s = SupLastFirst /\ Len(s) = 3 /\ s # <<>> BY <1>5, EmptySeq
 <2>2.
   /\ Head(s) = s[1] /\ Tail(s) \in Seq(SupEntries) /\ Len(Tail(s)) = 3 - 1
   /\ \A i \in 1 .. 3 - 1 : Tail(s)[i] = s[i + 1]
   BY <2>1, HeadTailProperties
 <2>3. s[1] \in SupEntries BY <2>1, Indices
 <2> QED BY <2>1, <2>2, <2>3
<1> QED BY <1>5, <1>6 DEF SupListeners, SupEntries

LEMMA SupParts ==
  ASSUME SupTypes
  PROVE
    /\ supMain.at \in {"prompt", "running", "exiting", "exited"} /\ supMain.mode \in SupModes
    /\ supLife.phase \in {"live", "cleanups", "listeners", "destroyed"}
    /\ supLife.left \in Seq(SupEntries) /\ supLife.ran \in Seq(SupEntries)
    /\ Len(supLife.left) \in Nat /\ Len(supLife.ran) \in Nat
    /\ supTold \in Seq(SupEntries) /\ Len(supTold) \in Nat /\ DOMAIN supTold = 1 .. Len(supTold)
    /\ supWatch.timers \in SUBSET Nat /\ supWatch.last \in Nat /\ supWatch.fired \in Nat
    /\ supWatch.state \in {"none", "active", "stopped", "timedOut"}
    /\ supNow \in Nat /\ SupTimeout \in Nat /\ supUses.signals \in Nat
    /\ supUses.list \in Seq(SupUsed) /\ Len(supUses.list) \in Nat /\ SupPast \in Int
<1> USE DEF SupLifes
<1>1.
  /\ supLife.left \in Seq(SupEntries) /\ supLife.ran \in Seq(SupEntries)
  /\ supTold \in Seq(SupEntries) /\ supUses.list \in Seq(SupUsed)
  BY DEF SupTypes
<1>2.
  /\ Len(supLife.left) \in Nat /\ Len(supLife.ran) \in Nat /\ Len(supUses.list) \in Nat
  /\ Len(supTold) \in Nat /\ DOMAIN supTold = 1 .. Len(supTold)
  BY <1>1, Indices
<1>3. SupPast \in Int BY <1>2 DEF SupPast
<1> QED BY <1>1, <1>2, <1>3, SupAssumption DEF SupTypes

LEMMA SupPlaces ==
  /\ \A who : SupPlace(who) \in 1 .. 3
  /\ SupPlace("status") = 1 /\ SupPlace("digest") = 2 /\ SupPlace("finalize") = 3
  /\ \A k \in 1 .. 3 : SupPlace(SupListeners[k]) = k
BY SupLists DEF SupPlace

LEMMA SupLifeSame ==
  ASSUME SupInv, supLife' = supLife, supTold' = supTold
  PROVE SupCleaned' /\ SupHeard' /\ SupPast' = SupPast
BY DEF SupInv, SupCleaned, SupHeard, SupPast

LEMMA SupCostSame ==
  ASSUME SupInv, supCost' = supCost, supUses'.list = supUses.list
  PROVE SupCounted'
BY DEF SupInv, SupCounted, SupTimes

\* destroy starts once.
LEMMA SupDestroyed ==
  ASSUME SupInv, NEW reason \in {"none", "uncaughtException"} \cup SupReasons \cup SupNormal,
    supLife' = SupDestroys(reason), supTold' = supTold
  PROVE
    /\ supLife' \in SupLifes /\ SupCleaned' /\ SupHeard' /\ SupPast' = SupPast
    /\ supLife'.phase # "live"
    /\ supLife.phase # "live" => supLife' = supLife
<1> USE DEF SupLifes
<1>1. CASE supLife.phase # "live"
 <2>1. supLife' = supLife BY <1>1 DEF SupDestroys
 <2> QED BY <1>1, <2>1, SupLifeSame DEF SupInv, SupTypes
<1>2. CASE supLife.phase = "live"
 <2> DEFINE left == Tail(SupLastFirst)
   ran == <<Head(SupLastFirst)>>
 <2>1. /\ supLife' = [phase |-> "cleanups", reason |-> reason, left |-> left, ran |-> ran]
   BY <1>2 DEF SupDestroys
 <2>2.
   /\ supLife'.phase = "cleanups" /\ supLife'.reason = reason
   /\ supLife'.left = left /\ supLife'.ran = ran
   BY <2>1
 <2>3.
   /\ left \in Seq(SupEntries) /\ Len(left) = 2
   /\ \A i \in 1 .. 2 : left[i] = SupLastFirst[i + 1]
   /\ ran \in Seq(SupEntries) /\ Len(ran) = 1 /\ ran[1] = SupLastFirst[1]
  <3>1. PICK e \in SupEntries : e = Head(SupLastFirst) /\ e = SupLastFirst[1] BY SupLists
  <3>2. <<e>> \in Seq(SupEntries) /\ Len(<<e>>) = 1 /\ <<e>>[1] = e OBVIOUS
  <3> QED BY <3>1, <3>2, SupLists
 <2> HIDE DEF left, ran
 <2>4. SupCleaned'
  <3>1. SupRest(left, SupLastFirst)
   <4>1. \A i \in 1 .. 2 : 3 - 2 + i = i + 1 OBVIOUS
   <4> QED BY <2>3, <4>1, SupLists DEF SupRest
  <3>2. \A i \in 1 .. 1 : ran[i] = SupLastFirst[i] BY <2>3
  <3> QED BY <2>2, <2>3, <3>1, <3>2, SupLists DEF SupCleaned
 <2>5. SupPast = 0 /\ SupPast' = 0 BY <1>2, <2>2 DEF SupPast
 <2>6. SupHeard' BY <2>2, <2>5 DEF SupInv, SupHeard
 <2> QED BY <1>2, <2>1, <2>2, <2>3, <2>4, <2>5, <2>6, SupLists
<1> QED BY <1>1, <1>2

\* destroy is not begun as long as main runs and nothing came.
LEMMA SupQuiet ==
  ASSUME SupInv, supUses.signals = 0, supMain.at \in {"prompt", "running"}
  PROVE supLife.phase = "live" /\ SupPast = 0 /\ ~ supUses.fatal
<1>1. ~ supUses.fatal BY DEF SupInv, SupOrderly
<1>2. supLife.phase = "live" BY <1>1 DEF SupInv, SupOrderly
<1> QED BY <1>1, <1>2 DEF SupPast

LEMMA SupCleanupStep == ASSUME SupInv, SupCleanup PROVE SupInv'
<1> USE DEF SupLifes
<1>0.
  /\ supLife.phase = "cleanups" /\ supMain.at # "exited"
  /\ supMain' = supMain /\ supTold' = supTold /\ supFile' = supFile /\ supWatch' = supWatch
  /\ supCost' = supCost /\ supNow' = supNow /\ supUses' = supUses
  BY DEF SupCleanup
<1>1. SupTypes /\ SupCleaned /\ SupHeard /\ SupTimer /\ SupOrderly /\ SupSaid BY DEF SupInv
<1>2.
  /\ supLife.left \in Seq(SupEntries) /\ supLife.ran \in Seq(SupEntries)
  /\ Len(supLife.left) \in Nat /\ Len(supLife.ran) \in Nat
  /\ SupRest(supLife.left, SupLastFirst) /\ Len(supLife.ran) + Len(supLife.left) = 3
  /\ \A i \in 1 .. Len(supLife.ran) : supLife.ran[i] = SupLastFirst[i]
  BY <1>0, <1>1, SupParts, SupLists DEF SupCleaned
<1>3.
  /\ supLife' \in SupLifes /\ SupCleaned' /\ SupHeard' /\ SupPast = 0 /\ SupPast' = 0
  /\ supLife'.phase \in {"cleanups", "listeners"}
 <2>1. CASE supLife.left = <<>>
  <3>1.
    /\ supLife'.phase = "listeners" /\ supLife'.left = SupListeners
    /\ supLife'.ran = supLife.ran /\ supLife'.reason = supLife.reason
    /\ supLife' = [supLife EXCEPT !.phase = "listeners", !.left = SupListeners]
    BY <1>1, <2>1 DEF SupCleanup, SupTypes
  <3>2. Len(supLife.ran) = 3 BY <1>2, <2>1, EmptySeq
  <3>3. SupPast = 0 /\ SupPast' = 0 BY <1>0, <3>1, SupLists DEF SupPast
  <3>4. SupCleaned' BY <1>2, <3>1, <3>2, SupLists DEF SupCleaned
  <3>5. SupHeard' BY <1>0, <1>1, <3>1, <3>3, SupLists DEF SupHeard, SupRest
  <3> QED BY <1>1, <3>1, <3>3, <3>4, <3>5, SupLists DEF SupTypes
 <2>2. CASE supLife.left # <<>>
  <3> DEFINE left == Tail(supLife.left)
    ran == Append(supLife.ran, Head(supLife.left))
  <3>0. PICK n, r : n = Len(supLife.left) /\ r = Len(supLife.ran) OBVIOUS
  <3>1.
    /\ supLife'.phase = "cleanups" /\ supLife'.left = left
    /\ supLife'.ran = ran /\ supLife'.reason = supLife.reason
    /\ supLife' = [supLife EXCEPT !.left = left, !.ran = ran]
    BY <1>0, <1>1, <2>2 DEF SupCleanup, SupTypes
  <3>2.
    /\ n \in Nat /\ n # 0 /\ r \in Nat /\ r + n = 3
    /\ \A i \in 1 .. n : supLife.left[i] = SupLastFirst[3 - n + i]
    /\ \A i \in 1 .. r : supLife.ran[i] = SupLastFirst[i]
    BY <1>2, <2>2, <3>0, EmptySeq, SupLists DEF SupRest
  <3>3.
    /\ left \in Seq(SupEntries) /\ Len(left) = n - 1
    /\ \A i \in 1 .. n - 1 : left[i] = supLife.left[i + 1]
    /\ Head(supLife.left) = supLife.left[1] /\ Head(supLife.left) \in SupEntries
    BY <1>2, <2>2, <3>0, <3>2, HeadTailProperties, ElementOfSeq
  <3>4. Head(supLife.left) = SupLastFirst[r + 1]
   <4>1. supLife.left[1] = SupLastFirst[3 - n + 1]
    <5>1. 1 \in 1 .. n BY <3>2
    <5> QED BY <5>1, <3>2
   <4>2. 3 - n + 1 = r + 1 BY <3>2
   <4> QED BY <3>3, <4>1, <4>2
  <3>5. /\ ran \in Seq(SupEntries) /\ Len(ran) = r + 1
        /\ \A i \in 1 .. r + 1 : ran[i] = SupLastFirst[i]
   <4>1. PICK e : e = Head(supLife.left) OBVIOUS
   <4>2.
     /\ Append(supLife.ran, e) \in Seq(SupEntries) /\ Len(Append(supLife.ran, e)) = r + 1
     /\ \A i \in 1 .. r + 1 : Append(supLife.ran, e)[i] =
          IF i <= Len(supLife.ran) THEN supLife.ran[i] ELSE e
    <5>1. e \in SupEntries BY <3>3, <4>1
    <5> QED BY <1>2, <3>0, <5>1, AppendNew
   <4>3. \A i \in 1 .. r + 1 : i <= r \/ i = r + 1 BY <3>2
   <4> QED BY <3>0, <3>2, <3>4, <4>1, <4>2, <4>3
  <3> HIDE DEF left, ran
  <3>6. SupRest(left, SupLastFirst)
   <4>1. \A i \in 1 .. n - 1 : i + 1 \in 1 .. n /\ 3 - n + (i + 1) = 3 - (n - 1) + i BY <3>2
   <4>2. \A i \in 1 .. n - 1 : left[i] = SupLastFirst[3 - (n - 1) + i] BY <3>2, <3>3, <4>1
   <4>3. n - 1 <= 3 BY <3>2
   <4> QED BY <3>3, <4>2, <4>3, SupLists DEF SupRest
  <3>7. SupPast = 0 /\ SupPast' = 0 BY <1>0, <3>1 DEF SupPast
  <3>8. SupCleaned'
   <4>1. r + 1 + (n - 1) = 3 /\ r + 1 <= 3 /\ r + 1 >= 1 BY <3>2
   <4> QED BY <3>1, <3>3, <3>5, <3>6, <4>1, SupLists DEF SupCleaned
  <3>9. SupHeard' BY <1>0, <1>1, <3>1, <3>7 DEF SupHeard
  <3> QED BY <1>1, <3>1, <3>3, <3>5, <3>7, <3>8, <3>9 DEF SupTypes
 <2> QED BY <2>1, <2>2
<1>4. SupTypes' BY <1>0, <1>1, <1>3 DEF SupTypes
<1>5. SupTimer' BY <1>0, <1>1 DEF SupTimer, SupWatchHonest
<1>6. SupOrderly' BY <1>0, <1>1, <1>3 DEF SupOrderly
<1>7. SupCounted' BY <1>0, SupCostSame
<1>8. SupSaid' BY <1>0, <1>1, <1>3 DEF SupSaid
<1> QED BY <1>3, <1>4, <1>5, <1>6, <1>7, <1>8 DEF SupInv

\* The listener whose turn it is stands where SupPast says.
LEMMA SupTurn ==
  ASSUME SupInv, supLife.phase = "listeners", supLife.left # <<>>
  PROVE
    /\ Head(supLife.left) \in SupEntries /\ Tail(supLife.left) \in Seq(SupEntries)
    /\ SupRest(Tail(supLife.left), SupListeners) /\ Len(supLife.left) \in 1 .. 3
    /\ Len(Tail(supLife.left)) = Len(supLife.left) - 1 /\ SupPast = 3 - Len(supLife.left)
    /\ Head(supLife.left) = SupListeners[SupPast + 1]
<1> USE DEF SupLifes
<1>1. SupTypes /\ SupHeard BY DEF SupInv
<1>2. PICK n : n = Len(supLife.left) OBVIOUS
<1>3.
  /\ supLife.left \in Seq(SupEntries) /\ n \in Nat /\ n # 0 /\ n <= 3
  /\ \A i \in 1 .. n : supLife.left[i] = SupListeners[3 - n + i]
  /\ SupPast = 3 - n
  BY <1>1, <1>2, SupParts, SupLists, EmptySeq DEF SupHeard, SupRest, SupPast
<1>4. PICK t : t = Tail(supLife.left) OBVIOUS
<1>5.
  /\ t \in Seq(SupEntries) /\ Len(t) = n - 1
  /\ \A i \in 1 .. n - 1 : t[i] = supLife.left[i + 1]
  /\ Head(supLife.left) = supLife.left[1] /\ Head(supLife.left) \in SupEntries
  BY <1>2, <1>3, <1>4, HeadTailProperties, ElementOfSeq
<1>6. SupRest(t, SupListeners)
 <2>1. \A i \in 1 .. n - 1 : i + 1 \in 1 .. n /\ 3 - n + (i + 1) = 3 - (n - 1) + i BY <1>3
 <2>2. \A i \in 1 .. n - 1 : t[i] = SupListeners[3 - (n - 1) + i] BY <1>3, <1>5, <2>1
 <2> QED BY <1>3, <1>5, <2>2, SupLists DEF SupRest
<1>7. Head(supLife.left) = SupListeners[3 - n + 1]
 <2>1. 1 \in 1 .. n BY <1>3
 <2> QED BY <1>3, <1>5, <2>1
<1>8. n \in 1 .. 3 BY <1>3
<1>9. Head(supLife.left) = SupListeners[SupPast + 1] BY <1>3, <1>7
<1> QED BY <1>2, <1>3, <1>4, <1>5, <1>6, <1>8, <1>9

LEMMA SupTellStep == ASSUME SupInv, SupTell PROVE SupInv'
<1> USE DEF SupLifes
<1>0.
  /\ supLife.phase = "listeners" /\ supMain.at # "exited"
  /\ supMain' = supMain /\ supWatch' = supWatch
  /\ supCost' = supCost /\ supNow' = supNow /\ supUses' = supUses
  BY DEF SupTell
<1>1. SupTypes /\ SupCleaned /\ SupHeard /\ SupTimer /\ SupOrderly /\ SupSaid BY DEF SupInv
<1>2.
  /\ supLife' \in SupLifes /\ supTold' \in Seq(SupEntries)
  /\ supFile' \in {"idle", "running", "aborted", "completed", "failed", "exited"}
  /\ SupCleaned' /\ SupHeard' /\ supLife'.phase \in {"listeners", "destroyed"}
  /\ SupPast' >= 1 => (SupPast >= 1 /\ supFile' = supFile) \/ supFile' = "exited"
  /\ supFile' = supFile \/ supFile' = "exited"
 <2>1. CASE supLife.left = <<>>
  <3>1.
    /\ supLife'.phase = "destroyed" /\ supLife'.left = supLife.left
    /\ supLife'.ran = supLife.ran /\ supLife'.reason = supLife.reason
    /\ supLife' = [supLife EXCEPT !.phase = "destroyed"]
    /\ supTold' = supTold /\ supFile' = supFile
    BY <1>1, <2>1 DEF SupTell, SupTypes
  <3>2. SupPast = 3 /\ SupPast' = 3 BY <1>0, <2>1, <3>1, EmptySeq DEF SupPast
  <3>3. SupCleaned' BY <1>0, <1>1, <3>1 DEF SupCleaned
  <3>4. SupHeard' BY <1>0, <1>1, <3>1, <3>2 DEF SupHeard
  <3> QED BY <1>0, <1>1, <3>1, <3>2, <3>3, <3>4 DEF SupTypes
 <2>2. CASE supLife.left # <<>>
  <3>1. PICK who : who = Head(supLife.left) OBVIOUS
  <3>2. PICK left : left = Tail(supLife.left) OBVIOUS
  <3>3.
    /\ who \in SupEntries /\ left \in Seq(SupEntries) /\ SupRest(left, SupListeners)
    /\ Len(supLife.left) \in 1 .. 3 /\ Len(left) = Len(supLife.left) - 1
    /\ SupPast = 3 - Len(supLife.left) /\ who = SupListeners[SupPast + 1]
    BY <1>0, <2>2, <3>1, <3>2, SupTurn
  <3>4.
    /\ supLife'.phase = "listeners" /\ supLife'.left = left
    /\ supLife'.ran = supLife.ran /\ supLife'.reason = supLife.reason
    /\ supLife' = [supLife EXCEPT !.left = left]
    /\ supFile' = IF who = "status" THEN "exited" ELSE supFile
    /\ supTold' = IF who = "digest" /\ supLife.reason \notin SupNormal
                  THEN supTold ELSE Append(supTold, who)
    BY <1>0, <1>1, <2>2, <3>1, <3>2 DEF SupTell, SupTypes, SupNormal
  <3>5. /\ SupPast \in 0 .. 2 /\ SupPast' = SupPast + 1
   <4>1. PICK n : n = Len(supLife.left) OBVIOUS
   <4>2. SupPast' = 3 - Len(left) BY <3>4 DEF SupPast
   <4>3. n \in 1 .. 3 /\ SupPast = 3 - n /\ SupPast' = 3 - (n - 1) BY <3>3, <4>1, <4>2
   <4> QED BY <4>3
  <3>6. SupPlace(who) = SupPast + 1
   <4>1. SupPast + 1 \in 1 .. 3 BY <3>5
   <4> QED BY <3>3, <4>1, SupPlaces
  <3>7. /\ supTold \in Seq(SupEntries) /\ Len(supTold) \in Nat /\ DOMAIN supTold = 1 .. Len(supTold)
        /\ \A e : e \in ToSet(supTold) => SupPlace(e) <= SupPast
   <4>1. supTold \in Seq(SupEntries) /\ Len(supTold) \in Nat /\ DOMAIN supTold = 1 .. Len(supTold)
     BY <1>1, SupParts
   <4>2. ToSet(supTold) = {supTold[i] : i \in DOMAIN supTold} BY <4>1, ToSetMembers
   <4> QED BY <1>1, <4>1, <4>2 DEF SupHeard
  <3>8. /\ supLife' \in SupLifes
        /\ supFile' \in {"idle", "running", "aborted", "completed", "failed", "exited"}
    BY <1>1, <3>3, <3>4 DEF SupTypes
  <3>9. SupCleaned' BY <1>0, <1>1, <3>4 DEF SupCleaned
  <3>10.
    /\ SupPast >= 1 => "status" \in ToSet(supTold)
    /\ SupPast >= 2 => ("digest" \in ToSet(supTold) <=> supLife.reason \in SupNormal)
    /\ \A i \in DOMAIN supTold : supTold[i] \in {SupListeners[k] : k \in 1 .. 3}
                        /\ SupPlace(supTold[i]) <= SupPast
    /\ \A i, j \in DOMAIN supTold : i < j => SupPlace(supTold[i]) < SupPlace(supTold[j])
    BY <1>1 DEF SupHeard
  <3>11.
    /\ SupPast = 0 <=> who = "status"
    /\ SupPast = 1 <=> who = "digest"
    /\ SupPast = 2 <=> who = "finalize"
   <4>1. SupPast = 0 \/ SupPast = 1 \/ SupPast = 2 BY <3>5
   <4>2. CASE SupPast = 0
    <5>1. who = SupListeners[1]
     <6>1. SupPast + 1 = 1 BY <4>2
     <6> QED BY <3>3, <6>1
    <5> QED BY <4>2, <5>1, SupLists
   <4>3. CASE SupPast = 1
    <5>1. who = SupListeners[2] BY <3>3, <4>3
    <5> QED BY <4>3, <5>1, SupLists
   <4>4. CASE SupPast = 2
    <5>1. who = SupListeners[3] BY <3>3, <4>4
    <5> QED BY <4>4, <5>1, SupLists
   <4> QED BY <4>1, <4>2, <4>3, <4>4
  <3>12.
    /\ supTold' \in Seq(SupEntries)
    /\ \A i \in DOMAIN supTold' : supTold'[i] \in {SupListeners[k] : k \in 1 .. 3}
                        /\ SupPlace(supTold'[i]) <= SupPast + 1
    /\ \A i, j \in DOMAIN supTold' : i < j => SupPlace(supTold'[i]) < SupPlace(supTold'[j])
    /\ SupPast + 1 >= 1 => "status" \in ToSet(supTold')
    /\ SupPast + 1 >= 2 => ("digest" \in ToSet(supTold') <=> supLife.reason \in SupNormal)
    /\ SupPast + 1 >= 3 => "finalize" \in ToSet(supTold')
   <4>1. CASE who = "digest" /\ supLife.reason \notin SupNormal
    <5>1. supTold' = supTold /\ SupPast = 1 BY <3>4, <3>11, <4>1
    <5>2. "digest" \notin ToSet(supTold) BY <3>7, <5>1, SupPlaces
    <5> QED BY <3>7, <3>10, <4>1, <5>1, <5>2, SupPlaces
   <4>2. CASE ~ (who = "digest" /\ supLife.reason \notin SupNormal)
    <5>1. PICK told : told = Append(supTold, who) OBVIOUS
    <5>2.
      /\ supTold' = told /\ told \in Seq(SupEntries) /\ Len(told) = Len(supTold) + 1
      /\ \A i \in 1 .. Len(told) : told[i] = IF i <= Len(supTold) THEN supTold[i] ELSE who
      /\ ToSet(told) = ToSet(supTold) \cup {who}
      BY <3>3, <3>4, <3>7, <4>2, <5>1, AppendNew, AppendMember
    <5>3. DOMAIN told = 1 .. Len(supTold) + 1 BY <5>2, Indices
    <5>4. who \in {SupListeners[k] : k \in 1 .. 3}
     <6>1. SupPast + 1 \in 1 .. 3 BY <3>5
     <6> QED BY <3>3, <6>1
    <5>5. \A i \in DOMAIN told : IF i \in DOMAIN supTold THEN told[i] = supTold[i]
                                 ELSE told[i] = who /\ i = Len(supTold) + 1
      BY <3>7, <5>2, <5>3
    <5>6. \A i \in DOMAIN told : told[i] \in {SupListeners[k] : k \in 1 .. 3}
                           /\ SupPlace(told[i]) <= SupPast + 1
      BY <3>5, <3>6, <3>10, <5>4, <5>5, SupPlaces
    <5>7. \A i, j \in DOMAIN told : i < j => SupPlace(told[i]) < SupPlace(told[j])
     <6> SUFFICES ASSUME NEW i \in DOMAIN told, NEW j \in DOMAIN told, i < j
       PROVE SupPlace(told[i]) < SupPlace(told[j])
       OBVIOUS
     <6>1. i \in DOMAIN supTold /\ told[i] = supTold[i] BY <3>7, <5>3, <5>5
     <6>2. CASE j \in DOMAIN supTold BY <3>10, <5>5, <6>1, <6>2
     <6>3. CASE j \notin DOMAIN supTold
      <7>1. told[j] = who /\ SupPlace(told[i]) <= SupPast BY <3>10, <5>5, <6>1, <6>3
      <7> QED BY <3>5, <3>6, <7>1, SupPlaces
     <6> QED BY <6>2, <6>3
    <5>8.
      /\ SupPast + 1 >= 1 => "status" \in ToSet(told)
      /\ SupPast + 1 >= 2 => ("digest" \in ToSet(told) <=> supLife.reason \in SupNormal)
      /\ SupPast + 1 >= 3 => "finalize" \in ToSet(told)
     <6>1. CASE SupPast = 0 BY <3>11, <5>2, <6>1
     <6>2. CASE SupPast = 1 BY <3>10, <3>11, <4>2, <5>2, <6>2
     <6>3. CASE SupPast = 2 BY <3>10, <3>11, <5>2, <6>3
     <6> QED BY <3>5, <6>1, <6>2, <6>3
    <5> QED BY <5>2, <5>6, <5>7, <5>8
   <4> QED BY <4>1, <4>2
  <3>13. SupHeard' BY <3>3, <3>4, <3>5, <3>12 DEF SupHeard
  <3>14. SupPast' >= 1 => (SupPast >= 1 /\ supFile' = supFile) \/ supFile' = "exited"
    BY <3>4, <3>5, <3>11
  <3> QED BY <3>4, <3>8, <3>9, <3>12, <3>13, <3>14
 <2> QED BY <2>1, <2>2
<1>4. SupTypes' BY <1>0, <1>1, <1>2 DEF SupTypes
<1>5. SupTimer' BY <1>0, <1>1 DEF SupTimer, SupWatchHonest
<1>6. SupOrderly' BY <1>0, <1>1, <1>2 DEF SupOrderly
<1>7. SupCounted' BY <1>0, SupCostSame
<1>8. SupSaid' BY <1>0, <1>1, <1>2 DEF SupSaid
<1> QED BY <1>2, <1>4, <1>5, <1>6, <1>7, <1>8 DEF SupInv

SupWatches == [state: {"none", "active", "stopped", "timedOut"}, last: Nat, fired: Nat,
               timers: SUBSET Nat]

\* A watch with its one timer, or with none, that fired only when it had to.
SupWatchOk(watch) ==
  /\ watch.timers = IF watch.state = "active" THEN {watch.last + SupTimeout} ELSE {}
  /\ watch.state = "timedOut" => watch.fired >= watch.last + SupTimeout

LEMMA SupNewWatches ==
  ASSUME SupInv
  PROVE
    /\ \A w \in {SupNoWatch, SupStarted, SupTouched, SupStopped} : w \in SupWatches /\ SupWatchOk(w)
    /\ supWatch \in SupWatches /\ SupWatchOk(supWatch) /\ SupStopped.timers = {}
<1> USE DEF SupLifes
<1>1. /\ supWatch \in SupWatches /\ SupWatchOk(supWatch) /\ supNow \in Nat /\ SupTimeout \in Nat
  BY SupParts DEF SupInv, SupTypes, SupTimer, SupWatchHonest, SupWatches, SupWatchOk
<1>2. SupNoWatch \in SupWatches /\ SupWatchOk(SupNoWatch)
  BY DEF SupNoWatch, SupWatches, SupWatchOk
<1>3. PICK now \in Nat : now = supNow BY <1>1
<1>4. PICK due \in Nat : due = supNow + SupTimeout BY <1>1
<1>5. {due} \in SUBSET Nat BY <1>4
<1>6. SupStarted \in SupWatches /\ SupWatchOk(SupStarted)
 <2>1. SupStarted = [state |-> "active", last |-> now, fired |-> 0, timers |-> {due}]
   BY <1>3, <1>4 DEF SupStarted, SupSchedule
 <2>2. SupStarted \in SupWatches BY <1>3, <1>5, <2>1 DEF SupWatches
 <2> QED BY <1>3, <1>4, <2>1, <2>2 DEF SupWatchOk
<1>7. SupTouched \in SupWatches /\ SupWatchOk(SupTouched)
 <2>1. CASE SupWatching
  <3>1. SupTouched = [[supWatch EXCEPT !.last = now] EXCEPT !.timers = {due}]
    BY <1>3, <1>4, <2>1 DEF SupTouched, SupSchedule
  <3>2. SupTouched = [supWatch EXCEPT !.last = now, !.timers = {due}]
    BY <1>1, <3>1 DEF SupWatches
  <3>3. SupTouched \in SupWatches BY <1>1, <1>3, <1>5, <3>2 DEF SupWatches
  <3>4. SupTouched.state = "active" /\ SupTouched.last = now /\ SupTouched.timers = {due}
    BY <1>1, <2>1, <3>2 DEF SupWatches, SupWatching
  <3> QED BY <1>3, <1>4, <3>3, <3>4 DEF SupWatchOk
 <2>2. CASE ~ SupWatching BY <1>1, <2>2 DEF SupTouched
 <2> QED BY <2>1, <2>2
<1>8. SupStopped \in SupWatches /\ SupWatchOk(SupStopped) /\ SupStopped.timers = {}
 <2>1. CASE supWatch.state = "none" BY <1>1, <2>1 DEF SupStopped, SupWatchOk
 <2>2. CASE supWatch.state # "none"
  <3>1. PICK state \in {"stopped", "timedOut"} :
          state = IF supWatch.state = "timedOut" THEN "timedOut" ELSE "stopped"
    OBVIOUS
  <3>2. SupStopped = [supWatch EXCEPT !.state = state, !.timers = {}]
    BY <2>2, <3>1 DEF SupStopped
  <3>3. SupStopped \in SupWatches BY <1>1, <3>1, <3>2 DEF SupWatches
  <3>4. /\ SupStopped.state = state /\ SupStopped.timers = {}
        /\ SupStopped.last = supWatch.last /\ SupStopped.fired = supWatch.fired
    BY <1>1, <3>2 DEF SupWatches
  <3> QED BY <1>1, <3>1, <3>3, <3>4 DEF SupWatchOk
 <2> QED BY <2>1, <2>2
<1> QED BY <1>1, <1>2, <1>6, <1>7, <1>8

LEMMA SupWatchKept ==
  ASSUME supWatch' \in SupWatches, SupWatchOk(supWatch'),
    supMain'.at = "prompt" => supWatch'.timers = {}
  PROVE SupTimer'
BY DEF SupTimer, SupWatchOk, SupWatchHonest

LEMMA SupMains ==
  ASSUME SupInv, NEW at \in {"prompt", "running", "exiting", "exited"},
    supMain' = [supMain EXCEPT !.at = at]
  PROVE supMain' \in [at: {"prompt", "running", "exiting", "exited"}, mode: SupModes] /\ supMain'.at = at
BY DEF SupInv, SupTypes

LEMMA SupRunStep == ASSUME SupInv, SupRun PROVE SupInv'
<1> USE DEF SupLifes
<1>0.
  /\ supMain.at = "prompt" /\ supMain' = [supMain EXCEPT !.at = "running"] /\ supFile' = "running"
  /\ supLife' = supLife /\ supTold' = supTold /\ supCost' = supCost /\ supNow' = supNow
  /\ supUses' = supUses /\ supWatch' \in {SupNoWatch, SupStarted}
  BY DEF SupRun
<1>1. SupTypes /\ SupCleaned /\ SupHeard /\ SupTimer /\ SupOrderly /\ SupSaid BY DEF SupInv
<1>2.
  /\ supMain'.at = "running"
  /\ supMain' \in [at: {"prompt", "running", "exiting", "exited"}, mode: SupModes]
  BY <1>0, SupMains
<1>3. supWatch' \in SupWatches /\ SupWatchOk(supWatch') BY <1>0, SupNewWatches
<1>4. SupCleaned' /\ SupHeard' /\ SupPast' = SupPast /\ SupCounted'
  BY <1>0, SupLifeSame, SupCostSame
<1>5. SupTypes' BY <1>0, <1>1, <1>2, <1>3 DEF SupTypes, SupWatches
<1>6. SupTimer' BY <1>2, <1>3, SupWatchKept
<1>7. SupOrderly'
 <2>1. supLife.phase = "live" => SupPast = 0 BY DEF SupPast
 <2> QED BY <1>0, <1>1, <1>2, <1>4, <2>1 DEF SupOrderly
<1>8. SupSaid'
 <2>1. supUses.signals = 0 => SupPast = 0 BY <1>0, SupQuiet
 <2> QED BY <1>0, <1>1, <1>2, <1>4, <2>1 DEF SupSaid
<1> QED BY <1>4, <1>5, <1>6, <1>7, <1>8 DEF SupInv

LEMMA SupRunDoneStep == ASSUME SupInv, SupRunDone PROVE SupInv'
<1> USE DEF SupLifes
<1>0.
  /\ supMain.at = "running" /\ supMain' = [supMain EXCEPT !.at = "exiting"]
  /\ supFile' \in {"aborted", "completed"}
  /\ supWatch' = SupStopped /\ supLife' = SupDestroys("manual")
  /\ supTold' = supTold /\ supCost' = supCost /\ supNow' = supNow /\ supUses' = supUses
  BY DEF SupRunDone
<1>1. SupTypes /\ SupCleaned /\ SupHeard /\ SupTimer /\ SupOrderly /\ SupSaid BY DEF SupInv
<1>2.
  /\ supMain'.at = "exiting"
  /\ supMain' \in [at: {"prompt", "running", "exiting", "exited"}, mode: SupModes]
  BY <1>0, SupMains
<1>3. supWatch' \in SupWatches /\ SupWatchOk(supWatch') /\ supWatch'.timers = {}
  BY <1>0, SupNewWatches
<1>4.
  /\ SupCleaned' /\ SupHeard' /\ SupPast' = SupPast /\ SupCounted' /\ supLife' \in SupLifes
  /\ supLife'.phase # "live"
  BY <1>0, SupDestroyed, SupCostSame DEF SupNormal
<1>5. SupTypes' BY <1>0, <1>1, <1>2, <1>3, <1>4 DEF SupTypes, SupWatches
<1>6. SupTimer' BY <1>2, <1>3, SupWatchKept
<1>7. SupOrderly'
 <2>1. supLife.phase = "live" => SupPast = 0 BY DEF SupPast
 <2> QED BY <1>0, <1>1, <1>2, <1>3, <1>4, <2>1 DEF SupOrderly
<1>8. SupSaid'
 <2>1. supUses.signals = 0 => SupPast = 0 BY <1>0, SupQuiet
 <2> QED BY <1>0, <1>1, <1>2, <1>4, <2>1 DEF SupSaid
<1> QED BY <1>4, <1>5, <1>6, <1>7, <1>8 DEF SupInv

LEMMA SupTurnDoneStep == ASSUME SupInv, SupTurnDone PROVE SupInv'
<1> USE DEF SupLifes
<1>0.
  /\ supMain.at = "running" /\ supMain' = [supMain EXCEPT !.at = "prompt"]
  /\ supFile' \in {"idle", "aborted", "failed"}
  /\ supWatch' = SupStopped /\ supLife' = supLife
  /\ supTold' = supTold /\ supCost' = supCost /\ supNow' = supNow /\ supUses' = supUses
  BY DEF SupTurnDone
<1>1. SupTypes /\ SupCleaned /\ SupHeard /\ SupTimer /\ SupOrderly /\ SupSaid BY DEF SupInv
<1>2.
  /\ supMain'.at = "prompt"
  /\ supMain' \in [at: {"prompt", "running", "exiting", "exited"}, mode: SupModes]
  BY <1>0, SupMains
<1>3. supWatch' \in SupWatches /\ SupWatchOk(supWatch') /\ supWatch'.timers = {}
  BY <1>0, SupNewWatches
<1>4. SupCleaned' /\ SupHeard' /\ SupPast' = SupPast /\ SupCounted'
  BY <1>0, SupLifeSame, SupCostSame
<1>5. SupTypes' BY <1>0, <1>1, <1>2, <1>3 DEF SupTypes, SupWatches
<1>6. SupTimer' BY <1>2, <1>3, SupWatchKept
<1>7. SupOrderly'
 <2>1. supLife.phase = "live" => SupPast = 0 BY DEF SupPast
 <2> QED BY <1>0, <1>1, <1>2, <1>4, <2>1 DEF SupOrderly
<1>8. SupSaid'
 <2>1. supUses.signals = 0 => SupPast = 0 BY <1>0, SupQuiet
 <2> QED BY <1>0, <1>1, <1>2, <1>4, <2>1 DEF SupSaid
<1> QED BY <1>4, <1>5, <1>6, <1>7, <1>8 DEF SupInv

LEMMA SupFatalStep == ASSUME SupInv, SupFatal PROVE SupInv'
<1> USE DEF SupLifes
<1>0.
  /\ supMain.at = "running" /\ supMain' = [supMain EXCEPT !.at = "exiting"]
  /\ supFile' = supFile /\ supWatch' = supWatch
  /\ supLife' = SupDestroys("uncaughtException")
  /\ supTold' = supTold /\ supCost' = supCost /\ supNow' = supNow
  /\ supUses' = [supUses EXCEPT !.fatal = TRUE]
  BY DEF SupFatal
<1>1. SupTypes /\ SupCleaned /\ SupHeard /\ SupTimer /\ SupOrderly /\ SupSaid BY DEF SupInv
<1>2.
  /\ supMain'.at = "exiting"
  /\ supMain' \in [at: {"prompt", "running", "exiting", "exited"}, mode: SupModes]
  BY <1>0, SupMains
<1>3. supWatch' \in SupWatches /\ SupWatchOk(supWatch') BY <1>0, SupNewWatches
<1>4.
  supUses'.fatal /\ supUses'.killed = supUses.killed /\ supUses'.list = supUses.list
  /\ supUses' \in [list: Seq(SupUsed), signals: Nat, fatal: BOOLEAN, killed: BOOLEAN]
  BY <1>0, <1>1 DEF SupTypes
<1>5. /\ SupCleaned' /\ SupHeard' /\ SupPast' = SupPast /\ SupCounted' /\ supLife' \in SupLifes
  BY <1>0, <1>4, SupDestroyed, SupCostSame
<1>6. SupTypes' BY <1>0, <1>1, <1>2, <1>4, <1>5 DEF SupTypes
<1>7. SupTimer' BY <1>2, <1>3, SupWatchKept
<1>8. SupOrderly' BY <1>0, <1>1, <1>2, <1>4 DEF SupOrderly
<1>9. SupSaid'
 <2>1. supUses'.signals = supUses.signals /\ (supUses.signals = 0 => SupPast = 0)
   BY <1>0, <1>1, SupQuiet DEF SupTypes
 <2> QED BY <1>0, <1>1, <1>2, <1>4, <1>5, <2>1 DEF SupSaid
<1> QED BY <1>5, <1>6, <1>7, <1>8, <1>9 DEF SupInv

LEMMA SupQuitStep == ASSUME SupInv, SupQuit PROVE SupInv'
<1> USE DEF SupLifes
<1>0.
  /\ supMain.at = "prompt" /\ supMain' = [supMain EXCEPT !.at = "exiting"]
  /\ supFile' = supFile /\ supWatch' = supWatch /\ supLife' = SupDestroys("beforeExit")
  /\ supTold' = supTold /\ supCost' = supCost /\ supNow' = supNow /\ supUses' = supUses
  BY DEF SupQuit
<1>1. SupTypes /\ SupCleaned /\ SupHeard /\ SupTimer /\ SupOrderly /\ SupSaid BY DEF SupInv
<1>2.
  /\ supMain'.at = "exiting"
  /\ supMain' \in [at: {"prompt", "running", "exiting", "exited"}, mode: SupModes]
  BY <1>0, SupMains
<1>3. supWatch' \in SupWatches /\ SupWatchOk(supWatch') /\ supWatch'.timers = {}
  BY <1>0, <1>1, SupNewWatches DEF SupTimer
<1>4.
  /\ SupCleaned' /\ SupHeard' /\ SupPast' = SupPast /\ SupCounted' /\ supLife' \in SupLifes
  /\ supLife'.phase # "live"
  BY <1>0, SupDestroyed, SupCostSame DEF SupNormal
<1>5. SupTypes' BY <1>0, <1>1, <1>2, <1>4 DEF SupTypes
<1>6. SupTimer' BY <1>2, <1>3, SupWatchKept
<1>7. SupOrderly' BY <1>0, <1>1, <1>2, <1>3, <1>4 DEF SupOrderly
<1>8. SupSaid' BY <1>0, <1>1, <1>2, <1>4 DEF SupSaid
<1> QED BY <1>4, <1>5, <1>6, <1>7, <1>8 DEF SupInv

LEMMA SupExitStep == ASSUME SupInv, SupExit PROVE SupInv'
<1> USE DEF SupLifes
<1>0.
  /\ supMain.at = "exiting" /\ supLife.phase = "destroyed"
  /\ supMain' = [supMain EXCEPT !.at = "exited"]
  /\ supLife' = supLife /\ supTold' = supTold /\ supFile' = supFile /\ supWatch' = supWatch
  /\ supCost' = supCost /\ supNow' = supNow /\ supUses' = supUses
  BY DEF SupExit
<1>1. SupTypes /\ SupCleaned /\ SupHeard /\ SupTimer /\ SupOrderly /\ SupSaid BY DEF SupInv
<1>2.
  /\ supMain'.at = "exited"
  /\ supMain' \in [at: {"prompt", "running", "exiting", "exited"}, mode: SupModes]
  BY <1>0, SupMains
<1>3. SupCleaned' /\ SupHeard' /\ SupPast' = SupPast /\ SupCounted'
  BY <1>0, SupLifeSame, SupCostSame
<1>4. SupTypes' BY <1>0, <1>1, <1>2 DEF SupTypes
<1>5. SupTimer' BY <1>0, <1>1, <1>2 DEF SupTimer, SupWatchHonest
<1>6. SupOrderly' BY <1>0, <1>1, <1>2, <1>3 DEF SupOrderly
<1>7. SupSaid' BY <1>0, <1>1, <1>2, <1>3 DEF SupSaid
<1> QED BY <1>3, <1>4, <1>5, <1>6, <1>7 DEF SupInv

LEMMA SupSignalStep ==
  ASSUME SupInv, NEW reason \in SupReasons, SupSignal(reason)
  PROVE SupInv'
<1> USE DEF SupLifes
<1>0.
  /\ supMain.at # "exited" /\ supMain' = supMain
  /\ supFile' = supFile /\ supWatch' = supWatch /\ supLife' = SupDestroys(reason)
  /\ supTold' = supTold /\ supCost' = supCost /\ supNow' = supNow
  /\ supUses' = [supUses EXCEPT !.signals = @ + 1]
  BY DEF SupSignal
<1>1. SupTypes /\ SupCleaned /\ SupHeard /\ SupTimer /\ SupOrderly /\ SupSaid BY DEF SupInv
<1>2. PICK more \in Nat : more = supUses.signals + 1 /\ more # 0 BY <1>1 DEF SupTypes
<1>3.
  /\ supUses'.signals # 0 /\ supUses'.list = supUses.list
  /\ supUses'.fatal = supUses.fatal /\ supUses'.killed = supUses.killed
  /\ supUses' \in [list: Seq(SupUsed), signals: Nat, fatal: BOOLEAN, killed: BOOLEAN]
 <2>1. supUses' = [supUses EXCEPT !.signals = more] BY <1>0, <1>2
 <2> QED BY <1>1, <1>2, <2>1 DEF SupTypes
<1>4. /\ SupCleaned' /\ SupHeard' /\ SupPast' = SupPast /\ SupCounted' /\ supLife' \in SupLifes
  BY <1>0, <1>3, SupDestroyed, SupCostSame
<1>5. SupTypes' BY <1>0, <1>1, <1>3, <1>4 DEF SupTypes
<1>6. SupTimer' BY <1>0, <1>1 DEF SupTimer, SupWatchHonest
<1>7. SupOrderly' BY <1>0, <1>1, <1>3 DEF SupOrderly
<1>8. SupSaid' BY <1>0, <1>1, <1>3, <1>4 DEF SupSaid
<1> QED BY <1>4, <1>5, <1>6, <1>7, <1>8 DEF SupInv

LEMMA SupKilledStep == ASSUME SupInv, SupKilled PROVE SupInv'
<1> USE DEF SupLifes
<1>0.
  /\ supMain.at # "exited" /\ supMain' = [supMain EXCEPT !.at = "exited"]
  /\ supFile' = supFile /\ supWatch' = supWatch /\ supLife' = SupDestroys("SIGINT")
  /\ supTold' = supTold /\ supCost' = supCost /\ supNow' = supNow
  /\ supUses' = [supUses EXCEPT !.signals = @ + 1, !.killed = TRUE]
  BY DEF SupKilled
<1>1. SupTypes /\ SupCleaned /\ SupHeard /\ SupTimer /\ SupOrderly /\ SupSaid BY DEF SupInv
<1>2.
  /\ supMain'.at = "exited"
  /\ supMain' \in [at: {"prompt", "running", "exiting", "exited"}, mode: SupModes]
  BY <1>0, SupMains
<1>3. PICK more \in Nat : more = supUses.signals + 1 /\ more # 0 BY <1>1 DEF SupTypes
<1>4.
  /\ supUses'.signals # 0 /\ supUses'.killed /\ supUses'.list = supUses.list
  /\ supUses'.fatal = supUses.fatal
  /\ supUses' \in [list: Seq(SupUsed), signals: Nat, fatal: BOOLEAN, killed: BOOLEAN]
 <2>1. supUses' = [supUses EXCEPT !.signals = more, !.killed = TRUE] BY <1>0, <1>3
 <2> QED BY <1>1, <1>3, <2>1 DEF SupTypes
<1>5.
  /\ SupCleaned' /\ SupHeard' /\ SupPast' = SupPast /\ SupCounted' /\ supLife' \in SupLifes
  /\ supLife'.phase # "live"
 <2>1. "SIGINT" \in SupReasons BY DEF SupReasons
 <2> QED BY <1>0, <1>4, <2>1, SupDestroyed, SupCostSame
<1>6. SupTypes' BY <1>0, <1>1, <1>2, <1>4, <1>5 DEF SupTypes
<1>7. SupTimer' BY <1>0, <1>1, <1>2 DEF SupTimer, SupWatchHonest
<1>8. SupOrderly' BY <1>2, <1>4, <1>5 DEF SupOrderly
<1>9. SupSaid' BY <1>2, <1>4 DEF SupSaid
<1> QED BY <1>5, <1>6, <1>7, <1>8, <1>9 DEF SupInv

LEMMA SupFiresStep == ASSUME SupInv, SupFires PROVE SupInv'
<1> USE DEF SupLifes
<1>0.
  /\ supMain' = supMain /\ supLife' = supLife /\ supTold' = supTold
  /\ supCost' = supCost /\ supNow' = supNow /\ supUses' = supUses
  BY DEF SupFires
<1>1. SupTypes /\ SupCleaned /\ SupHeard /\ SupTimer /\ SupOrderly /\ SupSaid BY DEF SupInv
<1>2.
  /\ supWatch.state = "active" /\ supWatch.timers # {} /\ supWatch.last + SupTimeout <= supNow
  /\ supMain.at # "exited"
  BY <1>1 DEF SupFires, SupTimer
<1>3.
  /\ supWatch' = [supWatch EXCEPT !.state = "timedOut", !.fired = supNow, !.timers = {}]
  /\ supFile' = "aborted"
  BY <1>2 DEF SupFires, SupWatching
<1>4. /\ supWatch' \in SupWatches /\ SupWatchOk(supWatch') /\ supWatch'.timers = {}
 <2>1. supWatch \in SupWatches /\ supNow \in Nat BY <1>1 DEF SupTypes, SupWatches
 <2>2.
   /\ supWatch'.state = "timedOut" /\ supWatch'.fired = supNow /\ supWatch'.timers = {}
   /\ supWatch'.last = supWatch.last /\ supWatch' \in SupWatches
   BY <1>3, <2>1 DEF SupWatches
 <2>3. supWatch'.fired >= supWatch'.last + SupTimeout BY <1>1, <1>2, <2>2, SupParts
 <2> QED BY <2>2, <2>3 DEF SupWatchOk
<1>5. SupCleaned' /\ SupHeard' /\ SupPast' = SupPast /\ SupCounted'
  BY <1>0, SupLifeSame, SupCostSame
<1>6. SupTypes' BY <1>0, <1>1, <1>3, <1>4 DEF SupTypes, SupWatches
<1>7. SupTimer' BY <1>4, SupWatchKept
<1>8. SupOrderly'
 <2>1. supLife.phase = "live" => SupPast = 0 BY DEF SupPast
 <2>2. supMain.at \in {"prompt", "running", "exiting", "exited"} BY <1>1, SupParts
 <2> QED BY <1>0, <1>1, <1>2, <1>4, <1>5, <2>1, <2>2 DEF SupOrderly
<1>9. SupSaid' BY <1>0, <1>1, <1>3, <1>5 DEF SupSaid
<1> QED BY <1>5, <1>6, <1>7, <1>8, <1>9 DEF SupInv

LEMMA SupTickStep == ASSUME SupInv, SupTick PROVE SupInv'
<1> USE DEF SupLifes
<1>0.
  /\ supMain' = supMain /\ supLife' = supLife /\ supTold' = supTold /\ supFile' = supFile
  /\ supWatch' = supWatch /\ supCost' = supCost /\ supNow' = supNow + 1 /\ supUses' = supUses
  BY DEF SupTick
<1>1. SupTypes /\ SupCleaned /\ SupHeard /\ SupTimer /\ SupOrderly /\ SupSaid BY DEF SupInv
<1>2. SupCleaned' /\ SupHeard' /\ SupPast' = SupPast /\ SupCounted'
  BY <1>0, SupLifeSame, SupCostSame
<1>3. SupTypes' BY <1>0, <1>1 DEF SupTypes
<1>4. SupTimer' BY <1>0, <1>1 DEF SupTimer, SupWatchHonest
<1>5. SupOrderly' BY <1>0, <1>1, <1>2 DEF SupOrderly
<1>6. SupSaid' BY <1>0, <1>1, <1>2 DEF SupSaid
<1> QED BY <1>2, <1>3, <1>4, <1>5, <1>6 DEF SupInv

\* The three models and what they cost.
LEMMA SupThree ==
  /\ SupModelList = <<{}, {"default-rule"}, {"override-partial", "default-rule"}>>
  /\ Len(SupModelList) = 3
  /\ SupModels = {{}, {"default-rule"}, {"override-partial", "default-rule"}}
  /\ {"default-rule"} # {"override-partial", "default-rule"}
  /\ \A m \in SupModels : SupPrice(m) = IF m = {} THEN 0 ELSE IF "override-partial" \in m THEN 2 ELSE 1
  /\ \A m \in SupModels : SupSource(m) = "unknown" <=> m = {}
<1>1.
  /\ SupModelList = <<{}, {"default-rule"}, {"override-partial", "default-rule"}>>
  /\ Len(SupModelList) = 3 /\ DOMAIN SupModelList = {1, 2, 3}
  BY DEF SupModelList
<1>2. SupModels = {{}, {"default-rule"}, {"override-partial", "default-rule"}}
  BY <1>1 DEF SupModels
<1>4.
  /\ DOMAIN SupTables = {1, 2, 3, 4} /\ SupTables[1] = "override-exact"
  /\ SupTables[2] = "override-partial" /\ SupTables[3] = "default-exact"
  /\ SupTables[4] = "default-rule"
  BY DEF SupTables
<1>5. SupSource({}) = "unknown" BY DEF SupSource
<1>6. ASSUME NEW m \in SupModels, NEW k \in {1, 2, 3, 4}, SupTables[k] \in m,
    \A j \in {1, 2, 3, 4} : SupTables[j] \in m => j >= k
  PROVE SupSource(m) = SupTables[k]
 <2> DEFINE First(i) == SupTables[i] \in m /\ \A j \in 1 .. i - 1 : SupTables[j] \notin m
 <2>1. k \in DOMAIN SupTables /\ First(k)
  <3>1. \A j \in 1 .. k - 1 : j \in {1, 2, 3, 4} /\ ~ (j >= k) OBVIOUS
  <3> QED BY <1>4, <1>6, <3>1
 <2>2. PICK c : c = (CHOOSE i \in DOMAIN SupTables : First(i)) /\ c \in DOMAIN SupTables /\ First(c)
  <3> HIDE DEF First
  <3> QED BY <2>1
 <2>3. c = k
  <3>1. c \in {1, 2, 3, 4} /\ c >= k BY <1>4, <1>6, <2>2
  <3>2. ~ (k < c)
   <4>1. k < c => k \in 1 .. c - 1 BY <3>1
   <4> QED BY <1>6, <2>2, <4>1
  <3> QED BY <3>1, <3>2
 <2>4. m # {} BY <1>6
 <2>5. SupSource(m) = SupTables[CHOOSE i \in DOMAIN SupTables : First(i)] BY <2>4 DEF SupSource
 <2> QED BY <2>2, <2>3, <2>5
<1>7. SupSource({"default-rule"}) = "default-rule"
 <2>1. \A j \in {1, 2, 3, 4} : SupTables[j] \in {"default-rule"} => j >= 4 BY <1>4
 <2> QED BY <1>2, <1>4, <1>6, <2>1
<1>8. SupSource({"override-partial", "default-rule"}) = "override-partial"
 <2>1. \A j \in {1, 2, 3, 4} : SupTables[j] \in {"override-partial", "default-rule"} => j >= 2
   BY <1>4
 <2> QED BY <1>2, <1>4, <1>6, <2>1
<1>9.
  /\ SupPrice({}) = 0 /\ SupPrice({"default-rule"}) = 1
  /\ SupPrice({"override-partial", "default-rule"}) = 2
  BY <1>5, <1>7, <1>8 DEF SupPrice
<1> QED BY <1>1, <1>2, <1>5, <1>7, <1>8, <1>9

LEMMA SupPrices == \A m \in SupModels : SupPrice(m) \in {0, 1, 2}
<1>1. \A m \in SupModels : m = {} \/ m # {} OBVIOUS
<1> QED BY <1>1, SupThree, Zenon

\* The places of an entry.
SupWhere(list, use) == {i \in DOMAIN list : list[i] = use}

LEMMA SupWhereFinite ==
  ASSUME NEW S, NEW list \in Seq(S), NEW use
  PROVE IsFiniteSet(SupWhere(list, use)) /\ Cardinality(SupWhere(list, use)) \in Nat
<1>1. DOMAIN list = 1 .. Len(list) /\ Len(list) \in Nat BY Indices
<1>2. IsFiniteSet(1 .. Len(list)) BY <1>1, FS_Interval
<1>3. SupWhere(list, use) \subseteq 1 .. Len(list) BY <1>1 DEF SupWhere
<1> QED BY <1>2, <1>3, FS_Subset, FS_CardinalityType

LEMMA SupOneMore ==
  ASSUME NEW S, NEW list \in Seq(S), NEW e \in S, NEW use
  PROVE
    Cardinality(SupWhere(Append(list, e), use)) =
      Cardinality(SupWhere(list, use)) + (IF e = use THEN 1 ELSE 0)
<1>1. PICK more : more = Append(list, e) OBVIOUS
<1>2. PICK n : n = Len(list) OBVIOUS
<1>3.
  /\ more \in Seq(S) /\ n \in Nat /\ DOMAIN list = 1 .. n /\ DOMAIN more = 1 .. n + 1
  /\ \A i \in 1 .. n + 1 : more[i] = IF i <= n THEN list[i] ELSE e
 <2>1. more \in Seq(S) /\ Len(more) = n + 1 /\ \A i \in 1 .. Len(more) : more[i] = IF i <= n THEN list[i] ELSE e
   BY <1>1, <1>2, AppendNew
 <2> QED BY <1>2, <2>1, Indices
<1>4. IsFiniteSet(SupWhere(list, use)) /\ Cardinality(SupWhere(list, use)) \in Nat
  BY SupWhereFinite
<1>5. CASE e = use
 <2>1. PICK new : new = n + 1 OBVIOUS
 <2>2. SupWhere(more, use) = SupWhere(list, use) \cup {new} BY <1>3, <1>5, <2>1 DEF SupWhere
 <2>3. new \notin SupWhere(list, use) BY <1>3, <2>1 DEF SupWhere
 <2> QED BY <1>1, <1>4, <1>5, <2>2, <2>3, FS_AddElement
<1>6. CASE e # use
 <2>1. SupWhere(more, use) = SupWhere(list, use) BY <1>3, <1>6 DEF SupWhere
 <2> QED BY <1>1, <1>4, <1>6, <2>1
<1> QED BY <1>5, <1>6

LEMMA SupEventStep == ASSUME SupInv, SupEvent PROVE SupInv'
<1> USE DEF SupLifes
<1>0.
  /\ supMain.at = "running" /\ supMain' = supMain
  /\ supLife' = supLife /\ supTold' = supTold /\ supFile' = supFile /\ supNow' = supNow
  /\ supWatch' = SupTouched
  BY DEF SupEvent
<1>1. SupTypes /\ SupCleaned /\ SupHeard /\ SupTimer /\ SupOrderly /\ SupSaid /\ SupCounted
  BY DEF SupInv
<1>2.
  PICK use \in SupUsed : /\ supCost' = SupAdded(use[1], use[2])
                         /\ supUses' = [supUses EXCEPT !.list = Append(@, use)]
  BY DEF SupEvent, SupUsed
<1>3. PICK list : list = supUses.list OBVIOUS
<1>4. PICK more : more = Append(list, use) OBVIOUS
<1>5. list \in Seq(SupUsed) /\ more \in Seq(SupUsed) BY <1>1, <1>3, <1>4, AppendNew, SupParts
<1>6.
  /\ supUses' \in [list: Seq(SupUsed), signals: Nat, fatal: BOOLEAN, killed: BOOLEAN]
  /\ supUses'.list = more /\ supUses'.signals = supUses.signals /\ supUses'.fatal = supUses.fatal
  /\ supUses'.killed = supUses.killed
 <2>1. supUses' = [supUses EXCEPT !.list = more] BY <1>2, <1>3, <1>4
 <2> QED BY <1>1, <1>5, <2>1 DEF SupTypes
<1>7. supWatch' \in SupWatches /\ SupWatchOk(supWatch') BY <1>0, SupNewWatches
<1>8. SupCleaned' /\ SupHeard' /\ SupPast' = SupPast BY <1>0, SupLifeSame
<1>9. SupTypes' BY <1>0, <1>1, <1>6, <1>7 DEF SupTypes, SupWatches
<1>10. SupTimer' BY <1>0, <1>7, SupWatchKept
<1>11. SupOrderly'
 <2>1. supLife.phase = "live" => SupPast = 0 BY DEF SupPast
 <2> QED BY <1>0, <1>1, <1>6, <1>8, <2>1 DEF SupOrderly
<1>12. SupCounted'
 <2>1. \A m : SupTimes(m) = Cardinality(SupWhere(list, <<m, 1>>)) BY <1>3 DEF SupTimes, SupWhere
 <2>2. \A m : SupTimes(m)' = Cardinality(SupWhere(more, <<m, 1>>))
   BY <1>6 DEF SupTimes, SupWhere
 <2>3.
   \A m : /\ Cardinality(SupWhere(list, <<m, 1>>)) \in Nat
          /\ Cardinality(SupWhere(more, <<m, 1>>)) =
               Cardinality(SupWhere(list, <<m, 1>>)) + (IF use = <<m, 1>> THEN 1 ELSE 0)
   BY <1>4, <1>5, SupOneMore, SupWhereFinite
 <2>4. supCost = [m \in SupModels |-> [tokens |-> SupTimes(m), cost |-> SupTimes(m) * SupPrice(m)]]
   BY <1>1 DEF SupCounted
 <2>5. \A m \in SupModels : SupPrice(m) \in Nat BY SupPrices
 <2>6. PICK model \in SupModels, n \in {0, 1} : use = <<model, n>> BY SupThree DEF SupUsed
 <2>7. PICK price \in Nat : price = SupPrice(model) BY <2>5
 <2>8. PICK was \in Nat : was = SupTimes(model) BY <2>1, <2>3
 <2>9. supCost' = [supCost EXCEPT ![model] = [tokens |-> was + n, cost |-> was * price + n * price]]
  <3>1. supCost[model].tokens = was /\ supCost[model].cost = was * price BY <2>4, <2>7, <2>8
  <3>2. supCost' = [supCost EXCEPT ![model] =
                      [tokens |-> supCost[model].tokens + n, cost |-> supCost[model].cost + n * price]]
    BY <1>2, <2>6, <2>7 DEF SupAdded
  <3> QED BY <3>1, <3>2
 <2>10. SupTimes(model)' = was + n BY <2>1, <2>2, <2>3, <2>6, <2>8
 <2>11. \A m \in SupModels \ {model} : SupTimes(m)' = SupTimes(m)
  <3> SUFFICES ASSUME NEW m \in SupModels \ {model}
    PROVE SupTimes(m)' = SupTimes(m)
    OBVIOUS
  <3>1. use # <<m, 1>> BY <2>6
  <3>2. /\ Cardinality(SupWhere(list, <<m, 1>>)) \in Nat
        /\ Cardinality(SupWhere(more, <<m, 1>>)) = Cardinality(SupWhere(list, <<m, 1>>)) + 0
    BY <2>3, <3>1
  <3> QED BY <2>1, <2>2, <3>2
 <2>12. (was + n) * price = was * price + n * price
  <3>1. n = 0 \/ n = 1 OBVIOUS
  <3> QED BY <3>1, SMT
 <2>13.
   \A m \in SupModels : supCost'[m] =
                 [tokens |-> SupTimes(m)', cost |-> SupTimes(m)' * SupPrice(m)]
  <3> SUFFICES ASSUME NEW m \in SupModels
    PROVE supCost'[m] = [tokens |-> SupTimes(m)', cost |-> SupTimes(m)' * SupPrice(m)]
    OBVIOUS
  <3>1. CASE m = model BY <2>4, <2>7, <2>9, <2>10, <2>12, <3>1
  <3>2. CASE m # model BY <2>4, <2>9, <2>11, <3>2
  <3> QED BY <3>1, <3>2
 <2>14. DOMAIN supCost' = SupModels /\ supCost' = [m \in SupModels |-> supCost'[m]]
   BY <2>4, <2>9
 <2> QED BY <2>13, <2>14 DEF SupCounted
<1>13. SupSaid' BY <1>0, <1>1, <1>6, <1>8 DEF SupSaid
<1> QED BY <1>8, <1>9, <1>10, <1>11, <1>12, <1>13 DEF SupInv

LEMMA SupStart == ASSUME SupInit PROVE SupInv
<1> USE DEF SupLifes
<1>0.
  /\ supMain.at = "prompt" /\ supMain \in [at : {"prompt"}, mode : SupModes]
  /\ supLife = SupNoLife /\ supTold = <<>> /\ supFile = "idle" /\ supWatch = SupNoWatch
  /\ supCost = [m \in SupModels |-> [tokens |-> 0, cost |-> 0]]
  /\ supNow = 0 /\ supUses = [list |-> <<>>, signals |-> 0, fatal |-> FALSE, killed |-> FALSE]
  BY DEF SupInit
<1>1.
  /\ \A S : <<>> \in Seq(S)
  /\ Len(<<>>) = 0 /\ DOMAIN <<>> = {}
  BY EmptySeq
<1>2. SupTypes BY <1>0, <1>1 DEF SupTypes, SupNoLife, SupNoWatch
<1>3. SupPast = 0 BY <1>0 DEF SupPast, SupNoLife
<1>4. SupCleaned BY <1>0, <1>1, SupLists DEF SupCleaned, SupNoLife
<1>5. SupHeard BY <1>0, <1>1, <1>3 DEF SupHeard, SupNoLife
<1>6. SupTimer BY <1>0 DEF SupTimer, SupWatchHonest, SupNoWatch
<1>7. SupOrderly BY <1>0, <1>3 DEF SupOrderly, SupNoLife
<1>8. SupCounted
 <2>1. \A m : SupTimes(m) = 0
  <3>1. \A m : {i \in DOMAIN supUses.list : supUses.list[i] = <<m, 1>>} = {} BY <1>0, <1>1
  <3> QED BY <3>1, FS_EmptySet DEF SupTimes
 <2>2. \A m \in SupModels : 0 * SupPrice(m) = 0
  <3>1. \A n \in {0, 1, 2} : 0 * n = 0 OBVIOUS
  <3> QED BY <3>1, SupPrices
 <2> QED BY <1>0, <2>1, <2>2 DEF SupCounted
<1>9. SupSaid BY <1>0, <1>3 DEF SupSaid
<1> QED BY <1>2, <1>4, <1>5, <1>6, <1>7, <1>8, <1>9 DEF SupInv

\* However the signals, the timer and the turns of main interleave, each cleanup and each
\* listener is done or still to do, once and in order, or cut off by the terminal's exit on
\* a signal; one timer at most is set and it is the latest, main ends no run without saying
\* what came of it, and the account holds what was used (lifecycle.ts, watchdog.ts, app.tsx).
THEOREM SupInvariant == SupSpec => []SupInv
<1> USE DEF SupLifes
<1>1. SupInv /\ [SupNext]_supVars => SupInv'
 <2> SUFFICES ASSUME SupInv, [SupNext]_supVars PROVE SupInv' OBVIOUS
 <2>1. CASE SupRun BY <2>1, SupRunStep
 <2>2. CASE SupEvent BY <2>2, SupEventStep
 <2>3. CASE SupRunDone BY <2>3, SupRunDoneStep
 <2>4. CASE SupTurnDone BY <2>4, SupTurnDoneStep
 <2>5. CASE SupFatal BY <2>5, SupFatalStep
 <2>6. CASE SupQuit BY <2>6, SupQuitStep
 <2>7. CASE SupExit BY <2>7, SupExitStep
 <2>8. CASE \E reason \in SupReasons : SupSignal(reason) BY <2>8, SupSignalStep
 <2>9. CASE SupFires BY <2>9, SupFiresStep
 <2>10. CASE SupTick BY <2>10, SupTickStep
 <2>11. CASE SupCleanup BY <2>11, SupCleanupStep
 <2>12. CASE SupTell BY <2>12, SupTellStep
 <2>14. CASE SupKilled BY <2>14, SupKilledStep
 <2>13. CASE UNCHANGED supVars
  <3>1. SupTypes /\ SupCleaned /\ SupHeard /\ SupTimer /\ SupOrderly /\ SupSaid BY DEF SupInv
  <3>2. SupCleaned' /\ SupHeard' /\ SupPast' = SupPast /\ SupCounted'
    BY <2>13, SupLifeSame, SupCostSame DEF supVars
  <3>3. SupTypes' /\ SupTimer' BY <2>13, <3>1 DEF supVars, SupTypes, SupTimer, SupWatchHonest
  <3>4. SupOrderly' /\ SupSaid' BY <2>13, <3>1, <3>2 DEF supVars, SupOrderly, SupSaid
  <3> QED BY <3>2, <3>3, <3>4 DEF SupInv
 <2> QED BY <2>1, <2>2, <2>3, <2>4, <2>5, <2>6, <2>7, <2>8, <2>9, <2>10, <2>11, <2>12, <2>13,
      <2>14 DEF SupNext
<1> QED BY <1>1, SupStart, PTL DEF SupSpec

\* What agrees with a longer sequence wherever it is long is a prefix of it.
LEMMA SupPrefix ==
  ASSUME NEW S, NEW s \in Seq(S), NEW t \in Seq(S), Len(s) <= Len(t),
    \A i \in 1 .. Len(s) : s[i] = t[i]
  PROVE IsPrefix(s, t)
<1>1. PICK n \in Nat : n = Len(s) BY Indices
<1>2. /\ \A i \in 1 .. n : s[i] \in S /\ t[i] \in S BY <1>1, Indices
<1>3. PICK a : a = SubSeq(s, 1, n) OBVIOUS
<1>4. PICK b : b = SubSeq(t, 1, n) OBVIOUS
<1>5.
  /\ a \in Seq(S) /\ Len(a) = (IF 1 <= n THEN n - 1 + 1 ELSE 0)
  /\ \A i \in 1 .. n - 1 + 1 : a[i] = s[1 + i - 1]
  BY <1>2, <1>3, SubSeqProperties
<1>6.
  /\ b \in Seq(S) /\ Len(b) = (IF 1 <= n THEN n - 1 + 1 ELSE 0)
  /\ \A i \in 1 .. n - 1 + 1 : b[i] = t[1 + i - 1]
  BY <1>2, <1>4, SubSeqProperties
<1>7. Len(a) = n /\ Len(b) = n /\ \A i \in 1 .. n : i \in 1 .. n - 1 + 1 /\ 1 + i - 1 = i
  BY <1>5, <1>6
<1>8. \A i \in 1 .. n : a[i] = b[i] BY <1>1, <1>5, <1>6, <1>7
<1>9. a = b BY <1>5, <1>6, <1>7, <1>8, SeqEqual
<1> QED BY <1>1, <1>3, <1>4, <1>9 DEF IsPrefix

LEMMA SupEnds == ASSUME SupInv PROVE SupEndsOnce
<1> USE DEF SupLifes
<1>1. SupTypes /\ SupCleaned /\ SupHeard /\ SupOrderly BY DEF SupInv
<1>2.
  /\ supLife.ran \in Seq(SupEntries) /\ SupLastFirst \in Seq(SupEntries) /\ Len(SupLastFirst) = 3
  /\ Len(supLife.ran) <= Len(SupLastFirst)
  /\ \A i \in 1 .. Len(supLife.ran) : supLife.ran[i] = SupLastFirst[i]
  BY <1>1, SupParts, SupLists DEF SupCleaned
<1>3. IsPrefix(supLife.ran, SupLastFirst) BY <1>2, SupPrefix
<1>4. ASSUME NEW i \in DOMAIN supTold, NEW j \in DOMAIN supTold, supTold[i] = supTold[j]
  PROVE i = j
 <2>1. i \in Int /\ j \in Int BY <1>1, SupParts
 <2>2.
   /\ i < j => SupPlace(supTold[i]) < SupPlace(supTold[j])
   /\ j < i => SupPlace(supTold[j]) < SupPlace(supTold[i])
   BY <1>1 DEF SupHeard
 <2>3. SupPlace(supTold[i]) \in Int /\ SupPlace(supTold[i]) = SupPlace(supTold[j])
   BY <1>4, SupPlaces
 <2> QED BY <2>1, <2>2, <2>3
<1>5. SupPast >= 1 => supLife.ran = SupLastFirst
 <2>1. SUFFICES ASSUME SupPast >= 1 PROVE supLife.ran = SupLastFirst OBVIOUS
 <2>2. supLife.phase \in {"listeners", "destroyed"} BY <2>1 DEF SupPast
 <2>3. Len(supLife.ran) = Len(SupLastFirst) BY <1>1, <2>2 DEF SupCleaned
 <2> QED BY <1>2, <2>3, SeqEqual
<1>6. supTold # <<>> => supLife.ran = SupLastFirst
 <2>1. SUFFICES ASSUME supTold # <<>> PROVE SupPast >= 1 BY <1>5
 <2>2. 1 \in DOMAIN supTold BY <1>1, <2>1, SupParts, EmptySeq
 <2>3. SupPlace(supTold[1]) <= SupPast /\ SupPlace(supTold[1]) \in 1 .. 3 /\ SupPast \in Int
   BY <1>1, <2>2, SupPlaces, SupParts DEF SupHeard
 <2> QED BY <2>3
<1>7. ASSUME supMain.at = "exited"
  PROVE Head(SupLastFirst) \in ToSet(supLife.ran)
 <2>1. Len(supLife.ran) >= 1 BY <1>1, <1>7 DEF SupOrderly, SupCleaned
 <2>2. 1 \in 1 .. Len(supLife.ran) /\ DOMAIN supLife.ran = 1 .. Len(supLife.ran)
   BY <1>1, <2>1, Indices, SupParts
 <2>3. supLife.ran[1] = Head(SupLastFirst) BY <1>2, <2>2, SupLists
 <2>4. ToSet(supLife.ran) = {supLife.ran[i] : i \in DOMAIN supLife.ran} BY <1>2, ToSetMembers
 <2> QED BY <2>2, <2>3, <2>4
<1>8. ASSUME supMain.at = "exited", ~ supUses.killed
  PROVE
    /\ supLife.ran = SupLastFirst /\ {"status", "finalize"} \subseteq ToSet(supTold)
    /\ "digest" \in ToSet(supTold) <=> supLife.reason \in {"manual", "beforeExit"}
 <2>1. supLife.phase = "destroyed" /\ SupPast = 3 BY <1>1, <1>8 DEF SupOrderly, SupPast
 <2> QED BY <1>1, <1>5, <2>1 DEF SupHeard, SupNormal
<1> QED BY <1>3, <1>4, <1>6, <1>7, <1>8 DEF SupEndsOnce

\* The total is the use of the two models that cost something.
LEMMA SupTotals ==
  ASSUME SupInv
  PROVE
    /\ SupTimes({"default-rule"}) \in Nat /\ SupTimes({"override-partial", "default-rule"}) \in Nat
    /\ SupTotal = SupTimes({"default-rule"}) + 2 * SupTimes({"override-partial", "default-rule"})
<1>1. \A m : SupTimes(m) \in Nat
 <2>1. supUses.list \in Seq(SupUsed) BY SupParts DEF SupInv
 <2> QED BY <2>1, SupWhereFinite DEF SupTimes, SupWhere
<1>2. PICK n \in Nat : n = SupTimes({"default-rule"}) BY <1>1
<1>3. PICK k \in Nat : k = SupTimes({"override-partial", "default-rule"}) BY <1>1
<1>4. PICK z \in Nat : z = SupTimes({}) BY <1>1
<1>5.
  /\ SupModelList[1] = {} /\ SupModelList[2] = {"default-rule"}
  /\ SupModelList[3] = {"override-partial", "default-rule"} /\ Len(SupModelList) = 3
  BY SupThree
<1>6.
  /\ {} \in SupModels /\ {"default-rule"} \in SupModels
  /\ {"override-partial", "default-rule"} \in SupModels
  /\ SupPrice({}) = 0 /\ SupPrice({"default-rule"}) = 1
  /\ SupPrice({"override-partial", "default-rule"}) = 2
  BY SupThree
<1>7.
  /\ supCost[SupModelList[1]].cost = 0 /\ supCost[SupModelList[2]].cost = n
  /\ supCost[SupModelList[3]].cost = 2 * k
 <2>1. supCost = [m \in SupModels |-> [tokens |-> SupTimes(m), cost |-> SupTimes(m) * SupPrice(m)]]
   BY DEF SupInv, SupCounted
 <2>2.
   /\ supCost[{}].cost = z * 0 /\ supCost[{"default-rule"}].cost = n * 1
   /\ supCost[{"override-partial", "default-rule"}].cost = k * 2
   BY <1>2, <1>3, <1>4, <1>6, <2>1
 <2>3. z * 0 = 0 /\ n * 1 = n /\ k * 2 = 2 * k OBVIOUS
 <2> QED BY <1>5, <2>2, <2>3
<1> DEFINE
  Is(f) == f = [i \in 0 .. Len(SupModelList) |->
                  IF i = 0 THEN 0 ELSE f[i - 1] + supCost[SupModelList[i]].cost]
<1>8. Is([i \in 0 .. 3 |-> IF i \in {0, 1} THEN 0 ELSE IF i = 2 THEN n ELSE n + 2 * k])
 <2>1. PICK f : f = [i \in 0 .. 3 |-> IF i \in {0, 1} THEN 0 ELSE IF i = 2 THEN n ELSE n + 2 * k]
   OBVIOUS
 <2>2. f[0] = 0 /\ f[1] = 0 /\ f[2] = n /\ f[3] = n + 2 * k BY <2>1
 <2>3. PICK c : c = [i \in 1 .. 3 |-> supCost[SupModelList[i]].cost] OBVIOUS
 <2>4. c[1] = 0 /\ c[2] = n /\ c[3] = 2 * k BY <1>7, <2>3
 <2>5. \A i \in 0 .. 3 : f[i] = IF i = 0 THEN 0 ELSE f[i - 1] + c[i]
  <3>1. \A i \in 0 .. 3 : i = 0 \/ i = 1 \/ i = 2 \/ i = 3 OBVIOUS
  <3> QED BY <2>2, <2>4, <3>1
 <2>6. \A i \in 0 .. 3 : f[i] = IF i = 0 THEN 0 ELSE f[i - 1] + supCost[SupModelList[i]].cost
  <3>1. \A i \in 0 .. 3 : i # 0 => c[i] = supCost[SupModelList[i]].cost BY <2>3
  <3> QED BY <2>5, <3>1
 <2>7.
   f = [i \in 0 .. Len(SupModelList) |->
                      IF i = 0 THEN 0 ELSE f[i - 1] + supCost[SupModelList[i]].cost]
   BY <1>5, <2>1, <2>6
 <2> QED BY <2>1, <2>7
<1>9. PICK sum : sum = (CHOOSE f : Is(f)) /\ Is(sum)
 <2> HIDE DEF Is
 <2> QED BY <1>8
<1>10. SupTotal = sum[3] BY <1>5, <1>9 DEF SupTotal
<1>11. /\ sum[0] = 0 /\ sum[1] = sum[0] + 0 /\ sum[2] = sum[1] + n /\ sum[3] = sum[2] + 2 * k
 <2>1. \A i \in 1 .. 3 : i # 0 /\ i \in 0 .. 3 OBVIOUS
 <2>2. \A i \in 1 .. 3 : sum[i] = sum[i - 1] + supCost[SupModelList[i]].cost BY <1>5, <1>9, <2>1
 <2>3. sum[0] = 0 BY <1>5, <1>9
 <2>4. 1 - 1 = 0 /\ 2 - 1 = 1 /\ 3 - 1 = 2 /\ 1 \in 1 .. 3 /\ 2 \in 1 .. 3 /\ 3 \in 1 .. 3
   OBVIOUS
 <2>5. sum[1] = sum[0] + supCost[SupModelList[1]].cost BY <2>2, <2>4
 <2>6. sum[2] = sum[1] + supCost[SupModelList[2]].cost BY <2>2, <2>4
 <2>7. sum[3] = sum[2] + supCost[SupModelList[3]].cost BY <2>2, <2>4
 <2> QED BY <1>7, <2>3, <2>5, <2>6, <2>7
<1>12. sum[3] = n + 2 * k BY <1>11
<1> QED BY <1>2, <1>3, <1>10, <1>12

LEMMA SupCostsHold == ASSUME SupInv PROVE SupCostsTrue
<1> DEFINE used == supUses.list
  known == {i \in DOMAIN used : used[i][1] # {} /\ used[i][2] > 0}
  dear == {i \in known : "override-partial" \in used[i][1]}
  two == {"default-rule"}
  three == {"override-partial", "default-rule"}
<1>1. used \in Seq(SupUsed) /\ \A i \in DOMAIN used : used[i] \in SupUsed
  BY SupParts, Indices DEF SupInv
<1>2.
  \A use \in SupUsed :
     /\ use[1] # {} /\ use[2] > 0 <=> use = <<two, 1>> \/ use = <<three, 1>>
     /\ use = <<three, 1>> => "override-partial" \in use[1]
     /\ use = <<two, 1>> => "override-partial" \notin use[1]
     /\ use[1] = {} /\ use[2] > 0 <=> use = <<{}, 1>>
 <2> SUFFICES ASSUME NEW use \in SupUsed
   PROVE
     /\ use[1] # {} /\ use[2] > 0 <=> use = <<two, 1>> \/ use = <<three, 1>>
     /\ use = <<three, 1>> => "override-partial" \in use[1]
     /\ use = <<two, 1>> => "override-partial" \notin use[1]
     /\ use[1] = {} /\ use[2] > 0 <=> use = <<{}, 1>>
   OBVIOUS
 <2>1. use = <<{}, 0>> \/ use = <<{}, 1>> \/ use = <<two, 1>> \/ use = <<three, 1>>
   BY SupThree DEF SupUsed
 <2>2. two # {} /\ three # {} /\ two # three /\ "override-partial" \in three /\ "override-partial" \notin two
   OBVIOUS
 <2> HIDE DEF two, three
 <2> QED BY <2>1, <2>2
<1> HIDE DEF two, three
<1>3. known = SupWhere(used, <<two, 1>>) \cup SupWhere(used, <<three, 1>>)
  BY <1>1, <1>2 DEF SupWhere
<1>4. dear = SupWhere(used, <<three, 1>>) BY <1>1, <1>2, <1>3 DEF SupWhere
<1>5. SupWhere(used, <<two, 1>>) \cap SupWhere(used, <<three, 1>>) = {}
 <2>1. <<two, 1>> # <<three, 1>> BY SupThree DEF two, three
 <2> QED BY <2>1 DEF SupWhere
<1>6.
  /\ SupTimes(two) = Cardinality(SupWhere(used, <<two, 1>>))
  /\ SupTimes(three) = Cardinality(SupWhere(used, <<three, 1>>))
  /\ SupTimes({}) = Cardinality(SupWhere(used, <<{}, 1>>))
  BY DEF SupTimes, SupWhere
<1>7.
  /\ IsFiniteSet(SupWhere(used, <<two, 1>>)) /\ IsFiniteSet(SupWhere(used, <<three, 1>>))
  /\ IsFiniteSet(SupWhere(used, <<{}, 1>>))
  BY <1>1, SupWhereFinite
<1>8. SupTimes(two) \in Nat /\ SupTimes(three) \in Nat /\ SupTotal = SupTimes(two) + 2 * SupTimes(three)
  BY SupTotals DEF two, three
<1>9. Cardinality(known) = SupTimes(two) + SupTimes(three) /\ Cardinality(dear) = SupTimes(three)
 <2>1. Cardinality(known) = SupTimes(two) + SupTimes(three) - Cardinality({})
   BY <1>3, <1>5, <1>6, <1>7, FS_Union
 <2> QED
  <3>1. Cardinality({}) = 0 BY FS_EmptySet
  <3>2. SupTimes(two) + SupTimes(three) - 0 = SupTimes(two) + SupTimes(three) BY <1>8
  <3>3. Cardinality(dear) = SupTimes(three) BY <1>4, <1>6
  <3> QED BY <2>1, <3>1, <3>2, <3>3
<1>10. SupTotal = Cardinality(known) + Cardinality(dear) BY <1>8, <1>9
<1>11. SupUnknown # {} <=> \E i \in DOMAIN used : used[i][1] = {} /\ used[i][2] > 0
 <2>1. supCost = [m \in SupModels |-> [tokens |-> SupTimes(m), cost |-> SupTimes(m) * SupPrice(m)]]
   BY DEF SupInv, SupCounted
 <2>2. {} \in SupModels /\ \A m \in SupModels : SupSource(m) = "unknown" <=> m = {} BY SupThree
 <2>3. SupUnknown # {} <=> SupTimes({}) > 0 BY <2>1, <2>2 DEF SupUnknown
 <2>4. SupTimes({}) > 0 <=> SupWhere(used, <<{}, 1>>) # {}
  <3>1. SupTimes({}) \in Nat /\ (SupTimes({}) = 0 <=> SupWhere(used, <<{}, 1>>) = {})
    BY <1>6, <1>7, FS_EmptySet, FS_CardinalityType
  <3> QED BY <3>1
 <2>5. SupWhere(used, <<{}, 1>>) # {} <=> \E i \in DOMAIN used : used[i] = <<{}, 1>>
   BY DEF SupWhere
 <2>6.
   (\E i \in DOMAIN used : used[i] = <<{}, 1>>)
     <=> \E i \in DOMAIN used : used[i][1] = {} /\ used[i][2] > 0
   BY <1>1, <1>2
 <2> QED BY <2>3, <2>4, <2>5, <2>6
<1>12. SupOver <=> Cardinality(known) + Cardinality(dear) > SupBudget BY <1>10 DEF SupOver
<1> QED BY <1>10, <1>11, <1>12 DEF SupCostsTrue

\* A process ends once, its watchdog fires only on silence, the status it leaves says how
\* it ended and its account is true (lifecycle.ts, watchdog.ts, status.ts, cost-tracker.ts).
THEOREM SupervisionIsSound == SupSpec => []SupervisionSound
<1> USE DEF SupLifes
<1>1. SupInv => SupervisionSound
 <2> SUFFICES ASSUME SupInv PROVE SupervisionSound OBVIOUS
 <2>1. SupEndsOnce /\ SupCostsTrue BY SupEnds, SupCostsHold
 <2>2. SupWatchHonest BY DEF SupInv, SupTimer
 <2>3. SupStatusLast
  <3>1. supMain.at = "exited" /\ ~ supUses.killed => SupPast = 3
    BY DEF SupInv, SupOrderly, SupPast
  <3>2. SupRead = supFile BY DEF SupInv, SupTypes, SupRead
  <3>3.
    supMain.at = "exited" /\ ~ supUses.killed =>
      /\ supUses.signals = 0 /\ ~ supUses.fatal => supFile = "exited"
      /\ supUses.signals = 0 => supFile \in {"exited", "aborted"}
      /\ ~ supUses.fatal => supFile # "running"
    BY <3>1 DEF SupInv, SupOrderly, SupSaid
  <3> QED BY <3>2, <3>3 DEF SupStatusLast
 <2> QED BY <2>1, <2>2, <2>3 DEF SupervisionSound
<1> QED BY <1>1, SupInvariant, PTL

--------------------
(* Mcp.  McpInv says of each session what its handshake, its requests and   *)
(* its pending table have to do with each other, and which session the     *)
(* table has.                                                              *)

McpPromises == {"waiting", "resolved", "rejected"}
McpAsked == [by: Calls \cup {Handshake}, promise: McpPromises]
McpSession ==
  [server: Servers, state: {"connecting", "ready", "closed", "error"},
   handshake: {"starting", "asked", "notifying", "ready", "failed"},
   told: BOOLEAN, cached: SUBSET Inventories]
McpCall ==
  [pc: {"connect", "connecting", "waiting", "paging", "done", "failed"},
   op: Operation, names: Seq(Servers), session: Nat, request: Nat, page: Nat]

McpLinkTypes ==
  /\ session \in Seq(McpSession) /\ link \in Seq(Link) /\ Len(link) = Len(session)

\* A call against the sessions: one that waits has passed the handshake.
McpCallFits(k, sessions) ==
  /\ k.pc \in {"connect", "connecting", "waiting", "paging"} => k.names # <<>>
  /\ k.pc \in {"connecting", "waiting", "paging"} => k.session \in 1..Len(sessions)
  /\ k.pc = "waiting" => sessions[k.session].handshake = "ready"

McpCallTypes ==
  /\ call \in [Calls -> McpCall \cup [pc: {"idle"}]]
  /\ \A c \in Calls : McpCallFits(call[c], session)

\* A session of the table is of its server; until the shutdown returns all are.
McpTabled ==
  /\ table \in [Servers -> Nat]
  /\ shutdown \in [pc: {"no", "closing", "closed"}, sessions: SUBSET Nat]
  /\ \A n \in Servers : table[n] # 0 =>
       table[n] \in 1..Len(session) /\ session[table[n]].server = n
  /\ shutdown.pc # "closed" => \A s \in 1..Len(session) : table[session[s].server] = s

\* The shutdown divides the sessions: before it, and after it, one a server.
McpDivided ==
  \E k \in 0..Len(session) :
    /\ \A s, t \in 1..k : session[s].server = session[t].server => s = t
    /\ \A s \in (k + 1)..Len(session) : table[session[s].server] = s

\* The pending table of a transport.
McpBooks(l) ==
  /\ l.pending = {i \in 1..Len(l.asked) : l.asked[i].promise = "waiting"}
  /\ l.closed => l.pending = {}

\* The handshake of a session against its requests.
McpGreeted(sn, l) ==
  /\ \A i \in 1..Len(l.asked) : l.asked[i].by = Handshake <=> i = 1
  /\ Len(l.asked) > 1 => sn.told
  /\ sn.handshake = "starting" => Len(l.asked) = 0
  /\ sn.handshake \in {"asked", "notifying", "ready"} => Len(l.asked) > 0
  /\ sn.handshake \in {"notifying", "ready"} => sn.told

McpLinked == \A s \in 1..Len(session) : McpBooks(link[s]) /\ McpGreeted(session[s], link[s])

McpInv == McpLinkTypes /\ McpCallTypes /\ McpTabled /\ McpDivided /\ McpLinked

\* What every step keeps: the invariant, the ledger, and silence once closed.
McpSilent ==
  \A s \in DOMAIN link : link[s].closed =>
    /\ Len(link'[s].asked) = Len(link[s].asked)
    /\ session'[s].told = session[s].told

McpEntered == [Ledger!Next]_(Ledger!ledger)

--------------------
(* One transport *)

LEMMA TabulatedSeq ==
  ASSUME NEW S, NEW n \in Nat, NEW f \in [1..n -> S]
  PROVE f \in Seq(S) /\ Len(f) = n
OBVIOUS

LEMMA TabulatedAppend ==
  ASSUME NEW S, NEW n \in Nat, NEW f \in [1..n -> S], NEW e \in S,
    NEW g \in [1..(n + 1) -> S], \A i \in 1..n : g[i] = f[i], g[n + 1] = e
  PROVE g = Append(f, e)
<1> DEFINE a == Append(f, e)
<1>1. f \in Seq(S) /\ Len(f) = n /\ g \in Seq(S) /\ Len(g) = n + 1 BY TabulatedSeq
<1>2.
  /\ a \in Seq(S) /\ Len(a) = n + 1
  /\ \A i \in 1..n : a[i] = f[i]
  /\ a[n + 1] = e
  BY <1>1, AppendProperties
<1> HIDE DEF a
<1>3. \A i \in 1..Len(g) : g[i] = a[i] BY <1>1, <1>2
<1>4. g = a BY <1>1, <1>2, <1>3, SeqEqual
<1> QED BY <1>4 DEF a

\* The components of a transport.
LEMMA LinkFields ==
  ASSUME NEW l \in Link
  PROVE
    /\ l.asked \in Seq(McpAsked) /\ Len(l.asked) \in Nat
    /\ DOMAIN l.asked = 1..Len(l.asked)
    /\ \A i \in 1..Len(l.asked) : l.asked[i] \in McpAsked
<1>1. l.asked \in Seq(McpAsked) BY DEF Link, McpAsked, McpPromises
<1> QED BY <1>1, LenProperties, ElementOfSeq

\* r is the transport l with the requests ids answered.
McpAnswering(l, r, ids, how) ==
  /\ r \in Link /\ Len(r.asked) = Len(l.asked)
  /\ \A i \in 1..Len(l.asked) :
       /\ r.asked[i].by = l.asked[i].by
       /\ r.asked[i].promise = IF i \in ids THEN how ELSE l.asked[i].promise
  /\ r.pending = l.pending \ ids

LEMMA SettledAnswers ==
  ASSUME NEW l \in Link, NEW ids, NEW how \in {"resolved", "rejected"}
  PROVE
    LET r == Settled(l, ids, how)
    IN  /\ McpAnswering(l, r, ids, how)
        /\ r.started = l.started /\ r.alive = l.alive
        /\ r.reader = l.reader /\ r.closed = l.closed /\ r.owed = l.owed
<1> DEFINE
  a == [i \in DOMAIN l.asked |->
          IF i \in ids THEN [l.asked[i] EXCEPT !.promise = how]
                       ELSE l.asked[i]]
  r == Settled(l, ids, how)
<1>1. r = [l EXCEPT !.pending = l.pending \ ids, !.asked = a] BY DEF Settled
<1>2.
  /\ l.asked \in Seq(McpAsked) /\ Len(l.asked) \in Nat /\ DOMAIN l.asked = 1..Len(l.asked)
  /\ \A i \in 1..Len(l.asked) : l.asked[i] \in McpAsked
  BY LinkFields
<1>3.
  \A i \in 1..Len(l.asked) :
    /\ a[i] \in McpAsked /\ a[i].by = l.asked[i].by
    /\ a[i].promise = IF i \in ids THEN how ELSE l.asked[i].promise
  BY <1>2 DEF McpAsked, McpPromises
<1>4. a \in [1..Len(l.asked) -> McpAsked] BY <1>2, <1>3
<1>5. a \in Seq(McpAsked) /\ Len(a) = Len(l.asked) BY <1>2, <1>4, TabulatedSeq
<1> HIDE DEF a, r
<1>6. r \in Link BY <1>1, <1>5 DEF Link, McpAsked, McpPromises
<1>7. r.asked = a /\ r.pending = l.pending \ ids BY <1>1 DEF Link
<1>8.
  /\ r.started = l.started /\ r.alive = l.alive
  /\ r.reader = l.reader /\ r.closed = l.closed /\ r.owed = l.owed
  BY <1>1 DEF Link
<1> QED BY <1>3, <1>5, <1>6, <1>7, <1>8 DEF McpAnswering, r

\* What a transport sends is one request more, which is pending.
LEMMA AskingSends ==
  ASSUME NEW l \in Link, NEW who \in Calls \cup {Handshake}
  PROVE
    LET r == Asking(l, who)
    IN  /\ r \in Link
        /\ r.closed = l.closed
        /\ r.asked = Append(l.asked, [by |-> who, promise |-> "waiting"])
        /\ Len(r.asked) = Len(l.asked) + 1
        /\ \A i \in 1..Len(l.asked) : r.asked[i] = l.asked[i]
        /\ r.asked[Len(l.asked) + 1] = [by |-> who, promise |-> "waiting"]
        /\ r.pending = l.pending \cup {Len(l.asked) + 1}
<1> DEFINE q == [by |-> who, promise |-> "waiting"]
  a == Append(l.asked, q)
  p == l.pending \cup {Len(l.asked) + 1}
  o == IF l.alive /\ l.reader THEN l.owed \cup {Len(l.asked) + 1} ELSE l.owed
  r == Asking(l, who)
<1>1. r = [l EXCEPT !.pending = p, !.owed = o, !.asked = a] BY DEF Asking
<1>2. l.asked \in Seq(McpAsked) /\ Len(l.asked) \in Nat BY LinkFields
<1>3. q \in McpAsked BY DEF McpAsked, McpPromises
<1>4.
  /\ a \in Seq(McpAsked) /\ Len(a) = Len(l.asked) + 1
  /\ \A i \in 1..Len(l.asked) : a[i] = l.asked[i]
  /\ a[Len(l.asked) + 1] = q
  BY <1>2, <1>3, AppendProperties
<1>5. o \in SUBSET Nat /\ p \in SUBSET Nat BY <1>2 DEF Link
<1> HIDE DEF a, o, p, r, q
<1>6. r \in Link BY <1>1, <1>4, <1>5 DEF Link, McpAsked, McpPromises
<1>7. r.asked = a /\ r.closed = l.closed /\ r.pending = p BY <1>1 DEF Link
<1> QED BY <1>4, <1>6, <1>7 DEF r, a, q, p

\* Answers keep the books, and what the handshake says of the requests.
LEMMA AnsweringKeeps ==
  ASSUME NEW l \in Link, NEW r, NEW ids, NEW how \in {"resolved", "rejected"},
    McpAnswering(l, r, ids, how), McpBooks(l), NEW sn, McpGreeted(sn, l),
    r.closed => l.closed \/ l.pending \subseteq ids
  PROVE McpBooks(r) /\ McpGreeted(sn, r)
<1>1. Len(l.asked) \in Nat /\ Len(r.asked) = Len(l.asked) BY LinkFields DEF McpAnswering
<1>2. r.pending = {i \in 1..Len(r.asked) : r.asked[i].promise = "waiting"}
  BY <1>1 DEF McpAnswering, McpBooks
<1>3. r.closed => r.pending = {} BY DEF McpAnswering, McpBooks
<1>4. McpGreeted(sn, r) BY <1>1 DEF McpAnswering, McpGreeted
<1> QED BY <1>2, <1>3, <1>4 DEF McpBooks

--------------------
(* All transports *)

LEMMA SessionsAndLinks ==
  ASSUME McpLinkTypes
  PROVE
    /\ Len(session) \in Nat /\ DOMAIN session = 1..Len(session)
    /\ DOMAIN link = 1..Len(session)
    /\ \A s \in 1..Len(session) : session[s] \in McpSession /\ link[s] \in Link
BY LenProperties, ElementOfSeq DEF McpLinkTypes

\* One transport changes.
LEMMA McpOneLink ==
  ASSUME McpLinkTypes, NEW s \in 1..Len(session), NEW r \in Link,
    link' = [link EXCEPT ![s] = r]
  PROVE
    /\ link' \in Seq(Link) /\ Len(link') = Len(session) /\ DOMAIN link' = DOMAIN link
    /\ link'[s] = r
    /\ \A t \in 1..Len(session) : t # s => link'[t] = link[t]
<1>1. /\ link \in Seq(Link) /\ Len(link) = Len(session) /\ s \in 1..Len(link)
  BY DEF McpLinkTypes
<1>2.
  /\ [link EXCEPT ![s] = r] \in Seq(Link) /\ Len([link EXCEPT ![s] = r]) = Len(link)
  /\ \A j \in 1 .. Len(link) : [link EXCEPT ![s] = r][j] = IF j = s THEN r ELSE link[j]
  BY <1>1, ExceptSeq
<1> QED BY <1>1, <1>2

\* One session changes.
LEMMA McpOneSession ==
  ASSUME McpLinkTypes, NEW s \in 1..Len(session), NEW sn \in McpSession,
    session' = [session EXCEPT ![s] = sn]
  PROVE
    /\ session' \in Seq(McpSession) /\ Len(session') = Len(session) /\ session'[s] = sn
    /\ \A t \in 1..Len(session) : t # s => session'[t] = session[t]
<1>1. session \in Seq(McpSession) BY DEF McpLinkTypes
<1>2.
  /\ [session EXCEPT ![s] = sn] \in Seq(McpSession)
  /\ Len([session EXCEPT ![s] = sn]) = Len(session)
  /\ \A j \in 1 .. Len(session) :
       [session EXCEPT ![s] = sn][j] = IF j = s THEN sn ELSE session[j]
  BY <1>1, ExceptSeq
<1> QED BY <1>1, <1>2

\* No session of another server, and none that forgets its handshake.
McpSameSessions ==
  /\ Len(session') = Len(session)
  /\ \A s \in 1..Len(session) :
       /\ session'[s].server = session[s].server
       /\ session[s].handshake = "ready" => session'[s].handshake = "ready"

LEMMA McpSameTable ==
  ASSUME McpLinkTypes, McpTabled, McpDivided, McpSameSessions, UNCHANGED <<table, shutdown>>
  PROVE McpTabled' /\ McpDivided'
<1>1. Len(session) \in Nat BY SessionsAndLinks
<1>2. McpTabled' BY <1>1 DEF McpTabled, McpSameSessions
<1>3.
  PICK k \in 0..Len(session) :
    /\ \A s, t \in 1..k : session[s].server = session[t].server => s = t
    /\ \A s \in (k + 1)..Len(session) : table[session[s].server] = s
  BY DEF McpDivided
<1>4. k \in Nat /\ k <= Len(session) BY <1>1
<1>5.
  /\ \A s, t \in 1..k : session'[s].server = session'[t].server => s = t
  /\ \A s \in (k + 1)..Len(session) : table'[session'[s].server] = s
  BY <1>1, <1>3, <1>4 DEF McpSameSessions
<1>6. McpDivided' BY <1>4, <1>5 DEF McpDivided, McpSameSessions
<1> QED BY <1>2, <1>6

LEMMA McpSameCalls ==
  ASSUME McpCallTypes, McpSameSessions, UNCHANGED call
  PROVE McpCallTypes'
BY DEF McpCallTypes, McpCallFits, McpSameSessions

\* One call changes.
LEMMA McpOneCall ==
  ASSUME McpCallTypes, McpSameSessions, NEW c \in Calls, NEW k \in McpCall,
    McpCallFits(k, session'), call' = [call EXCEPT ![c] = k]
  PROVE McpCallTypes'
BY DEF McpCallTypes, McpCallFits, McpSameSessions

\* What the ledger has of a transport.
McpPromised(l) == [i \in DOMAIN l.asked |-> l.asked[i].promise]
McpAnswers == [s \in DOMAIN link |-> McpPromised(link[s])]
McpShut == [s \in DOMAIN link |-> link[s].closed]

LEMMA LedgerSame ==
  ASSUME UNCHANGED link
  PROVE McpEntered
BY DEF McpEntered, Ledger!ledger

\* The requests the ledger has waiting are the pending ones.
LEMMA WaitingPending ==
  ASSUME NEW l \in Link, McpBooks(l)
  PROVE
    /\ DOMAIN McpPromised(l) = 1..Len(l.asked)
    /\ \A i \in 1..Len(l.asked) : McpPromised(l)[i] = l.asked[i].promise
    /\ {i \in DOMAIN McpPromised(l) : McpPromised(l)[i] = "waiting"} = l.pending
BY LinkFields DEF McpPromised, McpBooks

\* McpAnswering some pending requests of one transport settles them in the ledger.
LEMMA AnswersEntered ==
  ASSUME McpLinkTypes, NEW s \in 1..Len(session), McpBooks(link[s]),
    NEW ids \in SUBSET link[s].pending, NEW how \in {"resolved", "rejected"},
    NEW r, McpAnswering(link[s], r, ids, how), r.closed = link[s].closed,
    link' = [link EXCEPT ![s] = r]
  PROVE McpEntered
<1>1. r \in Link /\ link[s] \in Link BY SessionsAndLinks DEF McpAnswering
<1>2.
  /\ DOMAIN link = 1..Len(session) /\ DOMAIN link' = DOMAIN link /\ link'[s] = r
  /\ \A t \in 1..Len(session) : t # s => link'[t] = link[t]
  BY <1>1, McpOneLink, SessionsAndLinks
<1>3. McpShut' = McpShut BY <1>2 DEF McpShut
<1>4.
  McpPromised(r) = [i \in DOMAIN McpPromised(link[s]) |->
                   IF i \in ids THEN how ELSE McpPromised(link[s])[i]]
  BY <1>1, LinkFields DEF McpAnswering, McpPromised
<1>5.
  \A t \in DOMAIN link :
    McpPromised(link'[t]) = IF t = s THEN McpPromised(r) ELSE McpPromised(link[t])
  BY <1>2
<1>6. McpAnswers' = [McpAnswers EXCEPT ![s] = McpPromised(r)] BY <1>2, <1>5 DEF McpAnswers
<1>7. CASE ids = {}
 <2>1. McpPromised(r) = McpPromised(link[s]) BY <1>4, <1>7 DEF McpPromised
 <2>2. McpAnswers' = McpAnswers BY <1>2, <1>5, <2>1 DEF McpAnswers
 <2> QED BY <1>3, <2>2 DEF McpEntered, Ledger!ledger, McpAnswers, McpShut, McpPromised
<1>8. CASE ids # {}
 <2>1.
   /\ s \in DOMAIN McpAnswers /\ McpAnswers[s] = McpPromised(link[s])
   /\ {i \in DOMAIN McpAnswers[s] : McpAnswers[s][i] = "waiting"} = link[s].pending
   BY <1>1, <1>2, WaitingPending DEF McpAnswers
 <2>2.
   McpAnswers' = [McpAnswers EXCEPT ![s] =
                [i \in DOMAIN McpAnswers[s] |-> IF i \in ids THEN how ELSE McpAnswers[s][i]]]
   BY <1>4, <1>6, <2>1
 <2>3. Ledger!Settle(s, ids, how)
   BY <1>3, <1>8, <2>1, <2>2 DEF Ledger!Settle, Ledger!Answered, Ledger!Waiting, McpAnswers,
     McpShut, McpPromised
 <2>4. ids \in SUBSET Ledger!Waiting(s) BY <2>1 DEF Ledger!Waiting, McpAnswers, McpPromised
 <2>5. s \in DOMAIN McpAnswers BY <2>1
 <2>6. Ledger!Next BY <2>3, <2>4, <2>5 DEF Ledger!Next, Ledger!Answers, McpAnswers, McpPromised
 <2> QED BY <2>6 DEF McpEntered
<1> QED BY <1>7, <1>8

\* A request of a transport that is not closed is entered as one more waiting.
LEMMA SendEntered ==
  ASSUME McpLinkTypes, NEW s \in 1..Len(session), ~link[s].closed,
    NEW who \in Calls \cup {Handshake},
    link' = [link EXCEPT ![s] = Asking(link[s], who)]
  PROVE McpEntered
<1> DEFINE r == Asking(link[s], who)
<1>1. link[s] \in Link BY SessionsAndLinks
<1>2.
  /\ r \in Link /\ r.closed = link[s].closed /\ Len(r.asked) = Len(link[s].asked) + 1
  /\ \A i \in 1..Len(link[s].asked) : r.asked[i] = link[s].asked[i]
  /\ r.asked[Len(link[s].asked) + 1] = [by |-> who, promise |-> "waiting"]
  BY <1>1, AskingSends
<1> HIDE DEF r
<1>3.
  /\ DOMAIN link = 1..Len(session) /\ DOMAIN link' = DOMAIN link /\ link'[s] = r
  /\ \A t \in 1..Len(session) : t # s => link'[t] = link[t]
  BY <1>2, McpOneLink, SessionsAndLinks DEF r
<1>4. McpShut' = McpShut BY <1>2, <1>3 DEF McpShut
<1>5. McpPromised(r) = Append(McpPromised(link[s]), "waiting")
 <2> DEFINE n == Len(link[s].asked)
 <2>1.
   /\ n \in Nat /\ McpPromised(link[s]) \in [1..n -> McpPromises]
   /\ \A i \in 1..n : McpPromised(link[s])[i] = link[s].asked[i].promise
   BY <1>1, LinkFields DEF McpPromised, McpAsked
 <2>2.
   /\ McpPromised(r) \in [1..(n + 1) -> McpPromises]
   /\ \A i \in 1..(n + 1) : McpPromised(r)[i] = r.asked[i].promise
   BY <1>2, LinkFields DEF McpPromised, McpAsked
 <2>3.
   /\ \A i \in 1..n : McpPromised(r)[i] = McpPromised(link[s])[i]
   /\ McpPromised(r)[n + 1] = "waiting"
  <3>1. /\ r.asked[n + 1].promise = "waiting"
        /\ \A i \in 1..n : r.asked[i] = link[s].asked[i]
    BY <1>2
  <3> HIDE DEF n
  <3>2. n + 1 \in 1..(n + 1) /\ \A i \in 1..n : i \in 1..(n + 1) BY <2>1
  <3> QED BY <2>1, <2>2, <3>1, <3>2
 <2>4. "waiting" \in McpPromises BY DEF McpPromises
 <2> HIDE DEF n
 <2> QED BY <2>1, <2>2, <2>3, <2>4, TabulatedAppend
<1>6.
  \A t \in DOMAIN link :
    McpPromised(link'[t]) = IF t = s THEN McpPromised(r) ELSE McpPromised(link[t])
  BY <1>3
<1>7. McpAnswers' = [McpAnswers EXCEPT ![s] = Append(McpAnswers[s], "waiting")]
  BY <1>3, <1>5, <1>6 DEF McpAnswers
<1>8. s \in DOMAIN McpAnswers /\ ~McpShut[s] BY <1>3 DEF McpAnswers, McpShut
<1>9. Ledger!Send(s) BY <1>4, <1>7, <1>8 DEF Ledger!Send, McpAnswers, McpShut, McpPromised
<1>10. Ledger!Next BY <1>8, <1>9 DEF Ledger!Next, McpAnswers, McpPromised
<1> QED BY <1>10 DEF McpEntered

\* A step of one session and its transport.
LEMMA McpOnePair ==
  ASSUME McpLinkTypes, McpLinked, NEW s \in 1..Len(session),
    session' \in Seq(McpSession), Len(session') = Len(session),
    link' \in Seq(Link), Len(link') = Len(session),
    \A t \in 1..Len(session) :
      t # s => session'[t] = session[t] /\ link'[t] = link[t],
    McpBooks(link'[s]), McpGreeted(session'[s], link'[s]),
    link[s].closed => /\ Len(link'[s].asked) = Len(link[s].asked)
                      /\ session'[s].told = session[s].told
  PROVE McpLinkTypes' /\ McpLinked' /\ McpSilent
<1>1. McpLinkTypes' BY DEF McpLinkTypes
<1>2. \A t \in 1..Len(session) : McpBooks(link'[t]) /\ McpGreeted(session'[t], link'[t])
  BY DEF McpLinked
<1>3. McpLinked' BY <1>2 DEF McpLinked
<1>4. McpSilent BY SessionsAndLinks DEF McpSilent
<1> QED BY <1>1, <1>3, <1>4

McpKept == McpInv' /\ McpEntered /\ McpSilent

\* Whatever answers some pending requests of one transport keeps everything.
LEMMA AnswersKeep ==
  ASSUME McpInv, NEW s \in 1..Len(session),
    NEW ids \in SUBSET link[s].pending, NEW how \in {"resolved", "rejected"},
    NEW r, McpAnswering(link[s], r, ids, how), r.closed = link[s].closed,
    link' = [link EXCEPT ![s] = r],
    UNCHANGED <<table, session, call, shutdown>>
  PROVE McpKept
<1>1. r \in Link /\ link[s] \in Link /\ McpBooks(link[s]) /\ McpGreeted(session[s], link[s])
  BY SessionsAndLinks DEF McpAnswering, McpInv, McpLinked
<1>2. McpBooks(r) /\ McpGreeted(session[s], r) BY <1>1, AnsweringKeeps
<1>3.
  /\ link' \in Seq(Link) /\ Len(link') = Len(session) /\ link'[s] = r
  /\ \A t \in 1..Len(session) : t # s => link'[t] = link[t]
  BY <1>1, McpOneLink DEF McpInv
<1>4. McpEntered BY <1>1, AnswersEntered DEF McpInv
<1>5. McpLinkTypes' /\ McpLinked' /\ McpSilent
 <2>1.
   /\ session' \in Seq(McpSession) /\ Len(session') = Len(session)
   /\ Len(link'[s].asked) = Len(link[s].asked)
   BY <1>3 DEF McpInv, McpLinkTypes, McpAnswering
 <2> QED BY <1>2, <1>3, <2>1, McpOnePair DEF McpInv
<1>6. McpSameSessions BY DEF McpSameSessions
<1>7. McpTabled' /\ McpDivided' /\ McpCallTypes' BY <1>6, McpSameTable, McpSameCalls DEF McpInv
<1> QED BY <1>4, <1>5, <1>7 DEF McpKept, McpInv

--------------------
(* The steps of a transport *)

LEMMA ResponseKeeps ==
  ASSUME McpInv, NEW s \in DOMAIN session, NEW i \in link[s].owed,
    NEW how \in {"resolved", "rejected"}, Response(s, i, how)
  PROVE McpKept
<1> DEFINE l == [link[s] EXCEPT !.owed = @ \ {i}]
  ids == {i} \cap l.pending
  r == Settled(l, ids, how)
<1>1. s \in 1..Len(session) /\ link[s] \in Link BY SessionsAndLinks DEF McpInv
<1>2.
  l \in Link /\ l.pending = link[s].pending /\ l.asked = link[s].asked
  /\ l.closed = link[s].closed
  BY <1>1 DEF Link
<1>3. link' = [link EXCEPT ![s] = r] /\ UNCHANGED <<table, session, call, shutdown>>
  BY DEF Response
<1> HIDE DEF l
<1>4. McpAnswering(l, r, ids, how) /\ r.closed = l.closed BY <1>2, SettledAnswers
<1> HIDE DEF r
<1>5. McpAnswering(link[s], r, ids, how) BY <1>2, <1>4 DEF McpAnswering
<1> QED BY <1>1, <1>2, <1>3, <1>4, <1>5, AnswersKeep

\* The timer of a request and a failed write reject it.
LEMMA RejectionKeeps ==
  ASSUME McpInv, NEW s \in DOMAIN session, NEW i \in link[s].pending,
    link' = [link EXCEPT ![s] = Settled(@, {i}, "rejected")],
    UNCHANGED <<table, session, call, shutdown>>
  PROVE McpKept
<1> DEFINE r == Settled(link[s], {i}, "rejected")
<1>1. s \in 1..Len(session) /\ link[s] \in Link BY SessionsAndLinks DEF McpInv
<1>2. McpAnswering(link[s], r, {i}, "rejected") /\ r.closed = link[s].closed
  BY <1>1, SettledAnswers
<1>3. link' = [link EXCEPT ![s] = r] OBVIOUS
<1> HIDE DEF r
<1> QED BY <1>1, <1>2, <1>3, AnswersKeep

LEMMA GarbageKeeps ==
  ASSUME McpInv, NEW s \in DOMAIN session, Garbage(s)
  PROVE McpKept
<1> DEFINE m == Settled(link[s], link[s].pending, "rejected")
  r == [m EXCEPT !.reader = FALSE, !.owed = {}]
<1>1. s \in 1..Len(session) /\ link[s] \in Link BY SessionsAndLinks DEF McpInv
<1>2. McpAnswering(link[s], m, link[s].pending, "rejected") /\ m.closed = link[s].closed
  BY <1>1, SettledAnswers
<1>3. link' = [link EXCEPT ![s] = r] /\ UNCHANGED <<table, session, call, shutdown>>
  BY DEF Garbage
<1> HIDE DEF m
<1>4. McpAnswering(link[s], r, link[s].pending, "rejected") /\ r.closed = link[s].closed
  BY <1>2 DEF McpAnswering, Link
<1> HIDE DEF r
<1> QED BY <1>1, <1>3, <1>4, AnswersKeep

LEMMA ExitKeeps ==
  ASSUME McpInv, NEW s \in DOMAIN session, Exit(s)
  PROVE McpKept
<1> DEFINE m == Settled(link[s], link[s].pending, "rejected")
  r == [m EXCEPT !.alive = FALSE]
<1>1. s \in 1..Len(session) /\ link[s] \in Link BY SessionsAndLinks DEF McpInv
<1>2. McpAnswering(link[s], m, link[s].pending, "rejected") /\ m.closed = link[s].closed
  BY <1>1, SettledAnswers
<1>3. link' = [link EXCEPT ![s] = r] /\ UNCHANGED <<table, session, call, shutdown>> BY DEF Exit
<1> HIDE DEF m
<1>4. McpAnswering(link[s], r, link[s].pending, "rejected") /\ r.closed = link[s].closed
  BY <1>2 DEF McpAnswering, Link
<1> HIDE DEF r
<1> QED BY <1>1, <1>3, <1>4, AnswersKeep

LEMMA TransportKeeps ==
  ASSUME McpInv, NEW s \in DOMAIN session, Transport(s)
  PROVE McpKept
<1>1. CASE \E i \in link[s].owed: \E how \in {"resolved", "rejected"}: Response(s, i, how)
  BY <1>1, ResponseKeeps
<1>2. CASE \E i \in link[s].pending: Timeout(s, i) \/ WriteFails(s, i)
  BY <1>2, RejectionKeeps DEF Timeout, WriteFails
<1>3. CASE Garbage(s) \/ Exit(s) BY <1>3, GarbageKeeps, ExitKeeps
<1> QED BY <1>1, <1>2, <1>3 DEF Transport

--------------------
(* The handshake *)

\* A step of a session that sends nothing.
LEMMA SessionKeeps ==
  ASSUME McpInv, NEW s \in 1..Len(session), NEW sn \in McpSession,
    sn.server = session[s].server, session[s].handshake # "ready",
    link[s].closed => sn.told = session[s].told,
    McpGreeted(sn, link[s]),
    session' = [session EXCEPT ![s] = sn], UNCHANGED <<table, link, call, shutdown>>
  PROVE McpKept
<1>1.
  /\ session' \in Seq(McpSession) /\ Len(session') = Len(session) /\ session'[s] = sn
  /\ \A t \in 1..Len(session) : t # s => session'[t] = session[t]
  BY McpOneSession DEF McpInv
<1>2. McpLinkTypes' /\ McpLinked' /\ McpSilent
 <2>1. link' \in Seq(Link) /\ Len(link') = Len(session) /\ McpBooks(link'[s])
   BY DEF McpInv, McpLinkTypes, McpLinked
 <2>2.
   \A t \in 1..Len(session) :
     t # s => session'[t] = session[t] /\ link'[t] = link[t]
   BY <1>1
 <2>3. McpGreeted(session'[s], link'[s]) BY <1>1
 <2>4.
   link[s].closed => /\ Len(link'[s].asked) = Len(link[s].asked)
                     /\ session'[s].told = session[s].told
   BY <1>1
 <2> QED BY <1>1, <2>1, <2>2, <2>3, <2>4, McpOnePair DEF McpInv
<1>3. McpSameSessions BY <1>1 DEF McpSameSessions
<1>4. McpTabled' /\ McpDivided' /\ McpCallTypes' BY <1>3, McpSameTable, McpSameCalls DEF McpInv
<1> QED BY <1>2, <1>4, LedgerSame DEF McpKept, McpInv

LEMMA HandshakeFailsKeeps ==
  ASSUME McpInv, NEW s \in 1..Len(session),
    session[s].handshake \in {"starting", "asked", "notifying"},
    HandshakeFails(s), UNCHANGED <<table, link, call, shutdown>>
  PROVE McpKept
<1> DEFINE sn == [session[s] EXCEPT !.handshake = "failed", !.state = "error"]
<1>1. session[s] \in McpSession /\ McpGreeted(session[s], link[s])
  BY SessionsAndLinks DEF McpInv, McpLinked
<1>2. session' = [session EXCEPT ![s] = sn] BY DEF HandshakeFails
<1>3.
  /\ sn \in McpSession /\ sn.server = session[s].server
  /\ sn.told = session[s].told /\ sn.handshake = "failed"
  BY <1>1 DEF McpSession
<1> HIDE DEF sn
<1>4. McpGreeted(sn, link[s]) BY <1>1, <1>3 DEF McpGreeted
<1> QED BY <1>2, <1>3, <1>4, SessionKeeps

LEMMA AskHandshakeKeeps ==
  ASSUME McpInv, NEW s \in DOMAIN session, AskHandshake(s)
  PROVE McpKept
<1>1.
  /\ s \in 1..Len(session) /\ session[s] \in McpSession /\ link[s] \in Link
  /\ McpBooks(link[s]) /\ McpGreeted(session[s], link[s])
  /\ session[s].handshake = "starting" /\ UNCHANGED <<table, call, shutdown>>
  BY SessionsAndLinks DEF McpInv, McpLinked, AskHandshake
<1>2. CASE Usable(link[s])
 <2> DEFINE sn == [session[s] EXCEPT !.handshake = "asked"]
   r == Asking(link[s], Handshake)
 <2>1.
   ~link[s].closed /\ link' = [link EXCEPT ![s] = r]
   /\ session' = [session EXCEPT ![s] = sn]
   BY <1>2 DEF Usable, AskHandshake
 <2>2.
   /\ sn \in McpSession /\ sn.server = session[s].server
   /\ sn.told = session[s].told /\ sn.handshake = "asked"
   BY <1>1 DEF McpSession
 <2>3.
   /\ r \in Link /\ r.closed = link[s].closed /\ Len(r.asked) = Len(link[s].asked) + 1
   /\ r.asked[Len(link[s].asked) + 1] = [by |-> Handshake, promise |-> "waiting"]
   /\ r.pending = link[s].pending \cup {Len(link[s].asked) + 1}
   BY <1>1, AskingSends
 <2>4. McpEntered BY <1>1, <2>1, SendEntered DEF McpInv
 <2> HIDE DEF sn, r
 <2>5. Len(link[s].asked) = 0 BY <1>1 DEF McpGreeted
 <2>6. McpBooks(r)
  <3>1. link[s].pending = {} BY <1>1, <2>5 DEF McpBooks
  <3>2. /\ Len(r.asked) = 1 /\ r.pending = {1} /\ r.asked[1].promise = "waiting"
    BY <2>3, <2>5, <3>1
  <3> QED BY <2>1, <2>3, <3>2 DEF McpBooks
 <2>7. McpGreeted(sn, r)
  <3>1. Len(r.asked) = 1 /\ r.asked[1].by = Handshake BY <2>3, <2>5
  <3> QED BY <2>2, <3>1 DEF McpGreeted
 <2>8.
   /\ session' \in Seq(McpSession) /\ Len(session') = Len(session) /\ session'[s] = sn
   /\ \A t \in 1..Len(session) : t # s => session'[t] = session[t]
   BY <1>1, <2>1, <2>2, McpOneSession DEF McpInv
 <2>9.
   /\ link' \in Seq(Link) /\ Len(link') = Len(session) /\ link'[s] = r
   /\ \A t \in 1..Len(session) : t # s => link'[t] = link[t]
   BY <1>1, <2>1, <2>3, McpOneLink DEF McpInv
 <2>10. McpLinkTypes' /\ McpLinked' /\ McpSilent
   BY <1>1, <2>1, <2>6, <2>7, <2>8, <2>9, McpOnePair DEF McpInv
 <2>11. McpSameSessions BY <1>1, <2>2, <2>8 DEF McpSameSessions
 <2>12. McpTabled' /\ McpDivided' /\ McpCallTypes'
   BY <1>1, <2>11, McpSameTable, McpSameCalls DEF McpInv
 <2> QED BY <2>4, <2>10, <2>12 DEF McpKept, McpInv
<1>3. CASE ~Usable(link[s])
 <2>1. HandshakeFails(s) /\ UNCHANGED link BY <1>3 DEF AskHandshake
 <2> QED BY <1>1, <2>1, HandshakeFailsKeeps
<1> QED BY <1>2, <1>3

LEMMA NotifyKeeps ==
  ASSUME McpInv, NEW s \in DOMAIN session, Notify(s)
  PROVE McpKept
<1>1.
  /\ s \in 1..Len(session) /\ session[s] \in McpSession /\ McpGreeted(session[s], link[s])
  /\ session[s].handshake = "asked" /\ UNCHANGED <<table, link, call, shutdown>>
  BY SessionsAndLinks DEF McpInv, McpLinked, Notify
<1>2. CASE Promise(s, 1) = "resolved" /\ Usable(link[s])
 <2> DEFINE sn == [session[s] EXCEPT !.handshake = "notifying", !.told = TRUE]
 <2>1. ~link[s].closed /\ session' = [session EXCEPT ![s] = sn] BY <1>2 DEF Usable, Notify
 <2>2.
   /\ sn \in McpSession /\ sn.server = session[s].server
   /\ sn.told = TRUE /\ sn.handshake = "notifying"
   BY <1>1 DEF McpSession
 <2> HIDE DEF sn
 <2>3. McpGreeted(sn, link[s]) BY <1>1, <2>2 DEF McpGreeted
 <2> QED BY <1>1, <2>1, <2>2, <2>3, SessionKeeps
<1>3. CASE ~(Promise(s, 1) = "resolved" /\ Usable(link[s]))
 <2>1. HandshakeFails(s) BY <1>3 DEF Notify
 <2> QED BY <1>1, <2>1, HandshakeFailsKeeps
<1> QED BY <1>2, <1>3

LEMMA NotifiedKeeps ==
  ASSUME McpInv, NEW s \in DOMAIN session, Notified(s)
  PROVE McpKept
<1>1.
  /\ s \in 1..Len(session) /\ session[s] \in McpSession /\ McpGreeted(session[s], link[s])
  /\ session[s].handshake = "notifying" /\ UNCHANGED <<table, link, call, shutdown>>
  BY SessionsAndLinks DEF McpInv, McpLinked, Notified
<1>2. CASE session' = [session EXCEPT ![s].handshake = "ready", ![s].state = "ready"]
 <2> DEFINE sn == [session[s] EXCEPT !.handshake = "ready", !.state = "ready"]
 <2>1. session' = [session EXCEPT ![s] = sn] BY <1>2
 <2>2.
   /\ sn \in McpSession /\ sn.server = session[s].server
   /\ sn.told = session[s].told /\ sn.handshake = "ready"
   BY <1>1 DEF McpSession
 <2> HIDE DEF sn
 <2>3. McpGreeted(sn, link[s]) BY <1>1, <2>2 DEF McpGreeted
 <2> QED BY <1>1, <2>1, <2>2, <2>3, SessionKeeps
<1>3. CASE HandshakeFails(s) BY <1>1, <1>3, HandshakeFailsKeeps
<1> QED BY <1>2, <1>3 DEF Notified

--------------------
(* The calls *)

\* A step that changes no session and no transport.
LEMMA QuietKeeps ==
  ASSUME McpInv, McpCallTypes', UNCHANGED <<table, session, link, shutdown>>
  PROVE McpKept
<1>1. McpLinkTypes' /\ McpLinked' /\ McpSameSessions
  BY DEF McpInv, McpLinkTypes, McpLinked, McpSameSessions
<1>2. McpTabled' /\ McpDivided' BY <1>1, McpSameTable DEF McpInv
<1>3. McpSilent BY DEF McpSilent
<1> QED BY <1>1, <1>2, <1>3, LedgerSame DEF McpKept, McpInv

\* A call that has begun.
LEMMA McpBegun ==
  ASSUME McpCallTypes, NEW c \in Calls, call[c].pc # "idle"
  PROVE call[c] \in McpCall
BY DEF McpCallTypes

LEMMA BeginKeeps ==
  ASSUME McpInv, NEW c \in Calls, NEW want \in Wanted[c], Begin(c, want)
  PROVE McpKept
<1> DEFINE
  k == [pc |-> "connect", op |-> want.op, names |-> want.names,
        session |-> 0, request |-> 0, page |-> 0]
<1>1. want.op \in Operation /\ want.names \in Seq(Servers) /\ want.names # <<>>
  BY WantedAssumption
<1>2. k \in McpCall /\ McpCallFits(k, session') BY <1>1 DEF McpCall, McpCallFits
<1>3. call' = [call EXCEPT ![c] = k] /\ UNCHANGED <<table, session, link, shutdown>>
  BY DEF Begin
<1> HIDE DEF k
<1>4. McpSameSessions BY <1>3 DEF McpSameSessions
<1>5. McpCallTypes' BY <1>2, <1>3, <1>4, McpOneCall DEF McpInv
<1> QED BY <1>3, <1>5, QuietKeeps

LEMMA FailFits ==
  ASSUME McpCallTypes, McpSameSessions, NEW c \in Calls, call[c].pc # "idle", Fail(c)
  PROVE McpCallTypes'
<1> DEFINE k == [call[c] EXCEPT !.pc = "failed"]
<1>1. call[c] \in McpCall BY McpBegun
<1>2. k \in McpCall /\ McpCallFits(k, session') BY <1>1 DEF McpCall, McpCallFits
<1>3. call' = [call EXCEPT ![c] = k] BY DEF Fail
<1> HIDE DEF k
<1> QED BY <1>2, <1>3, McpOneCall

LEMMA FinishFits ==
  ASSUME McpCallTypes, McpSameSessions, NEW c \in Calls,
    call[c].pc \in {"connecting", "waiting", "paging"}, Finish(c)
  PROVE McpCallTypes'
<1> DEFINE
  k == [call[c] EXCEPT !.names = Tail(@),
          !.pc = IF Len(call[c].names) > 1 THEN "connect" ELSE "done"]
<1>1. call[c] \in McpCall /\ call[c].names # <<>> BY McpBegun DEF McpCallTypes, McpCallFits
<1>2. call[c].names \in Seq(Servers) BY <1>1 DEF McpCall
<1>3.
  /\ Tail(call[c].names) \in Seq(Servers)
  /\ Len(Tail(call[c].names)) = Len(call[c].names) - 1 /\ Len(call[c].names) \in Nat
  BY <1>1, <1>2, HeadTailProperties, LenProperties
<1>4. Len(call[c].names) > 1 => Tail(call[c].names) # <<>>
 <2> DEFINE rest == Tail(call[c].names)
 <2>1. Len(rest) = Len(call[c].names) - 1 /\ Len(call[c].names) \in Nat BY <1>3
 <2>2. Len(<<>>) = 0 BY EmptySeq
 <2> HIDE DEF rest
 <2>3. Len(call[c].names) > 1 => rest # <<>> BY <2>1, <2>2
 <2> QED BY <2>3 DEF rest
<1>5.
  /\ k \in McpCall /\ k.names = Tail(call[c].names)
  /\ k.pc = IF Len(call[c].names) > 1 THEN "connect" ELSE "done"
  BY <1>1, <1>3 DEF McpCall
<1>6. call' = [call EXCEPT ![c] = k] BY DEF Finish
<1> HIDE DEF k
<1>7. McpCallFits(k, session') BY <1>4, <1>5 DEF McpCallFits
<1> QED BY <1>5, <1>6, <1>7, McpOneCall

\* A request of a call, sent by a session that is ready.
LEMMA RequestKeeps ==
  ASSUME McpInv, NEW c \in Calls, call[c].pc \in {"connecting", "waiting"},
    session[call[c].session].handshake = "ready",
    Request(c), UNCHANGED <<table, session, shutdown>>
  PROVE McpKept
<1> DEFINE s == call[c].session
<1>1. call[c] \in McpCall /\ s \in 1..Len(session)
  BY McpBegun DEF McpInv, McpCallTypes, McpCallFits
<1>2.
  /\ session[s] \in McpSession /\ link[s] \in Link
  /\ McpBooks(link[s]) /\ McpGreeted(session[s], link[s])
  BY <1>1, SessionsAndLinks DEF McpInv, McpLinked
<1>3. McpSameSessions BY DEF McpSameSessions
<1>4. CASE ~Usable(link[s])
 <2>1. Fail(c) /\ UNCHANGED link BY <1>4 DEF Request
 <2>2. McpCallTypes' BY <1>3, <2>1, FailFits DEF McpInv
 <2> QED BY <2>1, <2>2, QuietKeeps
<1>5. CASE Usable(link[s])
 <2> DEFINE r == Asking(link[s], c)
   k == [call[c] EXCEPT !.pc = "waiting", !.page = @ + 1,
                        !.request = Len(link[s].asked) + 1]
 <2>1. /\ ~link[s].closed /\ link' = [link EXCEPT ![s] = r] /\ call' = [call EXCEPT ![c] = k]
   BY <1>5 DEF Usable, Request
 <2>2. Len(link[s].asked) \in Nat BY <1>2, LinkFields
 <2>3. k \in McpCall /\ k.session = s /\ k.pc = "waiting" /\ k.names = call[c].names
  <3> DEFINE page == call[c].page + 1
    request == Len(link[s].asked) + 1
  <3>1. page \in Nat /\ request \in Nat BY <1>1, <2>2 DEF McpCall
  <3>2. k = [call[c] EXCEPT !.pc = "waiting", !.page = page, !.request = request] OBVIOUS
  <3> HIDE DEF page, request, k
  <3> QED BY <1>1, <3>1, <3>2 DEF McpCall
 <2>4.
   /\ r \in Link /\ r.closed = link[s].closed /\ Len(r.asked) = Len(link[s].asked) + 1
   /\ \A i \in 1..Len(link[s].asked) : r.asked[i] = link[s].asked[i]
   /\ r.asked[Len(link[s].asked) + 1] = [by |-> c, promise |-> "waiting"]
   /\ r.pending = link[s].pending \cup {Len(link[s].asked) + 1}
   BY <1>2, AskingSends
 <2>5. McpEntered BY <1>1, <2>1, SendEntered DEF McpInv
 <2> HIDE DEF r, k
 <2>6.
   /\ r.asked[Len(link[s].asked) + 1].by = c
   /\ r.asked[Len(link[s].asked) + 1].promise = "waiting"
   BY <2>4
 <2>7. McpBooks(r)
  <3> DEFINE n == Len(link[s].asked)
  <3>1.
    /\ n \in Nat /\ Len(r.asked) = n + 1
    /\ \A i \in 1..n : r.asked[i] = link[s].asked[i]
    /\ r.asked[n + 1].promise = "waiting" /\ r.pending = link[s].pending \cup {n + 1}
    /\ link[s].pending = {i \in 1..n : link[s].asked[i].promise = "waiting"}
    BY <1>2, <2>2, <2>4, <2>6 DEF McpBooks
  <3> HIDE DEF n
  <3>2. r.pending = {i \in 1..Len(r.asked) : r.asked[i].promise = "waiting"}
   <4>1. 1..(n + 1) = (1..n) \cup {n + 1} BY <3>1
   <4>2. \A i \in 1..n : r.asked[i].promise = link[s].asked[i].promise BY <3>1
   <4> QED BY <3>1, <4>1, <4>2
  <3> QED BY <2>1, <2>4, <3>2 DEF McpBooks
 <2>8. McpGreeted(session[s], r)
  <3>1. /\ session[s].told /\ Len(link[s].asked) > 0
        /\ \A i \in 1..Len(link[s].asked) : link[s].asked[i].by = Handshake <=> i = 1
    BY <1>2 DEF McpGreeted
  <3>2. c # Handshake BY CallsAssumption
  <3>3. \A i \in 1..Len(r.asked) : r.asked[i].by = Handshake <=> i = 1
   <4> DEFINE n == Len(link[s].asked)
   <4>1.
     /\ n \in Nat /\ n > 0 /\ Len(r.asked) = n + 1
     /\ \A i \in 1..n : r.asked[i].by = link[s].asked[i].by
     /\ r.asked[n + 1].by # Handshake
     /\ \A i \in 1..n : link[s].asked[i].by = Handshake <=> i = 1
     BY <2>2, <2>4, <2>6, <3>1, <3>2
   <4> HIDE DEF n
   <4> QED BY <4>1
  <3> QED BY <2>2, <2>4, <3>1, <3>3 DEF McpGreeted
 <2>9.
   /\ link' \in Seq(Link) /\ Len(link') = Len(session) /\ link'[s] = r
   /\ \A t \in 1..Len(session) : t # s => link'[t] = link[t]
   BY <1>1, <2>1, <2>4, McpOneLink DEF McpInv
 <2>10. McpLinkTypes' /\ McpLinked' /\ McpSilent
  <3>1. session' \in Seq(McpSession) /\ Len(session') = Len(session) BY DEF McpInv, McpLinkTypes
  <3> QED BY <1>1, <2>1, <2>7, <2>8, <2>9, <3>1, McpOnePair DEF McpInv
 <2>11. McpCallTypes'
  <3>1. call[c].names # <<>> BY DEF McpInv, McpCallTypes, McpCallFits
  <3>2. McpCallFits(k, session') BY <1>1, <2>3, <3>1 DEF McpCallFits
  <3> QED BY <1>3, <2>1, <2>3, <3>2, McpOneCall DEF McpInv
 <2>12. McpTabled' /\ McpDivided' BY <1>3, McpSameTable DEF McpInv
 <2> QED BY <2>5, <2>10, <2>11, <2>12 DEF McpKept, McpInv
<1> QED BY <1>4, <1>5

LEMMA ProceedKeeps ==
  ASSUME McpInv, NEW c \in Calls, Proceed(c)
  PROVE McpKept
<1>1. call[c].pc = "connecting" /\ UNCHANGED <<table, session, shutdown>> BY DEF Proceed
<1>2. McpSameSessions BY <1>1 DEF McpSameSessions
<1>3. CASE Fail(c) /\ UNCHANGED link BY <1>1, <1>2, <1>3, FailFits, QuietKeeps DEF McpInv
<1>4. CASE Finish(c) /\ UNCHANGED link BY <1>1, <1>2, <1>4, FinishFits, QuietKeeps DEF McpInv
<1>5. CASE session[call[c].session].handshake # "failed" /\ Request(c)
 <2>1. session[call[c].session].handshake = "ready" BY <1>5 DEF Proceed, Over
 <2> QED BY <1>1, <1>5, <2>1, RequestKeeps
<1> QED BY <1>3, <1>4, <1>5 DEF Proceed

LEMMA RejectedKeeps ==
  ASSUME McpInv, NEW c \in Calls, Rejected(c) \/ PagingFails(c)
  PROVE McpKept
<1>1.
  /\ call[c].pc \in {"waiting", "paging"} /\ Fail(c)
  /\ UNCHANGED <<table, session, link, shutdown>>
  BY DEF Rejected, PagingFails, CallAnswered
<1>2. McpSameSessions BY <1>1 DEF McpSameSessions
<1> QED BY <1>1, <1>2, FailFits, QuietKeeps DEF McpInv

LEMMA NextPageKeeps ==
  ASSUME McpInv, NEW c \in Calls, NextPage(c)
  PROVE McpKept
<1>1. call[c].pc = "waiting" /\ Request(c) /\ UNCHANGED <<table, session, shutdown>>
  BY DEF NextPage, CallAnswered
<1>2. session[call[c].session].handshake = "ready" BY <1>1 DEF McpInv, McpCallTypes, McpCallFits
<1> QED BY <1>1, <1>2, RequestKeeps

LEMMA ManyPagesKeeps ==
  ASSUME McpInv, NEW c \in Calls, ManyPages(c)
  PROVE McpKept
<1> DEFINE k == [call[c] EXCEPT !.pc = "paging"]
<1>1.
  /\ call[c].pc = "waiting" /\ call' = [call EXCEPT ![c] = k]
  /\ UNCHANGED <<table, session, link, shutdown>>
  BY DEF ManyPages, CallAnswered
<1>2. McpSameSessions BY <1>1 DEF McpSameSessions
<1>3. k \in McpCall /\ McpCallFits(k, session')
  BY <1>1, McpBegun DEF McpInv, McpCallTypes, McpCall, McpCallFits
<1> HIDE DEF k
<1>4. McpCallTypes' BY <1>1, <1>2, <1>3, McpOneCall DEF McpInv
<1> QED BY <1>1, <1>4, QuietKeeps

LEMMA LastAnswerKeeps ==
  ASSUME McpInv, NEW c \in Calls, LastAnswer(c)
  PROVE McpKept
<1> DEFINE s == call[c].session
  sn == [session[s] EXCEPT !.cached = @ \cup {call[c].op.of}]
<1>1.
  /\ call[c].pc \in {"waiting", "paging"} /\ Finish(c)
  /\ UNCHANGED <<table, link, shutdown>>
  BY DEF LastAnswer, CallAnswered
<1>2. /\ call[c] \in McpCall /\ s \in 1..Len(session) /\ session[s] \in McpSession
  BY <1>1, McpBegun, SessionsAndLinks DEF McpInv, McpCallTypes, McpCallFits
<1>3. CASE session' = session
 <2>1. McpSameSessions BY <1>3 DEF McpSameSessions
 <2> QED BY <1>1, <1>3, <2>1, FinishFits, QuietKeeps DEF McpInv
<1>4. CASE session' # session
 <2>1. call[c].op.kind # "call" /\ session' = [session EXCEPT ![s] = sn] BY <1>4 DEF LastAnswer
 <2>2. call[c].op.of \in Inventories BY <1>2, <2>1 DEF McpCall, Operation
 <2>3.
   /\ sn \in McpSession /\ sn.server = session[s].server
   /\ sn.told = session[s].told /\ sn.handshake = session[s].handshake
   BY <1>2, <2>2 DEF McpSession
 <2> HIDE DEF sn, s
 <2>4.
   /\ session' \in Seq(McpSession) /\ Len(session') = Len(session) /\ session'[s] = sn
   /\ \A t \in 1..Len(session) : t # s => session'[t] = session[t]
   BY <1>2, <2>1, <2>3, McpOneSession DEF McpInv
 <2>5. McpSameSessions BY <2>3, <2>4 DEF McpSameSessions
 <2>6. McpLinkTypes' /\ McpLinked' /\ McpSilent
  <3>1. /\ link' \in Seq(Link) /\ Len(link') = Len(session)
        /\ McpBooks(link'[s]) /\ McpGreeted(session[s], link[s])
    BY <1>1, <1>2 DEF McpInv, McpLinkTypes, McpLinked
  <3>2. McpGreeted(session'[s], link'[s]) BY <1>1, <2>3, <2>4, <3>1 DEF McpGreeted
  <3>3. \A t \in 1..Len(session) :
          t # s => session'[t] = session[t] /\ link'[t] = link[t]
    BY <1>1, <2>4
  <3>4. link[s].closed => /\ Len(link'[s].asked) = Len(link[s].asked)
                          /\ session'[s].told = session[s].told
    BY <1>1, <2>3, <2>4
  <3> QED BY <1>2, <2>4, <3>1, <3>2, <3>3, <3>4, McpOnePair DEF McpInv
 <2>7. McpCallTypes' BY <1>1, <2>5, FinishFits DEF McpInv
 <2>8. McpTabled' /\ McpDivided' BY <1>1, <2>5, McpSameTable DEF McpInv
 <2> QED BY <1>1, <2>6, <2>7, <2>8, LedgerSame DEF McpKept, McpInv
<1> QED BY <1>3, <1>4

\* A new session, for a server the table has none of.
LEMMA NewSessionKeeps ==
  ASSUME McpInv, NEW c \in Calls, NEW n \in Servers, NEW started \in BOOLEAN,
    call[c].pc = "connect", table[n] = 0, NewSession(n, started),
    table' = [table EXCEPT ![n] = Len(session) + 1],
    Connecting(c, Len(session) + 1), UNCHANGED shutdown
  PROVE McpKept
<1> DEFINE m == Len(session) + 1
  sn == [server |-> n, state |-> "connecting", handshake |-> "starting",
         told |-> FALSE, cached |-> {}]
  l == [started |-> started, alive |-> started, reader |-> started,
        closed |-> FALSE, pending |-> {}, owed |-> {}, asked |-> <<>>]
  k == [call[c] EXCEPT !.pc = "connecting", !.session = m, !.page = 0]
<1>1.
  /\ session' = Append(session, sn) /\ link' = Append(link, l)
  /\ call' = [call EXCEPT ![c] = k] /\ table' = [table EXCEPT ![n] = m]
  BY DEF NewSession, Connecting
<1>2. sn \in McpSession BY DEF McpSession
<1>3. l \in Link /\ l.asked = <<>> /\ ~l.closed /\ l.pending = {} BY EmptySeq DEF Link
<1>4. McpBooks(l) /\ McpGreeted(sn, l)
 <2>1. Len(<<>>) = 0 BY EmptySeq
 <2> QED BY <2>1 DEF McpBooks, McpGreeted
<1>5. Len(session) \in Nat /\ m \in Nat /\ m > Len(session) BY SessionsAndLinks DEF McpInv
<1>6. sn.server = n /\ sn.handshake = "starting" OBVIOUS
<1> HIDE DEF sn, l
<1>7.
  /\ session' \in Seq(McpSession) /\ Len(session') = m /\ session'[m] = sn
  /\ \A s \in 1..Len(session) : session'[s] = session[s]
  BY <1>1, <1>2, AppendProperties DEF McpInv, McpLinkTypes
<1>8.
  /\ link' \in Seq(Link) /\ Len(link') = m /\ link'[m] = l
  /\ \A s \in 1..Len(session) : link'[s] = link[s]
  BY <1>1, <1>3, AppendProperties DEF McpInv, McpLinkTypes
<1>9.
  /\ DOMAIN link = 1..Len(session) /\ DOMAIN link' = 1..m
  /\ DOMAIN session = 1..Len(session)
  BY <1>8, LenProperties, SessionsAndLinks DEF McpInv
<1>10. call[c] \in McpCall /\ call[c].names # <<>>
  BY McpBegun DEF McpInv, McpCallTypes, McpCallFits
<1>11. k \in McpCall /\ k.pc = "connecting" /\ k.session = m /\ k.names = call[c].names
  BY <1>5, <1>10 DEF McpCall
<1> HIDE DEF k, m
<1>12. 1..m = (1..Len(session)) \cup {m} BY <1>5 DEF m
<1>13. McpLinkTypes' BY <1>7, <1>8 DEF McpLinkTypes
<1>14. McpLinked'
 <2>1. \A s \in 1..Len(session) : McpBooks(link'[s]) /\ McpGreeted(session'[s], link'[s])
   BY <1>7, <1>8 DEF McpInv, McpLinked
 <2>2. McpBooks(link'[m]) /\ McpGreeted(session'[m], link'[m]) BY <1>4, <1>7, <1>8
 <2> QED BY <1>7, <1>12, <2>1, <2>2 DEF McpLinked
<1>15. McpCallTypes'
 <2>1. \A d \in Calls \ {c} : McpCallFits(call[d], session')
   BY <1>5, <1>7, <1>12 DEF McpInv, McpCallTypes, McpCallFits
 <2>2. McpCallFits(k, session') BY <1>5, <1>7, <1>10, <1>11, <1>12 DEF McpCallFits
 <2> QED BY <1>1, <1>11, <2>1, <2>2 DEF McpInv, McpCallTypes
<1>16. McpTabled'
 <2>1.
   table' \in [Servers -> Nat] /\ table'[n] = m
   /\ \A o \in Servers : o # n => table'[o] = table[o]
   BY <1>1, <1>5 DEF McpInv, McpTabled
 <2>2.
   \A o \in Servers : table'[o] # 0 =>
     table'[o] \in 1..m /\ session'[table'[o]].server = o
   BY <1>5, <1>6, <1>7, <1>12, <2>1 DEF McpInv, McpTabled
 <2>3. ASSUME shutdown.pc # "closed"
   PROVE \A s \in 1..m : table'[session'[s].server] = s
  <3>1. \A s \in 1..Len(session) : session[s].server \in Servers
    BY SessionsAndLinks DEF McpInv, McpSession
  <3>2. \A s \in 1..Len(session) : table[session[s].server] = s BY <2>3 DEF McpInv, McpTabled
  <3>3. \A s \in 1..Len(session) : session[s].server # n BY <1>5, <3>2
  <3>4. \A s \in 1..Len(session) : table'[session'[s].server] = s
    BY <1>7, <2>1, <3>1, <3>2, <3>3
  <3> QED BY <1>6, <1>7, <1>12, <2>1, <3>4
 <2> QED BY <1>7, <2>1, <2>2, <2>3 DEF McpInv, McpTabled
<1>17. McpDivided'
 <2>1.
   PICK j \in 0..Len(session) :
     /\ \A s, t \in 1..j : session[s].server = session[t].server => s = t
     /\ \A s \in (j + 1)..Len(session) : table[session[s].server] = s
   BY DEF McpInv, McpDivided
 <2>2.
   /\ j \in Nat /\ j <= Len(session) /\ j \in 0..m
   /\ (j + 1)..m = ((j + 1)..Len(session)) \cup {m}
   /\ \A s \in 1..j : s \in 1..Len(session)
   /\ \A s \in (j + 1)..Len(session) : s \in 1..Len(session) /\ s # 0
   BY <1>5 DEF m
 <2>3. \A s \in 1..Len(session) : session[s].server \in Servers
   BY SessionsAndLinks DEF McpInv, McpSession
 <2>4. \A s, t \in 1..j : session'[s].server = session'[t].server => s = t BY <1>7, <2>1, <2>2
 <2>5. \A s \in (j + 1)..Len(session) : session[s].server # n BY <2>1, <2>2
 <2>6. \A s \in (j + 1)..Len(session) : table'[session'[s].server] = s
   BY <1>1, <1>7, <2>1, <2>2, <2>3, <2>5 DEF McpInv, McpTabled
 <2>7. table'[session'[m].server] = m BY <1>1, <1>6, <1>7 DEF McpInv, McpTabled
 <2>8. \A s \in (j + 1)..m : table'[session'[s].server] = s BY <2>2, <2>6, <2>7
 <2> QED BY <1>7, <2>2, <2>4, <2>8 DEF McpDivided
<1>18. McpSilent BY <1>7, <1>8, <1>9 DEF McpSilent
<1>19. McpEntered
 <2> DEFINE o == Len(session)
 <2>1. o \in Nat /\ m = o + 1 /\ \A s \in 1..o : link[s] \in Link
   BY SessionsAndLinks DEF McpInv, m
 <2>2. McpAnswers' = Append(McpAnswers, <<>>)
  <3>1. \A v \in Link : McpPromised(v) \in Seq(McpPromises)
   <4>1. SUFFICES ASSUME NEW v \in Link
     PROVE McpPromised(v) \in Seq(McpPromises)
     OBVIOUS
   <4>2. /\ Len(v.asked) \in Nat /\ McpPromised(v) \in [1..Len(v.asked) -> McpPromises]
     BY LinkFields DEF McpPromised, McpAsked
   <4> QED BY <4>2, TabulatedSeq
  <3>2. McpAnswers \in [1..o -> Seq(McpPromises)] BY <1>9, <2>1, <3>1 DEF McpAnswers
  <3>3.
    /\ McpAnswers' \in [1..(o + 1) -> Seq(McpPromises)]
    /\ McpAnswers'[o + 1] = McpPromised(l)
    /\ \A s \in 1..o : McpAnswers'[s] = McpAnswers[s]
   <4>1. \A s \in 1..m : link'[s] \in Link BY <1>8, ElementOfSeq
   <4> QED BY <1>8, <1>9, <1>12, <2>1, <3>1, <4>1 DEF McpAnswers
  <3>4. McpPromised(l) = <<>> BY <1>3 DEF McpPromised
  <3>5. <<>> \in Seq(McpPromises) BY EmptySeq
  <3> HIDE DEF o
  <3> QED BY <2>1, <3>2, <3>3, <3>4, <3>5, TabulatedAppend
 <2>3. McpShut' = Append(McpShut, FALSE)
  <3>1. McpShut \in [1..o -> BOOLEAN] BY <1>9, <2>1 DEF McpShut, Link
  <3>2. /\ McpShut' \in [1..(o + 1) -> BOOLEAN] /\ McpShut'[o + 1] = FALSE
        /\ \A s \in 1..o : McpShut'[s] = McpShut[s]
   <4>0. \A s \in 1..m : link'[s] \in Link BY <1>8, ElementOfSeq
   <4>1. \A s \in 1..m : link'[s].closed \in BOOLEAN BY <4>0 DEF Link
   <4>2. link'[m].closed = FALSE BY <1>3, <1>8, <4>1 DEF Link
   <4> QED BY <1>8, <1>9, <1>12, <2>1, <4>1, <4>2 DEF McpShut
  <3> DEFINE no == FALSE
  <3>3. no \in BOOLEAN /\ McpShut'[o + 1] = no BY <3>2
  <3> HIDE DEF o, no
  <3>4. McpShut' = Append(McpShut, no) BY <2>1, <3>1, <3>2, <3>3, TabulatedAppend
  <3> QED BY <3>4 DEF no
 <2>4. Ledger!Open BY <2>2, <2>3 DEF Ledger!Open, McpAnswers, McpShut, McpPromised
 <2> QED BY <2>4 DEF McpEntered, Ledger!Next
<1> QED BY <1>13, <1>14, <1>15, <1>16, <1>17, <1>18, <1>19 DEF McpKept, McpInv

LEMMA ConnectKeeps ==
  ASSUME McpInv, NEW c \in Calls, Connect(c)
  PROVE McpKept
<1> DEFINE n == Head(call[c].names)
<1>1. call[c].pc = "connect" /\ UNCHANGED shutdown BY DEF Connect
<1>2. call[c] \in McpCall /\ call[c].names # <<>>
  BY <1>1, McpBegun DEF McpInv, McpCallTypes, McpCallFits
<1>3. n \in Servers
 <2>1. call[c].names \in Seq(Servers) BY <1>2 DEF McpCall
 <2> QED BY <1>2, <2>1, HeadTailProperties
<1>4. CASE table[n] # 0
 <2> DEFINE k == [call[c] EXCEPT !.pc = "connecting", !.session = table[n], !.page = 0]
 <2>1. call' = [call EXCEPT ![c] = k] /\ UNCHANGED <<table, session, link>>
   BY <1>4 DEF Connect, Connecting
 <2>2. table[n] \in 1..Len(session) /\ table[n] \in Nat BY <1>3, <1>4 DEF McpInv, McpTabled
 <2>3.
   /\ k \in McpCall /\ k.pc = "connecting" /\ k.session = table[n]
   /\ k.names = call[c].names
   BY <1>2, <2>2 DEF McpCall
 <2> HIDE DEF k
 <2>4. McpSameSessions BY <2>1 DEF McpSameSessions
 <2>5. McpCallFits(k, session') BY <1>2, <2>1, <2>2, <2>3 DEF McpCallFits
 <2>6. McpCallTypes' BY <2>1, <2>3, <2>4, <2>5, McpOneCall DEF McpInv
 <2> QED BY <1>1, <2>1, <2>6, QuietKeeps
<1>5. CASE table[n] = 0
 <2>1.
   PICK started \in BOOLEAN :
     /\ NewSession(n, started) /\ table' = [table EXCEPT ![n] = Len(session) + 1]
     /\ Connecting(c, Len(session) + 1)
   BY <1>5 DEF Connect
 <2> QED BY <1>1, <1>3, <1>5, <2>1, NewSessionKeeps
<1> QED BY <1>4, <1>5

LEMMA ReactKeeps ==
  ASSUME McpInv, NEW c \in Calls, React(c)
  PROVE McpKept
BY ConnectKeeps, ProceedKeeps, RejectedKeeps, NextPageKeeps, ManyPagesKeeps, LastAnswerKeeps DEF
  React

--------------------
(* The shutdown *)

LEMMA CloseSessionsKeeps ==
  ASSUME McpInv, CloseSessions
  PROVE McpKept
<1> DEFINE open == {table[n]: n \in Servers} \ {0}
  shutOne(s) == [Settled(link[s], link[s].pending, "rejected")
                   EXCEPT !.closed = TRUE, !.reader = FALSE, !.owed = {}]
  closed(s) == [session[s] EXCEPT !.state = "closed"]
<1>1.
  /\ shutdown' = [pc |-> "closing", sessions |-> open]
  /\ session' = [s \in DOMAIN session |-> IF s \in open THEN closed(s) ELSE session[s]]
  /\ link' = [s \in DOMAIN link |-> IF s \in open THEN shutOne(s) ELSE link[s]]
  /\ UNCHANGED <<table, call>> /\ shutdown.pc = "no"
  BY DEF CloseSessions
<1>2.
  /\ Len(session) \in Nat
  /\ DOMAIN session = 1..Len(session) /\ DOMAIN link = 1..Len(session)
  /\ \A s \in 1..Len(session) : session[s] \in McpSession /\ link[s] \in Link
  BY SessionsAndLinks DEF McpInv
<1>3.
  \A s \in 1..Len(session) :
    /\ closed(s) \in McpSession /\ closed(s).server = session[s].server
    /\ closed(s).told = session[s].told /\ closed(s).handshake = session[s].handshake
  BY <1>2 DEF McpSession
<1>4.
  \A s \in 1..Len(session) :
    /\ McpAnswering(link[s], shutOne(s), link[s].pending, "rejected")
    /\ shutOne(s).closed = TRUE
 <2>1. SUFFICES ASSUME NEW s \in 1..Len(session)
   PROVE
     /\ McpAnswering(link[s], shutOne(s), link[s].pending, "rejected")
     /\ shutOne(s).closed = TRUE
   OBVIOUS
 <2> DEFINE m == Settled(link[s], link[s].pending, "rejected")
   r == [m EXCEPT !.closed = TRUE, !.reader = FALSE, !.owed = {}]
 <2>2. McpAnswering(link[s], m, link[s].pending, "rejected") BY <1>2, <2>1, SettledAnswers
 <2> HIDE DEF m
 <2>3. McpAnswering(link[s], r, link[s].pending, "rejected") /\ r.closed = TRUE
   BY <2>2 DEF McpAnswering, Link
 <2> QED BY <2>3 DEF m
<1>5. open \subseteq 1..Len(session) /\ open \in SUBSET Nat BY <1>2 DEF McpInv, McpTabled
<1> HIDE DEF open, shutOne, closed
<1>6.
  /\ session' \in Seq(McpSession) /\ Len(session') = Len(session)
  /\ \A s \in 1..Len(session) :
       session'[s] = IF s \in open THEN closed(s) ELSE session[s]
 <2>1. session' \in [1..Len(session) -> McpSession] BY <1>1, <1>2, <1>3
 <2> QED BY <1>1, <1>2, <2>1, TabulatedSeq
<1>7.
  /\ link' \in Seq(Link) /\ Len(link') = Len(session) /\ DOMAIN link' = 1..Len(session)
  /\ \A s \in 1..Len(session) :
       link'[s] = IF s \in open THEN shutOne(s) ELSE link[s]
 <2>1. \A s \in 1..Len(session) : shutOne(s) \in Link BY <1>4 DEF McpAnswering
 <2>2. link' \in [1..Len(session) -> Link] BY <1>1, <1>2, <2>1
 <2> QED BY <1>1, <1>2, <2>2, TabulatedSeq
<1>8. McpLinkTypes' BY <1>6, <1>7 DEF McpLinkTypes
<1>9. ASSUME NEW s \in 1..Len(session)
  PROVE
    /\ McpBooks(link'[s]) /\ McpGreeted(session'[s], link'[s])
    /\ Len(link'[s].asked) = Len(link[s].asked) /\ session'[s].told = session[s].told
    /\ session'[s].server = session[s].server
    /\ session'[s].handshake = session[s].handshake
 <2>1. McpBooks(link[s]) /\ McpGreeted(session[s], link[s]) BY DEF McpInv, McpLinked
 <2>2. CASE s \in open
  <3>1. link'[s] = shutOne(s) /\ session'[s] = closed(s) BY <1>6, <1>7, <2>2
  <3>2. McpBooks(shutOne(s)) /\ McpGreeted(session[s], shutOne(s))
    BY <1>2, <1>4, <2>1, AnsweringKeeps
  <3>3. McpGreeted(closed(s), shutOne(s)) BY <1>3, <3>2 DEF McpGreeted
  <3> QED BY <1>3, <1>4, <3>1, <3>2, <3>3 DEF McpAnswering
 <2>3. CASE s \notin open BY <1>6, <1>7, <2>1, <2>3
 <2> QED BY <2>2, <2>3
<1>10. McpLinked' /\ McpSameSessions /\ McpSilent
  BY <1>2, <1>6, <1>9 DEF McpLinked, McpSameSessions, McpSilent
<1>11. McpCallTypes' BY <1>1, <1>10, McpSameCalls DEF McpInv
<1>12. McpDivided'
 <2>1.
   PICK k \in 0..Len(session) :
     /\ \A s, t \in 1..k : session[s].server = session[t].server => s = t
     /\ \A s \in (k + 1)..Len(session) : table[session[s].server] = s
   BY DEF McpInv, McpDivided
 <2>2. k \in Nat /\ k <= Len(session) BY <1>2
 <2>3.
   /\ \A s, t \in 1..k : session'[s].server = session'[t].server => s = t
   /\ \A s \in (k + 1)..Len(session) : table'[session'[s].server] = s
  <3>1. \A s \in 1..Len(session) : session'[s].server = session[s].server BY <1>9
  <3>2. table' = table BY <1>1
  <3> QED BY <1>2, <2>1, <2>2, <3>1, <3>2
 <2> QED BY <1>6, <2>2, <2>3 DEF McpDivided
<1>13. McpTabled'
 <2>1. shutdown' \in [pc: {"no", "closing", "closed"}, sessions: SUBSET Nat] BY <1>1, <1>5
 <2>2.
   \A n \in Servers : table'[n] # 0 =>
     table'[n] \in 1..Len(session') /\ session'[table'[n]].server = n
   BY <1>1, <1>6, <1>9 DEF McpInv, McpTabled
 <2>3. \A s \in 1..Len(session') : table'[session'[s].server] = s
   BY <1>1, <1>6, <1>9 DEF McpInv, McpTabled
 <2> QED BY <1>1, <2>1, <2>2, <2>3 DEF McpInv, McpTabled
<1>14. McpEntered
 <2>1. DOMAIN McpAnswers = 1..Len(session) /\ DOMAIN McpShut = 1..Len(session)
   BY <1>2 DEF McpAnswers, McpShut
 <2>2.
   \A s \in 1..Len(session) :
     McpPromised(link'[s]) =
       IF s \in open
       THEN [i \in DOMAIN McpPromised(link[s]) |->
               IF i \in {j \in DOMAIN McpPromised(link[s]) : McpPromised(link[s])[j] = "waiting"}
               THEN "rejected" ELSE McpPromised(link[s])[i]]
       ELSE McpPromised(link[s])
  <3>1. SUFFICES ASSUME NEW s \in 1..Len(session), s \in open
    PROVE
      McpPromised(shutOne(s)) =
        [i \in DOMAIN McpPromised(link[s]) |->
           IF i \in link[s].pending
           THEN "rejected" ELSE McpPromised(link[s])[i]]
    BY <1>2, <1>7, WaitingPending DEF McpInv, McpLinked
  <3>2. McpAnswering(link[s], shutOne(s), link[s].pending, "rejected") /\ link[s] \in Link
        /\ shutOne(s) \in Link
    BY <1>2, <1>4, <3>1 DEF McpAnswering
  <3> QED BY <3>2, LinkFields DEF McpAnswering, McpPromised
 <2>3.
   McpAnswers' = [s \in DOMAIN McpAnswers |->
     IF s \in open
     THEN [i \in DOMAIN McpAnswers[s] |->
             IF i \in {j \in DOMAIN McpAnswers[s] : McpAnswers[s][j] = "waiting"}
             THEN "rejected" ELSE McpAnswers[s][i]]
     ELSE McpAnswers[s]]
   BY <1>2, <1>7, <2>1, <2>2 DEF McpAnswers
 <2>4. McpShut' = [s \in DOMAIN McpShut |-> McpShut[s] \/ s \in open]
  <3>1. \A s \in 1..Len(session) : link'[s].closed = (link[s].closed \/ s \in open)
    BY <1>2, <1>4, <1>7 DEF Link
  <3> QED BY <1>2, <1>7, <2>1, <3>1 DEF McpShut
 <2> PICK now : now = open OBVIOUS
 <2>5. Ledger!Shut(now)
   BY <2>3, <2>4 DEF Ledger!Shut, Ledger!Answered, Ledger!Waiting, McpAnswers, McpShut,
     McpPromised
 <2>6. now \in SUBSET DOMAIN McpAnswers BY <1>5, <2>1
 <2>7.
   now \in SUBSET DOMAIN [s \in DOMAIN link |->
                          [i \in DOMAIN link[s].asked |-> link[s].asked[i].promise]]
   BY <2>6 DEF McpAnswers, McpPromised
 <2>8. Ledger!Next BY <2>5, <2>7 DEF Ledger!Next
 <2> QED BY <2>8 DEF McpEntered
<1> QED BY <1>8, <1>10, <1>11, <1>12, <1>13, <1>14 DEF McpKept, McpInv

LEMMA CloseReturnsKeeps ==
  ASSUME McpInv, CloseReturns
  PROVE McpKept
<1> DEFINE dead(s) == [link[s] EXCEPT !.alive = FALSE]
<1>1.
  /\ shutdown' = [shutdown EXCEPT !.pc = "closed"]
  /\ link' = [s \in DOMAIN link |->
                IF s \in shutdown.sessions THEN dead(s) ELSE link[s]]
  /\ table' = [n \in Servers |-> 0]
  /\ UNCHANGED <<session, call>> /\ shutdown.pc = "closing"
  BY DEF CloseReturns
<1>2.
  /\ Len(session) \in Nat
  /\ DOMAIN session = 1..Len(session) /\ DOMAIN link = 1..Len(session)
  /\ \A s \in 1..Len(session) : session[s] \in McpSession /\ link[s] \in Link
  BY SessionsAndLinks DEF McpInv
<1>3.
  \A s \in 1..Len(session) :
    /\ dead(s) \in Link /\ dead(s).asked = link[s].asked
    /\ dead(s).pending = link[s].pending /\ dead(s).closed = link[s].closed
  BY <1>2 DEF Link
<1> HIDE DEF dead
<1>4.
  /\ link' \in Seq(Link) /\ Len(link') = Len(session) /\ DOMAIN link' = 1..Len(session)
  /\ \A s \in 1..Len(session) :
       /\ link'[s].asked = link[s].asked /\ link'[s].pending = link[s].pending
       /\ link'[s].closed = link[s].closed
 <2>1. link' \in [1..Len(session) -> Link] BY <1>1, <1>2, <1>3
 <2> QED BY <1>1, <1>2, <1>3, <2>1, TabulatedSeq
<1>5. McpLinkTypes' /\ McpLinked' /\ McpSameSessions /\ McpSilent
 <2>1. McpLinkTypes' /\ McpSameSessions BY <1>1, <1>4 DEF McpLinkTypes, McpSameSessions, McpInv
 <2>2. \A s \in 1..Len(session) : McpBooks(link'[s]) /\ McpGreeted(session'[s], link'[s])
   BY <1>1, <1>4 DEF McpInv, McpLinked, McpBooks, McpGreeted
 <2>3. McpLinked' BY <1>1, <2>2 DEF McpLinked
 <2>4. McpSilent BY <1>1, <1>2, <1>4 DEF McpSilent
 <2> QED BY <2>1, <2>3, <2>4
<1>6. McpCallTypes' BY <1>1, <1>5, McpSameCalls DEF McpInv
<1>7. McpDivided'
 <2>1. \A s \in 1..Len(session) : table[session[s].server] = s BY <1>1 DEF McpInv, McpTabled
 <2>2.
   \A s, t \in 1..Len(session) :
     session[s].server = session[t].server => s = t
   BY <2>1
 <2>3. /\ Len(session) \in 0..Len(session) /\ (Len(session) + 1)..Len(session) = {}
   BY <1>2
 <2> QED BY <1>1, <2>2, <2>3 DEF McpDivided
<1>8. McpTabled' BY <1>1 DEF McpInv, McpTabled
<1>9. McpEntered
 <2>1. \A s \in 1..Len(session) : McpPromised(link'[s]) = McpPromised(link[s])
   BY <1>4 DEF McpPromised
 <2>2. McpAnswers' = McpAnswers /\ McpShut' = McpShut
   BY <1>2, <1>4, <2>1 DEF McpAnswers, McpShut
 <2> QED BY <2>2 DEF McpEntered, Ledger!ledger, McpAnswers, McpShut, McpPromised
<1> QED BY <1>5, <1>6, <1>7, <1>8, <1>9 DEF McpKept, McpInv

--------------------
(* The theorems *)

LEMMA McpInitHolds == Init => McpInv /\ Ledger!Init
<1> SUFFICES ASSUME Init
  PROVE McpInv /\ Ledger!Init
  OBVIOUS
<1>1.
  /\ session = <<>> /\ link = <<>> /\ table = [n \in Servers |-> 0]
  /\ call = [c \in Calls |-> [pc |-> "idle"]] /\ shutdown = [pc |-> "no", sessions |-> {}]
  BY DEF Init
<1>2. /\ session \in Seq(McpSession) /\ link \in Seq(Link) /\ Len(session) = 0 /\ Len(link) = 0
  BY <1>1, EmptySeq
<1>3. McpLinkTypes /\ McpLinked BY <1>2 DEF McpLinkTypes, McpLinked
<1>4. McpCallTypes BY <1>1 DEF McpCallTypes, McpCallFits
<1>5. McpTabled BY <1>1, <1>2 DEF McpTabled
<1>6. McpDivided BY <1>2 DEF McpDivided
<1>7. Ledger!Init BY <1>1 DEF Ledger!Init
<1> QED BY <1>3, <1>4, <1>5, <1>6, <1>7 DEF McpInv

LEMMA McpNextKeeps == McpInv /\ [Next]_vars => McpInv' /\ McpEntered /\ McpSilent
<1> SUFFICES ASSUME McpInv, [Next]_vars
  PROVE McpKept
  BY DEF McpKept
<1>1. CASE UNCHANGED vars
 <2>1. UNCHANGED <<table, session, link, call, shutdown>> BY <1>1 DEF vars
 <2>2. McpCallTypes' BY <2>1 DEF McpInv, McpCallTypes
 <2> QED BY <2>1, <2>2, QuietKeeps
<1>2. CASE \E s \in DOMAIN session: Transport(s) BY <1>2, TransportKeeps
<1>3. CASE \E s \in DOMAIN session: Greet(s)
  BY <1>3, AskHandshakeKeeps, NotifyKeeps, NotifiedKeeps DEF Greet
<1>4. CASE \E c \in Calls: \E want \in Wanted[c]: Begin(c, want) BY <1>4, BeginKeeps
<1>5. CASE \E c \in Calls: React(c) BY <1>5, ReactKeeps
<1>6. CASE CloseSessions \/ CloseReturns BY <1>6, CloseSessionsKeeps, CloseReturnsKeeps
<1> QED BY <1>1, <1>2, <1>3, <1>4, <1>5, <1>6 DEF Next

\* The invariant that says what sessions, transports, calls and table have to do
\* with each other (connection.ts, stdio-transport.ts).
THEOREM McpInvariant == Spec => []McpInv
<1>1. Init => McpInv BY McpInitHolds
<1>2. McpInv /\ [Next]_vars => McpInv' BY McpNextKeeps
<1> QED BY <1>1, <1>2, PTL DEF Spec

\* There are at most two sessions a server: one before the shutdown is through
\* and one after it.
LEMMA FewSessions ==
  ASSUME McpInv
  PROVE Len(session) <= 2 * Cardinality(Servers)
<1>1.
  /\ Len(session) \in Nat
  /\ \A s \in 1..Len(session) : session[s].server \in Servers
  BY SessionsAndLinks DEF McpInv, McpSession
<1>2.
  PICK k \in 0..Len(session) :
    /\ \A s, t \in 1..k : session[s].server = session[t].server => s = t
    /\ \A s \in (k + 1)..Len(session) : table[session[s].server] = s
  BY DEF McpInv, McpDivided
<1>3. k \in Nat /\ k <= Len(session) /\ Len(session) - k \in Nat BY <1>1, <1>2
<1>4. IsFiniteSet(Servers) /\ Cardinality(Servers) \in Nat
  BY ServersAssumption, FS_CardinalityType
<1>5. \A n \in Nat : Cardinality(1..n) = n BY FS_Interval
<1>6. k <= Cardinality(Servers)
 <2> DEFINE f == [s \in 1..k |-> session[s].server]
 <2>1. f \in [1..k -> Servers] BY <1>1, <1>3
 <2>2. \A a, b \in 1..k : f[a] = f[b] => a = b BY <1>2
 <2>3. f \in Injection(1..k, Servers) BY <2>1, <2>2 DEF Injection, IsInjective
 <2> HIDE DEF f
 <2>4. Cardinality(1..k) <= Cardinality(Servers) BY <1>4, <2>3, FS_Injection
 <2> QED BY <1>3, <1>5, <2>4
<1>7. Len(session) - k <= Cardinality(Servers)
 <2> DEFINE d == Len(session) - k
   f == [s \in 1..d |-> session[k + s].server]
 <2>1. \A s \in 1..d : k + s \in (k + 1)..Len(session) /\ k + s \in 1..Len(session)
   BY <1>1, <1>3
 <2>2. f \in [1..d -> Servers] BY <1>1, <2>1
 <2>3. \A a \in 1..d : table[f[a]] = k + a BY <1>2, <2>1
 <2>4. \A a, b \in 1..d : f[a] = f[b] => a = b BY <1>3, <2>3
 <2>5. d \in Nat BY <1>3
 <2>6. f \in Injection(1..d, Servers) BY <2>2, <2>4 DEF Injection, IsInjective
 <2> HIDE DEF f, d
 <2>7. Cardinality(1..d) <= Cardinality(Servers) BY <1>4, <2>6, FS_Injection
 <2> QED BY <1>5, <2>5, <2>7 DEF d
<1> QED BY <1>1, <1>3, <1>4, <1>6, <1>7

\* A transport keeps its books and its order, whatever the server does and however
\* many calls connect at the same time (stdio-transport.ts: pending,
\* connection.ts: initializePromise).
THEOREM TransportsOrderly == Spec => []TransportOrderly
<1>1. McpInv => TransportOrderly
 <2> SUFFICES ASSUME McpInv
   PROVE TransportOrderly
   OBVIOUS
 <2>1.
   /\ Len(session) \in Nat
   /\ DOMAIN session = 1..Len(session) /\ DOMAIN link = 1..Len(session)
   /\ \A s \in 1..Len(session) : session[s] \in McpSession /\ link[s] \in Link
   BY SessionsAndLinks DEF McpInv
 <2>2. Len(session) <= 2 * Cardinality(Servers) /\ Cardinality(Servers) \in Nat
   BY FewSessions, ServersAssumption, FS_CardinalityType
 <2>3. 1..Len(session) \subseteq Sessions BY <2>1, <2>2 DEF Sessions
 <2>4. table \in [Servers -> Sessions \cup {0}] BY <2>3 DEF McpInv, McpTabled
 <2>5.
   \A c \in Calls: call[c].pc \in {"idle", "connect", "connecting", "waiting",
                                  "paging", "done", "failed"}
   BY DEF McpInv, McpCallTypes, McpCall
 <2>6. shutdown.pc # "closed" => IsInjective([s \in DOMAIN session |-> session[s].server])
   BY <2>1 DEF McpInv, McpTabled, IsInjective
 <2>7. TypeOK BY <2>1, <2>3, <2>4, <2>5, <2>6 DEF TypeOK, McpSession
 <2>8.
   \A s \in 1..Len(session) :
     /\ DOMAIN link[s].asked = 1..Len(link[s].asked) /\ Len(link[s].asked) \in Nat
     /\ McpBooks(link[s]) /\ McpGreeted(session[s], link[s])
   BY <2>1, LinkFields DEF McpInv, McpLinked
 <2>9. PendingExact BY <2>1, <2>8 DEF PendingExact, Promise, McpBooks
 <2>10. HandshakeFirst
  <3>1. ASSUME NEW s \in DOMAIN link, NEW i \in DOMAIN link[s].asked
    PROVE
      /\ (link[s].asked[i].by = Handshake) = (i = 1)
      /\ i > 1 => session[s].told
    BY <2>1, <2>8, <3>1 DEF McpGreeted
  <3> QED BY <3>1 DEF HandshakeFirst
 <2> QED BY <2>7, <2>9, <2>10 DEF TransportOrderly
<1> QED BY <1>1, McpInvariant, PTL

\* Nothing is written to a transport once it is closed (stdio-transport.ts:
\* request, notify).
THEOREM QuietOnceClosed == Spec => SilentOnceClosed
<1>1. McpInv /\ [Next]_vars => [McpSilent]_vars BY McpNextKeeps
<1> QED BY <1>1, McpInvariant, PTL DEF Spec, SilentOnceClosed, McpSilent

\* The transport implements the ledger of requests: whatever the server does and
\* whenever it is closed, a request gets one answer (McpTransport, mcp/types.ts).
THEOREM McpImplements == Spec => OneAnswerEach
<1>1. Init => Ledger!Init BY McpInitHolds
<1>2. McpInv /\ [Next]_vars => [Ledger!Next]_(Ledger!ledger) BY McpNextKeeps DEF McpEntered
<1> QED BY <1>1, <1>2, McpInvariant, PTL DEF Spec, OneAnswerEach, Ledger!Spec
====
