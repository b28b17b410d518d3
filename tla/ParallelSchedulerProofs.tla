---- MODULE ParallelSchedulerProofs ----
(***************************************************************************)
(* Safety of ParallelScheduler for every number of tasks, slots, retained  *)
(* records and waiters.  IInv ties the queue, the slots, the records, the  *)
(* handles and the terminal order to the position of each task in its      *)
(* promise chain; each action is shown to preserve it.                     *)
(***************************************************************************)
EXTENDS ParallelScheduler, SequenceLemmas

\* Queue q holds each task whose chain position is "queued", once.
QueueOf(q, ph) ==
  /\ q \in Seq(TaskId) /\ Distinct(q)
  /\ \A t \in TaskId : ph[t] = "queued" <=> \E i \in 1..Len(q) : q[i] = t

SlotsOf(r, ph) == r = {t \in TaskId : ph[t] \in Occupying}

\* How far a chain has got limits what the record of its task can say.
RecordsOf(st, ph, n) ==
  \A t \in TaskId :
    /\ ph[t] = "none" <=> t >= n
    /\ ph[t] = "none" <=> st[t] = "unregistered"
    /\ ph[t] = "queued" <=> st[t] = "pending"
    /\ st[t] = "running" => ph[t] \in Occupying \ {"recorded"}

HandlesOf(hs, st) == hs = {t \in TaskId : st[t] = "running"}

OrderOf(o, st) ==
  /\ o \in Seq(TaskId) /\ Distinct(o) /\ Len(o) <= MaxRetained
  /\ \A t \in TaskId : st[t] \in Terminal <=> \E i \in 1..Len(o) : o[i] = t

IInv ==
  /\ TypeOK /\ QueueOf(queue, phase) /\ SlotsOf(running, phase)
  /\ RecordsOf(status, phase, nextId) /\ HandlesOf(handles, status)
  /\ OrderOf(terminalOrder, status) /\ Cardinality(running) <= MaxParallel /\ NoIdleSlot
  /\ CompletionAgrees /\ NoStrandedWaiter


USE MaxTasksAssumption, MaxParallelAssumption, MaxRetainedAssumption,
    MaxProgressAssumption

--------------------
(* pump() *)

\* The head of the queue that pump() launches: as many entries as slots are
\* free, and every slot is taken when any entry is left.
LEMMA LaunchedEffect ==
  ASSUME NEW q \in Seq(TaskId), Distinct(q),
    NEW r \in SUBSET TaskId, Cardinality(r) <= MaxParallel,
    \A i \in 1..Len(q) : q[i] \notin r
  PROVE
    LET go == Launched(q, r)
        q2 == SubSeq(q, Launchable(q, r) + 1, Len(q))
    IN  /\ go \in SUBSET TaskId
        /\ q2 \in Seq(TaskId) /\ Distinct(q2)
        /\ \A t \in TaskId : (\E i \in 1..Len(q) : q[i] = t)
              <=> (t \in go \/ \E i \in 1..Len(q2) : q2[i] = t)
        /\ \A t \in go : ~ \E i \in 1..Len(q2) : q2[i] = t
        /\ Cardinality(r \cup go) <= MaxParallel
        /\ q2 # <<>> => Cardinality(r \cup go) = MaxParallel
<1> DEFINE k == Launchable(q, r)
  go == Launched(q, r)
  q2 == SubSeq(q, k + 1, Len(q))
<1>1. IsFiniteSet(r) /\ Cardinality(r) \in Nat
 <2>1. IsFiniteSet(TaskId) BY FS_Interval DEF TaskId
 <2> QED BY <2>1, FS_Subset, FS_CardinalityType
<1>2. Len(q) \in Nat BY LenProperties
<1>3.
  /\ k \in 0..Len(q) /\ k <= MaxParallel - Cardinality(r)
  /\ k < Len(q) => k = MaxParallel - Cardinality(r)
  BY <1>1, <1>2 DEF Launchable
<1>4. go = {q[i] : i \in 1..k} BY DEF Launched
<1>5. IsFiniteSet(go) /\ Cardinality(go) = k
 <2> HIDE DEF k, go
 <2> QED BY <1>3, <1>4, CountFirst, ZenonT(40)
<1>6.
  /\ q2 \in Seq(TaskId) /\ Len(q2) = Len(q) - k
  /\ \A i \in 1..Len(q2) : q2[i] = q[i + k]
  /\ Distinct(q2)
 <2> HIDE DEF k
 <2> QED BY <1>3, DropFirst
<1> HIDE DEF k, go, q2
<1>7. go \in SUBSET TaskId BY <1>2, <1>3, <1>4, ElementOfSeq
<1>8.
  \A t \in TaskId : (\E i \in 1..Len(q) : q[i] = t)
     <=> (t \in go \/ \E i \in 1..Len(q2) : q2[i] = t)
 <2> TAKE t \in TaskId
 <2>1. ASSUME NEW i \in 1..Len(q), q[i] = t
   PROVE t \in go \/ \E j \in 1..Len(q2) : q2[j] = t
  <3>1. CASE i <= k BY <1>2, <1>3, <1>4, <2>1, <3>1
  <3>2. CASE i > k
   <4>1. i - k \in 1..Len(q2) /\ (i - k) + k = i BY <1>2, <1>3, <1>6, <3>2
   <4> QED BY <1>6, <2>1, <4>1
  <3> QED BY <1>2, <1>3, <3>1, <3>2
 <2>2. ASSUME t \in go
   PROVE \E i \in 1..Len(q) : q[i] = t
   BY <1>2, <1>3, <1>4, <2>2
 <2>3. ASSUME NEW j \in 1..Len(q2), q2[j] = t
   PROVE \E i \in 1..Len(q) : q[i] = t
  <3>1. j + k \in 1..Len(q) BY <1>2, <1>3, <1>6
  <3> QED BY <1>6, <2>3, <3>1
 <2> QED BY <2>1, <2>2, <2>3
<1>9. \A t \in go : ~ \E i \in 1..Len(q2) : q2[i] = t
 <2> SUFFICES ASSUME NEW i \in 1..k, NEW j \in 1..Len(q2), q2[j] = q[i]
   PROVE FALSE
   BY <1>4
 <2>1. i \in 1..Len(q) /\ j + k \in 1..Len(q) /\ i # j + k BY <1>2, <1>3, <1>6
 <2>2. q[j + k] = q[i] BY <1>6
 <2> QED BY <2>1, <2>2 DEF Distinct
<1>10. r \cap go = {} BY <1>2, <1>3, <1>4
<1>11. Cardinality(r \cup go) = Cardinality(r) + k
 <2>1.
   Cardinality(r \cup go) =
     Cardinality(r) + Cardinality(go) - Cardinality(r \cap go)
   BY <1>1, <1>5, FS_Union
 <2>2. Cardinality(r \cap go) = 0 BY <1>10, FS_EmptySet
 <2> QED BY <1>1, <1>2, <1>3, <1>5, <2>1, <2>2
<1>12. q2 # <<>> => k < Len(q) BY <1>2, <1>3, <1>6, EmptySeq, LenProperties
<1>13.
  /\ Cardinality(r \cup go) <= MaxParallel
  /\ q2 # <<>> => Cardinality(r \cup go) = MaxParallel
  BY <1>1, <1>3, <1>11, <1>12
<1> QED BY <1>6, <1>7, <1>8, <1>9, <1>13 DEF k, go, q2

\* pump() leaves queue, slots, records and handles consistent, whatever
\* consistent queue and slots it is given.
LEMMA PumpEffect ==
  ASSUME NEW q, NEW r \in SUBSET TaskId, NEW ph \in [TaskId -> Phase],
    NEW st \in [TaskId -> Status], NEW hs \in SUBSET TaskId, NEW n,
    QueueOf(q, ph), SlotsOf(r, ph), RecordsOf(st, ph, n),
    HandlesOf(hs, st), Cardinality(r) <= MaxParallel,
    Pump(q, r, ph, st, hs)
  PROVE
    /\ running' \in SUBSET TaskId /\ handles' \in SUBSET TaskId
    /\ phase' \in [TaskId -> Phase] /\ status' \in [TaskId -> Status]
    /\ QueueOf(queue', phase') /\ SlotsOf(running', phase')
    /\ RecordsOf(status', phase', n) /\ HandlesOf(handles', status')
    /\ Cardinality(running') <= MaxParallel /\ NoIdleSlot'
    /\ \A t \in TaskId :
          \/ status'[t] = st[t]
          \/ (st[t] = "pending" /\ status'[t] = "running")
    /\ \A t \in TaskId :
          \/ phase'[t] = ph[t]
          \/ (ph[t] = "queued" /\ phase'[t] = "launched")
<1> DEFINE go == Launched(q, r)
  q2 == SubSeq(q, Launchable(q, r) + 1, Len(q))
<1>1.
  /\ q \in Seq(TaskId) /\ Distinct(q)
  /\ \A i \in 1..Len(q) : q[i] \notin r
  BY ElementOfSeq DEF QueueOf, SlotsOf, Occupying
<1>2.
  /\ go \in SUBSET TaskId /\ q2 \in Seq(TaskId) /\ Distinct(q2)
  /\ \A t \in TaskId : (\E i \in 1..Len(q) : q[i] = t)
        <=> (t \in go \/ \E i \in 1..Len(q2) : q2[i] = t)
  /\ \A t \in go : ~ \E i \in 1..Len(q2) : q2[i] = t
  /\ Cardinality(r \cup go) <= MaxParallel
  /\ q2 # <<>> => Cardinality(r \cup go) = MaxParallel
  BY <1>1, LaunchedEffect
<1>3.
  /\ queue' = q2 /\ running' = r \cup go
  /\ phase' = [t \in TaskId |-> IF t \in go THEN "launched" ELSE ph[t]]
  /\ status' = [t \in TaskId |-> IF t \in go /\ st[t] = "pending"
                                 THEN "running" ELSE st[t]]
  /\ handles' = hs \cup go
  BY DEF Pump
<1> HIDE DEF go, q2
<1>4. \A t \in go : t \in TaskId /\ ph[t] = "queued" /\ st[t] = "pending"
  BY <1>2 DEF QueueOf, RecordsOf
<1>5.
  /\ running' \in SUBSET TaskId /\ handles' \in SUBSET TaskId
  /\ phase' \in [TaskId -> Phase] /\ status' \in [TaskId -> Status]
  BY <1>2, <1>3 DEF Phase, Status, Live
<1>6. QueueOf(queue', phase') BY <1>2, <1>3 DEF QueueOf
<1>7. SlotsOf(running', phase') BY <1>2, <1>3 DEF SlotsOf, Occupying
<1>8. RecordsOf(status', phase', n) BY <1>3, <1>4 DEF RecordsOf, Occupying
<1>9. HandlesOf(handles', status') BY <1>2, <1>3, <1>4 DEF HandlesOf
<1>10. Cardinality(running') <= MaxParallel /\ NoIdleSlot' BY <1>2, <1>3 DEF NoIdleSlot
<1>11.
  /\ \A t \in TaskId :
          \/ status'[t] = st[t]
          \/ (st[t] = "pending" /\ status'[t] = "running")
  /\ \A t \in TaskId :
          \/ phase'[t] = ph[t]
          \/ (ph[t] = "queued" /\ phase'[t] = "launched")
  BY <1>3, <1>4
<1> QED BY <1>5, <1>6, <1>7, <1>8, <1>9, <1>10, <1>11

--------------------
(* transitionTask *)

\* What FinishAll does to the records: those of the batch become terminal or,
\* when there are more terminal ones than the limit, are pruned at once; the
\* others stay, except terminal ones that are pruned.
LEMMA FinishAllEffect ==
  ASSUME NEW batch \in Seq(TaskId), Distinct(batch),
    \A i \in 1..Len(batch) : status[batch[i]] \in Live,
    NEW st \in Terminal,
    status \in [TaskId -> Status],
    HandlesOf(handles, status),
    OrderOf(terminalOrder, status),
    FinishAll(batch, st)
  PROVE
    /\ status' \in [TaskId -> Status] /\ handles' \in SUBSET TaskId
    /\ HandlesOf(handles', status') /\ OrderOf(terminalOrder', status')
    /\ \A t \in ToSet(batch) : status'[t] \in {st, "gone"}
    /\ \A t \in TaskId \ ToSet(batch) :
          \/ status'[t] = status[t]
          \/ (status[t] \in Terminal /\ status'[t] = "gone")
<1> DEFINE order == terminalOrder \o batch
  k     == Excess(order)
  kept  == Retained(order)
  gone  == Pruned(order)
<1>1.
  /\ terminalOrder \in Seq(TaskId) /\ Distinct(terminalOrder) /\ Len(terminalOrder) \in Nat
  /\ Len(batch) \in Nat
  /\ \A t \in TaskId : status[t] \in Terminal
        <=> \E i \in 1..Len(terminalOrder) : terminalOrder[i] = t
  BY LenProperties DEF OrderOf
<1>2. /\ ToSet(batch) = {batch[i] : i \in 1..Len(batch)} /\ ToSet(batch) \subseteq TaskId
  BY ToSetMembers
<1>3.
  \A i \in 1..Len(terminalOrder), j \in 1..Len(batch) :
     terminalOrder[i] # batch[j]
  BY <1>1, ElementOfSeq DEF Live, Terminal
<1>4.
  /\ order \in Seq(TaskId) /\ Distinct(order)
  /\ Len(order) = Len(terminalOrder) + Len(batch)
  /\ \A i \in 1..Len(order) :
        order[i] = IF i <= Len(terminalOrder) THEN terminalOrder[i]
                   ELSE batch[i - Len(terminalOrder)]
  BY <1>1, <1>3, ConcatDisjoint
<1>5.
  /\ status' = [u \in TaskId |-> IF u \in gone THEN "gone"
                                 ELSE IF u \in ToSet(batch) THEN st
                                 ELSE status[u]]
  /\ terminalOrder' = kept /\ handles' = handles \ (ToSet(batch) \cup gone)
  BY DEF FinishAll
<1> HIDE DEF order
<1>6. /\ Len(order) \in Nat /\ k \in 0..Len(order) /\ Len(order) - k <= MaxRetained
  BY <1>1, <1>4 DEF Excess
<1>7. gone = {order[i] : i \in 1..k} BY DEF Pruned
<1>8.
  /\ kept \in Seq(TaskId) /\ Len(kept) = Len(order) - k
  /\ \A i \in 1..Len(kept) : kept[i] = order[i + k]
  /\ Distinct(kept)
 <2>1. kept = SubSeq(order, k + 1, Len(order)) BY DEF Retained
 <2> HIDE DEF k, kept
 <2> QED BY <1>4, <1>6, <2>1, DropFirst, ZenonT(40)
<1> HIDE DEF k, kept, gone
<1>9.
  \A t \in TaskId : (\E i \in 1..Len(order) : order[i] = t)
     <=> status[t] \in Terminal \/ t \in ToSet(batch)
 <2> TAKE t \in TaskId
 <2>1. ASSUME NEW i \in 1..Len(order), order[i] = t
   PROVE status[t] \in Terminal \/ t \in ToSet(batch)
  <3>1. CASE i <= Len(terminalOrder) BY <1>1, <1>4, <2>1, <3>1
  <3>2. CASE i > Len(terminalOrder)
   <4>1. i - Len(terminalOrder) \in 1..Len(batch) BY <1>1, <1>4, <3>2
   <4>2. order[i] = batch[i - Len(terminalOrder)] BY <1>1, <1>4, <3>2
   <4> QED BY <1>2, <2>1, <4>1, <4>2
  <3> QED BY <1>1, <3>1, <3>2
 <2>2. ASSUME NEW i \in 1..Len(terminalOrder), terminalOrder[i] = t
   PROVE \E j \in 1..Len(order) : order[j] = t
  <3>1. i \in 1..Len(order) /\ order[i] = t BY <1>1, <1>4, <2>2
  <3> QED BY <3>1
 <2>3. ASSUME NEW i \in 1..Len(batch), batch[i] = t
   PROVE \E j \in 1..Len(order) : order[j] = t
  <3>1.
    /\ i + Len(terminalOrder) \in 1..Len(order)
    /\ (i + Len(terminalOrder)) - Len(terminalOrder) = i
    /\ ~ (i + Len(terminalOrder) <= Len(terminalOrder))
    BY <1>1, <1>4
  <3> QED BY <1>4, <2>3, <3>1
 <2> QED BY <1>1, <1>2, <2>1, <2>2, <2>3
<1>10.
  \A t \in TaskId : (\E i \in 1..Len(order) : order[i] = t)
     <=> t \in gone \/ \E i \in 1..Len(kept) : kept[i] = t
 <2> TAKE t \in TaskId
 <2>1. ASSUME NEW i \in 1..Len(order), order[i] = t
   PROVE t \in gone \/ \E j \in 1..Len(kept) : kept[j] = t
  <3>1. CASE i <= k BY <1>6, <1>7, <2>1, <3>1
  <3>2. CASE i > k
   <4>1. i - k \in 1..Len(kept) /\ (i - k) + k = i BY <1>6, <1>8, <3>2
   <4> QED BY <1>8, <2>1, <4>1
  <3> QED BY <1>6, <3>1, <3>2
 <2>2. ASSUME t \in gone
   PROVE \E i \in 1..Len(order) : order[i] = t
   BY <1>6, <1>7, <2>2
 <2>3. ASSUME NEW j \in 1..Len(kept), kept[j] = t
   PROVE \E i \in 1..Len(order) : order[i] = t
  <3>1. j + k \in 1..Len(order) BY <1>6, <1>8
  <3> QED BY <1>8, <2>3, <3>1
 <2> QED BY <2>1, <2>2, <2>3
<1>11. \A t \in gone : ~ \E i \in 1..Len(kept) : kept[i] = t
 <2> SUFFICES ASSUME NEW i \in 1..k, NEW j \in 1..Len(kept), kept[j] = order[i]
   PROVE FALSE
   BY <1>7
 <2>1. i \in 1..Len(order) /\ j + k \in 1..Len(order) /\ i # j + k BY <1>6, <1>8
 <2>2. order[j + k] = order[i] BY <1>8
 <2> QED BY <1>4, <2>1, <2>2 DEF Distinct
<1>12. gone \subseteq TaskId BY <1>4, <1>6, <1>7, ElementOfSeq
<1>13. \A t \in gone : status[t] \in Terminal \/ t \in ToSet(batch) BY <1>9, <1>10, <1>12
<1>14. status' \in [TaskId -> Status] /\ handles' \in SUBSET TaskId
  BY <1>5 DEF Status, HandlesOf
<1>15. HandlesOf(handles', status') BY <1>5, <1>13 DEF HandlesOf, Terminal
<1>16. OrderOf(terminalOrder', status')
 <2>1.
   \A t \in TaskId : status'[t] \in Terminal
      <=> t \notin gone /\ (status[t] \in Terminal \/ t \in ToSet(batch))
   BY <1>5 DEF Terminal
 <2>2.
   \A t \in TaskId : status'[t] \in Terminal
      <=> \E i \in 1..Len(kept) : kept[i] = t
   BY <1>9, <1>10, <1>11, <2>1
 <2> QED BY <1>5, <1>6, <1>8, <2>2 DEF OrderOf
<1>17.
  /\ \A t \in ToSet(batch) : status'[t] \in {st, "gone"}
  /\ \A t \in TaskId \ ToSet(batch) :
          \/ status'[t] = status[t]
          \/ (status[t] \in Terminal /\ status'[t] = "gone")
  BY <1>2, <1>5, <1>13
<1> QED BY <1>14, <1>15, <1>16, <1>17

\* A single record: transitionTask on it, or nothing when it is not live.
LEMMA FinishEffect ==
  ASSUME NEW t \in TaskId, NEW st \in Terminal,
    status \in [TaskId -> Status],
    HandlesOf(handles, status), OrderOf(terminalOrder, status),
    Finish(t, st)
  PROVE
    /\ status' \in [TaskId -> Status] /\ handles' \in SUBSET TaskId
    /\ HandlesOf(handles', status') /\ OrderOf(terminalOrder', status')
    /\ status[t] \in Live => status'[t] \in {st, "gone"}
    /\ status[t] \notin Live => status'[t] = status[t]
    /\ \A u \in TaskId \ {t} :
          \/ status'[u] = status[u]
          \/ (status[u] \in Terminal /\ status'[u] = "gone")
<1>1. CASE status[t] \in Live
 <2>1. /\ <<t>> \in Seq(TaskId) /\ Len(<<t>>) = 1 /\ <<t>>[1] = t
   OBVIOUS
 <2>2. Distinct(<<t>>) /\ \A i \in 1..Len(<<t>>) : status[<<t>>[i]] \in Live
   BY <1>1, <2>1 DEF Distinct
 <2>3. ToSet(<<t>>) = {t}
  <3>1. ToSet(<<t>>) = {<<t>>[i] : i \in 1..Len(<<t>>)} BY <2>1, ToSetMembers
  <3> QED BY <2>1, <3>1
 <2>4. FinishAll(<<t>>, st) BY <1>1 DEF Finish
 <2> QED BY <1>1, <2>1, <2>2, <2>3, <2>4, FinishAllEffect
<1>2. CASE status[t] \notin Live
 <2>1. UNCHANGED <<status, handles, terminalOrder>> BY <1>2 DEF Finish, registryVars
 <2>2. handles \in SUBSET TaskId BY DEF HandlesOf
 <2> QED BY <1>2, <2>1, <2>2
<1> QED BY <1>1, <1>2

--------------------
(* Each action preserves the invariant *)

LEMMA InitIInv == Init => IInv
<1> SUFFICES ASSUME Init PROVE IInv OBVIOUS
<1>1. TypeOK BY EmptySeq DEF Init, TypeOK, Status, Phase
<1>2. QueueOf(queue, phase) /\ SlotsOf(running, phase)
  BY EmptySeq DEF Init, QueueOf, SlotsOf, Distinct, Occupying
<1>3.
  /\ RecordsOf(status, phase, nextId) /\ HandlesOf(handles, status)
  /\ OrderOf(terminalOrder, status)
  BY EmptySeq DEF Init, RecordsOf, HandlesOf, OrderOf, Distinct, Terminal, TaskId
<1>4. Cardinality(running) <= MaxParallel /\ NoIdleSlot BY FS_EmptySet DEF Init, NoIdleSlot
<1>5. CompletionAgrees /\ NoStrandedWaiter
  BY DEF Init, CompletionAgrees, NoStrandedWaiter, Terminal
<1> QED BY <1>1, <1>2, <1>3, <1>4, <1>5 DEF IInv

\* submitTask
LEMMA SubmitStep == IInv /\ Submit => IInv'
<1> SUFFICES ASSUME IInv, Submit PROVE IInv' OBVIOUS
<1> DEFINE q  == Append(queue, nextId)
  ph == [phase EXCEPT ![nextId] = "queued"]
  st == [status EXCEPT ![nextId] = "pending"]
<1>1.
  /\ nextId \in TaskId /\ nextId' = nextId + 1 /\ nextId' \in 1..(MaxTasks + 1)
  /\ phase[nextId] = "none" /\ status[nextId] = "unregistered"
  BY DEF Submit, IInv, TypeOK, TaskId, RecordsOf
<1>2.
  /\ q \in Seq(TaskId) /\ Len(queue) \in Nat /\ Len(q) = Len(queue) + 1
  /\ \A i \in 1..Len(q) : q[i] = IF i <= Len(queue) THEN queue[i] ELSE nextId
  /\ (Distinct(queue) /\ \A i \in 1..Len(queue) : queue[i] # nextId)
       => Distinct(q)
  BY <1>1, AppendNew, LenProperties DEF IInv, QueueOf
<1>3. ph \in [TaskId -> Phase] /\ st \in [TaskId -> Status]
  BY DEF IInv, TypeOK, Phase, Status, Live
<1>4. Pump(q, running, ph, st, handles) BY DEF Submit
<1> HIDE DEF q
<1>5. QueueOf(q, ph)
 <2>1. Distinct(q) BY <1>1, <1>2, ElementOfSeq DEF IInv, QueueOf
 <2>2. ASSUME NEW t \in TaskId
   PROVE ph[t] = "queued" <=> \E i \in 1..Len(q) : q[i] = t
  <3>1. CASE t = nextId
   <4>1. Len(q) \in 1..Len(q) /\ q[Len(q)] = nextId BY <1>2
   <4> QED BY <3>1, <4>1 DEF IInv, TypeOK
  <3>2. CASE t # nextId
   <4>1. (\E i \in 1..Len(q) : q[i] = t)
           <=> \E i \in 1..Len(queue) : queue[i] = t
     BY <1>2, <3>2
   <4> QED BY <3>2, <4>1 DEF IInv, TypeOK, QueueOf
  <3> QED BY <3>1, <3>2
 <2> QED BY <1>2, <2>1, <2>2 DEF QueueOf
<1>6. SlotsOf(running, ph) BY <1>1 DEF IInv, SlotsOf, Occupying, TypeOK
<1>7. RecordsOf(st, ph, nextId') BY <1>1 DEF IInv, RecordsOf, TypeOK, TaskId
<1>8. HandlesOf(handles, st) BY <1>1 DEF IInv, HandlesOf, TypeOK
<1> HIDE DEF ph, st
<1>9.
  /\ running' \in SUBSET TaskId /\ handles' \in SUBSET TaskId
  /\ phase' \in [TaskId -> Phase] /\ status' \in [TaskId -> Status]
  /\ QueueOf(queue', phase') /\ SlotsOf(running', phase')
  /\ RecordsOf(status', phase', nextId') /\ HandlesOf(handles', status')
  /\ Cardinality(running') <= MaxParallel /\ NoIdleSlot'
  /\ \A t \in TaskId :
        \/ status'[t] = st[t]
        \/ (st[t] = "pending" /\ status'[t] = "running")
  /\ \A t \in TaskId :
        \/ phase'[t] = ph[t]
        \/ (ph[t] = "queued" /\ phase'[t] = "launched")
 <2>1.
   /\ running \in SUBSET TaskId /\ handles \in SUBSET TaskId
   /\ Cardinality(running) <= MaxParallel
   BY DEF IInv, TypeOK
 <2> QED BY <1>3, <1>4, <1>5, <1>6, <1>7, <1>8, <2>1, PumpEffect DEF Pump
<1>10. UNCHANGED <<progress, terminalOrder, signalled, completion, waiter>> BY DEF Submit
<1>11. \A t \in TaskId : st[t] = IF t = nextId THEN "pending" ELSE status[t]
  BY DEF st, IInv, TypeOK
<1>12. \A t \in TaskId : ph[t] = IF t = nextId THEN "queued" ELSE phase[t]
  BY DEF ph, IInv, TypeOK
<1>13. TypeOK' BY <1>1, <1>9, <1>10 DEF IInv, TypeOK, QueueOf
<1>14. OrderOf(terminalOrder', status') BY <1>1, <1>9, <1>10, <1>11 DEF IInv, OrderOf, Terminal
<1>15. CompletionAgrees' BY <1>1, <1>9, <1>10, <1>11, <1>12 DEF IInv, CompletionAgrees, Terminal
<1>16. NoStrandedWaiter'
 <2>1. phase'[nextId] \in {"queued", "launched"} BY <1>1, <1>9, <1>12
 <2>2. queue' # <<>> \/ running' # {}
   BY <1>1, <1>9, <2>1, EmptySeq DEF QueueOf, SlotsOf, Occupying
 <2> QED BY <2>2 DEF NoStrandedWaiter
<1> QED BY <1>9, <1>13, <1>14, <1>15, <1>16 DEF IInv

\* stop() of a queued entry
LEMMA StopQueuedStep ==
  ASSUME IInv, NEW t \in TaskId, StopQueued(t)
  PROVE IInv'
<1>1. PICK k \in 1..Len(queue) : queue[k] = t /\ queue' = RemoveAt(queue, k)
  BY LenProperties DEF StopQueued, IInv, QueueOf
<1>2.
  /\ Finish(t, "aborted") /\ phase' = [phase EXCEPT ![t] = "done"]
  /\ completion' = [completion EXCEPT ![t] = FinishResult(t, "aborted")]
  /\ UNCHANGED <<nextId, progress, running, signalled>> /\ ResolveIdle
  BY DEF StopQueued
<1>3. phase[t] = "queued" /\ status[t] = "pending" BY <1>1 DEF IInv, QueueOf, RecordsOf
<1>4.
  /\ status' \in [TaskId -> Status] /\ handles' \in SUBSET TaskId
  /\ HandlesOf(handles', status') /\ OrderOf(terminalOrder', status')
  /\ status'[t] \in {"aborted", "gone"}
  /\ \A u \in TaskId \ {t} :
        \/ status'[u] = status[u]
        \/ (status[u] \in Terminal /\ status'[u] = "gone")
  BY <1>2, <1>3, FinishEffect DEF IInv, TypeOK, Live, Terminal
<1>5. completion' = [completion EXCEPT ![t] = "aborted"] BY <1>2, <1>3 DEF FinishResult, Live
<1>6.
  /\ queue' \in Seq(TaskId) /\ Len(queue) \in Nat /\ Len(queue') = Len(queue) - 1
  /\ \A i \in 1..Len(queue') :
        queue'[i] = IF i < k THEN queue[i] ELSE queue[i + 1]
  /\ Distinct(queue')
  BY <1>1, RemoveAtIndex, LenProperties DEF IInv, QueueOf
<1>7. QueueOf(queue', phase')
 <2>1. ASSUME NEW u \in TaskId
   PROVE phase'[u] = "queued" <=> \E i \in 1..Len(queue') : queue'[i] = u
  <3>1. ASSUME NEW i \in 1..Len(queue'), queue'[i] = u
    PROVE phase'[u] = "queued"
   <4>1. PICK j \in 1..Len(queue) : j # k /\ queue[j] = u
    <5>1. CASE i < k BY <1>6, <3>1, <5>1
    <5>2. CASE i >= k
     <6>1. i + 1 \in 1..Len(queue) /\ i + 1 # k /\ queue[i + 1] = u BY <1>6, <3>1, <5>2
     <6> QED BY <6>1
    <5> QED BY <1>6, <5>1, <5>2
   <4>2. u # t BY <1>1, <4>1 DEF IInv, QueueOf, Distinct
   <4> QED BY <1>2, <4>1, <4>2 DEF IInv, QueueOf, TypeOK
  <3>2. ASSUME phase'[u] = "queued"
    PROVE \E i \in 1..Len(queue') : queue'[i] = u
   <4>1. u # t /\ phase[u] = "queued" BY <1>2, <3>2 DEF IInv, TypeOK
   <4>2. PICK j \in 1..Len(queue) : queue[j] = u BY <4>1 DEF IInv, QueueOf
   <4>3. CASE j < k BY <1>6, <4>2, <4>3
   <4>4. CASE j > k
    <5>1. j - 1 \in 1..Len(queue') /\ ~(j - 1 < k) /\ (j - 1) + 1 = j BY <1>6, <4>4
    <5>2. queue'[j - 1] = u BY <1>6, <4>2, <5>1
    <5> QED BY <5>1, <5>2
   <4> QED BY <1>1, <1>6, <4>1, <4>2, <4>3, <4>4
  <3> QED BY <3>1, <3>2
 <2> QED BY <1>6, <2>1 DEF QueueOf
<1>8. SlotsOf(running', phase') BY <1>2, <1>3 DEF IInv, TypeOK, SlotsOf, Occupying
<1>9. RecordsOf(status', phase', nextId')
  BY <1>2, <1>3, <1>4 DEF IInv, TypeOK, RecordsOf, Terminal
<1>10. TypeOK'
 <2>1. waiter' \in [Waiters -> {"none", "waiting", "released"}]
   BY <1>2 DEF IInv, TypeOK, ResolveIdle
 <2>2. completion' \in [TaskId -> {"open", "pending", "rejected"} \cup Terminal]
   BY <1>5 DEF IInv, TypeOK, Terminal
 <2>3. phase' \in [TaskId -> Phase] BY <1>2 DEF IInv, TypeOK, Phase
 <2> QED BY <1>2, <1>4, <1>6, <2>1, <2>2, <2>3 DEF IInv, TypeOK, OrderOf
<1>11. Cardinality(running') <= MaxParallel /\ NoIdleSlot'
  BY <1>1, <1>2, EmptySeq DEF IInv, NoIdleSlot, TypeOK
<1>12. CompletionAgrees' BY <1>2, <1>4, <1>5 DEF IInv, TypeOK, CompletionAgrees, Terminal
<1>13. NoStrandedWaiter' BY <1>2 DEF ResolveIdle, NoStrandedWaiter
<1> QED BY <1>4, <1>7, <1>8, <1>9, <1>10, <1>11, <1>12, <1>13 DEF IInv

\* stop() of an entry with a runtime handle
LEMMA StopRunningStep ==
  ASSUME IInv, NEW t \in TaskId, StopRunning(t)
  PROVE IInv'
<1>1.
  /\ t \in handles /\ signalled' = signalled \cup {t} /\ Finish(t, "aborted")
  /\ UNCHANGED <<nextId, progress, queue, running, phase, completion>> /\ ResolveIdle
  BY DEF StopRunning
<1>2. status[t] = "running" /\ phase[t] \in Occupying \ {"recorded"}
  BY <1>1 DEF IInv, HandlesOf, RecordsOf
<1>3.
  /\ status' \in [TaskId -> Status] /\ handles' \in SUBSET TaskId
  /\ HandlesOf(handles', status') /\ OrderOf(terminalOrder', status')
  /\ status'[t] \in {"aborted", "gone"}
  /\ \A u \in TaskId \ {t} :
        \/ status'[u] = status[u]
        \/ (status[u] \in Terminal /\ status'[u] = "gone")
  BY <1>1, <1>2, FinishEffect DEF IInv, TypeOK, Live, Terminal
<1>4. TypeOK' BY <1>1, <1>3 DEF IInv, TypeOK, ResolveIdle, OrderOf
<1>5.
  /\ QueueOf(queue', phase') /\ SlotsOf(running', phase')
  /\ Cardinality(running') <= MaxParallel /\ NoIdleSlot'
  BY <1>1 DEF IInv, NoIdleSlot
<1>6. RecordsOf(status', phase', nextId')
  BY <1>1, <1>2, <1>3 DEF IInv, RecordsOf, Terminal, Occupying
<1>7. CompletionAgrees' BY <1>1, <1>2, <1>3 DEF IInv, CompletionAgrees, Terminal
<1>8. NoStrandedWaiter' BY <1>1 DEF ResolveIdle, NoStrandedWaiter
<1> QED BY <1>3, <1>4, <1>5, <1>6, <1>7, <1>8 DEF IInv

\* The batch of a shutdown lists every live task, because it lists as many
\* different ones as there are.
LEMMA ShutdownBatch ==
  ASSUME NEW live \in SUBSET TaskId,
    NEW batch \in [1..Cardinality(live) -> live],
    \A i, j \in DOMAIN batch : i < j => batch[i] < batch[j]
  PROVE
    /\ batch \in Seq(TaskId) /\ Distinct(batch) /\ ToSet(batch) = live
    /\ \A i \in 1..Len(batch) : batch[i] \in live
<1> DEFINE n == Cardinality(live)
<1>1. IsFiniteSet(live) /\ n \in Nat
 <2>1. IsFiniteSet(TaskId) BY FS_Interval DEF TaskId
 <2> QED BY <2>1, FS_Subset, FS_CardinalityType
<1>2. IsFiniteSet(1..n) /\ Cardinality(1..n) = n BY <1>1, FS_Interval
<1>3. \A i, j \in 1..n : batch[i] = batch[j] => i = j
 <2>1. SUFFICES ASSUME NEW i \in 1..n, NEW j \in 1..n, i < j
   PROVE batch[i] # batch[j]
   BY <1>1
 <2>2. DOMAIN batch = 1..n /\ batch[i] \in live /\ batch[j] \in live OBVIOUS
 <2>3. batch[i] < batch[j] BY <2>1, <2>2
 <2>4. \A t \in live : t \in Int BY DEF TaskId
 <2>5. batch[i] \in Int /\ batch[j] \in Int BY <2>2, <2>4
 <2> QED BY <2>3, <2>5
<1>4. batch \in Injection(1..n, live) BY <1>3 DEF Injection, IsInjective
<1>5. batch \in Surjection(1..n, live) BY <1>1, <1>2, <1>4, FS_Injection
<1>6. batch \in [1..n -> live] /\ batch \in Seq(TaskId) /\ Len(batch) = n BY <1>1
<1> HIDE DEF n
<1>7. ToSet(batch) = {batch[i] : i \in 1..n} BY <1>6, ToSetMembers
<1>8. ToSet(batch) = live
 <2>1. \A t \in live : \E i \in 1..n : batch[i] = t BY <1>5 DEF Surjection
 <2>2. \A i \in 1..n : batch[i] \in live BY <1>6
 <2> HIDE DEF n
 <2>3. \A t : t \in {batch[i] : i \in 1..n} <=> t \in live BY <2>1, <2>2
 <2> QED BY <1>7, <2>3
<1> QED BY <1>3, <1>6, <1>7, <1>8 DEF Distinct

\* The shutdown of the process
LEMMA SessionShutdownStep == IInv /\ SessionShutdown => IInv'
<1> SUFFICES ASSUME IInv, SessionShutdown PROVE IInv' OBVIOUS
<1> DEFINE live == {t \in TaskId : status[t] \in Live}
<1>1.
  PICK batch \in [1..Cardinality(live) -> live] :
    /\ \A i, j \in DOMAIN batch : i < j => batch[i] < batch[j]
    /\ FinishAll(batch, "aborted")
  BY DEF SessionShutdown
<1>2.
  /\ signalled' = signalled \cup (live \cap handles) /\ queue' = <<>>
  /\ phase' = [t \in TaskId |-> IF t \in ToSet(queue) THEN "done"
                                ELSE phase[t]]
  /\ completion' = [t \in TaskId |-> IF t \in ToSet(queue) THEN "aborted"
                                     ELSE completion[t]]
  /\ UNCHANGED <<nextId, progress, running>> /\ ResolveIdle
  BY DEF SessionShutdown
<1>3.
  /\ live \subseteq TaskId
  /\ \A t \in TaskId : t \in live <=> status[t] \in Live
  OBVIOUS
<1> HIDE DEF live
<1>4.
  /\ batch \in Seq(TaskId) /\ Distinct(batch) /\ ToSet(batch) = live
  /\ \A i \in 1..Len(batch) : batch[i] \in live
  BY <1>1, <1>3, ShutdownBatch
<1>5.
  /\ status' \in [TaskId -> Status] /\ handles' \in SUBSET TaskId
  /\ HandlesOf(handles', status') /\ OrderOf(terminalOrder', status')
  /\ \A t \in live : status'[t] \in {"aborted", "gone"}
  /\ \A t \in TaskId \ live :
        \/ status'[t] = status[t]
        \/ (status[t] \in Terminal /\ status'[t] = "gone")
 <2>1. \A i \in 1..Len(batch) : status[batch[i]] \in Live BY <1>3, <1>4
 <2>2. "aborted" \in Terminal BY DEF Terminal
 <2>3.
   /\ status \in [TaskId -> Status] /\ HandlesOf(handles, status)
   /\ OrderOf(terminalOrder, status)
   BY DEF IInv, TypeOK
 <2> QED BY <1>1, <1>4, <2>1, <2>2, <2>3, FinishAllEffect
<1>6. \A t \in TaskId : t \in ToSet(queue) <=> phase[t] = "queued"
 <2>1. ToSet(queue) = {queue[i] : i \in 1..Len(queue)} BY ToSetMembers DEF IInv, QueueOf
 <2> QED BY <2>1 DEF IInv, QueueOf
<1>7.
  \A t \in TaskId : phase'[t] = IF phase[t] = "queued" THEN "done"
                                ELSE phase[t]
  BY <1>2, <1>6
<1>8. QueueOf(queue', phase') BY <1>2, <1>7, EmptySeq DEF QueueOf, Distinct
<1>9. SlotsOf(running', phase') BY <1>2, <1>7 DEF IInv, SlotsOf, Occupying
<1>10. RecordsOf(status', phase', nextId')
  BY <1>2, <1>3, <1>5, <1>7 DEF IInv, RecordsOf, Terminal, Live
<1>11. TypeOK'
  BY <1>2, <1>3, <1>5, EmptySeq DEF IInv, TypeOK, Phase, Terminal, ResolveIdle, OrderOf
<1>12. Cardinality(running') <= MaxParallel /\ NoIdleSlot' BY <1>2 DEF IInv, NoIdleSlot
<1>13. CompletionAgrees'
 <2>1.
   \A t \in TaskId : completion'[t] = IF phase[t] = "queued"
                                      THEN "aborted" ELSE completion[t]
   BY <1>2, <1>6
 <2>2. \A t \in TaskId : phase[t] = "queued" => t \in live BY <1>3 DEF IInv, RecordsOf, Live
 <2> QED BY <1>3, <1>5, <1>7, <2>1, <2>2 DEF IInv, CompletionAgrees, RecordsOf, Terminal, Live
<1>14. NoStrandedWaiter' BY <1>2 DEF ResolveIdle, NoStrandedWaiter
<1> QED BY <1>5, <1>8, <1>9, <1>10, <1>11, <1>12, <1>13, <1>14 DEF IInv

\* The first reaction and the work itself touch only the chain position and
\* the progress count.
LEMMA WorkStep ==
  ASSUME IInv, NEW t \in TaskId,
    WorkStart(t) \/ WorkProgress(t) \/ WorkSettle(t)
  PROVE IInv'
<1>1.
  /\ UNCHANGED <<nextId, status, handles, terminalOrder, queue, running,
                 signalled, completion, waiter>>
  /\ progress' \in [TaskId -> 0..MaxProgress]
  /\ \E p \in {"working", "returned", "threw"} :
        phase' = [phase EXCEPT ![t] = p]
  /\ phase[t] \in {"launched", "working"}
 <2>1. CASE WorkStart(t) BY <2>1 DEF WorkStart, IInv, TypeOK
 <2>2. CASE WorkProgress(t)
  <3>1. phase' = [phase EXCEPT ![t] = "working"] BY <2>2 DEF WorkProgress, IInv, TypeOK
  <3>2. progress' \in [TaskId -> 0..MaxProgress] BY <2>2 DEF WorkProgress, IInv, TypeOK
  <3> QED BY <2>2, <3>1, <3>2 DEF WorkProgress
 <2>3. CASE WorkSettle(t) BY <2>3 DEF WorkSettle, IInv, TypeOK
 <2> QED BY <2>1, <2>2, <2>3
<1>2.
  /\ phase' \in [TaskId -> Phase] /\ phase'[t] \in {"working", "returned", "threw"}
  /\ \A u \in TaskId \ {t} : phase'[u] = phase[u]
  BY <1>1 DEF IInv, TypeOK, Phase
<1>3. TypeOK' BY <1>1, <1>2 DEF IInv, TypeOK
<1>4. QueueOf(queue', phase') BY <1>1, <1>2 DEF IInv, QueueOf
<1>5. SlotsOf(running', phase') BY <1>1, <1>2 DEF IInv, SlotsOf, Occupying
<1>6. RecordsOf(status', phase', nextId') BY <1>1, <1>2 DEF IInv, RecordsOf, Occupying
<1>7. CompletionAgrees' BY <1>1, <1>2 DEF IInv, CompletionAgrees
<1>8.
  /\ HandlesOf(handles', status') /\ OrderOf(terminalOrder', status')
  /\ Cardinality(running') <= MaxParallel /\ NoIdleSlot' /\ NoStrandedWaiter'
  BY <1>1 DEF IInv, NoIdleSlot, NoStrandedWaiter
<1> QED BY <1>3, <1>4, <1>5, <1>6, <1>7, <1>8 DEF IInv

\* Recording an outcome: the record becomes terminal unless it already was, and
\* the completion is settled with the record or, when it is gone, with fallback.
LEMMA RecordStep ==
  ASSUME IInv, NEW t \in TaskId, NEW outcome \in Terminal,
    NEW fallback \in {"pending", "rejected"},
    phase[t] \in {"returned", "threw"},
    Finish(t, outcome),
    phase' = [phase EXCEPT ![t] = "recorded"],
    completion' = [completion EXCEPT ![t] =
                     IF FinishResult(t, outcome) = "gone" THEN fallback
                     ELSE FinishResult(t, outcome)],
    UNCHANGED <<nextId, progress, queue, running, signalled, waiter>>
  PROVE IInv'
<1>1. status[t] \in {"running", "gone"} \cup Terminal
  BY DEF IInv, TypeOK, RecordsOf, Status, Live
<1>2.
  /\ status' \in [TaskId -> Status] /\ handles' \in SUBSET TaskId
  /\ HandlesOf(handles', status') /\ OrderOf(terminalOrder', status')
  /\ status[t] \in Live => status'[t] \in {outcome, "gone"}
  /\ status[t] \notin Live => status'[t] = status[t]
  /\ \A u \in TaskId \ {t} :
        \/ status'[u] = status[u]
        \/ (status[u] \in Terminal /\ status'[u] = "gone")
  BY FinishEffect DEF IInv, TypeOK
<1>3.
  \/ status[t] = "running" /\ completion'[t] = outcome
  \/ status[t] = "gone" /\ completion'[t] = fallback
  \/ status[t] \in Terminal /\ completion'[t] = status[t]
  BY <1>1 DEF IInv, TypeOK, FinishResult, Live, Terminal
<1>4.
  /\ completion' \in [TaskId -> {"open", "pending", "rejected"} \cup Terminal]
  /\ phase' \in [TaskId -> Phase]
 <2>1. completion'[t] \in {"pending", "rejected"} \cup Terminal BY <1>3
 <2> QED BY <2>1 DEF IInv, TypeOK, Phase
<1>5. TypeOK' BY <1>2, <1>4 DEF IInv, TypeOK, OrderOf
<1>6. QueueOf(queue', phase') BY DEF IInv, TypeOK, QueueOf
<1>7. SlotsOf(running', phase') BY DEF IInv, TypeOK, SlotsOf, Occupying
<1>8. RecordsOf(status', phase', nextId')
  BY <1>1, <1>2 DEF IInv, TypeOK, RecordsOf, Live, Terminal
<1>9. CompletionAgrees' BY <1>2, <1>3 DEF IInv, TypeOK, CompletionAgrees, Live, Terminal
<1>10. /\ Cardinality(running') <= MaxParallel /\ NoIdleSlot' /\ NoStrandedWaiter'
  BY DEF IInv, NoIdleSlot, NoStrandedWaiter
<1> QED BY <1>2, <1>5, <1>6, <1>7, <1>8, <1>9, <1>10 DEF IInv

\* then()
LEMMA RecordResultStep ==
  ASSUME IInv, NEW t \in TaskId, RecordResult(t)
  PROVE IInv'
<1>1. CASE t \in signalled
  BY <1>1, RecordStep DEF RecordResult, Finish, FinishResult, FinishAll, registryVars, Terminal
<1>2. CASE t \notin signalled
  BY <1>2, RecordStep DEF RecordResult, Finish, FinishResult, FinishAll, registryVars, Terminal
<1> QED BY <1>1, <1>2

\* catch()
LEMMA RecordErrorStep ==
  ASSUME IInv, NEW t \in TaskId, RecordError(t)
  PROVE IInv'
BY RecordStep DEF RecordError, Terminal

\* finally()
LEMMA ReleaseSlotStep ==
  ASSUME IInv, NEW t \in TaskId, ReleaseSlot(t)
  PROVE IInv'
<1> DEFINE r  == running \ {t}
  ph == [phase EXCEPT ![t] = "done"]
  hs == handles \ {t}
<1>1.
  /\ phase[t] = "recorded" /\ Pump(queue, r, ph, status, hs)
  /\ UNCHANGED <<nextId, progress, terminalOrder, signalled, completion>> /\ ResolveIdle
  BY DEF ReleaseSlot
<1>2.
  /\ r \in SUBSET TaskId /\ hs \in SUBSET TaskId /\ status \in [TaskId -> Status]
  /\ ph \in [TaskId -> Phase]
  BY DEF IInv, TypeOK, Phase
<1>3. QueueOf(queue, ph) BY <1>1 DEF IInv, TypeOK, QueueOf
<1>4. SlotsOf(r, ph) BY DEF IInv, TypeOK, SlotsOf, Occupying
<1>5. RecordsOf(status, ph, nextId') BY <1>1 DEF IInv, TypeOK, RecordsOf
<1>6. HandlesOf(hs, status) BY <1>1 DEF IInv, HandlesOf, RecordsOf
<1>7. Cardinality(r) <= MaxParallel
 <2>1. IsFiniteSet(TaskId) BY FS_Interval DEF TaskId
 <2>2. IsFiniteSet(running) /\ Cardinality(running) \in Nat
   BY <2>1, FS_Subset, FS_CardinalityType DEF IInv, TypeOK
 <2>3. Cardinality(r) \in Nat /\ Cardinality(r) <= Cardinality(running)
   BY <2>2, FS_Subset, FS_CardinalityType
 <2> QED BY <2>2, <2>3 DEF IInv
<1> HIDE DEF r, ph, hs
<1>8.
  /\ running' \in SUBSET TaskId /\ handles' \in SUBSET TaskId
  /\ phase' \in [TaskId -> Phase] /\ status' \in [TaskId -> Status]
  /\ QueueOf(queue', phase') /\ SlotsOf(running', phase')
  /\ RecordsOf(status', phase', nextId') /\ HandlesOf(handles', status')
  /\ Cardinality(running') <= MaxParallel /\ NoIdleSlot'
  /\ \A u \in TaskId :
        \/ status'[u] = status[u]
        \/ (status[u] = "pending" /\ status'[u] = "running")
  /\ \A u \in TaskId :
        \/ phase'[u] = ph[u]
        \/ (ph[u] = "queued" /\ phase'[u] = "launched")
  BY <1>1, <1>2, <1>3, <1>4, <1>5, <1>6, <1>7, PumpEffect, ZenonT(40) DEF Pump
<1>9. \A u \in TaskId : ph[u] = IF u = t THEN "done" ELSE phase[u] BY DEF ph, IInv, TypeOK
<1>10. TypeOK' BY <1>1, <1>8 DEF IInv, TypeOK, QueueOf, ResolveIdle
<1>11. OrderOf(terminalOrder', status') BY <1>1, <1>8 DEF IInv, OrderOf, Terminal
<1>12. CompletionAgrees' BY <1>1, <1>8, <1>9 DEF IInv, CompletionAgrees, Terminal
<1>13. NoStrandedWaiter' BY <1>1 DEF ResolveIdle, NoStrandedWaiter
<1> QED BY <1>8, <1>10, <1>11, <1>12, <1>13 DEF IInv

\* waitForIdle()
LEMMA WaitForIdleStep ==
  ASSUME IInv, NEW w \in Waiters, WaitForIdle(w)
  PROVE IInv'
<1>1.
  /\ waiter' = [waiter EXCEPT ![w] =
                  IF queue = <<>> /\ running = {} THEN "released"
                  ELSE "waiting"]
  /\ UNCHANGED <<nextId, status, progress, handles, terminalOrder, queue,
                 running, phase, signalled, completion>>
  BY DEF WaitForIdle
<1>2. TypeOK' BY <1>1 DEF IInv, TypeOK
<1>3. NoStrandedWaiter' BY <1>1 DEF IInv, TypeOK, NoStrandedWaiter
<1> QED BY <1>1, <1>2, <1>3 DEF IInv, NoIdleSlot, CompletionAgrees

LEMMA StutterStep == IInv /\ UNCHANGED vars => IInv'
BY DEF vars, IInv, TypeOK, NoIdleSlot, CompletionAgrees, NoStrandedWaiter

LEMMA NextIInv == IInv /\ [Next]_vars => IInv'
<1> SUFFICES ASSUME IInv, [Next]_vars PROVE IInv' OBVIOUS
<1>1. CASE Submit BY <1>1, SubmitStep
<1>2. CASE SessionShutdown BY <1>2, SessionShutdownStep
<1>3. ASSUME NEW t \in TaskId, StopQueued(t) \/ StopRunning(t)
  PROVE IInv'
  BY <1>3, StopQueuedStep, StopRunningStep
<1>4. ASSUME NEW t \in TaskId, WorkStart(t) \/ WorkProgress(t) \/ WorkSettle(t)
  PROVE IInv'
  BY <1>4, WorkStep
<1>5. ASSUME NEW t \in TaskId,
    RecordResult(t) \/ RecordError(t) \/ ReleaseSlot(t)
  PROVE IInv'
  BY <1>5, RecordResultStep, RecordErrorStep, ReleaseSlotStep
<1>6. ASSUME NEW w \in Waiters, WaitForIdle(w)
  PROVE IInv'
  BY <1>6, WaitForIdleStep
<1>7. CASE UNCHANGED vars BY <1>7, StutterStep
<1> QED BY <1>1, <1>2, <1>3, <1>4, <1>5, <1>6, <1>7 DEF Next

--------------------
(* Theorems *)

\* The inductive invariant holds in every reachable state.
THEOREM Invariant == Safety => []IInv
<1> QED BY InitIInv, NextIInv, PTL DEF Safety

\* Every variable of the scheduler and its registry keeps its type.
THEOREM TypeCorrect == Safety => []TypeOK
<1>1. IInv => TypeOK BY DEF IInv
<1> QED BY <1>1, Invariant, PTL

\* Never more closures between pump() and finally() than maxParallelAgentTasks.
THEOREM SlotsBounded == Safety => []SlotBound
<1>1. IInv => SlotBound BY DEF IInv, SlotsOf, SlotBound
<1> QED BY <1>1, Invariant, PTL

\* A queued entry means that every slot is taken: each path frees and pumps.
THEOREM WorkConserved == Safety => []NoIdleSlot
<1>1. IInv => NoIdleSlot BY DEF IInv
<1> QED BY <1>1, Invariant, PTL

\* stop() reaches every live task, and no runtime handle survives the terminal
\* transition of its record.
THEOREM LiveTasksReachable == Safety => []LiveTaskStoppable
<1>1. IInv => LiveTaskStoppable
 <2>1. IInv => ToSet(queue) = {queue[i] : i \in 1..Len(queue)} BY ToSetMembers DEF IInv, QueueOf
 <2>2. IInv => handles \subseteq running BY DEF IInv, SlotsOf, RecordsOf, HandlesOf
 <2> QED BY <2>1, <2>2 DEF IInv, QueueOf, SlotsOf, RecordsOf, HandlesOf, LiveTaskStoppable
<1> QED BY <1>1, Invariant, PTL

\* The registry retains exactly the terminal records, at most MaxRetained.
THEOREM RetentionBounded == Safety => []RetentionExact
<1>1. ASSUME IInv PROVE RetentionExact
 <2>1.
   /\ terminalOrder \in Seq(TaskId) /\ Distinct(terminalOrder)
   /\ Len(terminalOrder) \in 0..Len(terminalOrder)
   BY <1>1, LenProperties DEF IInv, OrderOf
 <2>2. ToSet(terminalOrder) = {terminalOrder[i] : i \in 1..Len(terminalOrder)}
   BY <2>1, ToSetMembers
 <2>3. Cardinality(ToSet(terminalOrder)) = Len(terminalOrder)
   BY <2>1, <2>2, CountFirst, ZenonT(40)
 <2>4. ToSet(terminalOrder) = {t \in TaskId : status[t] \in Terminal}
   BY <1>1, <2>1, <2>2, ElementOfSeq DEF IInv, OrderOf
 <2> QED BY <1>1, <2>3, <2>4 DEF IInv, OrderOf, RetentionExact
<1> QED BY <1>1, Invariant, PTL

\* The completion promise and the registry tell the same story.
THEOREM CompletionsAgree == Safety => []CompletionAgrees
<1>1. IInv => CompletionAgrees BY DEF IInv
<1> QED BY <1>1, Invariant, PTL

\* Nobody waits for idle while the scheduler is idle.
THEOREM NobodyStranded == Safety => []NoStrandedWaiter
<1>1. IInv => NoStrandedWaiter BY DEF IInv
<1> QED BY <1>1, Invariant, PTL

--------------------
(* Action properties *)

\* A settled completion promise is never settled again: a queued task's is
\* open, and so is that of a chain that has not recorded its outcome.
THEOREM CompletionsSettleOnce == Safety => SettledOnce
<1>1. ASSUME IInv, [Next]_vars
  PROVE
    [\A t \in TaskId : completion[t] # "open"
                         => completion'[t] = completion[t]]_vars
 <2>1. SUFFICES ASSUME NEW t \in TaskId, completion[t] # "open", Next
   PROVE completion'[t] = completion[t]
   BY <1>1
 <2>2. phase[t] \in {"recorded", "done"} BY <1>1, <2>1 DEF IInv, CompletionAgrees
 <2>3. t \notin ToSet(queue)
  <3>1. ToSet(queue) = {queue[i] : i \in 1..Len(queue)} BY <1>1, ToSetMembers DEF IInv, QueueOf
  <3> QED BY <1>1, <2>2, <3>1 DEF IInv, QueueOf
 <2>4. completion \in [TaskId -> {"open", "pending", "rejected"} \cup Terminal]
   BY <1>1 DEF IInv, TypeOK
 <2>5. CASE Submit BY <2>5 DEF Submit
 <2>6. CASE SessionShutdown BY <2>3, <2>6 DEF SessionShutdown
 <2>7. ASSUME NEW u \in TaskId, StopQueued(u) \/ StopRunning(u)
   PROVE completion'[t] = completion[t]
  <3>1. CASE StopRunning(u) BY <3>1 DEF StopRunning
  <3>2. CASE StopQueued(u)
   <4>1. u \in ToSet(queue) BY <3>2 DEF StopQueued, ToSet
   <4> QED BY <2>3, <2>4, <3>2, <4>1 DEF StopQueued
  <3> QED BY <2>7, <3>1, <3>2
 <2>8. ASSUME NEW u \in TaskId, WorkStart(u) \/ WorkProgress(u) \/ WorkSettle(u)
   PROVE completion'[t] = completion[t]
   BY <2>8 DEF WorkStart, WorkProgress, WorkSettle
 <2>9. ASSUME NEW u \in TaskId,
     RecordResult(u) \/ RecordError(u) \/ ReleaseSlot(u)
   PROVE completion'[t] = completion[t]
   BY <2>2, <2>4, <2>9 DEF RecordResult, RecordError, ReleaseSlot
 <2>10. ASSUME NEW w \in Waiters, WaitForIdle(w)
   PROVE completion'[t] = completion[t]
   BY <2>10 DEF WaitForIdle
 <2> QED BY <2>1, <2>5, <2>6, <2>7, <2>8, <2>9, <2>10 DEF Next
<1> QED BY <1>1, Invariant, PTL DEF Safety, SettledOnce

\* A caller of waitForIdle is answered only when nothing is queued or running.
THEOREM WaitersReleasedWhenIdle == Safety => ReleasedWhenIdle
<1>1. ASSUME IInv, [Next]_vars
  PROVE
    [\A w \in Waiters :
       (waiter[w] # "released" /\ waiter'[w] = "released")
         => queue' = <<>> /\ running' = {}]_vars
 <2>1. SUFFICES ASSUME NEW w \in Waiters, Next,
     waiter[w] # "released", waiter'[w] = "released"
   PROVE queue' = <<>> /\ running' = {}
   BY <1>1
 <2>2. CASE ResolveIdle BY <2>1, <2>2 DEF ResolveIdle
 <2>3. CASE UNCHANGED waiter BY <2>1, <2>3
 <2>4. ASSUME NEW v \in Waiters, WaitForIdle(v)
   PROVE queue' = <<>> /\ running' = {}
   BY <1>1, <2>1, <2>4 DEF WaitForIdle, IInv, TypeOK
 <2> QED
   BY <2>1, <2>2, <2>3, <2>4 DEF Next, Submit, SessionShutdown, StopQueued, StopRunning,
     WorkStart, WorkProgress, WorkSettle, RecordResult, RecordError, ReleaseSlot
<1> QED BY <1>1, Invariant, PTL DEF Safety, ReleasedWhenIdle

\* A terminal record is never changed again except by being pruned.
THEOREM TerminalRecordsFrozen == Safety => TerminalFrozen
<1>1. ASSUME IInv, [Next]_vars
  PROVE
    [\A t \in TaskId : status[t] \in Terminal \cup {"gone"} =>
       /\ status'[t] \in {status[t], "gone"}
       /\ progress'[t] = progress[t]]_vars
 <2>1. SUFFICES ASSUME NEW t \in TaskId, Next,
     status[t] \in Terminal \cup {"gone"}
   PROVE /\ status'[t] \in {status[t], "gone"} /\ progress'[t] = progress[t]
   BY <1>1
 <2>2. status[t] \notin Live /\ status[t] # "unregistered" BY <2>1 DEF Live, Terminal
 <2>3. status \in [TaskId -> Status] /\ progress \in [TaskId -> 0..MaxProgress]
   BY <1>1 DEF IInv, TypeOK
 <2>4. ASSUME NEW u \in TaskId, NEW st \in Terminal, Finish(u, st)
   PROVE status'[t] \in {status[t], "gone"}
  <3>1.
    /\ status[u] \notin Live => status'[u] = status[u]
    /\ \A v \in TaskId \ {u} :
         \/ status'[v] = status[v]
         \/ (status[v] \in Terminal /\ status'[v] = "gone")
    BY <1>1, <2>3, <2>4, FinishEffect DEF IInv
  <3> QED BY <2>2, <3>1
 <2>5. CASE Submit
  <3>1. nextId # t BY <1>1, <2>2, <2>5 DEF Submit, IInv, RecordsOf, TaskId, TypeOK
  <3> QED BY <2>2, <2>3, <2>5, <3>1 DEF Submit, Pump, Live
 <2>6. CASE SessionShutdown BY <2>2, <2>6 DEF SessionShutdown, FinishAll, ToSet
 <2>7. ASSUME NEW u \in TaskId, StopQueued(u) \/ StopRunning(u)
   PROVE /\ status'[t] \in {status[t], "gone"} /\ progress'[t] = progress[t]
   BY <2>4, <2>7 DEF StopQueued, StopRunning, Terminal
 <2>8. ASSUME NEW u \in TaskId, WorkStart(u) \/ WorkProgress(u) \/ WorkSettle(u)
   PROVE /\ status'[t] \in {status[t], "gone"} /\ progress'[t] = progress[t]
   BY <2>2, <2>3, <2>8 DEF WorkStart, WorkProgress, WorkSettle
 <2>9. ASSUME NEW u \in TaskId, RecordResult(u) \/ RecordError(u)
   PROVE /\ status'[t] \in {status[t], "gone"} /\ progress'[t] = progress[t]
  <3>1. CASE RecordError(u) BY <2>4, <3>1 DEF RecordError, Terminal
  <3>2. CASE RecordResult(u) /\ u \in signalled
    BY <2>4, <3>2 DEF RecordResult, Terminal, Finish, FinishAll, registryVars
  <3>3. CASE RecordResult(u) /\ u \notin signalled
    BY <2>4, <3>3 DEF RecordResult, Terminal, Finish, FinishAll, registryVars
  <3> QED BY <2>9, <3>1, <3>2, <3>3
 <2>10. ASSUME NEW u \in TaskId, ReleaseSlot(u)
   PROVE /\ status'[t] \in {status[t], "gone"} /\ progress'[t] = progress[t]
   BY <2>2, <2>10 DEF ReleaseSlot, Pump, Live
 <2>11. ASSUME NEW w \in Waiters, WaitForIdle(w)
   PROVE /\ status'[t] \in {status[t], "gone"} /\ progress'[t] = progress[t]
   BY <2>11 DEF WaitForIdle
 <2> QED BY <2>1, <2>5, <2>6, <2>7, <2>8, <2>9, <2>10, <2>11 DEF Next
<1> QED BY <1>1, Invariant, PTL DEF Safety, TerminalFrozen

====
