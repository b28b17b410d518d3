---- MODULE AgentLoopProofs ----
(***************************************************************************)
(* Safety of AgentLoop for every set of tools, every bound on turns, calls *)
(* and answers, and every width of a batch.  IInv says where each call of  *)
(* the current answer is: not decided yet, approved, looked up, in the     *)
(* running batch, or answered, and in exactly one of these places.  After  *)
(* it, what the permission pass of the loop asks: Permissions, for         *)
(* commands of any length and any number of rules.  Last, what the loop's  *)
(* FileEdit makes of a text, and what it shows of it: TextEdits, for texts *)
(* and pieces of any length.                                               *)
(***************************************************************************)
EXTENDS AgentLoop, Permissions, TextEdits, SequenceLemmas

\* TypeOK in groups that change together.
AbortType == aborted \in BOOLEAN

RequestTypes ==
  /\ consumer \in Consumer
  /\ pc \in {"top", "streaming", "retrying", "deciding", "asking", "executing",
             "done"}
  /\ reason \in {"none", "max_turns", "aborted", "error", "completed"} /\ turn \in 0..MaxTurns
  /\ requests \in 0..(2 * MaxTurns)

GuardTypes ==
  /\ history \in Seq(Tools) /\ Len(history) <= HistoryLimit
  /\ dedup \in [last: {<<>>} \cup {<<c>> : c \in Call}, count: 0..MaxCalls]

AnswerTypes ==
  /\ calls \in Seq(Call) /\ Len(calls) \in 0..MaxAnswer /\ spent \in 0..MaxCalls
  /\ spent + Len(calls) <= MaxCalls /\ decided \in 0..Len(calls)

PlaceTypes ==
  /\ approved \in Seq(CallId) /\ todo \in Seq(CallId) /\ batch \in Seq(CallId)
  /\ results \in Seq(CallId)

StageTypes ==
  /\ verdict \in [CallId -> {"none", "allow", "ask"}] /\ consent \in SUBSET CallId
  /\ stage \in [CallId -> Stage] /\ ran \in SUBSET CallId

\* At most two requests a turn, and the count of repetitions counts calls.
Counted ==
  /\ requests <= 2 * turn
  /\ pc = "streaming" => requests < 2 * turn
  /\ dedup.count <= spent + decided + (IF pc = "asking" THEN 1 ELSE 0)

\* Every decided block is in one place, and they are taken in order.
Placed ==
  /\ Rising(approved) /\ Rising(todo) /\ Rising(batch) /\ Distinct(results)
  /\ 1..decided = ToSet(approved) \cup ToSet(todo) \cup ToSet(batch) \cup ToSet(results)
  /\ ToSet(results) \cap (ToSet(approved) \cup ToSet(todo) \cup ToSet(batch)) = {}
  /\ \A x \in ToSet(approved), y \in ToSet(todo) : y < x

\* Which of the places are in use at which await.
PlacesByPc ==
  /\ pc \in {"deciding", "asking"} => /\ batch = <<>> /\ ran = {}
                                      /\ \A i \in CallId : stage[i] = "idle"
  /\ pc = "asking" => decided < Len(calls) /\ verdict[decided + 1] = "ask"
  /\ pc \in {"deciding", "asking"} /\ decided < Len(calls) => todo = <<>>
  /\ pc \notin {"deciding", "asking"} => approved = <<>> /\ decided = Len(calls)
  /\ pc \notin {"deciding", "asking", "executing"} => todo = <<>> /\ batch = <<>>

\* What executeSingle does with the calls of the batch, those before and after.
Staged ==
  /\ \A i \in CallId : i \notin ToSet(batch) => stage[i] \in {"idle", "settled"}
  /\ \A i \in ToSet(batch) \cup ran : stage[i] # "idle"
  /\ \A i \in ToSet(todo), j \in CallId : stage[j] # "idle" => j < i
  /\ \A i \in ToSet(batch), j \in CallId \ ToSet(batch) : stage[j] # "idle" => j < i
  /\ \A i, j \in ToSet(batch) : i # j => Safe(i) /\ Safe(j)

Consented ==
  \A i \in ToSet(approved) \cup ToSet(todo) \cup ToSet(batch) \cup ran :
    verdict[i] = "allow" \/ (verdict[i] = "ask" /\ i \in consent)

IInv ==
  /\ AbortType /\ RequestTypes /\ GuardTypes /\ AnswerTypes /\ PlaceTypes /\ StageTypes
  /\ Counted /\ Placed /\ PlacesByPc /\ Staged /\ Consented

USE ToolsAssumption, BoundsAssumption

LEMMA TypesInv == IInv => TypeOK
BY DEF IInv, TypeOK, AbortType, RequestTypes, GuardTypes, AnswerTypes, PlaceTypes, StageTypes

--------------------
(* Requests *)

LEMMA InitInv == Init => IInv
<1> SUFFICES ASSUME Init PROVE IInv OBVIOUS
<1>1.
  /\ <<>> \in Seq(Tools) /\ <<>> \in Seq(Call) /\ <<>> \in Seq(CallId)
  /\ ToSet(<<>>) = {} /\ Rising(<<>>) /\ Distinct(<<>>) /\ Len(<<>>) = 0
  BY NoMembers, EmptySeq
<1>0. AbortType BY DEF Init, AbortType
<1>2. RequestTypes BY DEF Init, RequestTypes
<1>3. GuardTypes /\ AnswerTypes /\ PlaceTypes
  BY <1>1 DEF Init, GuardTypes, AnswerTypes, PlaceTypes
<1>4. StageTypes BY DEF Init, StageTypes, Stage
<1>5. Counted BY <1>1 DEF Init, Counted
<1>6. Placed BY <1>1 DEF Init, Placed
<1>7. PlacesByPc /\ Staged /\ Consented BY <1>1 DEF Init, PlacesByPc, Staged, Consented
<1> QED BY <1>0, <1>2, <1>3, <1>4, <1>5, <1>6, <1>7 DEF IInv

\* Sending, failing and giving up leave the calls where they are: all answered.
LEMMA RequestStep ==
  ASSUME IInv, Top \/ StreamFails \/ RetryFails \/ OverBudget \/ AppendResults \/ Abort
  PROVE IInv'
<1>1.
  UNCHANGED <<consumer, history, dedup, calls, spent, decided, verdict, consent,
              approved, todo, batch, stage, ran, results>>
  BY DEF Top, StreamFails, RetryFails, OverBudget, AppendResults, Abort, guards, answer, passed,
    exec
<1>2. AbortType'
  BY DEF IInv, AbortType, Top, StreamFails, RetryFails, OverBudget, AppendResults, Abort
<1>3. RequestTypes'
  BY DEF IInv, RequestTypes, Counted, Top, StreamFails, RetryFails, OverBudget, AppendResults,
    Abort, Done
<1>4. Counted'
  BY <1>1 DEF IInv, RequestTypes, Counted, Top, StreamFails, RetryFails, OverBudget,
    AppendResults, Abort, Done
<1>5.
  /\ GuardTypes' /\ AnswerTypes' /\ PlaceTypes' /\ StageTypes'
  /\ Placed' /\ Staged' /\ Consented'
  BY <1>1 DEF IInv, GuardTypes, AnswerTypes, PlaceTypes, StageTypes, Placed, Staged, Consented,
    Safe
<1>6. PlacesByPc'
  BY <1>1 DEF IInv, PlacesByPc, Top, StreamFails, RetryFails, OverBudget, AppendResults, Abort,
    Done
<1> QED BY <1>2, <1>3, <1>4, <1>5, <1>6 DEF IInv

\* A new answer starts with nothing decided.
LEMMA AnswerStep ==
  ASSUME IInv, Answer
  PROVE IInv'
<1>1.
  PICK n \in 0..MaxAnswer : \E answered \in [1..n -> Call] :
      /\ spent + Len(calls) + n <= MaxCalls /\ NewTurn(answered)
      /\ IF n = 0 THEN Done("completed")
         ELSE pc' = "deciding" /\ UNCHANGED reason
  BY DEF Answer
<1>2.
  PICK answered \in [1..n -> Call] :
      /\ spent + Len(calls) + n <= MaxCalls /\ NewTurn(answered)
      /\ IF n = 0 THEN Done("completed")
         ELSE pc' = "deciding" /\ UNCHANGED reason
  BY <1>1
<1>3. answered \in Seq(Call) /\ Len(answered) = n
 <2>1. answered \in Seq(Call) BY SeqDef
 <2>2. DOMAIN answered = 1..n /\ DOMAIN answered = 1..Len(answered) /\ Len(answered) \in Nat
   BY <2>1, LenProperties
 <2> QED BY <2>1, <2>2
<1>4.
  /\ calls' = answered /\ spent' = spent + Len(calls) /\ decided' = 0
  /\ approved' = <<>> /\ todo' = <<>> /\ batch' = <<>> /\ results' = <<>>
  /\ consent' = {} /\ ran' = {} /\ verdict' = [i \in CallId |-> "none"]
  /\ stage' = [i \in CallId |-> "idle"]
  BY <1>2 DEF NewTurn
<1>5. UNCHANGED <<consumer, turn, requests, aborted, history, dedup>> BY DEF Answer, guards
<1>6. /\ <<>> \in Seq(CallId) /\ ToSet(<<>>) = {} /\ Rising(<<>>) /\ Distinct(<<>>) BY NoMembers
<1>7.
  \/ pc' = "deciding" /\ reason' = reason
  \/ pc' = "done" /\ reason' = "completed" /\ n = 0
  BY <1>2 DEF Done
<1>8. AbortType' BY <1>5 DEF IInv, AbortType
<1>9. RequestTypes' /\ GuardTypes' BY <1>5, <1>7 DEF IInv, RequestTypes, GuardTypes
<1>10. AnswerTypes' BY <1>2, <1>3, <1>4 DEF IInv, AnswerTypes
<1>11. PlaceTypes' BY <1>4, <1>6 DEF PlaceTypes
<1>12. StageTypes' BY <1>4 DEF StageTypes, Stage
<1>13. Counted'
 <2>1. pc \in {"streaming", "retrying"} BY DEF Answer
 <2> QED BY <1>4, <1>5, <1>7, <2>1 DEF IInv, Counted, AnswerTypes, GuardTypes
<1>14. Placed' BY <1>4, <1>6 DEF Placed
<1>15. PlacesByPc' /\ Staged' /\ Consented'
  BY <1>3, <1>4, <1>6, <1>7 DEF PlacesByPc, Staged, Consented
<1> QED BY <1>8, <1>9, <1>10, <1>11, <1>12, <1>13, <1>14, <1>15 DEF IInv

--------------------
(* The permission pass *)

\* The block that is decided is a call of the answer and in no place yet.
LEMMA BlockIsNew ==
  ASSUME IInv, decided < Len(calls)
  PROVE
    /\ Block \in CallId /\ Block \in 1..Len(calls) /\ calls[Block] \in Call
    /\ \A x \in ToSet(approved) \cup ToSet(todo) \cup ToSet(batch) \cup ToSet(results) :
         x \in Nat /\ x < Block
<1>1. decided \in Nat /\ Len(calls) \in Nat /\ Len(calls) <= MaxAnswer BY DEF IInv, AnswerTypes
<1>2. Block \in CallId /\ Block \in 1..Len(calls) BY <1>1 DEF Block, CallId
<1>3. calls[Block] \in Call BY <1>2, ElementOfSeq DEF IInv, AnswerTypes
<1>4. \A x \in 1..decided : x \in Nat /\ x < Block BY <1>1 DEF Block
<1> QED BY <1>2, <1>3, <1>4 DEF IInv, Placed

LEMMA RefuseEffect ==
  ASSUME IInv, pc \in {"deciding", "asking"}, decided < Len(calls), Refuse,
    pc' = "deciding",
    UNCHANGED <<calls, spent, verdict, consent, todo, batch, stage, ran>>
  PROVE
    /\ AnswerTypes' /\ PlaceTypes' /\ StageTypes'
    /\ Placed' /\ PlacesByPc' /\ Staged' /\ Consented'
<1>1.
  /\ decided' = Block /\ results' = Append(results, Block) /\ approved' = approved
  /\ decided \in Nat /\ Block = decided + 1
  BY DEF Refuse, IInv, AnswerTypes, Block
<1>2.
  /\ Block \in CallId /\ Block \in 1..Len(calls)
  /\ \A x \in ToSet(approved) \cup ToSet(todo) \cup ToSet(batch) \cup ToSet(results) :
       x \in Nat /\ x < Block
  BY BlockIsNew
<1>3. Block \notin ToSet(approved) \cup ToSet(todo) \cup ToSet(batch) \cup ToSet(results)
  BY <1>2
<1>4.
  /\ results' \in Seq(CallId) /\ ToSet(results') = ToSet(results) \cup {Block}
  /\ Distinct(results')
  BY <1>1, <1>2, <1>3, AppendMember DEF IInv, PlaceTypes, Placed
<1>5. AnswerTypes' BY <1>1, <1>2 DEF IInv, AnswerTypes
<1>6. PlaceTypes' /\ StageTypes' BY <1>1, <1>4 DEF IInv, PlaceTypes, StageTypes
<1>7. Placed'
 <2>1. 1..Block = (1..decided) \cup {Block} BY <1>1
 <2> QED BY <1>1, <1>3, <1>4, <2>1 DEF IInv, Placed
<1>8. PlacesByPc' /\ Staged' /\ Consented' BY <1>1 DEF IInv, PlacesByPc, Staged, Consented, Safe
<1> QED BY <1>5, <1>6, <1>7, <1>8

LEMMA ApproveEffect ==
  ASSUME IInv, pc \in {"deciding", "asking"}, decided < Len(calls), Approve,
    pc' = "deciding",
    UNCHANGED <<calls, spent, todo, batch, stage, ran>>,
    verdict' \in [CallId -> {"none", "allow", "ask"}],
    \A i \in CallId : i # Block => verdict'[i] = verdict[i],
    consent' \in SUBSET CallId, consent \subseteq consent',
    verdict'[Block] = "allow" \/ (verdict'[Block] = "ask" /\ Block \in consent')
  PROVE
    /\ AnswerTypes' /\ PlaceTypes' /\ StageTypes'
    /\ Placed' /\ PlacesByPc' /\ Staged' /\ Consented'
<1>1.
  /\ decided' = Block /\ approved' = Append(approved, Block) /\ results' = results
  /\ decided \in Nat /\ Block = decided + 1
  BY DEF Approve, IInv, AnswerTypes, Block
<1>2.
  /\ Block \in CallId /\ Block \in 1..Len(calls)
  /\ \A x \in ToSet(approved) \cup ToSet(todo) \cup ToSet(batch) \cup ToSet(results) :
       x \in Nat /\ x < Block
  BY BlockIsNew
<1>3. Block \notin ToSet(approved) \cup ToSet(todo) \cup ToSet(batch) \cup ToSet(results)
  BY <1>2
<1>4.
  /\ approved' \in Seq(CallId) /\ ToSet(approved') = ToSet(approved) \cup {Block}
  /\ Rising(approved')
  BY <1>1, <1>2, <1>3, AppendMember DEF IInv, PlaceTypes, Placed
<1>5. AnswerTypes' BY <1>1, <1>2 DEF IInv, AnswerTypes
<1>6. PlaceTypes' /\ StageTypes' BY <1>1, <1>4 DEF IInv, PlaceTypes, StageTypes
<1>7. todo = <<>> /\ batch = <<>> /\ ran = {} /\ ToSet(<<>>) = {}
  BY NoMembers DEF IInv, PlacesByPc
<1>8. Placed'
 <2>1. 1..Block = (1..decided) \cup {Block} BY <1>1
 <2> QED BY <1>1, <1>3, <1>4, <1>7, <2>1 DEF IInv, Placed
<1>9. PlacesByPc' /\ Staged' BY <1>1, <1>7 DEF IInv, PlacesByPc, Staged, Safe
<1>10. Consented'
 <2>1. ToSet(approved) \subseteq CallId BY ToSetMembers DEF IInv, PlaceTypes
 <2> QED BY <1>1, <1>3, <1>4, <1>7, <2>1 DEF IInv, Consented
<1> QED BY <1>5, <1>6, <1>8, <1>9, <1>10

\* The history stays a history, and the count grows by one or starts anew.
LEMMA GuardsEffect ==
  ASSUME IInv, NEW c \in Call
  PROVE
    /\ Remember(history, c.tool) \in Seq(Tools)
    /\ Len(Remember(history, c.tool)) <= HistoryLimit /\ Repeat(dedup, c).last = <<c>>
    /\ Repeat(dedup, c) \in [last: {<<>>} \cup {<<d>> : d \in Call}, count: Nat]
    /\ Repeat(dedup, c).count \in 1..(dedup.count + 1)
<1> DEFINE longer == Append(history, c.tool)
  first == IF Len(longer) > HistoryLimit THEN Len(longer) - HistoryLimit + 1 ELSE 1
<1>1. c.tool \in Tools BY DEF Call
<1>2. longer \in Seq(Tools) /\ Len(longer) \in Nat
  BY <1>1, AppendProperties, LenProperties DEF IInv, GuardTypes
<1>3. Remember(history, c.tool) = SubSeq(longer, first, Len(longer)) BY DEF Remember
<1> HIDE DEF longer
<1>4. first \in Int /\ first >= 1 /\ Len(longer) - first + 1 <= HistoryLimit BY <1>2
<1> HIDE DEF first
<1>5. \A i \in first..Len(longer) : longer[i] \in Tools
 <2>1. \A i \in first..Len(longer) : i \in 1..Len(longer) BY <1>2, <1>4
 <2> QED BY <1>2, <2>1, ElementOfSeq
<1>6.
  /\ SubSeq(longer, first, Len(longer)) \in Seq(Tools)
  /\ Len(SubSeq(longer, first, Len(longer)))
       = IF first <= Len(longer) THEN Len(longer) - first + 1 ELSE 0
  BY <1>2, <1>4, <1>5, SubSeqProperties
<1>7. Len(Remember(history, c.tool)) <= HistoryLimit BY <1>2, <1>3, <1>4, <1>6
<1>8. dedup \in [last: {<<>>} \cup {<<d>> : d \in Call}, count: 0..MaxCalls]
  BY DEF IInv, GuardTypes
<1>9.
  /\ Repeat(dedup, c).last = <<c>>
  /\ Repeat(dedup, c) \in [last: {<<>>} \cup {<<d>> : d \in Call}, count: Nat]
  /\ Repeat(dedup, c).count \in 1..(dedup.count + 1)
  BY <1>8 DEF Repeat
<1> QED BY <1>3, <1>6, <1>7, <1>9

\* A block through the guards and the permission engine.
LEMMA DecideStep ==
  ASSUME IInv, Decide
  PROVE IInv'
<1>1.
  /\ pc = "deciding" /\ decided < Len(calls)
  /\ UNCHANGED <<consumer, reason, turn, requests, aborted, calls, spent, consent,
                 todo, batch, stage, ran>>
  BY DEF Decide, answer, exec
<1>2.
  /\ Block \in CallId /\ Block \in 1..Len(calls) /\ calls[Block] \in Call
  /\ decided \in Nat /\ Block = decided + 1
  BY <1>1, BlockIsNew DEF IInv, AnswerTypes, Block
<1>3. /\ history' \in Seq(Tools) /\ Len(history') <= HistoryLimit
  BY <1>2, GuardsEffect DEF Decide
<1>4. dedup' = dedup \/ dedup' = Repeat(dedup, calls[Block]) BY DEF Decide
<1>5.
  /\ dedup' \in [last: {<<>>} \cup {<<d>> : d \in Call}, count: Nat]
  /\ dedup'.count <= spent + Block
 <2>1. dedup.count \in Nat /\ dedup.count <= spent + decided /\ spent \in Nat
   BY <1>1 DEF IInv, Counted, GuardTypes, AnswerTypes
 <2>2. CASE dedup' = dedup BY <1>2, <2>1, <2>2 DEF IInv, GuardTypes
 <2>3. CASE dedup' = Repeat(dedup, calls[Block]) BY <1>2, <2>1, <2>3, GuardsEffect
 <2> QED BY <1>4, <2>2, <2>3
<1>6. GuardTypes'
 <2>1. spent \in Nat /\ Len(calls) \in Nat /\ spent + Len(calls) <= MaxCalls
   BY DEF IInv, AnswerTypes
 <2>2. dedup'.count \in 0..MaxCalls BY <1>2, <1>5, <2>1
 <2> QED BY <1>3, <1>5, <2>2 DEF GuardTypes
<1>7. AbortType' BY <1>1 DEF IInv, AbortType
<1>8. pc' \in {"deciding", "asking"} BY <1>1 DEF Decide
<1>9. RequestTypes' BY <1>1, <1>8 DEF IInv, RequestTypes
<1>10.
  \/ Refuse /\ UNCHANGED <<pc, verdict>>
  \/ Approve /\ UNCHANGED pc /\ verdict' = [verdict EXCEPT ![Block] = "allow"]
  \/ /\ pc' = "asking" /\ verdict' = [verdict EXCEPT ![Block] = "ask"]
     /\ UNCHANGED <<decided, approved, results>>
  BY DEF Decide
<1>11. ASSUME
    \/ pc' = "deciding" /\ decided' = Block
    \/ pc' = "asking" /\ decided' = decided
  PROVE Counted'
 <2>1. requests' <= 2 * turn' /\ pc' # "streaming" BY <1>1, <1>8 DEF IInv, Counted
 <2>2. spent \in Nat /\ dedup'.count \in Nat /\ dedup'.count <= spent + Block
   BY <1>5 DEF IInv, AnswerTypes
 <2>3. dedup'.count <= spent' + decided' + (IF pc' = "asking" THEN 1 ELSE 0)
   BY <1>1, <1>2, <1>11, <2>2
 <2> QED BY <2>1, <2>3 DEF Counted
<1>12. CASE Refuse /\ UNCHANGED <<pc, verdict>>
 <2>1. Counted' BY <1>1, <1>12, <1>11 DEF Refuse
 <2>2.
   /\ AnswerTypes' /\ PlaceTypes' /\ StageTypes'
   /\ Placed' /\ PlacesByPc' /\ Staged' /\ Consented'
   BY <1>1, <1>12, RefuseEffect
 <2> QED BY <1>6, <1>7, <1>9, <2>1, <2>2 DEF IInv
<1>13. CASE Approve /\ UNCHANGED pc /\ verdict' = [verdict EXCEPT ![Block] = "allow"]
 <2>1. Counted' BY <1>1, <1>13, <1>11 DEF Approve
 <2>2.
   /\ verdict' \in [CallId -> {"none", "allow", "ask"}]
   /\ \A i \in CallId : i # Block => verdict'[i] = verdict[i]
   /\ verdict'[Block] = "allow" /\ consent' \in SUBSET CallId /\ consent \subseteq consent'
   BY <1>1, <1>2, <1>13 DEF IInv, StageTypes
 <2>3.
   /\ AnswerTypes' /\ PlaceTypes' /\ StageTypes'
   /\ Placed' /\ PlacesByPc' /\ Staged' /\ Consented'
   BY <1>1, <1>13, <2>2, ApproveEffect
 <2> QED BY <1>6, <1>7, <1>9, <2>1, <2>3 DEF IInv
<1>14.
  CASE /\ pc' = "asking" /\ verdict' = [verdict EXCEPT ![Block] = "ask"]
       /\ UNCHANGED <<decided, approved, results>>
 <2>1. Counted' BY <1>14, <1>11
 <2>2.
   /\ verdict' \in [CallId -> {"none", "allow", "ask"}]
   /\ \A i \in CallId : i # Block => verdict'[i] = verdict[i]
   /\ verdict'[Block] = "ask"
   BY <1>2, <1>14 DEF IInv, StageTypes
 <2>3. AnswerTypes' /\ PlaceTypes' /\ StageTypes' /\ Placed'
   BY <1>1, <1>14, <2>2 DEF IInv, AnswerTypes, PlaceTypes, StageTypes, Placed
 <2>4. PlacesByPc' /\ Staged' BY <1>1, <1>2, <1>14, <2>2 DEF IInv, PlacesByPc, Staged, Safe
 <2>5. Consented'
  <3>1. \A x \in ToSet(approved) \cup ToSet(todo) \cup ToSet(batch) \cup ran :
          x \in CallId /\ x # Block
   <4>1. ran = {} BY <1>1 DEF IInv, PlacesByPc
   <4>2. \A x \in ToSet(approved) \cup ToSet(todo) \cup ToSet(batch) : x \in CallId
     BY ToSetMembers DEF IInv, PlaceTypes
   <4> QED BY <1>1, <1>2, <4>1, <4>2, BlockIsNew
  <3> QED BY <1>1, <1>14, <2>2, <3>1 DEF IInv, Consented
 <2> QED BY <1>6, <1>7, <1>9, <2>1, <2>3, <2>4, <2>5 DEF IInv
<1> QED BY <1>10, <1>12, <1>13, <1>14

\* The prompt is answered, or denied by its timer.
LEMMA PromptStep ==
  ASSUME IInv, UserAnswers \/ AutoDeny
  PROVE IInv'
<1>1.
  /\ pc = "asking" /\ pc' = "deciding"
  /\ UNCHANGED <<consumer, reason, turn, requests, aborted, history, dedup, calls,
                 spent, verdict, todo, batch, stage, ran>>
  /\ \/ Approve /\ consent' = consent \cup {Block}
     \/ Refuse /\ UNCHANGED consent
  BY DEF UserAnswers, AutoDeny, guards, answer, exec
<1>2. decided < Len(calls) /\ verdict[Block] = "ask" BY <1>1 DEF IInv, PlacesByPc, Block
<1>3. decided \in Nat /\ decided' = decided + 1
  BY <1>1 DEF IInv, AnswerTypes, Approve, Refuse, Block
<1>4. AbortType' /\ RequestTypes' /\ GuardTypes'
  BY <1>1 DEF IInv, AbortType, RequestTypes, GuardTypes
<1>5. Counted' BY <1>1, <1>3 DEF IInv, Counted, GuardTypes, AnswerTypes
<1>6. CASE Refuse /\ UNCHANGED consent
 <2>1.
   /\ AnswerTypes' /\ PlaceTypes' /\ StageTypes'
   /\ Placed' /\ PlacesByPc' /\ Staged' /\ Consented'
   BY <1>1, <1>2, <1>6, RefuseEffect
 <2> QED BY <1>4, <1>5, <2>1 DEF IInv
<1>7. CASE Approve /\ consent' = consent \cup {Block}
 <2>1.
   /\ verdict' \in [CallId -> {"none", "allow", "ask"}]
   /\ \A i \in CallId : i # Block => verdict'[i] = verdict[i]
   /\ verdict'[Block] = "ask" /\ Block \in consent'
   /\ consent' \in SUBSET CallId /\ consent \subseteq consent'
   BY <1>1, <1>2, <1>7, BlockIsNew DEF IInv, StageTypes
 <2>2.
   /\ AnswerTypes' /\ PlaceTypes' /\ StageTypes'
   /\ Placed' /\ PlacesByPc' /\ Staged' /\ Consented'
   BY <1>1, <1>2, <1>7, <2>1, ApproveEffect
 <2> QED BY <1>4, <1>5, <2>2 DEF IInv
<1> QED BY <1>1, <1>6, <1>7

--------------------
(* runToolCalls *)

\* The approved calls are looked up in turn.
LEMMA ResolveStep ==
  ASSUME IInv, Resolve
  PROVE IInv'
<1>1.
  /\ pc = "deciding" /\ decided = Len(calls)
  /\ UNCHANGED <<consumer, reason, turn, requests, aborted, history, dedup, calls,
                 spent, decided, verdict, consent, batch, stage, ran>>
  BY DEF Resolve, guards, answer
<1>2. batch = <<>> /\ ran = {} /\ \A i \in CallId : stage[i] = "idle"
  BY <1>1 DEF IInv, PlacesByPc
<1>3. AbortType' /\ GuardTypes' /\ AnswerTypes' /\ StageTypes'
  BY <1>1 DEF IInv, AbortType, GuardTypes, AnswerTypes, StageTypes
<1>4. ToSet(<<>>) = {} BY NoMembers
<1>5.
  CASE /\ approved = <<>> /\ pc' = "executing"
       /\ UNCHANGED <<approved, todo, results>>
 <2>1. RequestTypes' /\ Counted' BY <1>1, <1>5 DEF IInv, RequestTypes, Counted
 <2>2. PlaceTypes' /\ Placed' /\ PlacesByPc' /\ Staged' /\ Consented'
   BY <1>1, <1>2, <1>5 DEF IInv, PlaceTypes, Placed, PlacesByPc, Staged, Consented, Safe
 <2> QED BY <1>3, <2>1, <2>2 DEF IInv
<1>6.
  CASE /\ approved # <<>> /\ approved' = Tail(approved) /\ pc' = pc
       /\ \/ todo' = Append(todo, Head(approved)) /\ UNCHANGED results
          \/ results' = Append(results, Head(approved)) /\ UNCHANGED todo
 <2> DEFINE h == Head(approved)
 <2>1. RequestTypes' /\ Counted' BY <1>1, <1>6 DEF IInv, RequestTypes, Counted
 <2>2. CallId \in SUBSET Nat BY DEF CallId
 <2>3.
   /\ h \in CallId /\ approved' \in Seq(CallId)
   /\ ToSet(approved) = {h} \cup ToSet(approved') /\ Rising(approved')
   /\ \A y \in ToSet(approved') : h < y
   BY <1>6, <2>2, HeadRising DEF IInv, PlaceTypes, Placed
 <2> HIDE DEF h
 <2>4.
   /\ ToSet(todo) \subseteq CallId /\ ToSet(approved') \subseteq CallId
   /\ \A y \in ToSet(todo) : y < h
   BY <2>3, ToSetMembers DEF IInv, PlaceTypes, Placed
 <2>5. PlacesByPc' BY <1>1, <1>2, <1>6 DEF IInv, PlacesByPc
 <2>6. CASE todo' = Append(todo, h) /\ UNCHANGED results
  <3>1. /\ todo' \in Seq(CallId) /\ ToSet(todo') = ToSet(todo) \cup {h} /\ Rising(todo')
    BY <2>3, <2>4, <2>6, AppendMember DEF IInv, PlaceTypes, Placed
  <3>2. PlaceTypes' BY <1>1, <2>3, <2>6, <3>1 DEF IInv, PlaceTypes
  <3>3. \A x \in ToSet(approved'), y \in ToSet(todo') : y < x
    BY <2>3, <2>4, <3>1 DEF IInv, Placed
  <3>4. Placed' BY <1>1, <2>3, <2>6, <3>1, <3>3 DEF IInv, Placed
  <3>5. Staged' /\ Consented' BY <1>1, <1>2, <1>4, <2>3, <3>1 DEF IInv, Staged, Consented, Safe
  <3> QED BY <1>3, <2>1, <2>5, <3>2, <3>4, <3>5 DEF IInv
 <2>7. CASE results' = Append(results, h) /\ UNCHANGED todo
  <3>1. h \in ToSet(approved) /\ h \notin ToSet(results) BY <2>3 DEF IInv, Placed
  <3>2. /\ results' \in Seq(CallId) /\ ToSet(results') = ToSet(results) \cup {h}
        /\ Distinct(results')
    BY <2>3, <2>7, <3>1, AppendMember DEF IInv, PlaceTypes, Placed
  <3>3. PlaceTypes' BY <1>1, <2>3, <2>7, <3>2 DEF IInv, PlaceTypes
  <3>4. h \notin ToSet(approved') \cup ToSet(todo) \cup ToSet(batch)
    BY <1>2, <1>4, <2>2, <2>3, <2>4
  <3>5. Placed' BY <1>1, <2>3, <2>7, <3>2, <3>4 DEF IInv, Placed
  <3>6. Staged' /\ Consented' BY <1>1, <1>2, <1>4, <2>3, <2>7 DEF IInv, Staged, Consented, Safe
  <3> QED BY <1>3, <2>1, <2>5, <3>3, <3>5, <3>6 DEF IInv
 <2> QED BY <1>6, <2>6, <2>7 DEF h
<1> QED BY <1>1, <1>5, <1>6 DEF Resolve

\* A batch is the first calls that are left: one, or several safe ones.
LEMMA NextBatchEffect ==
  ASSUME NEW s \in Seq(CallId), s # <<>>
  PROVE
    \E k \in 1..Len(s) : /\ NextBatch(s) = SubSeq(s, 1, k)
                         /\ k = 1 \/ \A i \in 1..k : Safe(s[i])
<1> DEFINE
  P == {n \in 1..Len(s) : /\ n <= MaxConcurrency
                          /\ \A k \in 1..n : Safe(s[k])}
  c == Cardinality(P)
<1>1. Len(s) \in Nat \ {0} BY EmptySeq
<1>2. NextBatch(s) = IF P = {} THEN SubSeq(s, 1, 1) ELSE SubSeq(s, 1, c) BY DEF NextBatch
<1>3. CASE P = {} BY <1>1, <1>2, <1>3
<1>4. CASE P # {}
 <2>1. IsFiniteSet(1..Len(s)) /\ Cardinality(1..Len(s)) = Len(s) /\ P \subseteq 1..Len(s)
   BY <1>1, FS_Interval
 <2>2. IsFiniteSet(P) /\ c \in Nat /\ c <= Len(s) BY <2>1, FS_Subset, FS_CardinalityType
 <2>3. c # 0 BY <1>4, <2>2, FS_EmptySet
 <2>4. c \in P
  <3>1. SUFFICES ASSUME c \notin P
    PROVE FALSE
    OBVIOUS
  <3>2. \A n \in P : n <= c - 1
   <4>1. SUFFICES ASSUME NEW n \in P, n >= c
     PROVE FALSE
     BY <1>1, <2>2
   <4>2. n \in Nat /\ n <= Len(s) /\ n <= MaxConcurrency /\ \A k \in 1..n : Safe(s[k])
     BY <1>1, <4>1
   <4> HIDE DEF P, c
   <4>3. c \in 1..Len(s) /\ c <= MaxConcurrency BY <1>1, <2>2, <2>3, <4>1, <4>2
   <4>4. \A k \in 1..c : Safe(s[k]) BY <2>2, <4>1, <4>2
   <4>5. c \in P BY <4>3, <4>4 DEF P
   <4> QED BY <3>1, <4>5
  <3>3. P \subseteq 1..(c - 1) /\ c - 1 \in Nat BY <1>1, <2>2, <2>3, <3>2
  <3>4. IsFiniteSet(1..(c - 1)) /\ Cardinality(1..(c - 1)) = c - 1 BY <3>3, FS_Interval
  <3>5. c <= c - 1 BY <3>3, <3>4, FS_Subset
  <3> QED BY <2>2, <3>5
 <2> QED BY <1>2, <1>4, <2>4
<1> QED BY <1>3, <1>4

\* A batch starts: what is left comes after it, what has settled before.
LEMMA StartBatchStep ==
  ASSUME IInv, StartBatch
  PROVE IInv'
<1>1.
  /\ pc = "executing" /\ batch = <<>> /\ todo # <<>> /\ batch' = NextBatch(todo)
  /\ todo' = SubSeq(todo, Len(batch') + 1, Len(todo))
  /\ stage' = [i \in CallId |-> IF i \in ToSet(batch') THEN "hook" ELSE stage[i]]
  /\ UNCHANGED <<consumer, pc, reason, turn, requests, aborted, history, dedup, calls,
                 spent, decided, verdict, consent, approved, ran, results>>
  BY DEF StartBatch, guards, answer, passed
<1>2. CallId \in SUBSET Nat BY DEF CallId
<1>3. todo \in Seq(CallId) /\ Rising(todo) BY DEF IInv, PlaceTypes, Placed
<1>4.
  PICK k \in 1..Len(todo) : /\ batch' = SubSeq(todo, 1, k)
                            /\ k = 1 \/ \A i \in 1..k : Safe(todo[i])
  BY <1>1, <1>3, NextBatchEffect
<1>5. k \in 0..Len(todo) /\ Len(todo) \in Nat BY <1>3, LenProperties
<1>6.
  /\ batch' \in Seq(CallId) /\ Len(batch') = k
  /\ \A i \in 1..k : batch'[i] = todo[i]
  /\ Rising(batch')
  BY <1>2, <1>3, <1>4, <1>5, CutRising
<1>7.
  /\ todo' \in Seq(CallId) /\ ToSet(todo) = ToSet(batch') \cup ToSet(todo') /\ Rising(todo')
  /\ \A x \in ToSet(batch'), y \in ToSet(todo') : x < y
 <2>1. todo' = SubSeq(todo, k + 1, Len(todo)) BY <1>1, <1>6
 <2> QED BY <1>2, <1>3, <1>4, <1>5, <2>1, CutRising
<1>8. \A i, j \in ToSet(batch') : i # j => Safe(i) /\ Safe(j)
 <2>1. ToSet(batch') = {batch'[i] : i \in 1..k} BY <1>6, ToSetMembers
 <2>2. CASE k = 1 BY <2>1, <2>2
 <2>3. CASE \A i \in 1..k : Safe(todo[i]) BY <1>6, <2>1, <2>3
 <2> QED BY <1>4, <2>2, <2>3
<1>9.
  /\ ToSet(batch) = {} /\ approved = <<>> /\ ToSet(approved) = {}
  /\ ToSet(batch') \subseteq CallId /\ ToSet(todo') \subseteq CallId
  /\ ToSet(batch') \cap ToSet(todo') = {}
 <2>1. ToSet(batch') \subseteq CallId /\ ToSet(todo') \subseteq CallId
   BY <1>6, <1>7, ToSetMembers
 <2>2. ToSet(batch') \cap ToSet(todo') = {} BY <1>7, <2>1 DEF CallId
 <2> QED BY <1>1, <2>1, <2>2, NoMembers DEF IInv, PlacesByPc
<1>10. AbortType' /\ RequestTypes' /\ GuardTypes' /\ AnswerTypes' /\ Counted'
  BY <1>1 DEF IInv, AbortType, RequestTypes, GuardTypes, AnswerTypes, Counted
<1>11. PlaceTypes' BY <1>1, <1>6, <1>7 DEF IInv, PlaceTypes
<1>12. StageTypes' BY <1>1 DEF IInv, StageTypes, Stage
<1>13. Placed' BY <1>1, <1>6, <1>7, <1>9 DEF IInv, Placed
<1>14. PlacesByPc' BY <1>1 DEF IInv, PlacesByPc
<1>15. Staged'
 <2>1. \A i \in CallId : stage'[i] = IF i \in ToSet(batch') THEN "hook" ELSE stage[i] BY <1>1
 <2>2. \A i \in CallId : i \notin ToSet(batch') => stage'[i] \in {"idle", "settled"}
   BY <1>9, <2>1 DEF IInv, Staged
 <2>3. \A i \in ToSet(batch') \cup ran : stage'[i] # "idle"
   BY <1>9, <2>1 DEF IInv, Staged, StageTypes
 <2>4. \A i \in ToSet(todo'), j \in CallId : stage'[j] # "idle" => j < i
   BY <1>7, <2>1 DEF IInv, Staged
 <2>5. \A i \in ToSet(batch'), j \in CallId \ ToSet(batch') : stage'[j] # "idle" => j < i
   BY <1>7, <2>1 DEF IInv, Staged
 <2>6. \A i, j \in ToSet(batch') : i # j => Safe(i)' /\ Safe(j)' BY <1>1, <1>8 DEF Safe
 <2> QED BY <1>1, <2>2, <2>3, <2>4, <2>5, <2>6 DEF Staged
<1>16. Consented' BY <1>1, <1>7, <1>9 DEF IInv, Consented
<1> QED BY <1>10, <1>11, <1>12, <1>13, <1>14, <1>15, <1>16 DEF IInv

\* executeSingle works on calls of the batch only.
LEMMA ToolStepStep ==
  ASSUME IInv, NEW i \in CallId, ToolStep(i)
  PROVE IInv'
<1>1.
  /\ stage[i] \in {"hook", "calling", "post"}
  /\ \E next \in {"calling", "post", "settled"} : stage' = [stage EXCEPT ![i] = next]
  /\ ran' \in {ran, ran \cup {i}}
  /\ UNCHANGED <<consumer, pc, reason, turn, requests, aborted, history, dedup, calls,
                 spent, decided, verdict, consent, approved, todo, batch, results>>
  BY DEF ToolStep, HooksDone, CallDone, PostDone, guards, answer, passed
<1>2. i \in ToSet(batch) BY <1>1 DEF IInv, Staged
<1>3. pc = "executing" BY <1>2, NoMembers DEF IInv, PlacesByPc
<1>4.
  /\ \A j \in CallId : j # i => stage'[j] = stage[j]
  /\ stage'[i] \in {"calling", "post", "settled"} /\ stage' \in [CallId -> Stage]
  BY <1>1 DEF IInv, StageTypes, Stage
<1>5. AbortType' /\ RequestTypes' /\ GuardTypes' /\ AnswerTypes' /\ Counted'
  BY <1>1 DEF IInv, AbortType, RequestTypes, GuardTypes, AnswerTypes, Counted
<1>6. PlaceTypes' /\ Placed' BY <1>1 DEF IInv, PlaceTypes, Placed
<1>7. StageTypes' BY <1>1, <1>4 DEF IInv, StageTypes
<1>8. PlacesByPc' BY <1>1, <1>3 DEF IInv, PlacesByPc
<1>9. Staged'
 <2>1. \A j \in CallId : stage[j] = "idle" <=> stage'[j] = "idle" BY <1>1, <1>4
 <2>2. ToSet(batch) \subseteq CallId /\ ToSet(todo) \subseteq CallId
   BY ToSetMembers DEF IInv, PlaceTypes
 <2>3. ran \subseteq CallId BY DEF IInv, StageTypes
 <2>4. \A j \in ToSet(batch) \cup ran' : stage'[j] # "idle"
   BY <1>1, <1>2, <2>1, <2>2, <2>3 DEF IInv, Staged
 <2>5. \A j \in CallId : j \notin ToSet(batch) => stage'[j] \in {"idle", "settled"}
   BY <1>2, <1>4 DEF IInv, Staged
 <2> QED BY <1>1, <2>1, <2>2, <2>4, <2>5 DEF IInv, Staged, Safe
<1>10. Consented' BY <1>1, <1>2 DEF IInv, Consented
<1> QED BY <1>5, <1>6, <1>7, <1>8, <1>9, <1>10 DEF IInv

\* The batch has settled and its results follow the others.
LEMMA BatchDoneStep ==
  ASSUME IInv, BatchDone
  PROVE IInv'
<1>1.
  /\ batch # <<>> /\ batch' = <<>>
  /\ \A i \in ToSet(batch) : stage[i] = "settled"
  /\ results' = results \o batch
  /\ UNCHANGED <<consumer, pc, reason, turn, requests, aborted, history, dedup, calls,
                 spent, decided, verdict, consent, approved, todo, stage, ran>>
  BY DEF BatchDone, guards, answer, passed
<1>2. pc = "executing" /\ approved = <<>> BY <1>1 DEF IInv, PlacesByPc, RequestTypes
<1>3. /\ ToSet(<<>>) = {} /\ Rising(<<>>) /\ <<>> \in Seq(CallId) BY NoMembers
<1>4. batch \in Seq(CallId) /\ results \in Seq(CallId) /\ Distinct(batch)
 <2>1. batch \in Seq(Nat) BY SeqMonotonic DEF IInv, PlaceTypes, CallId
 <2> QED BY <2>1, RisingDistinct DEF IInv, PlaceTypes, Placed
<1>5.
  /\ results' \in Seq(CallId) /\ ToSet(results') = ToSet(results) \cup ToSet(batch)
  /\ Distinct(results')
  BY <1>1, <1>4, ConcatMembers DEF IInv, Placed
<1>6. ToSet(batch) \subseteq CallId /\ ToSet(todo) \subseteq CallId
  BY ToSetMembers DEF IInv, PlaceTypes
<1>7. ToSet(batch) \cap ToSet(todo) = {}
 <2>1. \A i \in ToSet(todo), j \in ToSet(batch) : j < i BY <1>6 DEF IInv, Staged
 <2> QED BY <1>6, <2>1 DEF CallId
<1>8. AbortType' /\ RequestTypes' /\ GuardTypes' /\ AnswerTypes' /\ Counted'
  BY <1>1 DEF IInv, AbortType, RequestTypes, GuardTypes, AnswerTypes, Counted
<1>9. PlaceTypes' /\ StageTypes' BY <1>1, <1>3, <1>5 DEF IInv, PlaceTypes, StageTypes
<1>10. Placed' BY <1>1, <1>2, <1>3, <1>5, <1>7 DEF IInv, Placed
<1>11. PlacesByPc' BY <1>1, <1>2 DEF IInv, PlacesByPc
<1>12. Staged' /\ Consented' BY <1>1, <1>3, <1>6 DEF IInv, Staged, Consented, Safe
<1> QED BY <1>8, <1>9, <1>10, <1>11, <1>12 DEF IInv

--------------------
(* Theorems *)

\* Where the calls of an answer are is the same from action to action.
THEOREM Invariant == Spec => []IInv
<1>1. Init => IInv BY InitInv
<1>2. IInv /\ [Next]_vars => IInv'
 <2> SUFFICES ASSUME IInv, [Next]_vars
   PROVE IInv'
   OBVIOUS
 <2>1. CASE Top \/ StreamFails \/ RetryFails \/ OverBudget \/ AppendResults \/ Abort
   BY <2>1, RequestStep
 <2>2. CASE Answer BY <2>2, AnswerStep
 <2>3. CASE Decide BY <2>3, DecideStep
 <2>4. CASE UserAnswers \/ AutoDeny BY <2>4, PromptStep
 <2>5. CASE Resolve BY <2>5, ResolveStep
 <2>6. CASE StartBatch BY <2>6, StartBatchStep
 <2>7. CASE BatchDone BY <2>7, BatchDoneStep
 <2>8. CASE \E i \in CallId : ToolStep(i) BY <2>8, ToolStepStep
 <2>9. CASE UNCHANGED vars
   BY <2>9 DEF IInv, AbortType, RequestTypes, GuardTypes, AnswerTypes, PlaceTypes, StageTypes,
     Counted, Placed, PlacesByPc, Staged, Consented, Safe, vars, guards, answer, passed, exec
 <2> QED BY <2>1, <2>2, <2>3, <2>4, <2>5, <2>6, <2>7, <2>8, <2>9 DEF Next, LoopStep
<1> QED BY <1>1, <1>2, PTL DEF Spec

\* The message protocol: at a request every call of the last answer has one result.
THEOREM CallsAnswered == Spec => []EveryCallAnswered
<1>1. ASSUME IInv PROVE EveryCallAnswered
 <2>1. SUFFICES ASSUME pc = "top"
   PROVE Len(results) = Len(calls) /\ ToSet(results) = 1..Len(calls)
   BY DEF EveryCallAnswered
 <2>2. approved = <<>> /\ todo = <<>> /\ batch = <<>> /\ decided = Len(calls)
   BY <1>1, <2>1 DEF IInv, PlacesByPc
 <2>3. ToSet(results) = 1..Len(calls) BY <1>1, <2>2, NoMembers DEF IInv, Placed
 <2>4. /\ results \in Seq(CallId) /\ Distinct(results) /\ Len(results) \in 0..Len(results)
   BY <1>1, LenProperties DEF IInv, PlaceTypes, Placed
 <2>5. ToSet(results) = {results[i] : i \in 1..Len(results)} BY <2>4, ToSetMembers
 <2>6. Cardinality(ToSet(results)) = Len(results)
  <3>1. Cardinality({results[i] : i \in 1..Len(results)}) = Len(results) BY <2>4, CountFirst
  <3> QED BY <2>5, <3>1
 <2>7. Len(calls) \in Nat BY <1>1, LenProperties DEF IInv, AnswerTypes
 <2>8. Cardinality(1..Len(calls)) = Len(calls)
  <3>1. \A n \in Nat : Cardinality(1..n) = n BY FS_Interval
  <3> QED BY <2>7, <3>1
 <2> QED BY <2>3, <2>6, <2>8
<1> QED BY <1>1, Invariant, PTL

\* Tools run with leave only, and an unsafe one alone and in its turn.
THEOREM EffectsInOrder == Spec => []EffectsOrderly
<1>1. ASSUME IInv PROVE EffectsOrderly
 <2>1. TypeOK BY <1>1, TypesInv
 <2>2. ConsentBeforeEffect BY <1>1 DEF IInv, Consented, ConsentBeforeEffect
 <2>3. UnsafeRunsAlone
  <3>1. SUFFICES ASSUME NEW i \in 1..Len(calls), NEW j \in 1..Len(calls), i < j,
      {i, j} \subseteq ToSet(batch) \cup ToSet(todo) \cup ran,
      ~ (Safe(i) /\ Safe(j)), stage[j] # "idle"
    PROVE stage[i] = "settled"
    BY DEF UnsafeRunsAlone
  <3>2. i \in CallId /\ j \in CallId /\ i \in Nat /\ j \in Nat
    BY <1>1, <3>1 DEF IInv, AnswerTypes, CallId
  <3>3. i \notin ToSet(todo) BY <1>1, <3>1, <3>2 DEF IInv, Staged
  <3>4. i \notin ToSet(batch) BY <1>1, <3>1, <3>2 DEF IInv, Staged
  <3> QED BY <1>1, <3>1, <3>2, <3>3, <3>4 DEF IInv, Staged
 <2> QED BY <2>1, <2>2, <2>3 DEF EffectsOrderly
<1> QED BY <1>1, Invariant, PTL

\* No path leads back to the provider once the abort signal has fired.
THEOREM SilentAfterAbort == Spec => NoRequestAfterAbort
<1>1. ASSUME [Next]_vars PROVE [aborted => requests' = requests]_vars
 <2>1. SUFFICES ASSUME Next, aborted
   PROVE requests' = requests
   BY <1>1
 <2>2. CASE LoopStep
   BY <2>1, <2>2 DEF LoopStep, Top, StreamFails, RetryFails, OverBudget, Answer, Decide,
     AutoDeny, Resolve, StartBatch, BatchDone, AppendResults
 <2>3. CASE \E i \in CallId : ToolStep(i) BY <2>3 DEF ToolStep, HooksDone, CallDone, PostDone
 <2>4. CASE UserAnswers \/ Abort BY <2>4 DEF UserAnswers, Abort
 <2> QED BY <2>1, <2>2, <2>3, <2>4 DEF Next
<1> QED BY <1>1, PTL DEF Spec, NoRequestAfterAbort
--------------------
(* Permissions *)

PermHarmlessWords == {"view", "make"}

\* The word at i is the command: all words before it are wrappers.
PermLeads(tokens, i) ==
  /\ PermIsWord(tokens[i]) /\ tokens[i] \notin PermWrappers
  /\ \A k \in Nat : 1 <= k /\ k < i /\ PermIsWord(tokens[k]) => tokens[k] \in PermWrappers

PermHarmlessAt(tokens, i) == PermLeads(tokens, i) /\ tokens[i] \in PermHarmlessWords

\* No operator between two places.
PermJoined(tokens, operators, i, k) ==
  \A m \in Nat : (i <= m /\ m <= k) \/ (k <= m /\ m <= i) => tokens[m] \notin operators

\* From a to b is all that is joined to i, and operators.
PermCovers(tokens, operators, a, b, i) ==
  /\ 1 <= a /\ a <= i /\ i <= b /\ b <= Len(tokens)
  /\ \A k \in Nat : a <= k /\ k <= b /\ tokens[k] \notin operators
                    => PermJoined(tokens, operators, k, i)
  /\ \A k \in Nat : 1 <= k /\ k <= Len(tokens) /\ PermJoined(tokens, operators, k, i)
                    => a <= k /\ k <= b

PermSpanAt(tokens, operators, i) ==
  \E span \in PermSpans(tokens, operators) : span[1] <= i /\ i <= span[2]

LEMMA PermSpanFacts ==
  ASSUME NEW tokens \in Seq(PermTokens), NEW operators, NEW span \in PermSpans(tokens, operators)
  PROVE
    /\ span[1] \in DOMAIN tokens /\ span[2] \in DOMAIN tokens /\ span[1] <= span[2]
    /\ \A k \in span[1] .. span[2] : tokens[k] \notin operators
    /\ span[1] = 1 \/ tokens[span[1] - 1] \in operators
    /\ span[2] = Len(tokens) \/ tokens[span[2] + 1] \in operators
    /\ span = <<span[1], span[2]>>
BY DEF PermSpans

LEMMA PermSpanIs ==
  ASSUME NEW tokens \in Seq(PermTokens), NEW operators,
    NEW a \in DOMAIN tokens, NEW b \in DOMAIN tokens, a <= b,
    \A k \in a .. b : tokens[k] \notin operators,
    a = 1 \/ tokens[a - 1] \in operators,
    b = Len(tokens) \/ tokens[b + 1] \in operators
  PROVE <<a, b>> \in PermSpans(tokens, operators)
BY DEF PermSpans

LEMMA PermSpanExists ==
  ASSUME NEW tokens \in Seq(PermTokens), NEW operators,
    NEW i \in DOMAIN tokens, tokens[i] \notin operators
  PROVE PermSpanAt(tokens, operators, i)
<1> DEFINE A == {a \in 1 .. i : \A k \in a .. i : tokens[k] \notin operators}
  B == {b \in i .. Len(tokens) : \A k \in i .. b : tokens[k] \notin operators}
<1>1.
  /\ Len(tokens) \in Nat /\ DOMAIN tokens = 1 .. Len(tokens)
  /\ i \in Nat /\ 1 <= i /\ i <= Len(tokens)
  BY Indices
<1>2. i \in A /\ i \in B /\ A \in SUBSET Nat /\ B \in SUBSET (0 .. Len(tokens)) BY <1>1
<1>3. \E a \in A : \A y \in A : a <= y
 <2> HIDE DEF A
 <2> QED BY <1>2, LeastMember
<1>4. \E b \in B : \A y \in B : y <= b
 <2> HIDE DEF B
 <2> QED BY <1>1, <1>2, GreatestMember
<1>5. PICK a \in A : \A y \in A : a <= y BY <1>3
<1>6. PICK b \in B : \A y \in B : y <= b BY <1>4
<1>7. a \in Nat /\ 1 <= a /\ a <= i /\ b \in Nat /\ i <= b /\ b <= Len(tokens)
  BY <1>1, <1>5, <1>6
<1>8. \A k \in a .. b : tokens[k] \notin operators BY <1>1, <1>5, <1>6, <1>7
<1>9. a = 1 \/ tokens[a - 1] \in operators
 <2> SUFFICES ASSUME a # 1, tokens[a - 1] \notin operators
   PROVE FALSE
   OBVIOUS
 <2>1. a - 1 \in 1 .. i /\ \A k \in (a - 1) .. i : tokens[k] \notin operators
   BY <1>1, <1>7, <1>8
 <2>2. a <= a - 1 BY <2>1, <1>5
 <2> QED BY <2>2, <1>7
<1>10. b = Len(tokens) \/ tokens[b + 1] \in operators
 <2> SUFFICES ASSUME b # Len(tokens), tokens[b + 1] \notin operators
   PROVE FALSE
   OBVIOUS
 <2>1. b + 1 \in i .. Len(tokens) /\ \A k \in i .. (b + 1) : tokens[k] \notin operators
  <3>1. b < Len(tokens)
   <4>1. Len(tokens) \in Nat BY <1>1
   <4> QED BY <4>1, <1>7
  <3>2. \A k \in i .. (b + 1) : k \in a .. b \/ k = b + 1 BY <1>7
  <3>3. b + 1 \in i .. Len(tokens)
   <4>1. Len(tokens) \in Nat /\ i \in Nat BY <1>1
   <4> QED BY <4>1, <1>7, <3>1
  <3> QED BY <1>8, <3>2, <3>3
 <2>2. b + 1 <= b BY <2>1, <1>6
 <2> QED BY <2>2, <1>7
<1> HIDE DEF A, B
<1>11. a \in DOMAIN tokens /\ b \in DOMAIN tokens /\ a <= b BY <1>1, <1>7
<1>12. <<a, b>> \in PermSpans(tokens, operators) BY <1>8, <1>9, <1>10, <1>11, PermSpanIs
<1>13. <<a, b>>[1] <= i /\ i <= <<a, b>>[2] BY <1>7
<1> QED BY <1>12, <1>13 DEF PermSpanAt

LEMMA PermNumbers ==
  ASSUME NEW tokens \in Seq(PermTokens)
  PROVE \E n \in Nat : n = Len(tokens) /\ \A i : i \in DOMAIN tokens <=> i \in Nat /\ 1 <= i /\ i <= n
<1>1. Len(tokens) \in Nat /\ DOMAIN tokens = 1 .. Len(tokens) BY Indices
<1>2. \A i : i \in 1 .. Len(tokens) <=> i \in Nat /\ 1 <= i /\ i <= Len(tokens) BY <1>1
<1> QED BY <1>1, <1>2

LEMMA PermSpanNumbers ==
  ASSUME NEW tokens \in Seq(PermTokens), NEW operators, NEW span \in PermSpans(tokens, operators)
  PROVE
    \E a \in Nat : \E b \in Nat :
      /\ span[1] = a /\ span[2] = b /\ 1 <= a /\ a <= b /\ b <= Len(tokens)
      /\ \A k \in Nat : a <= k /\ k <= b => tokens[k] \notin operators
      /\ a = 1 \/ tokens[a - 1] \in operators
      /\ b = Len(tokens) \/ tokens[b + 1] \in operators
<1>1.
  /\ span[1] \in DOMAIN tokens /\ span[2] \in DOMAIN tokens /\ span[1] <= span[2]
  /\ \A k \in span[1] .. span[2] : tokens[k] \notin operators
  /\ span[1] = 1 \/ tokens[span[1] - 1] \in operators
  /\ span[2] = Len(tokens) \/ tokens[span[2] + 1] \in operators
  BY PermSpanFacts
<1>2.
  /\ span[1] \in Nat /\ 1 <= span[1] /\ span[1] <= Len(tokens)
  /\ span[2] \in Nat /\ 1 <= span[2] /\ span[2] <= Len(tokens)
  BY <1>1, PermNumbers
<1>3. PICK a \in Nat : a = span[1] BY <1>2
<1>4. PICK b \in Nat : b = span[2] BY <1>2
<1>5. \A k \in Nat : a <= k /\ k <= b => k \in a .. b OBVIOUS
<1> QED BY <1>1, <1>2, <1>3, <1>4, <1>5

\* Whatever is joined to a place of a span is in it.
LEMMA PermSpanWhole ==
  ASSUME NEW tokens \in Seq(PermTokens), NEW operators,
    NEW a \in Nat, NEW b \in Nat, NEW i \in Nat,
    1 <= a, a <= i, i <= b, b <= Len(tokens),
    \A k \in Nat : a <= k /\ k <= b => tokens[k] \notin operators,
    a = 1 \/ tokens[a - 1] \in operators,
    b = Len(tokens) \/ tokens[b + 1] \in operators
  PROVE PermCovers(tokens, operators, a, b, i)
<1>1. PICK n \in Nat : n = Len(tokens) BY PermNumbers
<1>2. ASSUME NEW k \in Nat, a <= k, k <= b
  PROVE PermJoined(tokens, operators, k, i)
 <2> SUFFICES ASSUME NEW m \in Nat, (k <= m /\ m <= i) \/ (i <= m /\ m <= k)
   PROVE tokens[m] \notin operators
   BY DEF PermJoined
 <2>1. a <= m /\ m <= b BY <1>2
 <2> QED BY <2>1
<1>3. ASSUME NEW k \in Nat, 1 <= k, k <= n, PermJoined(tokens, operators, k, i)
  PROVE a <= k /\ k <= b
 <2>1. ASSUME k < a
   PROVE FALSE
  <3>1. a - 1 \in Nat /\ k <= a - 1 /\ a - 1 <= i /\ a # 1 BY <1>3, <2>1
  <3>2. tokens[a - 1] \notin operators BY <3>1, <1>3 DEF PermJoined
  <3> QED BY <3>1, <3>2
 <2>2. ASSUME b < k
   PROVE FALSE
  <3>1. b + 1 \in Nat /\ i <= b + 1 /\ b + 1 <= k /\ b # n BY <1>3, <2>2
  <3>2. tokens[b + 1] \notin operators BY <3>1, <1>3 DEF PermJoined
  <3> QED BY <1>1, <3>1, <3>2
 <2> QED BY <2>1, <2>2
<1> QED BY <1>1, <1>2, <1>3 DEF PermCovers

LEMMA PermFiniteSpans ==
  ASSUME NEW tokens \in Seq(PermTokens), NEW operators
  PROVE
    /\ IsFiniteSet(PermSpans(tokens, operators))
    /\ Cardinality(PermSpans(tokens, operators)) \in Nat
<1>1. IsFiniteSet(DOMAIN tokens) BY Indices, FS_Interval
<1>2. IsFiniteSet((DOMAIN tokens) \X (DOMAIN tokens)) BY <1>1, FS_Product
<1>3. PermSpans(tokens, operators) \subseteq (DOMAIN tokens) \X (DOMAIN tokens) BY DEF PermSpans
<1> QED BY <1>2, <1>3, FS_Subset, FS_CardinalityType

\* The part a place is judged in: its span, or everything if there is only one.
LEMMA PermLevel ==
  ASSUME NEW tokens \in Seq(PermTokens), NEW operators,
    NEW i \in Nat, 1 <= i, i <= Len(tokens), tokens[i] \notin operators
  PROVE
    \E a \in Nat : \E b \in Nat :
      /\ 1 <= a /\ a <= b /\ b <= Len(tokens) /\ PermCovers(tokens, operators, a, b, i)
      /\ IF PermSeveral(tokens, operators)
         THEN SubSeq(tokens, a, b) \in PermParts(tokens, operators)
         ELSE a = 1 /\ b = Len(tokens)
<1>1. PICK n \in Nat : n = Len(tokens) BY PermNumbers
<1>2. ASSUME NEW k \in Nat, 1 <= k, k <= n, tokens[k] \notin operators
  PROVE
    \E span \in PermSpans(tokens, operators) :
      \E a \in Nat : \E b \in Nat :
        /\ span[1] = a /\ span[2] = b /\ a <= k /\ k <= b
        /\ 1 <= a /\ a <= b /\ b <= Len(tokens)
        /\ PermCovers(tokens, operators, a, b, k)
 <2>1. k \in DOMAIN tokens BY <1>1, <1>2, PermNumbers
 <2>2. PICK span \in PermSpans(tokens, operators) : span[1] <= k /\ k <= span[2]
   BY <1>2, <2>1, PermSpanExists DEF PermSpanAt
 <2>3.
   PICK a \in Nat : \E b \in Nat :
      /\ span[1] = a /\ span[2] = b /\ 1 <= a /\ a <= b /\ b <= Len(tokens)
      /\ \A m \in Nat : a <= m /\ m <= b => tokens[m] \notin operators
      /\ a = 1 \/ tokens[a - 1] \in operators
      /\ b = Len(tokens) \/ tokens[b + 1] \in operators
   BY PermSpanNumbers
 <2>4.
   PICK b \in Nat :
      /\ span[1] = a /\ span[2] = b /\ 1 <= a /\ a <= b /\ b <= Len(tokens)
      /\ \A m \in Nat : a <= m /\ m <= b => tokens[m] \notin operators
      /\ a = 1 \/ tokens[a - 1] \in operators
      /\ b = Len(tokens) \/ tokens[b + 1] \in operators
   BY <2>3
 <2>5. a <= k /\ k <= b BY <2>2, <2>4
 <2>6. PermCovers(tokens, operators, a, b, k) BY <2>4, <2>5, PermSpanWhole
 <2> QED BY <2>4, <2>5, <2>6
<1>3.
  PICK span \in PermSpans(tokens, operators) :
    \E a \in Nat : \E b \in Nat :
      /\ span[1] = a /\ span[2] = b /\ a <= i /\ i <= b
      /\ 1 <= a /\ a <= b /\ b <= Len(tokens) /\ PermCovers(tokens, operators, a, b, i)
  BY <1>1, <1>2
<1>4.
  PICK a \in Nat : \E b \in Nat :
      /\ span[1] = a /\ span[2] = b /\ a <= i /\ i <= b
      /\ 1 <= a /\ a <= b /\ b <= Len(tokens) /\ PermCovers(tokens, operators, a, b, i)
  BY <1>3
<1>5.
  PICK b \in Nat :
      /\ span[1] = a /\ span[2] = b /\ a <= i /\ i <= b
      /\ 1 <= a /\ a <= b /\ b <= Len(tokens) /\ PermCovers(tokens, operators, a, b, i)
  BY <1>4
<1>6. CASE PermSeveral(tokens, operators)
 <2>1. SubSeq(tokens, a, b) \in PermParts(tokens, operators) BY <1>5 DEF PermParts, PermPart
 <2> QED BY <1>5, <1>6, <2>1
<1>7. CASE ~ PermSeveral(tokens, operators)
 <2>1. ASSUME NEW r \in PermSpans(tokens, operators), NEW t \in PermSpans(tokens, operators)
   PROVE r = t
  <3>1. Cardinality(PermSpans(tokens, operators)) = 1
   <4>1. Cardinality(PermSpans(tokens, operators)) # 0 BY PermFiniteSpans, FS_EmptySet
   <4> QED BY <4>1, <1>7, PermFiniteSpans DEF PermSeveral
  <3>2. PICK x : PermSpans(tokens, operators) = {x} BY <3>1, PermFiniteSpans, FS_Singleton
  <3> QED BY <3>2
 <2>2. ASSUME NEW k \in Nat, 1 <= k, k <= n, tokens[k] \notin operators
   PROVE PermJoined(tokens, operators, k, i)
  <3>1.
    PICK t \in PermSpans(tokens, operators) :
      \E c \in Nat : \E d \in Nat :
        /\ t[1] = c /\ t[2] = d /\ c <= k /\ k <= d /\ 1 <= c /\ c <= d /\ d <= Len(tokens)
        /\ PermCovers(tokens, operators, c, d, k)
    BY <1>2, <2>2
  <3>2. t = span BY <2>1
  <3>3. a <= k /\ k <= b BY <3>1, <3>2, <1>5
  <3> QED BY <1>5, <2>2, <3>3 DEF PermCovers
 <2>3. 1 <= n BY <1>1
 <2>4. PermCovers(tokens, operators, 1, n, i) BY <1>1, <2>2 DEF PermCovers
 <2> QED BY <1>1, <1>7, <2>3, <2>4
<1> QED BY <1>6, <1>7

LEMMA PermFirstPlaceIs ==
  ASSUME NEW tokens \in Seq(PermTokens), NEW words \in SUBSET (DOMAIN tokens), words # {}
  PROVE
    /\ PermFirstPlace(words) \in words
    /\ \A k \in words : PermFirstPlace(words) <= k
    /\ PermFirst(tokens, words) = tokens[PermFirstPlace(words)]
<1>1. words \in SUBSET Nat BY Indices
<1>2. \E x \in words : \A y \in words : x <= y BY <1>1, LeastMember
<1> QED BY <1>2 DEF PermFirstPlace, PermFirst

\* A part leads to view or make if the word that is left at its front says so.
LEMMA PermLeader ==
  ASSUME NEW part \in Seq(PermTokens), PermEffectiveFirst(part) \in PermHarmlessWords
  PROVE \E i \in Nat : 1 <= i /\ i <= Len(part) /\ PermHarmlessAt(part, i)
<1> DEFINE words == PermWords(part)
  left == PermEffective(part, words)
<1>1. words \in SUBSET (DOMAIN part) /\ left \in SUBSET words BY DEF PermWords, PermEffective
<1>2. left # {}
 <2>1. PermEffectiveFirst(part) # "none" BY DEF PermHarmlessWords
 <2> QED BY <2>1 DEF PermEffectiveFirst, PermFirst
<1>3.
  /\ PermFirstPlace(left) \in left /\ \A k \in left : PermFirstPlace(left) <= k
  /\ PermEffectiveFirst(part) = part[PermFirstPlace(left)]
 <2>1. left \in SUBSET (DOMAIN part) BY <1>1
 <2> HIDE DEF left
 <2>2.
   /\ PermFirstPlace(left) \in left /\ \A k \in left : PermFirstPlace(left) <= k
   /\ PermFirst(part, left) = part[PermFirstPlace(left)]
   BY <1>2, <2>1, PermFirstPlaceIs
 <2> QED BY <2>2 DEF PermEffectiveFirst, left
<1>4. PICK i \in Nat : i = PermFirstPlace(left) /\ 1 <= i /\ i <= Len(part)
  BY <1>1, <1>3, PermNumbers
<1>5. PICK w \in words : w <= i /\ part[w] \notin PermWrappers BY <1>3, <1>4 DEF PermEffective
<1>6. w \in Nat BY <1>1, PermNumbers
<1>7. w \in left
 <2>1. w <= w BY <1>6
 <2> QED BY <2>1, <1>5 DEF PermEffective
<1>8. w = i
 <2>1. i <= w BY <1>3, <1>4, <1>7
 <2> QED BY <1>5, <1>6, <2>1
<1>9. ASSUME NEW m \in Nat, 1 <= m, m < i, PermIsWord(part[m]), part[m] \notin PermWrappers
  PROVE FALSE
 <2>1. m \in DOMAIN part
  <3>1. PICK n \in Nat : n = Len(part) BY PermNumbers
  <3>2. m <= n BY <1>4, <1>9, <3>1
  <3> QED BY <1>9, <3>1, <3>2, PermNumbers
 <2>2. m \in words /\ m <= m BY <1>9, <2>1 DEF PermWords
 <2>3. m \in left BY <1>9, <2>2 DEF PermEffective
 <2>4. i <= m BY <2>3, <1>3, <1>4
 <2> QED BY <2>4, <1>9
<1>10. PermIsWord(part[i]) /\ part[i] \in PermHarmlessWords BY <1>1, <1>3, <1>4 DEF PermWords
<1> HIDE DEF left, words
<1>11. PermHarmlessAt(part, i) BY <1>5, <1>8, <1>9, <1>10 DEF PermLeads, PermHarmlessAt
<1> QED BY <1>4, <1>11

\* And the other way round.
LEMMA PermLed ==
  ASSUME NEW part \in Seq(PermTokens), NEW i \in Nat, 1 <= i, i <= Len(part), PermLeads(part, i)
  PROVE PermEffectiveFirst(part) = part[i]
<1> DEFINE words == PermWords(part)
  left == PermEffective(part, words)
<1>1. words \in SUBSET (DOMAIN part) /\ left \in SUBSET words BY DEF PermWords, PermEffective
<1>2. i \in left
 <2>1. i \in DOMAIN part BY PermNumbers
 <2>2. i \in words /\ i <= i /\ part[i] \notin PermWrappers BY <2>1 DEF PermLeads, PermWords
 <2> QED BY <2>2 DEF PermEffective
<1>3. ASSUME NEW k \in left
  PROVE i <= k
 <2>1. PICK w \in words : w <= k /\ part[w] \notin PermWrappers BY DEF PermEffective
 <2>2. PICK m \in Nat : m = w /\ 1 <= m BY <1>1, PermNumbers
 <2>3. PICK j \in Nat : j = k BY <1>1, PermNumbers
 <2>4. PermIsWord(part[m]) BY <2>2 DEF PermWords
 <2>5. ~ (m < i) BY <2>1, <2>2, <2>4 DEF PermLeads
 <2>6. m <= j BY <2>1, <2>2, <2>3
 <2>7. i <= j BY <2>5, <2>6
 <2> QED BY <2>3, <2>7
<1>4. left \in SUBSET (DOMAIN part) /\ left # {} BY <1>1, <1>2
<1> HIDE DEF words, left
<1>5.
  /\ PermFirstPlace(left) \in left /\ \A k \in left : PermFirstPlace(left) <= k
  /\ PermFirst(part, left) = part[PermFirstPlace(left)]
  BY <1>4, PermFirstPlaceIs
<1>6. PermFirstPlace(left) = i
 <2>1. PICK f \in Nat : f = PermFirstPlace(left) BY <1>4, <1>5, PermNumbers
 <2>2. f <= i /\ i <= f BY <1>2, <1>3, <1>5, <2>1
 <2> QED BY <2>1, <2>2
<1> QED BY <1>5, <1>6 DEF PermEffectiveFirst, left, words

\* What is written right behind a redirection.
PermSafeRedirects(tokens) ==
  \A i \in Nat : (1 <= i /\ i + 1 <= Len(tokens) /\ tokens[i] = ">" /\ PermIsWord(tokens[i + 1]))
                   => tokens[i + 1] = "null"

LEMMA PermRedirectsSafe ==
  ASSUME NEW part \in Seq(PermTokens), ~ PermUnsafeRedirect(part)
  PROVE PermSafeRedirects(part)
<1> SUFFICES ASSUME NEW i \in Nat, 1 <= i, i + 1 <= Len(part),
    part[i] = ">", PermIsWord(part[i + 1])
  PROVE part[i + 1] = "null"
  BY DEF PermSafeRedirects
<1> DEFINE words == {k \in PermWords(part) : k > i}
<1>0. PICK n \in Nat : n = Len(part) BY PermNumbers
<1>1. i <= n /\ i + 1 \in Nat /\ 1 <= i + 1 /\ i + 1 > i BY <1>0
<1>2. i \in DOMAIN part /\ i + 1 \in DOMAIN part BY <1>0, <1>1, PermNumbers
<1>3. PermFirst(part, words) = "null" BY <1>2 DEF PermUnsafeRedirect
<1>4. i + 1 \in words /\ words \in SUBSET (DOMAIN part) /\ \A k \in words : k > i
  BY <1>1, <1>2 DEF PermWords
<1> HIDE DEF words
<1>5.
  /\ PermFirstPlace(words) \in words /\ \A k \in words : PermFirstPlace(words) <= k
  /\ PermFirst(part, words) = part[PermFirstPlace(words)]
  BY <1>4, PermFirstPlaceIs
<1>6. PermFirstPlace(words) = i + 1
 <2>1. PICK f \in Nat : f = PermFirstPlace(words) BY <1>4, <1>5, PermNumbers
 <2>2. f <= i + 1 /\ f > i BY <1>4, <1>5, <2>1
 <2> QED BY <2>1, <2>2
<1> QED BY <1>3, <1>5, <1>6

LEMMA PermSimpleAllows ==
  ASSUME NEW part \in Seq(PermTokens), part # <<>>, PermSimple(part) = "allow"
  PROVE
    /\ \E i \in Nat : 1 <= i /\ i <= Len(part) /\ PermHarmlessAt(part, i)
    /\ PermSafeRedirects(part)
<1>1.
  /\ ~ PermUnsafeRedirect(part)
  /\ part[1] \in PermHarmlessWords \/ PermEffectiveFirst(part) \in PermHarmlessWords
  BY DEF PermSimple, PermHarmlessWords
<1>2. CASE part[1] \in PermHarmlessWords
 <2>1. Len(part) >= 1 BY Indices, EmptySeq
 <2>2. PermIsWord(part[1]) /\ part[1] \notin PermWrappers
   BY <1>2 DEF PermHarmlessWords, PermIsWord, PermOperators, PermWrappers
 <2>3. \A k \in Nat : ~ (1 <= k /\ k < 1) OBVIOUS
 <2>4. PermHarmlessAt(part, 1) BY <1>2, <2>2, <2>3 DEF PermLeads, PermHarmlessAt
 <2>5. 1 \in Nat /\ 1 <= 1 /\ 1 <= Len(part) BY <2>1
 <2> QED BY <1>1, <2>4, <2>5, PermRedirectsSafe
<1>3. CASE PermEffectiveFirst(part) \in PermHarmlessWords
  BY <1>1, <1>3, PermLeader, PermRedirectsSafe
<1> QED BY <1>1, <1>2, <1>3

LEMMA PermRanks ==
  /\ PermRank["deny"] = 2 /\ PermRank["ask"] = 1 /\ PermRank["allow"] = 0
  /\ \A b \in PermBehaviors : b = "deny" \/ b = "ask" \/ b = "allow"
BY DEF PermRank, PermBehaviors

LEMMA PermWorstIs ==
  ASSUME NEW verdicts \in SUBSET PermBehaviors, verdicts # {}
  PROVE
    /\ PermWorst(verdicts) \in verdicts
    /\ \A c \in verdicts : PermRank[c] <= PermRank[PermWorst(verdicts)]
<1>1. \E b \in verdicts : \A c \in verdicts : PermRank[c] <= PermRank[b]
 <2>0. \A c \in verdicts : c = "deny" \/ c = "ask" \/ c = "allow" BY PermRanks
 <2>1. CASE "deny" \in verdicts BY <2>0, <2>1, PermRanks
 <2>2. CASE "deny" \notin verdicts /\ "ask" \in verdicts BY <2>0, <2>2, PermRanks
 <2>3. CASE "deny" \notin verdicts /\ "ask" \notin verdicts BY <2>0, <2>3, PermRanks
 <2> QED BY <2>1, <2>2, <2>3
<1> QED BY <1>1 DEF PermWorst

LEMMA PermWorstAllows ==
  ASSUME NEW verdicts \in SUBSET PermBehaviors, PermWorst(verdicts) = "allow",
    NEW c \in verdicts
  PROVE c = "allow"
<1>1. PermRank[c] <= PermRank["allow"] BY PermWorstIs
<1>2. c = "deny" \/ c = "ask" \/ c = "allow" BY PermRanks
<1> QED BY <1>1, <1>2, PermRanks

\* A piece of a sequence.
LEMMA PermPiece ==
  ASSUME NEW s \in Seq(PermTokens), NEW a \in Nat, NEW b \in Nat, 1 <= a, a <= b, b <= Len(s)
  PROVE
    /\ SubSeq(s, a, b) \in Seq(PermTokens) /\ SubSeq(s, a, b) # <<>>
    /\ Len(SubSeq(s, a, b)) = b - a + 1
    /\ \A k \in Nat : a <= k /\ k <= b => SubSeq(s, a, b)[k - a + 1] = s[k]
<1>1. PICK n \in Nat : n = Len(s) BY PermNumbers
<1>2. a \in 1 .. Len(s) + 1 /\ b \in a - 1 .. Len(s) /\ a \in Int /\ b \in Int BY <1>1
<1>3. SubSeq(s, a, b) \in Seq(PermTokens) /\ Len(SubSeq(s, a, b)) = b - a + 1
  BY <1>1, <1>2, SubSeqProperties
<1>4. \A i \in 1 .. b - a + 1 : SubSeq(s, a, b)[i] = s[a + i - 1]
  BY <1>1, <1>2, SubSeqProperties
<1>5. ASSUME NEW k \in Nat, a <= k, k <= b
  PROVE SubSeq(s, a, b)[k - a + 1] = s[k]
 <2>1. k - a + 1 \in 1 .. b - a + 1 /\ a + (k - a + 1) - 1 = k BY <1>5
 <2>2. SubSeq(s, a, b)[k - a + 1] = s[a + (k - a + 1) - 1] BY <1>4, <2>1
 <2> QED BY <2>1, <2>2
<1>6. SubSeq(s, a, b) # <<>>
 <2>1. b - a + 1 # 0 OBVIOUS
 <2> QED BY <1>3, <2>1, EmptySeq
<1> QED BY <1>3, <1>5, <1>6

LEMMA PermPieceOfPiece ==
  ASSUME NEW s \in Seq(PermTokens), NEW a \in Nat, NEW b \in Nat, 1 <= a, a <= b, b <= Len(s),
    NEW c \in Nat, NEW d \in Nat, 1 <= c, c <= d, d <= b - a + 1
  PROVE SubSeq(SubSeq(s, a, b), c, d) = SubSeq(s, a + c - 1, a + d - 1)
<1>1. PICK n \in Nat : n = Len(s) BY PermNumbers
<1>2. /\ a \in 1 .. Len(s) /\ b \in 1 .. Len(s) /\ c \in 1 .. b - a + 1 /\ d \in 1 .. b - a + 1
  BY <1>1
<1> QED BY <1>2, SubSeqOfSubSeq

LEMMA PermWholePiece ==
  ASSUME NEW s \in Seq(PermTokens)
  PROVE SubSeq(s, 1, Len(s)) = s
BY SubSeqFull

LEMMA PermSimpleType == ASSUME NEW tokens PROVE PermSimple(tokens) \in PermBehaviors
BY DEF PermSimple, PermBehaviors

LEMMA PermPipelineType ==
  ASSUME NEW tokens \in Seq(PermTokens)
  PROVE PermPipeline(tokens) \in PermBehaviors
<1>1. CASE PermSeveral(tokens, {"|"})
 <2> DEFINE verdicts == {PermSimple(part) : part \in PermParts(tokens, {"|"})}
 <2>1. PermSpans(tokens, {"|"}) # {}
  <3> SUFFICES ASSUME PermSpans(tokens, {"|"}) = {}
    PROVE FALSE
    OBVIOUS
  <3>1. Cardinality(PermSpans(tokens, {"|"})) = 0 BY FS_EmptySet
  <3> QED BY <1>1, <3>1 DEF PermSeveral
 <2>2. verdicts \in SUBSET PermBehaviors /\ verdicts # {} BY <2>1, PermSimpleType DEF PermParts
 <2> HIDE DEF verdicts
 <2>3. PermWorst(verdicts) \in PermBehaviors BY <2>2, PermWorstIs
 <2>4. PermWorst({PermSimple(part) : part \in PermParts(tokens, {"|"})}) \in PermBehaviors
   BY <2>3 DEF verdicts
 <2> QED BY <1>1, <2>4 DEF PermPipeline, PermBehaviors
<1>2. CASE ~ PermSeveral(tokens, {"|"}) BY <1>2, PermSimpleType DEF PermPipeline, PermBehaviors
<1> QED BY <1>1, <1>2

LEMMA PermPartTypes ==
  ASSUME NEW tokens \in Seq(PermTokens), NEW operators, NEW part \in PermParts(tokens, operators)
  PROVE part \in Seq(PermTokens) /\ part # <<>>
<1>1. PICK span \in PermSpans(tokens, operators) : part = SubSeq(tokens, span[1], span[2])
  BY DEF PermParts, PermPart
<1>2.
  PICK a \in Nat : \E b \in Nat :
    span[1] = a /\ span[2] = b /\ 1 <= a /\ a <= b /\ b <= Len(tokens)
  BY PermSpanNumbers
<1>3. PICK b \in Nat : span[1] = a /\ span[2] = b /\ 1 <= a /\ a <= b /\ b <= Len(tokens)
  BY <1>2
<1>4. SubSeq(tokens, a, b) \in Seq(PermTokens) /\ SubSeq(tokens, a, b) # <<>> BY <1>3, PermPiece
<1> QED BY <1>1, <1>3, <1>4

\* What is allowed as a pipeline is allowed as a command at every place.
LEMMA PermPipelineAllows ==
  ASSUME NEW tokens \in Seq(PermTokens), tokens # <<>>, PermPipeline(tokens) = "allow",
    NEW i \in Nat, 1 <= i, i <= Len(tokens), tokens[i] # "|"
  PROVE
    \E a \in Nat : \E b \in Nat :
      /\ 1 <= a /\ a <= b /\ b <= Len(tokens) /\ PermCovers(tokens, {"|"}, a, b, i)
      /\ PermSimple(SubSeq(tokens, a, b)) = "allow"
<1>1.
  PICK a \in Nat : \E b \in Nat :
     /\ 1 <= a /\ a <= b /\ b <= Len(tokens) /\ PermCovers(tokens, {"|"}, a, b, i)
     /\ IF PermSeveral(tokens, {"|"})
        THEN SubSeq(tokens, a, b) \in PermParts(tokens, {"|"})
        ELSE a = 1 /\ b = Len(tokens)
 <2>1. tokens[i] \notin {"|"} OBVIOUS
 <2> QED BY <2>1, PermLevel
<1>2.
  PICK b \in Nat :
     /\ 1 <= a /\ a <= b /\ b <= Len(tokens) /\ PermCovers(tokens, {"|"}, a, b, i)
     /\ IF PermSeveral(tokens, {"|"})
        THEN SubSeq(tokens, a, b) \in PermParts(tokens, {"|"})
        ELSE a = 1 /\ b = Len(tokens)
  BY <1>1
<1>3. ASSUME PermSeveral(tokens, {"|"})
  PROVE PermSimple(SubSeq(tokens, a, b)) = "allow"
 <2> DEFINE verdicts == {PermSimple(part) : part \in PermParts(tokens, {"|"})}
 <2>1. PermWorst(verdicts) = "allow" BY <1>3 DEF PermPipeline
 <2>2. verdicts \in SUBSET PermBehaviors BY PermSimpleType
 <2>3. PermSimple(SubSeq(tokens, a, b)) \in verdicts BY <1>2, <1>3
 <2> HIDE DEF verdicts
 <2> QED BY <2>1, <2>2, <2>3, PermWorstAllows
<1>4. ASSUME ~ PermSeveral(tokens, {"|"})
  PROVE PermSimple(SubSeq(tokens, a, b)) = "allow"
 <2>1. PermSimple(tokens) = "allow" BY <1>4 DEF PermPipeline
 <2>2. SubSeq(tokens, a, b) = tokens BY <1>2, <1>4, PermWholePiece
 <2> QED BY <2>1, <2>2
<1> QED BY <1>2, <1>3, <1>4

LEMMA PermListAllows ==
  ASSUME NEW tokens \in Seq(PermTokens), PermClassify(tokens) = "allow",
    NEW i \in Nat, 1 <= i, i <= Len(tokens), tokens[i] # ";"
  PROVE
    \E a \in Nat : \E b \in Nat :
      /\ 1 <= a /\ a <= b /\ b <= Len(tokens) /\ PermCovers(tokens, {";"}, a, b, i)
      /\ PermPipeline(SubSeq(tokens, a, b)) = "allow"
<1>1.
  PICK a \in Nat : \E b \in Nat :
     /\ 1 <= a /\ a <= b /\ b <= Len(tokens) /\ PermCovers(tokens, {";"}, a, b, i)
     /\ IF PermSeveral(tokens, {";"})
        THEN SubSeq(tokens, a, b) \in PermParts(tokens, {";"})
        ELSE a = 1 /\ b = Len(tokens)
 <2>1. tokens[i] \notin {";"} OBVIOUS
 <2> QED BY <2>1, PermLevel
<1>2.
  PICK b \in Nat :
     /\ 1 <= a /\ a <= b /\ b <= Len(tokens) /\ PermCovers(tokens, {";"}, a, b, i)
     /\ IF PermSeveral(tokens, {";"})
        THEN SubSeq(tokens, a, b) \in PermParts(tokens, {";"})
        ELSE a = 1 /\ b = Len(tokens)
  BY <1>1
<1>3. ASSUME PermSeveral(tokens, {";"})
  PROVE PermPipeline(SubSeq(tokens, a, b)) = "allow"
 <2> DEFINE verdicts == {PermPipeline(part) : part \in PermParts(tokens, {";"})}
 <2>1. PermWorst(verdicts) = "allow" BY <1>3 DEF PermClassify
 <2>2. verdicts \in SUBSET PermBehaviors BY PermPipelineType, PermPartTypes
 <2>3. PermPipeline(SubSeq(tokens, a, b)) \in verdicts BY <1>2, <1>3
 <2> HIDE DEF verdicts
 <2> QED BY <2>1, <2>2, <2>3, PermWorstAllows
<1>4. ASSUME ~ PermSeveral(tokens, {";"})
  PROVE PermPipeline(SubSeq(tokens, a, b)) = "allow"
 <2>1. PermPipeline(tokens) = "allow" BY <1>4 DEF PermClassify
 <2>2. SubSeq(tokens, a, b) = tokens BY <1>2, <1>4, PermWholePiece
 <2> QED BY <2>1, <2>2
<1> QED BY <1>2, <1>3, <1>4

\* What is joined through a piece is joined in the whole.
LEMMA PermPieceJoined ==
  ASSUME NEW tokens \in Seq(PermTokens), NEW operators, NEW a \in Nat, NEW b \in Nat,
    1 <= a, a <= b, b <= Len(tokens),
    NEW k \in Nat, a <= k, k <= b, NEW i \in Nat, a <= i, i <= b
  PROVE
    PermJoined(SubSeq(tokens, a, b), operators, k - a + 1, i - a + 1)
      <=> PermJoined(tokens, operators, k, i)
<1>1. PICK part : part = SubSeq(tokens, a, b) OBVIOUS
<1>2. \A m \in Nat : a <= m /\ m <= b => part[m - a + 1] = tokens[m] BY <1>1, PermPiece
<1>3. ASSUME PermJoined(part, operators, k - a + 1, i - a + 1),
    NEW m \in Nat, (k <= m /\ m <= i) \/ (i <= m /\ m <= k)
  PROVE tokens[m] \notin operators
 <2>1. a <= m /\ m <= b BY <1>3
 <2>2.
   /\ m - a + 1 \in Nat
   /\ \/ k - a + 1 <= m - a + 1 /\ m - a + 1 <= i - a + 1
      \/ i - a + 1 <= m - a + 1 /\ m - a + 1 <= k - a + 1
   BY <1>3, <2>1
 <2>3. part[m - a + 1] \notin operators BY <1>3, <2>2 DEF PermJoined
 <2> QED BY <1>2, <2>1, <2>3
<1>4. ASSUME PermJoined(tokens, operators, k, i),
    NEW m \in Nat,
    \/ k - a + 1 <= m /\ m <= i - a + 1
    \/ i - a + 1 <= m /\ m <= k - a + 1
  PROVE part[m] \notin operators
 <2>1. PICK j \in Nat : j = a + m - 1 BY DEF PermJoined
 <2>2. a <= j /\ j <= b /\ m = j - a + 1 /\ ((k <= j /\ j <= i) \/ (i <= j /\ j <= k))
   BY <1>4, <2>1
 <2>3. tokens[j] \notin operators BY <1>4, <2>2 DEF PermJoined
 <2> QED BY <1>2, <2>2, <2>3
<1> QED BY <1>1, <1>3, <1>4 DEF PermJoined

LEMMA PermJoinedBoth ==
  ASSUME NEW tokens, NEW k, NEW i
  PROVE
    PermJoined(tokens, {";", "|"}, k, i)
      <=> PermJoined(tokens, {";"}, k, i) /\ PermJoined(tokens, {"|"}, k, i)
BY DEF PermJoined

\* Where a command that is allowed is looked at: a piece that has all that no list or
\* pipeline parts from the place i, and of other words none.
PermJudgedAt(tokens, i) ==
  \E x \in Nat : \E y \in Nat :
    /\ 1 <= x /\ x <= y /\ y <= Len(tokens) /\ PermCovers(tokens, {";", "|"}, x, y, i)
    /\ PermSimple(SubSeq(tokens, x, y)) = "allow"

LEMMA PermPlaceJudged ==
  ASSUME NEW tokens \in Seq(PermTokens)
  PROVE
    \A i \in Nat : (/\ PermClassify(tokens) = "allow"
                    /\ 1 <= i /\ i <= Len(tokens) /\ tokens[i] \notin {";", "|"})
                   => PermJudgedAt(tokens, i)
<1>a. SUFFICES ASSUME NEW i \in Nat, PermClassify(tokens) = "allow",
    1 <= i, i <= Len(tokens), tokens[i] \notin {";", "|"}
  PROVE PermJudgedAt(tokens, i)
  OBVIOUS
<1>0. PICK n \in Nat : n = Len(tokens) BY PermNumbers
<1>1.
  PICK a \in Nat : \E b \in Nat :
     /\ 1 <= a /\ a <= b /\ b <= Len(tokens) /\ PermCovers(tokens, {";"}, a, b, i)
     /\ PermPipeline(SubSeq(tokens, a, b)) = "allow"
  BY <1>a, PermListAllows
<1>2.
  PICK b \in Nat :
     /\ 1 <= a /\ a <= b /\ b <= Len(tokens) /\ PermCovers(tokens, {";"}, a, b, i)
     /\ PermPipeline(SubSeq(tokens, a, b)) = "allow"
  BY <1>1
<1>3. PICK part : part = SubSeq(tokens, a, b) OBVIOUS
<1>4.
  /\ part \in Seq(PermTokens) /\ part # <<>> /\ Len(part) = b - a + 1
  /\ \A k \in Nat : a <= k /\ k <= b => part[k - a + 1] = tokens[k]
 <2>1.
   /\ SubSeq(tokens, a, b) \in Seq(PermTokens) /\ SubSeq(tokens, a, b) # <<>>
   /\ Len(SubSeq(tokens, a, b)) = b - a + 1
   /\ \A k \in Nat : a <= k /\ k <= b =>
        SubSeq(tokens, a, b)[k - a + 1] = tokens[k]
   BY <1>2, PermPiece
 <2> QED BY <2>1, <1>3
<1>5. 1 <= a /\ a <= i /\ i <= b /\ b <= n /\ a <= b BY <1>0, <1>2 DEF PermCovers
<1>6. PICK p \in Nat : p = i - a + 1 /\ 1 <= p /\ p <= b - a + 1 BY <1>5
<1>7. part[p] # "|" /\ p <= Len(part)
 <2>1. part[p] = tokens[i] BY <1>4, <1>5, <1>6
 <2> QED BY <1>a, <1>4, <1>6, <2>1
<1>8. PermPipeline(part) = "allow" BY <1>2, <1>3
<1>9.
  PICK c \in Nat : \E d \in Nat :
     /\ 1 <= c /\ c <= d /\ d <= Len(part) /\ PermCovers(part, {"|"}, c, d, p)
     /\ PermSimple(SubSeq(part, c, d)) = "allow"
  BY <1>4, <1>6, <1>7, <1>8, PermPipelineAllows
<1>10.
  PICK d \in Nat :
    /\ 1 <= c /\ c <= d /\ d <= Len(part) /\ PermCovers(part, {"|"}, c, d, p)
    /\ PermSimple(SubSeq(part, c, d)) = "allow"
  BY <1>9
<1>11. 1 <= c /\ c <= p /\ p <= d /\ d <= b - a + 1 BY <1>4, <1>10 DEF PermCovers
<1>12. PICK x \in Nat : x = a + c - 1 BY <1>5, <1>11
<1>13. PICK y \in Nat : y = a + d - 1 BY <1>5, <1>11
<1>14. a <= x /\ x <= i /\ i <= y /\ y <= b /\ 1 <= x /\ x <= y /\ y <= n
  BY <1>5, <1>6, <1>11, <1>12, <1>13
<1>15. SubSeq(part, c, d) = SubSeq(tokens, x, y)
 <2>1. c <= d BY <1>11
 <2> QED BY <1>0, <1>3, <1>5, <1>11, <1>12, <1>13, <2>1, PermPieceOfPiece
<1>16. ASSUME NEW k \in Nat, a <= k, k <= b
  PROVE PermJoined(part, {"|"}, k - a + 1, p) <=> PermJoined(tokens, {"|"}, k, i)
  BY <1>0, <1>3, <1>5, <1>6, <1>16, PermPieceJoined
<1>17. ASSUME NEW k \in Nat, x <= k, k <= y
  PROVE tokens[k] \notin {";", "|"} => PermJoined(tokens, {";", "|"}, k, i)
 <2>a. SUFFICES ASSUME tokens[k] \notin {";", "|"}
   PROVE PermJoined(tokens, {";", "|"}, k, i)
   OBVIOUS
 <2>1. a <= k /\ k <= b BY <1>14, <1>17
 <2>2. PermJoined(tokens, {";"}, k, i)
  <3>1. tokens[k] \notin {";"} BY <2>a
  <3> QED BY <1>2, <2>1, <3>1 DEF PermCovers
 <2>3. PICK q \in Nat : q = k - a + 1 /\ c <= q /\ q <= d BY <1>12, <1>13, <1>17, <2>1
 <2>4. part[q] \notin {"|"} BY <1>4, <2>a, <2>1, <2>3
 <2>5. PermJoined(part, {"|"}, q, p) BY <1>10, <2>3, <2>4 DEF PermCovers
 <2>6. PermJoined(tokens, {"|"}, k, i) BY <1>16, <2>1, <2>3, <2>5
 <2> QED BY <2>2, <2>6, PermJoinedBoth
<1>18. ASSUME NEW k \in Nat, 1 <= k, k <= n, PermJoined(tokens, {";", "|"}, k, i)
  PROVE x <= k /\ k <= y
 <2>1. PermJoined(tokens, {";"}, k, i) /\ PermJoined(tokens, {"|"}, k, i)
   BY <1>18, PermJoinedBoth
 <2>2. a <= k /\ k <= b BY <1>0, <1>2, <1>18, <2>1 DEF PermCovers
 <2>3. PICK q \in Nat : q = k - a + 1 /\ 1 <= q /\ q <= b - a + 1 BY <2>2
 <2>4. PermJoined(part, {"|"}, q, p) BY <1>16, <2>1, <2>2, <2>3
 <2>5. q <= Len(part) BY <1>4, <2>3
 <2>6. c <= q /\ q <= d BY <1>10, <2>3, <2>4, <2>5 DEF PermCovers
 <2> QED BY <1>12, <1>13, <2>3, <2>6
<1>19. PermCovers(tokens, {";", "|"}, x, y, i) BY <1>0, <1>14, <1>17, <1>18 DEF PermCovers
<1>20. PermSimple(SubSeq(tokens, x, y)) = "allow" BY <1>10, <1>15
<1> QED BY <1>0, <1>14, <1>19, <1>20 DEF PermJudgedAt

LEMMA PermPrivilegedFirst ==
  ASSUME NEW part \in Seq(PermTokens), PermFirst(part, PermWords(part)) = "sudo"
  PROVE
    \E i \in PermWords(part) :
      part[i] = "sudo" /\ \A k \in PermWords(part) : k <= i => part[k] \in PermWrappers
<1> DEFINE words == PermWords(part)
  f == PermFirstPlace(words)
<1>1. words \in SUBSET (DOMAIN part) BY DEF PermWords
<1>2. words # {} BY DEF PermFirst
<1>3. f \in words /\ (\A k \in words : f <= k) /\ part[f] = "sudo"
 <2> HIDE DEF words
 <2>1.
   /\ f \in words /\ \A k \in words : f <= k
   /\ PermFirst(part, words) = part[f]
   BY <1>1, <1>2, PermFirstPlaceIs
 <2> QED BY <2>1 DEF words
<1>4. \A k \in words : k \in Nat BY <1>1, PermNumbers
<1> HIDE DEF f
<1>5. \A k \in words : k <= f => k = f
 <2> HIDE DEF words
 <2> QED BY <1>3, <1>4
<1>6. "sudo" \in PermWrappers BY DEF PermWrappers
<1> QED BY <1>3, <1>5, <1>6

\* The front of a part is the front of the piece it is judged in.
LEMMA PermFrontJudged ==
  ASSUME NEW tokens \in Seq(PermTokens), NEW s \in Nat, NEW t \in Nat,
    1 <= s, s <= t, t <= Len(tokens)
  PROVE
    PermCovers(tokens, {";", "|"}, s, t, s) /\ PermJudgedAt(tokens, s)
      => PermEffectiveFirst(SubSeq(tokens, s, t)) \in PermHarmlessWords
<1>a. SUFFICES ASSUME PermCovers(tokens, {";", "|"}, s, t, s), PermJudgedAt(tokens, s)
  PROVE PermEffectiveFirst(SubSeq(tokens, s, t)) \in PermHarmlessWords
  OBVIOUS
<1>1.
  PICK a \in Nat : \E b \in Nat :
     /\ 1 <= a /\ a <= b /\ b <= Len(tokens) /\ PermCovers(tokens, {";", "|"}, a, b, s)
     /\ PermSimple(SubSeq(tokens, a, b)) = "allow"
  BY <1>a DEF PermJudgedAt
<1>2.
  PICK b \in Nat :
     /\ 1 <= a /\ a <= b /\ b <= Len(tokens) /\ PermCovers(tokens, {";", "|"}, a, b, s)
     /\ PermSimple(SubSeq(tokens, a, b)) = "allow"
  BY <1>1
<1>3. PICK part : part = SubSeq(tokens, s, t) OBVIOUS
<1>4. PICK piece : piece = SubSeq(tokens, a, b) OBVIOUS
<1>5.
  /\ part \in Seq(PermTokens) /\ Len(part) = t - s + 1
  /\ \A k \in Nat : s <= k /\ k <= t => part[k - s + 1] = tokens[k]
  BY <1>3, PermPiece
<1>6.
  /\ piece \in Seq(PermTokens) /\ piece # <<>> /\ Len(piece) = b - a + 1
  /\ \A k \in Nat : a <= k /\ k <= b => piece[k - a + 1] = tokens[k]
 <2>1.
   /\ SubSeq(tokens, a, b) \in Seq(PermTokens) /\ SubSeq(tokens, a, b) # <<>>
   /\ Len(SubSeq(tokens, a, b)) = b - a + 1
   /\ \A k \in Nat : a <= k /\ k <= b =>
        SubSeq(tokens, a, b)[k - a + 1] = tokens[k]
   BY <1>2, PermPiece
 <2> QED BY <2>1, <1>4
<1>7. PICK i \in Nat : 1 <= i /\ i <= Len(piece) /\ PermHarmlessAt(piece, i)
  BY <1>2, <1>4, <1>6, PermSimpleAllows
<1>8. PICK g \in Nat : g = a + i - 1 /\ a <= g /\ g <= b BY <1>6, <1>7
<1>9. piece[i] = tokens[g]
 <2>1. g - a + 1 = i BY <1>8
 <2> QED BY <1>6, <1>8, <2>1
<1>10.
  /\ PermIsWord(tokens[g]) /\ tokens[g] \notin PermWrappers
  /\ tokens[g] \in PermHarmlessWords /\ tokens[g] \notin {";", "|"}
  BY <1>7, <1>9 DEF PermHarmlessAt, PermLeads, PermIsWord, PermOperators
<1>11. s <= g /\ g <= t
 <2>1. PermJoined(tokens, {";", "|"}, g, s) BY <1>2, <1>8, <1>10 DEF PermCovers
 <2>2. PICK n \in Nat : n = Len(tokens) BY PermNumbers
 <2>3. 1 <= g /\ g <= n
  <3>1. 1 <= a /\ b <= n BY <1>2, <2>2
  <3> QED BY <1>8, <3>1
 <2> QED BY <1>a, <2>1, <2>2, <2>3 DEF PermCovers
<1>12. PICK h \in Nat : h = g - s + 1 /\ 1 <= h /\ h <= t - s + 1 BY <1>11
<1>13. part[h] = tokens[g] BY <1>5, <1>11, <1>12
<1>14. ASSUME NEW k \in Nat, 1 <= k, k < h
  PROVE PermIsWord(part[k]) => part[k] \in PermWrappers
 <2>a. SUFFICES ASSUME PermIsWord(part[k])
   PROVE part[k] \in PermWrappers
   OBVIOUS
 <2>1. PICK e \in Nat : e = s + k - 1 /\ s <= e /\ e < g /\ e <= t BY <1>11, <1>12, <1>14
 <2>2. part[k] = tokens[e]
  <3>1. e - s + 1 = k BY <2>1
  <3> QED BY <1>5, <2>1, <3>1
 <2>3. tokens[e] \notin {";", "|"} BY <2>a, <2>2 DEF PermIsWord, PermOperators
 <2>4. PermJoined(tokens, {";", "|"}, e, s) BY <1>a, <2>1, <2>3 DEF PermCovers
 <2>5. PICK n \in Nat : n = Len(tokens) BY PermNumbers
 <2>6. 1 <= e /\ e <= n BY <2>1, <2>5
 <2>7. a <= e /\ e <= b BY <1>2, <2>4, <2>5, <2>6 DEF PermCovers
 <2>8. PICK l \in Nat : l = e - a + 1 /\ 1 <= l /\ l < i BY <1>8, <2>1, <2>7
 <2>9. piece[l] = tokens[e] BY <1>6, <2>7, <2>8
 <2>10. PermIsWord(piece[l]) /\ PermLeads(piece, i) BY <2>a, <1>7, <2>2, <2>9 DEF PermHarmlessAt
 <2>11. piece[l] \in PermWrappers BY <2>8, <2>10 DEF PermLeads
 <2> QED BY <2>2, <2>9, <2>11
<1>15. PermLeads(part, h) BY <1>10, <1>13, <1>14 DEF PermLeads
<1>16. PermEffectiveFirst(part) = part[h]
 <2>1. h <= Len(part) BY <1>5, <1>12
 <2> QED BY <1>5, <1>12, <1>15, <2>1, PermLed
<1> QED BY <1>3, <1>10, <1>13, <1>16

LEMMA PermRedirectJudged ==
  ASSUME NEW tokens \in Seq(PermTokens), NEW i \in Nat, 1 <= i, i + 1 <= Len(tokens)
  PROVE
    (PermJudgedAt(tokens, i) /\ tokens[i] = ">" /\ PermIsWord(tokens[i + 1]))
      => tokens[i + 1] = "null"
<1>a. SUFFICES ASSUME PermJudgedAt(tokens, i), tokens[i] = ">", PermIsWord(tokens[i + 1])
  PROVE tokens[i + 1] = "null"
  OBVIOUS
<1>0. PICK n \in Nat : n = Len(tokens) BY PermNumbers
<1>1.
  PICK a \in Nat : \E b \in Nat :
     /\ 1 <= a /\ a <= b /\ b <= Len(tokens) /\ PermCovers(tokens, {";", "|"}, a, b, i)
     /\ PermSimple(SubSeq(tokens, a, b)) = "allow"
  BY <1>a DEF PermJudgedAt
<1>2.
  PICK b \in Nat :
     /\ 1 <= a /\ a <= b /\ b <= Len(tokens) /\ PermCovers(tokens, {";", "|"}, a, b, i)
     /\ PermSimple(SubSeq(tokens, a, b)) = "allow"
  BY <1>1
<1>3. PermJoined(tokens, {";", "|"}, i + 1, i)
 <2>1. tokens[i] \notin {";", "|"} /\ tokens[i + 1] \notin {";", "|"}
   BY <1>a DEF PermIsWord, PermOperators
 <2>2. \A m \in Nat : (i + 1 <= m /\ m <= i) \/ (i <= m /\ m <= i + 1) => m = i \/ m = i + 1
   OBVIOUS
 <2> QED BY <2>1, <2>2 DEF PermJoined
<1>4. a <= i /\ i + 1 <= b
 <2>1. i + 1 \in Nat /\ 1 <= i + 1 /\ i + 1 <= n BY <1>0
 <2> QED BY <1>0, <1>2, <1>3, <2>1 DEF PermCovers
<1>5. PICK piece : piece = SubSeq(tokens, a, b) OBVIOUS
<1>6.
  /\ piece \in Seq(PermTokens) /\ piece # <<>> /\ Len(piece) = b - a + 1
  /\ \A k \in Nat : a <= k /\ k <= b => piece[k - a + 1] = tokens[k]
 <2>1.
   /\ SubSeq(tokens, a, b) \in Seq(PermTokens) /\ SubSeq(tokens, a, b) # <<>>
   /\ Len(SubSeq(tokens, a, b)) = b - a + 1
   /\ \A k \in Nat : a <= k /\ k <= b =>
        SubSeq(tokens, a, b)[k - a + 1] = tokens[k]
   BY <1>2, PermPiece
 <2> QED BY <2>1, <1>5
<1>7. PermSafeRedirects(piece) BY <1>2, <1>5, <1>6, PermSimpleAllows
<1>8. PICK l \in Nat : l = i - a + 1 /\ 1 <= l /\ l + 1 <= b - a + 1 BY <1>4
<1>9. piece[l] = tokens[i]
 <2>1. i <= b BY <1>4
 <2> QED BY <1>4, <1>6, <1>8, <2>1
<1>10. piece[l + 1] = tokens[i + 1]
 <2>1. i + 1 \in Nat /\ a <= i + 1 /\ i + 1 <= b /\ (i + 1) - a + 1 = l + 1 BY <1>4, <1>8
 <2>2. piece[(i + 1) - a + 1] = tokens[i + 1] BY <1>6, <2>1
 <2> QED BY <2>1, <2>2
<1>11. l + 1 <= Len(piece) BY <1>6, <1>8
<1> QED BY <1>a, <1>7, <1>8, <1>9, <1>10, <1>11 DEF PermSafeRedirects

LEMMA PermOrder == \A l, m, n \in Nat : l <= l /\ (l <= m /\ m <= n => l <= n)
OBVIOUS

\* A shell command of any length that is allowed without a question is harmless.
LEMMA PermAllowsHarmless ==
  ASSUME NEW tokens \in Seq(PermTokens)
  PROVE PermClassify(tokens) = "allow" => PermHarmless(tokens)
<1>a. SUFFICES ASSUME PermClassify(tokens) = "allow"
  PROVE PermHarmless(tokens)
  OBVIOUS
<1> DEFINE cuts == {";", "|"}
<1>b.
  \A span \in PermSpans(tokens, cuts) : \E s \in Nat : \E t \in Nat :
    /\ span[1] = s /\ span[2] = t /\ 1 <= s /\ s <= t /\ t <= Len(tokens)
    /\ \A k \in Nat : s <= k /\ k <= t => tokens[k] \notin cuts
    /\ s = 1 \/ tokens[s - 1] \in cuts
    /\ t = Len(tokens) \/ tokens[t + 1] \in cuts
 <2> HIDE DEF cuts
 <2> QED BY PermSpanNumbers
<1>1. ASSUME NEW span \in PermSpans(tokens, {";", "|"})
  PROVE
    /\ PermEffectiveFirst(PermPart(tokens, span)) \in {"view", "make"}
    /\ PermFirst(PermPart(tokens, span), PermWords(PermPart(tokens, span))) # "sudo"
 <2>1.
   PICK s \in Nat : \E t \in Nat :
      /\ span[1] = s /\ span[2] = t /\ 1 <= s /\ s <= t /\ t <= Len(tokens)
      /\ \A k \in Nat : s <= k /\ k <= t => tokens[k] \notin {";", "|"}
      /\ s = 1 \/ tokens[s - 1] \in {";", "|"}
      /\ t = Len(tokens) \/ tokens[t + 1] \in {";", "|"}
   BY <1>b
 <2>2.
   PICK t \in Nat :
      /\ span[1] = s /\ span[2] = t /\ 1 <= s /\ s <= t /\ t <= Len(tokens)
      /\ \A k \in Nat : s <= k /\ k <= t => tokens[k] \notin {";", "|"}
      /\ s = 1 \/ tokens[s - 1] \in {";", "|"}
      /\ t = Len(tokens) \/ tokens[t + 1] \in {";", "|"}
   BY <2>1
 <2>3. s <= s BY PermOrder
 <2>4. PermCovers(tokens, {";", "|"}, s, t, s) BY <2>2, <2>3, PermSpanWhole
 <2>5. PermJudgedAt(tokens, s)
  <3>1. tokens[s] \notin {";", "|"} BY <2>2, <2>3
  <3>2. s <= Len(tokens)
   <4>1. Len(tokens) \in Nat BY Indices
   <4> QED BY <2>2, <4>1, PermOrder
  <3> QED BY <2>2, <3>1, <3>2, <1>a, PermPlaceJudged
 <2>6. PermEffectiveFirst(PermPart(tokens, span)) \in PermHarmlessWords
   BY <2>2, <2>4, <2>5, PermFrontJudged DEF PermPart
 <2>7. PermPart(tokens, span) \in PermAllParts(tokens) BY DEF PermAllParts, PermParts
 <2>8. ~ PermPrivileged(tokens) BY <1>a DEF PermClassify, PermWarned
 <2>9. PermPart(tokens, span) \in Seq(PermTokens) BY <2>2, PermPiece DEF PermPart
 <2> QED BY <2>6, <2>7, <2>8, <2>9, PermPrivilegedFirst DEF PermHarmlessWords, PermPrivileged
<1>2. ASSUME NEW i \in 1 .. Len(tokens) - 1
  PROVE tokens[i] = ">" /\ PermIsWord(tokens[i + 1]) => tokens[i + 1] = "null"
 <2>1. PICK n \in Nat : n = Len(tokens) BY PermNumbers
 <2>2. PICK j \in Nat : j = i /\ 1 <= j /\ j + 1 <= n /\ j <= n BY <2>1
 <2>3. tokens[j] = ">" => PermJudgedAt(tokens, j)
  <3> SUFFICES ASSUME tokens[j] = ">"
    PROVE PermJudgedAt(tokens, j)
    OBVIOUS
  <3>1. tokens[j] \notin {";", "|"} OBVIOUS
  <3> QED BY <2>1, <2>2, <3>1, <1>a, PermPlaceJudged
 <2>4. tokens[j] = ">" /\ PermIsWord(tokens[j + 1]) => tokens[j + 1] = "null"
   BY <2>1, <2>2, <2>3, PermRedirectJudged
 <2> QED BY <2>2, <2>4
<1>3.
  \A part \in PermParts(tokens, {";", "|"}) :
    /\ PermEffectiveFirst(part) \in {"view", "make"}
    /\ PermFirst(part, PermWords(part)) # "sudo"
  BY <1>1 DEF PermParts
<1> QED BY <1>2, <1>3 DEF PermHarmless

PermRuleSet == [behavior: PermBehaviors, matches: BOOLEAN]

\* What the rules up to n say, and what is made of it.
PermSaid(rules, n) == {rules[i].behavior : i \in {j \in 1 .. n : rules[j].matches}}
PermAnswer(said) ==
  IF "deny" \in said THEN "deny" ELSE IF "ask" \in said THEN "ask"
  ELSE IF "allow" \in said THEN "allow" ELSE "none"

PermStep(best, rule) ==
  IF ~ rule.matches \/ best = "deny" THEN best
  ELSE IF rule.behavior = "deny" THEN "deny"
  ELSE IF rule.behavior = "ask" /\ best \in {"none", "allow"} THEN "ask"
  ELSE IF rule.behavior = "allow" /\ best = "none" THEN "allow"
  ELSE best

LEMMA PermOneMore ==
  ASSUME NEW rules \in Seq(PermRuleSet), NEW n \in Nat, 1 <= n, n <= Len(rules)
  PROVE PermAnswer(PermSaid(rules, n)) = PermStep(PermAnswer(PermSaid(rules, n - 1)), rules[n])
<1>1. PICK rule : rule = rules[n] OBVIOUS
<1>2. rule.behavior \in {"deny", "ask", "allow"} /\ rule.matches \in BOOLEAN
 <2>1. rule \in PermRuleSet BY <1>1
 <2> QED BY <2>1 DEF PermRuleSet, PermBehaviors
<1>3. \A i : i \in 1 .. n <=> i \in 1 .. n - 1 \/ i = n OBVIOUS
<1>4. PICK before : before = PermSaid(rules, n - 1) OBVIOUS
<1>5. PermSaid(rules, n) = IF rule.matches THEN before \cup {rule.behavior} ELSE before
  BY <1>1, <1>3, <1>4 DEF PermSaid
<1>6. CASE ~ rule.matches BY <1>1, <1>4, <1>5, <1>6 DEF PermStep
<1>7. CASE rule.matches
 <2>1. PermSaid(rules, n) = before \cup {rule.behavior} BY <1>5, <1>7
 <2>2. PermAnswer(before \cup {rule.behavior}) = PermStep(PermAnswer(before), rule)
   BY <1>2, <1>7 DEF PermStep, PermAnswer
 <2> QED BY <1>1, <1>4, <2>1, <2>2
<1> QED BY <1>2, <1>6, <1>7

\* The loop over the rules gives the strictest of the answers of the rules that match.
LEMMA PermFoldIs ==
  ASSUME NEW rules \in Seq(PermRuleSet)
  PROVE PermFold(rules) = PermAnswer(PermSaid(rules, Len(rules)))
<1> DEFINE
  Is(f) == f = [n \in 0 .. Len(rules) |->
                  IF n = 0 THEN "none" ELSE PermStep(f[n - 1], rules[n])]
<1>1. PICK z \in Nat : z = Len(rules) OBVIOUS
<1>2. Is([n \in 0 .. Len(rules) |-> PermAnswer(PermSaid(rules, n))])
 <2>1. PICK f : f = [n \in 0 .. z |-> PermAnswer(PermSaid(rules, n))] OBVIOUS
 <2>2. ASSUME NEW n \in 0 .. z
   PROVE f[n] = IF n = 0 THEN "none" ELSE PermStep(f[n - 1], rules[n])
  <3>1. CASE n = 0
   <4>1. PermSaid(rules, 0) = {} BY DEF PermSaid
   <4> QED BY <2>1, <3>1, <4>1 DEF PermAnswer
  <3>2. CASE n # 0
   <4>1. n \in Nat /\ 1 <= n /\ n <= z /\ n - 1 \in 0 .. z BY <3>2
   <4>2. f[n] = PermAnswer(PermSaid(rules, n)) /\ f[n - 1] = PermAnswer(PermSaid(rules, n - 1))
     BY <2>1, <4>1
   <4>3. PermAnswer(PermSaid(rules, n))
           = PermStep(PermAnswer(PermSaid(rules, n - 1)), rules[n])
     BY <1>1, <4>1, PermOneMore
   <4> QED BY <3>2, <4>2, <4>3
  <3> QED BY <3>1, <3>2
 <2>3. f = [n \in 0 .. z |-> IF n = 0 THEN "none" ELSE PermStep(f[n - 1], rules[n])]
   BY <2>1, <2>2
 <2> QED BY <1>1, <2>1, <2>3
<1>3. PICK after : after = (CHOOSE f : Is(f)) /\ Is(after)
 <2> HIDE DEF Is
 <2> QED BY <1>2
<1>4. PermFold(rules) = after[z] BY <1>1, <1>3 DEF PermFold, PermStep
<1> DEFINE T == {n \in Nat : n <= z => after[n] = PermAnswer(PermSaid(rules, n))}
<1>5. 0 \in T
 <2>1. after[0] = "none" BY <1>1, <1>3
 <2>2. PermSaid(rules, 0) = {} BY DEF PermSaid
 <2> QED BY <2>1, <2>2 DEF PermAnswer
<1>6. ASSUME NEW n \in Nat, n \in T
  PROVE n + 1 \in T
 <2> SUFFICES ASSUME n + 1 <= z
   PROVE after[n + 1] = PermAnswer(PermSaid(rules, n + 1))
   OBVIOUS
 <2>1. PICK m \in Nat : m = n + 1 /\ 1 <= m /\ m <= z /\ m \in 0 .. z /\ m # 0 /\ m - 1 = n /\ n <= z
   OBVIOUS
 <2>2. after[m] = PermStep(after[m - 1], rules[m]) BY <1>1, <1>3, <2>1
 <2>3. after[n] = PermAnswer(PermSaid(rules, n)) BY <1>6, <2>1
 <2>4. PermAnswer(PermSaid(rules, m)) = PermStep(PermAnswer(PermSaid(rules, m - 1)), rules[m])
   BY <1>1, <2>1, PermOneMore
 <2> QED BY <2>1, <2>2, <2>3, <2>4
<1>7. Nat \subseteq T
 <2> HIDE DEF T
 <2> QED BY <1>5, <1>6, EveryNumber
<1>8. z <= z /\ z \in T BY <1>7
<1> QED BY <1>1, <1>4, <1>8

\* rankPermission picks the same.
LEMMA PermAnswerWorst ==
  ASSUME NEW said \in SUBSET PermBehaviors
  PROVE
    /\ said = {} => PermAnswer(said) = "none"
    /\ said # {} => PermAnswer(said) = PermWorst(said) /\ PermAnswer(said) # "none"
<1>1. CASE said = {} BY <1>1 DEF PermAnswer
<1>2. CASE said # {}
 <2>1.
   /\ PermWorst(said) \in said
   /\ \A c \in said : PermRank[c] <= PermRank[PermWorst(said)]
   BY <1>2, PermWorstIs
 <2>2. PermWorst(said) = "deny" \/ PermWorst(said) = "ask" \/ PermWorst(said) = "allow"
   BY <2>1, PermRanks
 <2>3. ~ (2 <= 1) /\ ~ (2 <= 0) /\ ~ (1 <= 0) OBVIOUS
 <2> QED BY <1>2, <2>1, <2>2, <2>3, PermRanks DEF PermAnswer
<1> QED BY <1>1, <1>2

PermInv ==
  /\ permTokens \in Seq(PermTokens) /\ permRules \in Seq(PermRuleSet)
  /\ permTokens # <<>> => permCall = PermCommandCall /\ permRules = <<>>

\* A question is about a command or about a call and rules, never about both.
THEOREM PermInvariant == PermSpec => []PermInv
<1>1. PermInit => PermInv
 <2>1. <<>> \in Seq(PermTokens) /\ <<>> \in Seq(PermRuleSet) BY EmptySeq
 <2> QED BY <2>1 DEF PermInit, PermInv
<1>2. PermInv /\ [PermNext]_permVars => PermInv'
 <2> SUFFICES ASSUME PermInv, [PermNext]_permVars
   PROVE PermInv'
   OBVIOUS
 <2>1. CASE PermType
  <3>1. PICK token \in PermTokens : permTokens' = Append(permTokens, token) BY <2>1 DEF PermType
  <3>2. permTokens' \in Seq(PermTokens) BY <3>1, AppendProperties DEF PermInv
  <3> QED BY <2>1, <3>2 DEF PermType, PermInv
 <2>2. CASE PermAskCall BY <2>2 DEF PermAskCall, PermInv
 <2>3. CASE PermAddRule
  <3>1. PICK rule \in PermRuleSet : permRules' = Append(permRules, rule)
    BY <2>3 DEF PermAddRule, PermRuleSet
  <3>2. permRules' \in Seq(PermRuleSet) BY <3>1, AppendProperties DEF PermInv
  <3> QED BY <2>3, <3>2 DEF PermAddRule, PermInv
 <2>4. CASE UNCHANGED permVars BY <2>4 DEF permVars, PermInv
 <2> QED BY <2>1, <2>2, <2>3, <2>4 DEF PermNext
<1> QED BY <1>1, <1>2, PTL DEF PermSpec

\* For commands of any length and any number of rules: a shell command runs without a
\* question only if every command in it is harmless, and the strictest of the rules that
\* match decides, whatever their order (classifier.ts:178, engine.ts:182).
THEOREM VerdictsAreJustified == PermSpec => []PermVerdictJustified
<1>1. PermInv => PermVerdictJustified
 <2> SUFFICES ASSUME PermInv
   PROVE PermVerdictJustified
   OBVIOUS
 <2> DEFINE judgement == PermCheck(permCall, permRules, permTokens)
   matching == {permRules[i].behavior : i \in {j \in DOMAIN permRules : permRules[j].matches}}
   forbidden == PermSystemPath(permCall.tool, permCall.path)
                  \/ PermHardened(permCall.tool, permCall.path)
 <2>1. permTokens \in Seq(PermTokens) /\ permRules \in Seq(PermRuleSet) BY DEF PermInv
 <2>2. PermFold(permRules) = PermAnswer(matching) /\ matching \in SUBSET PermBehaviors
  <3>1. DOMAIN permRules = 1 .. Len(permRules) BY <2>1, Indices
  <3>2. matching = PermSaid(permRules, Len(permRules)) BY <3>1 DEF PermSaid
  <3>3. \A i \in DOMAIN permRules : permRules[i].behavior \in PermBehaviors
   <4>1. \A i \in DOMAIN permRules : permRules[i] \in PermRuleSet BY <2>1, <3>1
   <4>2. \A rule \in PermRuleSet : rule.behavior \in PermBehaviors BY DEF PermRuleSet
   <4> QED BY <4>1, <4>2
  <3> QED BY <2>1, <3>2, <3>3, PermFoldIs
 <2>3.
   /\ matching = {} => PermFold(permRules) = "none"
   /\ matching # {} => PermFold(permRules) = PermWorst(matching) /\ PermFold(permRules) # "none"
  <3> HIDE DEF matching
  <3> QED BY <2>2, PermAnswerWorst
 <2>4. ASSUME permTokens # <<>>, judgement = "allow"
   PROVE PermHarmless(permTokens)
  <3>1. permCall = PermCommandCall /\ permRules = <<>> BY <2>4 DEF PermInv
  <3>2. permCall.mode = "default" /\ permCall.tool = "Bash" /\ permCall.path = PermNowhere
    BY <3>1 DEF PermCommandCall
  <3>3. ~ forbidden BY <3>2 DEF PermSystemPath, PermHardened, PermGuarded, PermNowhere
  <3>4. PermFold(permRules) = "none"
   <4>1. matching = {} BY <3>1
   <4> QED BY <2>3, <4>1
  <3>5. judgement = PermDefault(permCall, permTokens) BY <3>2, <3>3, <3>4 DEF PermCheck
  <3>6. PermClassify(permTokens) = "allow" BY <2>4, <3>2, <3>5 DEF PermDefault
  <3> QED BY <2>1, <3>6, PermAllowsHarmless
 <2>5. ASSUME permCall.mode = "default", matching # {}
   PROVE judgement = IF forbidden THEN "deny" ELSE PermWorst(matching)
  <3>1. PermFold(permRules) = PermWorst(matching) /\ PermFold(permRules) # "none" BY <2>3, <2>5
  <3>2. permCall.mode # "acceptAll" /\ permCall.mode # "denyAll" BY <2>5
  <3>3. CASE forbidden BY <3>2, <3>3 DEF PermCheck
  <3>4. CASE ~ forbidden
   <4>1. judgement = PermFold(permRules) BY <3>1, <3>2, <3>4 DEF PermCheck
   <4> QED BY <3>1, <3>4, <4>1
  <3> QED BY <3>3, <3>4
 <2> QED BY <2>4, <2>5 DEF PermVerdictJustified
<1> QED BY <1>1, PermInvariant, PTL

\* What FileEdit makes of a text (TextEdits): first the recursion on the text, then where
\* a piece is found, then what replacing it gives, and last the preview and its table.

\* The quotes of a text taken for straight ones.
LEMMA TxtFlatQuotesType ==
  ASSUME NEW text \in Seq(TxtCharacters)
  PROVE
    /\ TxtFlatQuotes(text) \in Seq(TxtCharacters) /\ Len(TxtFlatQuotes(text)) = Len(text)
    /\ \A i \in 1 .. Len(text) :
         TxtFlatQuotes(text)[i] = IF text[i] = "L" THEN "s" ELSE text[i]
<1> DEFINE f == [i \in DOMAIN text |-> IF text[i] = "L" THEN "s" ELSE text[i]]
<1>1.
  /\ Len(text) \in Nat /\ DOMAIN text = 1 .. Len(text)
  /\ \A i \in DOMAIN text : text[i] \in TxtCharacters
  BY Indices
<1>2. f \in [1 .. Len(text) -> TxtCharacters] BY <1>1 DEF TxtCharacters
<1>3. \A i \in 1 .. Len(text) : f[i] = IF text[i] = "L" THEN "s" ELSE text[i] BY <1>1
<1>4. TxtFlatQuotes(text) = f BY DEF TxtFlatQuotes
<1> HIDE DEF f
<1>5. f \in Seq(TxtCharacters) /\ Len(f) = Len(text) BY <1>1, <1>2, FromFunction
<1> QED BY <1>3, <1>4, <1>5

\* A text of plain letters only.
TxtPlain(text) == \A i \in DOMAIN text : text[i] = "a"

\* Of a text of plain letters nothing is kept, and of no other.
LEMMA TxtKeptPlain ==
  ASSUME NEW text \in Seq(TxtCharacters)
  PROVE
    /\ TxtKept(text) \in Seq(TxtCharacters)
    /\ TxtPlain(text) <=> TxtKept(text) = <<>>
<1> DEFINE p == [i \in DOMAIN text |-> IF text[i] # "a" THEN <<text[i]>> ELSE <<>>]
  r == FlattenSeq(p)
<1>1.
  /\ Len(text) \in Nat /\ DOMAIN text = 1 .. Len(text)
  /\ \A i \in DOMAIN text : text[i] \in TxtCharacters
  BY Indices
<1>2. TxtKept(text) = r BY DEF TxtKept
<1>3. \A i \in 1 .. Len(text) : p[i] = IF text[i] # "a" THEN <<text[i]>> ELSE <<>> BY <1>1
<1>4. p \in Seq(Seq(TxtCharacters)) /\ Len(p) = Len(text)
 <2>1. \A i \in DOMAIN text : p[i] \in Seq(TxtCharacters) BY <1>1
 <2>2. p = [i \in 1 .. Len(text) |-> p[i]] BY <1>1
 <2> HIDE DEF p
 <2>3. p \in [1 .. Len(text) -> Seq(TxtCharacters)] BY <1>1, <2>1, <2>2
 <2> QED BY <1>1, <2>3, FromFunction
<1> HIDE DEF p
<1>5. r \in Seq(TxtCharacters) /\ \E at : FlatUpTo(p, Len(p), r, at) BY <1>4, FlattenPlaces
<1>6. PICK at : FlatUpTo(p, Len(p), r, at) BY <1>5
<1> HIDE DEF r
<1>7. Len(r) \in Nat /\ (r = <<>> <=> Len(r) = 0) BY <1>5, EmptySeq, LenProperties
<1>8. ASSUME TxtPlain(text), r # <<>>
  PROVE FALSE
 <2>1. 1 \in 1 .. Len(r) BY <1>7, <1>8
 <2>2. at[1] \in 1 .. Len(text) /\ \E k \in DOMAIN p[at[1]] : r[1] = p[at[1]][k]
   BY <1>4, <1>6, <2>1 DEF FlatUpTo
 <2>3. p[at[1]] = <<>> BY <1>1, <1>3, <1>8, <2>2 DEF TxtPlain
 <2> QED BY <2>2, <2>3
<1>9. ASSUME r = <<>>, NEW i \in DOMAIN text
  PROVE text[i] = "a"
 <2> SUFFICES ASSUME text[i] # "a"
   PROVE FALSE
   OBVIOUS
 <2>1. p[i] = <<text[i]>> /\ 1 \in DOMAIN <<text[i]>>
  <3>1. p[i] = <<text[i]>> BY <1>1, <1>3
  <3> QED BY <3>1
 <2>2. i \in 1 .. Len(p) /\ 1 \in DOMAIN p[i] BY <1>1, <1>4, <2>1
 <2>3. \E j \in 1 .. Len(r) : at[j] = i BY <1>6, <2>2 DEF FlatUpTo
 <2> QED BY <1>7, <1>9, <2>3
<1> QED BY <1>2, <1>5, <1>8, <1>9 DEF TxtPlain

\* What is kept of two texts one after the other.
LEMMA TxtKeptConcat ==
  ASSUME NEW s \in Seq(TxtCharacters), NEW t \in Seq(TxtCharacters)
  PROVE TxtKept(s \o t) = TxtKept(s) \o TxtKept(t)
<1> DEFINE h == [c \in TxtCharacters |-> IF c # "a" THEN <<c>> ELSE <<>>]
<1>1. h \in [TxtCharacters -> Seq(TxtCharacters)] OBVIOUS
<1>2. ASSUME NEW w \in Seq(TxtCharacters)
  PROVE TxtKept(w) = FlatImage(h, w)
 <2>1. \A i \in DOMAIN w : w[i] \in TxtCharacters BY Indices
 <2>2. [i \in DOMAIN w |-> IF w[i] # "a" THEN <<w[i]>> ELSE <<>>] = [i \in DOMAIN w |-> h[w[i]]]
   BY <2>1
 <2> QED BY <2>2 DEF TxtKept, FlatImage
<1>3. s \o t \in Seq(TxtCharacters) BY ConcatProperties
<1>4. Keeps(h, TxtCharacters, TxtCharacters) BY <1>1 DEF Keeps
<1> HIDE DEF h
<1>5. FlatImage(h, s \o t) = FlatImage(h, s) \o FlatImage(h, t) BY <1>4, FlatImageConcat
<1> QED BY <1>2, <1>3, <1>5

\* The endings of a text written as others: nothing comes of nothing only, and a plain
\* text stays one.
LEMMA TxtWithEndingType ==
  ASSUME NEW text \in Seq(TxtCharacters), NEW ending \in {<<"n">>, <<"r", "n">>}
  PROVE
    /\ TxtWithEnding(text, ending) \in Seq(TxtCharacters)
    /\ text # <<>> => TxtWithEnding(text, ending) # <<>>
    /\ TxtPlain(text) => TxtPlain(TxtWithEnding(text, ending))
<1> DEFINE
  p == [i \in DOMAIN text |->
          IF text[i] = "n" /\ i > 1 /\ text[i - 1] = "r" THEN <<>>
          ELSE IF text[i] \in {"r", "n"} THEN ending ELSE <<text[i]>>]
  r == FlattenSeq(p)
<1>1.
  /\ Len(text) \in Nat /\ DOMAIN text = 1 .. Len(text)
  /\ \A i \in DOMAIN text : text[i] \in TxtCharacters
  BY Indices
<1>2. TxtWithEnding(text, ending) = r BY DEF TxtWithEnding
<1>3.
  \A i \in 1 .. Len(text) :
    p[i] = IF text[i] = "n" /\ i > 1 /\ text[i - 1] = "r" THEN <<>>
           ELSE IF text[i] \in {"r", "n"} THEN ending ELSE <<text[i]>>
  BY <1>1
<1>4. p \in Seq(Seq(TxtCharacters)) /\ Len(p) = Len(text)
 <2>0. ending \in Seq(TxtCharacters)
  <3>1. "n" \in TxtCharacters /\ "r" \in TxtCharacters BY DEF TxtCharacters
  <3>2. <<"n">> \in Seq(TxtCharacters) /\ <<"r", "n">> \in Seq(TxtCharacters) BY <3>1
  <3> QED BY <3>2
 <2>1. \A i \in DOMAIN text : p[i] \in Seq(TxtCharacters) BY <1>1, <2>0
 <2>2. p = [i \in 1 .. Len(text) |-> p[i]] BY <1>1
 <2> HIDE DEF p
 <2>3. p \in [1 .. Len(text) -> Seq(TxtCharacters)] BY <1>1, <2>1, <2>2
 <2> QED BY <1>1, <2>3, FromFunction
<1> HIDE DEF p
<1>5. r \in Seq(TxtCharacters) /\ \E at : FlatUpTo(p, Len(p), r, at) BY <1>4, FlattenPlaces
<1>6. PICK at : FlatUpTo(p, Len(p), r, at) BY <1>5
<1> HIDE DEF r
<1>7. Len(r) \in Nat /\ (r = <<>> <=> Len(r) = 0) /\ DOMAIN r = 1 .. Len(r)
  BY <1>5, EmptySeq, LenProperties
<1>8. ASSUME text # <<>>
  PROVE r # <<>>
 <2>1. 1 \in 1 .. Len(text) BY <1>1, <1>8, EmptySeq
 <2>2. p[1] \in {ending, <<text[1]>>}
  <3>1. p[1] = IF text[1] \in {"r", "n"} THEN ending ELSE <<text[1]>> BY <1>3, <2>1
  <3> QED BY <3>1, Zenon
 <2>3. 1 \in DOMAIN p[1] BY <2>2
 <2>4. \E j \in 1 .. Len(r) : at[j] = 1 BY <1>4, <1>6, <2>1, <2>3 DEF FlatUpTo
 <2> QED BY <1>7, <2>4
<1>9. ASSUME TxtPlain(text), NEW i \in DOMAIN r
  PROVE r[i] = "a"
 <2>1. PICK k \in DOMAIN p[at[i]] : r[i] = p[at[i]][k] BY <1>6, <1>7 DEF FlatUpTo
 <2>2. at[i] \in 1 .. Len(text) BY <1>4, <1>6, <1>7 DEF FlatUpTo
 <2>3. text[at[i]] = "a" BY <1>1, <1>9, <2>2 DEF TxtPlain
 <2>4. p[at[i]] = <<"a">> BY <1>3, <2>2, <2>3
 <2> QED BY <2>1, <2>4
<1> QED BY <1>2, <1>5, <1>8, <1>9 DEF TxtPlain

\* What is found and written are texts; a plain template is written as it is.
LEMMA TxtKeepQuotesType ==
  ASSUME NEW template \in Seq(TxtCharacters), NEW candidate,
    NEW actual \in Seq(TxtCharacters)
  PROVE
    /\ TxtKeepQuotes(template, candidate, actual) \in Seq(TxtCharacters)
    /\ TxtPlain(template) => TxtKeepQuotes(template, candidate, actual) = template
<1> DEFINE
  p == [i \in DOMAIN actual |->
          IF TxtFlatQuotes(candidate)[i] = "s" THEN <<actual[i]>> ELSE <<>>]
  found == FlattenSeq(p)
  nth(i) == Cardinality({j \in 1 .. i : template[j] = "s"})
  kept == [i \in DOMAIN template |->
             IF template[i] = "s" /\ found # <<>>
             THEN found[((nth(i) - 1) % Len(found)) + 1] ELSE template[i]]
<1>1. TxtKeepQuotes(template, candidate, actual) = kept BY DEF TxtKeepQuotes
<1>2.
  /\ Len(actual) \in Nat /\ DOMAIN actual = 1 .. Len(actual)
  /\ \A i \in DOMAIN actual : actual[i] \in TxtCharacters
  /\ Len(template) \in Nat /\ DOMAIN template = 1 .. Len(template)
  /\ \A i \in DOMAIN template : template[i] \in TxtCharacters
  /\ template = [i \in 1 .. Len(template) |-> template[i]]
  BY Indices
<1>3. found \in Seq(TxtCharacters)
 <2>1. \A i \in DOMAIN actual : p[i] \in Seq(TxtCharacters) BY <1>2
 <2>2. p = [i \in 1 .. Len(actual) |-> p[i]] BY <1>2
 <2> HIDE DEF p
 <2>3. p \in [1 .. Len(actual) -> Seq(TxtCharacters)] BY <1>2, <2>1, <2>2
 <2>4. p \in Seq(Seq(TxtCharacters)) BY <1>2, <2>3, FromFunction
 <2> QED BY <2>4, FlattenPlaces
<1> HIDE DEF found
<1>4. ASSUME NEW i \in DOMAIN template
  PROVE kept[i] \in TxtCharacters
 <2>1. CASE template[i] = "s" /\ found # <<>>
  <3>1. Len(found) \in Nat \ {0} BY <1>3, <2>1, EmptySeq
  <3>2. nth(i) \in Nat
   <4>1. i \in Nat BY <1>2
   <4>2. IsFiniteSet(1 .. i) BY <4>1, FS_Interval
   <4>3. IsFiniteSet({j \in 1 .. i : template[j] = "s"}) BY <4>2, FS_Subset
   <4> QED BY <4>3, FS_CardinalityType
  <3> DEFINE n == nth(i) k == ((n - 1) % Len(found)) + 1
  <3>3. kept[i] = found[k] BY <2>1
  <3>4. n \in Nat BY <3>2
  <3> HIDE DEF kept, n
  <3>5. (n - 1) % Len(found) \in 0 .. Len(found) - 1 BY <3>1, <3>4
  <3>6. k \in 1 .. Len(found) BY <3>1, <3>5
  <3> HIDE DEF k
  <3> QED BY <1>3, <3>3, <3>6, ElementOfSeq
 <2>2. CASE ~ (template[i] = "s" /\ found # <<>>) BY <1>2, <2>2
 <2> QED BY <2>1, <2>2
<1>5. ASSUME TxtPlain(template)
  PROVE kept = template
 <2>1. \A i \in DOMAIN template : template[i] # "s" BY <1>5 DEF TxtPlain
 <2>2. \A i \in DOMAIN template : kept[i] = template[i] BY <2>1
 <2>3. kept = [i \in 1 .. Len(template) |-> kept[i]] BY <1>2
 <2> HIDE DEF kept
 <2> QED BY <1>2, <2>2, <2>3
<1>6. kept = [i \in 1 .. Len(template) |-> kept[i]] BY <1>2
<1> HIDE DEF kept
<1>7. kept \in Seq(TxtCharacters)
 <2>1. kept \in [1 .. Len(template) -> TxtCharacters] BY <1>2, <1>4, <1>6
 <2> QED BY <1>2, <2>1, FromFunction
<1> QED BY <1>1, <1>5, <1>7

\* A part of a text.
LEMMA TxtPart ==
  ASSUME NEW S, NEW text \in Seq(S), NEW m \in Int, NEW n \in Int, m >= 1, n <= Len(text)
  PROVE
    /\ SubSeq(text, m, n) \in Seq(S)
    /\ Len(SubSeq(text, m, n)) = IF m <= n THEN n - m + 1 ELSE 0
    /\ \A i \in 1 .. n - m + 1 : SubSeq(text, m, n)[i] = text[m + i - 1]
<1>1. Len(text) \in Nat /\ \A i \in 1 .. Len(text) : text[i] \in S
  BY LenProperties, ElementOfSeq
<1>2. \A i \in m .. n : text[i] \in S BY <1>1
<1> QED BY <1>2, SubSeqProperties

\* Where a text may stand: it fits there.
LEMMA TxtAtFits ==
  ASSUME NEW text \in Seq(TxtCharacters), NEW piece \in Seq(TxtCharacters),
    NEW i \in 1 .. Len(text), TxtAt(text, i, piece)
  PROVE
    /\ i + Len(piece) \in 1 .. Len(text) + 1
    /\ \A k \in 1 .. Len(piece) : text[i + k - 1] = piece[k]
<1>1. Len(text) \in Nat /\ Len(piece) \in Nat BY LenProperties
<1>2. i + Len(piece) - 1 <= Len(text) /\ SubSeq(text, i, i + Len(piece) - 1) = piece
  BY DEF TxtAt
<1>3.
  \A k \in 1 .. (i + Len(piece) - 1) - i + 1 :
    SubSeq(text, i, i + Len(piece) - 1)[k] = text[i + k - 1]
 <2>1. i \in Int /\ i >= 1 /\ i + Len(piece) - 1 \in Int BY <1>1
 <2> QED BY <1>2, <2>1, TxtPart
<1>4. (i + Len(piece) - 1) - i + 1 = Len(piece) BY <1>1
<1> QED BY <1>1, <1>2, <1>3, <1>4

\* Where a pass over a text goes on: behind a piece that stands there, or at the next place.
TxtNextPlace(text, piece) ==
  [i \in 1 .. Len(text) |-> IF TxtAt(text, i, piece) THEN i + Len(piece) ELSE i + 1]

\* A pass goes on behind where it is, and no further than behind the text.
LEMMA TxtNextPlaces ==
  ASSUME NEW text \in Seq(TxtCharacters), NEW piece \in Seq(TxtCharacters), piece # <<>>
  PROVE
    /\ Len(text) \in Nat /\ Len(piece) \in Nat \ {0}
    /\ TxtNextPlace(text, piece) \in [1 .. Len(text) -> 1 .. Len(text) + Len(piece)]
    /\ \A i \in 1 .. Len(text) :
         /\ i < TxtNextPlace(text, piece)[i]
         /\ TxtNextPlace(text, piece)[i] \in 1 .. Len(text) + 1
         /\ TxtNextPlace(text, piece)[i] =
              IF TxtAt(text, i, piece) THEN i + Len(piece) ELSE i + 1
<1> DEFINE next == TxtNextPlace(text, piece)
<1>1. Len(text) \in Nat /\ Len(piece) \in Nat \ {0} BY LenProperties, EmptySeq
<1>2. \A i \in 1 .. Len(text) : next[i] = IF TxtAt(text, i, piece) THEN i + Len(piece) ELSE i + 1
  BY DEF TxtNextPlace
<1>3. \A i \in 1 .. Len(text) : TxtAt(text, i, piece) => i + Len(piece) \in 1 .. Len(text) + 1
  BY TxtAtFits
<1>4. next = [i \in 1 .. Len(text) |-> next[i]] BY DEF TxtNextPlace
<1> HIDE DEF next
<1>5. \A i \in 1 .. Len(text) : i < next[i] /\ next[i] \in 1 .. Len(text) + 1
  BY <1>1, <1>2, <1>3
<1>6. \A i \in 1 .. Len(text) : next[i] \in 1 .. Len(text) + Len(piece) BY <1>1, <1>5
<1>7. next \in [1 .. Len(text) -> 1 .. Len(text) + Len(piece)] BY <1>4, <1>6
<1> QED BY <1>1, <1>2, <1>5, <1>7 DEF next

\* The places a pass finds from each place on, in rising order.
TxtPlaces(f, text, piece) ==
  /\ f[1] = TxtPositions(text, piece)
  /\ \A i \in 1 .. Len(text) + 1 :
       /\ f[i] \in Seq(1 .. Len(text))
       /\ f[i] = IF i > Len(text) THEN <<>>
                 ELSE IF TxtAt(text, i, piece) THEN <<i>> \o f[i + Len(piece)]
                 ELSE f[i + 1]
       /\ Rising(f[i])
       /\ \A k \in 1 .. Len(f[i]) : f[i][k] >= i /\ TxtAt(text, f[i][k], piece)

\* There are such places.
LEMMA TxtPositionsFrom ==
  ASSUME NEW text \in Seq(TxtCharacters), NEW piece \in Seq(TxtCharacters), piece # <<>>
  PROVE \E f : TxtPlaces(f, text, piece)
<1> DEFINE N == Len(text)
  P == Len(piece)
  next == TxtNextPlace(text, piece)
  V == 1 .. N
  at(i) == TxtAt(text, i, piece)
  out == [i \in 1 .. N |-> IF at(i) THEN <<i>> ELSE <<>>]
  Is(f) == f = [i \in 1 .. N + P |-> IF i > N THEN <<>>
                                     ELSE IF at(i) THEN <<i>> \o f[i + P]
                                     ELSE f[i + 1]]
<1>1.
  /\ N \in Nat /\ P \in Nat \ {0} /\ next \in [1 .. N -> 1 .. N + P]
  /\ \A i \in 1 .. N : /\ i < next[i] /\ next[i] \in 1 .. N + 1
                       /\ next[i] = IF at(i) THEN i + P ELSE i + 1
  BY TxtNextPlaces
<1>2. out \in [1 .. N -> Seq(V)]
 <2>1. \A i \in 1 .. N : <<i>> \in Seq(V) /\ <<>> \in Seq(V) OBVIOUS
 <2> HIDE DEF V, at
 <2> QED BY <2>1
<1>3. \A i \in 1 .. N : out[i] = IF at(i) THEN <<i>> ELSE <<>> BY <1>1
<1> HIDE DEF next, out, at
<1>4. PICK g \in [1 .. N + P -> Seq(V)] : IsPass(g, N, N + P, next, out)
 <2>1. \A i \in 1 .. N : i < next[i] BY <1>1
 <2>2. N + P \in Nat BY <1>1
 <2> HIDE DEF N, P, V
 <2> QED BY <1>1, <1>2, <2>1, <2>2, PassExists
<1> HIDE DEF N, P, V
<1>5. Is(g)
 <2>1. ASSUME NEW i \in 1 .. N + P
   PROVE g[i] = IF i > N THEN <<>> ELSE IF at(i) THEN <<i>> \o g[i + P] ELSE g[i + 1]
  <3>0. g[i] = IF i > N THEN <<>> ELSE out[i] \o g[next[i]] BY <1>4 DEF IsPass
  <3>1. CASE i > N BY <3>0, <3>1
  <3>2. CASE ~ (i > N)
   <4>1. i \in 1 .. N /\ g[i] = out[i] \o g[next[i]]
    <5>1. i \in 1 .. N BY <1>1, <3>2
    <5> QED BY <3>0, <3>2, <5>1
   <4>2. CASE at(i) BY <1>1, <1>3, <3>2, <4>1, <4>2
   <4>3. CASE ~ at(i)
    <5>1. out[i] = <<>> /\ next[i] = i + 1 /\ i + 1 \in 1 .. N + P BY <1>1, <1>3, <4>1, <4>3
    <5>2. g[i + 1] \in Seq(V) BY <5>1
    <5>3. <<>> \o g[i + 1] = g[i + 1] BY <5>2, ConcatEmptySeq
    <5> QED BY <3>2, <4>1, <4>3, <5>1, <5>3
   <4> QED BY <4>2, <4>3
  <3> QED BY <3>1, <3>2
 <2>2. g = [i \in 1 .. N + P |-> g[i]] OBVIOUS
 <2> QED BY <2>1, <2>2
<1> DEFINE f == CHOOSE h : Is(h)
<1>6. Is(f) BY <1>5
<1>7. f[1] = TxtPositions(text, piece) BY DEF TxtPositions, at, N, P
<1> HIDE DEF f
<1>8.
  \A i \in 1 .. N + P :
    f[i] = IF i > N THEN <<>> ELSE IF at(i) THEN <<i>> \o f[i + P] ELSE f[i + 1]
  BY <1>6
<1> HIDE DEF Is
<1> DEFINE
  T == {i \in 1 .. N + 1 : /\ f[i] \in Seq(V) /\ Rising(f[i])
                           /\ \A k \in 1 .. Len(f[i]) : f[i][k] >= i /\ at(f[i][k])}
<1>9. ASSUME NEW i \in 1 .. N + 1, \A j \in 1 .. N + 1 : i < j => j \in T
  PROVE i \in T
 <2>0. i \in 1 .. N + P BY <1>1
 <2>1. CASE i > N
  <3>1. f[i] = <<>> BY <1>8, <2>0, <2>1
  <3>2. f[i] \in Seq(V) /\ Len(f[i]) = 0 BY <3>1, EmptySeq
  <3> QED BY <3>2 DEF Rising
 <2>2. CASE ~ (i > N) /\ at(i)
  <3>1. i \in 1 .. N /\ i + P \in 1 .. N + 1 /\ i < i + P BY <1>1, <2>2
  <3> DEFINE s == f[i + P]
  <3>2. s \in Seq(V) /\ Rising(s) /\ \A k \in 1 .. Len(s) : s[k] >= i + P /\ at(s[k])
    BY <1>9, <3>1
  <3>3. f[i] = <<i>> \o s BY <1>8, <2>0, <2>2
  <3> DEFINE r == <<i>> \o s one == <<i>>
  <3>4. one \in Seq(V) /\ Len(one) = 1 /\ one[1] = i BY <3>1 DEF V
  <3> HIDE DEF s, one
  <3>5.
    /\ r \in Seq(V) /\ Len(r) = 1 + Len(s) /\ Len(s) \in Nat
    /\ \A k \in 1 .. 1 + Len(s) : r[k] = IF k <= 1 THEN i ELSE s[k - 1]
    /\ \A k \in 1 .. Len(s) : s[k] \in Nat
   <4>1.
     /\ one \o s \in Seq(V) /\ Len(one \o s) = Len(one) + Len(s)
     /\ \A k \in 1 .. Len(one) + Len(s) :
          (one \o s)[k] = IF k <= Len(one) THEN one[k] ELSE s[k - Len(one)]
     BY <3>2, <3>4, ConcatProperties
   <4>2. Len(s) \in Nat /\ \A k \in 1 .. Len(s) : s[k] \in Nat
    <5>1. Len(s) \in Nat /\ \A k \in 1 .. Len(s) : s[k] \in V
      BY <3>2, LenProperties, ElementOfSeq
    <5> QED BY <1>1, <5>1 DEF V
   <4>3. r = one \o s BY DEF one
   <4> HIDE DEF r
   <4> QED BY <3>4, <4>1, <4>2, <4>3
  <3> HIDE DEF r
  <3>6. ASSUME NEW k \in 1 .. Len(r)
    PROVE
      /\ k = 1 => r[k] = i
      /\ k # 1 => /\ k - 1 \in 1 .. Len(s) /\ r[k] = s[k - 1]
                  /\ r[k] >= i + P /\ r[k] \in Nat /\ at(r[k])
    BY <3>2, <3>5
  <3>7. ASSUME NEW k \in 1 .. Len(r)
    PROVE r[k] >= i /\ at(r[k])
   <4>1. i \in Nat /\ P \in Nat BY <1>1
   <4>2. CASE k = 1 BY <2>2, <3>6, <4>1, <4>2
   <4>3. CASE k # 1 BY <3>6, <4>1, <4>3
   <4> QED BY <4>2, <4>3
  <3>8. ASSUME NEW k \in 1 .. Len(r), NEW l \in 1 .. Len(r), k < l
    PROVE r[k] < r[l]
   <4>1. l # 1 /\ l - 1 \in 1 .. Len(s) /\ r[l] = s[l - 1] /\ r[l] >= i + P BY <3>5, <3>6, <3>8
   <4>2. CASE k = 1
    <5>1. r[k] = i /\ r[l] >= i + P /\ r[l] \in Nat /\ i \in Nat /\ P \in Nat \ {0}
      BY <1>1, <3>6, <4>1, <4>2
    <5> QED BY <5>1
   <4>3. CASE k # 1
    <5>1. k - 1 \in 1 .. Len(s) /\ r[k] = s[k - 1] /\ k - 1 < l - 1 BY <3>5, <3>6, <3>8, <4>3
    <5> QED BY <3>2, <4>1, <5>1 DEF Rising
   <4> QED BY <4>2, <4>3
  <3> QED BY <3>3, <3>5, <3>7, <3>8 DEF Rising, r
 <2>3. CASE ~ (i > N) /\ ~ at(i)
  <3>1. i + 1 \in 1 .. N + 1 /\ i < i + 1 /\ i \in Nat BY <1>1, <2>3
  <3>2. i + 1 \in T BY <1>9, <3>1
  <3>3. f[i] = f[i + 1] BY <1>8, <2>0, <2>3
  <3>4. \A k \in 1 .. Len(f[i + 1]) : f[i + 1][k] \in Nat
   <4>1. \A k \in 1 .. Len(f[i + 1]) : f[i + 1][k] \in V BY <3>2, ElementOfSeq
   <4> QED BY <1>1, <4>1 DEF V
  <3>5. \A k \in 1 .. Len(f[i + 1]) : f[i + 1][k] >= i /\ at(f[i + 1][k]) BY <3>1, <3>2, <3>4
  <3> QED BY <3>2, <3>3, <3>5
 <2> QED BY <2>1, <2>2, <2>3
<1> HIDE DEF T
<1>10. 1 .. N + 1 \subseteq T
 <2>1. N + 1 \in Nat BY <1>1
 <2> QED BY <1>9, <2>1, FromTheEnd
<1>11. \A i \in 1 .. N + 1 : i \in 1 .. N + P BY <1>1
<1>12. TxtPlaces(f, text, piece) BY <1>7, <1>8, <1>10, <1>11 DEF TxtPlaces, T, N, P, V, at
<1> QED BY <1>12

\* A text as it is looked at: with its quotes taken for straight ones, or as it is.
TxtSeen(text, quotes) == IF quotes THEN TxtFlatQuotes(text) ELSE text

\* It is a text as long as the other, with the same plain letters.
LEMMA TxtSeenType ==
  ASSUME NEW text \in Seq(TxtCharacters), NEW quotes \in BOOLEAN
  PROVE
    /\ TxtSeen(text, quotes) \in Seq(TxtCharacters)
    /\ Len(TxtSeen(text, quotes)) = Len(text)
    /\ text # <<>> => TxtSeen(text, quotes) # <<>>
    /\ \A i \in 1 .. Len(text) : TxtSeen(text, quotes)[i] = "a" <=> text[i] = "a"
<1>1.
  /\ TxtFlatQuotes(text) \in Seq(TxtCharacters) /\ Len(TxtFlatQuotes(text)) = Len(text)
  /\ \A i \in 1 .. Len(text) :
       TxtFlatQuotes(text)[i] = IF text[i] = "L" THEN "s" ELSE text[i]
  BY TxtFlatQuotesType
<1>2. \A w \in Seq(TxtCharacters) : w # <<>> <=> Len(w) # 0 BY EmptySeq
<1>3. text # <<>> => TxtFlatQuotes(text) # <<>> BY <1>1, <1>2
<1>4. \A i \in 1 .. Len(text) : TxtFlatQuotes(text)[i] = "a" <=> text[i] = "a" BY <1>1
<1> QED BY <1>1, <1>3, <1>4 DEF TxtSeen

\* How a candidate is looked for.
TxtHow(candidate, quotes, at) == [piece |-> candidate, quotes |-> quotes, at |-> at]

\* What is written for a piece found is a text, and a plain template is written as it is.
LEMMA TxtReplacementType ==
  ASSUME NEW content \in Seq(TxtCharacters), NEW candidate \in Seq(TxtCharacters),
    NEW quotes \in BOOLEAN, NEW at, NEW template \in Seq(TxtCharacters),
    NEW i \in 1 .. Len(content), i + Len(candidate) \in 1 .. Len(content) + 1
  PROVE
    /\ TxtReplacement(content, i, TxtHow(candidate, quotes, at), template)
         \in Seq(TxtCharacters)
    /\ TxtPlain(template) =>
         TxtReplacement(content, i, TxtHow(candidate, quotes, at), template) = template
<1> DEFINE part == SubSeq(content, i, i + Len(candidate) - 1)
<1>1.
  TxtReplacement(content, i, TxtHow(candidate, quotes, at), template) =
    IF quotes THEN TxtKeepQuotes(template, candidate, part) ELSE template
  BY DEF TxtReplacement, TxtHow
<1>2. part \in Seq(TxtCharacters)
 <2>1. Len(content) \in Nat /\ Len(candidate) \in Nat BY LenProperties
 <2>2.
   /\ i \in Int /\ i + Len(candidate) - 1 \in Int
   /\ i >= 1 /\ i + Len(candidate) - 1 <= Len(content)
   BY <2>1
 <2> QED BY <2>2, TxtPart
<1> HIDE DEF part
<1>3.
  /\ TxtKeepQuotes(template, candidate, part) \in Seq(TxtCharacters)
  /\ TxtPlain(template) => TxtKeepQuotes(template, candidate, part) = template
  BY <1>2, TxtKeepQuotesType
<1> QED BY <1>1, <1>3

\* What a pass should leave of a text from each place on.
TxtWritten(f, content, candidate, quotes, template) ==
  /\ f[1] = TxtExpected(content, TxtHow(candidate, quotes, <<>>), template)
  /\ \A i \in 1 .. Len(content) + 1 :
       /\ f[i] \in Seq(TxtCharacters)
       /\ f[i] = IF i > Len(content) THEN <<>>
                 ELSE IF TxtAt(TxtSeen(content, quotes), i, TxtSeen(candidate, quotes))
                      THEN TxtReplacement(content, i, TxtHow(candidate, quotes, <<>>), template)
                             \o f[i + Len(candidate)]
                 ELSE <<content[i]>> \o f[i + 1]

\* There are such rests.
LEMMA TxtExpectedFrom ==
  ASSUME NEW content \in Seq(TxtCharacters), NEW candidate \in Seq(TxtCharacters),
    candidate # <<>>, NEW quotes \in BOOLEAN, NEW template \in Seq(TxtCharacters)
  PROVE \E f : TxtWritten(f, content, candidate, quotes, template)
<1> DEFINE N == Len(content)
  seen == TxtSeen(content, quotes)
  piece == TxtSeen(candidate, quotes)
  P == Len(piece)
  next == TxtNextPlace(seen, piece)
  how == TxtHow(candidate, quotes, <<>>)
  new(i) == TxtReplacement(content, i, how, template)
  at(i) == TxtAt(seen, i, piece)
  out == [i \in 1 .. N |-> IF at(i) THEN new(i) ELSE <<content[i]>>]
  Is(f) == f = [i \in 1 .. N + P |-> IF i > N THEN <<>>
                                     ELSE IF at(i) THEN new(i) \o f[i + P]
                                     ELSE <<content[i]>> \o f[i + 1]]
<1>0.
  /\ seen \in Seq(TxtCharacters) /\ Len(seen) = N
  /\ piece \in Seq(TxtCharacters) /\ P = Len(candidate) /\ piece # <<>>
  BY TxtSeenType
<1> HIDE DEF seen, piece
<1>1.
  /\ N \in Nat /\ P \in Nat \ {0} /\ next \in [1 .. N -> 1 .. N + P]
  /\ \A i \in 1 .. N : /\ i < next[i] /\ next[i] \in 1 .. N + 1
                       /\ next[i] = IF at(i) THEN i + P ELSE i + 1
 <2>1.
   /\ Len(seen) \in Nat /\ P \in Nat \ {0}
   /\ next \in [1 .. Len(seen) -> 1 .. Len(seen) + P]
   /\ \A i \in 1 .. Len(seen) : /\ i < next[i] /\ next[i] \in 1 .. Len(seen) + 1
                                /\ next[i] = IF at(i) THEN i + P ELSE i + 1
   BY <1>0, TxtNextPlaces
 <2>2. Len(seen) = N BY <1>0
 <2> HIDE DEF N, P, at, next
 <2> QED BY <2>1, <2>2
<1>2. out \in [1 .. N -> Seq(TxtCharacters)]
 <2>1. ASSUME NEW i \in 1 .. N
   PROVE (IF at(i) THEN new(i) ELSE <<content[i]>>) \in Seq(TxtCharacters)
  <3>1. CASE at(i)
   <4>1. i + P \in 1 .. N + 1 BY <1>0, <3>1, TxtAtFits
   <4>2. new(i) \in Seq(TxtCharacters) BY <1>0, <4>1, TxtReplacementType
   <4> QED BY <3>1, <4>2
  <3>2. CASE ~ at(i)
   <4>1. content[i] \in TxtCharacters BY ElementOfSeq
   <4>2. <<content[i]>> \in Seq(TxtCharacters) BY <4>1
   <4> QED BY <3>2, <4>2
  <3> QED BY <3>1, <3>2
 <2> HIDE DEF at, new, N
 <2> QED BY <2>1
<1>3. \A i \in 1 .. N : out[i] = IF at(i) THEN new(i) ELSE <<content[i]>> BY <1>1
<1> HIDE DEF next, out, at, new
<1>4. /\ N + P \in Nat /\ \A i \in 1 .. N : i < next[i] BY <1>1
<1>5. PICK g \in [1 .. N + P -> Seq(TxtCharacters)] : IsPass(g, N, N + P, next, out)
 <2> HIDE DEF N, P
 <2> QED BY <1>1, <1>2, <1>4, PassExists
<1>6. \A f : IsPass(f, N, N + P, next, out) <=> Is(f)
 <2> SUFFICES ASSUME NEW f
   PROVE IsPass(f, N, N + P, next, out) <=> Is(f)
   OBVIOUS
 <2>1. ASSUME NEW i \in 1 .. N + P
   PROVE
     (IF i > N THEN <<>> ELSE out[i] \o f[next[i]]) =
       IF i > N THEN <<>> ELSE IF at(i) THEN new(i) \o f[i + P]
       ELSE <<content[i]>> \o f[i + 1]
  <3>1. CASE i > N BY <3>1
  <3>2. CASE ~ (i > N)
   <4>1. i \in 1 .. N BY <1>1, <3>2
   <4>2. out[i] = (IF at(i) THEN new(i) ELSE <<content[i]>>)
         /\ next[i] = IF at(i) THEN i + P ELSE i + 1
     BY <1>1, <1>3, <4>1
   <4> QED BY <3>2, <4>2
  <3> QED BY <3>1, <3>2
 <2>2.
   [i \in 1 .. N + P |-> IF i > N THEN <<>> ELSE out[i] \o f[next[i]]] =
   [i \in 1 .. N + P |-> IF i > N THEN <<>> ELSE IF at(i) THEN new(i) \o f[i + P]
                         ELSE <<content[i]>> \o f[i + 1]]
   BY <2>1
 <2> QED BY <2>2 DEF IsPass
<1> DEFINE f == CHOOSE h : Is(h)
<1>7. Is(f) BY <1>5, <1>6
<1>8. f[1] = TxtExpected(content, how, template)
 <2>1. how.quotes = quotes /\ how.piece = candidate BY DEF TxtHow
 <2> HIDE DEF how
 <2>2.
   /\ (IF how.quotes THEN TxtFlatQuotes(content) ELSE content) = seen
   /\ (IF how.quotes THEN TxtFlatQuotes(how.piece) ELSE how.piece) = piece
   BY <2>1 DEF seen, piece, TxtSeen
 <2> QED BY <2>2 DEF TxtExpected, at, new
<1>9. IsPass(f, N, N + P, next, out) BY <1>6, <1>7
<1> HIDE DEF f
<1>10.
  \A i \in 1 .. N + P :
    f[i] = IF i > N THEN <<>> ELSE IF at(i) THEN new(i) \o f[i + P]
           ELSE <<content[i]>> \o f[i + 1]
  BY <1>7
<1> HIDE DEF Is
<1>11. \A i \in 1 .. N + P : f[i] \in Seq(TxtCharacters)
 <2> HIDE DEF N, P
 <2> QED BY <1>1, <1>2, <1>4, <1>9, PassValues
<1>12. \A i \in 1 .. N + 1 : i \in 1 .. N + P BY <1>1
<1>13. P = Len(candidate) BY <1>0
<1>14. TxtWritten(f, content, candidate, quotes, template)
  BY <1>8, <1>10, <1>11, <1>12, <1>13 DEF TxtWritten, seen, piece, at, new
<1> QED BY <1>14

\* Writing at one place keeps a text and what stands before the place.
LEMMA TxtReplaceOneType ==
  ASSUME NEW content \in Seq(TxtCharacters), NEW candidate \in Seq(TxtCharacters),
    NEW quotes \in BOOLEAN, NEW at, NEW template \in Seq(TxtCharacters),
    NEW text \in Seq(TxtCharacters), NEW i \in 1 .. Len(content),
    i + Len(candidate) \in 1 .. Len(content) + 1, i - 1 <= Len(text)
  PROVE
    LET r == TxtReplaceOne(content, text, i, TxtHow(candidate, quotes, at), template)
    IN  r \in Seq(TxtCharacters) /\ Len(r) >= i - 1
<1> DEFINE how == TxtHow(candidate, quotes, at)
  a == SubSeq(text, 1, i - 1)
  b == TxtReplacement(content, i, how, template)
  c == SubSeq(text, i + Len(candidate), Len(text))
<1>1. Len(text) \in Nat /\ Len(candidate) \in Nat /\ Len(content) \in Nat /\ i \in Nat
  BY LenProperties
<1>2. a \in Seq(TxtCharacters) /\ Len(a) = i - 1
 <2>1. 1 \in Int /\ i - 1 \in Int /\ 1 >= 1 /\ i - 1 <= Len(text) BY <1>1
 <2>2. a \in Seq(TxtCharacters) /\ Len(a) = IF 1 <= i - 1 THEN (i - 1) - 1 + 1 ELSE 0
   BY <2>1, TxtPart
 <2> HIDE DEF a
 <2> QED BY <1>1, <2>2
<1>3. c \in Seq(TxtCharacters)
 <2>1.
   /\ i + Len(candidate) \in Int /\ Len(text) \in Int
   /\ i + Len(candidate) >= 1 /\ Len(text) <= Len(text)
   BY <1>1
 <2> QED BY <2>1, TxtPart
<1>4. b \in Seq(TxtCharacters) BY TxtReplacementType
<1>5. TxtReplaceOne(content, text, i, how, template) = (a \o b) \o c
 <2>1. how.piece = candidate BY DEF TxtHow
 <2> HIDE DEF how
 <2> QED BY <2>1 DEF TxtReplaceOne
<1> HIDE DEF a, b, c
<1>6. a \o b \in Seq(TxtCharacters) /\ Len(a \o b) = Len(a) + Len(b)
  BY <1>2, <1>4, ConcatProperties
<1> DEFINE ab == a \o b
<1>7. Len(b) \in Nat /\ Len(c) \in Nat BY <1>3, <1>4, LenProperties
<1> HIDE DEF ab
<1>8. ab \o c \in Seq(TxtCharacters) /\ Len(ab \o c) = Len(ab) + Len(c)
  BY <1>3, <1>6, ConcatProperties DEF ab
<1>9. Len(ab) = Len(a) + Len(b) BY <1>6 DEF ab
<1>10. TxtReplaceOne(content, text, i, how, template) = ab \o c BY <1>5 DEF ab
<1> HIDE DEF how
<1>11. Len(ab \o c) >= i - 1 BY <1>1, <1>2, <1>7, <1>8, <1>9
<1> QED BY <1>8, <1>10, <1>11 DEF how

\* The texts on the way from the file to the edited text, from the last place to the first.
TxtReplaced(f, content, at, how, template) ==
  /\ f[1] = TxtReplace(content, at, how, template) /\ f[Len(at) + 1] = content
  /\ \A k \in 1 .. Len(at) : f[k] = TxtReplaceOne(content, f[k + 1], at[k], how, template)

\* There are such texts.
LEMMA TxtReplaceFrom ==
  ASSUME NEW content \in Seq(TxtCharacters), NEW candidate \in Seq(TxtCharacters),
    NEW quotes \in BOOLEAN, NEW any, NEW template \in Seq(TxtCharacters),
    NEW at \in Seq(1 .. Len(content)), Rising(at),
    \A k \in 1 .. Len(at) : at[k] + Len(candidate) \in 1 .. Len(content) + 1
  PROVE \E f : TxtReplaced(f, content, at, TxtHow(candidate, quotes, any), template)
<1> DEFINE N == Len(content)
  K == Len(at)
  V == Seq(TxtCharacters)
  how == TxtHow(candidate, quotes, any)
  one(v, k) == TxtReplaceOne(content, v, at[k], how, template)
  step == [k \in 1 .. K |-> [v \in V |->
             IF at[k] - 1 <= Len(v) THEN one(v, k) ELSE v]]
  Is(f) == f = [k \in 1 .. K + 1 |-> IF k > K THEN content ELSE one(f[k + 1], k)]
<1>1. N \in Nat /\ K \in Nat /\ content \in V /\ \A k \in 1 .. K : at[k] \in 1 .. N
  BY LenProperties, ElementOfSeq
<1>2. ASSUME NEW k \in 1 .. K, NEW v \in V, at[k] - 1 <= Len(v)
  PROVE one(v, k) \in V /\ Len(one(v, k)) >= at[k] - 1
 <2>1. at[k] \in 1 .. N /\ at[k] + Len(candidate) \in 1 .. N + 1 BY <1>1
 <2> QED BY <1>2, <2>1, TxtReplaceOneType
<1> HIDE DEF one
<1>3. step \in [1 .. K -> [V -> V]]
 <2>1. ASSUME NEW k \in 1 .. K, NEW v \in V
   PROVE (IF at[k] - 1 <= Len(v) THEN one(v, k) ELSE v) \in V
   BY <1>2
 <2> HIDE DEF V, K
 <2> QED BY <2>1
<1>4. PICK g \in [1 .. K + 1 -> V] : IsRecursiveDown(g, K, content, step)
 <2> HIDE DEF V, K, step
 <2> QED BY <1>1, <1>3, RecursionDown
<1>5. ASSUME NEW k \in 1 .. K
  PROVE
    /\ g[k + 1] \in V
    /\ g[k] = IF at[k] - 1 <= Len(g[k + 1]) THEN one(g[k + 1], k) ELSE g[k + 1]
 <2>1. k + 1 \in 1 .. K + 1 BY <1>1
 <2>2. g[k + 1] \in V
  <3> HIDE DEF V, K
  <3> QED BY <2>1
 <2>3. g[k] = step[k][g[k + 1]] BY <1>4 DEF IsRecursiveDown
 <2> HIDE DEF V
 <2> QED BY <2>2, <2>3
<1> HIDE DEF step
<1> DEFINE T == {k \in 1 .. K + 1 : k <= K => at[k] - 1 <= Len(g[k + 1]) /\ at[k] - 1 <= Len(g[k])}
<1>6. ASSUME NEW k \in 1 .. K + 1, \A j \in 1 .. K + 1 : k < j => j \in T
  PROVE k \in T
 <2> SUFFICES ASSUME k <= K
   PROVE at[k] - 1 <= Len(g[k + 1]) /\ at[k] - 1 <= Len(g[k])
   OBVIOUS
 <2>1. k \in 1 .. K /\ at[k] \in 1 .. N BY <1>1
 <2>2. g[k + 1] \in V /\ Len(g[k + 1]) \in Nat BY <1>5, <2>1, LenProperties
 <2>3. at[k] - 1 <= Len(g[k + 1])
  <3>1. CASE k = K
   <4>1. g[k + 1] = content BY <1>4, <3>1 DEF IsRecursiveDown
   <4> QED BY <1>1, <2>1, <4>1
  <3>2. CASE k # K
   <4>1. k + 1 \in 1 .. K /\ k + 1 \in 1 .. K + 1 /\ k < k + 1 /\ k + 1 <= K BY <1>1, <2>1, <3>2
   <4>2. at[k + 1] - 1 <= Len(g[k + 1]) BY <1>6, <4>1
   <4>3. at[k] < at[k + 1] /\ at[k + 1] \in 1 .. N BY <1>1, <2>1, <4>1 DEF Rising
   <4>4. at[k] \in Int /\ at[k + 1] \in Int BY <1>1, <2>1, <4>3
   <4> DEFINE x == at[k] y == at[k + 1] l == Len(g[k + 1])
   <4>5. x \in Int /\ y \in Int /\ l \in Int /\ x < y /\ y - 1 <= l BY <2>2, <4>2, <4>3, <4>4
   <4> HIDE DEF x, y, l
   <4>6. x - 1 <= l BY <4>5
   <4> QED BY <4>6 DEF x, l
  <3> QED BY <3>1, <3>2
 <2>4. g[k] = one(g[k + 1], k) BY <1>5, <2>1, <2>3
 <2>5. Len(one(g[k + 1], k)) >= at[k] - 1 /\ one(g[k + 1], k) \in V BY <1>2, <2>1, <2>2, <2>3
 <2>6. Len(g[k]) \in Nat /\ Len(g[k]) >= at[k] - 1 BY <2>4, <2>5, LenProperties
 <2> QED BY <1>1, <2>1, <2>3, <2>6
<1> HIDE DEF T
<1>7. 1 .. K + 1 \subseteq T
 <2>1. K + 1 \in Nat BY <1>1
 <2> QED BY <1>6, <2>1, FromTheEnd
<1>8. Is(g)
 <2>1. ASSUME NEW k \in 1 .. K + 1
   PROVE g[k] = IF k > K THEN content ELSE one(g[k + 1], k)
  <3>1. CASE k > K
   <4>1. k = K + 1 BY <1>1, <3>1
   <4> QED BY <1>4, <3>1, <4>1 DEF IsRecursiveDown
  <3>2. CASE ~ (k > K)
   <4>1. k \in 1 .. K /\ k <= K BY <1>1, <3>2
   <4>2. at[k] - 1 <= Len(g[k + 1]) BY <1>7, <4>1 DEF T
   <4> QED BY <1>5, <3>2, <4>1, <4>2
  <3> QED BY <3>1, <3>2
 <2>2. g = [k \in 1 .. K + 1 |-> g[k]] OBVIOUS
 <2> QED BY <2>1, <2>2
<1> DEFINE f == CHOOSE h : Is(h)
<1>9. Is(f) BY <1>8
<1>10. f[1] = TxtReplace(content, at, how, template) BY DEF TxtReplace, one
<1> HIDE DEF f
<1>11.
  /\ K + 1 \in 1 .. K + 1 /\ K + 1 > K
  /\ \A k \in 1 .. K : k \in 1 .. K + 1 /\ ~ (k > K)
  BY <1>1
<1>12. \A k \in 1 .. K + 1 : f[k] = IF k > K THEN content ELSE one(f[k + 1], k) BY <1>9
<1> HIDE DEF Is
<1>13. f[K + 1] = content /\ \A k \in 1 .. K : f[k] = one(f[k + 1], k) BY <1>11, <1>12
<1>14. TxtReplaced(f, content, at, how, template) BY <1>10, <1>13 DEF TxtReplaced, one
<1> QED BY <1>14

\* A sequence is x and then s.
TxtBegins(w, x, s) == w = <<x>> \o s

\* Two ways to split a sequence after its first member are the same.
LEMMA TxtSameFirst ==
  ASSUME NEW V, NEW x \in V, NEW y \in V, NEW s \in Seq(V), NEW t \in Seq(V),
    NEW w, TxtBegins(w, x, s), TxtBegins(w, y, t)
  PROVE x = y /\ s = t
<1> DEFINE a == <<x>>
  b == <<y>>
<1>1. a \in Seq(V) /\ Len(a) = 1 /\ a[1] = x /\ b \in Seq(V) /\ Len(b) = 1 /\ b[1] = y OBVIOUS
<1>0. a \o s = b \o t BY DEF TxtBegins
<1> HIDE DEF a, b
<1>2.
  /\ Len(a \o s) = Len(a) + Len(s)
  /\ \A i \in 1 .. Len(a) + Len(s) : (a \o s)[i] = IF i <= Len(a) THEN a[i] ELSE s[i - Len(a)]
  BY <1>1, ConcatProperties
<1>3.
  /\ Len(b \o t) = Len(b) + Len(t)
  /\ \A i \in 1 .. Len(b) + Len(t) : (b \o t)[i] = IF i <= Len(b) THEN b[i] ELSE t[i - Len(b)]
  BY <1>1, ConcatProperties
<1> DEFINE u == a \o s
<1>4.
  /\ Len(u) = 1 + Len(s) /\ \A i \in 1 .. 1 + Len(s) : u[i] = IF i <= 1 THEN x ELSE s[i - 1]
  /\ Len(u) = 1 + Len(t) /\ \A i \in 1 .. 1 + Len(t) : u[i] = IF i <= 1 THEN y ELSE t[i - 1]
 <2>1. \A i : i <= 1 /\ i \in 1 .. 1 + Len(s) => i = 1 OBVIOUS
 <2>2. \A i : i <= 1 /\ i \in 1 .. 1 + Len(t) => i = 1 OBVIOUS
 <2> QED BY <1>0, <1>1, <1>2, <1>3, <2>1, <2>2
<1> HIDE DEF u
<1>5. Len(s) \in Nat /\ Len(t) \in Nat BY LenProperties
<1>6. x = y
 <2>1. 1 \in 1 .. 1 + Len(s) /\ 1 \in 1 .. 1 + Len(t) BY <1>5
 <2> QED BY <1>4, <2>1
<1>7. Len(s) = Len(t) BY <1>4, <1>5
<1>8. ASSUME NEW i \in 1 .. Len(s)
  PROVE s[i] = t[i]
 <2>1.
   /\ i + 1 \in 1 .. 1 + Len(s) /\ i + 1 \in 1 .. 1 + Len(t) /\ ~ (i + 1 <= 1)
   /\ (i + 1) - 1 = i
   BY <1>5, <1>7
 <2>2. u[i + 1] = s[(i + 1) - 1] /\ u[i + 1] = t[(i + 1) - 1] BY <1>4, <2>1
 <2> QED BY <2>1, <2>2
<1> QED BY <1>6, <1>7, <1>8, SeqEqual

\* What stands before a place and what is behind a later one in a text that was changed
\* behind the later one only.
LEMMA TxtCutTwice ==
  ASSUME NEW S, NEW text \in Seq(S), NEW rest \in Seq(S), NEW i \in 1 .. Len(text),
    NEW j \in 1 .. Len(text) + 1, i < j
  PROVE
    LET r == SubSeq(text, 1, j - 1) \o rest
    IN  /\ SubSeq(r, 1, i - 1) = SubSeq(text, 1, i - 1)
        /\ SubSeq(r, j, Len(r)) = rest
<1> DEFINE a == SubSeq(text, 1, j - 1)
  r == a \o rest
  x == SubSeq(r, 1, i - 1)
  y == SubSeq(text, 1, i - 1)
  z == SubSeq(r, j, Len(r))
<1>1. Len(text) \in Nat /\ Len(rest) \in Nat /\ i \in Nat /\ j \in Nat BY LenProperties
<1>2. a \in Seq(S) /\ Len(a) = j - 1 /\ \A k \in 1 .. j - 1 : a[k] = text[k]
 <2>1.
   1 \in Int /\ j - 1 \in Int /\ 1 >= 1 /\ j - 1 <= Len(text) /\ 1 <= j - 1
   /\ (j - 1) - 1 + 1 = j - 1 /\ \A k \in 1 .. j - 1 : 1 + k - 1 = k
   BY <1>1
 <2>2.
   /\ a \in Seq(S) /\ Len(a) = IF 1 <= j - 1 THEN (j - 1) - 1 + 1 ELSE 0
   /\ \A k \in 1 .. (j - 1) - 1 + 1 : a[k] = text[1 + k - 1]
   BY <2>1, TxtPart
 <2> HIDE DEF a
 <2> QED BY <2>1, <2>2
<1>3. y \in Seq(S) /\ Len(y) = i - 1 /\ \A k \in 1 .. i - 1 : y[k] = text[k]
 <2>1.
   1 \in Int /\ i - 1 \in Int /\ 1 >= 1 /\ i - 1 <= Len(text)
   /\ (i - 1) - 1 + 1 = i - 1 /\ \A k \in 1 .. i - 1 : 1 + k - 1 = k
   BY <1>1
 <2>2.
   /\ y \in Seq(S) /\ Len(y) = IF 1 <= i - 1 THEN (i - 1) - 1 + 1 ELSE 0
   /\ \A k \in 1 .. (i - 1) - 1 + 1 : y[k] = text[1 + k - 1]
   BY <2>1, TxtPart
 <2> HIDE DEF y
 <2> QED BY <1>1, <2>1, <2>2
<1> HIDE DEF a
<1>4.
  /\ r \in Seq(S) /\ Len(r) = (j - 1) + Len(rest)
  /\ \A k \in 1 .. (j - 1) + Len(rest) : r[k] = IF k <= j - 1 THEN a[k] ELSE rest[k - (j - 1)]
 <2>1.
   /\ r \in Seq(S) /\ Len(r) = Len(a) + Len(rest)
   /\ \A k \in 1 .. Len(a) + Len(rest) :
        r[k] = IF k <= Len(a) THEN a[k] ELSE rest[k - Len(a)]
   BY <1>2, ConcatProperties
 <2> HIDE DEF r
 <2> QED BY <1>2, <2>1
<1> HIDE DEF r
<1>5. x \in Seq(S) /\ Len(x) = i - 1 /\ \A k \in 1 .. i - 1 : x[k] = r[k]
 <2>1.
   1 \in Int /\ i - 1 \in Int /\ 1 >= 1 /\ i - 1 <= Len(r)
   /\ (i - 1) - 1 + 1 = i - 1 /\ \A k \in 1 .. i - 1 : 1 + k - 1 = k
   BY <1>1, <1>4
 <2>2.
   /\ x \in Seq(S) /\ Len(x) = IF 1 <= i - 1 THEN (i - 1) - 1 + 1 ELSE 0
   /\ \A k \in 1 .. (i - 1) - 1 + 1 : x[k] = r[1 + k - 1]
   BY <1>4, <2>1, TxtPart
 <2> HIDE DEF x
 <2> QED BY <1>1, <2>1, <2>2
<1>6. z \in Seq(S) /\ Len(z) = Len(rest) /\ \A k \in 1 .. Len(rest) : z[k] = r[j + k - 1]
 <2>1. j \in Int /\ Len(r) \in Int /\ j >= 1 /\ Len(r) <= Len(r) /\ Len(r) - j + 1 = Len(rest)
   BY <1>1, <1>4
 <2>2.
   /\ z \in Seq(S) /\ Len(z) = IF j <= Len(r) THEN Len(r) - j + 1 ELSE 0
   /\ \A k \in 1 .. Len(r) - j + 1 : z[k] = r[j + k - 1]
   BY <1>4, <2>1, TxtPart
 <2> HIDE DEF z
 <2> QED BY <1>1, <2>1, <2>2
<1> HIDE DEF x, y, z
<1>7. \A k \in 1 .. Len(x) : x[k] = y[k]
 <2>1. ASSUME NEW k \in 1 .. i - 1
   PROVE x[k] = y[k]
  <3>1. k \in 1 .. (j - 1) + Len(rest) /\ k <= j - 1 /\ k \in 1 .. j - 1 BY <1>1
  <3>2. r[k] = text[k] BY <1>2, <1>4, <3>1
  <3> QED BY <1>3, <1>5, <3>2
 <2> QED BY <1>5, <2>1
<1>8. \A k \in 1 .. Len(z) : z[k] = rest[k]
 <2>1. ASSUME NEW k \in 1 .. Len(rest)
   PROVE z[k] = rest[k]
  <3>1. /\ j + k - 1 \in 1 .. (j - 1) + Len(rest) /\ ~ (j + k - 1 <= j - 1)
        /\ (j + k - 1) - (j - 1) = k
    BY <1>1
  <3>2. r[j + k - 1] = rest[k] BY <1>4, <3>1
  <3> QED BY <1>6, <3>2
 <2> QED BY <1>6, <2>1
<1>9. x = y BY <1>3, <1>5, <1>7, SeqEqual
<1>10. z = rest BY <1>6, <1>8, SeqEqual
<1> QED BY <1>9, <1>10 DEF x, y, z, r, a

\* The places taken from the last to the first give what one pass over the text gives.
LEMMA TxtReplaceExpected ==
  ASSUME NEW content \in Seq(TxtCharacters), NEW candidate \in Seq(TxtCharacters),
    candidate # <<>>, NEW quotes \in BOOLEAN, NEW any, NEW template \in Seq(TxtCharacters)
  PROVE
    TxtReplace(content, TxtPositions(TxtSeen(content, quotes), TxtSeen(candidate, quotes)),
               TxtHow(candidate, quotes, any), template)
      = TxtExpected(content, TxtHow(candidate, quotes, <<>>), template)
<1> DEFINE C == Seq(TxtCharacters)
  N == Len(content)
  P == Len(candidate)
  seen == TxtSeen(content, quotes)
  piece == TxtSeen(candidate, quotes)
  how == TxtHow(candidate, quotes, any)
  at == TxtPositions(seen, piece)
  K == Len(at)
  new(i) == TxtReplacement(content, i, TxtHow(candidate, quotes, <<>>), template)
  here(i) == TxtAt(seen, i, piece)
<1>0. /\ seen \in C /\ Len(seen) = N /\ piece \in C /\ Len(piece) = P /\ piece # <<>>
  BY TxtSeenType
<1>1. N \in Nat /\ P \in Nat \ {0} BY LenProperties, EmptySeq
<1> HIDE DEF seen, piece
<1>2. PICK p : TxtPlaces(p, seen, piece) BY <1>0, TxtPositionsFrom
<1>3. PICK e : TxtWritten(e, content, candidate, quotes, template) BY TxtExpectedFrom
<1>4.
  /\ p[1] = at
  /\ \A i \in 1 .. N + 1 :
       /\ p[i] \in Seq(1 .. N)
       /\ p[i] = IF i > N THEN <<>> ELSE IF here(i) THEN <<i>> \o p[i + P] ELSE p[i + 1]
       /\ Rising(p[i]) /\ \A k \in 1 .. Len(p[i]) : here(p[i][k])
  BY <1>0, <1>2 DEF TxtPlaces
<1>5.
  /\ e[1] = TxtExpected(content, TxtHow(candidate, quotes, <<>>), template)
  /\ \A i \in 1 .. N + 1 :
       /\ e[i] \in C
       /\ e[i] = IF i > N THEN <<>> ELSE IF here(i) THEN new(i) \o e[i + P]
                 ELSE <<content[i]>> \o e[i + 1]
  BY <1>3 DEF TxtWritten, seen, piece
<1> HIDE DEF here, at
<1>6. at \in Seq(1 .. N) /\ Rising(at) /\ \A k \in 1 .. K : here(at[k])
 <2>1. 1 \in 1 .. N + 1 BY <1>1
 <2> QED BY <1>4, <2>1
<1>7. \A i \in 1 .. N : here(i) => i + P \in 1 .. N + 1 /\ i < i + P
 <2> SUFFICES ASSUME NEW i \in 1 .. N, here(i)
   PROVE i + P \in 1 .. N + 1 /\ i < i + P
   OBVIOUS
 <2>1. i + Len(piece) \in 1 .. Len(seen) + 1
  <3>1. i \in 1 .. Len(seen) /\ TxtAt(seen, i, piece) BY <1>0 DEF here
  <3> HIDE DEF C
  <3> QED BY <1>0, <3>1, TxtAtFits DEF C
 <2> QED BY <1>0, <1>1, <2>1
<1>8. K \in Nat /\ \A k \in 1 .. K : at[k] \in 1 .. N /\ at[k] + P \in 1 .. N + 1
 <2>1. K \in Nat /\ \A k \in 1 .. K : at[k] \in 1 .. N BY <1>6, LenProperties, ElementOfSeq
 <2> QED BY <1>6, <1>7, <2>1
<1>9. PICK r : TxtReplaced(r, content, at, how, template)
 <2>1. \A k \in 1 .. Len(at) : at[k] + Len(candidate) \in 1 .. Len(content) + 1 BY <1>8
 <2>2. at \in Seq(1 .. Len(content)) /\ Rising(at) BY <1>6
 <2> HIDE DEF N, P, K
 <2> QED BY <2>1, <2>2, TxtReplaceFrom
<1>10.
  /\ r[1] = TxtReplace(content, at, how, template) /\ r[K + 1] = content
  /\ \A k \in 1 .. K :
       r[k] = (SubSeq(r[k + 1], 1, at[k] - 1) \o new(at[k]))
                \o SubSeq(r[k + 1], at[k] + P, Len(r[k + 1]))
 <2>1.
   /\ r[1] = TxtReplace(content, at, how, template) /\ r[K + 1] = content
   /\ \A k \in 1 .. K : r[k] = TxtReplaceOne(content, r[k + 1], at[k], how, template)
   BY <1>9 DEF TxtReplaced
 <2>2.
   \A text, i : TxtReplaceOne(content, text, i, how, template) =
     (SubSeq(text, 1, i - 1) \o new(i)) \o SubSeq(text, i + P, Len(text))
   BY DEF TxtReplaceOne, TxtReplacement, TxtHow
 <2> HIDE DEF new, how, P, K
 <2> QED BY <2>1, <2>2
<1>11. \A i \in 1 .. N : i + P \in 1 .. N + 1 => new(i) \in C BY TxtReplacementType
<1> HIDE DEF new, how
<1> DEFINE
  T == {i \in 1 .. N + 1 : \A k \in 1 .. K + 1 :
          p[i] = SubSeq(at, k, K) => r[k] = SubSeq(content, 1, i - 1) \o e[i]}
<1>12. ASSUME NEW i \in 1 .. N + 1, \A j \in 1 .. N + 1 : i < j => j \in T
  PROVE i \in T
 <2> SUFFICES ASSUME NEW k \in 1 .. K + 1, p[i] = SubSeq(at, k, K)
   PROVE r[k] = SubSeq(content, 1, i - 1) \o e[i]
   OBVIOUS
 <2>1. CASE i > N
  <3>1. i = N + 1 /\ i - 1 = N BY <1>1, <2>1
  <3>2. p[i] = <<>> /\ e[i] = <<>> BY <1>4, <1>5, <2>1
  <3>3. k = K + 1
   <4> SUFFICES ASSUME k <= K
     PROVE FALSE
     BY <1>8
   <4>1. k \in Int /\ K \in Int /\ k >= 1 /\ K <= Len(at) BY <1>8
   <4>2. Len(SubSeq(at, k, K)) = IF k <= K THEN K - k + 1 ELSE 0
    <5> HIDE DEF K
    <5> QED BY <1>6, <4>1, TxtPart
   <4>3. Len(SubSeq(at, k, K)) = 0 BY <3>2
   <4> QED BY <1>8, <4>2, <4>3
  <3>4. SubSeq(content, 1, N) = content BY SubSeqFull
  <3>5. content \o <<>> = content BY ConcatEmptySeq
  <3> QED BY <1>10, <3>1, <3>2, <3>3, <3>4, <3>5
 <2>2. CASE ~ (i > N) /\ here(i)
  <3>1. i \in 1 .. N /\ i + P \in 1 .. N + 1 /\ i < i + P BY <1>1, <1>7, <2>2
  <3> DEFINE s == p[i + P]
    t == SubSeq(at, k + 1, K)
    a == SubSeq(content, 1, i - 1)
    b == e[i + P]
    c == SubSeq(content, 1, (i + P) - 1)
  <3>2. p[i] = <<i>> \o s /\ s \in Seq(1 .. N) BY <1>4, <2>2, <3>1
  <3>3. k \in 1 .. K
   <4> SUFFICES ASSUME k > K
     PROVE FALSE
     BY <1>8
   <4>1. SubSeq(at, k, K) = <<>>
    <5>1. k \in Int /\ K \in Int /\ K < k BY <1>8
    <5> QED BY <5>1, SubSeqEmpty
   <4>2. <<i>> \in Seq(1 .. N) /\ <<i>> # <<>> BY <3>1
   <4>3. <<i>> \o s # <<>> BY <3>2, <4>2, ConcatEqualIffEmpty
   <4> QED BY <3>2, <4>1, <4>3
  <3>4. SubSeq(at, k, K) = <<at[k]>> \o t
   <4>1. K \in k .. Len(at) /\ k \in 1 .. Len(at) BY <1>8, <3>3
   <4> QED BY <1>6, <4>1, SubSeqRecursiveFirst
  <3>5. t \in Seq(1 .. N)
   <4>1. k + 1 \in Int /\ K \in Int /\ k + 1 >= 1 /\ K <= Len(at) BY <1>8
   <4> HIDE DEF K
   <4> QED BY <1>6, <4>1, TxtPart
  <3> HIDE DEF s, t
  <3>6. i = at[k] /\ s = t
   <4>1. at[k] \in 1 .. N /\ TxtBegins(p[i], i, s) /\ TxtBegins(p[i], at[k], t)
     BY <1>8, <3>2, <3>3, <3>4 DEF TxtBegins
   <4> DEFINE I == 1 .. N
   <4>2. i \in I /\ at[k] \in I /\ s \in Seq(I) /\ t \in Seq(I) BY <3>1, <3>2, <3>5, <4>1
   <4> HIDE DEF I
   <4> QED BY <4>1, <4>2, TxtSameFirst
  <3>7. r[k + 1] = c \o b
   <4>1. k + 1 \in 1 .. K + 1 BY <1>8, <3>3
   <4>2. i + P \in T
    <5> HIDE DEF T
    <5> QED BY <1>12, <3>1
   <4> QED BY <3>6, <4>1, <4>2 DEF s, t
  <3>8. b \in C BY <1>5, <3>1
  <3>9. a \in C
   <4>1. 1 \in Int /\ i - 1 \in Int /\ 1 >= 1 /\ i - 1 <= N BY <1>1, <3>1
   <4> QED BY <4>1, TxtPart
  <3>10. SubSeq(c \o b, 1, i - 1) = a /\ SubSeq(c \o b, i + P, Len(c \o b)) = b
   <4> DEFINE j == i + P
   <4>1. j \in 1 .. Len(content) + 1 /\ i \in 1 .. Len(content) /\ i < j BY <3>1
   <4> HIDE DEF j, b
   <4>2. /\ SubSeq(SubSeq(content, 1, j - 1) \o b, 1, i - 1) = SubSeq(content, 1, i - 1)
         /\ SubSeq(SubSeq(content, 1, j - 1) \o b, j, Len(SubSeq(content, 1, j - 1) \o b)) = b
     BY <3>8, <4>1, TxtCutTwice
   <4> QED BY <4>2 DEF j
  <3>11. new(i) \in C BY <1>11, <3>1
  <3>12. e[i] = new(i) \o b BY <1>5, <2>2, <3>1
  <3> DEFINE n == new(i)
  <3> HIDE DEF a, b, c, n
  <3>13. r[k] = (a \o n) \o b BY <1>10, <3>3, <3>6, <3>7, <3>10 DEF n
  <3>14. (a \o n) \o b = a \o (n \o b)
   <4>1. n \in C BY <3>11 DEF n
   <4>2. Associates(a, n, b) BY <3>8, <3>9, <4>1, ConcatAssociates
   <4> QED BY <4>2, Zenon DEF Associates
  <3> QED BY <3>12, <3>13, <3>14 DEF a, n
 <2>3. CASE ~ (i > N) /\ ~ here(i)
  <3>1. i \in 1 .. N /\ i + 1 \in 1 .. N + 1 /\ i < i + 1 /\ (i + 1) - 1 = i BY <1>1, <2>3
  <3>2. p[i] = p[i + 1] BY <1>4, <2>3
  <3> DEFINE a == SubSeq(content, 1, i - 1)
    b == e[i + 1]
    c == SubSeq(content, 1, i)
    n == <<content[i]>>
  <3>3. r[k] = c \o b
   <4>1. i + 1 \in T BY <1>12, <3>1
   <4> QED BY <3>1, <3>2, <4>1
  <3>4. c = a \o n
   <4>1. 1 \in 1 .. Len(content) /\ i \in 1 .. Len(content) BY <3>1
   <4> QED BY <4>1, SubSeqRecursiveSecond
  <3>5. a \in C /\ b \in C /\ n \in C
   <4>1. 1 \in Int /\ i - 1 \in Int /\ 1 >= 1 /\ i - 1 <= N BY <1>1, <3>1
   <4>2. a \in C BY <4>1, TxtPart
   <4>3. content[i] \in TxtCharacters BY <3>1, ElementOfSeq
   <4>4. n \in C BY <4>3
   <4>5. b \in C BY <1>5, <3>1
   <4> QED BY <4>2, <4>4, <4>5
  <3>6. e[i] = n \o b BY <1>5, <2>3
  <3> HIDE DEF a, b, c, n
  <3>7. (a \o n) \o b = a \o (n \o b)
   <4> HIDE DEF C
   <4>1. a \in Seq(TxtCharacters) /\ n \in Seq(TxtCharacters) /\ b \in Seq(TxtCharacters)
     BY <3>5 DEF C
   <4>2. Associates(a, n, b) BY <4>1, ConcatAssociates
   <4> QED BY <4>2, Zenon DEF Associates
  <3> QED BY <3>3, <3>4, <3>6, <3>7 DEF a
 <2> QED BY <2>1, <2>2, <2>3
<1> HIDE DEF T
<1>13. 1 .. N + 1 \subseteq T
 <2>1. N + 1 \in Nat BY <1>1
 <2> HIDE DEF N
 <2> QED BY <1>12, <2>1, FromTheEnd
<1>14. r[1] = SubSeq(content, 1, 1 - 1) \o e[1]
 <2>1. 1 \in T /\ 1 \in 1 .. K + 1 BY <1>1, <1>8, <1>13
 <2>2. SubSeq(at, 1, K) = at BY <1>6, SubSeqFull
 <2> QED BY <1>4, <2>1, <2>2 DEF T
<1>15. SubSeq(content, 1, 1 - 1) = <<>> BY SubSeqEmpty
<1>16. <<>> \o e[1] = e[1]
 <2>1. 1 \in 1 .. N + 1 BY <1>1
 <2>2. e[1] \in C
  <3> HIDE DEF N, C
  <3> QED BY <1>5, <2>1
 <2> QED BY <2>2, ConcatEmptySeq
<1> QED BY <1>5, <1>10, <1>14, <1>15, <1>16 DEF at, how, seen, piece

\* A text of plain letters taken away and another written for it leave the rest of what is
\* kept.
LEMMA TxtKeptDropped ==
  ASSUME NEW s \in Seq(TxtCharacters), NEW t \in Seq(TxtCharacters), TxtPlain(s)
  PROVE TxtKept(s \o t) = TxtKept(t)
<1>1. TxtKept(s) = <<>> BY TxtKeptPlain
<1>2. TxtKept(s \o t) = TxtKept(s) \o TxtKept(t) BY TxtKeptConcat
<1>3. TxtKept(t) \in Seq(TxtCharacters) BY TxtKeptPlain
<1>4. <<>> \o TxtKept(t) = TxtKept(t) BY <1>3, ConcatEmptySeq
<1> QED BY <1>1, <1>2, <1>4

\* A pass that writes plain letters for plain letters keeps the rest of the text.
LEMMA TxtExpectedKept ==
  ASSUME NEW content \in Seq(TxtCharacters), NEW candidate \in Seq(TxtCharacters),
    candidate # <<>>, NEW quotes \in BOOLEAN, NEW template \in Seq(TxtCharacters),
    TxtPlain(candidate), TxtPlain(template)
  PROVE
    TxtKept(TxtExpected(content, TxtHow(candidate, quotes, <<>>), template))
      = TxtKept(content)
<1> DEFINE N == Len(content)
  P == Len(candidate)
  C == Seq(TxtCharacters)
  seen == TxtSeen(content, quotes)
  piece == TxtSeen(candidate, quotes)
  new(i) == TxtReplacement(content, i, TxtHow(candidate, quotes, <<>>), template)
  here(i) == TxtAt(seen, i, piece)
  rest(i) == SubSeq(content, i, N)
<1>0.
  /\ seen \in C /\ Len(seen) = N /\ piece \in C /\ Len(piece) = P /\ piece # <<>>
  /\ \A i \in 1 .. N : seen[i] = "a" <=> content[i] = "a"
  /\ \A i \in 1 .. P : piece[i] = "a" <=> candidate[i] = "a"
  BY TxtSeenType
<1>1.
  N \in Nat /\ P \in Nat \ {0} /\ DOMAIN candidate = 1 .. P
  /\ \A i \in 1 .. N : content[i] \in TxtCharacters
  BY LenProperties, EmptySeq, ElementOfSeq
<1>2. PICK e : TxtWritten(e, content, candidate, quotes, template) BY TxtExpectedFrom
<1>3.
  /\ e[1] = TxtExpected(content, TxtHow(candidate, quotes, <<>>), template)
  /\ \A i \in 1 .. N + 1 :
       /\ e[i] \in C
       /\ e[i] = IF i > N THEN <<>> ELSE IF here(i) THEN new(i) \o e[i + P]
                 ELSE <<content[i]>> \o e[i + 1]
  BY <1>2 DEF TxtWritten
<1> HIDE DEF seen, piece
<1>4. ASSUME NEW i \in 1 .. N, here(i)
  PROVE i + P \in 1 .. N + 1 /\ i < i + P /\ \A k \in 1 .. P : seen[i + k - 1] = piece[k]
 <2>1.
   /\ i + Len(piece) \in 1 .. Len(seen) + 1
   /\ \A k \in 1 .. Len(piece) : seen[i + k - 1] = piece[k]
  <3>1. i \in 1 .. Len(seen) /\ TxtAt(seen, i, piece) BY <1>0, <1>4 DEF here
  <3> QED BY <1>0, <3>1, TxtAtFits
 <2> QED BY <1>0, <1>1, <2>1
<1>5. ASSUME NEW i \in 1 .. N + 1
  PROVE rest(i) \in C
 <2>1. i \in Int /\ N \in Int /\ i >= 1 /\ N <= Len(content) BY <1>1
 <2> QED BY <2>1, TxtPart
<1>6. ASSUME NEW i \in 1 .. N, i + P \in 1 .. N + 1
  PROVE new(i) = template
  BY <1>6, TxtReplacementType
<1> HIDE DEF here, new
<1> DEFINE T == {i \in 1 .. N + 1 : TxtKept(e[i]) = TxtKept(rest(i))}
<1>7. ASSUME NEW i \in 1 .. N + 1, \A j \in 1 .. N + 1 : i < j => j \in T
  PROVE i \in T
 <2>1. CASE i > N
  <3>1. rest(i) = <<>>
   <4>1. i \in Int /\ N \in Int /\ N < i BY <1>1, <2>1
   <4> QED BY <4>1, SubSeqEmpty
  <3>2. e[i] = <<>> BY <1>3, <2>1
  <3> QED BY <3>1, <3>2
 <2>2. CASE ~ (i > N) /\ here(i)
  <3>1. i \in 1 .. N /\ i + P \in 1 .. N + 1 /\ i < i + P BY <1>1, <1>4, <2>2
  <3> DEFINE a == SubSeq(content, i, i + P - 1)
    b == rest(i + P)
    w == e[i + P]
  <3>2. e[i] = template \o w BY <1>3, <1>6, <2>2, <3>1
  <3>3. w \in C /\ b \in C BY <1>3, <1>5, <3>1
  <3>4. TxtKept(w) = TxtKept(b) BY <1>7, <3>1
  <3>5. a \in C /\ TxtPlain(a)
   <4>1. i \in Int /\ i + P - 1 \in Int /\ i >= 1 /\ i + P - 1 <= Len(content)
         /\ i <= i + P - 1 /\ (i + P - 1) - i + 1 = P
     BY <1>1, <3>1
   <4>2. /\ a \in C /\ Len(a) = IF i <= i + P - 1 THEN (i + P - 1) - i + 1 ELSE 0
         /\ \A k \in 1 .. (i + P - 1) - i + 1 : a[k] = content[i + k - 1]
     BY <4>1, TxtPart
   <4>3. Len(a) = P /\ DOMAIN a = 1 .. P
    <5>1. DOMAIN a = 1 .. Len(a) BY <4>2, LenProperties
    <5> HIDE DEF a
    <5> QED BY <4>1, <4>2, <5>1
   <4>4. ASSUME NEW k \in 1 .. P
     PROVE a[k] = "a"
    <5>1. a[k] = content[i + k - 1] /\ i + k - 1 \in 1 .. N
     <6> HIDE DEF a
     <6> QED BY <1>1, <3>1, <4>1, <4>2
    <5>2. candidate[k] = "a" BY <1>1 DEF TxtPlain
    <5>3. piece[k] = "a" BY <1>0, <5>2
    <5>4. seen[i + k - 1] = "a" BY <1>4, <2>2, <3>1, <5>3
    <5> QED BY <1>0, <5>1, <5>4
   <4> QED BY <4>2, <4>3, <4>4 DEF TxtPlain
  <3>6. rest(i) = a \o b
   <4> DEFINE k == i + P - 1
   <4>1. i \in 1 .. Len(content) + 1 /\ k \in i - 1 .. Len(content)
         /\ N \in k .. Len(content) /\ k + 1 = i + P
     BY <1>1, <3>1
   <4> HIDE DEF k
   <4>2. SubSeq(content, i, k) \o SubSeq(content, k + 1, N) = SubSeq(content, i, N)
     BY <4>1, ConcatAdjacentSubSeq
   <4> QED BY <4>1, <4>2 DEF k
  <3> HIDE DEF a, b, w, rest
  <3>7. TxtKept(a \o b) = TxtKept(b) BY <3>3, <3>5, TxtKeptDropped
  <3>8. TxtKept(template \o w) = TxtKept(w) BY <3>3, TxtKeptDropped
  <3> QED BY <3>2, <3>4, <3>6, <3>7, <3>8
 <2>3. CASE ~ (i > N) /\ ~ here(i)
  <3>1. i \in 1 .. N /\ i + 1 \in 1 .. N + 1 /\ i < i + 1 BY <1>1, <2>3
  <3> DEFINE c == <<content[i]>>
    b == rest(i + 1)
    w == e[i + 1]
  <3>2. e[i] = c \o w BY <1>3, <2>3, <3>1
  <3>3. w \in C /\ b \in C BY <1>3, <1>5, <3>1
  <3>4. TxtKept(w) = TxtKept(b) BY <1>7, <3>1
  <3>5. c \in C
   <4>1. content[i] \in TxtCharacters BY <1>1, <3>1
   <4> QED BY <4>1
  <3>6. rest(i) = c \o b
   <4>1. N \in i .. Len(content) /\ i \in 1 .. Len(content) BY <1>1, <3>1
   <4> QED BY <4>1, SubSeqRecursiveFirst
  <3> HIDE DEF b, c, w, rest
  <3>7. TxtKept(c \o b) = TxtKept(c) \o TxtKept(b) BY <3>3, <3>5, TxtKeptConcat
  <3>8. TxtKept(c \o w) = TxtKept(c) \o TxtKept(w) BY <3>3, <3>5, TxtKeptConcat
  <3> QED BY <3>2, <3>4, <3>6, <3>7, <3>8
 <2> QED BY <2>1, <2>2, <2>3
<1> HIDE DEF T
<1>8. 1 .. N + 1 \subseteq T
 <2>1. N + 1 \in Nat BY <1>1
 <2> HIDE DEF N
 <2> QED BY <1>7, <2>1, FromTheEnd
<1>9. 1 \in T BY <1>1, <1>8
<1>10. rest(1) = content BY SubSeqFull
<1> QED BY <1>3, <1>9, <1>10 DEF T

\* Where a piece stands, from left to right, and how it was looked for.
TxtTry(content, candidate, quotes) ==
  TxtHow(candidate, quotes,
         TxtPositions(TxtSeen(content, quotes), TxtSeen(candidate, quotes)))

\* A pass finds a piece that stands somewhere.
LEMMA TxtPositionsFound ==
  ASSUME NEW text \in Seq(TxtCharacters), NEW piece \in Seq(TxtCharacters), piece # <<>>,
    \E i \in DOMAIN text : TxtAt(text, i, piece)
  PROVE TxtPositions(text, piece) # <<>>
<1> DEFINE N == Len(text)
  P == Len(piece)
  here(i) == TxtAt(text, i, piece)
<1>1. N \in Nat /\ P \in Nat \ {0} /\ DOMAIN text = 1 .. N BY LenProperties, EmptySeq
<1>2. PICK p : TxtPlaces(p, text, piece) BY TxtPositionsFrom
<1>3.
  /\ p[1] = TxtPositions(text, piece)
  /\ \A i \in 1 .. N + 1 :
       /\ p[i] \in Seq(1 .. N)
       /\ p[i] = IF i > N THEN <<>> ELSE IF here(i) THEN <<i>> \o p[i + P] ELSE p[i + 1]
  BY <1>2 DEF TxtPlaces
<1>4. \A i \in 1 .. N : here(i) => i + P \in 1 .. N + 1 BY TxtAtFits
<1>5. PICK j \in 1 .. N : here(j) BY <1>1
<1> HIDE DEF here
<1> DEFINE T == {i \in 1 .. N + 1 : i <= j => p[i] # <<>>}
<1>6. ASSUME NEW i \in 1 .. N + 1, \A k \in 1 .. N + 1 : i < k => k \in T
  PROVE i \in T
 <2> SUFFICES ASSUME i <= j
   PROVE p[i] # <<>>
   OBVIOUS
 <2>1. i \in 1 .. N /\ ~ (i > N) BY <1>1
 <2>2. CASE here(i)
  <3>1. i + P \in 1 .. N + 1 BY <1>4, <2>1, <2>2
  <3> DEFINE s == p[i + P]
  <3>2. p[i] = <<i>> \o s /\ s \in Seq(1 .. N) BY <1>3, <2>1, <2>2, <3>1
  <3>3. <<i>> \in Seq(1 .. N) /\ <<i>> # <<>> BY <2>1
  <3> HIDE DEF s
  <3>4. <<i>> \o s # <<>> BY <3>2, <3>3, ConcatEqualIffEmpty
  <3> QED BY <3>2, <3>4
 <2>3. CASE ~ here(i)
  <3>1. i # j BY <1>5, <2>3
  <3>2. i + 1 \in 1 .. N + 1 /\ i < i + 1 /\ i + 1 <= j BY <1>1, <2>1, <3>1
  <3>3. p[i] = p[i + 1] BY <1>3, <2>1, <2>3
  <3> QED BY <1>6, <3>2, <3>3
 <2> QED BY <2>2, <2>3
<1> HIDE DEF T
<1>7. 1 .. N + 1 \subseteq T
 <2>1. N + 1 \in Nat BY <1>1
 <2> HIDE DEF N
 <2> QED BY <1>6, <2>1, FromTheEnd
<1>8. 1 \in T /\ 1 <= j BY <1>1, <1>7
<1> QED BY <1>3, <1>8 DEF T

\* What is found is a piece looked for in one of the ways, and the text as given before
\* all others.
LEMMA TxtFound ==
  ASSUME NEW content \in Seq(TxtCharacters), NEW old \in Seq(TxtCharacters), old # <<>>
  PROVE
    LET match == TxtFind(content, old)
        literal == \E i \in DOMAIN content : TxtAt(content, i, old)
    IN  /\ \/ match.at = <<>>
           \/ \E candidate \in {old, TxtWithEnding(old, TxtEnding(content))},
                 quotes \in BOOLEAN : match = TxtTry(content, candidate, quotes)
        /\ literal => match = TxtTry(content, old, FALSE) /\ match.at # <<>>
<1> DEFINE normal == TxtWithEnding(old, TxtEnding(content))
  cs == TxtCandidates(content, old)
  plain == [i \in DOMAIN cs |-> TxtMatch(content, cs[i], FALSE)]
  flat == [i \in DOMAIN cs |-> TxtMatch(content, cs[i], TRUE)]
  tried == plain \o flat
  found == {k \in DOMAIN tried : tried[k].at # <<>>}
  least == CHOOSE k \in found : \A other \in found : k <= other
  match == TxtFind(content, old)
  literal == \E i \in DOMAIN content : TxtAt(content, i, old)
  M == {TxtTry(content, candidate, quotes) : candidate \in {old, normal},
                                             quotes \in BOOLEAN}
<1>1. \A c : \A q \in BOOLEAN : TxtMatch(content, c, q) = TxtTry(content, c, q)
  BY DEF TxtMatch, TxtTry, TxtHow, TxtSeen
<1>2.
  match = IF found = {} THEN [piece |-> old, quotes |-> FALSE, at |-> <<>>]
          ELSE tried[least]
  BY DEF TxtFind
<1>3. cs = <<old>> \/ cs = <<old, normal>> BY DEF TxtCandidates
<1> HIDE DEF cs, normal
<1>4.
  \E n \in 1 .. 2 : /\ DOMAIN cs = 1 .. n /\ \A i \in 1 .. n : cs[i] \in {old, normal}
                    /\ cs[1] = old
  BY <1>3
<1>5.
  PICK n \in 1 .. 2 : /\ DOMAIN cs = 1 .. n /\ \A i \in 1 .. n : cs[i] \in {old, normal}
                      /\ cs[1] = old
  BY <1>4
<1>6.
  /\ plain \in [1 .. n -> M] /\ flat \in [1 .. n -> M]
  /\ plain[1] = TxtTry(content, old, FALSE)
 <2>1. ASSUME NEW i \in 1 .. n, NEW q \in BOOLEAN
   PROVE TxtMatch(content, cs[i], q) \in M
   BY <1>1, <1>5
 <2>2. plain[1] = TxtTry(content, old, FALSE)
  <3>0. 1 \in DOMAIN cs /\ cs[1] = old BY <1>5
  <3>1. plain[1] = TxtMatch(content, cs[1], FALSE) BY <3>0, Zenon
  <3>2. TxtMatch(content, old, FALSE) = TxtTry(content, old, FALSE) BY <1>1, Zenon
  <3> QED BY <3>0, <3>1, <3>2
 <2> HIDE DEF M
 <2>3. FALSE \in BOOLEAN /\ TRUE \in BOOLEAN OBVIOUS
 <2>4. \A i \in 1 .. n : TxtMatch(content, cs[i], FALSE) \in M BY <2>1, <2>3, Zenon
 <2>5. \A i \in 1 .. n : TxtMatch(content, cs[i], TRUE) \in M BY <2>1, <2>3, Zenon
 <2> QED BY <1>5, <2>2, <2>4, <2>5
<1> HIDE DEF plain, flat, M
<1>7. plain \in Seq(M) /\ flat \in Seq(M) /\ Len(plain) = n /\ Len(flat) = n
 <2>1. n \in Nat OBVIOUS
 <2> QED BY <1>6, <2>1, FromFunction
<1>8.
  /\ tried \in Seq(M) /\ Len(tried) = Len(plain) + Len(flat)
  /\ \A k \in 1 .. Len(plain) + Len(flat) :
       tried[k] = IF k <= Len(plain) THEN plain[k] ELSE flat[k - Len(plain)]
  BY <1>7, ConcatProperties
<1> HIDE DEF tried
<1>9. DOMAIN tried = 1 .. n + n /\ \A k \in DOMAIN tried : tried[k] \in M
 <2>1. Len(tried) = n + n BY <1>7, <1>8
 <2> QED BY <1>8, <2>1, LenProperties, ElementOfSeq
<1>10. tried[1] = TxtTry(content, old, FALSE)
 <2>1. 1 \in 1 .. Len(plain) + Len(flat) /\ 1 <= Len(plain) BY <1>7
 <2> QED BY <1>6, <1>8, <2>1
<1>11. found # {} => least \in found /\ \A other \in found : least <= other
 <2>1. found \subseteq 1 .. 4 BY <1>9
 <2> HIDE DEF found
 <2>2. ASSUME found # {}
   PROVE \E k \in found : \A other \in found : k <= other
  <3>1. CASE 1 \in found BY <2>1, <3>1
  <3>2. CASE 1 \notin found /\ 2 \in found BY <2>1, <3>2
  <3>3. CASE 1 \notin found /\ 2 \notin found /\ 3 \in found BY <2>1, <3>3
  <3>4. CASE 1 \notin found /\ 2 \notin found /\ 3 \notin found
   <4>1. \A k \in found : k = 4 BY <2>1, <3>4
   <4> QED BY <2>2, <4>1
  <3> QED BY <3>1, <3>2, <3>3, <3>4
 <2> QED BY <2>2
<1>12.
  match.at = <<>> \/ \E candidate \in {old, normal}, quotes \in BOOLEAN :
                       match = TxtTry(content, candidate, quotes)
 <2>1. CASE found = {}
  <3>1. match = [piece |-> old, quotes |-> FALSE, at |-> <<>>] BY <1>2, <2>1, Zenon
  <3> QED BY <3>1
 <2>2. CASE found # {}
  <3>1. match = tried[least] BY <1>2, <2>2, Zenon
  <3>2. least \in DOMAIN tried BY <1>11, <2>2
  <3>3. match \in M BY <1>9, <3>1, <3>2
  <3> HIDE DEF match
  <3>4. PICK candidate \in {old, normal}, quotes \in BOOLEAN :
          match = TxtTry(content, candidate, quotes)
    BY <3>3 DEF M
  <3> QED BY <3>4
 <2> QED BY <2>1, <2>2
<1>13. ASSUME literal
  PROVE match = TxtTry(content, old, FALSE) /\ match.at # <<>>
 <2>1. TxtPositions(content, old) # <<>> BY <1>13, TxtPositionsFound
 <2>2. TxtTry(content, old, FALSE).at = TxtPositions(content, old)
   BY DEF TxtTry, TxtHow, TxtSeen
 <2>3. 1 \in found
  <3>1. 1 \in DOMAIN tried BY <1>9
  <3>2. tried[1].at # <<>> BY <1>10, <2>1, <2>2, Zenon
  <3> QED BY <3>1, <3>2
 <2>4. least = 1
  <3>1. least \in 1 .. n + n /\ least <= 1 BY <1>9, <1>11, <2>3
  <3> HIDE DEF least
  <3> QED BY <3>1
 <2>5. match = tried[1]
  <3>1. match = tried[least] BY <1>2, <2>3
  <3> QED BY <2>4, <3>1
 <2> QED BY <1>10, <2>1, <2>2, <2>5
<1> QED BY <1>12, <1>13 DEF normal

\* Every place of a piece replaced is what one pass from left to right gives.
LEMMA TxtReplaceTried ==
  ASSUME NEW content \in Seq(TxtCharacters), NEW candidate \in Seq(TxtCharacters),
    candidate # <<>>, NEW quotes \in BOOLEAN, NEW template \in Seq(TxtCharacters)
  PROVE
    LET match == TxtTry(content, candidate, quotes)
    IN  /\ match.at \in Seq(1 .. Len(content))
        /\ TxtReplace(content, match.at, match, template)
             = TxtExpected(content, TxtHow(candidate, quotes, <<>>), template)
        /\ TxtReplace(content, match.at, match, template) \in Seq(TxtCharacters)
<1> DEFINE at == TxtPositions(TxtSeen(content, quotes), TxtSeen(candidate, quotes))
  match == TxtTry(content, candidate, quotes)
<1>1. match = TxtHow(candidate, quotes, at) /\ match.at = at BY DEF TxtTry, TxtHow
<1>2.
  TxtReplace(content, at, TxtHow(candidate, quotes, at), template)
    = TxtExpected(content, TxtHow(candidate, quotes, <<>>), template)
  BY TxtReplaceExpected
<1>3. at \in Seq(1 .. Len(content))
 <2>1.
   /\ TxtSeen(content, quotes) \in Seq(TxtCharacters)
   /\ Len(TxtSeen(content, quotes)) = Len(content)
   /\ TxtSeen(candidate, quotes) \in Seq(TxtCharacters) /\ TxtSeen(candidate, quotes) # <<>>
   BY TxtSeenType
 <2>2. PICK p : TxtPlaces(p, TxtSeen(content, quotes), TxtSeen(candidate, quotes))
   BY <2>1, TxtPositionsFrom
 <2>3. 1 \in 1 .. Len(content) + 1 BY LenProperties
 <2>4. 1 \in 1 .. Len(TxtSeen(content, quotes)) + 1 BY <2>1, <2>3
 <2>5. p[1] = at /\ p[1] \in Seq(1 .. Len(TxtSeen(content, quotes)))
   BY <2>2, <2>4, Zenon DEF TxtPlaces
 <2> QED BY <2>1, <2>5
<1>4. TxtExpected(content, TxtHow(candidate, quotes, <<>>), template) \in Seq(TxtCharacters)
 <2>1. PICK e : TxtWritten(e, content, candidate, quotes, template) BY TxtExpectedFrom
 <2>2. 1 \in 1 .. Len(content) + 1 BY LenProperties
 <2> QED BY <2>1, <2>2 DEF TxtWritten
<1> HIDE DEF at, match
<1> QED BY <1>1, <1>2, <1>3, <1>4 DEF match

\* What an edit may make of a text.
TxtResultExact(content, old, new, result) ==
  LET literal == \E i \in DOMAIN content : TxtAt(content, i, old)
      ending == TxtEnding(content)
      expected(piece, quotes) ==
        TxtExpected(content, TxtHow(piece, quotes, <<>>), TxtWithEnding(new, ending))
  IN /\ ~ result.ok => result.text = content
     /\ result.ok /\ literal => result.text = expected(old, FALSE)
     /\ result.ok /\ ~ literal =>
          \E piece \in {old, TxtWithEnding(old, ending)}, quotes \in BOOLEAN :
            result.text = expected(piece, quotes)
     /\ literal => result.reason # "not_found"
     /\ TxtKept(old) = <<>> /\ TxtKept(new) = <<>> => TxtKept(result.text) = TxtKept(content)

\* An edit changes exactly what it was asked to change.
LEMMA TxtApplyExact ==
  ASSUME NEW content \in Seq(TxtCharacters), NEW old \in Seq(TxtCharacters),
    NEW new \in Seq(TxtCharacters), NEW all \in BOOLEAN
  PROVE
    /\ TxtResultExact(content, old, new, TxtApply(content, old, new, all))
    /\ TxtApply(content, old, new, all).text \in Seq(TxtCharacters)
<1> DEFINE match == TxtFind(content, old)
  ending == TxtEnding(content)
  template == TxtWithEnding(new, ending)
  at == IF all THEN match.at ELSE SubSeq(match.at, 1, 1)
  next == TxtReplace(content, at, match, template)
  result == TxtApply(content, old, new, all)
  literal == \E i \in DOMAIN content : TxtAt(content, i, old)
  expected(piece, quotes) == TxtExpected(content, TxtHow(piece, quotes, <<>>), template)
<1>1. ending \in {<<"n">>, <<"r", "n">>} BY DEF TxtEnding
<1>2.
  /\ template \in Seq(TxtCharacters)
  /\ TxtPlain(new) => TxtPlain(template)
  BY <1>1, TxtWithEndingType
<1>3. \A w \in {old, new} : TxtPlain(w) <=> TxtKept(w) = <<>> BY TxtKeptPlain
<1>4.
  result = IF old = <<>> THEN TxtRefused("empty_old_string", content)
           ELSE IF old = new THEN TxtRefused("no_op", content)
           ELSE IF match.at = <<>> THEN TxtRefused("not_found", content)
           ELSE IF Len(match.at) > 1 /\ ~ all THEN TxtRefused("not_unique", content)
           ELSE IF next = content THEN TxtRefused("no_op", content)
           ELSE [ok |-> TRUE, reason |-> "none", text |-> next]
  BY DEF TxtApply
<1> HIDE DEF result, next, ending
<1>5.
  CASE \E why \in {"empty_old_string", "no_op", "not_unique"} :
         result = TxtRefused(why, content)
 <2>1. ~ result.ok /\ result.text = content /\ result.reason # "not_found"
   BY <1>5 DEF TxtRefused
 <2> QED BY <2>1 DEF TxtResultExact, result
<1>6. CASE old # <<>> /\ match.at = <<>> /\ result = TxtRefused("not_found", content)
 <2>1. ~ result.ok /\ result.text = content BY <1>6 DEF TxtRefused
 <2>2. ~ literal BY <1>6, TxtFound
 <2> QED BY <2>1, <2>2 DEF TxtResultExact, result
<1>7.
  CASE /\ old # <<>> /\ match.at # <<>> /\ (Len(match.at) > 1 => all)
       /\ result = [ok |-> TRUE, reason |-> "none", text |-> next]
 <2>1.
   /\ \E candidate \in {old, TxtWithEnding(old, ending)}, quotes \in BOOLEAN :
        match = TxtTry(content, candidate, quotes)
   /\ literal => match = TxtTry(content, old, FALSE)
   BY <1>7, TxtFound DEF ending
 <2> HIDE DEF match
 <2>2.
   PICK candidate \in {old, TxtWithEnding(old, ending)}, quotes \in BOOLEAN :
     /\ match = TxtTry(content, candidate, quotes)
     /\ literal => candidate = old /\ quotes = FALSE
  <3>1. CASE literal
   <4>1. old \in {old, TxtWithEnding(old, ending)} /\ FALSE \in BOOLEAN OBVIOUS
   <4> QED BY <2>1, <3>1, <4>1
  <3>2. CASE ~ literal
   <4> HIDE DEF literal
   <4>1. PICK c \in {old, TxtWithEnding(old, ending)}, q \in BOOLEAN :
           match = TxtTry(content, c, q)
     BY <2>1
   <4> QED BY <3>2, <4>1
  <3> QED BY <3>1, <3>2
 <2> HIDE DEF literal
 <2>3.
   /\ candidate \in Seq(TxtCharacters) /\ candidate # <<>>
   /\ TxtPlain(old) => TxtPlain(candidate)
  <3>1.
    /\ TxtWithEnding(old, ending) \in Seq(TxtCharacters)
    /\ TxtWithEnding(old, ending) # <<>>
    /\ TxtPlain(old) => TxtPlain(TxtWithEnding(old, ending))
    BY <1>1, <1>7, TxtWithEndingType
  <3> QED BY <1>7, <3>1
 <2> HIDE DEF template
 <2>4.
   /\ match.at \in Seq(1 .. Len(content))
   /\ TxtReplace(content, match.at, match, template) = expected(candidate, quotes)
   /\ TxtReplace(content, match.at, match, template) \in Seq(TxtCharacters)
  <3> DEFINE m == TxtTry(content, candidate, quotes)
  <3>1.
    /\ m.at \in Seq(1 .. Len(content))
    /\ TxtReplace(content, m.at, m, template)
         = TxtExpected(content, TxtHow(candidate, quotes, <<>>), template)
    /\ TxtReplace(content, m.at, m, template) \in Seq(TxtCharacters)
    BY <1>2, <2>3, TxtReplaceTried
  <3>2. match = m BY <2>2
  <3> HIDE DEF m
  <3> QED BY <3>1, <3>2
 <2>5. at = match.at
  <3>1. Len(match.at) \in Nat \ {0} BY <1>7, <2>4, EmptySeq
  <3>2. CASE all BY <3>2
  <3>3. CASE ~ all
   <4>0. ~ (Len(match.at) > 1) BY <1>7, <3>3, Zenon
   <4>1. Len(match.at) = 1
    <5> DEFINE n == Len(match.at)
    <5>1. n \in Nat \ {0} /\ ~ (n > 1) BY <3>1, <4>0
    <5> HIDE DEF n
    <5>2. n = 1 BY <5>1
    <5> QED BY <5>2 DEF n
   <4>2. SubSeq(match.at, 1, Len(match.at)) = match.at BY <2>4, SubSeqFull
   <4> QED BY <3>3, <4>1, <4>2
  <3> QED BY <3>2, <3>3
 <2>6. next = expected(candidate, quotes) /\ next \in Seq(TxtCharacters) BY <2>4, <2>5 DEF next
 <2> HIDE DEF at
 <2>7.
   /\ result.ok /\ result.reason = "none" /\ result.text = expected(candidate, quotes)
   /\ result.text \in Seq(TxtCharacters)
   BY <1>7, <2>6
 <2>8. ASSUME TxtKept(old) = <<>>, TxtKept(new) = <<>>
   PROVE TxtKept(result.text) = TxtKept(content)
  <3>0. TxtPlain(old) /\ TxtPlain(new) BY <1>3, <2>8
  <3>1. TxtPlain(candidate) /\ TxtPlain(template) BY <1>2, <2>3, <3>0, Zenon
  <3>2. TxtKept(expected(candidate, quotes)) = TxtKept(content)
    BY <1>2, <2>3, <3>1, TxtExpectedKept
  <3> QED BY <2>7, <3>2
 <2>9. literal => result.text = expected(old, FALSE) BY <2>2, <2>7
 <2>10.
   \E piece \in {old, TxtWithEnding(old, ending)}, q \in BOOLEAN :
     result.text = expected(piece, q)
   BY <2>7
 <2> HIDE DEF expected
 <2>11.
   /\ ~ result.ok => result.text = content
   /\ result.ok /\ literal => result.text = expected(old, FALSE)
   /\ result.ok /\ ~ literal =>
        \E piece \in {old, TxtWithEnding(old, ending)}, q \in BOOLEAN :
          result.text = expected(piece, q)
   /\ literal => result.reason # "not_found"
   /\ TxtKept(old) = <<>> /\ TxtKept(new) = <<>> =>
        TxtKept(result.text) = TxtKept(content)
  <3>1. result.reason # "not_found" BY <2>7
  <3> QED BY <2>7, <2>8, <2>9, <2>10, <3>1, Zenon
 <2> QED BY <2>7, <2>11, Zenon DEF TxtResultExact, result, literal, expected, template, ending
<1> QED
 <2> HIDE DEF match
 <2>1. CASE old = <<>> \/ old = new BY <1>4, <1>5, <2>1
 <2>2. CASE ~ (old = <<>> \/ old = new) /\ match.at = <<>> BY <1>4, <1>6, <2>2
 <2>3. CASE ~ (old = <<>> \/ old = new) /\ match.at # <<>> /\ Len(match.at) > 1 /\ ~ all
   BY <1>4, <1>5, <2>3
 <2>4. CASE ~ (old = <<>> \/ old = new) /\ match.at # <<>> /\ ~ (Len(match.at) > 1 /\ ~ all)
   BY <1>4, <1>5, <1>7, <2>4
 <2> QED BY <2>1, <2>2, <2>3, <2>4

\* The table of longest common subsequences, cell by cell.
TxtIsTable(t, old, new) ==
  \A i \in 1 .. Len(old) + 1, j \in 1 .. Len(new) + 1 :
    /\ t[<<i, j>>] \in Nat
    /\ t[<<i, j>>] = IF i > Len(old) \/ j > Len(new) THEN 0
                     ELSE IF old[i] = new[j] THEN 1 + t[<<i + 1, j + 1>>]
                     ELSE IF t[<<i + 1, j>>] >= t[<<i, j + 1>>] THEN t[<<i + 1, j>>]
                     ELSE t[<<i, j + 1>>]

\* The table defined is that table.
LEMMA TxtTableType ==
  ASSUME NEW S, NEW old \in Seq(S), NEW new \in Seq(S)
  PROVE TxtIsTable(TxtTable(old, new), old, new)
<1> DEFINE M == Len(old)
  N == Len(new)
  D == Grid(M, N)
  W == Nat \X Nat \X Nat
  ends(i, j) == i > M \/ j > N
  same(i, j) == old[i] = new[j]
  value(i, j, w) == IF ends(i, j) THEN 0 ELSE IF same(i, j) THEN 1 + w[3]
                    ELSE Max({w[1], w[2]})
  out == [c \in D |-> [w \in W |-> value(c[1], c[2], w)]]
  body(f, i, j) == IF ends(i, j) THEN 0
                   ELSE IF same(i, j) THEN 1 + f[<<i + 1, j + 1>>]
                   ELSE Max({f[<<i + 1, j>>], f[<<i, j + 1>>]})
  Is(f) == f = [c \in D |-> body(f, c[1], c[2])]
<1>1. M \in Nat /\ N \in Nat BY LenProperties
<1>2.
  /\ \A c \in D : c[1] \in 1 .. M + 1 /\ c[2] \in 1 .. N + 1 /\ c = <<c[1], c[2]>>
  /\ \A i \in 1 .. M + 1, j \in 1 .. N + 1 : <<i, j>> \in D
  BY DEF Grid
<1>3. \A a, b \in Nat : Max({a, b}) = IF a >= b THEN a ELSE b BY GreaterOfTwo
<1> HIDE DEF same, M, N
<1>4. out \in [D -> [W -> Nat]]
 <2>1. \A c \in D : \A w \in W : value(c[1], c[2], w) \in Nat
  <3> SUFFICES ASSUME NEW c \in D, NEW w \in W
    PROVE value(c[1], c[2], w) \in Nat
    OBVIOUS
  <3>1. w[1] \in Nat /\ w[2] \in Nat /\ w[3] \in Nat OBVIOUS
  <3>2. Max({w[1], w[2]}) \in Nat BY <1>3, <3>1
  <3> QED BY <3>1, <3>2
 <2> HIDE DEF D, W, value
 <2> QED BY <2>1
<1>5.
  PICK g \in [D -> Nat] :
    \A i \in 1 .. M + 1, j \in 1 .. N + 1 :
      g[<<i, j>>] = out[<<i, j>>][Around(g, M, N, 0, i, j)]
 <2> DEFINE V == Nat
 <2>1. 0 \in V /\ IsGridStep(out, M, N, V) BY <1>4 DEF IsGridStep
 <2> HIDE DEF out, V
 <2>2. PICK g : IsGrid(g, M, N, V, 0, out) BY <1>1, <2>1, GridRecursion
 <2> QED BY <2>2 DEF IsGrid, V
<1>6. Is(g)
 <2>1. ASSUME NEW i \in 1 .. M + 1, NEW j \in 1 .. N + 1
   PROVE g[<<i, j>>] = body(g, i, j)
  <3> DEFINE w == Around(g, M, N, 0, i, j)
  <3>0.
    /\ i <= M => g[<<i + 1, j>>] \in Nat
    /\ j <= N => g[<<i, j + 1>>] \in Nat
    /\ i <= M /\ j <= N => g[<<i + 1, j + 1>>] \in Nat
   <4>1.
     /\ i <= M => <<i + 1, j>> \in D
     /\ j <= N => <<i, j + 1>> \in D
     /\ i <= M /\ j <= N => <<i + 1, j + 1>> \in D
    <5>1. /\ i <= M => i + 1 \in 1 .. M + 1
          /\ j <= N => j + 1 \in 1 .. N + 1
      BY <1>1
    <5> HIDE DEF D
    <5> QED BY <1>2, <5>1
   <4> QED BY <4>1
  <3>1.
    /\ w \in W
    /\ i <= M => w[1] = g[<<i + 1, j>>]
    /\ j <= N => w[2] = g[<<i, j + 1>>]
    /\ i <= M /\ j <= N => w[3] = g[<<i + 1, j + 1>>]
    BY <3>0 DEF Around
  <3>2. <<i, j>> \in D /\ <<i, j>>[1] = i /\ <<i, j>>[2] = j BY <1>2
  <3>3. g[<<i, j>>] = out[<<i, j>>][w] BY <1>5
  <3> HIDE DEF w, W, D
  <3>4. g[<<i, j>>] = value(i, j, w) BY <3>1, <3>2, <3>3
  <3>5. (i <= M /\ j <= N) \/ ends(i, j) BY <1>1
  <3> QED BY <3>1, <3>4, <3>5
 <2>2. \A c \in D : g[c] = body(g, c[1], c[2])
  <3> HIDE DEF body, D
  <3> QED BY <1>2, <2>1
 <2>3. g = [c \in D |-> g[c]] OBVIOUS
 <2> HIDE DEF body, D
 <2> QED BY <2>2, <2>3
<1> DEFINE t == CHOOSE f : Is(f)
<1>7. Is(t) BY <1>6
<1>8. t = TxtTable(old, new) BY DEF TxtTable, TxtCells, Grid, M, N, same
<1> HIDE DEF t
<1>9. ASSUME NEW i \in 1 .. M + 1, NEW j \in 1 .. N + 1
  PROVE t[<<i, j>>] = body(t, i, j)
 <2>1. <<i, j>> \in D /\ <<i, j>>[1] = i /\ <<i, j>>[2] = j BY <1>2
 <2> HIDE DEF body, D
 <2> QED BY <1>7, <2>1
<1> HIDE DEF Is
<1> DEFINE T == {c \in D : t[c] \in Nat}
<1>10. ASSUME NEW i \in 1 .. M + 1, NEW j \in 1 .. N + 1,
    i <= M => <<i + 1, j>> \in T,
    j <= N => <<i, j + 1>> \in T,
    i <= M /\ j <= N => <<i + 1, j + 1>> \in T
  PROVE <<i, j>> \in T
 <2>1. t[<<i, j>>] \in Nat
  <3>1. CASE ends(i, j)
   <4>1. t[<<i, j>>] = body(t, i, j) BY <1>9
   <4>2. body(t, i, j) = 0 BY <3>1
   <4> QED BY <4>1, <4>2
  <3>2. CASE ~ ends(i, j)
   <4>1. i <= M /\ j <= N BY <1>1, <3>2
   <4>2. t[<<i + 1, j>>] \in Nat /\ t[<<i, j + 1>>] \in Nat /\ t[<<i + 1, j + 1>>] \in Nat
     BY <1>10, <4>1
   <4>3. Max({t[<<i + 1, j>>], t[<<i, j + 1>>]}) \in Nat BY <1>3, <4>2
   <4> DEFINE x == t[<<i + 1, j + 1>>]
     y == Max({t[<<i + 1, j>>], t[<<i, j + 1>>]})
   <4>4. body(t, i, j) = IF same(i, j) THEN 1 + x ELSE y BY <3>2
   <4>5. t[<<i, j>>] = body(t, i, j) BY <1>9
   <4>6. x \in Nat /\ y \in Nat BY <4>2, <4>3
   <4> HIDE DEF x, y, body
   <4> QED BY <4>4, <4>5, <4>6
  <3> QED BY <3>1, <3>2
 <2> QED BY <1>2, <2>1
<1> HIDE DEF T
<1>11. \A i \in 1 .. M + 1, j \in 1 .. N + 1 : <<i, j>> \in T BY <1>1, <1>10, GridInduction
<1>12. ASSUME NEW i \in 1 .. M + 1, NEW j \in 1 .. N + 1
  PROVE
    /\ t[<<i, j>>] \in Nat
    /\ t[<<i, j>>] = IF ends(i, j) THEN 0
                     ELSE IF same(i, j) THEN 1 + t[<<i + 1, j + 1>>]
                     ELSE IF t[<<i + 1, j>>] >= t[<<i, j + 1>>] THEN t[<<i + 1, j>>]
                     ELSE t[<<i, j + 1>>]
 <2>1. \A a \in 1 .. M + 1, b \in 1 .. N + 1 : t[<<a, b>>] \in Nat BY <1>11 DEF T
 <2>2. t[<<i, j>>] = body(t, i, j) BY <1>9
 <2>3. CASE ends(i, j) BY <2>1, <2>2, <2>3
 <2>4. CASE ~ ends(i, j)
  <3>1. i + 1 \in 1 .. M + 1 /\ j + 1 \in 1 .. N + 1 BY <1>1, <2>4
  <3>2. Max({t[<<i + 1, j>>], t[<<i, j + 1>>]}) =
          IF t[<<i + 1, j>>] >= t[<<i, j + 1>>] THEN t[<<i + 1, j>>] ELSE t[<<i, j + 1>>]
    BY <1>3, <2>1, <3>1
  <3> HIDE DEF ends
  <3> QED BY <2>1, <2>2, <2>4, <3>2
 <2> QED BY <2>3, <2>4
<1> QED BY <1>8, <1>12 DEF TxtIsTable, M, N, same

\* The lines of a preview of texts with lines in S.
TxtDiffLines(S) == [type : {"context", "delete", "add"}, value : S]

\* What a line adds to one side of a preview.
TxtSideOf(S, types) ==
  [l \in TxtDiffLines(S) |-> IF l.type \in types THEN <<l.value>> ELSE <<>>]

\* One side of a preview, line by line.
LEMMA TxtSideLines ==
  ASSUME NEW S, NEW types
  PROVE
    /\ Keeps(TxtSideOf(S, types), TxtDiffLines(S), S)
    /\ TxtSideOf(S, types) \in [TxtDiffLines(S) -> Seq(S)]
    /\ \A d \in Seq(TxtDiffLines(S)) :
         TxtSide(d, types) = FlatImage(TxtSideOf(S, types), d)
<1> DEFINE L == TxtDiffLines(S)
  h == TxtSideOf(S, types)
<1>1. h \in [L -> Seq(S)]
 <2>1. \A l \in L : (IF l.type \in types THEN <<l.value>> ELSE <<>>) \in Seq(S)
  <3>1. \A l \in L : l.value \in S BY DEF TxtDiffLines
  <3> QED BY <3>1
 <2> HIDE DEF L
 <2> QED BY <2>1 DEF TxtSideOf, L
<1>2. ASSUME NEW d \in Seq(L)
  PROVE TxtSide(d, types) = FlatImage(h, d)
 <2>1. \A i \in DOMAIN d : d[i] \in L BY Indices
 <2>2. \A i \in DOMAIN d : h[d[i]] = IF d[i].type \in types THEN <<d[i].value>> ELSE <<>>
  <3> HIDE DEF L
  <3> QED BY <2>1 DEF TxtSideOf, L
 <2> HIDE DEF h, L
 <2>3.
   [i \in DOMAIN d |-> h[d[i]]] =
     [i \in DOMAIN d |-> IF d[i].type \in types THEN <<d[i].value>> ELSE <<>>]
   BY <2>2
 <2> QED BY <2>3 DEF TxtSide, FlatImage
<1> HIDE DEF h, L
<1>3. Keeps(h, L, S) BY <1>1 DEF Keeps
<1> QED BY <1>1, <1>2, <1>3 DEF h, L

\* One side of a preview that begins with a line.
TxtSideBegins(S, types, l, d) ==
  TxtSide(<<l>> \o d, types) = TxtSideOf(S, types)[l] \o TxtSide(d, types)

\* What its first line adds to it.
LEMMA TxtSideFirst ==
  ASSUME NEW S, NEW types, NEW l \in TxtDiffLines(S), NEW d \in Seq(TxtDiffLines(S))
  PROVE TxtSideBegins(S, types, l, d)
<1> DEFINE L == TxtDiffLines(S)
  h == TxtSideOf(S, types)
  one == <<l>>
<1>1.
  /\ Keeps(h, L, S) /\ h \in [L -> Seq(S)]
  /\ \A e \in Seq(L) : TxtSide(e, types) = FlatImage(h, e)
  BY TxtSideLines
<1>3. l \in L /\ d \in Seq(L) /\ one \in Seq(L) OBVIOUS
<1> HIDE DEF h, L
<1>4. FlatImage(h, one) = h[l] BY <1>1, <1>3, FlatImageOne
<1> HIDE DEF one
<1>5. FlatImage(h, one \o d) = FlatImage(h, one) \o FlatImage(h, d)
  BY <1>1, <1>3, FlatImageConcat
<1>6. one \o d \in Seq(L) BY <1>3, ConcatProperties
<1>7. TxtSide(one \o d, types) = h[l] \o TxtSide(d, types) BY <1>1, <1>3, <1>4, <1>5, <1>6
<1> QED BY <1>7 DEF one, h, TxtSideBegins

\* A line put first shows on a side, or does not.
TxtShown(S, types, l, d) ==
  /\ TxtSide(d, types) \in Seq(S)
  /\ l.type \notin types => TxtSide(<<l>> \o d, types) = TxtSide(d, types)
  /\ l.type \in types => /\ TxtSide(<<l>> \o d, types) = <<l.value>> \o TxtSide(d, types)
                         /\ Len(TxtSide(<<l>> \o d, types)) = 1 + Len(TxtSide(d, types))

\* It does by its type.
LEMMA TxtSideStep ==
  ASSUME NEW S, NEW types, NEW l \in TxtDiffLines(S), NEW d \in Seq(TxtDiffLines(S))
  PROVE TxtShown(S, types, l, d)
<1> DEFINE s == TxtSide(d, types)
  h == TxtSideOf(S, types)
  r == TxtSide(<<l>> \o d, types)
<1>1. s \in Seq(S)
 <2>1. /\ Keeps(h, TxtDiffLines(S), S) /\ s = FlatImage(h, d) BY TxtSideLines
 <2> HIDE DEF h
 <2>2. FlatImage(h, d) \in Seq(S) BY <2>1, FlatImages
 <2> QED BY <2>1, <2>2
<1>2.
  /\ l.type \in types => r = <<l.value>> \o s
  /\ l.type \notin types => r = <<>> \o s
 <2>1. r = h[l] \o s
  <3>1. TxtSideBegins(S, types, l, d) BY TxtSideFirst
  <3> QED BY <3>1, Zenon DEF TxtSideBegins
 <2>2. h[l] = IF l.type \in types THEN <<l.value>> ELSE <<>> BY DEF TxtSideOf
 <2> HIDE DEF r, h, s
 <2> QED BY <2>1, <2>2
<1>3. <<>> \o s = s BY <1>1, ConcatEmptySeq
<1>4. l.value \in S BY DEF TxtDiffLines
<1> HIDE DEF s, r
<1>5. ASSUME l.type \in types
  PROVE r = <<l.value>> \o s /\ Len(r) = 1 + Len(s)
 <2>1. r = <<l.value>> \o s BY <1>2, <1>5
 <2> DEFINE one == <<l.value>>
 <2>2. one \in Seq(S) /\ Len(one) = 1 BY <1>4
 <2> HIDE DEF one
 <2>3. Len(one \o s) = Len(one) + Len(s) BY <1>1, <2>2, ConcatProperties
 <2> QED BY <2>1, <2>2, <2>3 DEF one
<1>6. l.type \notin types => r = s BY <1>2, <1>3
<1> QED BY <1>1, <1>5, <1>6, Zenon DEF r, s, TxtShown

\* No line shows on any side of an empty preview.
LEMMA TxtSideEmpty ==
  ASSUME NEW types
  PROVE TxtSide(<<>>, types) = <<>>
<1>1. [i \in DOMAIN <<>> |-> IF <<>>[i].type \in types THEN <<<<>>[i].value>> ELSE <<>>] = <<>>
  OBVIOUS
<1>2. FlattenSeq(<<>>) = <<>>
 <2>1. <<>> \in Seq(Seq({})) /\ Len(<<>>) = 0 BY EmptySeq
 <2>2. PICK g \in [0 .. Len(<<>>) -> Seq({})] : g[0] = <<>> /\ FlattenSeq(<<>>) = g[Len(<<>>)]
   BY <2>1, FlattenSteps
 <2> QED BY <2>1, <2>2
<1> QED BY <1>1, <1>2 DEF TxtSide

\* What is left of a preview from each cell on.
TxtIsDiff(f, old, new, S) ==
  LET t == TxtTable(old, new) IN
  \A i \in 1 .. Len(old) + 1, j \in 1 .. Len(new) + 1 :
    /\ f[<<i, j>>] \in Seq(TxtDiffLines(S))
    /\ f[<<i, j>>] =
         IF i > Len(old) /\ j > Len(new) THEN <<>>
         ELSE IF i > Len(old) THEN <<TxtLine("add", new[j])>> \o f[<<i, j + 1>>]
         ELSE IF j > Len(new) THEN <<TxtLine("delete", old[i])>> \o f[<<i + 1, j>>]
         ELSE IF old[i] = new[j] THEN <<TxtLine("context", old[i])>> \o f[<<i + 1, j + 1>>]
         ELSE IF t[<<i + 1, j>>] >= t[<<i, j + 1>>]
              THEN <<TxtLine("delete", old[i])>> \o f[<<i + 1, j>>]
         ELSE <<TxtLine("add", new[j])>> \o f[<<i, j + 1>>]

\* The preview is read off the table cell by cell.
LEMMA TxtDiffFrom ==
  ASSUME NEW S, NEW old \in Seq(S), NEW new \in Seq(S)
  PROVE \E f : TxtIsDiff(f, old, new, S) /\ f[<<1, 1>>] = TxtDiff(old, new)
<1> DEFINE M == Len(old)
  N == Len(new)
  D == Grid(M, N)
  L == TxtDiffLines(S)
  V == Seq(L)
  W == V \X V \X V
  t == TxtTable(old, new)
  same(i, j) == old[i] = new[j]
  down(i, j) == t[<<i + 1, j>>] >= t[<<i, j + 1>>]
  add(j) == <<TxtLine("add", new[j])>>
  delete(i) == <<TxtLine("delete", old[i])>>
  context(i) == <<TxtLine("context", old[i])>>
  value(i, j, w) == IF i > M /\ j > N THEN <<>>
                    ELSE IF i > M THEN add(j) \o w[2]
                    ELSE IF j > N THEN delete(i) \o w[1]
                    ELSE IF same(i, j) THEN context(i) \o w[3]
                    ELSE IF down(i, j) THEN delete(i) \o w[1]
                    ELSE add(j) \o w[2]
  out == [c \in D |-> [w \in W |-> value(c[1], c[2], w)]]
  body(f, i, j) == IF i > M /\ j > N THEN <<>>
                   ELSE IF i > M THEN add(j) \o f[<<i, j + 1>>]
                   ELSE IF j > N THEN delete(i) \o f[<<i + 1, j>>]
                   ELSE IF same(i, j) THEN context(i) \o f[<<i + 1, j + 1>>]
                   ELSE IF down(i, j) THEN delete(i) \o f[<<i + 1, j>>]
                   ELSE add(j) \o f[<<i, j + 1>>]
  Is(f) == f = [c \in D |-> body(f, c[1], c[2])]
<1>1. M \in Nat /\ N \in Nat BY LenProperties
<1>2.
  /\ \A c \in D : c[1] \in 1 .. M + 1 /\ c[2] \in 1 .. N + 1 /\ c = <<c[1], c[2]>>
  /\ \A i \in 1 .. M + 1, j \in 1 .. N + 1 : <<i, j>> \in D
  BY DEF Grid
<1>3.
  /\ \A i \in 1 .. M : delete(i) \in V /\ context(i) \in V
  /\ \A j \in 1 .. N : add(j) \in V
 <2>1.
   /\ \A i \in 1 .. M : old[i] \in S
   /\ \A j \in 1 .. N : new[j] \in S
   BY ElementOfSeq
 <2>2.
   /\ \A i \in 1 .. M : TxtLine("delete", old[i]) \in L /\ TxtLine("context", old[i]) \in L
   /\ \A j \in 1 .. N : TxtLine("add", new[j]) \in L
   BY <2>1 DEF TxtLine, TxtDiffLines
 <2> HIDE DEF L, M, N
 <2> QED BY <2>2
<1> HIDE DEF same, M, N, t, add, delete, context, down
<1>4. \A x, y \in V : x \o y \in V
 <2> HIDE DEF L
 <2> QED BY ConcatProperties
<1>5. <<>> \in V BY EmptySeq
<1> HIDE DEF V
<1>6. \A i \in 1 .. M + 1, j \in 1 .. N + 1 : \A w \in W : value(i, j, w) \in V
 <2> SUFFICES ASSUME NEW i \in 1 .. M + 1, NEW j \in 1 .. N + 1, NEW w \in W
   PROVE value(i, j, w) \in V
   OBVIOUS
 <2>1. w[1] \in V /\ w[2] \in V /\ w[3] \in V OBVIOUS
 <2>2.
   /\ ~ (i > M) => delete(i) \in V /\ context(i) \in V
   /\ ~ (j > N) => add(j) \in V
  <3>1. /\ ~ (i > M) => i \in 1 .. M
        /\ ~ (j > N) => j \in 1 .. N
    BY <1>1
  <3> QED BY <1>3, <3>1
 <2>3.
   /\ ~ (i > M) => /\ delete(i) \o w[1] \in V
                   /\ context(i) \o w[3] \in V
   /\ ~ (j > N) => add(j) \o w[2] \in V
   BY <1>4, <2>1, <2>2
 <2> QED BY <1>5, <2>3
<1>7. IsGridStep(out, M, N, V)
 <2>1. \A c \in D : \A w \in W : value(c[1], c[2], w) \in V
  <3> HIDE DEF value, D, W
  <3> QED BY <1>2, <1>6
 <2>2. out \in [D -> [W -> V]]
  <3> HIDE DEF D, W, value
  <3> QED BY <2>1
 <2> HIDE DEF out
 <2> QED BY <2>2 DEF IsGridStep
<1>8. PICK g : IsGrid(g, M, N, V, <<>>, out)
 <2> HIDE DEF out
 <2> QED BY <1>1, <1>5, <1>7, GridRecursion
<1>9.
  /\ g \in [D -> V]
  /\ \A i \in 1 .. M + 1, j \in 1 .. N + 1 :
       g[<<i, j>>] = out[<<i, j>>][Around(g, M, N, <<>>, i, j)]
 <2> HIDE DEF out
 <2> QED BY <1>8 DEF IsGrid
<1>10. Is(g)
 <2>1. ASSUME NEW i \in 1 .. M + 1, NEW j \in 1 .. N + 1
   PROVE g[<<i, j>>] = body(g, i, j)
  <3> DEFINE w == Around(g, M, N, <<>>, i, j)
  <3>0.
    /\ i <= M => g[<<i + 1, j>>] \in V
    /\ j <= N => g[<<i, j + 1>>] \in V
    /\ i <= M /\ j <= N => g[<<i + 1, j + 1>>] \in V
   <4>1.
     /\ i <= M => <<i + 1, j>> \in D
     /\ j <= N => <<i, j + 1>> \in D
     /\ i <= M /\ j <= N => <<i + 1, j + 1>> \in D
    <5>1. /\ i <= M => i + 1 \in 1 .. M + 1
          /\ j <= N => j + 1 \in 1 .. N + 1
      BY <1>1
    <5> HIDE DEF D
    <5> QED BY <1>2, <5>1
   <4> HIDE DEF D
   <4> QED BY <1>9, <4>1
  <3>1.
    /\ w \in W
    /\ i <= M => w[1] = g[<<i + 1, j>>]
    /\ j <= N => w[2] = g[<<i, j + 1>>]
    /\ i <= M /\ j <= N => w[3] = g[<<i + 1, j + 1>>]
    BY <1>5, <3>0 DEF Around
  <3>2. <<i, j>> \in D /\ <<i, j>>[1] = i /\ <<i, j>>[2] = j BY <1>2
  <3>3. g[<<i, j>>] = out[<<i, j>>][w]
   <4> HIDE DEF out
   <4> QED BY <1>9
  <3> HIDE DEF w, W, D
  <3>4. g[<<i, j>>] = value(i, j, w)
   <4> HIDE DEF value
   <4> QED BY <3>1, <3>2, <3>3
  <3>5. /\ ~ (i > M) => i <= M
        /\ ~ (j > N) => j <= N
    BY <1>1
  <3>6. value(i, j, w) = body(g, i, j)
   <4>1. CASE i > M /\ j > N BY <4>1, Zenon
   <4>2. CASE i > M /\ ~ (j > N) BY <3>1, <3>5, <4>2, Zenon
   <4>3. CASE ~ (i > M) /\ j > N BY <3>1, <3>5, <4>3, Zenon
   <4>4. CASE ~ (i > M) /\ ~ (j > N)
    <5>1. w[1] = g[<<i + 1, j>>] /\ w[2] = g[<<i, j + 1>>] /\ w[3] = g[<<i + 1, j + 1>>]
      BY <3>1, <3>5, <4>4
    <5> QED BY <4>4, <5>1, Zenon
   <4> QED BY <4>1, <4>2, <4>3, <4>4
  <3> QED BY <3>4, <3>6, Zenon
 <2>2. \A c \in D : g[c] = body(g, c[1], c[2])
  <3> HIDE DEF body, D
  <3> QED BY <1>2, <2>1
 <2>3. g = [c \in D |-> g[c]] BY <1>9
 <2> HIDE DEF body, D
 <2> QED BY <2>2, <2>3
<1> DEFINE f == CHOOSE h : Is(h)
<1>11. Is(f) BY <1>10
<1>12. f[<<1, 1>>] = TxtDiff(old, new)
  BY DEF TxtDiff, TxtCells, Grid, M, N, same, t, down, add, delete, context
<1> HIDE DEF f
<1>13. \A i \in 1 .. M + 1, j \in 1 .. N + 1 : f[<<i, j>>] = body(f, i, j)
 <2> SUFFICES ASSUME NEW i \in 1 .. M + 1, NEW j \in 1 .. N + 1
   PROVE f[<<i, j>>] = body(f, i, j)
   OBVIOUS
 <2>1. <<i, j>> \in D /\ <<i, j>>[1] = i /\ <<i, j>>[2] = j BY <1>2
 <2> HIDE DEF body, D
 <2> QED BY <1>11, <2>1
<1> HIDE DEF Is
<1> DEFINE T == {c \in D : f[c] \in V}
<1>14. ASSUME NEW i \in 1 .. M + 1, NEW j \in 1 .. N + 1,
    i <= M => <<i + 1, j>> \in T,
    j <= N => <<i, j + 1>> \in T,
    i <= M /\ j <= N => <<i + 1, j + 1>> \in T
  PROVE <<i, j>> \in T
 <2>1.
   /\ ~ (i > M) => i \in 1 .. M /\ i <= M
   /\ ~ (j > N) => j \in 1 .. N /\ j <= N
   BY <1>1
 <2>2.
   /\ ~ (i > M) => delete(i) \o f[<<i + 1, j>>] \in V
   /\ ~ (j > N) => add(j) \o f[<<i, j + 1>>] \in V
   /\ ~ (i > M) /\ ~ (j > N) => context(i) \o f[<<i + 1, j + 1>>] \in V
  <3> HIDE DEF D
  <3> QED BY <1>3, <1>4, <1>14, <2>1
 <2>3. f[<<i, j>>] \in V
  <3>1. f[<<i, j>>] = body(f, i, j) BY <1>13
  <3>2. body(f, i, j) \in V BY <1>5, <2>2
  <3> QED BY <3>1, <3>2
 <2>4. <<i, j>> \in D BY <1>2
 <2> QED BY <2>3, <2>4
<1> HIDE DEF T
<1>15. \A i \in 1 .. M + 1, j \in 1 .. N + 1 : <<i, j>> \in T BY <1>1, <1>14, GridInduction
<1>16. \A i \in 1 .. M + 1, j \in 1 .. N + 1 : f[<<i, j>>] \in V /\ f[<<i, j>>] = body(f, i, j)
 <2> HIDE DEF body
 <2> QED BY <1>13, <1>15 DEF T
<1>17. TxtIsDiff(f, old, new, S)
  BY <1>16, Zenon DEF TxtIsDiff, M, N, same, t, down, add, delete, context, V
<1> QED BY <1>12, <1>17

\* The two sides of a preview are the two texts, and it keeps as many lines as the table has.
LEMMA TxtDiffSides ==
  ASSUME NEW S, NEW old \in Seq(S), NEW new \in Seq(S), NEW f, TxtIsDiff(f, old, new, S)
  PROVE
    /\ TxtSide(f[<<1, 1>>], {"context", "delete"}) = old
    /\ TxtSide(f[<<1, 1>>], {"context", "add"}) = new
    /\ Len(TxtSide(f[<<1, 1>>], {"context"})) = TxtTable(old, new)[<<1, 1>>]
<1> DEFINE M == Len(old)
  N == Len(new)
  D == Grid(M, N)
  L == TxtDiffLines(S)
  t == TxtTable(old, new)
  went(d) == TxtSide(d, {"context", "delete"})
  came(d) == TxtSide(d, {"context", "add"})
  kept(d) == TxtSide(d, {"context"})
  oldFrom(i) == SubSeq(old, i, M)
  newFrom(j) == SubSeq(new, j, N)
  add(j) == TxtLine("add", new[j])
  delete(i) == TxtLine("delete", old[i])
  context(i) == TxtLine("context", old[i])
<1>1. M \in Nat /\ N \in Nat BY LenProperties
<1>2. \A i \in 1 .. M + 1, j \in 1 .. N + 1 : <<i, j>> \in D /\ <<i, j>>[1] = i /\ <<i, j>>[2] = j
  BY DEF Grid
<1>3.
  /\ \A i \in 1 .. M : /\ delete(i) \in L /\ delete(i).type = "delete"
                       /\ delete(i).value = old[i]
                       /\ context(i) \in L /\ context(i).type = "context"
                       /\ context(i).value = old[i]
  /\ \A j \in 1 .. N : add(j) \in L /\ add(j).type = "add" /\ add(j).value = new[j]
 <2>1.
   /\ \A i \in 1 .. M : old[i] \in S
   /\ \A j \in 1 .. N : new[j] \in S
   BY ElementOfSeq
 <2> HIDE DEF M, N
 <2> QED BY <2>1 DEF TxtLine, TxtDiffLines
<1>4.
  /\ \A i \in 1 .. M : oldFrom(i) = <<old[i]>> \o oldFrom(i + 1)
  /\ \A j \in 1 .. N : newFrom(j) = <<new[j]>> \o newFrom(j + 1)
 <2>1. ASSUME NEW i \in 1 .. M
   PROVE oldFrom(i) = <<old[i]>> \o oldFrom(i + 1)
  <3>1. M \in i .. Len(old) /\ i \in 1 .. Len(old) BY <1>1
  <3> QED BY <3>1, SubSeqRecursiveFirst
 <2>2. ASSUME NEW j \in 1 .. N
   PROVE newFrom(j) = <<new[j]>> \o newFrom(j + 1)
  <3>1. N \in j .. Len(new) /\ j \in 1 .. Len(new) BY <1>1
  <3> QED BY <3>1, SubSeqRecursiveFirst
 <2> HIDE DEF oldFrom, newFrom
 <2> QED BY <2>1, <2>2
<1>5.
  \A i \in 1 .. M + 1, j \in 1 .. N + 1 :
    /\ f[<<i, j>>] \in Seq(L)
    /\ f[<<i, j>>] =
         IF i > M /\ j > N THEN <<>>
         ELSE IF i > M THEN <<add(j)>> \o f[<<i, j + 1>>]
         ELSE IF j > N THEN <<delete(i)>> \o f[<<i + 1, j>>]
         ELSE IF old[i] = new[j] THEN <<context(i)>> \o f[<<i + 1, j + 1>>]
         ELSE IF t[<<i + 1, j>>] >= t[<<i, j + 1>>] THEN <<delete(i)>> \o f[<<i + 1, j>>]
         ELSE <<add(j)>> \o f[<<i, j + 1>>]
  BY Zenon DEF TxtIsDiff
<1>6.
  \A i \in 1 .. M + 1, j \in 1 .. N + 1 :
    /\ t[<<i, j>>] \in Nat
    /\ t[<<i, j>>] = IF i > M \/ j > N THEN 0
                     ELSE IF old[i] = new[j] THEN 1 + t[<<i + 1, j + 1>>]
                     ELSE IF t[<<i + 1, j>>] >= t[<<i, j + 1>>] THEN t[<<i + 1, j>>]
                     ELSE t[<<i, j + 1>>]
 <2>1. TxtIsTable(t, old, new) BY TxtTableType
 <2> HIDE DEF t
 <2> QED BY <2>1, Zenon DEF TxtIsTable
<1> HIDE DEF t, oldFrom, newFrom, add, delete, context
<1> DEFINE
  T == {c \in D : /\ went(f[c]) = oldFrom(c[1]) /\ came(f[c]) = newFrom(c[2])
                  /\ Len(kept(f[c])) = t[c]}
<1>7.
  \A i \in 1 .. M + 1, j \in 1 .. N + 1 :
    <<i, j>> \in T <=> /\ went(f[<<i, j>>]) = oldFrom(i) /\ came(f[<<i, j>>]) = newFrom(j)
                       /\ Len(kept(f[<<i, j>>])) = t[<<i, j>>]
 <2> HIDE DEF D, went, came, kept
 <2> QED BY <1>2
<1> HIDE DEF T, D, L
<1>8. ASSUME NEW l \in L, NEW d \in Seq(L)
  PROVE
    /\ TxtShown(S, {"context", "delete"}, l, d) /\ TxtShown(S, {"context", "add"}, l, d)
    /\ TxtShown(S, {"context"}, l, d)
  BY TxtSideStep DEF L
<1>9. ASSUME NEW i \in 1 .. M + 1, NEW j \in 1 .. N, <<i, j + 1>> \in T,
    f[<<i, j>>] = <<add(j)>> \o f[<<i, j + 1>>], t[<<i, j>>] = t[<<i, j + 1>>]
  PROVE <<i, j>> \in T
 <2> DEFINE d == f[<<i, j + 1>>]
   l == add(j)
 <2>1. j \in 1 .. N + 1 /\ j + 1 \in 1 .. N + 1 BY <1>1
 <2>2.
   /\ went(d) = oldFrom(i) /\ came(d) = newFrom(j + 1) /\ Len(kept(d)) = t[<<i, j>>]
   /\ f[<<i, j>>] = <<l>> \o d
  <3> HIDE DEF went, came, kept
  <3> QED BY <1>7, <1>9, <2>1
 <2>3. d \in Seq(L) /\ l \in L /\ l.type = "add" /\ l.value = new[j] BY <1>3, <1>5, <2>1
 <2> HIDE DEF d, l
 <2>4.
   /\ l.type \notin {"context", "delete"} => went(<<l>> \o d) = went(d)
   /\ l.type \in {"context", "add"} => came(<<l>> \o d) = <<l.value>> \o came(d)
   /\ l.type \notin {"context"} => kept(<<l>> \o d) = kept(d)
   BY <1>8, <2>3, Zenon DEF TxtShown
 <2>5.
   l.type \notin {"context", "delete"} /\ l.type \in {"context", "add"}
   /\ l.type \notin {"context"}
   BY <2>3
 <2> HIDE DEF went, came, kept
 <2>6. newFrom(j) = <<new[j]>> \o newFrom(j + 1) BY <1>4
 <2>7. came(<<l>> \o d) = newFrom(j) BY <2>2, <2>3, <2>4, <2>5, <2>6, Zenon
 <2> QED BY <1>7, <2>1, <2>2, <2>4, <2>5, <2>7, Zenon
<1>10. ASSUME NEW i \in 1 .. M, NEW j \in 1 .. N + 1, <<i + 1, j>> \in T,
    f[<<i, j>>] = <<delete(i)>> \o f[<<i + 1, j>>], t[<<i, j>>] = t[<<i + 1, j>>]
  PROVE <<i, j>> \in T
 <2> DEFINE d == f[<<i + 1, j>>]
   l == delete(i)
 <2>1. i \in 1 .. M + 1 /\ i + 1 \in 1 .. M + 1 BY <1>1
 <2>2.
   /\ went(d) = oldFrom(i + 1) /\ came(d) = newFrom(j) /\ Len(kept(d)) = t[<<i, j>>]
   /\ f[<<i, j>>] = <<l>> \o d
  <3> HIDE DEF went, came, kept
  <3> QED BY <1>7, <1>10, <2>1
 <2>3. d \in Seq(L) /\ l \in L /\ l.type = "delete" /\ l.value = old[i] BY <1>3, <1>5, <2>1
 <2> HIDE DEF d, l
 <2>4.
   /\ l.type \in {"context", "delete"} => went(<<l>> \o d) = <<l.value>> \o went(d)
   /\ l.type \notin {"context", "add"} => came(<<l>> \o d) = came(d)
   /\ l.type \notin {"context"} => kept(<<l>> \o d) = kept(d)
   BY <1>8, <2>3, Zenon DEF TxtShown
 <2>5.
   l.type \in {"context", "delete"} /\ l.type \notin {"context", "add"}
   /\ l.type \notin {"context"}
   BY <2>3
 <2> HIDE DEF went, came, kept
 <2>6. oldFrom(i) = <<old[i]>> \o oldFrom(i + 1) BY <1>4
 <2>7. went(<<l>> \o d) = oldFrom(i) BY <2>2, <2>3, <2>4, <2>5, <2>6, Zenon
 <2> QED BY <1>7, <2>1, <2>2, <2>4, <2>5, <2>7, Zenon
<1>11. ASSUME NEW i \in 1 .. M, NEW j \in 1 .. N, <<i + 1, j + 1>> \in T, old[i] = new[j],
    f[<<i, j>>] = <<context(i)>> \o f[<<i + 1, j + 1>>],
    t[<<i, j>>] = 1 + t[<<i + 1, j + 1>>]
  PROVE <<i, j>> \in T
 <2> DEFINE d == f[<<i + 1, j + 1>>]
   l == context(i)
 <2>1. /\ i \in 1 .. M + 1 /\ i + 1 \in 1 .. M + 1 /\ j \in 1 .. N + 1 /\ j + 1 \in 1 .. N + 1
   BY <1>1
 <2>2.
   /\ went(d) = oldFrom(i + 1) /\ came(d) = newFrom(j + 1)
   /\ 1 + Len(kept(d)) = t[<<i, j>>] /\ f[<<i, j>>] = <<l>> \o d
  <3> HIDE DEF went, came, kept
  <3> QED BY <1>7, <1>11, <2>1
 <2>3. d \in Seq(L) /\ l \in L /\ l.type = "context" /\ l.value = old[i] BY <1>3, <1>5, <2>1
 <2> HIDE DEF d, l
 <2>4.
   /\ l.type \in {"context", "delete"} => went(<<l>> \o d) = <<l.value>> \o went(d)
   /\ l.type \in {"context", "add"} => came(<<l>> \o d) = <<l.value>> \o came(d)
   /\ l.type \in {"context"} => Len(kept(<<l>> \o d)) = 1 + Len(kept(d))
   BY <1>8, <2>3, Zenon DEF TxtShown
 <2>5. l.type \in {"context", "delete"} /\ l.type \in {"context", "add"} /\ l.type \in {"context"}
   BY <2>3
 <2> HIDE DEF went, came, kept
 <2>6. oldFrom(i) = <<old[i]>> \o oldFrom(i + 1) /\ newFrom(j) = <<new[j]>> \o newFrom(j + 1)
   BY <1>4
 <2>7. went(<<l>> \o d) = oldFrom(i) BY <2>2, <2>3, <2>4, <2>5, <2>6, Zenon
 <2>8. came(<<l>> \o d) = newFrom(j) BY <1>11, <2>2, <2>3, <2>4, <2>5, <2>6, Zenon
 <2> QED BY <1>7, <2>1, <2>2, <2>4, <2>5, <2>7, <2>8, Zenon
<1>12. ASSUME NEW i \in 1 .. M + 1, NEW j \in 1 .. N + 1, i > M, j > N
  PROVE <<i, j>> \in T
 <2>1. f[<<i, j>>] = <<>> /\ t[<<i, j>>] = 0 BY <1>5, <1>6, <1>12
 <2>2. oldFrom(i) = <<>> /\ newFrom(j) = <<>>
  <3>1. i \in Int /\ j \in Int /\ M \in Int /\ N \in Int /\ M < i /\ N < j BY <1>1, <1>12
  <3> QED BY <3>1, SubSeqEmpty DEF oldFrom, newFrom
 <2>3. went(<<>>) = <<>> /\ came(<<>>) = <<>> /\ kept(<<>>) = <<>> BY TxtSideEmpty
 <2>4. Len(<<>>) = 0 OBVIOUS
 <2> HIDE DEF went, came, kept
 <2> QED BY <1>7, <2>1, <2>2, <2>3, <2>4
<1> HIDE DEF went, came, kept
<1>13. ASSUME NEW i \in 1 .. M + 1, NEW j \in 1 .. N + 1,
    i <= M => <<i + 1, j>> \in T,
    j <= N => <<i, j + 1>> \in T,
    i <= M /\ j <= N => <<i + 1, j + 1>> \in T
  PROVE <<i, j>> \in T
 <2>1.
   /\ ~ (i > M) => i \in 1 .. M /\ i <= M /\ i + 1 \in 1 .. M + 1
   /\ ~ (j > N) => j \in 1 .. N /\ j <= N /\ j + 1 \in 1 .. N + 1
   BY <1>1
 <2>2. CASE i > M /\ j > N BY <1>12, <2>2
 <2>3. CASE i > M /\ ~ (j > N)
  <3>1. f[<<i, j>>] = <<add(j)>> \o f[<<i, j + 1>>] BY <1>5, <2>3, Zenon
  <3>2. t[<<i, j>>] = t[<<i, j + 1>>] BY <1>6, <2>1, <2>3
  <3> QED BY <1>9, <1>13, <2>1, <2>3, <3>1, <3>2
 <2>4. CASE ~ (i > M) /\ j > N
  <3>1. f[<<i, j>>] = <<delete(i)>> \o f[<<i + 1, j>>] BY <1>5, <2>4, Zenon
  <3>2. t[<<i, j>>] = t[<<i + 1, j>>]
   <4>1. t[<<i, j>>] = 0 BY <1>6, <2>4, Zenon
   <4>2. t[<<i + 1, j>>] = 0 BY <1>6, <2>1, <2>4, Zenon
   <4> QED BY <4>1, <4>2
  <3> QED BY <1>10, <1>13, <2>1, <2>4, <3>1, <3>2
 <2>5. CASE ~ (i > M) /\ ~ (j > N) /\ old[i] = new[j]
  <3>1. f[<<i, j>>] = <<context(i)>> \o f[<<i + 1, j + 1>>] BY <1>5, <2>5, Zenon
  <3>2. t[<<i, j>>] = 1 + t[<<i + 1, j + 1>>] BY <1>6, <2>5, Zenon
  <3> QED BY <1>11, <1>13, <2>1, <2>5, <3>1, <3>2
 <2>6.
   CASE /\ ~ (i > M) /\ ~ (j > N) /\ old[i] # new[j]
        /\ t[<<i + 1, j>>] >= t[<<i, j + 1>>]
  <3>1. f[<<i, j>>] = <<delete(i)>> \o f[<<i + 1, j>>] BY <1>5, <2>6, Zenon
  <3>2. t[<<i, j>>] = t[<<i + 1, j>>] BY <1>6, <2>6, Zenon
  <3> QED BY <1>10, <1>13, <2>1, <2>6, <3>1, <3>2
 <2>7.
   CASE /\ ~ (i > M) /\ ~ (j > N) /\ old[i] # new[j]
        /\ ~ (t[<<i + 1, j>>] >= t[<<i, j + 1>>])
  <3>1. f[<<i, j>>] = <<add(j)>> \o f[<<i, j + 1>>] BY <1>5, <2>7, Zenon
  <3>2. t[<<i, j>>] = t[<<i, j + 1>>] BY <1>6, <2>7, Zenon
  <3> QED BY <1>9, <1>13, <2>1, <2>7, <3>1, <3>2
 <2> QED BY <2>2, <2>3, <2>4, <2>5, <2>6, <2>7
<1>14. \A i \in 1 .. M + 1, j \in 1 .. N + 1 : <<i, j>> \in T BY <1>1, <1>13, GridInduction
<1>15. 1 \in 1 .. M + 1 /\ 1 \in 1 .. N + 1 BY <1>1
<1>16. oldFrom(1) = old /\ newFrom(1) = new BY SubSeqFull DEF oldFrom, newFrom
<1>17.
  /\ went(f[<<1, 1>>]) = oldFrom(1) /\ came(f[<<1, 1>>]) = newFrom(1)
  /\ Len(kept(f[<<1, 1>>])) = t[<<1, 1>>]
  BY <1>7, <1>14, <1>15, Zenon
<1> QED BY <1>16, <1>17 DEF went, came, kept, t

\* Pairs of equal lines from a place on in both texts, of which none crosses another.
TxtChain(pairs, old, new, i, j) ==
  /\ pairs \subseteq (i .. Len(old)) \X (j .. Len(new))
  /\ \A p \in pairs : old[p[1]] = new[p[2]]
  /\ \A p, q \in pairs : \/ p = q
                         \/ p[1] < q[1] /\ p[2] < q[2]
                         \/ q[1] < p[1] /\ q[2] < p[2]

\* No such pairs are more than the table has in that place.
LEMMA TxtTableLongest ==
  ASSUME NEW S, NEW old \in Seq(S), NEW new \in Seq(S), NEW pairs,
    TxtChain(pairs, old, new, 1, 1)
  PROVE Cardinality(pairs) <= TxtTable(old, new)[<<1, 1>>]
<1> DEFINE M == Len(old)
  N == Len(new)
  t == TxtTable(old, new)
  D == Grid(M, N)
  chain(C, i, j) == TxtChain(C, old, new, i, j)
  T == {c \in D : \A C : chain(C, c[1], c[2]) => Cardinality(C) <= t[c]}
<1>1. M \in Nat /\ N \in Nat BY LenProperties
<1>2. \A i \in 1 .. M + 1, j \in 1 .. N + 1 : <<i, j>> \in D /\ <<i, j>>[1] = i /\ <<i, j>>[2] = j
  BY DEF Grid
<1>3.
  \A i \in 1 .. M + 1, j \in 1 .. N + 1 :
    /\ t[<<i, j>>] \in Nat
    /\ t[<<i, j>>] = IF i > M \/ j > N THEN 0
                     ELSE IF old[i] = new[j] THEN 1 + t[<<i + 1, j + 1>>]
                     ELSE IF t[<<i + 1, j>>] >= t[<<i, j + 1>>] THEN t[<<i + 1, j>>]
                     ELSE t[<<i, j + 1>>]
 <2>1. TxtIsTable(t, old, new) BY TxtTableType
 <2> HIDE DEF t
 <2> QED BY <2>1, Zenon DEF TxtIsTable
<1>4.
  \A i \in 1 .. M + 1, j \in 1 .. N + 1 :
    <<i, j>> \in T <=> \A C : chain(C, i, j) => Cardinality(C) <= t[<<i, j>>]
 <2> HIDE DEF D, chain, t
 <2> QED BY <1>2
<1>5. ASSUME NEW i \in Int, NEW j \in Int, NEW C, chain(C, i, j)
  PROVE IsFiniteSet(C) /\ Cardinality(C) \in Nat
 <2>1. IsFiniteSet(i .. M) /\ IsFiniteSet(j .. N)
  <3>1. \A a, b \in Int : IsFiniteSet(a .. b) BY FS_Interval
  <3>2. M \in Int /\ N \in Int BY <1>1
  <3> QED BY <3>1, <3>2
 <2>2. IsFiniteSet((i .. M) \X (j .. N)) BY <2>1, FS_Product
 <2>3. C \in SUBSET ((i .. M) \X (j .. N)) BY <1>5 DEF TxtChain
 <2>4. IsFiniteSet(C) BY <2>2, <2>3, FS_Subset
 <2> QED BY <2>4, FS_CardinalityType
<1>6. ASSUME NEW i \in Int, NEW j \in Int, NEW C, chain(C, i, j)
  PROVE
    /\ \A p \in C : p[1] \in i .. M /\ p[2] \in j .. N /\ p = <<p[1], p[2]>>
    /\ \A p \in C : old[p[1]] = new[p[2]]
    /\ \A p, q \in C : \/ p = q
                       \/ p[1] < q[1] /\ p[2] < q[2]
                       \/ q[1] < p[1] /\ q[2] < p[2]
  BY <1>6 DEF TxtChain
<1>7. ASSUME NEW i \in Int, NEW j \in Int, NEW C, chain(C, i, j), NEW B \in SUBSET C,
    NEW k \in Int, NEW l \in Int, \A p \in B : p[1] >= k /\ p[2] >= l
  PROVE chain(B, k, l)
 <2>1. \A p \in B : p[1] \in k .. M /\ p[2] \in l .. N /\ p = <<p[1], p[2]>> BY <1>1, <1>6, <1>7
 <2>2. B \subseteq (k .. M) \X (l .. N) BY <2>1
 <2> QED BY <1>6, <1>7, <2>2 DEF TxtChain
<1> HIDE DEF T, D, t, chain
<1>8. ASSUME NEW i \in 1 .. M + 1, NEW j \in 1 .. N + 1, i > M \/ j > N,
    NEW C, chain(C, i, j)
  PROVE Cardinality(C) <= t[<<i, j>>]
 <2>1. C = {} BY <1>1, <1>6, <1>8
 <2>2. t[<<i, j>>] = 0 BY <1>3, <1>8, Zenon
 <2> QED BY <2>1, <2>2, FS_EmptySet
<1>9. ASSUME NEW i \in 1 .. M, NEW j \in 1 .. N, old[i] = new[j], <<i + 1, j + 1>> \in T,
    t[<<i, j>>] = 1 + t[<<i + 1, j + 1>>], NEW C, chain(C, i, j)
  PROVE Cardinality(C) <= t[<<i, j>>]
 <2>1.
   /\ \A p \in C : p[1] \in i .. M /\ p[2] \in j .. N
   /\ \A p, q \in C : \/ p = q
                      \/ p[1] < q[1] /\ p[2] < q[2]
                      \/ q[1] < p[1] /\ q[2] < p[2]
   BY <1>6, <1>9
 <2>2. i + 1 \in 1 .. M + 1 /\ j + 1 \in 1 .. N + 1 /\ i \in Int /\ j \in Int BY <1>1
 <2>3. \A B : chain(B, i + 1, j + 1) => Cardinality(B) <= t[<<i + 1, j + 1>>]
   BY <1>4, <1>9, <2>2
 <2>4. t[<<i + 1, j + 1>>] \in Nat BY <1>3, <2>2
 <2>5. IsFiniteSet(C) /\ Cardinality(C) \in Nat BY <1>5, <1>9, <2>2
 <2>6. CASE \A p \in C : p[1] >= i + 1 /\ p[2] >= j + 1
  <3>1. chain(C, i + 1, j + 1) BY <1>7, <1>9, <2>2, <2>6
  <3>2. Cardinality(C) <= t[<<i + 1, j + 1>>] BY <2>3, <3>1
  <3>3. t[<<i, j>>] = 1 + t[<<i + 1, j + 1>>] BY <1>9
  <3> QED BY <2>4, <2>5, <3>2, <3>3
 <2>7. CASE \E p \in C : ~ (p[1] >= i + 1 /\ p[2] >= j + 1)
  <3>1. PICK e \in C : ~ (e[1] >= i + 1 /\ e[2] >= j + 1) BY <2>7
  <3> DEFINE B == C \ {e}
  <3>2. ASSUME NEW p \in B
    PROVE p[1] >= i + 1 /\ p[2] >= j + 1
   <4>1. /\ p[1] \in i .. M /\ p[2] \in j .. N /\ e[1] \in i .. M /\ e[2] \in j .. N
         /\ (e[1] < p[1] /\ e[2] < p[2]) \/ (p[1] < e[1] /\ p[2] < e[2])
     BY <2>1
   <4> QED BY <2>2, <3>1, <4>1
  <3>3. chain(B, i + 1, j + 1)
   <4>1. B \in SUBSET C /\ i + 1 \in Int /\ j + 1 \in Int BY <2>2
   <4> HIDE DEF B
   <4>2. \A p \in B : p[1] >= i + 1 /\ p[2] >= j + 1 BY <3>2
   <4> QED BY <1>7, <1>9, <2>2, <4>1, <4>2
  <3>4. Cardinality(B) = Cardinality(C) - 1 BY <2>5, FS_RemoveElement
  <3>5. Cardinality(B) <= t[<<i + 1, j + 1>>] BY <2>3, <3>3
  <3> QED BY <1>9, <2>4, <2>5, <3>4, <3>5
 <2> QED BY <2>6, <2>7
<1>10. ASSUME NEW i \in 1 .. M, NEW j \in 1 .. N, old[i] # new[j],
    <<i + 1, j>> \in T, <<i, j + 1>> \in T, NEW C, chain(C, i, j)
  PROVE
    \/ Cardinality(C) <= t[<<i + 1, j>>]
    \/ Cardinality(C) <= t[<<i, j + 1>>]
 <2>1.
   /\ \A p \in C : p[1] \in i .. M /\ p[2] \in j .. N
   /\ \A p \in C : old[p[1]] = new[p[2]]
   /\ \A p, q \in C : \/ p = q
                      \/ p[1] < q[1] /\ p[2] < q[2]
                      \/ q[1] < p[1] /\ q[2] < p[2]
   BY <1>6, <1>10
 <2>2.
   /\ i + 1 \in 1 .. M + 1 /\ j + 1 \in 1 .. N + 1 /\ i \in 1 .. M + 1 /\ j \in 1 .. N + 1
   /\ i \in Int /\ j \in Int /\ i + 1 \in Int /\ j + 1 \in Int
   BY <1>1
 <2>3. CASE \A p \in C : p[1] # i
  <3>1. \A p \in C : p[1] >= i + 1 /\ p[2] >= j BY <1>1, <2>1, <2>3
  <3>2. chain(C, i + 1, j) BY <1>7, <1>10, <2>2, <3>1
  <3> QED BY <1>4, <1>10, <2>2, <3>2
 <2>4. CASE \E p \in C : p[1] = i
  <3>1. PICK p \in C : p[1] = i BY <2>4
  <3>2. p[2] # j BY <1>10, <2>1, <3>1
  <3>3. ASSUME NEW q \in C
    PROVE q[1] >= i /\ q[2] >= j + 1
   <4>1. /\ q[1] \in i .. M /\ q[2] \in j .. N /\ p[2] \in j .. N
         /\ q = p \/ (p[1] < q[1] /\ p[2] < q[2]) \/ (q[1] < p[1] /\ q[2] < p[2])
     BY <2>1
   <4> QED BY <2>2, <3>1, <3>2, <4>1
  <3>4. chain(C, i, j + 1) BY <1>7, <1>10, <2>2, <3>3
  <3> QED BY <1>4, <1>10, <2>2, <3>4
 <2> QED BY <2>3, <2>4
<1>11. ASSUME NEW i \in 1 .. M + 1, NEW j \in 1 .. N + 1,
    i <= M => <<i + 1, j>> \in T,
    j <= N => <<i, j + 1>> \in T,
    i <= M /\ j <= N => <<i + 1, j + 1>> \in T
  PROVE <<i, j>> \in T
 <2> SUFFICES ASSUME NEW C, chain(C, i, j)
   PROVE Cardinality(C) <= t[<<i, j>>]
   BY <1>4
 <2>1. CASE i > M \/ j > N BY <1>8, <2>1
 <2>2. CASE ~ (i > M \/ j > N)
  <3>1. /\ i \in 1 .. M /\ j \in 1 .. N /\ i <= M /\ j <= N
        /\ i + 1 \in 1 .. M + 1 /\ j + 1 \in 1 .. N + 1
    BY <1>1, <2>2
  <3>2. CASE old[i] = new[j]
   <4>1. t[<<i, j>>] = 1 + t[<<i + 1, j + 1>>] BY <1>3, <2>2, <3>2, Zenon
   <4> QED BY <1>9, <1>11, <3>1, <3>2, <4>1
  <3>3. CASE old[i] # new[j]
   <4>1. t[<<i, j>>] = IF t[<<i + 1, j>>] >= t[<<i, j + 1>>] THEN t[<<i + 1, j>>]
                       ELSE t[<<i, j + 1>>]
     BY <1>3, <2>2, <3>3, Zenon
   <4>2. t[<<i + 1, j>>] \in Nat /\ t[<<i, j + 1>>] \in Nat BY <1>3, <3>1
   <4>3. Cardinality(C) \in Nat
    <5>1. i \in Int /\ j \in Int BY <3>1
    <5> QED BY <1>5, <5>1
   <4>4. Cardinality(C) <= t[<<i + 1, j>>] \/ Cardinality(C) <= t[<<i, j + 1>>]
     BY <1>10, <1>11, <3>1, <3>3
   <4> QED BY <4>1, <4>2, <4>3, <4>4
  <3> QED BY <3>2, <3>3
 <2> QED BY <2>1, <2>2
<1>12. \A i \in 1 .. M + 1, j \in 1 .. N + 1 : <<i, j>> \in T BY <1>1, <1>11, GridInduction
<1>13. 1 \in 1 .. M + 1 /\ 1 \in 1 .. N + 1 BY <1>1
<1>14. chain(pairs, 1, 1) BY DEF chain
<1> QED BY <1>4, <1>12, <1>13, <1>14 DEF t

\* What a preview has to show of two texts.
TxtPreviewExact(old, new, diff) ==
  /\ TxtSide(diff, {"context", "delete"}) = old /\ TxtSide(diff, {"context", "add"}) = new
  /\ \A pairs \in TxtCommon(old, new) :
       Cardinality(pairs) <= Len(TxtSide(diff, {"context"}))

\* A preview shows both texts truly, and no longer part of them unchanged would do.
LEMMA TxtDiffIsExact ==
  ASSUME NEW S, NEW old \in Seq(S), NEW new \in Seq(S)
  PROVE TxtPreviewExact(old, new, TxtDiff(old, new))
<1> DEFINE diff == TxtDiff(old, new)
  t == TxtTable(old, new)[<<1, 1>>]
<1>1. PICK f : TxtIsDiff(f, old, new, S) /\ f[<<1, 1>>] = diff BY TxtDiffFrom
<1>2.
  /\ TxtSide(diff, {"context", "delete"}) = old /\ TxtSide(diff, {"context", "add"}) = new
  /\ Len(TxtSide(diff, {"context"})) = t
 <2>1.
   /\ TxtSide(f[<<1, 1>>], {"context", "delete"}) = old
   /\ TxtSide(f[<<1, 1>>], {"context", "add"}) = new
   /\ Len(TxtSide(f[<<1, 1>>], {"context"})) = t
   BY <1>1, TxtDiffSides
 <2> QED BY <1>1, <2>1
<1>3. ASSUME NEW pairs \in TxtCommon(old, new)
  PROVE Cardinality(pairs) <= t
 <2>1. DOMAIN old = 1 .. Len(old) /\ DOMAIN new = 1 .. Len(new) BY LenProperties
 <2>2. TxtChain(pairs, old, new, 1, 1) BY <2>1 DEF TxtCommon, TxtChain
 <2> QED BY <2>2, TxtTableLongest
<1> HIDE DEF diff, t
<1>4. \A pairs \in TxtCommon(old, new) : Cardinality(pairs) <= Len(TxtSide(diff, {"context"}))
  BY <1>2, <1>3
<1> QED BY <1>2, <1>4 DEF TxtPreviewExact, diff

\* A finite function from one on is a sequence of its values.
LEMMA TxtOwnValues ==
  ASSUME NEW n \in Nat, NEW s, s = [k \in 1 .. n |-> s[k]]
  PROVE s \in Seq(ToSet(s))
<1>1. DOMAIN s = 1 .. n OBVIOUS
<1>2. \A k \in 1 .. n : s[k] \in ToSet(s) BY <1>1 DEF ToSet
<1>3. s \in [1 .. n -> ToSet(s)] BY <1>2
<1> QED BY <1>3, FromFunction

\* The lines of a text are a sequence, as long as its ends of lines are many.
LEMMA TxtLinesType ==
  ASSUME NEW text \in Seq(TxtCharacters)
  PROVE TxtLines(text) \in Seq(ToSet(TxtLines(text)))
<1> DEFINE ends == {i \in DOMAIN text : text[i] = "n"}
  start(e) == IF \E d \in ends : d < e THEN Max({d \in ends : d < e}) + 1 ELSE 1
  cut(e) == IF e > start(e) /\ e \in ends /\ text[e - 1] = "r" THEN e - 2 ELSE e - 1
  line(e) == SubSeq(text, start(e), cut(e))
  last == IF text # <<>> /\ text[Len(text)] # "n" THEN {Len(text) + 1} ELSE {}
  stops == ends \cup last
  n == Cardinality(stops)
  value(k) == line(CHOOSE e \in stops : Cardinality({d \in stops : d <= e}) = k)
  s == [k \in 1 .. n |-> value(k)]
<1>1. TxtLines(text) = s BY DEF TxtLines
<1>2. n \in Nat
 <2>1. DOMAIN text = 1 .. Len(text) /\ Len(text) \in Int BY LenProperties
 <2>2. IsFiniteSet(1 .. Len(text)) BY <2>1, FS_Interval
 <2>3. ends \in SUBSET (1 .. Len(text)) BY <2>1
 <2>4. IsFiniteSet(ends) BY <2>2, <2>3, FS_Subset
 <2>5. IsFiniteSet(last) BY FS_EmptySet, FS_Singleton
 <2> HIDE DEF ends, last
 <2>6. IsFiniteSet(stops) BY <2>4, <2>5, FS_Union
 <2> QED BY <2>6, FS_CardinalityType
<1> HIDE DEF value
<1>3. s = [k \in 1 .. n |-> s[k]] OBVIOUS
<1> HIDE DEF s, n
<1>4. s \in Seq(ToSet(s)) BY <1>2, <1>3, TxtOwnValues
<1> QED BY <1>1, <1>4

\* Whatever is edited is text, its result is that of the edit, and a preview is that of
\* the two texts it is about.
TxtInv ==
  \/ txt.phase = "idle"
  \/ /\ txt.phase = "edited"
     /\ txt.content \in Seq(TxtCharacters) /\ txt.old \in Seq(TxtCharacters)
     /\ txt.new \in Seq(TxtCharacters) /\ txt.all \in BOOLEAN
     /\ txt.result = TxtApply(txt.content, txt.old, txt.new, txt.all)
  \/ /\ txt.phase = "shown"
     /\ txt.old \in Seq(ToSet(txt.old)) /\ txt.new \in Seq(ToSet(txt.new))
     /\ txt.diff = TxtDiff(txt.old, txt.new)

\* The texts enumerated are texts.
LEMMA TxtTexts ==
  /\ \A most \in Nat : TxtOfLength(most) \subseteq Seq(TxtCharacters)
  /\ TxtNews \subseteq Seq(TxtCharacters)
<1>1. ASSUME NEW most \in Nat
  PROVE TxtOfLength(most) \subseteq Seq(TxtCharacters)
 <2>1. ASSUME NEW n \in 0 .. most, NEW w \in [1 .. n -> TxtCharacters]
   PROVE w \in Seq(TxtCharacters)
   BY <2>1, FromFunction
 <2> QED BY <2>1 DEF TxtOfLength
<1>2. <<"s", "s">> \in Seq(TxtCharacters)
 <2>1. "s" \in TxtCharacters BY DEF TxtCharacters
 <2> QED BY <2>1
<1> QED BY <1>1, <1>2 DEF TxtNews

\* Every step keeps that.
LEMMA TxtInvStep == TxtInv /\ [TxtNext]_txtVars => TxtInv'
<1> SUFFICES ASSUME TxtInv, [TxtNext]_txtVars
  PROVE TxtInv'
  OBVIOUS
<1>1. CASE TxtEdit
 <2>1.
   PICK content \in TxtOfLength(TxtMaxContent), old \in TxtOfLength(TxtMaxPiece),
        new \in TxtNews, all \in BOOLEAN :
     txt' = [phase |-> "edited", content |-> content, old |-> old, new |-> new,
             all |-> all, result |-> TxtApply(content, old, new, all)]
   BY <1>1 DEF TxtEdit
 <2>2. content \in Seq(TxtCharacters) /\ old \in Seq(TxtCharacters) /\ new \in Seq(TxtCharacters)
   BY TxtAssumption, TxtTexts DEF TxtAssumption
 <2> QED BY <2>1, <2>2 DEF TxtInv
<1>2. CASE TxtShow
 <2> DEFINE old == TxtLines(txt.content)
   new == TxtLines(txt.result.text)
 <2>1.
   /\ txt.phase = "edited"
   /\ txt' = [phase |-> "shown", old |-> old, new |-> new, diff |-> TxtDiff(old, new)]
   BY <1>2 DEF TxtShow
 <2>2. txt.content \in Seq(TxtCharacters) /\ txt.result.text \in Seq(TxtCharacters)
   BY <2>1, TxtApplyExact DEF TxtInv
 <2>3. old \in Seq(ToSet(old)) /\ new \in Seq(ToSet(new)) BY <2>2, TxtLinesType
 <2> HIDE DEF old, new
 <2> QED BY <2>1, <2>3 DEF TxtInv
<1>3. CASE TxtCompare
 <2> DEFINE texts == UNION {[1 .. n -> {"x", "y"}] : n \in 0 .. TxtMaxLines}
 <2>1.
   PICK old \in texts, new \in texts :
     txt' = [phase |-> "shown", old |-> old, new |-> new, diff |-> TxtDiff(old, new)]
   BY <1>3 DEF TxtCompare
 <2>2. ASSUME NEW w \in texts
   PROVE w \in Seq(ToSet(w))
  <3>1. PICK n \in 0 .. TxtMaxLines : w \in [1 .. n -> {"x", "y"}] OBVIOUS
  <3>2. n \in Nat BY TxtAssumption DEF TxtAssumption
  <3>3. w = [k \in 1 .. n |-> w[k]] BY <3>1
  <3> QED BY <3>2, <3>3, TxtOwnValues
 <2>3. old \in Seq(ToSet(old)) /\ new \in Seq(ToSet(new)) BY <2>2
 <2> QED BY <2>1, <2>3 DEF TxtInv
<1>4. CASE UNCHANGED txtVars BY <1>4 DEF TxtInv, txtVars
<1> QED BY <1>1, <1>2, <1>3, <1>4 DEF TxtNext

\* What holds of every edit and of every preview follows.
LEMMA TxtInvExact == TxtInv => EditsExact
<1> SUFFICES ASSUME TxtInv
  PROVE EditsExact
  OBVIOUS
<1>1. ASSUME txt.phase = "edited"
  PROVE TxtEditExact
 <2>1.
   /\ txt.content \in Seq(TxtCharacters) /\ txt.old \in Seq(TxtCharacters)
   /\ txt.new \in Seq(TxtCharacters) /\ txt.all \in BOOLEAN
   /\ txt.result = TxtApply(txt.content, txt.old, txt.new, txt.all)
   BY <1>1 DEF TxtInv
 <2>2. TxtResultExact(txt.content, txt.old, txt.new, txt.result) BY <2>1, TxtApplyExact
 <2> QED BY <2>2, Zenon DEF TxtEditExact, TxtResultExact, TxtHow
<1>2. ASSUME txt.phase = "shown"
  PROVE TxtDiffExact
 <2> DEFINE S == ToSet(txt.old) \cup ToSet(txt.new)
 <2>1.
   /\ txt.old \in Seq(ToSet(txt.old)) /\ txt.new \in Seq(ToSet(txt.new))
   /\ txt.diff = TxtDiff(txt.old, txt.new)
   BY <1>2 DEF TxtInv
 <2>2. ASSUME NEW A \in SUBSET S, NEW s \in Seq(A)
   PROVE s \in Seq(S)
  <3>1. Len(s) \in Nat /\ DOMAIN s = 1 .. Len(s) /\ \A i \in DOMAIN s : s[i] \in A BY Indices
  <3>2. s \in [1 .. Len(s) -> S]
   <4>1. s = [i \in 1 .. Len(s) |-> s[i]] BY <3>1
   <4> HIDE DEF S
   <4> QED BY <3>1, <4>1
  <3> HIDE DEF S
  <3> QED BY <3>1, <3>2, FromFunction
 <2>3. txt.old \in Seq(S) /\ txt.new \in Seq(S)
  <3>1. ToSet(txt.old) \in SUBSET S /\ ToSet(txt.new) \in SUBSET S OBVIOUS
  <3> HIDE DEF S
  <3> QED BY <2>1, <2>2, <3>1
 <2> HIDE DEF S
 <2>4. TxtPreviewExact(txt.old, txt.new, txt.diff) BY <2>1, <2>3, TxtDiffIsExact
 <2> QED BY <2>4 DEF TxtDiffExact, TxtPreviewExact
<1>3. txt.phase # "edited" => TxtEditExact BY DEF TxtEditExact
<1>4. txt.phase # "shown" => TxtDiffExact BY DEF TxtDiffExact
<1> QED BY <1>1, <1>2, <1>3, <1>4 DEF EditsExact

\* FileEdit changes exactly what it was asked to change, and shows it as it is, for texts
\* of every length (applyEditToFile, generateUnifiedDiff).
THEOREM EditsAreExact == TxtSpec => []EditsExact
<1>1. TxtInit => TxtInv BY DEF TxtInit, TxtInv
<1>2. TxtInv /\ [TxtNext]_txtVars => TxtInv' BY TxtInvStep
<1>3. TxtInv => EditsExact BY TxtInvExact
<1> QED BY <1>1, <1>2, <1>3, PTL DEF TxtSpec

====
