---- MODULE SubAgentsProofs ----
(***************************************************************************)
(* Safety of SubAgents for every tree of children of depth two and every   *)
(* width of a batch: what a call answers is true of its children, and      *)
(* nothing works on unnoticed below a child that has returned.  And of     *)
(* Delegation, for requests of any shape and size: what the Agent tool     *)
(* makes of a request, tells its caller and writes down agrees with what   *)
(* the children did.                                                       *)
(***************************************************************************)
EXTENDS SubAgents, Delegation, SequenceLemmas

\* A child listens to its handle exactly while its loop runs without having
\* been told to stop, and whoever is above it does so too.
Listening ==
  \A m \in Agents :
    /\ loop[m] = "none" => result[m] = "none" /\ ~ aborted[m]
    /\ result[m] = "none" => loop[m] \in {"none", "running"}
    /\ loop[m] = "running" => (result[m] # "none" <=> aborted[m])
    /\ Pending(m) /\ Parent[m] # Root => Pending(Parent[m])

\* What the window of a call says of the children it asks for.
Windows ==
  \A p \in Callers :
    /\ call[p] = "unused" =>
         \A i \in 1 .. Len(Requests[p]) : loop[Requests[p][i]] = "none"
    /\ call[p] = "open" =>
         \A i \in 1 .. Len(Requests[p]) :
           /\ i < window[p] => result[Requests[p][i]] # "none"
           /\ i >= After(p) => loop[Requests[p][i]] = "none"
    /\ call[p] = "over" =>
         \A i \in 1 .. Len(Requests[p]) : ~ Pending(Requests[p][i])

\* An open call is made by a loop that runs, and its batch knows of an abort.
Open ==
  \A p \in Callers :
    /\ call[p] = "open" /\ p # Root => loop[p] = "running"
    /\ call[p] = "open" /\ aborted[p] /\ p \notin Pipelines => cause[p] # "none"
    /\ cause[p] = "aborted" => aborted[p]

\* Where a child's result comes from.
Results ==
  \A m \in Agents :
    /\ result[m] = "completed" => loop[m] = "completed"
    /\ result[m] = "timeout" => "timeout" \in {handle[m], cause[Parent[m]]}
    /\ result[m] = "aborted" => aborted[Parent[m]]

\* The answer of a call so far.
AnswersSoFar ==
  \A p \in Callers :
    /\ Tells(p, answer[p])
    /\ call[p] = "unused" => answer[p] = <<>>
    /\ call[p] = "open" => Len(answer[p]) = window[p] - 1
    /\ call[p] = "over" => answer[p] = <<>> \/ Len(answer[p]) = Len(Requests[p])

IInv == TypeOK /\ Listening /\ Windows /\ Open /\ Results /\ AnswersSoFar

USE RequestsAssumption, TreeAssumption, DepthAssumption, TimersAssumption,
    WindowAssumption

--------------------
(* The tree of children *)

\* The children of a caller are its requests, each of which it asks for once.
LEMMA KidsAre ==
  ASSUME NEW p \in Callers
  PROVE
    /\ Requests[p] \in Seq(Agents) /\ Len(Requests[p]) \in Nat
    /\ DOMAIN Requests[p] = 1 .. Len(Requests[p])
    /\ \A i \in 1 .. Len(Requests[p]) : Requests[p][i] \in Agents
    /\ Kids(p) = {Requests[p][i] : i \in 1 .. Len(Requests[p])}
    /\ \A i, j \in 1 .. Len(Requests[p]) :
         Requests[p][i] = Requests[p][j] => i = j
<1>1. Requests[p] \in Seq(Agents) OBVIOUS
<1>2.
  /\ Len(Requests[p]) \in Nat /\ DOMAIN Requests[p] = 1 .. Len(Requests[p])
  /\ \A i \in 1 .. Len(Requests[p]) : Requests[p][i] \in Agents
  BY <1>1
<1> QED BY <1>1, <1>2 DEF Kids, Range, IsInjective

\* Every child has one parent.
LEMMA ParentIs ==
  /\ \A m \in Agents : Parent[m] \in Callers /\ m \in Kids(Parent[m])
  /\ \A p \in Callers : \A m \in Kids(p) : m \in Agents /\ Parent[m] = p
<1>1. \A p \in Callers : \A m \in Kids(p) : m \in Agents BY KidsAre
<1>2. \A m \in Agents : \E p \in Callers : m \in Kids(p) BY <1>1 DEF Descendants, Callers
<1>3. \A m \in Agents : Parent[m] \in Callers /\ m \in Kids(Parent[m]) BY <1>2 DEF Parent
<1>4. \A p \in Callers : \A m \in Kids(p) : Parent[m] = p BY <1>1, <1>3
<1> QED BY <1>1, <1>3, <1>4

\* The children of children have none.
LEMMA Shallow ==
  ASSUME NEW m \in Agents, Parent[m] # Root
  PROVE
    /\ Parent[m] \in Agents /\ Parent[Parent[m]] = Root
    /\ \A d \in Agents : Parent[d] # m
<1>1. Parent[m] \in Agents /\ m \in Kids(Parent[m]) BY ParentIs DEF Callers
<1>2. m \notin Kids(Root) /\ Root \in Callers BY ParentIs DEF Callers
<1>3. PICK p \in Kids(Root) : m \in Kids(p) BY <1>2 DEF Descendants
<1>4. p \in Agents /\ Parent[p] = Root /\ Parent[m] = p BY <1>2, <1>3, ParentIs DEF Callers
<1>5. Requests[m] = <<>> /\ m \in Callers BY <1>3 DEF Callers
<1>6. Kids(m) = {} BY <1>5, KidsAre
<1> QED BY <1>1, <1>4, <1>6, ParentIs


--------------------
(* Aborts *)

\* The handles that hear of an abort listen, and with a child all below it hear.
LEMMA BelowEffect ==
  ASSUME IInv, NEW ps \in SUBSET Callers
  PROVE
    /\ Below(ps) \subseteq {m \in Agents : Pending(m)}
    /\ \A m \in Agents : Pending(m) /\ Parent[m] \in ps => m \in Below(ps)
    /\ \A m \in Agents : Pending(m) /\ Parent[m] \in Below(ps) => m \in Below(ps)
    /\ \A m \in Below(ps) : Parent[m] \in ps \cup Below(ps)
<1> DEFINE kids == {m \in Agents : Pending(m) /\ Parent[m] \in ps}
  rest == {m \in Agents : Pending(m) /\ Parent[m] \in kids}
<1>1. Below(ps) = kids \cup rest BY DEF Below
<1>2. \A m \in rest : m \in Agents /\ Parent[m] \in Agents OBVIOUS
<1>3. \A m \in rest : Parent[m] # Root BY <1>2
<1>4. \A m \in rest : \A d \in Agents : Parent[d] # m BY <1>2, <1>3, Shallow
<1> HIDE DEF kids
<1>5. \A m \in Agents : Parent[m] \in kids /\ Pending(m) => m \in rest OBVIOUS
<1> QED BY <1>1, <1>4, <1>5 DEF kids

\* The children in hit listen, and so does nobody below them who is not hit; the
\* batches are at most timed out, and whoever is hit for an abort has a parent
\* that was told.
LEMMA AbortStep ==
  ASSUME IInv,
    NEW hit \in SUBSET Agents, NEW signals \in SUBSET {Root},
    NEW timedOut \in SUBSET Agents, NEW batch \in [Callers -> Cause],
    \A m \in hit : Pending(m),
    \A m \in Agents : Pending(m) /\ Parent[m] \in hit => m \in hit,
    \A p \in Callers : batch[p] = cause[p] \/ (cause[p] = "none" /\ batch[p] = "timeout"),
    \A m \in hit : m \in timedOut \/ batch[Parent[m]] = "timeout"
                                  \/ Parent[m] \in hit \cup signals,
    Abort(hit, signals, timedOut, batch)
  PROVE IInv'
<1> DEFINE
  own == [m \in Agents |-> IF m \notin hit THEN handle[m]
                      ELSE IF m \in timedOut THEN "timeout" ELSE "aborted"]
  told == hit \cup signals
  heard == [p \in Callers |-> IF p \in told /\ call[p] = "open" /\ p \notin Pipelines
                            /\ batch[p] = "none"
                         THEN "aborted" ELSE batch[p]]
<1>1.
  /\ handle' = own /\ cause' = heard
  /\ aborted' = [p \in Callers |-> aborted[p] \/ p \in told]
  /\ result' = [m \in Agents |-> IF m \in hit THEN Resolved(own[m], heard[Parent[m]])
                                 ELSE result[m]]
  /\ UNCHANGED <<loop, call, window, answer>>
  BY DEF Abort, Raced
<1>2.
  /\ own \in [Agents -> Cause] /\ heard \in [Callers -> Cause]
  /\ \A m \in hit : own[m] = "timeout" <=> m \in timedOut
  /\ \A m \in Agents \ hit : own[m] = handle[m]
  /\ \A p \in Callers : cause[p] # "none" => heard[p] = cause[p]
  /\ \A p \in Callers : heard[p] = "none" => batch[p] = "none"
  /\ \A p \in Callers : batch[p] = "timeout" <=> heard[p] = "timeout"
  /\ \A p \in Callers : heard[p] = "aborted" => cause[p] = "aborted" \/ p \in told
  /\ \A p \in told : call[p] = "open" /\ p \notin Pipelines => heard[p] # "none"
  BY DEF IInv, TypeOK, Cause, Callers
<1> HIDE DEF own, heard
<1>3.
  \A m \in hit : /\ result'[m] \in {"timeout", "aborted"}
                 /\ result'[m] = "timeout" <=> "timeout" \in {own[m], heard[Parent[m]]}
  BY <1>1 DEF Resolved
<1>4. \A m \in Agents \ hit : result'[m] = result[m] /\ (aborted'[m] <=> aborted[m])
  BY <1>1 DEF Callers
<1>5. \A m \in hit : aborted'[m] /\ m \in Agents /\ loop[m] = "running" /\ result[m] = "none"
  BY <1>1 DEF Callers, Pending
<1>6. \A p \in Callers : aborted[p] => aborted'[p] BY <1>1
<1>a. \A m \in Agents : (Pending(m))' <=> Pending(m) /\ m \notin hit
  BY <1>1, <1>3, <1>4 DEF Pending
<1>7. TypeOK'
 <2>1. aborted' \in [Callers -> BOOLEAN] BY <1>1 DEF IInv, TypeOK
 <2>2. result' \in [Agents -> Status \cup {"none"}]
  <3>1. \A m \in Agents : result'[m] \in Status \cup {"none"}
    BY <1>3, <1>4 DEF IInv, TypeOK, Status
  <3>2. result' = [m \in Agents |-> result'[m]] BY <1>1
  <3> QED BY <3>1, <3>2
 <2> QED BY <1>1, <1>2, <2>1, <2>2 DEF IInv, TypeOK
<1>8. Listening'
 <2> SUFFICES ASSUME NEW m \in Agents
   PROVE
     /\ (loop[m] = "none" => result[m] = "none" /\ ~ aborted[m])'
     /\ (result[m] = "none" => loop[m] \in {"none", "running"})'
     /\ (loop[m] = "running" => (result[m] # "none" <=> aborted[m]))'
     /\ (Pending(m) /\ Parent[m] # Root => Pending(Parent[m]))'
   BY DEF Listening
 <2>1. (loop[m] = "none" => result[m] = "none" /\ ~ aborted[m])'
   BY <1>1, <1>4, <1>5 DEF IInv, Listening
 <2>2. (result[m] = "none" => loop[m] \in {"none", "running"})'
   BY <1>1, <1>3, <1>4 DEF IInv, Listening
 <2>3. (loop[m] = "running" => (result[m] # "none" <=> aborted[m]))'
   BY <1>1, <1>3, <1>4, <1>5 DEF IInv, Listening
 <2>4. (Pending(m) /\ Parent[m] # Root => Pending(Parent[m]))'
   BY <1>a, Shallow DEF IInv, Listening
 <2> QED BY <2>1, <2>2, <2>3, <2>4
<1>9. Windows'
 <2>1.
   \A p \in Callers : \A i \in 1 .. Len(Requests[p]) :
     /\ Requests[p][i] \in Agents
     /\ result[Requests[p][i]] # "none" => result'[Requests[p][i]] # "none"
     /\ Pending(Requests[p][i])' => Pending(Requests[p][i])
   BY <1>3, <1>4, <1>a, KidsAre
 <2> QED BY <1>1, <2>1 DEF IInv, Windows, After, Width
<1>10. Open'
 <2>1. \A p \in Callers : aborted'[p] => aborted[p] \/ p \in told BY <1>1
 <2>2. \A p \in told : aborted'[p] BY <1>1 DEF Callers
 <2> HIDE DEF told
 <2> QED BY <1>1, <1>2, <1>6, <2>1, <2>2, ZenonT(40) DEF IInv, Open
<1>11. Results'
 <2> SUFFICES ASSUME NEW m \in Agents
   PROVE
     /\ result'[m] = "completed" => loop'[m] = "completed"
     /\ result'[m] = "timeout" => "timeout" \in {handle'[m], cause'[Parent[m]]}
     /\ result'[m] = "aborted" => aborted'[Parent[m]]
   BY DEF Results
 <2>1. Parent[m] \in Callers BY ParentIs
 <2>2. CASE m \in hit
  <3>1. result'[m] = "aborted" => Parent[m] \in told BY <1>2, <1>3, <2>1, <2>2
  <3> QED BY <1>1, <1>3, <2>1, <2>2, <3>1
 <2>3. CASE m \notin hit
  <3>1. result'[m] = result[m] /\ handle'[m] = handle[m] /\ loop'[m] = loop[m]
    BY <1>1, <1>2, <1>4, <2>3
  <3>2. cause[Parent[m]] = "timeout" => cause'[Parent[m]] = "timeout" BY <1>1, <1>2, <2>1
  <3>3. aborted[Parent[m]] => aborted'[Parent[m]] BY <1>6, <2>1
  <3> QED BY <3>1, <3>2, <3>3 DEF IInv, Results
 <2> QED BY <2>2, <2>3
<1>12. AnswersSoFar'
 <2>1. \A p \in Callers : Tells(p, answer[p])'
  <3> SUFFICES ASSUME NEW p \in Callers, NEW i \in DOMAIN answer[p]
    PROVE
      LET m == Requests[p][i]
      IN  /\ answer[p][i] = "completed" => loop[m] = "completed"
          /\ answer[p][i] = "timeout" => "timeout" \in {handle'[m], cause'[p]}
          /\ answer[p][i] = "aborted" => aborted'[p]
          /\ loop[m] = "none" => answer[p][i] \in {"timeout", "aborted", "skipped"}
    BY <1>1 DEF Tells
  <3> DEFINE m == Requests[p][i]
  <3>1. answer[p] \in Seq(Status \cup {"skipped"})
        /\ Tells(p, answer[p])
    BY DEF IInv, TypeOK, AnswersSoFar
  <3>2. m \notin hit /\ m \in Agents
   <4>1. Len(answer[p]) \in Nat /\ DOMAIN answer[p] = 1 .. Len(answer[p]) BY <3>1
   <4>2. i \in 1 .. Len(answer[p]) BY <4>1
   <4>3. /\ Len(Requests[p]) \in Nat
         /\ \A k \in 1 .. Len(Requests[p]) : Requests[p][k] \in Agents
     BY KidsAre
   <4>4. /\ window[p] \in 1 .. Len(Requests[p]) + 1 /\ call[p] \in {"unused", "open", "over"}
     BY DEF IInv, TypeOK
   <4>5. call[p] # "unused" /\ (call[p] = "open" => i < window[p])
         /\ i \in 1 .. Len(Requests[p])
     BY <4>1, <4>2, <4>3, <4>4 DEF IInv, AnswersSoFar
   <4>6. ~ Pending(m) BY <4>4, <4>5 DEF IInv, Windows, Pending
   <4> QED BY <4>3, <4>5, <4>6
  <3>3. handle'[m] = handle[m] /\ (cause[p] = "timeout" => cause'[p] = "timeout")
        /\ (aborted[p] => aborted'[p])
    BY <1>1, <1>2, <1>6, <3>2
  <3> QED BY <3>1, <3>3 DEF Tells
 <2> QED BY <1>1, <2>1 DEF IInv, AnswersSoFar
<1> QED BY <1>7, <1>8, <1>9, <1>10, <1>11, <1>12 DEF IInv

LEMMA AbortRootStep == IInv /\ AbortRoot => IInv'
<1> SUFFICES ASSUME IInv, AbortRoot PROVE IInv' OBVIOUS
<1>1. {Root} \in SUBSET Callers BY DEF Callers
<1>2. cause \in [Callers -> Cause] BY DEF IInv, TypeOK
<1> QED BY <1>1, <1>2, BelowEffect, AbortStep DEF AbortRoot

LEMMA ChildTimerStep ==
  ASSUME IInv, NEW m \in Agents, ChildTimer(m)
  PROVE IInv'
<1> DEFINE hit == {m} \cup Below({m})
<1>1. {m} \in SUBSET Callers BY DEF Callers
<1>2. cause \in [Callers -> Cause] BY DEF IInv, TypeOK
<1>3.
  /\ hit \subseteq Agents /\ \A d \in hit : Pending(d)
  /\ \A d \in Agents : Pending(d) /\ Parent[d] \in hit => d \in hit
  /\ \A d \in hit : d \in {m} \/ Parent[d] \in hit
  BY <1>1, BelowEffect DEF ChildTimer
<1>4. Abort(hit, {}, {m}, cause) BY DEF ChildTimer
<1> HIDE DEF hit
<1> QED BY <1>2, <1>3, <1>4, AbortStep

LEMMA BatchTimerStep ==
  ASSUME IInv, NEW p \in Callers, BatchTimer(p)
  PROVE IInv'
<1> DEFINE batch == [cause EXCEPT ![p] = "timeout"]
<1>1.
  /\ batch \in [Callers -> Cause]
  /\ \A q \in Callers : batch[q] = cause[q] \/ (cause[q] = "none" /\ batch[q] = "timeout")
  /\ batch[p] = "timeout"
  BY DEF IInv, TypeOK, BatchTimer, Cause
<1>2. Abort(Below({p}), {}, {}, batch) BY DEF BatchTimer
<1> HIDE DEF batch
<1>3. \A m \in Below({p}) : batch[Parent[m]] = "timeout" \/ Parent[m] \in Below({p}) \cup {}
  BY <1>1, BelowEffect
<1> QED BY <1>1, <1>2, <1>3, BelowEffect, AbortStep

--------------------
(* Calls *)

\* What was told stays true while children start and end.
LEMMA TellsStays ==
  ASSUME NEW q \in Callers, NEW u \in Seq(Status \cup {"skipped"}),
    Len(u) <= Len(Requests[q]), Tells(q, u),
    \A m \in Agents : /\ loop[m] = "completed" => loop'[m] = "completed"
                      /\ loop'[m] = "none" => loop[m] = "none",
    aborted[q] => aborted'[q],
    UNCHANGED <<handle, cause>>
  PROVE Tells(q, u)'
<1>1. Len(u) \in Nat /\ DOMAIN u = 1 .. Len(u) OBVIOUS
<1>2. \A i \in DOMAIN u : Requests[q][i] \in Agents BY <1>1, KidsAre
<1> QED BY <1>2 DEF Tells

\* No answer is longer than the requests.
LEMMA KnownSoFar ==
  ASSUME IInv, NEW q \in Callers
  PROVE Tells(q, answer[q]) /\ Len(answer[q]) <= Len(Requests[q])
<1>1.
  /\ answer[q] \in Seq(Status \cup {"skipped"}) /\ call[q] \in {"unused", "open", "over"}
  /\ window[q] \in 1 .. Len(Requests[q]) + 1 /\ Len(Requests[q]) \in Nat
  BY KidsAre DEF IInv, TypeOK
<1>2. Len(<<>>) = 0 OBVIOUS
<1> QED BY <1>1, <1>2 DEF IInv, AnswersSoFar

\* The next window of p is started: its children and those after it have not
\* run, those before it have returned, and p itself goes on.
LEMMA StartStep ==
  ASSUME IInv, NEW p \in Callers, NEW at \in 1 .. Len(Requests[p]),
    NEW s \in Seq(Status \cup {"skipped"}),
    p # Root => Pending(p), ~ aborted[p],
    \A i \in 1 .. Len(Requests[p]) :
      /\ i < at => result[Requests[p][i]] # "none"
      /\ i >= at => loop[Requests[p][i]] = "none",
    Tells(p, s), Len(s) = at - 1,
    StartWindow(p, at),
    call' = [call EXCEPT ![p] = "open"],
    answer' = [answer EXCEPT ![p] = s],
    UNCHANGED <<aborted, handle, result, cause>>
  PROVE IInv'
<1> DEFINE new == {Requests[p][i] : i \in WindowFrom(p, at)}
<1>1.
  /\ window' = [window EXCEPT ![p] = at]
  /\ loop' = [m \in Agents |-> IF m \in new THEN "running" ELSE loop[m]]
  BY DEF StartWindow
<1>a.
  /\ call'[p] = "open" /\ window'[p] = at /\ answer'[p] = s
  /\ \A q \in Callers : q # p =>
       call'[q] = call[q] /\ window'[q] = window[q] /\ answer'[q] = answer[q]
 <2>1.
   /\ call \in [Callers -> {"unused", "open", "over"}]
   /\ answer \in [Callers -> Seq(Status \cup {"skipped"})] /\ window \in [Callers -> Nat]
   BY DEF IInv, TypeOK
 <2> QED BY <1>1, <2>1
<1>2.
  /\ Len(Requests[p]) \in Nat /\ at \in Nat
  /\ WindowFrom(p, at) \subseteq 1 .. Len(Requests[p])
  /\ \A i \in 1 .. Len(Requests[p]) :
       i \in WindowFrom(p, at) <=> i >= at /\ i < at + Width(p)
  /\ Width(p) \in Nat \ {0}
  BY KidsAre DEF WindowFrom, Width
<1>3.
  /\ new \subseteq Agents
  /\ \A m \in new : loop[m] = "none" /\ Parent[m] = p
  /\ \A i \in 1 .. Len(Requests[p]) : i >= at + Width(p) => Requests[p][i] \notin new
 <2>1. \A m \in new : m \in Agents /\ loop[m] = "none" /\ m \in Kids(p) BY <1>2, KidsAre
 <2>2. \A i \in 1 .. Len(Requests[p]) : i >= at + Width(p) => Requests[p][i] \notin new
   BY <1>2, KidsAre
 <2> QED BY <2>1, <2>2, ParentIs
<1>4. \A m \in new : result[m] = "none" /\ ~ aborted[m] BY <1>3 DEF IInv, Listening
<1> HIDE DEF new
<1>5.
  /\ \A m \in new : loop'[m] = "running"
  /\ \A m \in Agents \ new : loop'[m] = loop[m]
  BY <1>1, <1>3
<1>6. TypeOK'
 <2>1. loop' \in [Agents -> {"none", "running", "completed", "failed", "stopped"}]
   BY <1>1 DEF IInv, TypeOK
 <2>2.
   window' \in [Callers -> Nat]
   /\ \A q \in Callers : window'[q] \in 1 .. Len(Requests[q]) + 1
   BY <1>1, <1>2, <1>a DEF IInv, TypeOK
 <2> QED BY <2>1, <2>2 DEF IInv, TypeOK
<1>7. Listening'
 <2> SUFFICES ASSUME NEW m \in Agents
   PROVE
     /\ (loop[m] = "none" => result[m] = "none" /\ ~ aborted[m])'
     /\ (result[m] = "none" => loop[m] \in {"none", "running"})'
     /\ (loop[m] = "running" => (result[m] # "none" <=> aborted[m]))'
     /\ (Pending(m) /\ Parent[m] # Root => Pending(Parent[m]))'
   BY DEF Listening
 <2>1. CASE m \in new
  <3>1. p # Root => Pending(p)' BY <1>5 DEF Pending, Callers
  <3> QED BY <1>3, <1>4, <1>5, <2>1, <3>1
 <2>2. CASE m \notin new
  <3>1. Parent[m] # Root => (Pending(Parent[m]) => Pending(Parent[m])')
    BY <1>5, Shallow DEF Pending
  <3> QED BY <1>5, <2>2, <3>1 DEF IInv, Listening, Pending
 <2> QED BY <2>1, <2>2
<1>8. Windows'
 <2> SUFFICES ASSUME NEW q \in Callers, NEW i \in 1 .. Len(Requests[q])
   PROVE
     /\ call'[q] = "unused" => loop'[Requests[q][i]] = "none"
     /\ call'[q] = "open" =>
          /\ i < window'[q] => result[Requests[q][i]] # "none"
          /\ i >= After(q)' => loop'[Requests[q][i]] = "none"
     /\ call'[q] = "over" => ~ Pending(Requests[q][i])'
   BY DEF Windows
 <2> DEFINE m == Requests[q][i]
 <2>0. m \in Agents /\ Parent[m] = q
  <3>1. m \in Agents /\ m \in Kids(q) BY KidsAre
  <3> QED BY <3>1, ParentIs
 <2>1. CASE q = p
  <3>1. call'[q] = "open" /\ window'[q] = at /\ After(q)' = at + Width(q)
    BY <1>a, <2>1 DEF After, Width
  <3> QED BY <1>2, <1>3, <1>5, <2>0, <2>1, <3>1
 <2>2. CASE q # p
  <3>1. call'[q] = call[q] /\ window'[q] = window[q] /\ After(q)' = After(q)
    BY <1>a, <2>2 DEF After, Width
  <3>2. m \notin new BY <1>3, <2>0, <2>2
  <3> QED BY <1>5, <2>0, <3>1, <3>2 DEF IInv, Windows, Pending
 <2> QED BY <2>1, <2>2
<1>9. Open'
 <2> SUFFICES ASSUME NEW q \in Callers
   PROVE
     /\ call'[q] = "open" /\ q # Root => loop'[q] = "running"
     /\ call'[q] = "open" /\ aborted[q] /\ q \notin Pipelines => cause[q] # "none"
     /\ cause[q] = "aborted" => aborted[q]
   BY DEF Open
 <2>1. q # Root => (loop[q] = "running" => loop'[q] = "running") BY <1>5 DEF Callers
 <2>2. q # p => call'[q] = call[q] BY DEF IInv, TypeOK
 <2> QED BY <2>1, <2>2 DEF IInv, Open, Pending
<1>10. Results' BY <1>3, <1>4, <1>5 DEF IInv, Results
<1>11. AnswersSoFar'
 <2>1.
   \A m \in Agents : /\ loop[m] = "completed" => loop'[m] = "completed"
                     /\ loop'[m] = "none" => loop[m] = "none"
   BY <1>3, <1>5
 <2> SUFFICES ASSUME NEW q \in Callers
   PROVE
     /\ Tells(q, answer[q])'
     /\ call'[q] = "unused" => answer'[q] = <<>>
     /\ call'[q] = "open" => Len(answer'[q]) = window'[q] - 1
     /\ call'[q] = "over" => answer'[q] = <<>> \/ Len(answer'[q]) = Len(Requests[q])
   BY DEF AnswersSoFar
 <2>2. CASE q = p
  <3>1. call'[q] = "open" /\ window'[q] = at /\ answer'[q] = s BY <1>a, <2>2
  <3>2. Len(s) <= Len(Requests[p]) /\ Tells(p, s)' BY <1>2, <2>1, TellsStays
  <3>3. Tells(q, answer[q])' BY <2>2, <3>1, <3>2 DEF Tells
  <3> QED BY <3>1, <3>3
 <2>3. CASE q # p
  <3>1. call'[q] = call[q] /\ window'[q] = window[q] /\ answer'[q] = answer[q] BY <1>a, <2>3
  <3>2. answer[q] \in Seq(Status \cup {"skipped"}) BY DEF IInv, TypeOK
  <3>3. Len(answer[q]) <= Len(Requests[q]) BY KnownSoFar
  <3>4.
    /\ Tells(q, answer[q])
    /\ call[q] = "unused" => answer[q] = <<>>
    /\ call[q] = "open" => Len(answer[q]) = window[q] - 1
    /\ call[q] = "over" => answer[q] = <<>> \/ Len(answer[q]) = Len(Requests[q])
    BY DEF IInv, AnswersSoFar
  <3>5. Tells(q, answer[q])'
   <4>1. PICK u : u = answer[q] OBVIOUS
   <4>2. Tells(q, u)' BY <2>1, <3>2, <3>3, <3>4, <4>1, TellsStays
   <4> QED BY <3>1, <4>1, <4>2 DEF Tells
  <3> QED BY <3>1, <3>4, <3>5
 <2> QED BY <2>2, <2>3
<1> QED BY <1>6, <1>7, <1>8, <1>9, <1>10, <1>11 DEF IInv

LEMMA CallStep ==
  ASSUME IInv, NEW p \in Callers, Call(p)
  PROVE IInv'
<1>1.
  /\ Requests[p] # <<>> /\ call[p] = "unused" /\ (p # Root => loop[p] = "running")
  /\ UNCHANGED <<aborted, handle, result, answer, cause>>
  BY DEF Call
<1>2.
  /\ \A i \in 1 .. Len(Requests[p]) :
       Requests[p][i] \in Agents /\ loop[Requests[p][i]] = "none"
  /\ answer[p] = <<>>
  BY <1>1, KidsAre DEF IInv, Windows, AnswersSoFar
<1>3.
  /\ call \in [Callers -> {"unused", "open", "over"}]
  /\ answer \in [Callers -> Seq(Status \cup {"skipped"})]
  BY DEF IInv, TypeOK
<1>4. CASE aborted[p]
 <2>1. call' = [call EXCEPT ![p] = "over"] /\ UNCHANGED <<window, loop>> BY <1>4 DEF Call
 <2>2. call'[p] = "over" /\ \A q \in Callers : q # p => call'[q] = call[q] BY <1>3, <2>1
 <2>3. TypeOK' /\ Listening' /\ Results'
   BY <1>1, <2>1 DEF IInv, TypeOK, Listening, Results, Pending
 <2>4. Windows' BY <1>1, <1>2, <2>1, <2>2 DEF IInv, Windows, Pending, After, Width
 <2>5. Open' /\ AnswersSoFar' BY <1>1, <1>2, <2>1, <2>2 DEF IInv, Open, AnswersSoFar, Tells
 <2> QED BY <2>3, <2>4, <2>5 DEF IInv
<1>5. CASE ~ aborted[p]
 <2>1. call' = [call EXCEPT ![p] = "open"] /\ StartWindow(p, 1) BY <1>5 DEF Call
 <2>2.
   1 \in 1 .. Len(Requests[p]) /\ <<>> \in Seq(Status \cup {"skipped"})
   /\ Len(<<>>) = 1 - 1
   BY <1>1, KidsAre
 <2>3. answer' = [answer EXCEPT ![p] = <<>>] BY <1>1, <1>2, <1>3
 <2>4. Tells(p, <<>>) BY DEF Tells
 <2>5. p # Root => Pending(p) BY <1>1, <1>5 DEF IInv, Listening, Pending, Callers
 <2>6.
   \A i \in 1 .. Len(Requests[p]) :
     /\ i < 1 => result[Requests[p][i]] # "none"
     /\ i >= 1 => loop[Requests[p][i]] = "none"
   BY <1>2, KidsAre
 <2>7. UNCHANGED <<aborted, handle, result, cause>> BY <1>1
 <2> QED BY <1>5, <2>1, <2>2, <2>3, <2>4, <2>5, <2>6, <2>7, StartStep
<1> QED BY <1>4, <1>5

LEMMA LoopEndsStep ==
  ASSUME IInv, NEW m \in Agents, NEW how \in {"completed", "failed", "stopped"},
    LoopEnds(m, how)
  PROVE IInv'
<1>1.
  /\ loop[m] = "running" /\ call[m] # "open" /\ loop' = [loop EXCEPT ![m] = how]
  /\ result' = IF result[m] = "none" THEN [result EXCEPT ![m] = how] ELSE result
  /\ aborted' = [aborted EXCEPT ![m] = TRUE]
  /\ UNCHANGED <<handle, call, window, answer, cause>>
  BY DEF LoopEnds
<1>2.
  /\ loop \in [Agents -> {"none", "running", "completed", "failed", "stopped"}]
  /\ result \in [Agents -> Status \cup {"none"}] /\ aborted \in [Callers -> BOOLEAN]
  /\ call[m] \in {"unused", "open", "over"} /\ m \in Callers
  BY DEF IInv, TypeOK, Callers
<1>3. result[m] = "none" => how \in {"completed", "failed"}
  BY <1>1 DEF IInv, Listening, LoopEnds
<1>4.
  /\ loop'[m] = how /\ result'[m] # "none" /\ aborted'[m] /\ result'[m] \in {result[m], how}
  /\ result[m] # "none" => result'[m] = result[m]
  /\ \A d \in Agents : d # m => loop'[d] = loop[d] /\ result'[d] = result[d]
  /\ \A q \in Callers : q # m => (aborted'[q] <=> aborted[q])
  BY <1>1, <1>2
<1>5. \A d \in Agents : Parent[d] = m => ~ Pending(d)
 <2> SUFFICES ASSUME NEW d \in Agents, Parent[d] = m PROVE ~ Pending(d) OBVIOUS
 <2>1. PICK i \in 1 .. Len(Requests[m]) : d = Requests[m][i] BY <1>2, KidsAre, ParentIs
 <2> QED BY <1>1, <1>2, <2>1 DEF IInv, Windows, Pending
<1>6. TypeOK'
 <2>1.
   /\ loop' \in [Agents -> {"none", "running", "completed", "failed", "stopped"}]
   /\ aborted' \in [Callers -> BOOLEAN] /\ result' \in [Agents -> Status \cup {"none"}]
   BY <1>1, <1>2, <1>3 DEF Status
 <2> QED BY <1>1, <2>1 DEF IInv, TypeOK
<1>7. Listening'
 <2> SUFFICES ASSUME NEW d \in Agents
   PROVE
     /\ (loop[d] = "none" => result[d] = "none" /\ ~ aborted[d])'
     /\ (result[d] = "none" => loop[d] \in {"none", "running"})'
     /\ (loop[d] = "running" => (result[d] # "none" <=> aborted[d]))'
     /\ (Pending(d) /\ Parent[d] # Root => Pending(Parent[d]))'
   BY DEF Listening
 <2>1. CASE d = m BY <1>4, <2>1 DEF Pending
 <2>2. CASE d # m
  <3>1.
    (loop[d] = "none" => result[d] = "none" /\ ~ aborted[d])
    /\ (result[d] = "none" => loop[d] \in {"none", "running"})
    /\ (loop[d] = "running" => (result[d] # "none" <=> aborted[d]))
    /\ (Pending(d) /\ Parent[d] # Root => Pending(Parent[d]))
    BY DEF IInv, Listening
  <3>2. Parent[d] # Root => Parent[d] \in Agents BY Shallow
  <3> QED BY <1>4, <1>5, <2>2, <3>1, <3>2 DEF Pending, Callers
 <2> QED BY <2>1, <2>2
<1>8. Windows'
 <2>1.
   \A q \in Callers : \A i \in 1 .. Len(Requests[q]) :
     LET d == Requests[q][i]
     IN  /\ loop[d] = "none" => loop'[d] = "none"
         /\ result[d] # "none" => result'[d] # "none"
         /\ Pending(d)' => Pending(d)
   BY <1>1, <1>4, KidsAre DEF Pending
 <2> QED BY <1>1, <2>1 DEF IInv, Windows, After, Width
<1>9. Open' BY <1>1, <1>4 DEF IInv, Open, Callers
<1>10. Results'
 <2> SUFFICES ASSUME NEW d \in Agents
   PROVE
     /\ result'[d] = "completed" => loop'[d] = "completed"
     /\ result'[d] = "timeout" => "timeout" \in {handle[d], cause[Parent[d]]}
     /\ result'[d] = "aborted" => aborted'[Parent[d]]
   BY <1>1 DEF Results
 <2>1.
   /\ result[d] = "completed" => loop[d] = "completed"
   /\ result[d] = "timeout" => "timeout" \in {handle[d], cause[Parent[d]]}
   /\ result[d] = "aborted" => aborted[Parent[d]]
   BY DEF IInv, Results
 <2>2. aborted[Parent[d]] => aborted'[Parent[d]] BY <1>4, ParentIs
 <2>3. result'[d] = result[d] \/ (d = m /\ result'[d] = how /\ how \in {"completed", "failed"})
   BY <1>3, <1>4
 <2> QED BY <1>1, <1>4, <2>1, <2>2, <2>3
<1>11. AnswersSoFar'
 <2>1.
   \A d \in Agents : /\ loop[d] = "completed" => loop'[d] = "completed"
                     /\ loop'[d] = "none" => loop[d] = "none"
   BY <1>1, <1>4
 <2> SUFFICES ASSUME NEW q \in Callers PROVE Tells(q, answer[q])' BY <1>1 DEF IInv, AnswersSoFar
 <2>2. Tells(q, answer[q]) /\ Len(answer[q]) <= Len(Requests[q]) BY KnownSoFar
 <2>3. PICK u \in Seq(Status \cup {"skipped"}) : u = answer[q] BY DEF IInv, TypeOK
 <2>4. aborted[q] => aborted'[q] BY <1>4
 <2>5. Tells(q, u)' BY <1>1, <2>1, <2>2, <2>3, <2>4, TellsStays
 <2> QED BY <1>1, <2>3, <2>5 DEF Tells
<1> QED BY <1>6, <1>7, <1>8, <1>9, <1>10, <1>11 DEF IInv

\* When the window of p has settled, every child up to its end has returned, and
\* its answer tells of all of them.
LEMMA KnownEffect ==
  ASSUME IInv, NEW p \in Callers, Settled(p)
  PROVE
    /\ Known(p) \in Seq(Status \cup {"skipped"}) /\ Tells(p, Known(p))
    /\ Len(Known(p)) = IF After(p) > Len(Requests[p]) THEN Len(Requests[p])
                       ELSE After(p) - 1
    /\ \A i \in 1 .. Len(Requests[p]) :
         /\ i < After(p) => result[Requests[p][i]] # "none"
         /\ i >= After(p) => loop[Requests[p][i]] = "none"
    /\ After(p) \in Nat /\ After(p) >= 1
<1> DEFINE w == window[p]
  N == Len(Requests[p])
  n == Cardinality(WindowFrom(p, w))
  of(i) == result[Requests[p][w + i - 1]]
  seen(i) == IF p \in Pipelines /\ of(i) # "completed" THEN "failed" ELSE of(i)
  news == [i \in 1 .. n |-> seen(i)]
<1>1.
  /\ N \in Nat /\ w \in 1 .. N + 1 /\ call[p] = "open"
  /\ answer[p] \in Seq(Status \cup {"skipped"}) /\ DOMAIN Requests[p] = 1 .. N
  BY KidsAre DEF IInv, TypeOK, Settled
<1>2. Width(p) \in Nat \ {0} /\ After(p) = w + Width(p) BY DEF Width, After
<1>3. n = IF After(p) > N THEN N - w + 1 ELSE Width(p)
 <2>1. CASE After(p) > N
  <3>1. WindowFrom(p, w) = w .. N BY <1>1, <1>2, <2>1 DEF WindowFrom
  <3>2. Cardinality(w .. N) = IF w > N THEN 0 ELSE N - w + 1
   <4>1. w \in Int /\ N \in Int BY <1>1
   <4> HIDE DEF w, N
   <4> QED BY <4>1, FS_Interval
  <3> QED BY <1>1, <2>1, <3>1, <3>2, SMTT(20)
 <2>2. CASE ~ (After(p) > N)
  <3>1. WindowFrom(p, w) = w .. w + Width(p) - 1 BY <1>1, <1>2, <2>2 DEF WindowFrom
  <3> DEFINE e == w + Width(p) - 1
  <3>2. e \in Int /\ w \in Int /\ w <= e /\ e - w + 1 = Width(p) BY <1>1, <1>2
  <3>3. Cardinality(w .. e) = IF w > e THEN 0 ELSE e - w + 1
   <4> HIDE DEF w, e
   <4> QED BY <3>2, FS_Interval
  <3> QED BY <2>2, <3>1, <3>2, <3>3
 <2> QED BY <2>1, <2>2
<1>4. n \in Nat /\ w + n - 1 \in 0 .. N BY <1>1, <1>2, <1>3, SMTT(20)
<1>5.
  \A i \in w .. w + n - 1 :
    /\ i \in 1 .. N /\ i \in WindowFrom(p, w)
  BY <1>1, <1>2, <1>3, <1>4, SMTT(20) DEF WindowFrom
<1>6. \A i \in 1 .. n : of(i) \in Status
 <2> SUFFICES ASSUME NEW i \in 1 .. n PROVE of(i) \in Status OBVIOUS
 <2>1. w + i - 1 \in w .. w + n - 1 BY <1>1, <1>4
 <2>2. of(i) # "none" BY <1>5, <2>1 DEF Settled
 <2>3. Requests[p][w + i - 1] \in Agents BY <1>5, <2>1, KidsAre
 <2> QED BY <2>2, <2>3 DEF IInv, TypeOK
<1>7. Known(p) = answer[p] \o news BY DEF Known
<1>8. \A i \in 1 .. n : seen(i) \in Status \cup {"skipped"} BY <1>6 DEF Status
<1> HIDE DEF of, n, N
<1>9.
  news \in Seq(Status \cup {"skipped"}) /\ Len(news) = n
  /\ \A i \in 1 .. n : news[i] = seen(i)
  BY <1>4, <1>8
<1>10. Tells(p, answer[p]) /\ Len(answer[p]) = w - 1 BY <1>1 DEF IInv, AnswersSoFar
<1> HIDE DEF news, seen
<1>11.
  /\ Known(p) \in Seq(Status \cup {"skipped"}) /\ Len(Known(p)) = w - 1 + n
  /\ \A i \in 1 .. Len(Known(p)) :
       Known(p)[i] = IF i <= w - 1 THEN answer[p][i] ELSE news[i - (w - 1)]
 <2> DEFINE S == Status \cup {"skipped"}
 <2>1. answer[p] \in Seq(S) /\ news \in Seq(S) BY <1>1, <1>9
 <2> HIDE DEF S
 <2>2.
   /\ answer[p] \o news \in Seq(S) /\ Len(answer[p] \o news) = Len(answer[p]) + Len(news)
   /\ \A i \in 1 .. Len(answer[p] \o news) :
        (answer[p] \o news)[i] = IF i <= Len(answer[p]) THEN answer[p][i]
                                 ELSE news[i - Len(answer[p])]
   BY <2>1, ConcatDisjoint
 <2> QED BY <1>7, <1>9, <1>10, <2>2 DEF S
<1>12. Tells(p, Known(p))
 <2> SUFFICES ASSUME NEW i \in DOMAIN Known(p)
   PROVE
     LET m == Requests[p][i]
     IN  /\ Known(p)[i] = "completed" => loop[m] = "completed"
         /\ Known(p)[i] = "timeout" => "timeout" \in {handle[m], cause[p]}
         /\ Known(p)[i] = "aborted" => aborted[p]
         /\ loop[m] = "none" => Known(p)[i] \in {"timeout", "aborted", "skipped"}
   BY DEF Tells
 <2>1. i \in 1 .. w - 1 + n BY <1>1, <1>4, <1>11, SMTT(20)
 <2>2. CASE i <= w - 1
  <3>1. i \in DOMAIN answer[p] /\ Known(p)[i] = answer[p][i] BY <1>1, <1>10, <1>11, <2>1, <2>2
  <3> QED BY <1>10, <3>1 DEF Tells
 <2>3. CASE i > w - 1
  <3> DEFINE m == Requests[p][i]
  <3>1. i - (w - 1) \in 1 .. n /\ w + (i - (w - 1)) - 1 = i BY <1>1, <1>4, <2>1, <2>3, SMTT(20)
  <3>2. Known(p)[i] = seen(i - (w - 1))
   <4>1. i \in 1 .. Len(Known(p)) /\ ~ (i <= w - 1) BY <1>1, <1>4, <1>11, <2>1, <2>3
   <4>2. Known(p)[i] = news[i - (w - 1)] BY <1>11, <4>1
   <4> QED BY <1>9, <3>1, <4>2
  <3>3. of(i - (w - 1)) = result[m] /\ result[m] \in Status BY <1>6, <3>1 DEF of
  <3>4. i \in 1 .. N BY <1>1, <1>4, <2>1
  <3>5. m \in Agents /\ m \in Kids(p) BY <3>4, KidsAre DEF N
  <3>6. Parent[m] = p BY <3>5, ParentIs
  <3>7.
    /\ result[m] = "completed" => loop[m] = "completed"
    /\ result[m] = "timeout" => "timeout" \in {handle[m], cause[p]}
    /\ result[m] = "aborted" => aborted[p]
    /\ loop[m] # "none"
    BY <3>3, <3>5, <3>6 DEF IInv, Results, Listening, Status
  <3>8. Known(p)[i] = result[m] \/ Known(p)[i] = "failed" BY <3>2, <3>3 DEF seen
  <3> QED BY <3>7, <3>8
 <2> QED BY <1>1, <2>1, <2>2, <2>3
<1>13.
  Len(Known(p)) = IF After(p) > Len(Requests[p]) THEN Len(Requests[p])
                  ELSE After(p) - 1
  BY <1>1, <1>2, <1>3, <1>11 DEF N
<1>14.
  \A i \in 1 .. Len(Requests[p]) :
    /\ i < After(p) => result[Requests[p][i]] # "none"
    /\ i >= After(p) => loop[Requests[p][i]] = "none"
 <2> SUFFICES ASSUME NEW i \in 1 .. Len(Requests[p])
   PROVE
     /\ i < After(p) => result[Requests[p][i]] # "none"
     /\ i >= After(p) => loop[Requests[p][i]] = "none"
   OBVIOUS
 <2>1. i < w => result[Requests[p][i]] # "none" BY <1>1 DEF IInv, Windows
 <2>2. i >= After(p) => loop[Requests[p][i]] = "none" BY <1>1 DEF IInv, Windows
 <2>3. i >= w /\ i < After(p) => i \in WindowFrom(p, w) BY <1>1, <1>2 DEF WindowFrom, N
 <2> QED BY <1>1, <1>2, <2>1, <2>2, <2>3 DEF Settled
<1> QED BY <1>1, <1>2, <1>11, <1>12, <1>13, <1>14

\* The requests that were never started get a status that is true of them.
LEMMA RestEffect ==
  ASSUME IInv, NEW p \in Callers, Settled(p),
    NEW status \in {"timeout", "aborted", "skipped"},
    status = "timeout" => cause[p] = "timeout",
    status = "aborted" => aborted[p]
  PROVE
    LET s == Known(p) \o Rest(p, status)
    IN  /\ s \in Seq(Status \cup {"skipped"})
        /\ Tells(p, s) /\ Len(s) = Len(Requests[p])
<1> DEFINE s == Known(p) \o Rest(p, status)
  k == Len(Requests[p]) - After(p) + 1
<1>1. Len(Requests[p]) \in Nat /\ After(p) \in Nat /\ After(p) >= 1 BY KidsAre, KnownEffect
<1>2. Rest(p, status) = [i \in 1 .. k |-> status] BY DEF Rest
<1>3.
  /\ Rest(p, status) \in Seq(Status \cup {"skipped"})
  /\ Len(Rest(p, status)) = IF k <= 0 THEN 0 ELSE k
  /\ \A i \in 1 .. k : Rest(p, status)[i] = status
 <2>1. CASE k <= 0
  <3>1. 1 .. k = {} BY <1>1, <2>1
  <3>2. Rest(p, status) = <<>> BY <1>2, <3>1
  <3> QED BY <2>1, <3>1, <3>2
 <2>2. CASE k > 0
  <3>1. k \in Nat /\ status \in Status \cup {"skipped"} BY <1>1, <2>2 DEF Status
  <3> QED BY <1>2, <2>2, <3>1
 <2> QED BY <1>1, <2>1, <2>2
<1>4.
  /\ Known(p) \in Seq(Status \cup {"skipped"}) /\ Len(Known(p)) \in Nat
  /\ Len(Known(p)) = IF k <= 0 THEN Len(Requests[p]) ELSE After(p) - 1
  BY <1>1, KnownEffect
<1> HIDE DEF k
<1>5.
  /\ s \in Seq(Status \cup {"skipped"}) /\ Len(s) = Len(Known(p)) + Len(Rest(p, status))
  /\ \A i \in 1 .. Len(s) : s[i] = IF i <= Len(Known(p)) THEN Known(p)[i]
                                   ELSE Rest(p, status)[i - Len(Known(p))]
 <2> DEFINE S == Status \cup {"skipped"}
 <2>1. Known(p) \in Seq(S) /\ Rest(p, status) \in Seq(S) BY <1>3, <1>4
 <2> HIDE DEF S
 <2>2.
   /\ s \in Seq(S) /\ Len(s) = Len(Known(p)) + Len(Rest(p, status))
   /\ \A i \in 1 .. Len(s) : s[i] = IF i <= Len(Known(p)) THEN Known(p)[i]
                                    ELSE Rest(p, status)[i - Len(Known(p))]
   BY <2>1, ConcatDisjoint
 <2> QED BY <2>2 DEF S
<1> HIDE DEF s
<1>6. Len(s) = Len(Requests[p])
 <2>1. k <= 0 => Len(Rest(p, status)) = 0 /\ Len(Known(p)) = Len(Requests[p]) BY <1>3, <1>4
 <2>2. k > 0 => Len(Rest(p, status)) = k /\ Len(Known(p)) = After(p) - 1
   BY <1>1, <1>3, <1>4 DEF k
 <2>3. Len(s) = Len(Known(p)) + Len(Rest(p, status)) BY <1>5
 <2> HIDE DEF s
 <2> QED BY <1>1, <2>1, <2>2, <2>3 DEF k
<1>7. Tells(p, s)
 <2> SUFFICES ASSUME NEW i \in DOMAIN s
   PROVE
     LET m == Requests[p][i]
     IN  /\ s[i] = "completed" => loop[m] = "completed"
         /\ s[i] = "timeout" => "timeout" \in {handle[m], cause[p]}
         /\ s[i] = "aborted" => aborted[p]
         /\ loop[m] = "none" => s[i] \in {"timeout", "aborted", "skipped"}
   BY DEF Tells
 <2>1. i \in 1 .. Len(s) BY <1>5
 <2>2. CASE i <= Len(Known(p))
  <3>1. i \in DOMAIN Known(p) /\ s[i] = Known(p)[i] BY <1>1, <1>4, <1>5, <1>6, <2>1, <2>2
  <3>2. Tells(p, Known(p)) BY KnownEffect
  <3> QED BY <3>1, <3>2 DEF Tells
 <2>3. CASE i > Len(Known(p))
  <3>1. i - Len(Known(p)) \in 1 .. k BY <1>1, <1>4, <1>6, <2>1, <2>3 DEF k
  <3>2. s[i] = status BY <1>3, <1>5, <2>1, <2>3, <3>1
  <3> QED BY <3>2
 <2> QED BY <1>1, <1>4, <1>6, <2>1, <2>2, <2>3
<1> QED BY <1>5, <1>6, <1>7 DEF s

\* The call of p ends with an answer to every request.
LEMMA OverStep ==
  ASSUME IInv, NEW p \in Callers, Settled(p),
    NEW s \in Seq(Status \cup {"skipped"}),
    Tells(p, s), Len(s) = Len(Requests[p]), Over(p, s),
    \A i \in 1 .. Len(Requests[p]) : ~ Pending(Requests[p][i]),
    UNCHANGED <<aborted, handle, result, cause>>
  PROVE IInv'
<1>1.
  /\ call' = [call EXCEPT ![p] = "over"] /\ answer' = [answer EXCEPT ![p] = s]
  /\ UNCHANGED <<aborted, loop, handle, result, window, cause>>
  BY DEF Over
<1>2.
  /\ call \in [Callers -> {"unused", "open", "over"}]
  /\ answer \in [Callers -> Seq(Status \cup {"skipped"})]
  BY DEF IInv, TypeOK
<1>3.
  /\ call'[p] = "over" /\ answer'[p] = s
  /\ \A q \in Callers : q # p => call'[q] = call[q] /\ answer'[q] = answer[q]
  BY <1>1, <1>2
<1>4. TypeOK'
 <2>1.
   /\ call' \in [Callers -> {"unused", "open", "over"}]
   /\ answer' \in [Callers -> Seq(Status \cup {"skipped"})]
   BY <1>1, <1>2
 <2> QED BY <1>1, <2>1 DEF IInv, TypeOK
<1>5. Listening' /\ Results' BY <1>1 DEF IInv, Listening, Results, Pending
<1>6. Windows'
 <2> SUFFICES ASSUME NEW q \in Callers, NEW i \in 1 .. Len(Requests[q])
   PROVE
     /\ call'[q] = "unused" => loop[Requests[q][i]] = "none"
     /\ call'[q] = "open" =>
          /\ i < window[q] => result[Requests[q][i]] # "none"
          /\ i >= After(q) => loop[Requests[q][i]] = "none"
     /\ call'[q] = "over" => ~ Pending(Requests[q][i])
   BY <1>1 DEF Windows, Pending, After, Width
 <2>1. CASE q = p BY <1>3, <2>1
 <2>2. CASE q # p BY <1>3, <2>2, SMTT(20) DEF IInv, Windows
 <2> QED BY <2>1, <2>2
<1>7. Open' BY <1>1, <1>3 DEF IInv, Open
<1>8. AnswersSoFar'
 <2> SUFFICES ASSUME NEW q \in Callers
   PROVE
     /\ Tells(q, answer'[q])
     /\ call'[q] = "unused" => answer'[q] = <<>>
     /\ call'[q] = "open" => Len(answer'[q]) = window[q] - 1
     /\ call'[q] = "over" => answer'[q] = <<>> \/ Len(answer'[q]) = Len(Requests[q])
   BY <1>1 DEF AnswersSoFar, Tells
 <2>1. CASE q = p BY <1>3, <2>1
 <2>2. CASE q # p BY <1>3, <2>2 DEF IInv, AnswersSoFar
 <2> QED BY <2>1, <2>2
<1> QED BY <1>4, <1>5, <1>6, <1>7, <1>8 DEF IInv

\* The next window of a call that nobody aborted.
LEMMA NextWindowStep ==
  ASSUME IInv, NEW p \in Callers, Settled(p), NextWindow(p), ~ aborted[p],
    After(p) <= Len(Requests[p]),
    UNCHANGED <<aborted, handle, result, cause>>
  PROVE IInv'
<1>1. After(p) \in 1 .. Len(Requests[p]) BY KnownEffect, KidsAre
<1>2. /\ answer' = [answer EXCEPT ![p] = Known(p)] /\ StartWindow(p, After(p)) /\ call' = call
  BY DEF NextWindow
<1>3. call[p] = "open" /\ call' = [call EXCEPT ![p] = "open"] BY <1>2 DEF Settled, IInv, TypeOK
<1>4. p # Root => Pending(p) BY <1>3 DEF IInv, Open, Listening, Pending, Callers
<1>5. Len(Known(p)) = After(p) - 1 BY <1>1, KnownEffect
<1>6.
  \A i \in 1 .. Len(Requests[p]) :
    /\ i < After(p) => result[Requests[p][i]] # "none"
    /\ i >= After(p) => loop[Requests[p][i]] = "none"
  BY KnownEffect
<1> QED BY <1>1, <1>2, <1>3, <1>4, <1>5, <1>6, KnownEffect, StartStep

LEMMA SettleBatchStep ==
  ASSUME IInv, NEW p \in Callers, SettleBatch(p)
  PROVE IInv'
<1>1. /\ p \notin Pipelines /\ Settled(p) /\ UNCHANGED <<aborted, handle, result, cause>>
  BY DEF SettleBatch
<1>2.
  /\ After(p) \in Nat /\ Len(Requests[p]) \in Nat
  /\ cause[p] \in {"none", "aborted", "timeout"} /\ call[p] = "open"
  BY <1>1, KidsAre, KnownEffect DEF IInv, TypeOK, Cause, Settled
<1>3. \A i \in 1 .. Len(Requests[p]) : ~ Pending(Requests[p][i])
  BY <1>1, <1>2, KnownEffect DEF Pending
<1>4. CASE cause[p] # "none"
 <2>1. Over(p, Known(p) \o Rest(p, cause[p])) BY <1>1, <1>4 DEF SettleBatch
 <2>2. cause[p] = "aborted" => aborted[p] BY DEF IInv, Open
 <2>3. cause[p] \in {"timeout", "aborted", "skipped"} BY <1>2, <1>4
 <2> QED BY <1>1, <1>3, <2>1, <2>2, <2>3, RestEffect, OverStep
<1>5. CASE cause[p] = "none" /\ After(p) > Len(Requests[p])
 <2>1. Over(p, Known(p)) BY <1>1, <1>5 DEF SettleBatch
 <2> QED BY <1>1, <1>3, <1>5, <2>1, KnownEffect, OverStep
<1>6. CASE cause[p] = "none" /\ ~ (After(p) > Len(Requests[p]))
 <2>1. NextWindow(p) /\ After(p) <= Len(Requests[p]) BY <1>1, <1>2, <1>6 DEF SettleBatch
 <2>2. ~ aborted[p] BY <1>1, <1>2, <1>6 DEF IInv, Open
 <2> QED BY <1>1, <2>1, <2>2, NextWindowStep
<1> QED BY <1>4, <1>5, <1>6

LEMMA SettlePipelineStep ==
  ASSUME IInv, NEW p \in Callers, SettlePipeline(p)
  PROVE IInv'
<1>1. Settled(p) /\ UNCHANGED <<aborted, handle, result, cause>> BY DEF SettlePipeline
<1>2. After(p) \in Nat /\ Len(Requests[p]) \in Nat BY <1>1, KidsAre, KnownEffect
<1>3. \A i \in 1 .. Len(Requests[p]) : ~ Pending(Requests[p][i])
  BY <1>1, <1>2, KnownEffect DEF Pending
<1>4. CASE After(p) > Len(Requests[p])
 <2>1. Over(p, Known(p)) BY <1>4 DEF SettlePipeline
 <2> QED BY <1>1, <1>3, <1>4, <2>1, KnownEffect, OverStep
<1>5. CASE ~ (After(p) > Len(Requests[p])) /\ aborted[p]
 <2>1. Over(p, Known(p) \o Rest(p, "aborted")) BY <1>5 DEF SettlePipeline
 <2> QED BY <1>1, <1>3, <1>5, <2>1, RestEffect, OverStep
<1>6.
  CASE /\ ~ (After(p) > Len(Requests[p])) /\ ~ aborted[p]
       /\ Last(Known(p)) = "failed"
 <2>1. Over(p, Known(p) \o Rest(p, "skipped")) BY <1>6 DEF SettlePipeline
 <2> QED BY <1>1, <1>3, <2>1, RestEffect, OverStep
<1>7.
  CASE /\ ~ (After(p) > Len(Requests[p])) /\ ~ aborted[p]
       /\ Last(Known(p)) # "failed"
 <2>1. NextWindow(p) /\ After(p) <= Len(Requests[p]) BY <1>2, <1>7 DEF SettlePipeline
 <2> QED BY <1>1, <1>7, <2>1, NextWindowStep
<1> QED BY <1>4, <1>5, <1>6, <1>7

--------------------
(* Every reachable state *)

LEMMA InitIInv == Init => IInv
<1> SUFFICES ASSUME Init PROVE IInv OBVIOUS
<1>1. <<>> \in Seq(Status \cup {"skipped"}) /\ DOMAIN <<>> = {} OBVIOUS
<1>2. TypeOK
 <2>1. \A p \in Callers : 1 \in 1 .. Len(Requests[p]) + 1 BY KidsAre
 <2> QED BY <1>1, <2>1 DEF Init, TypeOK, Status, Cause
<1>3. Listening BY DEF Init, Listening, Pending, Callers
<1>4. Windows BY KidsAre DEF Init, Windows
<1>5. Open /\ Results BY ParentIs DEF Init, Open, Results
<1>6. AnswersSoFar BY DEF Init, AnswersSoFar, Tells
<1> QED BY <1>2, <1>3, <1>4, <1>5, <1>6 DEF IInv

LEMMA NextIInv == IInv /\ [Next]_vars => IInv'
<1> SUFFICES ASSUME IInv, [Next]_vars PROVE IInv' OBVIOUS
<1>1. CASE AbortRoot BY <1>1, AbortRootStep
<1>2. ASSUME NEW m \in Agents, ChildTimer(m) PROVE IInv' BY <1>2, ChildTimerStep
<1>3. ASSUME NEW p \in Callers, BatchTimer(p) PROVE IInv' BY <1>3, BatchTimerStep
<1>4. ASSUME NEW p \in Callers, Call(p) PROVE IInv' BY <1>4, CallStep
<1>5. ASSUME NEW p \in Callers, Settle(p) PROVE IInv'
  BY <1>5, SettleBatchStep, SettlePipelineStep DEF Settle
<1>6. ASSUME NEW m \in Agents, NEW how \in {"completed", "failed", "stopped"},
    LoopEnds(m, how)
  PROVE IInv'
  BY <1>6, LoopEndsStep
<1>7. CASE UNCHANGED vars
  BY <1>7 DEF vars, IInv, TypeOK, Listening, Pending, Windows, After, Width, Open, Results,
    AnswersSoFar, Tells
<1> QED BY <1>1, <1>2, <1>3, <1>4, <1>5, <1>6, <1>7 DEF Next

\* The windows, handles, results and answers of every reachable state agree.
THEOREM Invariant == Spec => []IInv
<1> QED BY InitIInv, NextIInv, PTL DEF Spec

\* Every variable of the runtime keeps its type.
THEOREM TypeCorrect == Spec => []TypeOK
<1>1. IInv => TypeOK BY DEF IInv
<1> QED BY <1>1, Invariant, PTL

\* What a call answers is true of every child it was asked for, in the order of
\* the requests, for batches of any width and for pipelines, whatever aborts,
\* timers and results interleave.
THEOREM CallsAnswerTruly == Spec => []AnswersTell
<1>1. IInv => AnswersTell BY DEF IInv, AnswersSoFar, AnswersTell
<1> QED BY <1>1, Invariant, PTL

\* Whatever still runs at or below a child that has returned was told to stop.
THEOREM NothingOrphaned == Spec => []NoOrphans
<1>1. ASSUME IInv, NEW m \in Agents, result[m] # "none",
    NEW d \in {m} \cup Descendants(m), loop[d] = "running"
  PROVE aborted[d]
 <2>1. CASE d = m BY <1>1, <2>1 DEF IInv, Listening
 <2>2. CASE d \in Kids(m)
  <3>1. m \in Callers /\ m # Root BY DEF Callers
  <3>2. d \in Agents /\ Parent[d] = m BY <2>2, <3>1, ParentIs
  <3> QED BY <1>1, <3>1, <3>2 DEF IInv, Listening, Pending
 <2>3. CASE \E k \in Kids(m) : d \in Kids(k)
  <3>1. PICK k \in Kids(m) : d \in Kids(k) BY <2>3
  <3>2. m \in Callers /\ m # Root BY DEF Callers
  <3>3. k \in Agents /\ Parent[k] = m BY <3>2, ParentIs
  <3>4. k \in Callers /\ k # Root BY <3>3 DEF Callers
  <3>5. d \in Agents /\ Parent[d] = k BY <3>1, <3>4, ParentIs
  <3> QED BY <1>1, <3>2, <3>3, <3>4, <3>5 DEF IInv, Listening, Pending
 <2> QED BY <1>1, <2>1, <2>2, <2>3 DEF Descendants
<1>2. IInv => NoOrphans BY <1>1 DEF NoOrphans
<1> QED BY <1>2, Invariant, PTL
--------------------
(* The Agent tool (Delegation): what is what *)

DelStatuses == {"open", "completed", "failed", "timeout", "aborted"}
DelKid ==
  [status : DelStatuses, loop : BOOLEAN, tools : SUBSET DelTools, turns : Int,
   timeout : Seq(Int), wrote : BOOLEAN]
DelRunningCall == [state : {"open", "background"}, request : DelRequest, kids : Seq(DelKid)]
DelOverCall ==
  [state : {"over", "failed", "ended"}, request : DelRequest, answer : {"ok", "error"},
   kids : Seq(DelKid)]
DelCall == {DelNoCall} \cup DelRunningCall \cup DelOverCall
DelLine ==
  [call : DelNames, kind : {"child", "single", "coordinator", "evidence"}, kid : Nat,
   status : DelStatuses \cup {"error"}, success : BOOLEAN, counts : Seq(Nat)]

DelTyped ==
  /\ delRoot \in DelRoots /\ delCalls \in [DelNames -> DelCall] /\ delSaved \in Seq(DelLine)

DelRequests(c) == IF c = "outer" THEN DelOuter ELSE DelInner

\* A child has what was made of its task, and writes by a rule of the user.
DelKidFits(c, request, i, kid) ==
  LET given == DelChild(c, request, i, TRUE) IN
  /\ kid.tools = given.tools /\ kid.turns = given.turns /\ kid.timeout = given.timeout
  /\ (kid.wrote => DelWriting \cap kid.tools # {} /\ delRoot.rule = "write-allowed")
  /\ (kid.status = "completed" => ~ kid.loop)

\* The children of a call are those of its request; of a pipeline all but the last are done.
DelKidsFit(c, request, kids) ==
  /\ request \in DelRequests(c) /\ request.shape # "both"
  /\ Len(kids) >= 1 /\ Len(kids) <= Len(DelTasks(request))
  /\ (request.shape # "pipeline" => Len(kids) = Len(DelTasks(request)))
  /\ \A i \in DOMAIN kids : DelKidFits(c, request, i, kids[i])
  /\ (request.shape = "pipeline" =>
        \A i \in DOMAIN kids : i < Len(kids) => kids[i].status = "completed")

\* What an answered call says of its children, none of whom is open any more.
DelAnswered(entry) ==
  /\ \A i \in DOMAIN entry.kids : entry.kids[i].status # "open"
  /\ (entry.answer = "ok") <=> (DelAllDone(entry) /\ entry.state # "failed")

DelCallFits(c, entry) ==
  /\ (entry.state \in {"background", "ended"} => c = "outer")
  /\ (entry.state \in {"open", "background"} => DelKidsFit(c, entry.request, entry.kids))
  /\ (entry.state = "ended" => entry.kids # <<>>)
  /\ (entry.state \in {"over", "failed", "ended"} /\ entry.kids # <<>> =>
        DelKidsFit(c, entry.request, entry.kids) /\ DelAnswered(entry))

\* A record that would be out of order says what is so, and the child it is of has
\* nothing left to wait for.
DelClaims(line) ==
  /\ line.call = "outer" /\ line.success
  /\ line.kind = "single" \/ (line.kind = "child" /\ line.kid = 1)

DelFirstDone(entry) ==
  /\ entry.state \in {"open", "background", "over", "failed", "ended"}
  /\ entry.kids # <<>> /\ entry.kids[1].status = "completed"

DelClaimsTrue ==
  \A n \in DOMAIN delSaved : DelClaims(delSaved[n]) =>
    delCalls["outer"].state \in {"over", "failed"} /\ DelFirstDone(delCalls["outer"])

DelInnerDone == DelFirstDone(delCalls["outer"]) => delCalls["inner"].state # "open"

DelInv ==
  /\ DelTyped /\ \A c \in DelNames : DelCallFits(c, delCalls[c])
  /\ DelRecordsAgree /\ DelClaimsTrue /\ DelInnerDone /\ DelInOrder

\* What the input schema promises of a request.
LEMMA DelRequestTyped ==
  ASSUME NEW c \in DelNames, NEW request \in DelRequests(c)
  PROVE
    /\ request \in DelRequest
    /\ request.shape \in {"batch", "pipeline"} => request.subs # <<>>
    /\ request.shape = "pipeline" =>
         \A i \in DOMAIN request.subs : request.subs[i].write = <<>>
BY DelAssumption DEF DelRequests, DelNames

LEMMA DelOrTyped ==
  ASSUME NEW S, NEW option \in Seq(S), NEW default \in Seq(S)
  PROVE DelOr(option, default) \in Seq(S)
BY DEF DelOr

\* The tasks of a request: one for each of its subtasks or stages, or one.
LEMMA DelTasksTyped ==
  ASSUME NEW request \in DelRequest
  PROVE
    /\ DelTasks(request) \in Seq(DelPart)
    /\ Len(DelTasks(request)) =
         IF request.shape \in {"batch", "pipeline"} THEN Len(request.subs) ELSE 1
<1> DEFINE n == Len(request.subs)
<1>1.
  /\ request.subs \in Seq(DelPart) /\ n \in Nat /\ DOMAIN request.subs = 1 .. n
  /\ \A i \in 1 .. n : request.subs[i] \in DelPart
  BY Indices DEF DelRequest
<1>2.
  /\ request.tools \in Seq(SUBSET DelTools) /\ request.turns \in Seq(Int)
  /\ request.timeout \in Seq(Int) /\ request.write \in Seq(BOOLEAN)
  BY DEF DelRequest
<1>3. ASSUME NEW i \in 1 .. n
  PROVE
    /\ DelTask(request, request.subs[i]) \in DelPart
    /\ DelStage(request, request.subs[i]) \in DelPart
 <2>1.
   /\ request.subs[i].tools \in Seq(SUBSET DelTools) /\ request.subs[i].turns \in Seq(Int)
   /\ request.subs[i].timeout \in Seq(Int) /\ request.subs[i].write \in Seq(BOOLEAN)
   BY <1>1 DEF DelPart
 <2>2. <<120>> \in Seq(Int) OBVIOUS
 <2>3.
   /\ DelOr(request.subs[i].tools, request.tools) \in Seq(SUBSET DelTools)
   /\ DelOr(request.subs[i].turns, request.turns) \in Seq(Int)
   /\ DelOr(request.subs[i].timeout, request.timeout) \in Seq(Int)
   /\ DelOr(request.timeout, <<120>>) \in Seq(Int)
   /\ DelOr(request.subs[i].write, request.write) \in Seq(BOOLEAN)
   BY <1>2, <2>1, <2>2, DelOrTyped
 <2>4. DelOr(request.subs[i].timeout, DelOr(request.timeout, <<120>>)) \in Seq(Int)
   BY <2>1, <2>3, DelOrTyped
 <2> QED BY <1>2, <2>3, <2>4 DEF DelTask, DelStage, DelPart
<1>4. CASE request.shape = "batch"
 <2> DEFINE f == [i \in 1 .. n |-> DelTask(request, request.subs[i])]
 <2>1. f \in [1 .. n -> DelPart] BY <1>3
 <2>2. f \in Seq(DelPart) /\ Len(f) = n BY <1>1, <2>1, FromFunction
 <2>3. DelTasks(request) = f BY <1>1, <1>4 DEF DelTasks
 <2> QED BY <1>4, <2>2, <2>3
<1>5. CASE request.shape = "pipeline"
 <2> DEFINE f == [i \in 1 .. n |-> DelStage(request, request.subs[i])]
 <2>1. f \in [1 .. n -> DelPart] BY <1>3
 <2>2. f \in Seq(DelPart) /\ Len(f) = n BY <1>1, <2>1, FromFunction
 <2>3. DelTasks(request) = f BY <1>1, <1>5 DEF DelTasks
 <2> QED BY <1>5, <2>2, <2>3
<1>6. CASE request.shape \notin {"batch", "pipeline"}
 <2> DEFINE
   task == [tools |-> request.tools, turns |-> request.turns,
            timeout |-> request.timeout, write |-> request.write]
 <2>1. task \in DelPart BY <1>2 DEF DelPart
 <2>2. DelTasks(request) = <<task>> BY <1>6 DEF DelTasks
 <2> QED BY <1>6, <2>1, <2>2
<1> QED BY <1>4, <1>5, <1>6

LEMMA DelClampBounds ==
  ASSUME NEW option \in Seq(Int), NEW default \in Int, NEW top \in Nat, top >= 1
  PROVE DelClamp(option, default, top) \in 1 .. top
<1> DEFINE asked == IF option = <<>> THEN default ELSE option[1]
<1>1. asked \in Int
 <2>1. CASE option = <<>> BY <2>1
 <2>2. CASE option # <<>>
  <3>1. option[1] \in Int BY <2>2, Indices
  <3> QED BY <2>2, <3>1
 <2> QED BY <2>1, <2>2
<1>2.
  DelClamp(option, default, top) =
    IF asked < 1 THEN 1 ELSE IF asked > top THEN top ELSE asked
  BY DEF DelClamp
<1> HIDE DEF asked
<1> QED BY <1>1, <1>2

\* The limits of a task at either depth.
LEMMA DelLimitsTyped ==
  ASSUME NEW c \in DelNames, NEW task \in DelPart
  PROVE
    LET limits == DelLimits(DelDepth[c], task)
    IN  /\ limits.turns \in 1 .. (IF c = "outer" THEN 8 ELSE 3)
        /\ limits.timeout \in Seq(Int)
        /\ limits.write \in BOOLEAN /\ limits.agent \in BOOLEAN
        /\ (limits.write => c = "outer" /\ task.write = <<TRUE>>)
        /\ (c = "inner" => ~ limits.agent /\ limits.timeout # <<>> /\ limits.timeout[1] <= 15)
<1>1. task.turns \in Seq(Int) /\ task.timeout \in Seq(Int) BY DEF DelPart
<1>2.
  /\ DelClamp(task.turns, 3, 3) \in 1 .. 3 /\ DelClamp(task.timeout, 15, 15) \in 1 .. 15
  /\ DelClamp(task.turns, 6, 8) \in 1 .. 8
 <2>1. DelClamp(task.turns, 3, 3) \in 1 .. 3 BY <1>1, DelClampBounds
 <2>2. DelClamp(task.timeout, 15, 15) \in 1 .. 15
  <3>1. 15 \in Int /\ 15 \in Nat /\ 15 >= 1 /\ task.timeout \in Seq(Int) BY <1>1
  <3> QED BY ONLY <3>1, DelClampBounds
 <2>3. DelClamp(task.turns, 6, 8) \in 1 .. 8
  <3>1. 6 \in Int /\ 8 \in Nat /\ 8 >= 1 /\ task.turns \in Seq(Int) BY <1>1
  <3> QED BY ONLY <3>1, DelClampBounds
 <2> QED BY <2>1, <2>2, <2>3
<1>3. CASE c = "outer"
 <2>1. DelDepth[c] = 1 BY <1>3 DEF DelDepth
 <2>2.
   DelLimits(DelDepth[c], task) =
     [turns |-> DelClamp(task.turns, 6, 8), timeout |-> task.timeout,
      write |-> task.write = <<TRUE>>, agent |-> TRUE]
   BY <2>1 DEF DelLimits
 <2> DEFINE limits == DelLimits(DelDepth[c], task)
 <2>3.
   /\ limits.turns \in 1 .. 8 /\ limits.timeout \in Seq(Int) /\ limits.agent = TRUE
   /\ limits.write = (task.write = <<TRUE>>)
   BY <1>1, <1>2, <2>2
 <2>4. limits.write \in BOOLEAN BY <2>3
 <2> QED BY <1>3, <2>3, <2>4
<1>4. CASE c = "inner"
 <2> DEFINE limits == DelLimits(DelDepth[c], task)
   clamped == DelClamp(task.timeout, 15, 15)
 <2>1. DelDepth[c] = 2 BY <1>4 DEF DelDepth
 <2>2.
   limits = [turns |-> DelClamp(task.turns, 3, 3), timeout |-> <<clamped>>,
             write |-> FALSE, agent |-> FALSE]
   BY <2>1 DEF DelLimits
 <2>3.
   /\ limits.turns \in 1 .. 3 /\ limits.timeout = <<clamped>> /\ limits.agent = FALSE
   /\ limits.write = FALSE
   BY <1>2, <2>2
 <2>4. clamped \in Int /\ clamped <= 15 BY <1>2
 <2>5. limits.timeout \in Seq(Int) /\ limits.timeout # <<>> /\ limits.timeout[1] <= 15
  <3> HIDE DEF limits, clamped
  <3> QED BY <2>3, <2>4
 <2> HIDE DEF limits
 <2> QED BY <1>4, <2>3, <2>5 DEF limits
<1> QED BY <1>3, <1>4 DEF DelNames
\* A child as it is made.
LEMMA DelChildTyped ==
  ASSUME NEW c \in DelNames, NEW request \in DelRequest, NEW i \in DOMAIN DelTasks(request),
    NEW found \in BOOLEAN
  PROVE
    LET kid == DelChild(c, request, i, found)
    IN  /\ kid \in DelKid
        /\ kid.status = IF found THEN "open" ELSE "failed"
        /\ ~ kid.wrote /\ DelKidFits(c, request, i, kid)
<1> DEFINE task == DelTasks(request)[i]
  limits == DelLimits(DelDepth[c], task)
  kid == DelChild(c, request, i, found)
<1>1. task \in DelPart BY DelTasksTyped, Indices
<1>2. limits.turns \in Int /\ limits.timeout \in Seq(Int)
 <2>1. limits.turns \in 1 .. (IF c = "outer" THEN 8 ELSE 3) /\ limits.timeout \in Seq(Int)
   BY <1>1, DelLimitsTyped
 <2> HIDE DEF limits
 <2> QED BY <2>1
<1>3. DelAllowed(task, limits) \subseteq DelTools BY DEF DelAllowed
<1>4.
  \A f \in BOOLEAN :
    DelChild(c, request, i, f) =
      [status |-> IF f THEN "open" ELSE "failed", loop |-> f,
       tools |-> DelAllowed(task, limits), turns |-> limits.turns,
       timeout |-> limits.timeout, wrote |-> FALSE]
  BY DEF DelChild
<1> HIDE DEF task, limits
<1>5.
  kid = [status |-> IF found THEN "open" ELSE "failed", loop |-> found,
         tools |-> DelAllowed(task, limits), turns |-> limits.turns,
         timeout |-> limits.timeout, wrote |-> FALSE]
  BY <1>4
<1>6.
  /\ kid.status = (IF found THEN "open" ELSE "failed") /\ kid.wrote = FALSE
  /\ kid.tools = DelAllowed(task, limits) /\ kid.turns = limits.turns
  /\ kid.timeout = limits.timeout
  BY <1>5
<1>7. kid \in DelKid
 <2> HIDE DEF kid
 <2> QED BY <1>2, <1>3, <1>5 DEF DelKid, DelStatuses
<1>8.
  LET given == DelChild(c, request, i, TRUE)
  IN  /\ given.tools = DelAllowed(task, limits) /\ given.turns = limits.turns
      /\ given.timeout = limits.timeout
  BY DEF DelChild, task, limits
<1> HIDE DEF kid
<1>9. DelKidFits(c, request, i, kid) BY <1>6, <1>8 DEF DelKidFits
<1> QED BY <1>6, <1>7, <1>9 DEF kid

\* Whatever a request asks for, a child that fits it stays within the limits.
LEMMA DelChildWithin ==
  ASSUME NEW c \in DelNames, NEW request \in DelRequests(c), request.shape # "both",
    NEW i \in DOMAIN DelTasks(request), NEW kid \in DelKid,
    DelKidFits(c, request, i, kid)
  PROVE
    LET sub == IF request.shape = "single" THEN request ELSE request.subs[i]
    IN  /\ kid.turns \in 1 .. (IF c = "outer" THEN 8 ELSE 3)
        /\ (DelWriting \cap kid.tools # {} =>
              /\ c = "outer"
              /\ <<TRUE>> \in {sub.write, request.write} /\ sub.write # <<FALSE>>)
        /\ (c = "inner" => /\ "Agent" \notin kid.tools
                           /\ kid.timeout # <<>> /\ kid.timeout[1] <= 15)
        /\ (sub.tools # <<>> => kid.tools \subseteq sub.tools[1])
<1> DEFINE task == DelTasks(request)[i]
  limits == DelLimits(DelDepth[c], task)
  sub == IF request.shape = "single" THEN request ELSE request.subs[i]
<1>1. request \in DelRequest BY DelRequestTyped
<1>2. task \in DelPart BY <1>1, DelTasksTyped, Indices
<1>3.
  /\ limits.turns \in 1 .. (IF c = "outer" THEN 8 ELSE 3)
  /\ (limits.write => c = "outer" /\ task.write = <<TRUE>>)
  /\ (c = "inner" => ~ limits.agent /\ limits.timeout # <<>> /\ limits.timeout[1] <= 15)
  BY <1>2, DelLimitsTyped
<1>4.
  /\ kid.tools = DelAllowed(task, limits) /\ kid.turns = limits.turns
  /\ kid.timeout = limits.timeout
  BY DEF DelKidFits, DelChild
<1>5.
  /\ (sub.tools # <<>> => task.tools = sub.tools)
  /\ (task.write = <<TRUE>> =>
        <<TRUE>> \in {sub.write, request.write} /\ sub.write # <<FALSE>>)
 <2>1. CASE request.shape = "single"
  <3>1. task = [tools |-> request.tools, turns |-> request.turns,
                timeout |-> request.timeout, write |-> request.write]
   <4>1. Len(DelTasks(request)) = 1 BY <1>1, <2>1, DelTasksTyped
   <4>2. i = 1 BY <1>1, <4>1, DelTasksTyped, Indices
   <4> QED BY <2>1, <4>2 DEF DelTasks
  <3>2. task.tools = request.tools /\ task.write = request.write BY <3>1
  <3>3. <<TRUE>> # <<FALSE>> OBVIOUS
  <3> HIDE DEF task
  <3> QED BY <2>1, <3>2, <3>3
 <2>2. CASE request.shape = "batch"
  <3>1. i \in DOMAIN request.subs BY <2>2 DEF DelTasks
  <3>2. task = DelTask(request, request.subs[i]) BY <2>2, <3>1 DEF DelTasks
  <3>3. /\ task.tools = DelOr(request.subs[i].tools, request.tools)
        /\ task.write = DelOr(request.subs[i].write, request.write)
    BY <3>2 DEF DelTask
  <3>4. <<TRUE>> # <<FALSE>> /\ <<>> # <<FALSE>> OBVIOUS
  <3>5. sub = request.subs[i] BY <2>2
  <3> HIDE DEF task, sub
  <3>6. CASE request.subs[i].write = <<>> BY <3>3, <3>4, <3>5, <3>6 DEF DelOr
  <3>7. CASE request.subs[i].write # <<>> BY <3>3, <3>4, <3>5, <3>7 DEF DelOr
  <3> QED BY <3>6, <3>7
 <2>3. CASE request.shape = "pipeline"
  <3>1. i \in DOMAIN request.subs BY <2>3 DEF DelTasks
  <3>2. task = DelStage(request, request.subs[i]) BY <2>3, <3>1 DEF DelTasks
  <3>3. /\ task.tools = DelOr(request.subs[i].tools, request.tools)
        /\ task.write = request.write
    BY <3>2 DEF DelStage
  <3>4. <<>> # <<FALSE>> OBVIOUS
  <3>5. request.subs[i].write = <<>> BY <2>3, <3>1, DelRequestTyped
  <3>6. sub = request.subs[i] BY <2>3
  <3> HIDE DEF task, sub
  <3> QED BY <3>3, <3>4, <3>5, <3>6 DEF DelOr
 <2> QED BY <1>1, <2>1, <2>2, <2>3 DEF DelRequest
<1> HIDE DEF task, limits, sub
<1>6. DelWriting \cap kid.tools # {} => limits.write BY <1>4 DEF DelAllowed
<1>7. ~ limits.agent => "Agent" \notin kid.tools BY <1>4 DEF DelAllowed
<1>8. task.tools # <<>> => kid.tools \subseteq task.tools[1] BY <1>4 DEF DelAllowed
<1>9. sub.tools # <<>> => kid.tools \subseteq sub.tools[1] BY <1>5, <1>8
<1>10. c = "inner" => "Agent" \notin kid.tools /\ kid.timeout # <<>> /\ kid.timeout[1] <= 15
  BY <1>3, <1>4, <1>7
<1>11. kid.turns \in 1 .. (IF c = "outer" THEN 8 ELSE 3) BY <1>3, <1>4
<1>12.
  DelWriting \cap kid.tools # {} =>
    /\ c = "outer" /\ <<TRUE>> \in {sub.write, request.write} /\ sub.write # <<FALSE>>
  BY <1>3, <1>5, <1>6
<1> QED BY <1>9, <1>10, <1>11, <1>12 DEF sub
\* Children counted by their status.
LEMMA DelCounted ==
  ASSUME NEW kids \in Seq(DelKid), NEW statuses
  PROVE
    /\ DelCount(kids, statuses) \in Nat /\ DelCount(kids, statuses) <= Len(kids)
    /\ (DelCount(kids, statuses) = Len(kids) <=>
          \A i \in DOMAIN kids : kids[i].status \in statuses)
    /\ (DelCount(kids, statuses) = 0 <=>
          \A i \in DOMAIN kids : kids[i].status \notin statuses)
<1> DEFINE n == Len(kids)
  T == {i \in DOMAIN kids : kids[i].status \in statuses}
<1>1. n \in Nat /\ DOMAIN kids = 1 .. n BY Indices
<1>2. IsFiniteSet(1 .. n) /\ Cardinality(1 .. n) = n
 <2>1. n \in Nat BY <1>1
 <2>2. \A m \in Nat : IsFiniteSet(1 .. m) /\ Cardinality(1 .. m) = m BY ONLY FS_Interval
 <2> HIDE DEF n
 <2> QED BY ONLY <2>1, <2>2
<1>3. T \subseteq 1 .. n BY <1>1
<1> HIDE DEF T, n
<1>4.
  /\ IsFiniteSet(T) /\ Cardinality(T) <= n
  /\ (Cardinality(T) = n => T = 1 .. n)
  BY ONLY <1>2, <1>3, FS_Subset
<1>5. Cardinality(T) \in Nat /\ (Cardinality(T) = 0 <=> T = {})
  BY <1>4, FS_CardinalityType, FS_EmptySet
<1>6. (T = 1 .. n <=> \A i \in DOMAIN kids : kids[i].status \in statuses) BY <1>1 DEF T
<1>7. (T = {} <=> \A i \in DOMAIN kids : kids[i].status \notin statuses) BY <1>1 DEF T
<1>8. DelCount(kids, statuses) = Cardinality(T) BY DEF DelCount, T
<1>9. Cardinality(1 .. n) = n BY ONLY <1>2
<1> QED BY ONLY <1>4, <1>5, <1>6, <1>7, <1>8, <1>9 DEF n

LEMMA DelCountsAdd ==
  ASSUME NEW kids \in Seq(DelKid), NEW S, NEW T, S \cap T = {},
    \A i \in DOMAIN kids : kids[i].status \in S \cup T
  PROVE DelCount(kids, S) + DelCount(kids, T) = Len(kids)
<1> DEFINE A == {i \in DOMAIN kids : kids[i].status \in S}
  B == {i \in DOMAIN kids : kids[i].status \in T}
  n == Len(kids)
<1>1. n \in Nat /\ DOMAIN kids = 1 .. n BY Indices
<1>2. IsFiniteSet(1 .. n) /\ Cardinality(1 .. n) = n BY <1>1, FS_Interval
<1>3. A \subseteq 1 .. n /\ B \subseteq 1 .. n /\ A \cup B = 1 .. n /\ A \cap B = {} BY <1>1
<1> HIDE DEF A, B
<1>4. IsFiniteSet(A) /\ IsFiniteSet(B) BY <1>2, <1>3, FS_Subset
<1>5. Cardinality(A \cup B) = Cardinality(A) + Cardinality(B) - Cardinality(A \cap B)
  BY <1>4, FS_Union
<1>6. Cardinality(A \cap B) = 0 /\ Cardinality(A) \in Nat /\ Cardinality(B) \in Nat
  BY <1>3, <1>4, FS_EmptySet, FS_CardinalityType
<1>7. DelCount(kids, S) = Cardinality(A) /\ DelCount(kids, T) = Cardinality(B)
  BY DEF DelCount, A, B
<1>8. Cardinality(A \cup B) = n BY <1>2, <1>3
<1> HIDE DEF n
<1> QED BY <1>1, <1>5, <1>6, <1>7, <1>8 DEF n

\* A coordinator reports completion exactly when all of its children completed.
LEMMA DelReasonDone ==
  ASSUME NEW kids \in Seq(DelKid)
  PROVE
    /\ DelReason(kids) \in {"completed", "aborted", "error"}
    /\ (DelReason(kids) = "completed" <=>
          \A i \in DOMAIN kids : kids[i].status = "completed")
<1> DEFINE bad == {i \in DOMAIN kids : kids[i].status # "completed"}
  last == CHOOSE i \in bad : \A j \in bad : j <= i
<1>1.
  DelReason(kids) = IF bad = {} THEN "completed"
                    ELSE IF kids[last].status = "aborted" THEN "aborted" ELSE "error"
  BY DEF DelReason
<1>2. (bad = {} <=> \A i \in DOMAIN kids : kids[i].status = "completed") OBVIOUS
<1> HIDE DEF bad, last
<1> QED BY <1>1, <1>2

\* What a call of children that are not open any more reports.
LEMMA DelResultTrue ==
  ASSUME NEW c \in DelNames, NEW request, NEW kids \in Seq(DelKid),
    DelKidsFit(c, request, kids), \A i \in DOMAIN kids : kids[i].status # "open"
  PROVE
    LET outcome == DelResult(request, kids)
        done == /\ Len(kids) = Len(DelTasks(request))
                /\ \A i \in DOMAIN kids : kids[i].status = "completed"
    IN  /\ outcome.reason \in DelStatuses \cup {"error"} /\ outcome.partial \in BOOLEAN
        /\ outcome.counts \in Seq(Nat)
        /\ (outcome.reason = "completed" <=> done)
        /\ (done => ~ outcome.partial)
        /\ (request.shape = "batch" => outcome.counts[1] + outcome.counts[2] = Len(kids))
<1> DEFINE cut == {"failed", "timeout", "aborted"}
  good == DelCount(kids, {"completed"})
  bad == DelCount(kids, cut)
  n == Len(kids)
  m == Len(DelTasks(request))
  all == \A i \in DOMAIN kids : kids[i].status = "completed"
  outcome == DelResult(request, kids)
<1>1.
  /\ request \in DelRequest /\ request.shape # "both"
  /\ n \in Nat /\ n >= 1 /\ n <= m /\ (request.shape # "pipeline" => n = m)
  BY DelRequestTyped, LenProperties DEF DelKidsFit
<1>2. DOMAIN kids = 1 .. n /\ \A i \in 1 .. n : kids[i] \in DelKid BY Indices
<1>3. good \in Nat /\ good <= n /\ (good = n <=> all) BY DelCounted
<1>4. bad \in Nat BY DelCounted
<1>5. good + bad = n
 <2>1. \A i \in DOMAIN kids : kids[i].status \in {"completed"} \cup cut
   BY <1>2 DEF DelKid, DelStatuses
 <2>2. {"completed"} \cap cut = {} OBVIOUS
 <2> HIDE DEF cut
 <2> QED BY <2>1, <2>2, DelCountsAdd
<1>6. m = IF request.shape \in {"batch", "pipeline"} THEN Len(request.subs) ELSE 1
  BY <1>1, DelTasksTyped
<1> HIDE DEF cut, good, bad, n, m, all
<1>7. CASE request.shape = "batch"
 <2>1.
   outcome = [reason |-> DelReason(kids), partial |-> DelReason(kids) # "completed",
             counts |-> <<good, bad>>]
   BY <1>7 DEF DelResult, good, bad, cut
 <2>2.
   /\ outcome.reason = DelReason(kids) /\ outcome.counts = <<good, bad>>
   /\ outcome.partial = (DelReason(kids) # "completed")
   BY <2>1
 <2>3. DelReason(kids) \in DelStatuses \cup {"error"} /\ (DelReason(kids) = "completed" <=> all)
   BY DelReasonDone DEF all, DelStatuses
 <2>4. /\ <<good, bad>> \in Seq(Nat) /\ <<good, bad>>[1] = good /\ <<good, bad>>[2] = bad
   BY <1>3, <1>4
 <2> HIDE DEF outcome
 <2> QED BY <1>1, <1>5, <1>7, <2>2, <2>3, <2>4 DEF n, m, all, outcome
<1>8. CASE request.shape = "pipeline"
 <2>1.
   outcome = [reason |-> IF good = Len(request.subs) THEN "completed" ELSE "error",
             partial |-> bad > 0 /\ good > 0, counts |-> <<good, bad>>]
   BY <1>8 DEF DelResult, DelPipelineResult, good, bad, cut
 <2>2.
   /\ outcome.reason = (IF good = m THEN "completed" ELSE "error")
   /\ outcome.counts = <<good, bad>> /\ outcome.partial = (bad > 0 /\ good > 0)
   BY <1>6, <1>8, <2>1
 <2>3. <<good, bad>> \in Seq(Nat) BY <1>3, <1>4
 <2>4. (good = m <=> n = m /\ all) /\ (n = m /\ all => ~ (bad > 0 /\ good > 0))
   BY <1>1, <1>3, <1>4, <1>5
 <2> HIDE DEF outcome
 <2> QED BY <1>8, <2>2, <2>3, <2>4 DEF n, m, all, outcome, DelStatuses
<1>9. CASE request.shape = "single"
 <2>1. outcome = [reason |-> kids[1].status, partial |-> FALSE, counts |-> <<0, 0>>]
   BY <1>9 DEF DelResult
 <2>2. n = 1 /\ m = 1 BY <1>1, <1>6, <1>9
 <2>3. (all <=> kids[1].status = "completed") /\ kids[1].status \in DelStatuses
   BY <1>2, <2>2 DEF all, DelKid
 <2>4.
   /\ outcome.reason = kids[1].status /\ outcome.partial = FALSE
   /\ outcome.counts = <<0, 0>> /\ <<0, 0>> \in Seq(Nat)
   BY <2>1
 <2> HIDE DEF outcome
 <2> QED BY <1>9, <2>2, <2>3, <2>4 DEF n, m, all, outcome
<1> QED BY <1>1, <1>7, <1>8, <1>9 DEF DelRequest
--------------------
(* What one call writes *)

DelIsWhole(line) == line.kind \in {"single", "coordinator"}
DelIsTop(line) == line.kind = "evidence" /\ line.kid = 0
DelIsChild(line, k) == line.kind = "child" /\ line.kid = k

\* Where the record of a child stands among the lines of all.
DelPlace(i, evidence) == IF evidence THEN 2 * i - 1 ELSE i

LEMMA DelChildLine ==
  ASSUME NEW c \in DelNames, NEW kids \in Seq(DelKid), NEW i \in DOMAIN kids
  PROVE
    /\ DelChildRecord(c, kids, i) \in DelLine /\ DelChildRecord(c, kids, i).call = c
    /\ DelChildRecord(c, kids, i).kind = "child" /\ DelChildRecord(c, kids, i).kid = i
    /\ DelChildRecord(c, kids, i).success = (kids[i].status = "completed")
    /\ (DelChildRecord(c, kids, i).status = "aborted" <=> kids[i].status = "aborted")
    /\ DelChildEvidence(c, kids, i) \in DelLine /\ DelChildEvidence(c, kids, i).call = c
    /\ DelChildEvidence(c, kids, i).kind = "evidence"
    /\ DelChildEvidence(c, kids, i).kid = i /\ i # 0
<1> DEFINE success == kids[i].status = "completed"
  said == DelRecordStatus(kids[i].status)
<1>1. i \in Nat /\ i # 0 /\ kids[i].status \in DelStatuses
 <2>1. Len(kids) \in Nat /\ i \in 1 .. Len(kids) /\ kids[i] \in DelKid BY Indices
 <2>2. kids[i].status \in DelStatuses BY <2>1 DEF DelKid
 <2> QED BY <2>1, <2>2
<1>2.
  /\ said \in DelStatuses \cup {"error"}
  /\ (said = "aborted" <=> kids[i].status = "aborted")
  BY <1>1 DEF DelRecordStatus, DelStatuses
<1>3. success \in BOOLEAN /\ <<>> \in Seq(Nat) BY EmptySeq
<1>4. kids[i].status \in DelStatuses \cup {"error"} BY <1>1
<1> HIDE DEF success, said
<1>5.
  LET line == DelRecord(c, "child", i, said, success, <<>>)
  IN  /\ line \in DelLine /\ line.call = c /\ line.kind = "child" /\ line.kid = i
      /\ line.status = said /\ line.success = success
  BY <1>1, <1>2, <1>3 DEF DelRecord, DelLine
<1>6.
  LET line == DelRecord(c, "evidence", i, kids[i].status, success, <<>>)
  IN  line \in DelLine /\ line.call = c /\ line.kind = "evidence" /\ line.kid = i
  BY <1>1, <1>3, <1>4 DEF DelRecord, DelLine
<1>7.
  /\ DelChildRecord(c, kids, i) = DelRecord(c, "child", i, said, success, <<>>)
  /\ DelChildEvidence(c, kids, i) = DelRecord(c, "evidence", i, kids[i].status, success, <<>>)
  BY DEF DelChildRecord, DelChildEvidence, DelEvidence, said, success
<1>8. success = (kids[i].status = "completed") BY DEF success
<1> QED BY <1>1, <1>2, <1>5, <1>6, <1>7, <1>8

LEMMA DelHalf ==
  ASSUME NEW n \in Nat, n >= 1
  PROVE
    LET i == (n + 1) \div 2
    IN  i \in Nat /\ i >= 1 /\ (n = 2 * i \/ n = 2 * i - 1)
OBVIOUS

LEMMA DelOddHalf ==
  ASSUME NEW i \in Nat
  PROVE (2 * i - 1 + 1) \div 2 = i
OBVIOUS

\* The lines of the children, in their places.
LEMMA DelChildLines ==
  ASSUME NEW c \in DelNames, NEW kids \in Seq(DelKid), NEW evidence \in BOOLEAN
  PROVE
    LET lines == DelChildRecords(c, kids, evidence)
    IN  /\ lines \in Seq(DelLine)
        /\ \A n \in DOMAIN lines : \E i \in DOMAIN kids :
             \/ n = DelPlace(i, evidence) /\ lines[n] = DelChildRecord(c, kids, i)
             \/ lines[n] = DelChildEvidence(c, kids, i)
        /\ \A i \in DOMAIN kids :
             /\ DelPlace(i, evidence) \in DOMAIN lines
             /\ lines[DelPlace(i, evidence)] = DelChildRecord(c, kids, i)
<1> DEFINE lines == DelChildRecords(c, kids, evidence)
  m == Len(kids)
  Half(n) == (n + 1) \div 2
  Line(n) == IF n = 2 * Half(n) THEN DelChildEvidence(c, kids, Half(n))
             ELSE DelChildRecord(c, kids, Half(n))
<1>1. m \in Nat /\ DOMAIN kids = 1 .. m BY Indices
<1>2.
  \A i \in 1 .. m : /\ DelChildRecord(c, kids, i) \in DelLine
                    /\ DelChildEvidence(c, kids, i) \in DelLine
  BY <1>1, DelChildLine
<1>3. CASE evidence
 <2>1. lines = [n \in 1 .. 2 * m |-> Line(n)] BY <1>3 DEF DelChildRecords
 <2>2. \A n \in 1 .. 2 * m : Half(n) \in 1 .. m /\ (n = 2 * Half(n) \/ n = 2 * Half(n) - 1)
  <3>1. SUFFICES ASSUME NEW n \in 1 .. 2 * m
    PROVE Half(n) \in 1 .. m /\ (n = 2 * Half(n) \/ n = 2 * Half(n) - 1)
    OBVIOUS
  <3>2. n \in Nat /\ n >= 1 /\ n <= 2 * m BY <1>1
  <3>3. Half(n) \in Nat /\ Half(n) >= 1 /\ (n = 2 * Half(n) \/ n = 2 * Half(n) - 1)
    BY <3>2, DelHalf
  <3> HIDE DEF Half, m
  <3> QED BY <1>1, <3>2, <3>3
 <2>3. \A i \in 1 .. m : 2 * i - 1 \in 1 .. 2 * m /\ Half(2 * i - 1) = i /\ 2 * i - 1 # 2 * i
   BY <1>1, DelOddHalf
 <2> HIDE DEF Half, m
 <2>4. \A n \in 1 .. 2 * m : Line(n) \in DelLine BY <1>2, <2>2
 <2>5. [n \in 1 .. 2 * m |-> Line(n)] \in [1 .. 2 * m -> DelLine] BY <2>4
 <2>6. 2 * m \in Nat BY <1>1
 <2> HIDE DEF Line
 <2>7. lines \in Seq(DelLine) /\ DOMAIN lines = 1 .. 2 * m BY <2>1, <2>5, <2>6, FromFunction
 <2>8.
   \A n \in DOMAIN lines : \E i \in DOMAIN kids :
     \/ n = DelPlace(i, evidence) /\ lines[n] = DelChildRecord(c, kids, i)
     \/ lines[n] = DelChildEvidence(c, kids, i)
  <3>1. SUFFICES ASSUME NEW n \in 1 .. 2 * m
    PROVE
      \E i \in DOMAIN kids :
        \/ n = DelPlace(i, evidence) /\ lines[n] = DelChildRecord(c, kids, i)
        \/ lines[n] = DelChildEvidence(c, kids, i)
    BY <2>7
  <3>2. lines[n] = Line(n) BY <2>1
  <3> QED BY <1>1, <1>3, <2>2, <3>2 DEF Line, DelPlace
 <2>9.
   \A i \in DOMAIN kids : /\ DelPlace(i, evidence) \in DOMAIN lines
                          /\ lines[DelPlace(i, evidence)] = DelChildRecord(c, kids, i)
   BY <1>1, <1>3, <2>1, <2>3, <2>7 DEF Line, DelPlace
 <2> QED BY <2>7, <2>8, <2>9
<1>4. CASE ~ evidence
 <2>1. lines = [i \in 1 .. m |-> DelChildRecord(c, kids, i)] BY <1>1, <1>4 DEF DelChildRecords
 <2>2. lines \in Seq(DelLine) /\ DOMAIN lines = 1 .. m
  <3>1. [i \in 1 .. m |-> DelChildRecord(c, kids, i)] \in [1 .. m -> DelLine] BY <1>2
  <3> QED BY <1>1, <2>1, <3>1, FromFunction
 <2> HIDE DEF m, lines
 <2> QED BY <1>1, <1>4, <2>1, <2>2 DEF DelPlace, lines
<1> QED BY <1>3, <1>4
\* What is true of every line of a call, and when two lines would be about the same thing.
DelLineFits(c, kids, done, line) ==
  /\ line.call = c
  /\ (DelIsWhole(line) \/ DelIsTop(line) => line.success = done)
  /\ (line.kind = "coordinator" => line.counts[1] + line.counts[2] = Len(kids))
  /\ (line.kind = "child" =>
        /\ line.kid \in DOMAIN kids /\ line.success = (kids[line.kid].status = "completed")
        /\ (line.status = "aborted" <=> kids[line.kid].status = "aborted"))

DelSame(a, b) ==
  \/ DelIsWhole(a) /\ DelIsWhole(b)
  \/ DelIsTop(a) /\ DelIsTop(b)
  \/ a.kind = "child" /\ b.kind = "child" /\ a.kid = b.kid

LEMMA DelJoined ==
  ASSUME NEW C \in Seq(DelLine), NEW W \in Seq(DelLine), NEW T \in Seq(DelLine),
    Len(W) <= 1, Len(T) <= 1,
    \A n \in DOMAIN C : /\ ~ DelIsWhole(C[n]) /\ ~ DelIsTop(C[n])
                        /\ \A m \in DOMAIN C : DelSame(C[n], C[m]) => n = m,
    \A n \in DOMAIN W : DelIsWhole(W[n]), \A n \in DOMAIN T : DelIsTop(T[n])
  PROVE
    LET all == C \o W \o T
    IN  /\ all \in Seq(DelLine)
        /\ \A n \in DOMAIN all : \/ \E m \in DOMAIN C : all[n] = C[m]
                                 \/ \E m \in DOMAIN W : all[n] = W[m]
                                 \/ \E m \in DOMAIN T : all[n] = T[m]
        /\ \A n \in DOMAIN all, m \in DOMAIN all : DelSame(all[n], all[m]) => n = m
        /\ \A n \in DOMAIN C : \E m \in DOMAIN all : all[m] = C[n]
        /\ \A n \in DOMAIN W : \E m \in DOMAIN all : all[m] = W[n]
<1> DEFINE a == Len(C)
  b == Len(W)
  d == Len(T)
  all == C \o W \o T
<1>1.
  /\ a \in Nat /\ b \in Nat /\ d \in Nat /\ b <= 1 /\ d <= 1
  /\ DOMAIN C = 1 .. a /\ DOMAIN W = 1 .. b /\ DOMAIN T = 1 .. d
  BY Indices
<1>2.
  LET r == C \o W
  IN  /\ r \in Seq(DelLine) /\ Len(r) = a + b
      /\ \A i \in 1 .. Len(r) : r[i] = IF i <= a THEN C[i] ELSE W[i - a]
  BY ConcatDisjoint
<1>3.
  /\ all \in Seq(DelLine) /\ Len(all) = Len(C \o W) + d
  /\ \A i \in 1 .. Len(all) : all[i] = IF i <= Len(C \o W) THEN (C \o W)[i]
                                       ELSE T[i - Len(C \o W)]
  BY <1>2, ConcatDisjoint
<1> HIDE DEF a, b, d, all
<1>4. DOMAIN all = 1 .. (a + b + d) BY <1>1, <1>2, <1>3, Indices
<1>5.
  \A i \in 1 .. (a + b + d) :
    all[i] = IF i <= a THEN C[i] ELSE IF i <= a + b THEN W[i - a] ELSE T[i - (a + b)]
  BY <1>1, <1>2, <1>3
<1>6. \A i \in 1 .. a : i \in 1 .. (a + b + d) /\ all[i] = C[i] BY <1>1, <1>5
<1>7. \A i \in 1 .. b : a + i \in 1 .. (a + b + d) /\ all[a + i] = W[i] BY <1>1, <1>5
<1>8. ASSUME NEW i \in 1 .. (a + b + d)
  PROVE
    \/ i \in 1 .. a /\ all[i] = C[i]
    \/ i = a + 1 /\ 1 \in 1 .. b /\ all[i] = W[1]
    \/ i = a + b + 1 /\ 1 \in 1 .. d /\ all[i] = T[1]
 <2>1. CASE i <= a BY <1>1, <1>5, <2>1
 <2>2. CASE i > a /\ i <= a + b
  <3>1. i - a = 1 /\ b = 1 BY <1>1, <2>2
  <3> QED BY <1>1, <1>5, <2>2, <3>1
 <2>3. CASE i > a + b
  <3>1. i - (a + b) = 1 /\ d = 1 /\ ~ i <= a BY <1>1, <2>3
  <3>2. all[i] = T[i - (a + b)] BY <1>1, <1>5, <2>3, <3>1
  <3> QED BY <1>1, <3>1, <3>2
 <2> QED BY <1>1, <2>1, <2>2, <2>3
<1>9. ASSUME NEW n \in DOMAIN all, NEW m \in DOMAIN all, DelSame(all[n], all[m])
  PROVE n = m
 <2>1. \A line \in {C[i] : i \in 1 .. a} : ~ DelIsWhole(line) /\ ~ DelIsTop(line) BY <1>1
 <2>2. \A i \in 1 .. b : DelIsWhole(W[i]) /\ ~ DelIsTop(W[i]) /\ W[i].kind # "child"
   BY <1>1 DEF DelIsWhole, DelIsTop
 <2>3. \A i \in 1 .. d : DelIsTop(T[i]) /\ ~ DelIsWhole(T[i]) /\ T[i].kind # "child"
   BY <1>1 DEF DelIsWhole, DelIsTop
 <2>4. CASE n \in 1 .. a /\ all[n] = C[n]
   BY <1>1, <1>4, <1>8, <1>9, <2>1, <2>2, <2>3, <2>4 DEF DelSame
 <2>5. CASE n = a + 1 /\ 1 \in 1 .. b /\ all[n] = W[1]
   BY <1>1, <1>4, <1>8, <1>9, <2>1, <2>2, <2>3, <2>5 DEF DelSame
 <2>6. CASE n = a + b + 1 /\ 1 \in 1 .. d /\ all[n] = T[1]
   BY <1>1, <1>4, <1>8, <1>9, <2>1, <2>2, <2>3, <2>6 DEF DelSame
 <2> QED BY <1>4, <1>8, <2>4, <2>5, <2>6
<1>10.
  \A n \in DOMAIN all : \/ \E m \in DOMAIN C : all[n] = C[m]
                        \/ \E m \in DOMAIN W : all[n] = W[m]
                        \/ \E m \in DOMAIN T : all[n] = T[m]
  BY <1>1, <1>4, <1>8
<1> QED BY <1>1, <1>3, <1>4, <1>6, <1>7, <1>9, <1>10 DEF all
\* Everything a call writes: one line for each child of a batch and one for the whole,
\* unless nobody asked for it, and they tell the truth.
DelWritten(c, kids, done, all) ==
  /\ all \in Seq(DelLine)
  /\ \A n \in DOMAIN all : DelLineFits(c, kids, done, all[n])
  /\ \A n \in DOMAIN all, m \in DOMAIN all : DelSame(all[n], all[m]) => n = m

DelComplete(request, kids, all) ==
  /\ ((\E n \in DOMAIN all : DelIsWhole(all[n])) <=>
        ~ (request.shape = "batch" /\ kids # <<>> /\ request.debug = <<FALSE>>))
  /\ (request.shape = "batch" =>
        \A k \in DOMAIN kids : \E n \in DOMAIN all : DelIsChild(all[n], k))

LEMMA DelPersistedFits ==
  ASSUME delRoot \in DelRoots, NEW c \in DelNames, NEW request \in DelRequest,
    NEW kids \in Seq(DelKid), NEW outcome, NEW done \in BOOLEAN, NEW evidence \in BOOLEAN,
    outcome.reason \in DelStatuses \cup {"error"}, outcome.partial \in BOOLEAN,
    outcome.counts \in Seq(Nat), outcome.reason = "completed" <=> done,
    done => ~ outcome.partial,
    request.shape = "batch" /\ kids # <<>> =>
      outcome.counts[1] + outcome.counts[2] = Len(kids)
  PROVE
    LET all == DelPersisted(c, request, kids, outcome, evidence)
    IN  /\ DelWritten(c, kids, done, all)
        /\ (delRoot.saver => DelComplete(request, kids, all))
<1> DEFINE batch == request.shape = "batch"
  C == IF batch THEN DelChildRecords(c, kids, evidence) ELSE <<>>
  W == DelTopRecords(c, request, kids, outcome)
  topLine == DelEvidence(c, 0, outcome.reason,
                         outcome.reason = "completed" /\ ~ outcome.partial, outcome.counts)
  T == IF evidence THEN <<topLine>> ELSE <<>>
  all == DelPersisted(c, request, kids, outcome, evidence)
  quiet == batch /\ kids # <<>> /\ request.debug = <<FALSE>>
<1>1. delRoot.saver \in BOOLEAN BY DelAssumption
<1>2. all = IF delRoot.saver THEN C \o W \o T ELSE T BY DEF DelPersisted
<1>3.
  /\ C \in Seq(DelLine)
  /\ \A n \in DOMAIN C : \E i \in DOMAIN kids :
       \/ n = DelPlace(i, evidence) /\ C[n] = DelChildRecord(c, kids, i)
       \/ C[n] = DelChildEvidence(c, kids, i)
  /\ (batch => \A i \in DOMAIN kids : /\ DelPlace(i, evidence) \in DOMAIN C
                                     /\ C[DelPlace(i, evidence)] = DelChildRecord(c, kids, i))
 <2>1. CASE batch
  <3>1. C = DelChildRecords(c, kids, evidence) BY <2>1
  <3> HIDE DEF C
  <3> QED BY <3>1, DelChildLines
 <2>2. CASE ~ batch
  <3>1. C = <<>> /\ <<>> \in Seq(DelLine) BY <2>2, EmptySeq
  <3>2. DOMAIN C = {} BY <3>1
  <3> HIDE DEF C
  <3> QED BY <2>2, <3>1, <3>2
 <2> QED BY <2>1, <2>2
<1>4.
  \A n \in DOMAIN C : /\ DelLineFits(c, kids, done, C[n])
                      /\ ~ DelIsWhole(C[n]) /\ ~ DelIsTop(C[n])
                      /\ \A m \in DOMAIN C : DelSame(C[n], C[m]) => n = m
 <2> HIDE DEF C
 <2>1.
   \A n \in DOMAIN C :
     /\ DelLineFits(c, kids, done, C[n]) /\ ~ DelIsWhole(C[n]) /\ ~ DelIsTop(C[n])
     /\ (C[n].kind = "child" => n = DelPlace(C[n].kid, evidence))
  <3>1. SUFFICES ASSUME NEW n \in DOMAIN C
    PROVE
      /\ DelLineFits(c, kids, done, C[n])
      /\ ~ DelIsWhole(C[n]) /\ ~ DelIsTop(C[n])
      /\ (C[n].kind = "child" => n = DelPlace(C[n].kid, evidence))
    OBVIOUS
  <3>2.
    PICK i \in DOMAIN kids :
      \/ n = DelPlace(i, evidence) /\ C[n] = DelChildRecord(c, kids, i)
      \/ C[n] = DelChildEvidence(c, kids, i)
    BY <1>3
  <3>3. CASE n = DelPlace(i, evidence) /\ C[n] = DelChildRecord(c, kids, i)
    BY <3>3, DelChildLine DEF DelLineFits, DelIsWhole, DelIsTop
  <3>4. CASE C[n] = DelChildEvidence(c, kids, i)
    BY <3>4, DelChildLine DEF DelLineFits, DelIsWhole, DelIsTop
  <3> QED BY <3>2, <3>3, <3>4
 <2> QED BY <2>1 DEF DelSame
<1>5.
  /\ T \in Seq(DelLine) /\ Len(T) <= 1
  /\ \A n \in DOMAIN T : DelIsTop(T[n]) /\ DelLineFits(c, kids, done, T[n])
 <2>1. (outcome.reason = "completed" /\ ~ outcome.partial) = done OBVIOUS
 <2>2. topLine = DelRecord(c, "evidence", 0, outcome.reason, done, outcome.counts)
   BY <2>1 DEF DelEvidence
 <2>3.
   /\ topLine \in DelLine /\ topLine.call = c /\ topLine.kind = "evidence"
   /\ topLine.kid = 0 /\ topLine.success = done
   BY <2>2 DEF DelRecord, DelLine
 <2> HIDE DEF topLine
 <2>4. DelIsTop(topLine) /\ DelLineFits(c, kids, done, topLine)
   BY <2>3 DEF DelIsTop, DelLineFits, DelIsWhole
 <2>5. CASE evidence
  <3>1. T = <<topLine>> BY <2>5
  <3> HIDE DEF T
  <3> QED BY <2>3, <2>4, <3>1
 <2>6. CASE ~ evidence
  <3>1. T = <<>> /\ <<>> \in Seq(DelLine) BY <2>6, EmptySeq
  <3> HIDE DEF T
  <3> QED BY <3>1
 <2> QED BY <2>5, <2>6
<1>6.
  /\ W \in Seq(DelLine) /\ Len(W) <= 1
  /\ \A n \in DOMAIN W : DelIsWhole(W[n]) /\ DelLineFits(c, kids, done, W[n])
  /\ (delRoot.saver => (W = <<>> <=> quiet))
 <2> DEFINE said == DelRecordStatus(outcome.reason)
   coordinator == DelRecord(c, "coordinator", 0, said, done, outcome.counts)
   single == DelRecord(c, "single", 0, said, done, <<>>)
   debug == DelDebug(request) = <<FALSE>>
 <2>1. said \in DelStatuses \cup {"error"} BY DEF DelRecordStatus, DelStatuses
 <2>2. <<>> \in Seq(Nat) BY EmptySeq
 <2>3. (outcome.reason = "completed" /\ ~ outcome.partial) = done /\ (outcome.reason = "completed") = done
   OBVIOUS
 <2>4.
   W = IF batch /\ kids # <<>> THEN IF debug THEN <<>> ELSE <<coordinator>>
       ELSE <<single>>
   BY <2>3 DEF DelTopRecords
 <2>5. delRoot.saver => (debug <=> request.debug = <<FALSE>>)
  <3>1. SUFFICES ASSUME delRoot.saver PROVE debug <=> request.debug = <<FALSE>> OBVIOUS
  <3>2. delRoot.saver = TRUE BY <1>1, <3>1
  <3>3. <<TRUE>> # <<FALSE>> /\ <<>> # <<FALSE>> OBVIOUS
  <3> QED BY <3>2, <3>3 DEF DelDebug, DelOr
 <2> HIDE DEF said
 <2>6.
   /\ coordinator \in DelLine /\ coordinator.call = c /\ coordinator.kind = "coordinator"
   /\ coordinator.success = done /\ coordinator.counts = outcome.counts
   BY <2>1 DEF DelRecord, DelLine
 <2>7.
   /\ single \in DelLine /\ single.call = c /\ single.kind = "single"
   /\ single.success = done
   BY <2>1, <2>2 DEF DelRecord, DelLine
 <2> HIDE DEF coordinator, single, debug, W
 <2>8. CASE batch /\ kids # <<>> /\ debug
  <3>1. W = <<>> /\ <<>> \in Seq(DelLine) BY <2>4, <2>8, EmptySeq
  <3>2. Len(W) = 0 /\ DOMAIN W = {} BY <3>1
  <3>3. delRoot.saver => quiet BY <2>5, <2>8
  <3> HIDE DEF quiet
  <3> QED BY <3>1, <3>2, <3>3
 <2>9. CASE batch /\ kids # <<>> /\ ~ debug
  <3>1. W = <<coordinator>> BY <2>4, <2>9
  <3>2. DelIsWhole(coordinator) /\ DelLineFits(c, kids, done, coordinator)
    BY <2>6, <2>9 DEF DelIsWhole, DelLineFits
  <3>3. W \in Seq(DelLine) /\ Len(W) <= 1 /\ W # <<>> BY <2>6, <3>1
  <3>4. \A n \in DOMAIN W : W[n] = coordinator BY <3>1
  <3>5. delRoot.saver => ~ quiet BY <2>5, <2>9
  <3> HIDE DEF quiet
  <3> QED BY <3>2, <3>3, <3>4, <3>5
 <2>10. CASE ~ (batch /\ kids # <<>>)
  <3>1. W = <<single>> BY <2>4, <2>10
  <3>2. DelIsWhole(single) /\ DelLineFits(c, kids, done, single)
    BY <2>7 DEF DelIsWhole, DelLineFits
  <3>3. W \in Seq(DelLine) /\ Len(W) <= 1 /\ W # <<>> BY <2>7, <3>1
  <3>4. \A n \in DOMAIN W : W[n] = single BY <3>1
  <3>5. ~ quiet BY <2>10
  <3> HIDE DEF quiet
  <3> QED BY <3>2, <3>3, <3>4, <3>5
 <2> QED BY <2>8, <2>9, <2>10
<1> HIDE DEF C, W, T, all
<1>7. CASE delRoot.saver
 <2>1. all = C \o W \o T BY <1>2, <1>7
 <2>2.
   /\ all \in Seq(DelLine)
   /\ \A n \in DOMAIN all : \/ \E m \in DOMAIN C : all[n] = C[m]
                            \/ \E m \in DOMAIN W : all[n] = W[m]
                            \/ \E m \in DOMAIN T : all[n] = T[m]
   /\ \A n \in DOMAIN all, m \in DOMAIN all : DelSame(all[n], all[m]) => n = m
   /\ \A n \in DOMAIN C : \E m \in DOMAIN all : all[m] = C[n]
   /\ \A n \in DOMAIN W : \E m \in DOMAIN all : all[m] = W[n]
  <3>1. /\ C \in Seq(DelLine) /\ W \in Seq(DelLine) /\ T \in Seq(DelLine)
        /\ Len(W) <= 1 /\ Len(T) <= 1
    BY <1>3, <1>5, <1>6
  <3>2. \A n \in DOMAIN C : /\ ~ DelIsWhole(C[n]) /\ ~ DelIsTop(C[n])
                            /\ \A m \in DOMAIN C : DelSame(C[n], C[m]) => n = m
    BY <1>4
  <3>3. \A n \in DOMAIN W : DelIsWhole(W[n]) BY <1>6
  <3>4. \A n \in DOMAIN T : DelIsTop(T[n]) BY <1>5
  <3>5.
    LET j == C \o W \o T
    IN  /\ j \in Seq(DelLine)
        /\ \A n \in DOMAIN j : \/ \E m \in DOMAIN C : j[n] = C[m]
                               \/ \E m \in DOMAIN W : j[n] = W[m]
                               \/ \E m \in DOMAIN T : j[n] = T[m]
        /\ \A n \in DOMAIN j, m \in DOMAIN j : DelSame(j[n], j[m]) => n = m
        /\ \A n \in DOMAIN C : \E m \in DOMAIN j : j[m] = C[n]
        /\ \A n \in DOMAIN W : \E m \in DOMAIN j : j[m] = W[n]
    BY ONLY <3>1, <3>2, <3>3, <3>4, DelJoined
  <3> QED BY ONLY <2>1, <3>5
 <2>3. DelWritten(c, kids, done, all)
  <3>1. \A n \in DOMAIN all : DelLineFits(c, kids, done, all[n]) BY ONLY <1>4, <1>5, <1>6, <2>2
  <3> QED BY ONLY <2>2, <3>1 DEF DelWritten
 <2>4. ASSUME batch, NEW k \in DOMAIN kids
   PROVE \E n \in DOMAIN all : DelIsChild(all[n], k)
  <3>1. /\ DelPlace(k, evidence) \in DOMAIN C
        /\ C[DelPlace(k, evidence)] = DelChildRecord(c, kids, k)
    BY <1>3, <2>4
  <3>2. DelIsChild(DelChildRecord(c, kids, k), k) BY DelChildLine DEF DelIsChild
  <3>3. PICK n \in DOMAIN all : all[n] = C[DelPlace(k, evidence)] BY <2>2, <3>1
  <3> QED BY <3>1, <3>2, <3>3
 <2>5. (\E n \in DOMAIN all : DelIsWhole(all[n])) <=> ~ quiet
  <3>1. CASE quiet
   <4>1. DOMAIN W = {} BY <1>6, <1>7, <3>1
   <4>2. \A n \in DOMAIN T : ~ DelIsWhole(T[n]) BY <1>5 DEF DelIsTop, DelIsWhole
   <4> QED BY <1>4, <2>2, <3>1, <4>1, <4>2
  <3>2. CASE ~ quiet
   <4>1. W # <<>> BY <1>6, <1>7, <3>2
   <4>2. 1 \in DOMAIN W BY <1>6, <4>1
   <4> QED BY <1>6, <2>2, <3>2, <4>2
  <3> QED BY <3>1, <3>2
 <2> QED BY <2>3, <2>4, <2>5 DEF DelComplete, all
<1>8. CASE ~ delRoot.saver
 <2>1. all = T BY <1>2, <1>8
 <2>2. Len(T) \in Nat /\ DOMAIN T = 1 .. Len(T) BY <1>5, Indices
 <2>3. \A n \in DOMAIN T, m \in DOMAIN T : n = m BY <1>5, <2>2
 <2> QED BY <1>5, <1>8, <2>1, <2>3 DEF DelWritten, all
<1> QED BY <1>1, <1>7, <1>8
--------------------
(* Lines are added, and stay *)

LEMMA DelAppended ==
  ASSUME NEW saved \in Seq(DelLine), NEW all \in Seq(DelLine)
  PROVE
    LET n == Len(saved)
        r == saved \o all
    IN  /\ r \in Seq(DelLine) /\ n \in Nat /\ DOMAIN saved = 1 .. n
        /\ \A i \in DOMAIN saved : i \in DOMAIN r /\ r[i] = saved[i]
        /\ \A i \in DOMAIN all : n + i \in DOMAIN r /\ r[n + i] = all[i]
        /\ \A i \in DOMAIN r : \/ i \in DOMAIN saved
                               \/ i > n /\ i - n \in DOMAIN all /\ r[i] = all[i - n]
        /\ \A i \in DOMAIN all : i \in Nat
        /\ \A i \in DOMAIN r : i \in Nat
<1> DEFINE n == Len(saved)
  m == Len(all)
  r == saved \o all
<1>1. n \in Nat /\ m \in Nat /\ DOMAIN saved = 1 .. n /\ DOMAIN all = 1 .. m BY Indices
<1>2.
  /\ r \in Seq(DelLine) /\ Len(r) = n + m
  /\ \A i \in 1 .. Len(r) : r[i] = IF i <= n THEN saved[i] ELSE all[i - n]
  BY ConcatDisjoint
<1>3. DOMAIN r = 1 .. (n + m) BY <1>2, Indices
<1> HIDE DEF n, m, r
<1> QED BY <1>1, <1>2, <1>3 DEF n, r

LEMMA DelAtMostOne ==
  ASSUME NEW S, \A x \in S, y \in S : x = y
  PROVE
    /\ Cardinality(S) <= 1
    /\ (S # {} => Cardinality(S) = 1) /\ (S = {} => Cardinality(S) = 0)
<1>1. CASE S = {} BY <1>1, FS_EmptySet
<1>2. CASE S # {}
 <2>1. PICK x \in S : TRUE BY <1>2
 <2>2. S = {x} BY <2>1
 <2>3. Cardinality(S) = 1 BY <2>2, FS_Singleton
 <2> QED BY <1>2, <2>3
<1> QED BY <1>1, <1>2

\* The lines of another call neither help nor harm, nor does what a child of an
\* answered call still does.
DelLinesStay(c) ==
  /\ \A i \in DOMAIN delSaved : i \in DOMAIN delSaved' /\ delSaved'[i] = delSaved[i]
  /\ \A i \in DOMAIN delSaved' : delSaved'[i].call = c => i \in DOMAIN delSaved

LEMMA DelOfStays ==
  ASSUME NEW c, DelLinesStay(c), NEW kind
  PROVE
    /\ DelOf(c, kind)' = DelOf(c, kind)
    /\ \A i \in DelOf(c, kind) : delSaved'[i] = delSaved[i]
BY DEF DelLinesStay, DelOf

DelAgree(c) ==
  IF delCalls[c].state = "over" /\ delCalls[c].kids # <<>>
  THEN DelWholeTold(c) /\ DelChildrenTold(c)
  ELSE delCalls[c].state \in {"unused", "open", "background", "ended"} =>
         \A i \in DOMAIN delSaved : delSaved[i].call # c

\* An answered call whose children and lines stay what they are.
DelCallStays(c) ==
  /\ delCalls'[c].answer = delCalls[c].answer /\ delCalls'[c].request = delCalls[c].request
  /\ (delCalls[c].kids = <<>> <=> delCalls'[c].kids = <<>>)
  /\ Len(delCalls'[c].kids) = Len(delCalls[c].kids)
  /\ DOMAIN delCalls'[c].kids = DOMAIN delCalls[c].kids
  /\ \A k \in DOMAIN delCalls[c].kids :
       delCalls'[c].kids[k].status = delCalls[c].kids[k].status

LEMMA DelWholeStays ==
  ASSUME NEW c \in DelNames, DelWholeTold(c), DelLinesStay(c), delRoot' = delRoot,
    DelCallStays(c)
  PROVE DelWholeTold(c)'
<1>1.
  \A kind : /\ DelOf(c, kind)' = DelOf(c, kind)
            /\ \A i \in DelOf(c, kind) : delSaved'[i] = delSaved[i]
  BY DelOfStays
<1>2.
  {i \in DelOf(c, "evidence") : delSaved'[i].kid = 0} =
  {i \in DelOf(c, "evidence") : delSaved[i].kid = 0}
  BY <1>1
<1> DEFINE top == {i \in DelOf(c, "evidence") : delSaved[i].kid = 0}
  whole == DelOf(c, "single") \cup DelOf(c, "coordinator")
<1>3. top' = top /\ whole' = whole BY <1>1, <1>2
<1>4. \A i \in top \cup whole : delSaved'[i] = delSaved[i] BY <1>1
<1>5.
  /\ Cardinality(top) <= 1 /\ \A i \in top \cup whole : delSaved[i].success = (delCalls[c].answer = "ok")
  /\ \A i \in DelOf(c, "coordinator") :
       delSaved[i].counts[1] + delSaved[i].counts[2] = Len(delCalls[c].kids)
  /\ (delRoot.saver =>
        Cardinality(whole) = IF delCalls[c].request.shape = "batch"
                               /\ delCalls[c].request.debug = <<FALSE>> THEN 0 ELSE 1)
  BY DEF DelWholeTold
<1> HIDE DEF top, whole
<1>6.
  /\ Cardinality(top') <= 1
  /\ \A i \in top' \cup whole' : delSaved'[i].success = (delCalls'[c].answer = "ok")
  BY <1>3, <1>4, <1>5 DEF DelCallStays
<1>7.
  \A i \in DelOf(c, "coordinator")' :
    delSaved'[i].counts[1] + delSaved'[i].counts[2] = Len(delCalls'[c].kids)
  BY <1>1, <1>5 DEF DelCallStays
<1>8.
  delRoot'.saver =>
    Cardinality(whole') = IF delCalls'[c].request.shape = "batch"
                             /\ delCalls'[c].request.debug = <<FALSE>> THEN 0 ELSE 1
  BY <1>3, <1>5 DEF DelCallStays
<1> QED BY <1>6, <1>7, <1>8 DEF DelWholeTold, top, whole

LEMMA DelChildrenStay ==
  ASSUME NEW c \in DelNames, DelChildrenTold(c), DelLinesStay(c), delRoot' = delRoot,
    DelCallStays(c)
  PROVE DelChildrenTold(c)'
<1>1.
  /\ DelOf(c, "child")' = DelOf(c, "child")
  /\ \A i \in DelOf(c, "child") : delSaved'[i] = delSaved[i]
  BY DelOfStays
<1> QED BY <1>1 DEF DelChildrenTold, DelCallStays

LEMMA DelAgreeStays ==
  ASSUME NEW c \in DelNames, DelAgree(c), DelLinesStay(c), delRoot' = delRoot,
    delCalls'[c].state = delCalls[c].state,
    delCalls[c].state = "over" => DelCallStays(c)
  PROVE DelAgree(c)'
<1>1. CASE delCalls[c].state = "over" /\ delCalls[c].kids # <<>>
 <2>1. DelWholeTold(c)' /\ DelChildrenTold(c)'
   BY <1>1, DelWholeStays, DelChildrenStay DEF DelAgree
 <2> QED BY <1>1, <2>1 DEF DelAgree, DelCallStays
<1>2. CASE ~ (delCalls[c].state = "over" /\ delCalls[c].kids # <<>>)
  BY <1>2 DEF DelAgree, DelLinesStay, DelCallStays
<1> QED BY <1>1, <1>2
\* The lines of a call that had none: they tell what is so.
LEMMA DelAgreeNew ==
  ASSUME NEW c \in DelNames, delSaved \in Seq(DelLine),
    \A i \in DOMAIN delSaved : delSaved[i].call # c,
    NEW request, NEW kids \in Seq(DelKid), NEW done \in BOOLEAN, NEW all,
    DelWritten(c, kids, done, all), delRoot.saver => DelComplete(request, kids, all),
    delRoot' = delRoot, delSaved' = delSaved \o all, kids # <<>>,
    delCalls'[c].kids = kids, delCalls'[c].request = request,
    (delCalls'[c].answer = "ok") = done
  PROVE DelWholeTold(c)' /\ DelChildrenTold(c)'
<1> DEFINE n == Len(delSaved)
  Of(kind) == DelOf(c, kind)'
  Mine == {i \in DOMAIN delSaved' : delSaved'[i].call = c}
  top == {i \in Of("evidence") : delSaved'[i].kid = 0}
  whole == Of("single") \cup Of("coordinator")
<1>1. all \in Seq(DelLine) BY DEF DelWritten
<1>2.
  /\ n \in Nat
  /\ \A i \in DOMAIN delSaved : i \in DOMAIN delSaved' /\ delSaved'[i] = delSaved[i]
  /\ \A i \in DOMAIN all : n + i \in DOMAIN delSaved' /\ delSaved'[n + i] = all[i]
  /\ \A i \in DOMAIN delSaved' : \/ i \in DOMAIN delSaved
                                 \/ i > n /\ i - n \in DOMAIN all /\ delSaved'[i] = all[i - n]
  /\ (\A i \in DOMAIN all : i \in Nat) /\ (\A i \in DOMAIN delSaved' : i \in Nat)
  BY <1>1, DelAppended
<1> HIDE DEF n
<1>3. \A i \in Mine : i - n \in DOMAIN all /\ delSaved'[i] = all[i - n] BY <1>2
<1>4. \A i \in DOMAIN all : n + i \in Mine /\ delSaved'[n + i] = all[i]
  BY <1>2 DEF DelWritten, DelLineFits
<1>5. \A i \in Mine : i \in Nat /\ DelLineFits(c, kids, done, delSaved'[i])
  BY <1>2, <1>3 DEF DelWritten
<1>6. \A i \in Mine, j \in Mine : DelSame(delSaved'[i], delSaved'[j]) => i = j
 <2>1. SUFFICES ASSUME NEW i \in Mine, NEW j \in Mine, DelSame(delSaved'[i], delSaved'[j])
   PROVE i = j
   OBVIOUS
 <2>2. i - n = j - n BY <1>3, <2>1 DEF DelWritten
 <2> HIDE DEF Mine
 <2> QED BY <1>2, <1>5, <2>2
<1>7. \A kind : Of(kind) = {i \in Mine : delSaved'[i].kind = kind} BY DEF DelOf
<1>8. whole = {i \in Mine : DelIsWhole(delSaved'[i])} BY <1>7 DEF DelIsWhole
<1>9. top = {i \in Mine : DelIsTop(delSaved'[i])} BY <1>7 DEF DelIsTop
<1> HIDE DEF Mine, Of, top, whole
<1>10. (\A i, j \in top : i = j) /\ (\A i, j \in whole : i = j) BY <1>6, <1>8, <1>9 DEF DelSame
<1>11. Cardinality(top) <= 1 BY <1>10, DelAtMostOne
<1>12. \A i \in top \cup whole : delSaved'[i].success = done BY <1>5, <1>8, <1>9 DEF DelLineFits
<1>13.
  \A i \in Of("coordinator") :
    delSaved'[i].counts[1] + delSaved'[i].counts[2] = Len(kids)
  BY <1>5, <1>7 DEF DelLineFits
<1>14. ASSUME delRoot.saver
  PROVE
    Cardinality(whole) =
      IF request.shape = "batch" /\ request.debug = <<FALSE>> THEN 0 ELSE 1
 <2>1.
   (\E i \in DOMAIN all : DelIsWhole(all[i])) <=>
     ~ (request.shape = "batch" /\ request.debug = <<FALSE>>)
   BY <1>14 DEF DelComplete
 <2>2. whole # {} <=> \E i \in DOMAIN all : DelIsWhole(all[i]) BY <1>3, <1>4, <1>8
 <2>3. (whole # {} => Cardinality(whole) = 1) /\ (whole = {} => Cardinality(whole) = 0)
   BY <1>10, DelAtMostOne
 <2> QED BY <2>1, <2>2, <2>3
<1>15. DelWholeTold(c)' BY <1>11, <1>12, <1>13, <1>14 DEF DelWholeTold, top, whole, Of
<1>16. ASSUME delRoot.saver, request.shape = "batch", NEW k \in DOMAIN kids
  PROVE
    \E i \in Of("child") :
      /\ \A j \in Of("child") : delSaved'[j].kid = k <=> j = i
      /\ delSaved'[i].success = (kids[k].status = "completed")
      /\ (delSaved'[i].status = "aborted" <=> kids[k].status = "aborted")
 <2>1. PICK m \in DOMAIN all : DelIsChild(all[m], k) BY <1>16 DEF DelComplete
 <2>2. n + m \in Of("child") /\ delSaved'[n + m].kid = k BY <1>4, <1>7, <2>1 DEF DelIsChild
 <2>3. \A j \in Of("child") : delSaved'[j].kid = k => j = n + m BY <1>6, <1>7, <2>2 DEF DelSame
 <2>4.
   /\ delSaved'[n + m].success = (kids[k].status = "completed")
   /\ (delSaved'[n + m].status = "aborted" <=> kids[k].status = "aborted")
   BY <1>5, <1>7, <2>2 DEF DelLineFits
 <2>5. \A j \in Of("child") : delSaved'[j].kid = k <=> j = n + m BY ONLY <2>2, <2>3
 <2> QED BY ONLY <2>2, <2>4, <2>5
<1>17. DelChildrenTold(c)'
 <2>1.
   delRoot'.saver = delRoot.saver /\ delCalls'[c].kids = kids
   /\ delCalls'[c].request = request
   OBVIOUS
 <2> QED BY ONLY <1>16, <2>1 DEF DelChildrenTold, Of
<1> QED BY <1>15, <1>17
--------------------
(* Steps of children *)

LEMMA DelFitsPrimed ==
  ASSUME delRoot' = delRoot, NEW c \in DelNames, DelCallFits(c, delCalls'[c])
  PROVE DelCallFits(c, delCalls[c])'
BY DEF DelCallFits, DelKidsFit, DelKidFits, DelAnswered, DelAllDone, DelRequests

DelKidMoves(kid, moved) ==
  /\ moved.tools = kid.tools /\ moved.turns = kid.turns /\ moved.timeout = kid.timeout
  /\ (moved.wrote => \/ kid.wrote
                     \/ DelWriting \cap kid.tools # {} /\ delRoot.rule = "write-allowed")
  /\ (moved.status = kid.status \/ kid.status = "open")
  /\ (moved.loop => kid.loop)
  /\ (moved.status = "completed" => kid.status = "completed" \/ ~ moved.loop)

DelKidsMove(kids, moved) ==
  /\ Len(moved) = Len(kids)
  /\ \A i \in DOMAIN kids : DelKidMoves(kids[i], moved[i])

DelCallMoves(entry, moved) ==
  \/ moved = entry
  \/ /\ entry.state # "unused" /\ moved \in DelCall
     /\ moved.state = entry.state /\ moved.request = entry.request
     /\ (entry.state \in {"over", "failed", "ended"} => moved.answer = entry.answer)
     /\ DelKidsMove(entry.kids, moved.kids)

LEMMA DelCallTyped ==
  ASSUME NEW entry \in DelCall
  PROVE
    /\ entry.state \in {"unused", "open", "background", "over", "failed", "ended"}
    /\ (entry.state = "unused" => entry = DelNoCall)
    /\ (entry.state \in {"open", "background"} => entry \in DelRunningCall)
    /\ (entry.state \in {"over", "failed", "ended"} => entry \in DelOverCall)
    /\ (entry.state # "unused" => entry.kids \in Seq(DelKid) /\ entry.request \in DelRequest)
BY DEF DelCall, DelRunningCall, DelOverCall, DelNoCall

LEMMA DelKidsFitMoves ==
  ASSUME NEW c \in DelNames, NEW request, NEW kids \in Seq(DelKid), NEW moved \in Seq(DelKid),
    DelKidsFit(c, request, kids), DelKidsMove(kids, moved)
  PROVE DelKidsFit(c, request, moved)
<1>1.
  /\ Len(kids) \in Nat /\ DOMAIN kids = 1 .. Len(kids)
  /\ Len(moved) = Len(kids) /\ DOMAIN moved = DOMAIN kids
  BY Indices DEF DelKidsMove
<1>2. ASSUME NEW i \in DOMAIN moved
  PROVE DelKidFits(c, request, i, moved[i])
 <2>1. DelKidMoves(kids[i], moved[i]) /\ DelKidFits(c, request, i, kids[i])
   BY <1>1 DEF DelKidsMove, DelKidsFit
 <2> QED BY <2>1 DEF DelKidMoves, DelKidFits
<1>3. \A i \in DOMAIN kids : kids[i].status = "completed" => moved[i].status = "completed"
  BY DEF DelKidsMove, DelKidMoves
<1> QED BY <1>1, <1>2, <1>3 DEF DelKidsFit

LEMMA DelCallFitsMoves ==
  ASSUME NEW c \in DelNames, NEW entry \in DelCall, NEW moved,
    DelCallFits(c, entry), DelCallMoves(entry, moved)
  PROVE DelCallFits(c, moved)
<1>1. CASE moved = entry BY <1>1
<1>2. CASE moved # entry
 <2>1.
   /\ entry.state # "unused" /\ moved \in DelCall
   /\ moved.state = entry.state /\ moved.request = entry.request
   /\ (entry.state \in {"over", "failed", "ended"} => moved.answer = entry.answer)
   /\ DelKidsMove(entry.kids, moved.kids)
   BY <1>2 DEF DelCallMoves
 <2>2. entry.kids \in Seq(DelKid) /\ moved.kids \in Seq(DelKid) BY <2>1, DelCallTyped
 <2>3.
   /\ Len(entry.kids) \in Nat /\ DOMAIN entry.kids = 1 .. Len(entry.kids)
   /\ Len(moved.kids) = Len(entry.kids) /\ DOMAIN moved.kids = DOMAIN entry.kids
   /\ (entry.kids = <<>> <=> moved.kids = <<>>)
   BY <2>1, <2>2, Indices DEF DelKidsMove
 <2>4. DelKidsFit(c, entry.request, entry.kids) => DelKidsFit(c, moved.request, moved.kids)
   BY <2>1, <2>2, DelKidsFitMoves
 <2>5. ASSUME entry.state \in {"over", "failed", "ended"}, DelAnswered(entry)
   PROVE DelAnswered(moved)
  <3>1. \A i \in DOMAIN entry.kids : moved.kids[i].status = entry.kids[i].status
    BY <2>1, <2>5 DEF DelKidsMove, DelKidMoves, DelAnswered
  <3> QED BY <2>1, <2>3, <2>5, <3>1 DEF DelAnswered, DelAllDone
 <2> QED BY <2>1, <2>3, <2>4, <2>5 DEF DelCallFits
<1> QED BY <1>1, <1>2
LEMMA DelInvParts ==
  DelInv <=> /\ DelTyped
             /\ \A c \in DelNames : DelCallFits(c, delCalls[c]) /\ DelAgree(c)
             /\ DelClaimsTrue /\ DelInnerDone /\ DelInOrder
BY DEF DelInv, DelRecordsAgree, DelAgree

LEMMA DelInvPartsPrimed ==
  DelInv' <=> /\ DelTyped'
              /\ \A c \in DelNames : DelCallFits(c, delCalls[c])' /\ DelAgree(c)'
              /\ DelClaimsTrue' /\ DelInnerDone' /\ DelInOrder'
BY DEF DelInv, DelRecordsAgree, DelAgree

LEMMA DelFirstMoves ==
  ASSUME NEW entry \in DelCall, NEW moved, DelCallMoves(entry, moved), DelFirstDone(entry)
  PROVE DelFirstDone(moved)
<1>1. CASE moved = entry BY <1>1
<1>2. CASE moved # entry
 <2>1.
   /\ entry.state # "unused" /\ moved \in DelCall /\ moved.state = entry.state
   /\ DelKidsMove(entry.kids, moved.kids)
   BY <1>2 DEF DelCallMoves
 <2>2. entry.kids \in Seq(DelKid) /\ moved.kids \in Seq(DelKid) BY <2>1, DelCallTyped
 <2>3.
   /\ Len(entry.kids) \in Nat /\ DOMAIN entry.kids = 1 .. Len(entry.kids)
   /\ Len(moved.kids) = Len(entry.kids) /\ DOMAIN moved.kids = DOMAIN entry.kids
   /\ (entry.kids = <<>> <=> moved.kids = <<>>)
   /\ (entry.kids # <<>> => 1 \in DOMAIN entry.kids)
   BY <2>1, <2>2, Indices DEF DelKidsMove
 <2> QED BY <2>1, <2>3 DEF DelFirstDone, DelKidsMove, DelKidMoves
<1> QED BY <1>1, <1>2

\* A step in which children only move on keeps the invariant, if no first child
\* completes before the call it made has returned.
LEMMA DelMoveStep ==
  ASSUME DelInv, delRoot' = delRoot, delSaved' = delSaved,
    delCalls' \in [DelNames -> DelCall],
    \A c \in DelNames : DelCallMoves(delCalls[c], delCalls'[c]),
    DelFirstDone(delCalls'["outer"]) => delCalls'["inner"].state # "open"
  PROVE DelInv'
<1>1.
  /\ DelTyped /\ DelClaimsTrue /\ DelInOrder
  /\ \A c \in DelNames : DelCallFits(c, delCalls[c]) /\ DelAgree(c)
  BY DelInvParts
<1>2. DelTyped' BY <1>1 DEF DelTyped
<1>3. ASSUME NEW c \in DelNames
  PROVE DelCallFits(c, delCalls[c])' /\ DelAgree(c)'
 <2>1. delCalls[c] \in DelCall /\ delCalls'[c] \in DelCall BY <1>1 DEF DelTyped
 <2>2. DelCallFits(c, delCalls'[c]) BY <1>1, <2>1, DelCallFitsMoves
 <2>3. DelCallFits(c, delCalls[c])' BY <2>2, DelFitsPrimed
 <2>4. DelLinesStay(c) BY DEF DelLinesStay
 <2>5. delCalls'[c].state = delCalls[c].state BY DEF DelCallMoves
 <2>6. ASSUME delCalls[c].state = "over", delCalls[c].kids # <<>>
   PROVE DelCallStays(c)
  <3>1. CASE delCalls'[c] = delCalls[c] BY <3>1 DEF DelCallStays
  <3>2. CASE delCalls'[c] # delCalls[c]
   <4>1.
     /\ delCalls'[c].request = delCalls[c].request
     /\ delCalls'[c].answer = delCalls[c].answer
     /\ DelKidsMove(delCalls[c].kids, delCalls'[c].kids)
     BY <2>6, <3>2 DEF DelCallMoves
   <4>2. delCalls[c].kids \in Seq(DelKid) /\ delCalls'[c].kids \in Seq(DelKid)
     BY <2>1, <2>5, <2>6, DelCallTyped
   <4>3.
     /\ Len(delCalls[c].kids) \in Nat
     /\ DOMAIN delCalls[c].kids = 1 .. Len(delCalls[c].kids)
     /\ DOMAIN delCalls'[c].kids = 1 .. Len(delCalls'[c].kids)
     /\ Len(delCalls'[c].kids) = Len(delCalls[c].kids) /\ delCalls'[c].kids # <<>>
     BY <2>6, <4>1, <4>2, Indices DEF DelKidsMove
   <4>4. \A k \in DOMAIN delCalls[c].kids : delCalls[c].kids[k].status # "open"
     BY <1>1, <2>6 DEF DelCallFits, DelAnswered
   <4>5. \A k \in DOMAIN delCalls[c].kids :
           delCalls'[c].kids[k].status = delCalls[c].kids[k].status
     BY <4>1, <4>4 DEF DelKidsMove, DelKidMoves
   <4> QED BY <2>6, <4>1, <4>3, <4>5 DEF DelCallStays
  <3> QED BY <3>1, <3>2
 <2>7. ASSUME delCalls[c].state = "over", delCalls[c].kids = <<>>
   PROVE delCalls'[c].kids = <<>>
  <3>1. CASE delCalls'[c] # delCalls[c]
   <4>1. Len(delCalls'[c].kids) = Len(delCalls[c].kids) BY <3>1 DEF DelCallMoves, DelKidsMove
   <4>2. delCalls[c].kids \in Seq(DelKid) /\ delCalls'[c].kids \in Seq(DelKid)
     BY <2>1, <2>5, <2>7, DelCallTyped
   <4> QED BY <2>7, <4>1, <4>2
  <3> QED BY <2>7, <3>1
 <2>8. DelAgree(c)'
  <3>1. CASE delCalls[c].state = "over" /\ delCalls[c].kids # <<>>
    BY <1>1, <2>4, <2>5, <2>6, <3>1, DelAgreeStays
  <3>2. CASE delCalls[c].state = "over" /\ delCalls[c].kids = <<>>
    BY <2>5, <2>7, <3>2 DEF DelAgree
  <3>3. CASE delCalls[c].state # "over" BY <1>1, <2>4, <2>5, <3>3, DelAgreeStays
  <3> QED BY <3>1, <3>2, <3>3
 <2> QED BY <2>3, <2>8
<1>4. DelClaimsTrue'
 <2>1. /\ delCalls["outer"] \in DelCall /\ DelCallMoves(delCalls["outer"], delCalls'["outer"])
   BY <1>1 DEF DelTyped, DelNames
 <2>2.
   /\ DelFirstDone(delCalls["outer"]) => DelFirstDone(delCalls'["outer"])
   /\ delCalls'["outer"].state = delCalls["outer"].state
   BY <2>1, DelFirstMoves DEF DelCallMoves
 <2> QED BY <1>1, <2>2 DEF DelClaimsTrue, DelClaims, DelFirstDone
<1>5. DelInnerDone' BY DEF DelInnerDone, DelFirstDone
<1>6. DelInOrder' BY <1>1 DEF DelInOrder
<1> QED BY <1>2, <1>3, <1>4, <1>5, <1>6, DelInvPartsPrimed
\* One child of one call changes.
LEMMA DelSetKidMoves ==
  ASSUME delCalls \in [DelNames -> DelCall], NEW c \in DelNames, delCalls[c].state # "unused",
    NEW i \in DOMAIN delCalls[c].kids, NEW kid \in DelKid,
    DelKidMoves(delCalls[c].kids[i], kid), DelSetKid(c, i, kid)
  PROVE
    /\ delCalls' \in [DelNames -> DelCall]
    /\ \A d \in DelNames : DelCallMoves(delCalls[d], delCalls'[d])
    /\ \A d \in DelNames : d # c => delCalls'[d] = delCalls[d]
    /\ delCalls'[c].kids = [delCalls[c].kids EXCEPT ![i] = kid]
    /\ delCalls'[c].state = delCalls[c].state
<1> DEFINE entry == delCalls[c]
  kids == [entry.kids EXCEPT ![i] = kid]
  moved == [entry EXCEPT !.kids = kids]
<1>1. delCalls' = [delCalls EXCEPT ![c] = moved] BY DEF DelSetKid
<1>2. entry \in DelCall /\ entry.kids \in Seq(DelKid) BY DelCallTyped
<1>3.
  /\ Len(entry.kids) \in Nat /\ DOMAIN entry.kids = 1 .. Len(entry.kids)
  /\ \A k \in DOMAIN entry.kids : entry.kids[k] \in DelKid
  BY <1>2, Indices
<1>4. kids \in Seq(DelKid) /\ Len(kids) = Len(entry.kids) /\ DOMAIN kids = DOMAIN entry.kids
 <2>1. entry.kids \in [1 .. Len(entry.kids) -> DelKid] BY <1>2, <1>3
 <2>2. kids \in [1 .. Len(entry.kids) -> DelKid] BY ONLY <2>1, kid \in DelKid
 <2>3. kids \in Seq(DelKid) /\ Len(kids) = Len(entry.kids) /\ DOMAIN kids = 1 .. Len(entry.kids)
   BY ONLY <1>3, <2>2, FromFunction
 <2> QED BY ONLY <1>3, <2>3
<1>5. DelKidsMove(entry.kids, kids)
 <2>1. \A k \in DOMAIN entry.kids : DelKidMoves(entry.kids[k], kids[k]) BY <1>2 DEF DelKidMoves
 <2> HIDE DEF kids
 <2> QED BY <1>4, <2>1 DEF DelKidsMove
<1> HIDE DEF kids
<1>6.
  /\ moved \in DelCall /\ moved.state = entry.state /\ moved.request = entry.request
  /\ moved.kids = kids
  /\ (entry.state \in {"over", "failed", "ended"} => moved.answer = entry.answer)
 <2>1. CASE entry \in DelRunningCall
  <3>1. moved \in DelRunningCall BY <1>4, <2>1 DEF DelRunningCall
  <3> QED BY <2>1, <3>1 DEF DelRunningCall, DelCall
 <2>2. CASE entry \in DelOverCall
  <3>1. moved \in DelOverCall BY <1>4, <2>2 DEF DelOverCall
  <3> QED BY <2>2, <3>1 DEF DelOverCall, DelCall
 <2> QED BY <1>2, <2>1, <2>2, DelCallTyped
<1>7. DelCallMoves(entry, moved) BY <1>5, <1>6 DEF DelCallMoves
<1> HIDE DEF moved
<1>8.
  /\ delCalls' \in [DelNames -> DelCall] /\ delCalls'[c] = moved
  /\ \A d \in DelNames : d # c => delCalls'[d] = delCalls[d]
  BY <1>1, <1>6
<1> QED BY <1>6, <1>7, <1>8 DEF DelCallMoves, kids

LEMMA DelKidOfCall ==
  ASSUME delCalls \in [DelNames -> DelCall], NEW c \in DelNames, delCalls[c].state # "unused",
    NEW i \in DOMAIN delCalls[c].kids
  PROVE delCalls[c].kids[i] \in DelKid
<1>1. delCalls[c].kids \in Seq(DelKid) BY DelCallTyped
<1> QED BY <1>1, Indices

LEMMA DelWriteStep ==
  ASSUME DelInv, NEW c \in DelNames, delCalls[c].state # "unused",
    NEW i \in DOMAIN delCalls[c].kids, DelWrite(c, i)
  PROVE DelInv'
<1> DEFINE old == delCalls[c].kids[i]
  kid == [old EXCEPT !.wrote = TRUE]
<1>1. delCalls \in [DelNames -> DelCall] /\ old \in DelKid BY DelKidOfCall DEF DelInv, DelTyped
<1>2.
  /\ kid \in DelKid /\ kid.tools = old.tools /\ kid.turns = old.turns
  /\ kid.timeout = old.timeout /\ kid.status = old.status /\ kid.loop = old.loop
  BY <1>1 DEF DelKid
<1>3. DelKidMoves(old, kid)
 <2>1. DelWriting \cap old.tools # {} /\ delRoot.rule = "write-allowed" BY DEF DelWrite
 <2>2. old.status = "completed" => kid.status = "completed" BY <1>2
 <2> HIDE DEF kid, old
 <2> QED BY <1>2, <2>1 DEF DelKidMoves
<1>4. DelSetKid(c, i, kid) /\ delRoot' = delRoot /\ delSaved' = delSaved BY DEF DelWrite
<1>5.
  /\ delCalls' \in [DelNames -> DelCall]
  /\ \A d \in DelNames : DelCallMoves(delCalls[d], delCalls'[d])
  /\ \A d \in DelNames : d # c => delCalls'[d] = delCalls[d]
  /\ delCalls'[c].kids = [delCalls[c].kids EXCEPT ![i] = kid]
  /\ delCalls'[c].state = delCalls[c].state
  BY <1>1, <1>2, <1>3, <1>4, DelSetKidMoves
<1>6. DelFirstDone(delCalls'["outer"]) => DelFirstDone(delCalls["outer"])
 <2>1. CASE c = "outer"
  <3>1. delCalls["outer"].kids \in Seq(DelKid) BY <1>1, <2>1, DelCallTyped
  <3>2. /\ Len(delCalls["outer"].kids) \in Nat
        /\ DOMAIN delCalls["outer"].kids = 1 .. Len(delCalls["outer"].kids)
    BY <3>1, Indices
  <3>3. 1 \in DOMAIN delCalls["outer"].kids /\ delCalls["outer"].kids # <<>> BY <2>1, <3>1, <3>2
  <3>4. delCalls'["outer"].kids[1].status = delCalls["outer"].kids[1].status
   <4> HIDE DEF kid
   <4>1. CASE i = 1 BY <1>2, <1>5, <2>1, <3>3, <4>1
   <4>2. CASE i # 1 BY <1>5, <2>1, <3>3, <4>2
   <4> QED BY <4>1, <4>2
  <3> QED BY <1>5, <2>1, <3>3, <3>4 DEF DelFirstDone
 <2>2. CASE c # "outer" BY <1>5, <2>2 DEF DelNames
 <2> QED BY <2>1, <2>2
<1>7. delCalls'["inner"].state = delCalls["inner"].state BY <1>5 DEF DelNames
<1>8. DelFirstDone(delCalls'["outer"]) => delCalls'["inner"].state # "open"
  BY <1>6, <1>7 DEF DelInv, DelInnerDone
<1> QED BY <1>4, <1>5, <1>8, DelMoveStep

LEMMA DelEndsStep ==
  ASSUME DelInv, NEW c \in DelNames, delCalls[c].state # "unused",
    NEW i \in DOMAIN delCalls[c].kids, NEW how \in {"completed", "failed"},
    DelEnds(c, i, how)
  PROVE DelInv'
<1> DEFINE old == delCalls[c].kids[i]
  kid == [old EXCEPT !.loop = FALSE, !.status = IF @ = "open" THEN how ELSE @]
<1>1. delCalls \in [DelNames -> DelCall] /\ old \in DelKid BY DelKidOfCall DEF DelInv, DelTyped
<1>2.
  /\ kid \in DelKid /\ kid.tools = old.tools /\ kid.turns = old.turns
  /\ kid.timeout = old.timeout /\ kid.loop = FALSE /\ kid.wrote = old.wrote
  /\ kid.status = IF old.status = "open" THEN how ELSE old.status
  BY <1>1 DEF DelKid, DelStatuses
<1>3. DelKidMoves(old, kid)
 <2> HIDE DEF kid, old
 <2> QED BY <1>2 DEF DelKidMoves
<1>4.
  /\ DelSetKid(c, i, kid) /\ delRoot' = delRoot /\ delSaved' = delSaved
  /\ (c = "outer" /\ i = 1 => delCalls["inner"].state # "open")
  BY DEF DelEnds
<1>5.
  /\ delCalls' \in [DelNames -> DelCall]
  /\ \A d \in DelNames : DelCallMoves(delCalls[d], delCalls'[d])
  /\ \A d \in DelNames : d # c => delCalls'[d] = delCalls[d]
  /\ delCalls'[c].kids = [delCalls[c].kids EXCEPT ![i] = kid]
  /\ delCalls'[c].state = delCalls[c].state
  BY <1>1, <1>2, <1>3, <1>4, DelSetKidMoves
<1>6. delCalls'["inner"].state = delCalls["inner"].state BY <1>5 DEF DelNames
<1>7. ASSUME DelFirstDone(delCalls'["outer"])
  PROVE delCalls'["inner"].state # "open"
 <2>1. CASE c = "outer" /\ i = 1 BY <1>4, <1>6, <2>1
 <2>2. CASE c = "outer" /\ i # 1
  <3>1. delCalls["outer"].kids \in Seq(DelKid) BY <1>1, <2>2, DelCallTyped
  <3>2. /\ Len(delCalls["outer"].kids) \in Nat
        /\ DOMAIN delCalls["outer"].kids = 1 .. Len(delCalls["outer"].kids)
    BY <3>1, Indices
  <3>3. 1 \in DOMAIN delCalls["outer"].kids /\ delCalls["outer"].kids # <<>> BY <2>2, <3>1, <3>2
  <3>4. delCalls'["outer"].kids[1] = delCalls["outer"].kids[1] BY <1>5, <2>2, <3>3
  <3>5. DelFirstDone(delCalls["outer"]) BY <1>5, <1>7, <2>2, <3>3, <3>4 DEF DelFirstDone
  <3> QED BY <1>6, <3>5 DEF DelInv, DelInnerDone
 <2>3. CASE c # "outer" BY <1>5, <1>6, <1>7, <2>3 DEF DelNames, DelInv, DelInnerDone
 <2> QED BY <2>1, <2>2, <2>3
<1> QED BY <1>4, <1>5, <1>7, DelMoveStep
\* Children of a running call are cut off.
LEMMA DelCutMoves ==
  ASSUME NEW entry \in DelCall, entry.state \in {"open", "background"}, NEW which,
    NEW why \in {"timeout", "aborted"}
  PROVE
    LET moved == [entry EXCEPT !.kids = DelCut(entry.kids, which, why)]
    IN  /\ moved \in DelCall /\ moved.state = entry.state /\ DelCallMoves(entry, moved)
        /\ (DelFirstDone(moved) => DelFirstDone(entry))
<1> DEFINE kids == DelCut(entry.kids, which, why)
  moved == [entry EXCEPT !.kids = kids]
<1>1. entry \in DelRunningCall /\ entry.kids \in Seq(DelKid) BY DelCallTyped
<1>2.
  /\ Len(entry.kids) \in Nat /\ DOMAIN entry.kids = 1 .. Len(entry.kids)
  /\ \A i \in DOMAIN entry.kids : entry.kids[i] \in DelKid
  BY <1>1, Indices
<1>3. ASSUME NEW i \in DOMAIN entry.kids
  PROVE
    /\ kids[i] \in DelKid /\ DelKidMoves(entry.kids[i], kids[i])
    /\ (kids[i].status = "completed" => entry.kids[i].status = "completed")
 <2> DEFINE old == entry.kids[i]
 <2>1. old \in DelKid BY <1>2
 <2>2. CASE i \in which /\ old.status = "open"
  <3>1. kids[i] = [old EXCEPT !.status = why] BY <2>2 DEF DelCut
  <3> HIDE DEF kids, old
  <3>2.
    /\ kids[i] \in DelKid /\ kids[i].tools = old.tools /\ kids[i].turns = old.turns
    /\ kids[i].timeout = old.timeout /\ kids[i].loop = old.loop
    /\ kids[i].wrote = old.wrote /\ kids[i].status = why
    BY <2>1, <3>1 DEF DelKid, DelStatuses
  <3>3. DelKidMoves(old, kids[i]) BY <2>2, <3>2 DEF DelKidMoves
  <3> QED BY <3>2, <3>3 DEF old
 <2>3. CASE ~ (i \in which /\ old.status = "open")
  <3>1. kids[i] = old BY <2>3 DEF DelCut
  <3> HIDE DEF kids
  <3> QED BY <2>1, <3>1 DEF DelKidMoves
 <2> QED BY <2>2, <2>3
<1>4. DOMAIN kids = DOMAIN entry.kids /\ kids = [i \in 1 .. Len(entry.kids) |-> kids[i]]
  BY <1>2 DEF DelCut
<1> HIDE DEF kids
<1>5. kids \in [1 .. Len(entry.kids) -> DelKid] BY <1>2, <1>3, <1>4
<1>6. kids \in Seq(DelKid) /\ Len(kids) = Len(entry.kids) BY <1>2, <1>5, FromFunction
<1>7. DelKidsMove(entry.kids, kids) BY <1>3, <1>6 DEF DelKidsMove
<1>8.
  /\ moved \in DelCall /\ moved.state = entry.state /\ moved.request = entry.request
  /\ moved.kids = kids
  BY <1>1, <1>6 DEF DelRunningCall, DelCall
<1> HIDE DEF moved
<1>9. DelCallMoves(entry, moved) BY <1>7, <1>8 DEF DelCallMoves
<1>10. DelFirstDone(moved) => DelFirstDone(entry)
 <2>1. kids # <<>> => entry.kids # <<>> /\ 1 \in DOMAIN entry.kids BY <1>1, <1>2, <1>6
 <2> QED BY <1>3, <1>8, <2>1 DEF DelFirstDone
<1> QED BY <1>8, <1>9, <1>10 DEF moved, kids

\* When some children of running calls are cut off, the rest stays.
LEMMA DelCutStep ==
  ASSUME DelInv, delRoot' = delRoot, delSaved' = delSaved,
    delCalls' \in [DelNames -> DelCall],
    \A c \in DelNames :
      /\ DelCallMoves(delCalls[c], delCalls'[c]) /\ delCalls'[c].state = delCalls[c].state
      /\ DelFirstDone(delCalls'[c]) => DelFirstDone(delCalls[c])
  PROVE DelInv'
<1>1. "outer" \in DelNames /\ "inner" \in DelNames BY DEF DelNames
<1>2. DelFirstDone(delCalls'["outer"]) => delCalls'["inner"].state # "open"
  BY <1>1 DEF DelInv, DelInnerDone
<1> QED BY <1>2, DelMoveStep

LEMMA DelTimeoutStep ==
  ASSUME DelInv, NEW c \in DelNames, NEW i, DelTimeout(c, i)
  PROVE DelInv'
<1>1. delCalls \in [DelNames -> DelCall] BY DEF DelInv, DelTyped
<1>2.
  /\ DelRunning(c) /\ delRoot' = delRoot /\ delSaved' = delSaved
  /\ \E which : DelAbort(c, which, "timeout")
  BY DEF DelTimeout
<1>3. PICK which : DelAbort(c, which, "timeout") BY <1>2
<1> DEFINE below == c = "outer" /\ 1 \in which /\ delCalls[c].kids[1].status = "open"
  New(d) == IF d = c THEN [delCalls[c] EXCEPT !.kids = DelCut(delCalls[c].kids, which, "timeout")]
            ELSE IF d = "inner" /\ below /\ DelRunning("inner")
            THEN [delCalls[d] EXCEPT !.kids = DelCut(delCalls[d].kids, DOMAIN delCalls[d].kids, "aborted")]
            ELSE delCalls[d]
<1>4. delCalls' = [d \in DelNames |-> New(d)] BY <1>3 DEF DelAbort
<1>5. ASSUME NEW d \in DelNames
  PROVE
    /\ New(d) \in DelCall /\ DelCallMoves(delCalls[d], New(d))
    /\ New(d).state = delCalls[d].state
    /\ (DelFirstDone(New(d)) => DelFirstDone(delCalls[d]))
 <2>1. CASE d = c
  <3>1. delCalls[d] \in DelCall /\ delCalls[d].state \in {"open", "background"}
    BY <1>1, <1>2, <2>1 DEF DelRunning
  <3> DEFINE moved == [delCalls[d] EXCEPT !.kids = DelCut(delCalls[d].kids, which, "timeout")]
  <3>2. New(d) = moved BY <2>1
  <3>3. /\ moved \in DelCall /\ moved.state = delCalls[d].state /\ DelCallMoves(delCalls[d], moved)
        /\ (DelFirstDone(moved) => DelFirstDone(delCalls[d]))
    BY <3>1, DelCutMoves
  <3> HIDE DEF New, moved
  <3> QED BY <3>2, <3>3
 <2>2. CASE d # c /\ d = "inner" /\ below /\ DelRunning("inner")
  <3>1. delCalls[d] \in DelCall /\ delCalls[d].state \in {"open", "background"}
    BY <1>1, <2>2 DEF DelRunning
  <3> DEFINE moved == [delCalls[d] EXCEPT !.kids = DelCut(delCalls[d].kids, DOMAIN delCalls[d].kids, "aborted")]
  <3>2. New(d) = moved BY <2>2
  <3>3. /\ moved \in DelCall /\ moved.state = delCalls[d].state /\ DelCallMoves(delCalls[d], moved)
        /\ (DelFirstDone(moved) => DelFirstDone(delCalls[d]))
    BY <3>1, DelCutMoves
  <3> HIDE DEF New, moved
  <3> QED BY <3>2, <3>3
 <2>3. CASE d # c /\ ~ (d = "inner" /\ below /\ DelRunning("inner"))
  <3>1. New(d) = delCalls[d] BY <2>3
  <3> HIDE DEF New
  <3> QED BY <1>1, <3>1 DEF DelCallMoves
 <2> QED BY <2>1, <2>2, <2>3
<1> HIDE DEF New
<1>6.
  /\ delCalls' \in [DelNames -> DelCall]
  /\ \A d \in DelNames : delCalls'[d] = New(d)
  BY <1>4, <1>5
<1> QED BY <1>2, <1>5, <1>6, DelCutStep

LEMMA DelInterruptStep ==
  ASSUME DelInv, DelInterrupt
  PROVE DelInv'
<1>1. delCalls \in [DelNames -> DelCall] /\ delRoot' = delRoot /\ delSaved' = delSaved
  BY DEF DelInv, DelTyped, DelInterrupt
<1> DEFINE
  New(d) == IF DelRunning(d) /\ (d = "inner" => delCalls["outer"].kids[1].status = "open")
            THEN [delCalls[d] EXCEPT !.kids = DelCut(delCalls[d].kids, DOMAIN delCalls[d].kids, "aborted")]
            ELSE delCalls[d]
<1>2. CASE DelRunning("outer")
 <2>1. delCalls' = [d \in DelNames |-> New(d)] BY <1>2 DEF DelInterrupt
 <2>2. ASSUME NEW d \in DelNames
   PROVE
     /\ New(d) \in DelCall /\ DelCallMoves(delCalls[d], New(d))
     /\ New(d).state = delCalls[d].state
     /\ (DelFirstDone(New(d)) => DelFirstDone(delCalls[d]))
  <3>1. CASE DelRunning(d) /\ (d = "inner" => delCalls["outer"].kids[1].status = "open")
   <4>1. delCalls[d] \in DelCall /\ delCalls[d].state \in {"open", "background"}
     BY <1>1, <3>1 DEF DelRunning
   <4> DEFINE moved == [delCalls[d] EXCEPT !.kids = DelCut(delCalls[d].kids, DOMAIN delCalls[d].kids, "aborted")]
   <4>2. New(d) = moved BY <3>1
   <4>3. /\ moved \in DelCall /\ moved.state = delCalls[d].state /\ DelCallMoves(delCalls[d], moved)
         /\ (DelFirstDone(moved) => DelFirstDone(delCalls[d]))
     BY <4>1, DelCutMoves
   <4> HIDE DEF New, moved
   <4> QED BY <4>2, <4>3
  <3>2. CASE ~ (DelRunning(d) /\ (d = "inner" => delCalls["outer"].kids[1].status = "open"))
   <4>1. New(d) = delCalls[d] BY <3>2
   <4> HIDE DEF New
   <4> QED BY <1>1, <4>1 DEF DelCallMoves
  <3> QED BY <3>1, <3>2
 <2> HIDE DEF New
 <2>3.
   /\ delCalls' \in [DelNames -> DelCall]
   /\ \A d \in DelNames : delCalls'[d] = New(d)
   BY <2>1, <2>2
 <2> QED BY <1>1, <2>2, <2>3, DelCutStep
<1>3. CASE ~ DelRunning("outer")
 <2>1. delCalls' = delCalls BY <1>3 DEF DelInterrupt
 <2> QED BY <1>1, <2>1, DelCutStep DEF DelCallMoves
<1> QED BY <1>2, <1>3
--------------------
(* Steps of calls *)

\* A call that has not been answered changes, and nothing is written.
LEMMA DelSetStep ==
  ASSUME DelInv, delRoot' = delRoot, delSaved' = delSaved,
    NEW c \in DelNames, NEW entry \in DelCall, DelSet(c, entry),
    delCalls[c].state \in {"unused", "open", "background"},
    entry.state \in {"open", "background", "ended"} \/ (entry.state = "over" /\ entry.kids = <<>>),
    DelCallFits(c, entry),
    c = "outer" /\ DelFirstDone(entry) => delCalls["inner"].state # "open",
    c = "inner" /\ entry.state = "open" =>
      delCalls["inner"].state = "open" \/ ~ DelFirstDone(delCalls["outer"])
  PROVE DelInv'
<1>1.
  /\ DelTyped /\ DelClaimsTrue /\ DelInnerDone /\ DelInOrder
  /\ \A d \in DelNames : DelCallFits(d, delCalls[d]) /\ DelAgree(d)
  BY DelInvParts
<1>2.
  /\ delCalls' \in [DelNames -> DelCall] /\ delCalls'[c] = entry
  /\ \A d \in DelNames : d # c => delCalls'[d] = delCalls[d]
  BY <1>1 DEF DelTyped, DelSet
<1>3. DelTyped' BY <1>1, <1>2 DEF DelTyped
<1>4. \A d \in DelNames : DelCallFits(d, delCalls[d])'
 <2>1. \A d \in DelNames : DelCallFits(d, delCalls'[d]) BY <1>1, <1>2
 <2> QED BY <2>1, DelFitsPrimed
<1>5. \A i \in DOMAIN delSaved : delSaved[i].call # c BY <1>1 DEF DelAgree
<1>6. \A d \in DelNames : DelAgree(d)'
 <2>1. DelAgree(c)' BY <1>2, <1>5 DEF DelAgree
 <2>2. ASSUME NEW d \in DelNames, d # c
   PROVE DelAgree(d)'
  <3>1. delCalls'[d] = delCalls[d] BY <1>2, <2>2
  <3>2. DelLinesStay(d) /\ DelCallStays(d) /\ delCalls'[d].state = delCalls[d].state
    BY <3>1 DEF DelLinesStay, DelCallStays
  <3> QED BY <1>1, <3>2, DelAgreeStays
 <2> QED BY <2>1, <2>2
<1>7. DelClaimsTrue'
 <2>1. CASE c = "outer" BY <1>5, <2>1 DEF DelClaimsTrue, DelClaims
 <2>2. CASE c # "outer"
  <3>1. delCalls'["outer"] = delCalls["outer"] BY <1>2, <2>2 DEF DelNames
  <3> QED BY <1>1, <3>1 DEF DelClaimsTrue, DelClaims, DelFirstDone
 <2> QED BY <2>1, <2>2
<1>8. DelInnerDone'
 <2>1. CASE c = "outer"
  <3>1. delCalls'["outer"] = entry /\ delCalls'["inner"] = delCalls["inner"]
    BY <1>2, <2>1 DEF DelNames
  <3> QED BY <2>1, <3>1 DEF DelInnerDone, DelFirstDone
 <2>2. CASE c = "inner"
  <3>1. delCalls'["inner"] = entry /\ delCalls'["outer"] = delCalls["outer"]
    BY <1>2, <2>2 DEF DelNames
  <3> QED BY <1>1, <2>2, <3>1 DEF DelInnerDone, DelFirstDone
 <2> QED BY <2>1, <2>2 DEF DelNames
<1>9. DelInOrder' BY <1>1 DEF DelInOrder
<1> QED BY <1>3, <1>4, <1>6, <1>7, <1>8, <1>9, DelInvPartsPrimed

LEMMA DelRefuseStep ==
  ASSUME DelInv, NEW c \in DelNames, NEW request \in DelRequests(c), DelRefuse(c, request)
  PROVE DelInv'
<1> DEFINE entry == DelOver(request, "error", <<>>)
<1>1. request \in DelRequest BY DelRequestTyped
<1>2. <<>> \in Seq(DelKid) BY EmptySeq
<1>3. entry = [state |-> "over", request |-> request, answer |-> "error", kids |-> <<>>]
  BY DEF DelOver
<1>4. entry \in DelOverCall /\ entry.state = "over" /\ entry.kids = <<>>
 <2> HIDE DEF entry
 <2> QED BY <1>1, <1>2, <1>3 DEF DelOverCall
<1>5.
  /\ DelSet(c, entry) /\ delRoot' = delRoot /\ delSaved' = delSaved
  /\ delCalls[c].state = "unused"
  BY DEF DelRefuse, DelCanCall
<1> HIDE DEF entry
<1>6. DelCallFits(c, entry) /\ entry \in DelCall /\ ~ DelFirstDone(entry)
  BY <1>4 DEF DelCallFits, DelCall, DelFirstDone
<1> QED BY <1>4, <1>5, <1>6, DelSetStep

\* As many children as start at once, in their places.
LEMMA DelStartingCount ==
  ASSUME NEW request \in DelRequest
  PROVE
    LET m == Len(DelTasks(request))
        n == Cardinality(DelStarting(request))
    IN  /\ m \in Nat /\ DOMAIN DelTasks(request) = 1 .. m
        /\ n = IF request.shape = "pipeline" THEN 1 ELSE m
<1>1. DelTasks(request) \in Seq(DelPart) BY DelTasksTyped
<1>2.
  /\ Len(DelTasks(request)) \in Nat
  /\ DOMAIN DelTasks(request) = 1 .. Len(DelTasks(request))
  BY <1>1, Indices
<1>3. CASE request.shape = "pipeline"
 <2>1. DelStarting(request) = {1} BY <1>3 DEF DelStarting
 <2> QED BY <1>2, <1>3, <2>1, FS_Singleton
<1>4. CASE request.shape # "pipeline"
 <2>1. DelStarting(request) = 1 .. Len(DelTasks(request)) BY <1>2, <1>4 DEF DelStarting
 <2>2. \A m \in Nat : Cardinality(1 .. m) = m BY FS_Interval
 <2> QED BY <1>2, <1>4, <2>1, <2>2
<1> QED BY <1>3, <1>4

LEMMA DelHasTasks ==
  ASSUME NEW c \in DelNames, NEW request \in DelRequests(c)
  PROVE Len(DelTasks(request)) >= 1
<1>1. request \in DelRequest BY DelRequestTyped
<1>2. CASE request.shape \in {"batch", "pipeline"}
 <2>1. request.subs # <<>> /\ request.subs \in Seq(DelPart)
   BY <1>1, <1>2, DelRequestTyped DEF DelRequest
 <2>2. Len(request.subs) \in Nat /\ Len(request.subs) # 0 BY <2>1, EmptySeq, LenProperties
 <2>3. Len(DelTasks(request)) = Len(request.subs) BY <1>1, <1>2, DelTasksTyped
 <2> QED BY ONLY <2>2, <2>3
<1>3. CASE request.shape \notin {"batch", "pipeline"}
 <2>1. Len(DelTasks(request)) = 1 BY ONLY <1>1, <1>3, DelTasksTyped
 <2> QED BY ONLY <2>1
<1> QED BY ONLY <1>2, <1>3

\* A child that can make a call has not completed.
LEMMA DelCallerBusy ==
  ASSUME DelInv, NEW c \in DelNames, DelCanCall(c)
  PROVE c = "inner" => ~ DelFirstDone(delCalls["outer"])
<1>1. SUFFICES ASSUME c = "inner" PROVE ~ DelFirstDone(delCalls["outer"]) OBVIOUS
<1>2.
  /\ delCalls["outer"].state # "unused" /\ delCalls["outer"].kids # <<>>
  /\ delCalls["outer"].kids[1].loop
  BY <1>1 DEF DelCanCall
<1>3. /\ delCalls["outer"] \in DelCall /\ DelCallFits("outer", delCalls["outer"])
  BY DelInvParts DEF DelTyped, DelNames
<1>4. delCalls["outer"].kids \in Seq(DelKid) /\ 1 \in DOMAIN delCalls["outer"].kids
 <2>1. delCalls["outer"].kids \in Seq(DelKid) BY <1>2, <1>3, DelCallTyped
 <2>2.
   /\ Len(delCalls["outer"].kids) \in Nat
   /\ DOMAIN delCalls["outer"].kids = 1 .. Len(delCalls["outer"].kids)
   BY <2>1, Indices
 <2> QED BY <1>2, <2>1, <2>2
<1>5. DelKidsFit("outer", delCalls["outer"].request, delCalls["outer"].kids)
  BY <1>2, <1>3, DelCallTyped DEF DelCallFits
<1> QED BY <1>2, <1>4, <1>5 DEF DelKidsFit, DelKidFits, DelFirstDone

LEMMA DelBeginStep ==
  ASSUME DelInv, NEW c \in DelNames, NEW request \in DelRequests(c), DelBegin(c, request)
  PROVE DelInv'
<1>1.
  /\ DelCanCall(c) /\ DelMayRun(c, request) /\ request.shape # "both"
  /\ delRoot' = delRoot /\ delSaved' = delSaved
  /\ \E missing : DelSet(c, DelOpened(c, request, missing))
  BY DEF DelBegin
<1>2. PICK missing : DelSet(c, DelOpened(c, request, missing)) BY <1>1
<1> DEFINE n == Cardinality(DelStarting(request))
  m == Len(DelTasks(request))
  Kid(i) == DelChild(c, request, i, i \notin missing)
  kids == [i \in 1 .. n |-> Kid(i)]
  entry == DelOpened(c, request, missing)
<1>3. request \in DelRequest /\ request.background \in BOOLEAN BY DelRequestTyped DEF DelRequest
<1>4.
  /\ m \in Nat /\ m >= 1 /\ DOMAIN DelTasks(request) = 1 .. m
  /\ n = IF request.shape = "pipeline" THEN 1 ELSE m
  BY <1>3, DelStartingCount, DelHasTasks
<1>5. ASSUME NEW i \in 1 .. n
  PROVE
    /\ Kid(i) \in DelKid /\ DelKidFits(c, request, i, Kid(i))
    /\ Kid(i).status # "completed"
 <2>1. i \in DOMAIN DelTasks(request) /\ (i \notin missing) \in BOOLEAN BY <1>4
 <2>2.
   LET kid == DelChild(c, request, i, i \notin missing)
   IN  /\ kid \in DelKid /\ DelKidFits(c, request, i, kid)
       /\ kid.status = IF i \notin missing THEN "open" ELSE "failed"
   BY <1>3, <2>1, DelChildTyped
 <2> QED BY <2>2
<1> HIDE DEF n, m, Kid
<1>6. kids \in [1 .. n -> DelKid] /\ n \in Nat /\ n >= 1 BY <1>4, <1>5
<1>7. kids \in Seq(DelKid) /\ Len(kids) = n /\ DOMAIN kids = 1 .. n BY <1>6, FromFunction
<1>8. kids # <<>> /\ \A i \in DOMAIN kids : kids[i] = Kid(i) BY <1>6, <1>7
<1>9.
  entry = [state |-> IF request.background THEN "background" ELSE "open",
          request |-> request, kids |-> kids]
  BY DEF DelOpened, n, Kid
<1> HIDE DEF kids, entry
<1>10.
  /\ entry \in DelRunningCall /\ entry.request = request /\ entry.kids = kids
  /\ entry.state = (IF request.background THEN "background" ELSE "open")
  BY <1>3, <1>7, <1>9 DEF DelRunningCall
<1>11. DelKidsFit(c, request, kids)
 <2>1. request.shape = "pipeline" => \A i \in DOMAIN kids : ~ i < Len(kids) BY <1>4, <1>7
 <2>2. Len(kids) >= 1 /\ Len(kids) <= m /\ (request.shape # "pipeline" => Len(kids) = m)
   BY <1>4, <1>7
 <2> QED BY <1>1, <1>5, <1>7, <1>8, <2>1, <2>2 DEF DelKidsFit, m
<1>12. request.background => c = "outer" BY <1>1 DEF DelMayRun, DelBackground
<1>13. DelCallFits(c, entry) /\ entry \in DelCall
  BY <1>10, <1>11, <1>12 DEF DelCallFits, DelCall
<1>14. ~ DelFirstDone(entry) BY <1>5, <1>6, <1>7, <1>8, <1>10 DEF DelFirstDone
<1>15. c = "inner" => ~ DelFirstDone(delCalls["outer"]) BY <1>1, DelCallerBusy
<1>16. delCalls[c].state = "unused" BY <1>1 DEF DelCanCall
<1>17. entry.state \in {"open", "background"} BY <1>10
<1>18. DelSet(c, entry) BY <1>2 DEF entry
<1> QED BY <1>1, <1>13, <1>14, <1>15, <1>16, <1>17, <1>18, DelSetStep
LEMMA DelNextStageStep ==
  ASSUME DelInv, NEW c \in DelNames, DelNextStage(c)
  PROVE DelInv'
<1> DEFINE old == delCalls[c]
  request == old.request
  n == Len(old.kids)
<1>1.
  /\ old.state \in {"open", "background"} /\ request.shape = "pipeline"
  /\ Last(old.kids).status = "completed" /\ n < Len(request.subs)
  /\ delRoot' = delRoot /\ delSaved' = delSaved
  BY DEF DelNextStage, DelRunning
<1>2.
  PICK found \in BOOLEAN :
    DelSet(c, [old EXCEPT !.kids = Append(old.kids, DelChild(c, request, n + 1, found))])
  BY DEF DelNextStage
<1> DEFINE kid == DelChild(c, request, n + 1, found)
  kids == Append(old.kids, kid)
  entry == [old EXCEPT !.kids = kids]
<1>3.
  /\ old \in DelCall /\ DelCallFits(c, old)
  /\ (DelFirstDone(delCalls["outer"]) => delCalls["inner"].state # "open")
  BY DelInvParts DEF DelTyped, DelInnerDone
<1>4. old \in DelRunningCall /\ old.kids \in Seq(DelKid) /\ request \in DelRequest
  BY <1>1, <1>3, DelCallTyped
<1>5. DelKidsFit(c, request, old.kids) BY <1>1, <1>3 DEF DelCallFits
<1>6.
  /\ n \in Nat /\ n >= 1 /\ n + 1 <= Len(DelTasks(request)) /\ DOMAIN old.kids = 1 .. n
  /\ Len(DelTasks(request)) \in Nat /\ DOMAIN DelTasks(request) = 1 .. Len(DelTasks(request))
 <2>1. n \in Nat /\ DOMAIN old.kids = 1 .. n /\ n >= 1 BY <1>4, <1>5, Indices DEF DelKidsFit
 <2>2.
   /\ Len(DelTasks(request)) \in Nat /\ DOMAIN DelTasks(request) = 1 .. Len(DelTasks(request))
   /\ Len(DelTasks(request)) = Len(request.subs)
   BY <1>1, <1>4, DelStartingCount, DelTasksTyped
 <2> QED BY <1>1, <2>1, <2>2
<1>7. kid \in DelKid /\ DelKidFits(c, request, n + 1, kid)
 <2>1. n + 1 \in DOMAIN DelTasks(request) BY <1>6
 <2> QED BY <1>4, <2>1, DelChildTyped
<1>8. old.kids[n].status = "completed" BY <1>1, <1>6 DEF Last
<1> HIDE DEF kid
<1>9.
  /\ kids \in Seq(DelKid) /\ Len(kids) = n + 1
  /\ \A i \in 1 .. Len(kids) : kids[i] = IF i <= n THEN old.kids[i] ELSE kid
  BY <1>4, <1>7, AppendNew
<1>10. DOMAIN kids = 1 .. (n + 1) /\ kids # <<>> BY <1>6, <1>9, Indices
<1> HIDE DEF kids
<1>11.
  /\ entry \in DelRunningCall /\ entry.state = old.state /\ entry.request = request
  /\ entry.kids = kids
  BY <1>4, <1>9 DEF DelRunningCall
<1> HIDE DEF entry, request, n
<1>12. DelKidsFit(c, request, kids)
 <2>1. ASSUME NEW i \in DOMAIN kids
   PROVE DelKidFits(c, request, i, kids[i])
  <3>1. CASE i <= n
   <4>1. i \in DOMAIN old.kids /\ kids[i] = old.kids[i] BY <1>6, <1>9, <1>10, <3>1
   <4> QED BY <1>5, <4>1 DEF DelKidsFit
  <3>2. CASE ~ i <= n
   <4>1. i = n + 1 /\ kids[i] = kid BY <1>6, <1>9, <1>10, <3>2
   <4> QED BY <1>7, <4>1
  <3> QED BY <3>1, <3>2
 <2>2. \A i \in DOMAIN kids : i < Len(kids) => kids[i].status = "completed"
  <3>1. SUFFICES ASSUME NEW i \in DOMAIN kids, i < Len(kids)
    PROVE kids[i].status = "completed"
    OBVIOUS
  <3>2. i \in DOMAIN old.kids /\ kids[i] = old.kids[i] /\ (i = n \/ i < n)
    BY <1>6, <1>9, <1>10, <3>1
  <3> QED BY <1>1, <1>5, <1>8, <3>2 DEF DelKidsFit, n, request
 <2>3. Len(kids) >= 1 /\ Len(kids) <= Len(DelTasks(request)) BY <1>6, <1>9
 <2> QED BY <1>1, <1>5, <2>1, <2>2, <2>3 DEF DelKidsFit, request
<1>13. DelCallFits(c, entry) /\ entry \in DelCall
  BY <1>1, <1>3, <1>11, <1>12 DEF DelCallFits, DelCall
<1>14. DelFirstDone(entry) => DelFirstDone(old)
 <2>1. 1 \in DOMAIN old.kids /\ kids[1] = old.kids[1] BY <1>6, <1>9
 <2>2. old.kids # <<>> BY <1>4, <1>6, <2>1
 <2> QED BY <1>11, <2>1, <2>2 DEF DelFirstDone
<1>15. c = "outer" /\ DelFirstDone(entry) => delCalls["inner"].state # "open" BY <1>3, <1>14
<1>16. c = "inner" /\ entry.state = "open" => delCalls["inner"].state = "open" BY <1>11
<1>17. DelSet(c, entry) BY <1>2 DEF entry, kids, kid, n, request
<1>18. entry.state \in {"open", "background"} /\ old.state \in {"unused", "open", "background"}
  BY <1>1, <1>11
<1> QED BY <1>1, <1>13, <1>15, <1>16, <1>17, <1>18, DelSetStep

LEMMA DelBackgroundEndsStep ==
  ASSUME DelInv, DelBackgroundEnds
  PROVE DelInv'
<1> DEFINE old == delCalls["outer"]
  outcome == DelResult(old.request, old.kids)
  reply == IF outcome.reason = "completed" THEN "ok" ELSE "error"
  entry == [DelOver(old.request, reply, old.kids) EXCEPT !.state = "ended"]
<1>1.
  /\ old.state = "background" /\ DelSet("outer", entry) /\ "outer" \in DelNames
  /\ delRoot' = delRoot /\ delSaved' = delSaved
  /\ \A i \in DOMAIN old.kids : old.kids[i].status # "open"
  BY DEF DelBackgroundEnds, DelNames, DelSettled
<1>2.
  /\ old \in DelCall /\ DelCallFits("outer", old)
  /\ (DelFirstDone(old) => delCalls["inner"].state # "open")
  BY <1>1, DelInvParts DEF DelTyped, DelInnerDone
<1>3. old.kids \in Seq(DelKid) /\ old.request \in DelRequest BY <1>1, <1>2, DelCallTyped
<1>4. DelKidsFit("outer", old.request, old.kids) BY <1>1, <1>2 DEF DelCallFits
<1>5.
  outcome.reason = "completed" <=>
    /\ Len(old.kids) = Len(DelTasks(old.request))
    /\ \A i \in DOMAIN old.kids : old.kids[i].status = "completed"
  BY <1>1, <1>3, <1>4, DelResultTrue
<1> HIDE DEF outcome
<1>6. reply \in {"ok", "error"} /\ (reply = "ok" <=> outcome.reason = "completed") OBVIOUS
<1> HIDE DEF reply
<1>7. entry = [state |-> "ended", request |-> old.request, answer |-> reply, kids |-> old.kids]
  BY DEF DelOver
<1> HIDE DEF entry
<1>8.
  /\ entry \in DelOverCall /\ entry.state = "ended" /\ entry.request = old.request
  /\ entry.answer = reply /\ entry.kids = old.kids
  BY <1>3, <1>6, <1>7 DEF DelOverCall
<1>9. DelAnswered(entry) BY <1>1, <1>5, <1>6, <1>8 DEF DelAnswered, DelAllDone
<1>10. entry.kids # <<>>
 <2>1. Len(old.kids) >= 1 BY <1>4 DEF DelKidsFit
 <2> QED BY <1>3, <1>8, <2>1
<1>11. DelCallFits("outer", entry) /\ entry \in DelCall
  BY <1>4, <1>8, <1>9, <1>10 DEF DelCallFits, DelCall
<1>12. DelFirstDone(entry) => delCalls["inner"].state # "open"
  BY <1>1, <1>2, <1>8 DEF DelFirstDone
<1>13.
  /\ old.state \in {"unused", "open", "background"}
  /\ entry.state \in {"open", "background", "ended"}
  BY <1>1, <1>8
<1> QED BY <1>1, <1>11, <1>12, <1>13, DelSetStep
\* What was written before a write failed is true as well.
LEMMA DelPrefixWritten ==
  ASSUME NEW c, NEW kids, NEW done, NEW all, DelWritten(c, kids, done, all),
    NEW i \in DOMAIN all
  PROVE DelWritten(c, kids, done, SubSeq(all, 1, i - 1))
<1> DEFINE r == SubSeq(all, 1, i - 1)
  n == Len(all)
<1>1.
  /\ all \in Seq(DelLine) /\ n \in Nat /\ DOMAIN all = 1 .. n
  /\ i \in Nat /\ i >= 1 /\ i <= n
  BY Indices DEF DelWritten
<1>2. r \in Seq(DelLine) /\ Len(r) = i - 1 /\ \A j \in 1 .. Len(r) : r[j] = all[j]
 <2>1. \A j \in 1 .. (i - 1) : all[j] \in DelLine BY <1>1, Indices
 <2>2. r = [j \in 1 .. (i - 1) |-> all[j]] BY <1>1
 <2>3. [j \in 1 .. (i - 1) |-> all[j]] \in [1 .. (i - 1) -> DelLine] BY <2>1
 <2>4. i - 1 \in Nat BY <1>1
 <2> HIDE DEF r
 <2>5. r \in Seq(DelLine) /\ Len(r) = i - 1 BY <2>2, <2>3, <2>4, FromFunction
 <2> QED BY <2>2, <2>4, <2>5
<1> HIDE DEF r, n
<1>3. DOMAIN r = 1 .. (i - 1) BY <1>2, Indices
<1>4. \A j \in DOMAIN r : j \in DOMAIN all /\ r[j] = all[j] BY <1>1, <1>2, <1>3
<1> QED BY <1>2, <1>4 DEF DelWritten, r

\* A call is answered, or fails to be, and its lines are added to the others.
LEMMA DelAnswerStep ==
  ASSUME DelInv, delRoot' = delRoot, NEW c \in DelNames, NEW entry \in DelOverCall,
    NEW done \in BOOLEAN, NEW all, DelSet(c, entry), delSaved' = delSaved \o all,
    delCalls[c].state \in {"unused", "open"}, entry.state \in {"over", "failed"},
    DelCallFits(c, entry), DelWritten(c, entry.kids, done, all),
    entry.state = "over" =>
      /\ (entry.answer = "ok") = done
      /\ delRoot.saver => DelComplete(entry.request, entry.kids, all),
    done => DelFirstDone(entry),
    DelFirstDone(entry) /\ c = "outer" => delCalls["inner"].state # "open",
    c = "inner" => ~ DelFirstDone(delCalls["outer"])
  PROVE DelInv'
<1>1.
  /\ DelTyped /\ DelClaimsTrue /\ DelInnerDone /\ DelInOrder
  /\ \A d \in DelNames : DelCallFits(d, delCalls[d]) /\ DelAgree(d)
  BY DelInvParts
<1>2. entry \in DelCall /\ entry.kids \in Seq(DelKid) BY DEF DelCall, DelOverCall
<1>3.
  /\ delCalls' \in [DelNames -> DelCall] /\ delCalls'[c] = entry
  /\ \A d \in DelNames : d # c => delCalls'[d] = delCalls[d]
  BY <1>1, <1>2 DEF DelTyped, DelSet
<1>4. delSaved \in Seq(DelLine) /\ all \in Seq(DelLine) BY <1>1 DEF DelTyped, DelWritten
<1> DEFINE n == Len(delSaved)
<1>5.
  /\ delSaved' \in Seq(DelLine) /\ n \in Nat /\ DOMAIN delSaved = 1 .. n
  /\ \A i \in DOMAIN delSaved : i \in DOMAIN delSaved' /\ delSaved'[i] = delSaved[i]
  /\ \A i \in DOMAIN delSaved' : \/ i \in DOMAIN delSaved
                                 \/ i > n /\ i - n \in DOMAIN all /\ delSaved'[i] = all[i - n]
  /\ \A i \in DOMAIN delSaved' : i \in Nat
  BY <1>4, DelAppended
<1> HIDE DEF n
<1>6. \A i \in DOMAIN delSaved : delSaved[i].call # c BY <1>1 DEF DelAgree
<1>7.
  \A i \in DOMAIN delSaved' :
    \/ i \in DOMAIN delSaved /\ delSaved'[i] = delSaved[i] /\ delSaved'[i].call # c
    \/ /\ i > n /\ i \notin DOMAIN delSaved /\ delSaved'[i].call = c
       /\ DelLineFits(c, entry.kids, done, delSaved'[i])
  BY <1>5, <1>6 DEF DelWritten, DelLineFits
<1>8. DelTyped' BY <1>1, <1>3, <1>5 DEF DelTyped
<1>9. \A d \in DelNames : DelCallFits(d, delCalls[d])'
 <2>1. \A d \in DelNames : DelCallFits(d, delCalls'[d]) BY <1>1, <1>3
 <2> QED BY <2>1, DelFitsPrimed
<1>10. DelAgree(c)'
 <2>1. CASE entry.state = "over" /\ entry.kids # <<>>
  <3>1. DelWholeTold(c)' /\ DelChildrenTold(c)' BY <1>2, <1>3, <1>4, <1>6, <2>1, DelAgreeNew
  <3> QED BY <1>3, <2>1, <3>1 DEF DelAgree
 <2>2. CASE ~ (entry.state = "over" /\ entry.kids # <<>>) BY <1>3, <2>2 DEF DelAgree
 <2> QED BY <2>1, <2>2
<1>11. ASSUME NEW d \in DelNames, d # c
  PROVE DelAgree(d)'
 <2>1. delCalls'[d] = delCalls[d] BY <1>3, <1>11
 <2>2. DelLinesStay(d) BY <1>5, <1>7, <1>11 DEF DelLinesStay
 <2>3. DelCallStays(d) /\ delCalls'[d].state = delCalls[d].state BY <2>1 DEF DelCallStays
 <2> QED BY <1>1, <2>2, <2>3, DelAgreeStays
<1>12. DelClaimsTrue'
 <2>1. ASSUME NEW i \in DOMAIN delSaved', DelClaims(delSaved'[i])
   PROVE delCalls'["outer"].state \in {"over", "failed"} /\ DelFirstDone(delCalls'["outer"])
  <3>1. CASE c = "outer"
   <4>1. DelLineFits(c, entry.kids, done, delSaved'[i]) /\ delCalls'["outer"] = entry
     BY <1>3, <1>7, <2>1, <3>1 DEF DelClaims
   <4>2. CASE delSaved'[i].kind = "single"
     BY <2>1, <4>1, <4>2 DEF DelClaims, DelLineFits, DelIsWhole
   <4>3. CASE delSaved'[i].kind = "child" /\ delSaved'[i].kid = 1
    <5>1. 1 \in DOMAIN entry.kids /\ entry.kids[1].status = "completed"
      BY <2>1, <4>1, <4>3 DEF DelClaims, DelLineFits
    <5>2. entry.kids # <<>> BY <1>2, <5>1
    <5> QED BY <4>1, <5>1, <5>2 DEF DelFirstDone
   <4> QED BY <2>1, <4>2, <4>3 DEF DelClaims
  <3>2. CASE c # "outer"
   <4>1. delCalls'["outer"] = delCalls["outer"] BY <1>3, <3>2 DEF DelNames
   <4>2. i \in DOMAIN delSaved /\ delSaved'[i] = delSaved[i] BY <1>7, <2>1, <3>2 DEF DelClaims
   <4> QED BY <1>1, <2>1, <4>1, <4>2 DEF DelClaimsTrue
  <3> QED BY <3>1, <3>2
 <2> QED BY <2>1 DEF DelClaimsTrue, DelClaims, DelFirstDone
<1>13. DelInnerDone'
 <2>1. CASE c = "outer"
  <3>1. delCalls'["outer"] = entry /\ delCalls'["inner"] = delCalls["inner"]
    BY <1>3, <2>1 DEF DelNames
  <3> QED BY <2>1, <3>1 DEF DelInnerDone, DelFirstDone
 <2>2. CASE c = "inner"
  <3>1. delCalls'["inner"] = entry BY <1>3, <2>2 DEF DelNames
  <3> QED BY <3>1 DEF DelInnerDone, DelFirstDone
 <2> QED BY <2>1, <2>2 DEF DelNames
<1>14. DelInOrder'
 <2>1. ASSUME NEW i \in DOMAIN delSaved', NEW j \in DOMAIN delSaved',
     delSaved'[i].call = "outer", delSaved'[j].call = "inner", i < j,
     DelClaims(delSaved'[i])
   PROVE FALSE
  <3>1. CASE c = "outer"
   <4>1. i > n /\ j \in DOMAIN delSaved BY <1>7, <2>1, <3>1
   <4> QED BY <1>5, <2>1, <4>1
  <3>2. CASE c = "inner"
   <4>1. i \in DOMAIN delSaved /\ delSaved'[i] = delSaved[i] BY <1>7, <2>1, <3>2
   <4>2. DelFirstDone(delCalls["outer"]) BY <1>1, <2>1, <4>1 DEF DelClaimsTrue
   <4> QED BY <3>2, <4>2
  <3> QED BY <3>1, <3>2 DEF DelNames
 <2> QED BY <2>1 DEF DelInOrder, DelClaims
<1> QED BY <1>8, <1>9, <1>10, <1>11, <1>12, <1>13, <1>14, DelInvPartsPrimed
LEMMA DelPersistStep ==
  ASSUME DelInv, delRoot' = delRoot, NEW c \in DelNames, NEW request \in DelRequests(c),
    NEW kids \in Seq(DelKid), NEW outcome, NEW done \in BOOLEAN,
    DelPersist(c, request, kids, outcome), delCalls[c].state \in {"unused", "open"},
    outcome.reason \in DelStatuses \cup {"error"}, outcome.partial \in BOOLEAN,
    outcome.counts \in Seq(Nat), outcome.reason = "completed" <=> done,
    done => ~ outcome.partial,
    request.shape = "batch" /\ kids # <<>> =>
      outcome.counts[1] + outcome.counts[2] = Len(kids),
    kids = <<>> => ~ done,
    kids # <<>> =>
      /\ DelKidsFit(c, request, kids)
      /\ \A i \in DOMAIN kids : kids[i].status # "open"
      /\ done <=> /\ Len(kids) = Len(DelTasks(request))
                  /\ \A i \in DOMAIN kids : kids[i].status = "completed",
    kids # <<>> /\ kids[1].status = "completed" /\ c = "outer" =>
      delCalls["inner"].state # "open",
    c = "inner" => ~ DelFirstDone(delCalls["outer"])
  PROVE DelInv'
<1>1.
  PICK evidence \in BOOLEAN :
    LET all == DelPersisted(c, request, kids, outcome, evidence)
        told == IF outcome.reason = "completed" THEN "ok" ELSE "error"
    IN  \/ /\ delSaved' = delSaved \o all
           /\ DelSet(c, DelOver(request, told, kids))
        \/ \E i \in DOMAIN all :
             /\ all[i].kind # "evidence" /\ delSaved' = delSaved \o SubSeq(all, 1, i - 1)
             /\ DelSet(c, [DelOver(request, "error", kids) EXCEPT !.state = "failed"])
  BY DEF DelPersist
<1> DEFINE all == DelPersisted(c, request, kids, outcome, evidence)
  told == IF outcome.reason = "completed" THEN "ok" ELSE "error"
  over == DelOver(request, told, kids)
  failed == [DelOver(request, "error", kids) EXCEPT !.state = "failed"]
<1>2. request \in DelRequest /\ delRoot \in DelRoots BY DelRequestTyped DEF DelInv, DelTyped
<1>3. DelWritten(c, kids, done, all) /\ (delRoot.saver => DelComplete(request, kids, all))
  BY <1>2, DelPersistedFits
<1>4. told \in {"ok", "error"} /\ (told = "ok") = done OBVIOUS
<1>5.
  \/ delSaved' = delSaved \o all /\ DelSet(c, over)
  \/ \E i \in DOMAIN all :
       delSaved' = delSaved \o SubSeq(all, 1, i - 1) /\ DelSet(c, failed)
  BY <1>1
<1> HIDE DEF all, told
<1>6. over = [state |-> "over", request |-> request, answer |-> told, kids |-> kids]
  BY DEF DelOver
<1>7. failed = [state |-> "failed", request |-> request, answer |-> "error", kids |-> kids]
  BY DEF DelOver
<1> HIDE DEF over, failed
<1>8.
  /\ over \in DelOverCall /\ over.state = "over" /\ over.request = request
  /\ over.answer = told /\ over.kids = kids
  BY <1>2, <1>4, <1>6 DEF DelOverCall
<1>9.
  /\ failed \in DelOverCall /\ failed.state = "failed" /\ failed.request = request
  /\ failed.answer = "error" /\ failed.kids = kids
  BY <1>2, <1>7 DEF DelOverCall
<1>10. DelCallFits(c, over)
 <2>1. kids # <<>> => DelAnswered(over) BY <1>4, <1>8 DEF DelAnswered, DelAllDone
 <2> QED BY <1>8, <2>1 DEF DelCallFits
<1>11. DelCallFits(c, failed)
 <2>1. kids # <<>> => DelAnswered(failed) BY <1>9 DEF DelAnswered, DelAllDone
 <2> QED BY <1>9, <2>1 DEF DelCallFits
<1>12. kids # <<>> => 1 \in DOMAIN kids
 <2>1. Len(kids) \in Nat /\ DOMAIN kids = 1 .. Len(kids) BY Indices
 <2> QED BY <2>1 DEF DelKidsFit
<1>13. done => DelFirstDone(over) /\ DelFirstDone(failed) BY <1>8, <1>9, <1>12 DEF DelFirstDone
<1>14.
  /\ DelFirstDone(over) /\ c = "outer" => delCalls["inner"].state # "open"
  /\ DelFirstDone(failed) /\ c = "outer" => delCalls["inner"].state # "open"
  BY <1>8, <1>9 DEF DelFirstDone
<1>15. CASE delSaved' = delSaved \o all /\ DelSet(c, over)
 <2>1.
   over.state = "over" => /\ (over.answer = "ok") = done
                          /\ (delRoot.saver => DelComplete(over.request, over.kids, all))
   BY <1>3, <1>4, <1>8
 <2>2. DelWritten(c, over.kids, done, all) /\ over.state \in {"over", "failed"} BY <1>3, <1>8
 <2> QED BY <1>8, <1>10, <1>13, <1>14, <1>15, <2>1, <2>2, DelAnswerStep
<1>16. ASSUME NEW i \in DOMAIN all,
    delSaved' = delSaved \o SubSeq(all, 1, i - 1), DelSet(c, failed)
  PROVE DelInv'
 <2> DEFINE some == SubSeq(all, 1, i - 1)
 <2>1. DelWritten(c, failed.kids, done, some) BY <1>3, <1>9, DelPrefixWritten
 <2>2. failed.state # "over" /\ failed.state \in {"over", "failed"} BY <1>9
 <2>3. delSaved' = delSaved \o some BY <1>16
 <2> HIDE DEF some
 <2> QED BY <1>9, <1>11, <1>13, <1>14, <1>16, <2>1, <2>2, <2>3, DelAnswerStep
<1> QED BY <1>5, <1>15, <1>16

LEMMA DelReturnStep ==
  ASSUME DelInv, NEW c \in DelNames, DelReturn(c)
  PROVE DelInv'
<1> DEFINE old == delCalls[c]
  outcome == DelResult(old.request, old.kids)
  done == /\ Len(old.kids) = Len(DelTasks(old.request))
          /\ \A i \in DOMAIN old.kids : old.kids[i].status = "completed"
<1>1.
  /\ old.state = "open" /\ delRoot' = delRoot
  /\ \A i \in DOMAIN old.kids : old.kids[i].status # "open"
  /\ DelPersist(c, old.request, old.kids, outcome)
  BY DEF DelReturn, DelSettled
<1>2.
  /\ old \in DelCall /\ DelCallFits(c, old)
  /\ (DelFirstDone(delCalls["outer"]) => delCalls["inner"].state # "open")
  BY DelInvParts DEF DelTyped, DelInnerDone
<1>3. old.kids \in Seq(DelKid) /\ DelKidsFit(c, old.request, old.kids)
  BY <1>1, <1>2, DelCallTyped DEF DelCallFits
<1>4. old.request \in DelRequests(c) BY <1>3 DEF DelKidsFit
<1>5.
  /\ outcome.reason \in DelStatuses \cup {"error"} /\ outcome.partial \in BOOLEAN
  /\ outcome.counts \in Seq(Nat) /\ (outcome.reason = "completed" <=> done)
  /\ (done => ~ outcome.partial)
  /\ (old.request.shape = "batch" => outcome.counts[1] + outcome.counts[2] = Len(old.kids))
  BY <1>1, <1>3, DelResultTrue
<1>6. old.kids # <<>>
 <2>1. Len(old.kids) >= 1 BY <1>3 DEF DelKidsFit
 <2> QED BY <1>3, <2>1
<1>7. done \in BOOLEAN OBVIOUS
<1>8. old.kids[1].status = "completed" /\ c = "outer" => delCalls["inner"].state # "open"
  BY <1>1, <1>2, <1>6 DEF DelFirstDone
<1>9. c = "inner" => ~ DelFirstDone(delCalls["outer"]) BY <1>1, <1>2
<1>10.
  done <=> /\ Len(old.kids) = Len(DelTasks(old.request))
           /\ \A i \in DOMAIN old.kids : old.kids[i].status = "completed"
  OBVIOUS
<1> HIDE DEF outcome, done
<1> QED BY <1>1, <1>3, <1>4, <1>5, <1>6, <1>7, <1>8, <1>9, <1>10, DelPersistStep

LEMMA DelAtOnceStep ==
  ASSUME DelInv, NEW c \in DelNames, NEW request \in DelRequests(c), DelAtOnce(c, request)
  PROVE DelInv'
<1> DEFINE
  outcome == [reason |-> IF c \in delTold THEN "aborted" ELSE "error",
             partial |-> FALSE, counts |-> <<0, 0>>]
<1>1. DelCanCall(c) /\ DelPersist(c, request, <<>>, outcome) /\ delRoot' = delRoot
  BY DEF DelAtOnce
<1>2. delCalls[c].state = "unused" BY <1>1 DEF DelCanCall
<1>3.
  /\ outcome.reason \in {"aborted", "error"} /\ outcome.partial = FALSE
  /\ outcome.counts = <<0, 0>>
  OBVIOUS
<1>4. <<0, 0>> \in Seq(Nat) OBVIOUS
<1> HIDE DEF outcome
<1>5.
  /\ outcome.reason \in DelStatuses \cup {"error"} /\ outcome.partial \in BOOLEAN
  /\ outcome.counts \in Seq(Nat) /\ (outcome.reason = "completed" <=> FALSE)
  BY <1>3, <1>4 DEF DelStatuses
<1>6. c = "inner" => ~ DelFirstDone(delCalls["outer"]) BY <1>1, DelCallerBusy
<1>7. <<>> \in Seq(DelKid) BY EmptySeq
<1> DEFINE kids == <<>>
<1>8. kids \in Seq(DelKid) /\ kids = <<>> /\ DelPersist(c, request, kids, outcome) BY <1>1, <1>7
<1> HIDE DEF kids
<1> QED BY <1>1, <1>2, <1>5, <1>6, <1>8, DelPersistStep
--------------------
(* The theorems *)

LEMMA DelInitInv ==
  ASSUME DelInit
  PROVE DelInv
<1>1. \A c \in DelNames : delCalls[c] = DelNoCall /\ delCalls[c].state = "unused"
  BY DEF DelInit, DelNoCall
<1>2. /\ delSaved = <<>> /\ delSaved \in Seq(DelLine) /\ DOMAIN delSaved = {}
  BY EmptySeq DEF DelInit
<1>3. DelTyped BY <1>2 DEF DelTyped, DelInit, DelCall
<1>4. \A c \in DelNames : DelCallFits(c, delCalls[c]) /\ DelAgree(c)
  BY <1>1, <1>2 DEF DelCallFits, DelAgree
<1>5. DelClaimsTrue /\ DelInnerDone /\ DelInOrder
  BY <1>1, <1>2 DEF DelClaimsTrue, DelInnerDone, DelInOrder, DelFirstDone, DelNames
<1> QED BY <1>3, <1>4, <1>5, DelInvParts

LEMMA DelNextInv ==
  ASSUME DelInv, [DelNext]_delVars
  PROVE DelInv'
<1>1. ASSUME NEW c \in DelNames, NEW request \in DelRequests(c),
    DelRefuse(c, request) \/ DelBegin(c, request) \/ DelAtOnce(c, request)
  PROVE DelInv'
  BY <1>1, DelRefuseStep, DelBeginStep, DelAtOnceStep
<1>2. ASSUME NEW c \in DelNames, DelKidSteps(c)
  PROVE DelInv'
 <2>1. delCalls[c].state # "unused" BY <1>2 DEF DelKidSteps
 <2>2.
   PICK i \in DOMAIN delCalls[c].kids :
     \/ DelWrite(c, i)
     \/ \E how \in {"completed", "failed"} : DelEnds(c, i, how)
     \/ DelTimeout(c, i)
   BY <1>2 DEF DelKidSteps
 <2>3. CASE DelWrite(c, i) BY <2>1, <2>3, DelWriteStep
 <2>4. CASE \E how \in {"completed", "failed"} : DelEnds(c, i, how) BY <2>1, <2>4, DelEndsStep
 <2>5. CASE DelTimeout(c, i) BY <2>5, DelTimeoutStep
 <2> QED BY <2>2, <2>3, <2>4, <2>5
<1>3. ASSUME NEW c \in DelNames, DelNextStage(c) \/ DelReturn(c)
  PROVE DelInv'
  BY <1>3, DelNextStageStep, DelReturnStep
<1>4. CASE UNCHANGED delVars
 <2>1.
   /\ delCalls' = delCalls /\ delRoot' = delRoot /\ delSaved' = delSaved
   /\ delCalls \in [DelNames -> DelCall]
   BY <1>4 DEF delVars, DelInv, DelTyped
 <2> QED BY <2>1, DelCutStep DEF DelCallMoves
<1> QED
  BY <1>1, <1>2, <1>3, <1>4, DelInterruptStep, DelBackgroundEndsStep DEF DelNext, DelRequests

\* Every child that was given to a call stays within its limits.
LEMMA DelInvWithin ==
  ASSUME DelInv
  PROVE DelWithinLimits
<1>1. SUFFICES ASSUME NEW c \in DelNames, delCalls[c].state # "unused",
    NEW i \in DOMAIN delCalls[c].kids
  PROVE DelChildLimited(c, i)
  BY DEF DelWithinLimits
<1> DEFINE entry == delCalls[c]
<1>2. entry \in DelCall /\ DelCallFits(c, entry) BY DelInvParts DEF DelTyped
<1>3. entry.kids \in Seq(DelKid) /\ entry.kids[i] \in DelKid
 <2>1. entry.kids \in Seq(DelKid) BY <1>1, <1>2, DelCallTyped
 <2> QED BY <1>1, <2>1, Indices
<1>4. entry.kids # <<>> BY <1>1
<1>5. DelKidsFit(c, entry.request, entry.kids) BY <1>1, <1>2, <1>4, DelCallTyped DEF DelCallFits
<1>6.
  /\ entry.request \in DelRequests(c) /\ entry.request.shape # "both"
  /\ DelKidFits(c, entry.request, i, entry.kids[i])
  BY <1>1, <1>5 DEF DelKidsFit
<1>7. i \in DOMAIN DelTasks(entry.request)
 <2>1.
   /\ Len(DelTasks(entry.request)) \in Nat
   /\ DOMAIN DelTasks(entry.request) = 1 .. Len(DelTasks(entry.request))
   BY <1>6, DelRequestTyped, DelStartingCount
 <2>2.
   /\ Len(entry.kids) \in Nat /\ i \in 1 .. Len(entry.kids)
   /\ Len(entry.kids) <= Len(DelTasks(entry.request))
   BY <1>1, <1>3, <1>5, Indices DEF DelKidsFit
 <2> QED BY <2>1, <2>2
<1>8. entry.kids[i].wrote => DelWriting \cap entry.kids[i].tools # {} /\ delRoot.rule = "write-allowed"
  BY <1>6 DEF DelKidFits
<1> DEFINE request == entry.request
  kid == entry.kids[i]
  sub == IF request.shape = "single" THEN request ELSE request.subs[i]
<1>9.
  /\ kid.turns \in 1 .. (IF c = "outer" THEN 8 ELSE 3)
  /\ (DelWriting \cap kid.tools # {} =>
       /\ c = "outer"
       /\ <<TRUE>> \in {sub.write, request.write} /\ sub.write # <<FALSE>>)
  /\ (c = "inner" => /\ "Agent" \notin kid.tools
                     /\ kid.timeout # <<>> /\ kid.timeout[1] <= 15)
  /\ (sub.tools # <<>> => kid.tools \subseteq sub.tools[1])
 <2>1.
   /\ request \in DelRequests(c) /\ request.shape # "both"
   /\ i \in DOMAIN DelTasks(request) /\ kid \in DelKid /\ DelKidFits(c, request, i, kid)
   BY <1>3, <1>6, <1>7
 <2> HIDE DEF request, kid
 <2> QED BY <2>1, DelChildWithin
<1> QED BY ONLY <1>8, <1>9 DEF DelChildLimited

LEMMA DelInvTold ==
  ASSUME DelInv
  PROVE DelegationTold
<1>1. DelAnswersTrue BY DEF DelInv, DelAnswersTrue, DelCallFits, DelAnswered
<1> QED BY <1>1, DelInvWithin DEF DelegationTold, DelInv

\* Children, answers, session file and order agree in every reachable state (DelInv).
THEOREM DelegationInvariant == DelSpec => []DelInv
<1>1. DelInit => DelInv BY DelInitInv
<1>2. DelInv /\ [DelNext]_delVars => DelInv' BY DelNextInv
<1> QED BY <1>1, <1>2, PTL DEF DelSpec

\* Whatever is asked for and in however many parts, the caller, the session file and the
\* evidence are told what the children did, and the children keep to their limits.
THEOREM DelegationIsTold == DelSpec => []DelegationTold
<1>1. DelInv => DelegationTold BY DelInvTold
<1> QED BY <1>1, DelegationInvariant, PTL
====
