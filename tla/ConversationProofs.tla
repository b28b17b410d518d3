---- MODULE ConversationProofs ----
(***************************************************************************)
(* Safety of what the program remembers of a conversation.                 *)
(*                                                                         *)
(* Conversation, for any number of messages, restarts, markers and tools,  *)
(* any window and any sizes.  IInv orders the messages by their ids: the   *)
(* UI's, the run's, its copy and the session file all have them in that    *)
(* one order, so that they agree wherever they have the same.              *)
(*                                                                         *)
(* Sessions, for any number of writes, runs and crashes.  SsInv orders the *)
(* file: the numbers of its messages and the dates of its records rise,    *)
(* and only its last line may lack an end.                                 *)
(***************************************************************************)
EXTENDS Conversation, Sessions, SequenceLemmas

IsReal(m) == m.kind # "summary"

\* A result comes right after its use, which has the same id.
Rank(m) == IF m.kind = "result" THEN 2 * m.id + 1 ELSE 2 * m.id

Ordered(ms) ==
  \A i, j \in DOMAIN ms : i < j /\ IsReal(ms[i]) /\ IsReal(ms[j]) => Rank(ms[i]) < Rank(ms[j])

Below(ms, top) ==
  \A i \in DOMAIN ms : IsReal(ms[i]) => ms[i].id >= 1 /\ Rank(ms[i]) <= top

Within(ms, file) ==
  \A i \in DOMAIN ms : IsReal(ms[i]) => \E k \in DOMAIN file : file[k] = ms[i]

Before(ms, others) ==
  \A i \in DOMAIN ms, j \in DOMAIN others : IsReal(ms[i]) => Rank(ms[i]) < Rank(others[j])

AllReal(ms) == \A i \in DOMAIN ms : IsReal(ms[i])

Open == IF pc = "tools" THEN 1 ELSE 0
Top == 2 * nextId + 1 - Open

Phases == run = "none" <=> pc = "idle"

\* Two messages for every id, but the last may still wait for its result.
Rooms ==
  /\ Len(saved) + Open <= 2 * nextId /\ Len(local) + Open <= 2 * nextId
  /\ Len(messages) + (IF run = "chat" THEN Len(persisted) ELSE 0) + Open <= 2 * nextId

Orders ==
  /\ Ordered(messages) /\ Below(messages, Top)
  /\ Ordered(saved) /\ Below(saved, Top) /\ AllReal(saved)
  /\ Ordered(local) /\ Below(local, Top)
  /\ Ordered(persisted) /\ Below(persisted, Top) /\ AllReal(persisted)
  /\ run = "chat" => Before(messages, persisted)

WrittenAhead ==
  /\ Within(messages, saved)
  /\ run = "chat" => Within(local, saved) /\ Within(persisted, saved)

Agrees == clean => saved = IF run = "chat" THEN messages \o persisted ELSE messages

Cuts == Cardinality(Dangling) <= cut + (IF pc = "tools" /\ run = "chat" THEN 1 ELSE 0)

Newest ==
  /\ pc \in {"top", "tools"} => local # <<>> /\ Last(local).id = nextId
  /\ pc = "top" => Last(local).kind \in {"user", "result"}
  /\ (pc = "tools" /\ run = "chat") =>
       saved # <<>> /\ Last(saved).kind = "use" /\ Last(saved).id = nextId
  /\ NewestReachesProvider

IInv == TypeOK /\ Phases /\ Rooms /\ Orders /\ WrittenAhead /\ Agrees /\ Cuts /\ Newest

--------------------
(* What compaction is made of *)

LEMMA Sizes ==
  ASSUME NEW m \in Message
  PROVE
    /\ m.kind \in Kind /\ m.id \in 0..MaxMessages /\ m.id \in Nat /\ m.size \in Nat \ {0}
    /\ Rank(m) \in Nat
<1>1.
  /\ m.kind \in Kind /\ m.id \in 0..MaxMessages /\ MaxMessages \in Nat
  /\ m.size \in {1} \cup ResultSizes
  BY BoundsAssumption DEF Message
<1>2. m.size \in Nat \ {0}
 <2>1. 1 \in Nat \ {0} /\ ResultSizes \subseteq Nat \ {0} BY BudgetAssumption
 <2> QED BY <1>1, <2>1
<1>3. m.id \in Nat BY <1>1
<1>4. Rank(m) \in Nat BY <1>3 DEF Rank
<1> QED BY <1>1, <1>2, <1>3, <1>4

LEMMA SummaryType == Summary \in Message /\ ~ IsReal(Summary) /\ Summary.size = 1
BY BoundsAssumption DEF Summary, Msg, Message, Kind, IsReal

\* The sum of the first n sizes.
Sums(ms, first) ==
  /\ first \in [0..Len(ms) -> Nat] /\ first[0] = 0
  /\ \A n \in 1..Len(ms) : first[n] = first[n - 1] + ms[n].size

LEMMA TokensAreSums ==
  ASSUME NEW ms \in Seq(Message)
  PROVE \E first : Sums(ms, first) /\ Tokens(ms) = first[Len(ms)]
<1> DEFINE size(n) == IF n + 1 \in 1..Len(ms) THEN ms[n + 1].size ELSE 0
  step == [n \in Nat |-> [v \in Nat |-> v + size(n)]]
  Is(f) == f = [n \in 0..Len(ms) |-> IF n = 0 THEN 0 ELSE f[n - 1] + ms[n].size]
  first == CHOOSE f : Is(f)
<1>1. Len(ms) \in Nat /\ \A n \in 1..Len(ms) : ms[n].size \in Nat BY Indices, Sizes
<1>2. step \in [Nat -> [Nat -> Nat]] BY <1>1
<1>3. PICK f : Recurs(f, Nat, 0, step)
 <2> HIDE DEF step
 <2> QED BY <1>2, Recursion
<1>4.
  /\ f \in [Nat -> Nat] /\ f[0] = 0
  /\ \A n \in 1..Len(ms) : f[n] = f[n - 1] + ms[n].size
 <2>1. f \in [Nat -> Nat] /\ f[0] = 0 /\ \A n \in Nat : f[n + 1] = step[n][f[n]]
  <3> HIDE DEF step
  <3> QED BY <1>3 DEF Recurs
 <2>2. ASSUME NEW n \in 1..Len(ms)
   PROVE f[n] = f[n - 1] + ms[n].size
  <3>1. n - 1 \in Nat /\ (n - 1) + 1 = n BY <1>1
  <3>2. f[n] = step[n - 1][f[n - 1]] /\ f[n - 1] \in Nat
   <4> HIDE DEF step
   <4> QED BY <2>1, <3>1
  <3>3. step[n - 1][f[n - 1]] = f[n - 1] + ms[n].size BY <3>1, <3>2
  <3> QED BY <3>2, <3>3
 <2> QED BY <2>1, <2>2
<1>5. Is([n \in 0..Len(ms) |-> f[n]])
 <2>1. ASSUME NEW n \in 0..Len(ms), n # 0
   PROVE n - 1 \in 0..Len(ms) /\ n \in 1..Len(ms)
   BY <1>1, <2>1
 <2> QED BY <1>4, <2>1
<1>6. Is(first) BY <1>5
<1>7. Tokens(ms) = first[Len(ms)] BY DEF Tokens
<1> HIDE DEF first
<1> DEFINE A == {n \in Nat : n <= Len(ms) => first[n] = f[n]}
<1>8. 0 \in A BY <1>1, <1>4, <1>6
<1>9. ASSUME NEW n \in Nat, n \in A
  PROVE n + 1 \in A
 <2> SUFFICES ASSUME n + 1 <= Len(ms)
   PROVE first[n + 1] = f[n + 1]
   OBVIOUS
 <2>1. n + 1 \in 1..Len(ms) /\ n + 1 \in 0..Len(ms) /\ (n + 1) - 1 = n /\ n <= Len(ms) BY <1>1
 <2>2. first[n + 1] = first[n] + ms[n + 1].size BY <1>6, <2>1
 <2> QED BY <1>4, <1>9, <2>1, <2>2
<1>10. Nat \subseteq A
 <2> HIDE DEF A
 <2> QED BY <1>8, <1>9, EveryNumber
<1>11. \A n \in 0..Len(ms) : first[n] = f[n] BY <1>10, <1>1
<1>12. Sums(ms, first)
 <2>1. DOMAIN first = 0..Len(ms) /\ first = [n \in 0..Len(ms) |-> first[n]] BY <1>6
 <2>2. first \in [0..Len(ms) -> Nat]
  <3>1. \A n \in 0..Len(ms) : first[n] \in Nat BY <1>4, <1>11
  <3> QED BY <2>1, <3>1
 <2>3. first[0] = 0 /\ \A n \in 1..Len(ms) : first[n] = first[n - 1] + ms[n].size
  <3>1. 0 \in 0..Len(ms) /\ \A n \in 1..Len(ms) : n \in 0..Len(ms) /\ n - 1 \in 0..Len(ms)
    BY <1>1
  <3> QED BY <1>4, <1>11, <3>1
 <2> QED BY <2>2, <2>3 DEF Sums
<1> QED BY <1>7, <1>12

LEMMA TokensType ==
  ASSUME NEW ms \in Seq(Message)
  PROVE Tokens(ms) \in Nat
<1>1. PICK first : Sums(ms, first) /\ Tokens(ms) = first[Len(ms)] BY TokensAreSums
<1> QED BY <1>1, Indices DEF Sums

\* A summary in front counts for one.
LEMMA OneMore ==
  ASSUME NEW ms \in Seq(Message)
  PROVE
    /\ <<Summary>> \o ms \in Seq(Message) /\ Len(<<Summary>> \o ms) = Len(ms) + 1
    /\ \A i \in 1..Len(ms) + 1 :
         (<<Summary>> \o ms)[i] = IF i = 1 THEN Summary ELSE ms[i - 1]
    /\ Tokens(<<Summary>> \o ms) = Tokens(ms) + 1
<1> DEFINE one == <<Summary>>
  more == one \o ms
<1>1. one \in Seq(Message) /\ Len(one) = 1 /\ one[1] = Summary BY SummaryType
<1> HIDE DEF one
<1>2.
  /\ more \in Seq(Message) /\ Len(more) = Len(ms) + 1 /\ Len(ms) \in Nat
  /\ \A i \in 1..Len(more) : more[i] = IF i <= 1 THEN one[i] ELSE ms[i - 1]
 <2>1.
   /\ more \in Seq(Message) /\ Len(more) = Len(one) + Len(ms) /\ Len(ms) \in Nat
   /\ \A i \in 1..Len(more) : more[i] = IF i <= Len(one) THEN one[i] ELSE ms[i - Len(one)]
   BY <1>1, ConcatDisjoint, Indices
 <2> QED BY <1>1, <2>1
<1>3. \A i \in 1..Len(ms) + 1 : more[i] = IF i = 1 THEN Summary ELSE ms[i - 1] BY <1>1, <1>2
<1> HIDE DEF more
<1>4. PICK f : Sums(ms, f) /\ Tokens(ms) = f[Len(ms)] BY TokensAreSums
<1>5. PICK g : Sums(more, g) /\ Tokens(more) = g[Len(more)] BY <1>2, TokensAreSums
<1> DEFINE A == {n \in Nat : n <= Len(ms) => g[n + 1] = f[n] + 1}
<1>6. 0 \in A
 <2>1. 1 \in 1..Len(more) /\ 1 - 1 = 0 /\ more[1].size = 1 BY <1>2, <1>3, SummaryType
 <2>2. g[1] = g[0] + more[1].size /\ g[0] = 0 /\ f[0] = 0 BY <1>4, <1>5, <2>1 DEF Sums
 <2> QED BY <2>1, <2>2
<1>7. ASSUME NEW n \in Nat, n \in A
  PROVE n + 1 \in A
 <2> SUFFICES ASSUME n + 1 <= Len(ms)
   PROVE g[(n + 1) + 1] = f[n + 1] + 1
   OBVIOUS
 <2>1.
   /\ n + 2 \in 1..Len(more) /\ n + 1 \in 1..Len(ms) /\ n <= Len(ms)
   /\ (n + 2) - 1 = n + 1 /\ (n + 1) - 1 = n /\ (n + 1) + 1 = n + 2 /\ n \in 0..Len(ms)
   BY <1>2
 <2>2. g[n + 2] = g[n + 1] + more[n + 2].size /\ f[n + 1] = f[n] + ms[n + 1].size
   BY <1>4, <1>5, <2>1 DEF Sums
 <2>3. more[n + 2] = ms[n + 1] BY <1>2, <1>3, <2>1
 <2>4. f[n] \in Nat /\ ms[n + 1].size \in Nat
  <3>1. \A i \in 1..Len(ms) : ms[i] \in Message BY Indices
  <3>2. ms[n + 1].size \in Nat BY <2>1, <3>1, Sizes
  <3> QED BY <1>4, <2>1, <3>2 DEF Sums
 <2> QED BY <1>7, <2>1, <2>2, <2>3, <2>4
<1>8. Nat \subseteq A
 <2> HIDE DEF A
 <2> QED BY <1>6, <1>7, EveryNumber
<1>9. g[Len(ms) + 1] = f[Len(ms)] + 1 BY <1>2, <1>8
<1> QED BY <1>2, <1>3, <1>4, <1>5, <1>9 DEF more, one

\* The last n of a sequence.
LEMMA LastOfType ==
  ASSUME NEW ms \in Seq(Message), NEW n \in 0..Len(ms)
  PROVE
    /\ LastOf(ms, n) \in Seq(Message) /\ Len(LastOf(ms, n)) = n
    /\ \A i \in 1..n : LastOf(ms, n)[i] = ms[Len(ms) - n + i]
    /\ n = Len(ms) => LastOf(ms, n) = ms
<1>1. Len(ms) \in Nat BY Indices
<1> DEFINE k == Len(ms) - n
<1>2. k \in 0..Len(ms) /\ k + 1 = Len(ms) - n + 1 BY <1>1
<1>3. LastOf(ms, n) = SubSeq(ms, k + 1, Len(ms)) BY <1>2 DEF LastOf
<1> DEFINE r == SubSeq(ms, k + 1, Len(ms))
<1>4. r \in Seq(Message) /\ Len(r) = Len(ms) - k /\ \A i \in 1..Len(r) : r[i] = ms[i + k]
 <2> HIDE DEF k
 <2> QED BY <1>2, DropFirst
<1> HIDE DEF r
<1>5. Len(r) = n /\ \A i \in 1..n : r[i] = ms[Len(ms) - n + i]
 <2>1. \A i \in 1..n : i + k = Len(ms) - n + i BY <1>1
 <2> QED BY <1>1, <1>4, <2>1
<1>6. ASSUME n = Len(ms)
  PROVE r = ms
 <2>1. \A i \in 1..n : r[i] = ms[i] BY <1>1, <1>5, <1>6
 <2> QED BY <1>1, <1>4, <1>5, <1>6, <2>1, SeqEqual
<1> QED BY <1>3, <1>4, <1>5, <1>6 DEF r

\* A compacted conversation: no longer than it was, what is real is in it in its order,
\* and the newest message comes last.
Follows(out, ms) ==
  /\ out \in Seq(Message) /\ Len(out) <= Len(ms) /\ Within(out, ms)
  /\ \A i, j \in DOMAIN out : i < j /\ IsReal(out[i]) /\ IsReal(out[j]) =>
       \E a, b \in DOMAIN ms : a < b /\ ms[a] = out[i] /\ ms[b] = out[j]
  /\ ms # <<>> => out # <<>> /\ Last(out) = Last(ms)

LEMMA FollowsItself ==
  ASSUME NEW ms \in Seq(Message)
  PROVE Follows(ms, ms)
BY Indices DEF Follows, Within

LEMMA FollowsOn ==
  ASSUME NEW ms \in Seq(Message), NEW mid \in Seq(Message), NEW out,
    Follows(mid, ms), Follows(out, mid)
  PROVE Follows(out, ms)
<1>1. /\ Len(ms) \in Nat /\ Len(mid) \in Nat /\ out \in Seq(Message) /\ Len(out) \in Nat
  BY Indices DEF Follows
<1>2. Len(out) <= Len(ms) BY <1>1 DEF Follows
<1>3. Within(out, ms) BY DEF Follows, Within
<1>4. ASSUME NEW i \in DOMAIN out, NEW j \in DOMAIN out, i < j, IsReal(out[i]), IsReal(out[j])
  PROVE \E a, b \in DOMAIN ms : a < b /\ ms[a] = out[i] /\ ms[b] = out[j]
 <2>1. PICK c, d \in DOMAIN mid : c < d /\ mid[c] = out[i] /\ mid[d] = out[j]
   BY <1>4 DEF Follows
 <2> QED BY <1>4, <2>1 DEF Follows
<1>5. ms # <<>> => out # <<>> /\ Last(out) = Last(ms) BY DEF Follows
<1> QED BY <1>1, <1>2, <1>3, <1>4, <1>5 DEF Follows

\* A suffix that is not empty.
LEMMA SuffixFollows ==
  ASSUME NEW ms \in Seq(Message), NEW n \in 0..Len(ms), ms # <<>> => n # 0
  PROVE Follows(LastOf(ms, n), ms)
<1> DEFINE out == LastOf(ms, n)
<1>1. Len(ms) \in Nat /\ DOMAIN ms = 1..Len(ms) BY Indices
<1>2.
  /\ out \in Seq(Message) /\ Len(out) = n /\ DOMAIN out = 1..n
  /\ \A i \in 1..n : out[i] = ms[Len(ms) - n + i]
  BY LastOfType, Indices
<1> HIDE DEF out
<1>3. \A i \in DOMAIN out : Len(ms) - n + i \in DOMAIN ms BY <1>1, <1>2
<1>4. Within(out, ms) BY <1>2, <1>3 DEF Within
<1>5. ASSUME NEW i \in DOMAIN out, NEW j \in DOMAIN out, i < j
  PROVE \E a, b \in DOMAIN ms : a < b /\ ms[a] = out[i] /\ ms[b] = out[j]
 <2>1. Len(ms) - n + i < Len(ms) - n + j BY <1>1, <1>2, <1>5
 <2> QED BY <1>2, <1>3, <2>1
<1>6. ASSUME ms # <<>>
  PROVE out # <<>> /\ Last(out) = Last(ms)
 <2>1. n # 0 /\ n \in 1..n /\ Len(ms) - n + n = Len(ms) BY <1>1, <1>6
 <2>2. out # <<>> BY <1>2, <2>1, EmptySeq
 <2> QED BY <1>2, <2>1, <2>2 DEF Last
<1>7. Len(out) <= Len(ms) BY <1>1, <1>2
<1> QED BY <1>2, <1>4, <1>5, <1>6, <1>7 DEF Follows, out

\* What trimming returns.
LEMMA TrimIsSuffix ==
  ASSUME NEW ms \in Seq(Message)
  PROVE
    \E n \in 0..Len(ms) : /\ Trim(ms) = LastOf(ms, n)
                          /\ ms # <<>> => n # 0
                          /\ Tokens(LastOf(ms, n)) <= Available \/ n <= 2
<1> DEFINE fits == {n \in 1..Len(ms) : Tokens(LastOf(ms, n)) <= Available}
  longest == CHOOSE n \in fits : \A k \in fits : k <= n
<1>1. Len(ms) \in Nat /\ (ms # <<>> => Len(ms) # 0) /\ (ms = <<>> => Len(ms) = 0)
  BY Indices, EmptySeq
<1>2. CASE Available <= 0
 <2>1. Trim(ms) = LastOf(ms, IF Len(ms) < 2 THEN Len(ms) ELSE 2) BY <1>2 DEF Trim
 <2>2. CASE Len(ms) < 2 BY <1>1, <2>1, <2>2
 <2>3. CASE ~ (Len(ms) < 2) BY <1>1, <2>1, <2>3
 <2> QED BY <2>2, <2>3
<1>3. CASE ~ (Available <= 0) /\ fits = {}
 <2>1. Trim(ms) = LastOf(ms, IF ms = <<>> THEN 0 ELSE 1) BY <1>3 DEF Trim
 <2>2. CASE ms = <<>> BY <1>1, <2>1, <2>2
 <2>3. CASE ms # <<>> BY <1>1, <2>1, <2>3
 <2> QED BY <2>2, <2>3
<1>4. CASE ~ (Available <= 0) /\ fits # {}
 <2>1. Trim(ms) = LastOf(ms, longest) BY <1>4 DEF Trim
 <2>2. longest \in fits
  <3>1. fits \in SUBSET (0..Len(ms)) OBVIOUS
  <3>2. \E n \in fits : \A k \in fits : k <= n
   <4> HIDE DEF fits
   <4> QED BY <1>1, <1>4, <3>1, GreatestMember
  <3> QED BY <3>2
 <2> HIDE DEF longest
 <2>3. longest \in 1..Len(ms) /\ Tokens(LastOf(ms, longest)) <= Available BY <2>2
 <2>4. longest \in 0..Len(ms) /\ longest # 0 BY <1>1, <2>3
 <2> QED BY <2>1, <2>3, <2>4
<1> QED BY <1>2, <1>3, <1>4

\* The markers applied are of those registered, and spare the last messages.
LEMMA SelectedAreUsable ==
  ASSUME NEW ms, registry \in Seq(MarkerType)
  PROVE Selected(ms) \subseteq {m \in MarkerType : m.end <= Len(ms) - ProtectRecent}
<1> DEFINE n == Len(registry)
  marker(k) == registry[IF k <= n THEN k ELSE k - n]
  usable(m, priority) == /\ m.priority = priority
                         /\ m.end <= Len(ms) - ProtectRecent /\ Matches(m, ms)
  taken(k, v) == /\ usable(marker(k), IF k <= n THEN 30 ELSE 10)
                 /\ \A m \in v : ~Overlap(m, marker(k))
  V == SUBSET {m \in MarkerType : m.end <= Len(ms) - ProtectRecent}
  after(k, v) == IF taken(k, v) THEN v \cup {marker(k)} ELSE v
  step == [i \in Nat |-> [v \in V |-> IF i + 1 \in 1..2 * n THEN after(i + 1, v) ELSE v]]
  Is(f) == f = [k \in 0..2 * n |->
                  IF k = 0 THEN {}
                  ELSE IF /\ usable(marker(k), IF k <= n THEN 30 ELSE 10)
                          /\ \A m \in f[k - 1] : ~Overlap(m, marker(k))
                       THEN f[k - 1] \cup {marker(k)} ELSE f[k - 1]]
  chosen == CHOOSE f : Is(f)
<1>1. n \in Nat /\ 2 * n \in Nat BY Indices
<1>2. ASSUME NEW k \in 1..2 * n
  PROVE marker(k) \in MarkerType
 <2>1. (IF k <= n THEN k ELSE k - n) \in 1..n BY <1>1, <1>2
 <2>2. \A i \in 1..n : registry[i] \in MarkerType BY Indices
 <2> QED BY <2>1, <2>2
<1>3. ASSUME NEW k \in 1..2 * n, NEW v \in V
  PROVE after(k, v) \in V
 <2>1. CASE taken(k, v)
  <3>1. marker(k) \in MarkerType /\ marker(k).end <= Len(ms) - ProtectRecent BY <1>2, <2>1
  <3> HIDE DEF marker
  <3> QED BY <2>1, <3>1
 <2>2. CASE ~ taken(k, v) BY <2>2
 <2> QED BY <2>1, <2>2
<1>4. {} \in V OBVIOUS
<1> HIDE DEF V, after
<1>5. step \in [Nat -> [V -> V]] BY <1>3
<1>6. PICK f : Recurs(f, V, {}, step)
 <2> HIDE DEF step
 <2> QED BY <1>4, <1>5, Recursion
<1>7. f \in [Nat -> V] /\ f[0] = {} /\ \A k \in 1..2 * n : f[k] = after(k, f[k - 1])
 <2>1. f \in [Nat -> V] /\ f[0] = {} /\ \A i \in Nat : f[i + 1] = step[i][f[i]]
  <3> HIDE DEF step
  <3> QED BY <1>6 DEF Recurs
 <2>2. ASSUME NEW k \in 1..2 * n
   PROVE f[k] = after(k, f[k - 1])
  <3>1. k - 1 \in Nat /\ (k - 1) + 1 = k BY <1>1
  <3>2. f[k] = step[k - 1][f[k - 1]] /\ f[k - 1] \in V
   <4> HIDE DEF step
   <4> QED BY <2>1, <3>1
  <3> HIDE DEF n
  <3>3. step[k - 1][f[k - 1]] = after(k, f[k - 1]) BY <3>1, <3>2
  <3> QED BY <3>2, <3>3
 <2> QED BY <2>1, <2>2
<1> HIDE DEF step
<1>8. Is([k \in 0..2 * n |-> f[k]])
 <2> HIDE DEF marker, usable
 <2>1. ASSUME NEW k \in 0..2 * n, k # 0
   PROVE k \in 1..2 * n /\ k - 1 \in 0..2 * n
   BY <1>1, <2>1
 <2> QED BY <1>1, <1>7, <2>1 DEF after
<1>9. Is(chosen) BY <1>8
<1>10. Selected(ms) = chosen[2 * n] BY DEF Selected
<1> HIDE DEF chosen
<1> DEFINE A == {k \in Nat : k <= 2 * n => chosen[k] \in V}
<1>11. 0 \in A BY <1>1, <1>4, <1>9
<1>12. ASSUME NEW k \in Nat, k \in A
  PROVE k + 1 \in A
 <2> SUFFICES ASSUME k + 1 <= 2 * n
   PROVE chosen[k + 1] \in V
   OBVIOUS
 <2>1. k + 1 \in 1..2 * n /\ k + 1 \in 0..2 * n /\ (k + 1) - 1 = k /\ k <= 2 * n BY <1>1
 <2>2. chosen[k + 1] = after(k + 1, chosen[k])
  <3>1. PICK j : j = k + 1 OBVIOUS
  <3>0. j \in 1..2 * n /\ j \in 0..2 * n /\ j # 0 BY <1>1, <2>1, <3>1
  <3> HIDE DEF marker, usable, n
  <3>2. chosen[j] = after(j, chosen[j - 1]) BY <1>9, <3>0 DEF after
  <3> QED BY <2>1, <3>1, <3>2
 <2> QED BY <1>3, <1>12, <2>1, <2>2
<1>13. Nat \subseteq A
 <2> HIDE DEF A
 <2> QED BY <1>11, <1>12, EveryNumber
<1>14. chosen[2 * n] \in V BY <1>1, <1>13
<1> QED BY <1>10, <1>14 DEF V

\* The k-th of a set of indices is one of them, and later than those before it.
LEMMA NthOf ==
  ASSUME NEW m \in Nat, NEW S \in SUBSET (1..m)
  PROVE
    /\ Cardinality(S) \in Nat /\ Cardinality(S) <= m
    /\ \A k \in 1..Cardinality(S) : Nth(S, k) \in S
    /\ \A k, l \in 1..Cardinality(S) : k < l => Nth(S, k) < Nth(S, l)
    /\ \A i \in S : (\A j \in S : j <= i) => Nth(S, Cardinality(S)) = i
<1>1. IsFiniteSet(1..m) /\ Cardinality(1..m) = m BY FS_Interval
<1>2. \A T \in SUBSET S : IsFiniteSet(T) /\ Cardinality(T) \in Nat
  BY <1>1, FS_Subset, FS_CardinalityType
<1>3. Cardinality(S) \in Nat /\ Cardinality(S) <= m BY <1>1, <1>2, FS_Subset
<1> DEFINE under(i) == {j \in S : j < i}
<1>0. \A i \in S : i \in Int OBVIOUS
<1>4. ASSUME NEW k \in 1..Cardinality(S)
  PROVE Nth(S, k) \in S /\ Cardinality(under(Nth(S, k))) = k - 1
 <2>1. k - 1 \in Nat /\ k - 1 < Cardinality(S) /\ S \in SUBSET (0..m) BY <1>3
 <2>2. \E i \in S : Cardinality({j \in S : j < i}) = k - 1 BY <2>1, NthMember
 <2> QED BY <2>2 DEF Nth
<1>5. ASSUME NEW k \in 1..Cardinality(S), NEW l \in 1..Cardinality(S), k < l
  PROVE Nth(S, k) < Nth(S, l)
 <2>1. PICK a, b : a = Nth(S, k) /\ b = Nth(S, l) OBVIOUS
 <2>2. a \in S /\ b \in S /\ Cardinality(under(a)) = k - 1 /\ Cardinality(under(b)) = l - 1
   BY <1>4, <2>1
 <2>3. ~ (a < b) => under(b) \subseteq under(a)
  <3>1. a \in Int /\ b \in Int BY <1>0, <2>2
  <3>2. \A j \in S : ~ (a < b) => (j < b => j < a) BY <1>0, <3>1
  <3> QED BY <3>2
 <2>4. under(b) \subseteq under(a) => Cardinality(under(b)) <= Cardinality(under(a))
  <3>1. IsFiniteSet(under(a)) BY <1>2
  <3> HIDE DEF under
  <3> QED BY <3>1, FS_Subset
 <2> HIDE DEF under
 <2> QED BY <1>3, <1>5, <2>1, <2>2, <2>3, <2>4
<1>6. ASSUME NEW i \in S, \A j \in S : j <= i
  PROVE Nth(S, Cardinality(S)) = i
 <2>1. PICK a : a = Nth(S, Cardinality(S)) OBVIOUS
 <2>2. Cardinality(S) \in 1..Cardinality(S)
  <3>1. Cardinality(S) # 0 BY <1>2, FS_EmptySet
  <3> QED BY <1>3, <3>1
 <2>3. a \in S /\ Cardinality(under(a)) = Cardinality(S) - 1 BY <1>4, <2>1, <2>2
 <2>4. under(i) = S \ {i} /\ Cardinality(S \ {i}) = Cardinality(S) - 1
  <3>1. Cardinality(S \ {i}) = Cardinality(S) - 1 BY <1>2, <1>6, FS_RemoveElement
  <3>2. \A j \in S : j < i <=> j # i BY <1>0, <1>6
  <3> QED BY <3>1, <3>2
 <2>5. a # i => under(a) \subseteq under(i) \ {a} /\ a \in under(i)
  <3>1. \A j \in S : a # i => (j < a => j < i /\ j # a) /\ a < i BY <1>0, <1>6, <2>3
  <3> QED BY <2>3, <3>1
 <2>6. a # i => Cardinality(under(a)) < Cardinality(under(i))
  <3>1.
    /\ IsFiniteSet(under(i)) /\ IsFiniteSet(under(i) \ {a})
    /\ Cardinality(under(i)) \in Nat /\ Cardinality(under(a)) \in Nat
    /\ Cardinality(under(i) \ {a}) \in Nat
    BY <1>2
  <3> HIDE DEF under
  <3>2. a # i => Cardinality(under(i) \ {a}) = Cardinality(under(i)) - 1
    BY <2>5, <3>1, FS_RemoveElement
  <3>3. a # i => Cardinality(under(a)) <= Cardinality(under(i) \ {a}) BY <2>5, <3>1, FS_Subset
  <3> QED BY <3>1, <3>2, <3>3
 <2> HIDE DEF under
 <2> QED BY <1>3, <2>1, <2>3, <2>4, <2>6
<1> QED BY <1>3, <1>4, <1>5, <1>6

LEMMA SnipFollows ==
  ASSUME NEW ms \in Seq(Message), NEW chosen,
    chosen \subseteq {m \in MarkerType : m.end <= Len(ms) - ProtectRecent}
  PROVE Follows(Snip(ms, chosen), ms)
<1> DEFINE gone(i) == \E m \in chosen : i \in m.start..m.end
  shown == {i \in DOMAIN ms : ~gone(i) \/ i = 1 \/ ~gone(i - 1)}
  n == Cardinality(shown)
  out == [k \in 1..n |-> IF gone(Nth(shown, k)) THEN Summary ELSE ms[Nth(shown, k)]]
<1>1. Len(ms) \in Nat /\ DOMAIN ms = 1..Len(ms) /\ \A i \in 1..Len(ms) : ms[i] \in Message
  BY Indices
<1>2. Snip(ms, chosen) = out BY DEF Snip
<1>3. shown \in SUBSET (1..Len(ms)) BY <1>1
<1>4. ms # <<>> => Len(ms) \in shown /\ ~ gone(Len(ms)) /\ \A j \in shown : j <= Len(ms)
 <2> SUFFICES ASSUME ms # <<>>
   PROVE Len(ms) \in shown /\ ~ gone(Len(ms)) /\ \A j \in shown : j <= Len(ms)
   OBVIOUS
 <2>1. Len(ms) \in 1..Len(ms) BY <1>1, EmptySeq
 <2>2. ~ gone(Len(ms))
  <3>1. ASSUME NEW m \in chosen
    PROVE Len(ms) \notin m.start..m.end
   <4>1. m \in MarkerType /\ m.end <= Len(ms) - ProtectRecent OBVIOUS
   <4>2. m.end \in Int /\ ProtectRecent \in Nat \ {0} BY <4>1, PolicyAssumption DEF MarkerType
   <4> QED BY <1>1, <4>1, <4>2
  <3> QED BY <3>1
 <2> QED BY <1>1, <2>1, <2>2
<1> HIDE DEF gone, shown
<1>5.
  /\ n \in Nat /\ n <= Len(ms)
  /\ \A k \in 1..n : Nth(shown, k) \in shown
  /\ \A k, l \in 1..n : k < l => Nth(shown, k) < Nth(shown, l)
  /\ \A i \in shown : (\A j \in shown : j <= i) => Nth(shown, n) = i
  BY <1>1, <1>3, NthOf
<1> HIDE DEF n
<1>6. \A k \in 1..n : Nth(shown, k) \in DOMAIN ms BY <1>1, <1>3, <1>5
<1>7. out \in Seq(Message) /\ Len(out) = n /\ DOMAIN out = 1..n
 <2>1. out \in [1..n -> Message] BY <1>1, <1>6, SummaryType
 <2> HIDE DEF out
 <2> QED BY <1>5, <2>1, FromFunction
<1>8. \A k \in DOMAIN out : IsReal(out[k]) => out[k] = ms[Nth(shown, k)] BY SummaryType
<1>9. Within(out, ms)
 <2> HIDE DEF out
 <2> QED BY <1>6, <1>7, <1>8 DEF Within
<1>10. ASSUME NEW i \in DOMAIN out, NEW j \in DOMAIN out, i < j, IsReal(out[i]), IsReal(out[j])
  PROVE \E a, b \in DOMAIN ms : a < b /\ ms[a] = out[i] /\ ms[b] = out[j]
 <2> HIDE DEF out
 <2> QED BY <1>5, <1>6, <1>7, <1>8, <1>10
<1>11. ASSUME ms # <<>>
  PROVE out # <<>> /\ Last(out) = Last(ms)
 <2>1. Len(ms) \in shown /\ ~ gone(Len(ms)) /\ Nth(shown, n) = Len(ms) BY <1>4, <1>5, <1>11
 <2>2. n \in 1..n
  <3>1. n # 0
   <4>1. n = 0 => shown = {}
    <5>1. IsFiniteSet(shown)
     <6>1. IsFiniteSet(1..Len(ms)) BY <1>1, FS_Interval
     <6> QED BY <1>3, <6>1, FS_Subset
    <5> QED BY <5>1, FS_EmptySet DEF n
   <4> QED BY <2>1, <4>1
  <3> QED BY <1>5, <3>1
 <2>3. out[n] = ms[Len(ms)] BY <2>1, <2>2
 <2> HIDE DEF out
 <2>4. out # <<>> BY <1>7, <2>2, EmptySeq
 <2> QED BY <1>7, <2>3, <2>4 DEF Last
<1> HIDE DEF out
<1> QED BY <1>2, <1>5, <1>7, <1>9, <1>10, <1>11 DEF Follows

\* Compaction loses messages but changes none, keeps the newest, and makes the rest fit
\* but for one summary.
LEMMA CompactFollows ==
  ASSUME NEW ms \in Seq(Message), registry \in Seq(MarkerType)
  PROVE
    /\ Follows(Compact(ms), ms)
    /\ Tokens(Compact(ms)) <= Available + 1 \/ Len(Compact(ms)) <= 3
<1> DEFINE snipped == Snip(ms, Selected(ms))
<1>0. Available \in Int BY BudgetAssumption
<1>1. CASE Tokens(ms) <= Available
 <2>1. Compact(ms) = ms /\ Tokens(ms) \in Nat BY <1>1, TokensType DEF Compact
 <2> QED BY <1>0, <1>1, <2>1, FollowsItself
<1>2. CASE ~ (Tokens(ms) <= Available) /\ Selected(ms) # {}
 <2>1. Compact(ms) = Trim(snipped) BY <1>2 DEF Compact
 <2>2. Follows(snipped, ms) BY SelectedAreUsable, SnipFollows
 <2> HIDE DEF snipped
 <2>3. snipped \in Seq(Message) BY <2>2 DEF Follows
 <2>4.
   PICK n \in 0..Len(snipped) : /\ Trim(snipped) = LastOf(snipped, n)
                                /\ snipped # <<>> => n # 0
                                /\ Tokens(LastOf(snipped, n)) <= Available \/ n <= 2
   BY <2>3, TrimIsSuffix
 <2>5. Follows(Trim(snipped), snipped) /\ Len(Trim(snipped)) = n /\ Trim(snipped) \in Seq(Message)
   BY <2>3, <2>4, SuffixFollows, LastOfType
 <2>6. Follows(Trim(snipped), ms) BY <2>2, <2>3, <2>5, FollowsOn
 <2>7. Tokens(Trim(snipped)) \in Nat /\ n \in Int BY <2>3, <2>5, TokensType, Indices
 <2> QED BY <1>0, <2>1, <2>4, <2>5, <2>6, <2>7
<1>3. CASE ~ (Tokens(ms) <= Available) /\ Selected(ms) = {}
 <2>1. Len(ms) \in Nat /\ DOMAIN ms = 1..Len(ms) BY Indices
 <2>1a. \A k \in 0..Len(ms) : k # Len(ms) => k < Len(ms) /\ k \in Nat
  <3>1. \A l \in Nat : \A k \in 0..l : k # l => k < l /\ k \in Nat OBVIOUS
  <3> QED BY <2>1, <3>1
 <2>2.
   PICK n \in 0..Len(ms) : /\ Trim(ms) = LastOf(ms, n)
                           /\ ms # <<>> => n # 0
                           /\ Tokens(LastOf(ms, n)) <= Available \/ n <= 2
   BY TrimIsSuffix
 <2> DEFINE rest == LastOf(ms, n)
 <2>3.
   /\ rest \in Seq(Message) /\ Len(rest) = n /\ Follows(rest, ms)
   /\ DOMAIN rest = 1..n /\ Tokens(rest) \in Nat
   /\ n = Len(ms) => rest = ms
   BY <2>2, LastOfType, SuffixFollows, Indices, TokensType
 <2>4. CASE rest = ms
  <3>1. Compact(ms) = rest BY <1>3, <2>2, <2>4 DEF Compact
  <3> HIDE DEF rest
  <3> QED BY <1>0, <2>2, <2>3, <3>1 DEF rest
 <2>5. CASE rest # ms
  <3> DEFINE out == <<Summary>> \o rest
  <3>1. Compact(ms) = out BY <1>3, <2>2, <2>5 DEF Compact
  <3>2. n < Len(ms) /\ n \in Nat
   <4>1. n # Len(ms) BY <2>3, <2>5
   <4> QED BY <2>1a, <4>1
  <3>2a. \A i \in 1..n : rest[i] = ms[Len(ms) - n + i] BY LastOfType
  <3> HIDE DEF rest
  <3>3.
    /\ out \in Seq(Message) /\ Len(out) = n + 1 /\ Tokens(out) = Tokens(rest) + 1
    /\ \A i \in 1..n + 1 : out[i] = IF i = 1 THEN Summary ELSE rest[i - 1]
    /\ DOMAIN out = 1..n + 1
    BY <2>3, OneMore, Indices
  <3> HIDE DEF out
  <3>4. \A i \in DOMAIN out : IsReal(out[i]) =>
          /\ Len(ms) - n + (i - 1) \in DOMAIN ms /\ out[i] = ms[Len(ms) - n + (i - 1)]
   <4> SUFFICES ASSUME NEW i \in DOMAIN out, IsReal(out[i])
     PROVE
       /\ Len(ms) - n + (i - 1) \in DOMAIN ms
       /\ out[i] = ms[Len(ms) - n + (i - 1)]
     OBVIOUS
   <4>1. i \in 1..n + 1 /\ i # 1 BY <3>3, SummaryType
   <4>2. i - 1 \in 1..n /\ Len(ms) - n + (i - 1) \in 1..Len(ms) BY <2>1, <3>2, <4>1
   <4> QED BY <2>1, <3>2a, <3>3, <4>1, <4>2
  <3>5. Within(out, ms) BY <3>4 DEF Within
  <3>6. ASSUME NEW i \in DOMAIN out, NEW j \in DOMAIN out, i < j, IsReal(out[i]), IsReal(out[j])
    PROVE \E a, b \in DOMAIN ms : a < b /\ ms[a] = out[i] /\ ms[b] = out[j]
   <4>1. Len(ms) - n + (i - 1) < Len(ms) - n + (j - 1) BY <2>1, <3>3, <3>6
   <4> QED BY <3>4, <3>6, <4>1
  <3>7. out # <<>> /\ Last(out) = Last(ms)
   <4>1. out # <<>> /\ n \in 1..n
    <5>1. ms # <<>> BY <2>1, <3>2, EmptySeq
    <5> QED BY <2>2, <3>3, <5>1, EmptySeq
   <4>2. Last(out) = rest[n] /\ rest[n] = ms[Len(ms)] BY <2>1, <3>2a, <3>3, <4>1 DEF Last
   <4> QED BY <4>1, <4>2 DEF Last
  <3>8. Len(out) <= Len(ms) BY <2>1, <3>2, <3>3
  <3>9. Follows(out, ms) BY <3>3, <3>5, <3>6, <3>7, <3>8 DEF Follows
  <3>10. Tokens(out) <= Available + 1 \/ Len(out) <= 3
   <4>1. Tokens(rest) <= Available \/ n <= 2 BY <2>2 DEF rest
   <4> QED BY <1>0, <2>3, <3>2, <3>3, <4>1
  <3> QED BY <3>1, <3>9, <3>10
 <2> QED BY <2>4, <2>5
<1> QED BY <1>1, <1>2, <1>3

--------------------
(* What keeps messages in order *)

LEMMA MessagesOf ==
  ASSUME NEW ms \in Seq(Message)
  PROVE
    /\ Len(ms) \in Nat /\ DOMAIN ms = 1..Len(ms)
    /\ \A i \in DOMAIN ms : /\ ms[i] \in Message /\ i \in Nat
                            /\ ms[i].id \in Nat /\ Rank(ms[i]) \in Nat
<1>1. /\ Len(ms) \in Nat /\ DOMAIN ms = 1..Len(ms) /\ \A i \in DOMAIN ms : ms[i] \in Message
  BY Indices
<1> QED BY <1>1, Sizes

LEMMA FollowsKeeps ==
  ASSUME NEW ms \in Seq(Message), NEW out, NEW top, NEW file,
    Follows(out, ms), Ordered(ms), Below(ms, top)
  PROVE Ordered(out) /\ Below(out, top) /\ (Within(ms, file) => Within(out, file))
<1>1. Ordered(out) BY DEF Follows, Ordered
<1>2. Below(out, top) BY DEF Follows, Below, Within
<1>3. Within(ms, file) => Within(out, file) BY DEF Follows, Within
<1> QED BY <1>1, <1>2, <1>3

LEMMA BelowMore ==
  ASSUME NEW ms \in Seq(Message), NEW top \in Int, NEW bound \in Int, Below(ms, top), top <= bound
  PROVE Below(ms, bound)
BY MessagesOf DEF Below

\* A message that is newer than all others comes last.
LEMMA AppendKeeps ==
  ASSUME NEW ms \in Seq(Message), NEW m \in Message, NEW top \in Int, NEW bound \in Int,
    Ordered(ms), Below(ms, top), top < Rank(m), Rank(m) <= bound, IsReal(m), m.id >= 1
  PROVE
    /\ Append(ms, m) \in Seq(Message) /\ Len(Append(ms, m)) = Len(ms) + 1
    /\ Append(ms, m) # <<>> /\ Last(Append(ms, m)) = m
    /\ Ordered(Append(ms, m)) /\ Below(Append(ms, m), bound)
    /\ AllReal(ms) => AllReal(Append(ms, m))
<1> DEFINE r == Append(ms, m)
<1>1. Len(ms) \in Nat /\ DOMAIN ms = 1..Len(ms) /\ Rank(m) \in Nat BY MessagesOf, Sizes
<1>2. \A i \in DOMAIN ms : Rank(ms[i]) \in Nat BY MessagesOf
<1>3.
  /\ r \in Seq(Message) /\ Len(r) = Len(ms) + 1 /\ DOMAIN r = 1..Len(ms) + 1
  /\ \A i \in 1..Len(ms) + 1 : r[i] = IF i <= Len(ms) THEN ms[i] ELSE m
  BY <1>1, AppendNew, Indices
<1> HIDE DEF r
<1>4. Ordered(r)
 <2> SUFFICES ASSUME NEW i \in DOMAIN r, NEW j \in DOMAIN r, i < j, IsReal(r[i]), IsReal(r[j])
   PROVE Rank(r[i]) < Rank(r[j])
   BY DEF Ordered
 <2>1. i \in DOMAIN ms /\ r[i] = ms[i] BY <1>1, <1>3
 <2>2. CASE j <= Len(ms) BY <1>1, <1>3, <2>1, <2>2 DEF Ordered
 <2>3. CASE ~ (j <= Len(ms))
  <3>1. r[j] = m /\ Rank(ms[i]) <= top BY <1>3, <2>1, <2>3 DEF Below
  <3> QED BY <1>1, <1>2, <2>1, <3>1
 <2> QED BY <2>2, <2>3
<1>5. Below(r, bound)
 <2> SUFFICES ASSUME NEW i \in DOMAIN r, IsReal(r[i])
   PROVE r[i].id >= 1 /\ Rank(r[i]) <= bound
   BY DEF Below
 <2>1. CASE i <= Len(ms)
  <3>1. i \in DOMAIN ms /\ r[i] = ms[i] BY <1>1, <1>3, <2>1
  <3>2. r[i].id >= 1 /\ Rank(r[i]) <= top BY <3>1 DEF Below
  <3> QED BY <1>1, <1>2, <3>1, <3>2
 <2>2. CASE ~ (i <= Len(ms)) BY <1>3, <2>2
 <2> QED BY <2>1, <2>2
<1>6. AllReal(ms) => AllReal(r) BY <1>1, <1>3 DEF AllReal
<1>7. r # <<>> /\ Last(r) = m
 <2>1. Len(ms) + 1 \in 1..Len(ms) + 1 /\ ~ (Len(ms) + 1 <= Len(ms)) BY <1>1
 <2>2. r # <<>> BY <1>3, <2>1, EmptySeq
 <2> QED BY <1>3, <2>1, <2>2 DEF Last
<1> QED BY <1>3, <1>4, <1>5, <1>6, <1>7 DEF r

\* What is in a file stays in it when it grows.
LEMMA WithinLonger ==
  ASSUME NEW ms \in Seq(Message), NEW file \in Seq(Message), NEW m \in Message, Within(ms, file)
  PROVE Within(ms, Append(file, m)) /\ Within(Append(ms, m), Append(file, m))
<1> DEFINE r == Append(file, m)
  q == Append(ms, m)
<1>1.
  /\ Len(file) \in Nat /\ DOMAIN file = 1..Len(file)
  /\ Len(ms) \in Nat /\ DOMAIN ms = 1..Len(ms)
  BY Indices
<1>2.
  /\ DOMAIN r = 1..Len(file) + 1
  /\ \A i \in 1..Len(file) + 1 : r[i] = IF i <= Len(file) THEN file[i] ELSE m
 <2>1.
   /\ r \in Seq(Message) /\ Len(r) = Len(file) + 1
   /\ \A i \in 1..Len(r) : r[i] = IF i <= Len(file) THEN file[i] ELSE m
   BY AppendNew
 <2> QED BY <2>1, Indices
<1>3.
  /\ DOMAIN q = 1..Len(ms) + 1
  /\ \A i \in 1..Len(ms) + 1 : q[i] = IF i <= Len(ms) THEN ms[i] ELSE m
 <2>1.
   /\ q \in Seq(Message) /\ Len(q) = Len(ms) + 1
   /\ \A i \in 1..Len(q) : q[i] = IF i <= Len(ms) THEN ms[i] ELSE m
   BY AppendNew
 <2> QED BY <2>1, Indices
<1> HIDE DEF r, q
<1>4. \A k \in DOMAIN file : k \in DOMAIN r /\ r[k] = file[k] BY <1>1, <1>2
<1>5. Len(file) + 1 \in DOMAIN r /\ r[Len(file) + 1] = m BY <1>1, <1>2
<1>6. Within(ms, r) BY <1>4 DEF Within
<1>7. Within(q, r)
 <2> SUFFICES ASSUME NEW i \in DOMAIN q, IsReal(q[i])
   PROVE \E k \in DOMAIN r : r[k] = q[i]
   BY DEF Within
 <2>1. CASE i <= Len(ms)
  <3>1. i \in DOMAIN ms /\ q[i] = ms[i] BY <1>1, <1>3, <2>1
  <3> QED BY <1>6, <3>1 DEF Within
 <2>2. CASE ~ (i <= Len(ms)) BY <1>3, <1>5, <2>2
 <2> QED BY <2>1, <2>2
<1> QED BY <1>6, <1>7 DEF r, q

LEMMA BeforeLonger ==
  ASSUME NEW ms \in Seq(Message), NEW others \in Seq(Message), NEW m \in Message,
    NEW top \in Int, Before(ms, others), Below(ms, top), top < Rank(m)
  PROVE Before(ms, Append(others, m))
<1> DEFINE r == Append(others, m)
<1>1. Len(others) \in Nat /\ DOMAIN others = 1..Len(others) /\ Rank(m) \in Nat BY Indices, Sizes
<1>2. \A i \in DOMAIN ms : Rank(ms[i]) \in Nat BY MessagesOf
<1>3.
  /\ DOMAIN r = 1..Len(others) + 1
  /\ \A i \in 1..Len(others) + 1 : r[i] = IF i <= Len(others) THEN others[i] ELSE m
 <2>1.
   /\ r \in Seq(Message) /\ Len(r) = Len(others) + 1
   /\ \A i \in 1..Len(r) : r[i] = IF i <= Len(others) THEN others[i] ELSE m
   BY AppendNew
 <2> QED BY <2>1, Indices
<1> HIDE DEF r
<1> SUFFICES ASSUME NEW i \in DOMAIN ms, NEW j \in DOMAIN r, IsReal(ms[i])
  PROVE Rank(ms[i]) < Rank(r[j])
  BY DEF Before, r
<1>4. CASE j <= Len(others) BY <1>1, <1>3, <1>4 DEF Before
<1>5. CASE ~ (j <= Len(others))
 <2>1. r[j] = m /\ Rank(ms[i]) <= top BY <1>3, <1>5 DEF Below
 <2> QED BY <1>1, <1>2, <2>1
<1> QED BY <1>4, <1>5

\* Two sequences one of which comes before the other.
LEMMA ConcatKeeps ==
  ASSUME NEW ms \in Seq(Message), NEW others \in Seq(Message), NEW top, NEW file,
    Ordered(ms), Ordered(others), Below(ms, top), Below(others, top),
    Before(ms, others)
  PROVE
    /\ ms \o others \in Seq(Message) /\ Len(ms \o others) = Len(ms) + Len(others)
    /\ Ordered(ms \o others) /\ Below(ms \o others, top)
    /\ Within(ms, file) /\ Within(others, file) => Within(ms \o others, file)
<1> DEFINE r == ms \o others
<1>1.
  /\ Len(ms) \in Nat /\ DOMAIN ms = 1..Len(ms)
  /\ Len(others) \in Nat /\ DOMAIN others = 1..Len(others)
  BY Indices
<1>2.
  /\ r \in Seq(Message) /\ Len(r) = Len(ms) + Len(others)
  /\ DOMAIN r = 1..Len(ms) + Len(others)
  /\ \A i \in 1..Len(ms) + Len(others) : r[i] = IF i <= Len(ms) THEN ms[i] ELSE others[i - Len(ms)]
 <2>1.
   /\ r \in Seq(Message) /\ Len(r) = Len(ms) + Len(others)
   /\ \A i \in 1..Len(r) : r[i] = IF i <= Len(ms) THEN ms[i] ELSE others[i - Len(ms)]
   BY ConcatDisjoint
 <2> QED BY <2>1, Indices
<1> HIDE DEF r
<1>3.
  \A i \in DOMAIN r : \/ i <= Len(ms) /\ i \in DOMAIN ms /\ r[i] = ms[i]
                      \/ /\ ~ (i <= Len(ms)) /\ i - Len(ms) \in DOMAIN others
                         /\ r[i] = others[i - Len(ms)]
  BY <1>1, <1>2
<1>4. ASSUME NEW i \in DOMAIN r, NEW j \in DOMAIN r, i < j, IsReal(r[i]), IsReal(r[j])
  PROVE Rank(r[i]) < Rank(r[j])
 <2>1. CASE j <= Len(ms)
  <3>1. i \in DOMAIN ms /\ j \in DOMAIN ms /\ r[i] = ms[i] /\ r[j] = ms[j]
    BY <1>1, <1>2, <1>3, <1>4, <2>1
  <3> QED BY <1>4, <3>1 DEF Ordered
 <2>2. CASE i <= Len(ms) /\ ~ (j <= Len(ms))
  <3>1. /\ i \in DOMAIN ms /\ j - Len(ms) \in DOMAIN others
        /\ r[i] = ms[i] /\ r[j] = others[j - Len(ms)]
    BY <1>3, <2>2
  <3> QED BY <1>4, <3>1 DEF Before
 <2>3. CASE ~ (i <= Len(ms))
  <3>1. /\ i - Len(ms) \in DOMAIN others /\ j - Len(ms) \in DOMAIN others
        /\ r[i] = others[i - Len(ms)] /\ r[j] = others[j - Len(ms)] /\ i - Len(ms) < j - Len(ms)
    BY <1>1, <1>2, <1>3, <1>4, <2>3
  <3> QED BY <1>4, <3>1 DEF Ordered
 <2> QED BY <2>1, <2>2, <2>3
<1>5. Ordered(r) BY <1>4 DEF Ordered
<1>6. Below(r, top) BY <1>3 DEF Below
<1>7. Within(ms, file) /\ Within(others, file) => Within(r, file) BY <1>3 DEF Within
<1> QED BY <1>2, <1>5, <1>6, <1>7 DEF r

\* No more turns than ids.
LEMMA TurnsBounded ==
  ASSUME NEW ms \in Seq(Message), NEW n \in Nat, Ordered(ms), Below(ms, 2 * n + 1),
    NEW i \in DOMAIN ms
  PROVE TurnIndex(ms, i) \in 0..n
<1> DEFINE T == {k \in 1..i : Assistant(ms[k])}
  f == [k \in T |-> ms[k].id]
<1>1. Len(ms) \in Nat /\ DOMAIN ms = 1..Len(ms) /\ i \in Nat BY MessagesOf
<1>2. \A k \in DOMAIN ms : Rank(ms[k]) \in Nat /\ ms[k].id \in Nat BY MessagesOf
<1>3. T \subseteq DOMAIN ms /\ T \subseteq 1..i BY <1>1
<1>4. ASSUME NEW k \in T
  PROVE
    /\ ms[k].id \in 1..n /\ Rank(ms[k]) = 2 * ms[k].id /\ IsReal(ms[k])
    /\ ms[k].id \in Nat /\ k \in DOMAIN ms
 <2>1. k \in DOMAIN ms /\ ms[k].kind \in {"text", "use"} BY <1>3 DEF Assistant
 <2>2. Rank(ms[k]) = 2 * ms[k].id /\ IsReal(ms[k]) BY <2>1 DEF Rank, IsReal
 <2>3. ms[k].id >= 1 /\ Rank(ms[k]) <= 2 * n + 1 BY <2>1, <2>2 DEF Below
 <2>4. ms[k].id \in Nat BY <1>2, <2>1
 <2>5. ms[k].id <= n BY <2>2, <2>3, <2>4
 <2> QED BY <2>1, <2>2, <2>3, <2>4, <2>5
<1>5. f \in [T -> 1..n] BY <1>4
<1>6. ASSUME NEW k \in T, NEW l \in T, k < l
  PROVE f[k] # f[l]
 <2>1. Rank(ms[k]) < Rank(ms[l]) BY <1>4, <1>6 DEF Ordered
 <2> QED BY <1>4, <2>1
<1>7. f \in Injection(T, 1..n)
 <2>1. \A k, l \in T : f[k] = f[l] => k = l
  <3>1. \A k, l \in T : k < l \/ l < k \/ k = l BY <1>3
  <3> QED BY <1>6, <3>1
 <2> HIDE DEF f, T
 <2> QED BY <1>5, <2>1 DEF Injection, IsInjective
<1>8. IsFiniteSet(1..n) /\ Cardinality(1..n) = n BY FS_Interval
<1> HIDE DEF f, T
<1>9. IsFiniteSet(T) /\ Cardinality(T) <= n BY <1>7, <1>8, FS_Injection
<1>10. Cardinality(T) \in Nat BY <1>9, FS_CardinalityType
<1> QED BY <1>9, <1>10 DEF TurnIndex, T

\* The registry keeps to its cap.
LEMMA RegisterType ==
  ASSUME registry \in Seq(MarkerType), Len(registry) <= MarkerCap, NEW m \in MarkerType
  PROVE Register(registry, m) \in Seq(MarkerType) /\ Len(Register(registry, m)) <= MarkerCap
<1> DEFINE longer == Append(registry, m)
  lowest == {i \in DOMAIN longer :
               \A k \in DOMAIN longer : longer[i].priority <= longer[k].priority}
  oldest == CHOOSE i \in lowest : \A k \in lowest : i <= k
<1>1.
  /\ longer \in Seq(MarkerType) /\ Len(longer) = Len(registry) + 1 /\ Len(registry) \in Nat
  /\ DOMAIN longer = 1..Len(longer) /\ \A i \in DOMAIN longer : longer[i] \in MarkerType
 <2>1. longer \in Seq(MarkerType) /\ Len(longer) = Len(registry) + 1 BY AppendNew
 <2> QED BY <2>1, Indices
<1>2. MarkerCap \in Nat BY PolicyAssumption
<1> HIDE DEF longer
<1>3. CASE Len(longer) <= MarkerCap
 <2>1. Register(registry, m) = longer BY <1>3 DEF Register, longer
 <2> QED BY <1>1, <1>3, <2>1
<1>4. CASE ~ (Len(longer) <= MarkerCap)
 <2>1. Register(registry, m) = RemoveAt(longer, oldest) BY <1>4 DEF Register, longer
 <2>2. lowest # {}
  <3> DEFINE P == {longer[i].priority : i \in DOMAIN longer}
  <3>1. ASSUME NEW i \in DOMAIN longer
    PROVE longer[i].priority \in Nat
   <4>1. longer[i].priority \in {10, 30} BY <1>1 DEF MarkerType
   <4> QED BY <4>1
  <3>2. P \in SUBSET Nat BY <3>1
  <3>3. P # {}
   <4>1. 1 \in DOMAIN longer BY <1>1
   <4> QED BY <4>1
  <3> HIDE DEF P
  <3>4. PICK x \in P : \A y \in P : x <= y BY <3>2, <3>3, LeastMember
  <3>5. PICK i \in DOMAIN longer : x = longer[i].priority BY <3>4 DEF P
  <3>6. \A k \in DOMAIN longer : longer[i].priority <= longer[k].priority BY <3>4, <3>5 DEF P
  <3> QED BY <3>5, <3>6
 <2>3. lowest \in SUBSET Nat /\ lowest \subseteq 1..Len(longer) BY <1>1
 <2>4. oldest \in lowest
  <3> HIDE DEF lowest
  <3>1. \E i \in lowest : \A k \in lowest : i <= k BY <2>2, <2>3, LeastMember
  <3> QED BY <3>1
 <2> HIDE DEF oldest, lowest
 <2>5. oldest \in 1..Len(longer) BY <2>3, <2>4
 <2>6. RemoveAt(longer, oldest) \in Seq(MarkerType) /\ Len(RemoveAt(longer, oldest)) = Len(longer) - 1
   BY <1>1, <2>5, RemoveAtIndex
 <2> QED BY <1>1, <1>2, <2>1, <2>6
<1> QED BY <1>3, <1>4

\* A marker of two messages of a run.
LEMMA MarkerOf ==
  ASSUME NEW ms \in Seq(Message), NEW n \in 0..MaxMessages, Ordered(ms), Below(ms, 2 * n + 1),
    Len(ms) <= 2 * n, NEW i \in DOMAIN ms, NEW j \in DOMAIN ms, NEW priority \in {10, 30}
  PROVE Marker(ms, i, j, priority) \in MarkerType
<1>1.
  /\ Len(ms) \in Nat /\ DOMAIN ms = 1..Len(ms) /\ MaxMessages \in Nat /\ n \in Nat
  /\ n <= MaxMessages
  BY MessagesOf, BoundsAssumption
<1>2. ASSUME NEW k \in DOMAIN ms
  PROVE
    /\ k \in 1..(2 * MaxMessages) /\ TurnIndex(ms, k) \in 0..MaxMessages
    /\ ms[k].id \in 0..MaxMessages /\ ms[k].kind \in Kind
 <2>1. k \in 1..(2 * MaxMessages) BY <1>1
 <2>2. TurnIndex(ms, k) \in 0..n BY <1>1, TurnsBounded
 <2>3. TurnIndex(ms, k) \in 0..MaxMessages BY <1>1, <2>2
 <2>4. ms[k] \in Message BY MessagesOf
 <2> QED BY <2>1, <2>3, <2>4, Sizes
<1> QED BY <1>2 DEF Marker, MarkerType

--------------------
(* Calls that are not answered *)

Unanswered(ms) ==
  {i \in DOMAIN ms :
     /\ ms[i].kind = "use"
     /\ ~ /\ i < Len(ms)
          /\ ms[i + 1].kind = "result"
          /\ ms[i + 1].id = ms[i].id}

LEMMA UnansweredCount ==
  ASSUME NEW ms \in Seq(Message)
  PROVE IsFiniteSet(Unanswered(ms)) /\ Cardinality(Unanswered(ms)) \in Nat
<1>1. Len(ms) \in Nat /\ DOMAIN ms = 1..Len(ms) BY Indices
<1>2. IsFiniteSet(1..Len(ms)) /\ Unanswered(ms) \subseteq 1..Len(ms)
  BY <1>1, FS_Interval DEF Unanswered
<1> QED BY <1>2, FS_Subset, FS_CardinalityType

\* A call more may be one more that is not answered; its result is one less.
LEMMA UnansweredMore ==
  ASSUME NEW ms \in Seq(Message), NEW m \in Message
  PROVE
    /\ Cardinality(Unanswered(Append(ms, m)))
         <= Cardinality(Unanswered(ms)) + (IF m.kind = "use" THEN 1 ELSE 0)
    /\ (/\ m.kind = "result" /\ ms # <<>>
        /\ Last(ms).kind = "use" /\ Last(ms).id = m.id)
         => Cardinality(Unanswered(Append(ms, m))) + 1 <= Cardinality(Unanswered(ms))
<1> DEFINE r == Append(ms, m)
  old == Unanswered(ms)
  new == Unanswered(r)
  n == Len(ms)
<1>1. n \in Nat /\ DOMAIN ms = 1..n BY Indices
<1>2. r \in Seq(Message) /\ Len(r) = n + 1 /\ DOMAIN r = 1..n + 1
 <2>1. r \in Seq(Message) /\ Len(r) = n + 1 BY AppendNew
 <2> QED BY <2>1, Indices
<1>3. r[n + 1] = m /\ \A i \in DOMAIN ms : r[i] = ms[i]
 <2>1. \A i \in 1..n + 1 : r[i] = IF i <= n THEN ms[i] ELSE m BY <1>2, AppendNew
 <2> QED BY <1>1, <2>1
<1>4.
  /\ IsFiniteSet(old) /\ Cardinality(old) \in Nat
  /\ IsFiniteSet(new) /\ Cardinality(new) \in Nat
  BY <1>2, UnansweredCount
<1> HIDE DEF r
<1>5. ASSUME NEW i \in new, i # n + 1
  PROVE i \in old /\ i \in 1..n
 <2>1.
   /\ i \in 1..n + 1 /\ r[i].kind = "use"
   /\ ~ (i < n + 1 /\ r[i + 1].kind = "result" /\ r[i + 1].id = r[i].id)
   BY <1>2 DEF Unanswered
 <2>2. i \in DOMAIN ms /\ r[i] = ms[i] BY <1>1, <1>3, <1>5, <2>1
 <2>3. ASSUME i < n
   PROVE r[i + 1] = ms[i + 1]
   BY <1>1, <1>3, <2>2, <2>3
 <2> QED BY <1>1, <2>1, <2>2, <2>3 DEF Unanswered
<1>6. m.kind # "use" => n + 1 \notin new BY <1>3 DEF Unanswered
<1>7. Cardinality(new) <= Cardinality(old) + (IF m.kind = "use" THEN 1 ELSE 0)
 <2>1. CASE m.kind = "use"
  <3>1. new \subseteq old \cup {n + 1} BY <1>5
  <3>2. /\ IsFiniteSet(old \cup {n + 1})
        /\ Cardinality(old \cup {n + 1}) <= Cardinality(old) + 1
   <4> HIDE DEF old, n
   <4>1.
     /\ IsFiniteSet(old \cup {n + 1})
     /\ \/ Cardinality(old \cup {n + 1}) = Cardinality(old)
        \/ Cardinality(old \cup {n + 1}) = Cardinality(old) + 1
     BY <1>4, FS_AddElement
   <4> QED BY <1>4, <4>1
  <3> DEFINE c == Cardinality(old \cup {n + 1})
  <3>3. Cardinality(new) <= c /\ c \in Nat
   <4> HIDE DEF old, new, n
   <4> QED BY <3>1, <3>2, FS_Subset, FS_CardinalityType DEF c
  <3>4. c <= Cardinality(old) + 1 BY <3>2
  <3> HIDE DEF c, old, new
  <3> QED BY <1>4, <2>1, <3>3, <3>4
 <2>2. CASE m.kind # "use"
  <3>1. new \subseteq old BY <1>5, <1>6, <2>2
  <3> HIDE DEF old, new
  <3>2. Cardinality(new) <= Cardinality(old) BY <1>4, <3>1, FS_Subset
  <3> QED BY <1>4, <2>2, <3>2
 <2> QED BY <2>1, <2>2
<1>8. ASSUME m.kind = "result", ms # <<>>, Last(ms).kind = "use", Last(ms).id = m.id
  PROVE Cardinality(new) + 1 <= Cardinality(old)
 <2>1. n \in 1..n /\ n >= 1 BY <1>1, <1>8, EmptySeq
 <2>2. Last(ms) = ms[n] BY DEF Last
 <2>3. n \in old BY <1>1, <1>8, <2>1, <2>2 DEF Unanswered
 <2>4. n \notin new
  <3>1. n < n + 1 /\ r[n] = ms[n] BY <1>1, <1>3, <2>1
  <3> QED BY <1>2, <1>3, <1>8, <2>2, <3>1 DEF Unanswered
 <2>5. new \subseteq old \ {n} BY <1>5, <1>6, <1>8, <2>4
 <2>6. IsFiniteSet(old \ {n}) /\ Cardinality(old \ {n}) = Cardinality(old) - 1
  <3> HIDE DEF old, n
  <3> QED BY <1>4, <2>3, FS_RemoveElement
 <2>7. Cardinality(new) <= Cardinality(old \ {n})
  <3> HIDE DEF old, new, n
  <3> QED BY <2>5, <2>6, FS_Subset
 <2> HIDE DEF old, new
 <2> QED BY <1>4, <2>6, <2>7
<1> QED BY <1>7, <1>8 DEF r

--------------------
(* The invariant is inductive *)

LEMMA Nothing ==
  /\ <<>> \in Seq(Message) /\ <<>> \in Seq(MarkerType) /\ Len(<<>>) = 0
  /\ Unanswered(<<>>) = {} /\ Cardinality({}) = 0 /\ Ordered(<<>>) /\ AllReal(<<>>)
  /\ \A top : Below(<<>>, top)
  /\ \A other : Within(<<>>, other) /\ Before(<<>>, other) /\ Before(other, <<>>)
  /\ \A ms \in Seq(Message) : ms \o <<>> = ms
<1> DEFINE none == <<>>
<1>1. /\ none \in Seq(Message) /\ none \in Seq(MarkerType) /\ Len(none) = 0 /\ DOMAIN none = {}
  BY EmptySeq
<1>2. \A ms \in Seq(Message) : ms \o none = ms
 <2> SUFFICES ASSUME NEW ms \in Seq(Message)
   PROVE ms \o none = ms
   OBVIOUS
 <2>1.
   /\ ms \o none \in Seq(Message) /\ Len(ms \o none) = Len(ms) + Len(none) /\ Len(ms) \in Nat
   /\ \A i \in 1..Len(ms \o none) :
        (ms \o none)[i] = IF i <= Len(ms) THEN ms[i] ELSE none[i - Len(ms)]
  <3> HIDE DEF none
  <3> QED BY <1>1, ConcatDisjoint, Indices
 <2> DEFINE r == ms \o none
 <2>2. r \in Seq(Message) /\ Len(r) = Len(ms) /\ \A i \in 1..Len(ms) : r[i] = ms[i]
  <3> HIDE DEF none
  <3> QED BY <1>1, <2>1
 <2> HIDE DEF r
 <2>3. r = ms BY <2>2, SeqEqual
 <2> QED BY <2>3 DEF r
<1> HIDE DEF none
<1>3. Unanswered(none) = {} /\ Cardinality({}) = 0 BY <1>1, FS_EmptySet DEF Unanswered
<1>4. Ordered(none) /\ AllReal(none) /\ \A top : Below(none, top)
  BY <1>1 DEF Ordered, AllReal, Below
<1>5. \A other : Within(none, other) /\ Before(none, other) /\ Before(other, none)
  BY <1>1 DEF Within, Before
<1> QED BY <1>1, <1>2, <1>3, <1>4, <1>5 DEF none

LEMMA InitIInv == Init => IInv
<1> SUFFICES ASSUME Init
  PROVE IInv
  OBVIOUS
<1>1.
  /\ messages = <<>> /\ saved = <<>> /\ registry = <<>> /\ local = <<>> /\ persisted = <<>>
  /\ run = "none" /\ pc = "idle" /\ nextId = 0 /\ clean = TRUE /\ cut = 0
  BY DEF Init
<1>2. TypeOK
 <2>1. 0 \in 0..MaxMessages /\ 0 \in 0..MaxRestarts /\ 0 <= MarkerCap
   BY BoundsAssumption, PolicyAssumption
 <2> QED BY <1>1, <2>1, Nothing DEF TypeOK
<1>3. Open = 0 /\ Top = 1 BY <1>1 DEF Open, Top
<1>4. Phases /\ Rooms BY <1>1, <1>3, Nothing DEF Phases, Rooms
<1>5. Orders /\ WrittenAhead /\ Agrees BY <1>1, Nothing DEF Orders, WrittenAhead, Agrees
<1>6. Cuts
 <2>1. Dangling = {} BY <1>1, Nothing DEF Dangling, Unanswered
 <2> QED BY <1>1, <2>1, Nothing DEF Cuts
<1>7. Newest BY <1>1 DEF Newest, NewestReachesProvider
<1> QED BY <1>2, <1>4, <1>5, <1>6, <1>7 DEF IInv

\* One more after two sequences.
LEMMA AppendInside ==
  ASSUME NEW ms \in Seq(Message), NEW others \in Seq(Message), NEW m \in Message
  PROVE Append(ms \o others, m) = ms \o Append(others, m)
<1> DEFINE both == ms \o others
  more == Append(others, m)
  left == Append(both, m)
  right == ms \o more
<1>1. Len(ms) \in Nat /\ Len(others) \in Nat BY Indices
<1>2.
  /\ both \in Seq(Message) /\ Len(both) = Len(ms) + Len(others)
  /\ \A i \in 1..Len(both) : both[i] = IF i <= Len(ms) THEN ms[i] ELSE others[i - Len(ms)]
  BY ConcatDisjoint
<1>3.
  /\ more \in Seq(Message) /\ Len(more) = Len(others) + 1
  /\ \A i \in 1..Len(more) : more[i] = IF i <= Len(others) THEN others[i] ELSE m
  BY AppendNew
<1> HIDE DEF both, more
<1>4.
  /\ left \in Seq(Message) /\ Len(left) = Len(both) + 1
  /\ \A i \in 1..Len(left) : left[i] = IF i <= Len(both) THEN both[i] ELSE m
  BY <1>2, AppendNew
<1>5.
  /\ right \in Seq(Message) /\ Len(right) = Len(ms) + Len(more)
  /\ \A i \in 1..Len(right) : right[i] = IF i <= Len(ms) THEN ms[i] ELSE more[i - Len(ms)]
  BY <1>3, ConcatDisjoint
<1> HIDE DEF left, right
<1>6. Len(left) = Len(right) /\ Len(left) = Len(ms) + Len(others) + 1
  BY <1>1, <1>2, <1>3, <1>4, <1>5
<1>7. ASSUME NEW i \in 1..Len(left)
  PROVE left[i] = right[i]
 <2>1. CASE i <= Len(ms)
  <3>1. i \in 1..Len(both) /\ i <= Len(both) BY <1>1, <1>2, <2>1
  <3> QED BY <1>2, <1>4, <1>5, <1>6, <2>1, <3>1
 <2>2. CASE ~ (i <= Len(ms)) /\ i <= Len(both)
  <3>1. i \in 1..Len(both) /\ i - Len(ms) \in 1..Len(more) /\ i - Len(ms) <= Len(others)
    BY <1>1, <1>2, <1>3, <2>2
  <3> QED BY <1>2, <1>3, <1>4, <1>5, <1>6, <2>2, <3>1
 <2>3. CASE ~ (i <= Len(both))
  <3>1. i - Len(ms) \in 1..Len(more) /\ ~ (i - Len(ms) <= Len(others)) /\ ~ (i <= Len(ms))
    BY <1>1, <1>2, <1>3, <1>6, <2>3
  <3> QED BY <1>3, <1>4, <1>5, <1>6, <2>3, <3>1
 <2>4. i <= Len(ms) => i <= Len(both) BY <1>1, <1>2
 <2> QED BY <2>1, <2>2, <2>3
<1>8. left = right BY <1>4, <1>5, <1>6, <1>7, SeqEqual
<1> QED BY <1>8 DEF left, right, both, more

\* The numbers of a state.
LEMMA Numbers ==
  ASSUME TypeOK
  PROVE
    /\ Open \in {0, 1} /\ Top \in Int /\ nextId \in Nat /\ nextId <= MaxMessages
    /\ MaxMessages \in Nat /\ MaxRestarts \in Nat /\ cut \in Nat /\ cut <= MaxRestarts
    /\ Len(saved) \in Nat /\ Len(local) \in Nat /\ Len(messages) \in Nat
    /\ Len(persisted) \in Nat
    /\ Dangling = Unanswered(saved) /\ Cardinality(Dangling) \in Nat
<1>1.
  /\ nextId \in 0..MaxMessages /\ cut \in 0..MaxRestarts
  /\ saved \in Seq(Message) /\ local \in Seq(Message) /\ messages \in Seq(Message)
  /\ persisted \in Seq(Message)
  BY DEF TypeOK
<1>2.
  nextId \in Nat /\ cut \in Nat /\ MaxMessages \in Nat /\ MaxRestarts \in Nat
  /\ nextId <= MaxMessages /\ cut <= MaxRestarts
  BY <1>1, BoundsAssumption
<1>3. Open \in {0, 1} /\ Top \in Int BY <1>2 DEF Open, Top
<1>4. Dangling = Unanswered(saved) BY DEF Dangling, Unanswered
<1>5. Cardinality(Dangling) \in Nat BY <1>1, <1>4, UnansweredCount
<1>6. Len(saved) \in Nat /\ Len(local) \in Nat /\ Len(messages) \in Nat /\ Len(persisted) \in Nat
  BY <1>1, Indices
<1> QED BY <1>2, <1>3, <1>4, <1>5, <1>6

\* The orders and what is written ahead of the next state, from the four sequences of messages.
LEMMA SameSequences ==
  ASSUME TypeOK, Orders, WrittenAhead, NEW bound \in Int, Top <= bound
  PROVE
    /\ Below(messages, bound) /\ Below(saved, bound) /\ Below(local, bound)
    /\ Below(persisted, bound)
<1>1. Top \in Int BY Numbers
<1> QED BY <1>1, BelowMore DEF TypeOK, Orders

\* What is known once a run has said a message, all of it below a bound.
Spoken(m, bound) ==
  /\ local' \in Seq(Message) /\ Len(local') = Len(local) + 1
  /\ local' # <<>> /\ Last(local') = m /\ saved' \in Seq(Message) /\ persisted' \in Seq(Message)
  /\ run = "chat" => /\ saved' = Append(saved, m) /\ Len(saved') = Len(saved) + 1
                     /\ Len(persisted') = Len(persisted) + 1
                     /\ saved' # <<>> /\ Last(saved') = m
  /\ run # "chat" => saved' = saved /\ persisted' = persisted
  /\ Ordered(local') /\ Below(local', bound)
  /\ Ordered(saved') /\ Below(saved', bound) /\ AllReal(saved')
  /\ Ordered(persisted') /\ Below(persisted', bound) /\ AllReal(persisted')
  /\ Below(messages, bound) /\ Within(messages, saved')
  /\ run = "chat" => /\ Before(messages, persisted')
                     /\ Within(local', saved') /\ Within(persisted', saved')
  /\ clean => saved' = IF run = "chat" THEN messages \o persisted' ELSE messages

\* What a run says is newer than all there is.
LEMMA Says ==
  ASSUME IInv, pc # "idle", NEW m \in Message, NEW bound \in Int, IsReal(m), m.id >= 1,
    Top < Rank(m), Rank(m) <= bound, local' = Append(local, m), OnMessage(m)
  PROVE Spoken(m, bound)
<1> USE DEF Spoken
<1>1.
  /\ TypeOK /\ Orders /\ WrittenAhead /\ Agrees /\ Top \in Int /\ Top <= bound
  /\ messages \in Seq(Message) /\ saved \in Seq(Message) /\ local \in Seq(Message)
  /\ persisted \in Seq(Message)
 <2>1. TypeOK /\ Orders /\ WrittenAhead /\ Agrees BY DEF IInv
 <2>2. Top \in Int /\ Rank(m) \in Nat BY <2>1, Numbers, Sizes
 <2> QED BY <2>1, <2>2 DEF TypeOK
<1>2.
  /\ Below(messages, bound) /\ Below(saved, bound) /\ Below(local, bound)
  /\ Below(persisted, bound)
  BY <1>1, SameSequences
<1>3.
  /\ local' \in Seq(Message) /\ Len(local') = Len(local) + 1
  /\ local' # <<>> /\ Last(local') = m /\ Ordered(local') /\ Below(local', bound)
  BY <1>1, AppendKeeps DEF Orders
<1>4. CASE run = "chat"
 <2>1. saved' = Append(saved, m) /\ persisted' = Append(persisted, m) BY <1>4 DEF OnMessage
 <2>2.
   /\ saved' \in Seq(Message) /\ Len(saved') = Len(saved) + 1
   /\ saved' # <<>> /\ Last(saved') = m
   /\ Ordered(saved') /\ Below(saved', bound) /\ AllReal(saved')
   BY <1>1, <2>1, AppendKeeps DEF Orders
 <2>3.
   /\ persisted' \in Seq(Message) /\ Len(persisted') = Len(persisted) + 1
   /\ Ordered(persisted') /\ Below(persisted', bound) /\ AllReal(persisted')
   BY <1>1, <2>1, AppendKeeps DEF Orders
 <2>4. Before(messages, persisted') BY <1>1, <1>4, <2>1, BeforeLonger DEF Orders
 <2>5. Within(messages, saved') /\ Within(local', saved') /\ Within(persisted', saved')
   BY <1>1, <1>4, <2>1, WithinLonger DEF WrittenAhead
 <2>6. clean => saved' = messages \o persisted'
  <3> SUFFICES ASSUME clean
    PROVE saved' = messages \o persisted'
    OBVIOUS
  <3>1. saved = messages \o persisted BY <1>1, <1>4 DEF Agrees
  <3>2. Append(messages \o persisted, m) = messages \o Append(persisted, m)
    BY <1>1, AppendInside
  <3> QED BY <2>1, <3>1, <3>2
 <2> QED BY <1>2, <1>3, <1>4, <2>1, <2>2, <2>3, <2>4, <2>5, <2>6
<1>5. CASE run # "chat"
 <2>1. saved' = saved /\ persisted' = persisted BY <1>5 DEF OnMessage
 <2>2.
   /\ Ordered(saved) /\ AllReal(saved) /\ Ordered(persisted) /\ AllReal(persisted)
   /\ Within(messages, saved) /\ (clean => saved = messages)
   BY <1>1, <1>5 DEF Orders, WrittenAhead, Agrees
 <2> QED BY <1>1, <1>2, <1>3, <1>5, <2>1, <2>2
<1> QED BY <1>4, <1>5

\* A step of a plan, or the prompt of a chat, is the newest message.
LEMMA FirstMessage ==
  ASSUME IInv, pc = "idle", nextId < MaxMessages
  PROVE
    LET m == Msg("user", Fresh, 1)
    IN  /\ m \in Message /\ IsReal(m) /\ m.id = nextId + 1 /\ m.id >= 1
        /\ m.kind = "user" /\ Rank(m) = 2 * nextId + 2
        /\ Top = 2 * nextId + 1 /\ Top < Rank(m) /\ Rank(m) <= 2 * (nextId + 1) + 1
        /\ run = "none" /\ Open = 0 /\ nextId + 1 \in 0..MaxMessages
<1>1. /\ nextId \in Nat /\ MaxMessages \in Nat /\ Phases BY Numbers DEF IInv
<1>2. PICK id : id = nextId + 1 OBVIOUS
<1>3. id \in 0..MaxMessages /\ id \in Nat BY <1>1, <1>2
<1> DEFINE m == Msg("user", id, 1)
<1>4. m \in Message /\ m.id = id /\ m.kind = "user" /\ IsReal(m) /\ Rank(m) = 2 * id
  BY <1>3 DEF Msg, Message, Kind, IsReal, Rank
<1>5. Open = 0 /\ Top = 2 * nextId + 1 /\ run = "none" BY <1>1 DEF Open, Top, Phases
<1> HIDE DEF m
<1>6. m = Msg("user", Fresh, 1) BY <1>2 DEF m, Fresh
<1> QED BY <1>1, <1>2, <1>3, <1>4, <1>5, <1>6

LEMMA PromptStep == ASSUME IInv, Prompt PROVE IInv'
<1> DEFINE m == Msg("user", Fresh, 1)
<1>0.
  /\ pc = "idle" /\ nextId < MaxMessages /\ messages' = Append(messages, m)
  /\ saved' = Append(saved, m) /\ local' = Append(messages, m) /\ nextId' = nextId + 1
  /\ persisted' = <<>> /\ run' = "chat" /\ pc' = "top"
  /\ registry' = registry /\ clean' = clean /\ cut' = cut
  BY DEF Prompt, Fresh
<1>1.
  /\ m \in Message /\ IsReal(m) /\ m.id = nextId + 1 /\ m.id >= 1 /\ m.kind = "user"
  /\ Top < Rank(m) /\ Rank(m) <= 2 * (nextId + 1) + 1
  /\ run = "none" /\ Open = 0 /\ nextId + 1 \in 0..MaxMessages
  BY <1>0, FirstMessage
<1> HIDE DEF m
<1>2. TypeOK /\ Rooms /\ Orders /\ WrittenAhead /\ Agrees /\ Cuts BY DEF IInv
<1>3.
  /\ messages \in Seq(Message) /\ saved \in Seq(Message) /\ registry \in Seq(MarkerType)
  /\ Len(registry) <= MarkerCap /\ clean \in BOOLEAN /\ cut \in 0..MaxRestarts
  BY <1>2 DEF TypeOK
<1>4.
  /\ nextId \in Nat /\ Top \in Int /\ Len(saved) \in Nat /\ Len(messages) \in Nat
  /\ cut \in Nat
  BY <1>2, Numbers
<1>5. PICK bound : bound = 2 * (nextId + 1) + 1 OBVIOUS
<1>6. bound \in Int /\ Rank(m) <= bound BY <1>1, <1>4, <1>5
<1>7.
  /\ messages' \in Seq(Message) /\ Len(messages') = Len(messages) + 1
  /\ messages' # <<>> /\ Last(messages') = m
  /\ Ordered(messages') /\ Below(messages', bound)
  BY <1>0, <1>1, <1>2, <1>3, <1>4, <1>6, AppendKeeps DEF Orders
<1>8.
  /\ saved' \in Seq(Message) /\ Len(saved') = Len(saved) + 1
  /\ Ordered(saved') /\ Below(saved', bound) /\ AllReal(saved')
  BY <1>0, <1>1, <1>2, <1>3, <1>4, <1>6, AppendKeeps DEF Orders
<1>9. local' = messages' BY <1>0
<1>10. Within(messages', saved') BY <1>0, <1>1, <1>2, <1>3, WithinLonger DEF WrittenAhead
<1>11. TypeOK' BY <1>0, <1>1, <1>3, <1>7, <1>8, <1>9, Nothing DEF TypeOK
<1>12. Phases' /\ Open' = 0 /\ Top' = bound BY <1>0, <1>4, <1>5 DEF Phases, Open, Top
<1>13. Rooms'
 <2>1. Len(saved) <= 2 * nextId /\ Len(messages) <= 2 * nextId BY <1>1, <1>2, <1>4 DEF Rooms
 <2> QED BY <1>0, <1>4, <1>7, <1>8, <1>9, <1>12, <2>1, Nothing DEF Rooms
<1>14. Orders' BY <1>0, <1>7, <1>8, <1>9, <1>12, Nothing DEF Orders
<1>15. WrittenAhead' BY <1>0, <1>9, <1>10, Nothing DEF WrittenAhead
<1>16. Agrees'
 <2>1. clean => saved = messages BY <1>1, <1>2 DEF Agrees
 <2>2. clean => saved' = messages' BY <1>0, <2>1
 <2>3. messages' \o <<>> = messages' BY <1>7, Nothing
 <2> QED BY <1>0, <2>2, <2>3 DEF Agrees
<1>17. Cuts'
 <2>1. Dangling = Unanswered(saved) /\ Cardinality(Dangling) \in Nat BY <1>2, Numbers
 <2>2. Dangling' = Unanswered(saved') BY DEF Dangling, Unanswered
 <2>3. Cardinality(Unanswered(saved')) <= Cardinality(Unanswered(saved)) + 0
  <3>1. m.kind # "use" BY <1>1
  <3> QED BY <1>0, <1>1, <1>3, <3>1, UnansweredMore
 <2>4. Cardinality(Dangling) <= cut + 0 BY <1>0, <1>2 DEF Cuts
 <2>5. Cardinality(Dangling') \in Nat BY <1>8, <2>2, UnansweredCount
 <2>6. Cardinality(Dangling') <= cut BY <1>4, <2>1, <2>2, <2>3, <2>4, <2>5
 <2> QED BY <1>0, <1>4, <2>5, <2>6 DEF Cuts
<1>18. Newest' BY <1>0, <1>1, <1>7, <1>9 DEF Newest, NewestReachesProvider
<1> QED BY <1>11, <1>12, <1>13, <1>14, <1>15, <1>16, <1>17, <1>18 DEF IInv

LEMMA PlanStepStep == ASSUME IInv, PlanStep PROVE IInv'
<1> DEFINE m == Msg("user", Fresh, 1)
<1>0.
  /\ pc = "idle" /\ nextId < MaxMessages /\ local' = Append(<<>>, m) /\ nextId' = nextId + 1
  /\ persisted' = <<>> /\ run' = "step" /\ pc' = "top"
  /\ messages' = messages /\ saved' = saved
  /\ registry' = registry /\ clean' = clean /\ cut' = cut
 <2>1. <<m>> = Append(<<>>, m) OBVIOUS
 <2> QED BY <2>1 DEF PlanStep, Fresh
<1>1.
  /\ m \in Message /\ IsReal(m) /\ m.id = nextId + 1 /\ m.id >= 1
  /\ m.kind = "user" /\ Rank(m) = 2 * nextId + 2
  /\ Top < Rank(m) /\ Rank(m) <= 2 * (nextId + 1) + 1
  /\ run = "none" /\ Open = 0 /\ nextId + 1 \in 0..MaxMessages
  BY <1>0, FirstMessage
<1> HIDE DEF m
<1>2. TypeOK /\ Rooms /\ Orders /\ WrittenAhead /\ Agrees /\ Cuts BY DEF IInv
<1>3.
  /\ messages \in Seq(Message) /\ saved \in Seq(Message) /\ registry \in Seq(MarkerType)
  /\ Len(registry) <= MarkerCap /\ clean \in BOOLEAN /\ cut \in 0..MaxRestarts
  BY <1>2 DEF TypeOK
<1>4. /\ nextId \in Nat /\ Top \in Int /\ Len(saved) \in Nat /\ Len(messages) \in Nat
  BY <1>2, Numbers
<1>5. PICK bound : bound = 2 * (nextId + 1) + 1 OBVIOUS
<1>6. bound \in Int /\ Rank(m) <= bound /\ Top <= bound
 <2>1. Rank(m) \in Int BY <1>1, <1>4
 <2> QED BY <1>1, <1>4, <1>5, <2>1
<1>7.
  /\ local' \in Seq(Message) /\ Len(local') = 1 /\ local' # <<>> /\ Last(local') = m
  /\ Ordered(local') /\ Below(local', bound)
 <2>1. PICK none : none = <<>> OBVIOUS
 <2>2. Below(none, Top) /\ Ordered(none) /\ none \in Seq(Message) /\ Len(none) = 0
   BY <2>1, Nothing
 <2>3. local' = Append(none, m) BY <1>0, <2>1
 <2>4.
   /\ local' \in Seq(Message) /\ Len(local') = Len(none) + 1
   /\ local' # <<>> /\ Last(local') = m /\ Ordered(local') /\ Below(local', bound)
   BY <1>1, <1>4, <1>6, <2>2, <2>3, AppendKeeps
 <2> QED BY <2>2, <2>4
<1>8. Below(messages, bound) /\ Below(saved, bound) BY <1>2, <1>6, SameSequences
<1>11. TypeOK' BY <1>0, <1>1, <1>3, <1>7, Nothing DEF TypeOK
<1>12. Phases' /\ Open' = 0 /\ Top' = bound BY <1>0, <1>4, <1>5 DEF Phases, Open, Top
<1>13. Rooms'
 <2>1. Len(saved) <= 2 * nextId /\ Len(messages) <= 2 * nextId BY <1>1, <1>2, <1>4 DEF Rooms
 <2> QED BY <1>0, <1>4, <1>7, <1>12, <2>1 DEF Rooms
<1>14. Orders' BY <1>0, <1>2, <1>7, <1>8, <1>12, Nothing DEF Orders
<1>15. WrittenAhead' BY <1>0, <1>2 DEF WrittenAhead
<1>16. Agrees' BY <1>0, <1>1, <1>2 DEF Agrees
<1>17. Cuts' BY <1>0, <1>2 DEF Cuts, Dangling
<1>18. Newest' BY <1>0, <1>1, <1>7 DEF Newest, NewestReachesProvider
<1> QED BY <1>11, <1>12, <1>13, <1>14, <1>15, <1>16, <1>17, <1>18 DEF IInv

LEMMA RequestStep == ASSUME IInv, Request PROVE IInv'
<1>0.
  /\ pc = "top" /\ local' = Compact(local) /\ pc' = "waiting"
  /\ messages' = messages /\ saved' = saved /\ registry' = registry
  /\ persisted' = persisted /\ run' = run /\ nextId' = nextId /\ clean' = clean /\ cut' = cut
  BY DEF Request
<1>2. TypeOK /\ Phases /\ Rooms /\ Orders /\ WrittenAhead /\ Agrees /\ Cuts /\ Newest
  BY DEF IInv
<1>3. local \in Seq(Message) /\ registry \in Seq(MarkerType) BY <1>2 DEF TypeOK
<1>4.
  /\ Follows(local', local)
  /\ Tokens(local') <= Available + 1 \/ Len(local') <= 3
  BY <1>0, <1>3, CompactFollows
<1>5.
  /\ Ordered(local') /\ Below(local', Top)
  /\ (Within(local, saved) => Within(local', saved))
  BY <1>2, <1>3, <1>4, FollowsKeeps DEF Orders
<1>6. local' \in Seq(Message) /\ Len(local') <= Len(local) BY <1>4 DEF Follows
<1>7. local' # <<>> /\ Last(local') = Last(local) BY <1>0, <1>2, <1>4 DEF Newest, Follows
<1>11. TypeOK' BY <1>0, <1>2, <1>6 DEF TypeOK
<1>12. Phases' /\ Open' = Open /\ Top' = Top /\ Open = 0 BY <1>0, <1>2 DEF Phases, Open, Top
<1>13. Rooms'
 <2>1. Len(local) \in Nat /\ Len(local') \in Nat /\ nextId \in Nat
   BY <1>2, <1>3, <1>6, Numbers, Indices
 <2> QED BY <1>0, <1>2, <1>6, <1>12, <2>1 DEF Rooms
<1>14. Orders' BY <1>0, <1>2, <1>5, <1>12 DEF Orders
<1>15. WrittenAhead' BY <1>0, <1>2, <1>5 DEF WrittenAhead
<1>16. Agrees' BY <1>0, <1>2 DEF Agrees
<1>17. Cuts' BY <1>0, <1>2 DEF Cuts, Dangling
<1>18. Newest' BY <1>0, <1>2, <1>4, <1>7 DEF Newest, NewestReachesProvider
<1> QED BY <1>11, <1>12, <1>13, <1>14, <1>15, <1>16, <1>17, <1>18 DEF IInv

LEMMA AnswerWithCallsStep == ASSUME IInv, AnswerWithCalls PROVE IInv'
<1> DEFINE m == Msg("use", Fresh, 1)
<1>0.
  /\ pc = "waiting" /\ nextId < MaxMessages /\ local' = Append(local, m) /\ OnMessage(m)
  /\ nextId' = nextId + 1 /\ pc' = "tools"
  /\ messages' = messages /\ registry' = registry /\ run' = run
  /\ clean' = clean /\ cut' = cut
  BY DEF AnswerWithCalls, Fresh
<1>2. TypeOK /\ Phases /\ Rooms /\ Orders /\ WrittenAhead /\ Agrees /\ Cuts /\ Newest
  BY DEF IInv
<1>3.
  /\ nextId \in Nat /\ MaxMessages \in Nat /\ Len(saved) \in Nat /\ Len(local) \in Nat
  /\ Len(messages) \in Nat /\ Len(persisted) \in Nat /\ cut \in Nat
  BY <1>2, Numbers
<1>4. PICK id : id = nextId + 1 OBVIOUS
<1>5. id \in 0..MaxMessages /\ id \in Nat /\ id >= 1 BY <1>0, <1>3, <1>4
<1>6. PICK bound : bound = 2 * id OBVIOUS
<1>7.
  /\ m \in Message /\ IsReal(m) /\ m.id = nextId + 1 /\ m.id >= 1 /\ m.kind = "use"
  /\ Rank(m) = bound /\ bound \in Int
 <2>1. m = Msg("use", id, 1) BY <1>4 DEF Fresh
 <2> HIDE DEF m
 <2> QED BY <1>4, <1>5, <1>6, <2>1 DEF Msg, Message, Kind, IsReal, Rank
<1> HIDE DEF m
<1>8.
  Open = 0 /\ Top = 2 * nextId + 1 /\ Open' = 1 /\ Top' = bound /\ Top < Rank(m)
  /\ Rank(m) <= bound
  BY <1>0, <1>3, <1>4, <1>6, <1>7 DEF Open, Top
<1>9. Spoken(m, bound) BY <1>0, <1>7, <1>8, Says
<1> USE DEF Spoken
<1>11. TypeOK' BY <1>0, <1>2, <1>4, <1>5, <1>9 DEF TypeOK
<1>12. Phases' BY <1>0, <1>2 DEF Phases
<1>13. Rooms' BY <1>0, <1>2, <1>3, <1>8, <1>9 DEF Rooms
<1>14. Orders' BY <1>0, <1>2, <1>8, <1>9 DEF Orders
<1>15. WrittenAhead' BY <1>0, <1>9 DEF WrittenAhead
<1>16. Agrees' BY <1>0, <1>9 DEF Agrees
<1>17. Cuts'
 <2>1.
   /\ Dangling = Unanswered(saved) /\ Cardinality(Dangling) \in Nat
   /\ Dangling' = Unanswered(saved') /\ Cardinality(Dangling') \in Nat
   BY <1>2, <1>9, Numbers, UnansweredCount DEF Dangling, Unanswered
 <2>2. Cardinality(Dangling) <= cut BY <1>0, <1>2, <1>3, <2>1 DEF Cuts
 <2>3. CASE run = "chat"
  <3>1. Cardinality(Unanswered(saved')) <= Cardinality(Unanswered(saved)) + 1
    BY <1>2, <1>7, <1>9, <2>3, UnansweredMore DEF TypeOK
  <3> QED BY <1>0, <1>3, <2>1, <2>2, <2>3, <3>1 DEF Cuts
 <2>4. CASE run # "chat"
  <3>1. Dangling' = Dangling BY <1>9, <2>1, <2>4
  <3> QED BY <1>0, <1>3, <2>1, <2>2, <2>4, <3>1 DEF Cuts
 <2> QED BY <2>3, <2>4
<1>18. Newest' BY <1>0, <1>7, <1>9 DEF Newest, NewestReachesProvider
<1> QED BY <1>11, <1>12, <1>13, <1>14, <1>15, <1>16, <1>17, <1>18 DEF IInv

LEMMA ToolsDoneStep == ASSUME IInv, ToolsDone PROVE IInv'
<1>1.
  PICK size \in ResultSizes :
    /\ local' = Append(local, Msg("result", nextId, size))
    /\ OnMessage(Msg("result", nextId, size))
    /\ registry' = Register(registry, Marker(local', (Len(local) + 1) - 1, Len(local) + 1, 30))
  BY DEF ToolsDone
<1> DEFINE m == Msg("result", nextId, size)
<1>0.
  /\ pc = "tools" /\ local' = Append(local, m) /\ OnMessage(m)
  /\ nextId' = nextId /\ pc' = "top" /\ messages' = messages /\ run' = run
  /\ clean' = clean /\ cut' = cut
  BY <1>1 DEF ToolsDone
<1>2. TypeOK /\ Phases /\ Rooms /\ Orders /\ WrittenAhead /\ Agrees /\ Cuts /\ Newest
  BY DEF IInv
<1>3.
  /\ nextId \in Nat /\ MaxMessages \in Nat /\ Len(saved) \in Nat /\ Len(local) \in Nat
  /\ Len(messages) \in Nat /\ Len(persisted) \in Nat /\ cut \in Nat
  /\ nextId \in 0..MaxMessages
  BY <1>2, Numbers DEF TypeOK
<1>4. Open = 1 /\ Top = 2 * nextId /\ Open' = 0 /\ Top' = 2 * nextId + 1
  BY <1>0, <1>3 DEF Open, Top
<1>5. nextId >= 1
 <2>1. Len(local) + 1 <= 2 * nextId BY <1>2, <1>4 DEF Rooms
 <2> QED BY <1>3, <2>1
<1>6. PICK bound : bound = 2 * nextId + 1 OBVIOUS
<1>7.
  /\ m \in Message /\ IsReal(m) /\ m.id = nextId /\ m.id >= 1 /\ m.kind = "result"
  /\ Rank(m) = bound /\ bound \in Int
  BY <1>3, <1>5, <1>6 DEF Msg, Message, Kind, IsReal, Rank
<1> HIDE DEF m
<1>8. Top < Rank(m) /\ Rank(m) <= bound /\ Top' = bound BY <1>3, <1>4, <1>6, <1>7
<1>9. Spoken(m, bound) BY <1>0, <1>7, <1>8, Says
<1> USE DEF Spoken
<1>10. registry' \in Seq(MarkerType) /\ Len(registry') <= MarkerCap
 <2>1. local # <<>> BY <1>0, <1>2 DEF Newest
 <2>2. Len(local) >= 1 BY <1>2, <1>3, <2>1, EmptySeq DEF TypeOK
 <2>3. PICK longer, i, j : longer = local' /\ i = (Len(local) + 1) - 1 /\ j = Len(local) + 1
   OBVIOUS
 <2>4.
   /\ longer \in Seq(Message) /\ Ordered(longer) /\ Below(longer, 2 * nextId + 1)
   /\ Len(longer) <= 2 * nextId /\ i \in DOMAIN longer /\ j \in DOMAIN longer
  <3>1. Len(local) + 1 <= 2 * nextId BY <1>2, <1>4 DEF Rooms
  <3>2. DOMAIN longer = 1..Len(longer) /\ Len(longer) = j BY <1>9, <2>3, Indices
  <3>3. i \in 1..j /\ j \in 1..j BY <1>3, <2>2, <2>3
  <3> QED BY <1>6, <1>9, <2>3, <3>1, <3>2, <3>3
 <2>5. PICK marker : marker = Marker(longer, i, j, 30) OBVIOUS
 <2>6. marker \in MarkerType BY <1>3, <2>4, <2>5, MarkerOf
 <2>7. registry' = Register(registry, marker) BY <1>1, <2>3, <2>5
 <2> QED BY <1>2, <2>6, <2>7, RegisterType DEF TypeOK
<1>11. TypeOK' BY <1>0, <1>2, <1>9, <1>10 DEF TypeOK
<1>12. Phases' BY <1>0, <1>2 DEF Phases
<1>13. Rooms' BY <1>0, <1>2, <1>3, <1>4, <1>9 DEF Rooms
<1>14. Orders' BY <1>0, <1>2, <1>8, <1>9 DEF Orders
<1>15. WrittenAhead' BY <1>0, <1>9 DEF WrittenAhead
<1>16. Agrees' BY <1>0, <1>9 DEF Agrees
<1>17. Cuts'
 <2>1.
   /\ Dangling = Unanswered(saved) /\ Cardinality(Dangling) \in Nat
   /\ Dangling' = Unanswered(saved') /\ Cardinality(Dangling') \in Nat
   BY <1>2, <1>9, Numbers, UnansweredCount DEF Dangling, Unanswered
 <2>3. CASE run = "chat"
  <3>1. saved # <<>> /\ Last(saved).kind = "use" /\ Last(saved).id = m.id
    BY <1>0, <1>2, <1>7, <2>3 DEF Newest
  <3>2. Cardinality(Unanswered(saved')) + 1 <= Cardinality(Unanswered(saved))
    BY <1>2, <1>7, <1>9, <2>3, <3>1, UnansweredMore DEF TypeOK
  <3>3. Cardinality(Dangling) <= cut + 1 BY <1>0, <1>2, <2>3 DEF Cuts
  <3> QED BY <1>0, <1>3, <2>1, <2>3, <3>2, <3>3 DEF Cuts
 <2>4. CASE run # "chat"
  <3>1. Dangling' = Dangling BY <1>9, <2>1, <2>4
  <3>2. Cardinality(Dangling) <= cut + 0 BY <1>0, <1>2, <2>4 DEF Cuts
  <3> QED BY <1>0, <1>3, <2>1, <2>4, <3>1, <3>2 DEF Cuts
 <2> QED BY <2>3, <2>4
<1>18. Newest' BY <1>0, <1>7, <1>9 DEF Newest, NewestReachesProvider
<1> QED BY <1>11, <1>12, <1>13, <1>14, <1>15, <1>16, <1>17, <1>18 DEF IInv

\* The UI's messages once a run has ended, with what it said.
LEMMA Ended ==
  ASSUME messages \in Seq(Message), NEW said \in Seq(Message), NEW file, NEW bound,
    Ordered(messages), Ordered(said), Below(messages, bound), Below(said, bound),
    Within(messages, file),
    run = "chat" => Before(messages, said) /\ Within(said, file),
    messages' = IF run = "chat" THEN messages \o said ELSE messages
  PROVE
    /\ messages' \in Seq(Message) /\ Ordered(messages') /\ Below(messages', bound)
    /\ Within(messages', file)
    /\ Len(messages') = Len(messages) + (IF run = "chat" THEN Len(said) ELSE 0)
<1>1. CASE run = "chat"
 <2>1. messages' = messages \o said BY <1>1
 <2>2.
   /\ messages \o said \in Seq(Message) /\ Len(messages \o said) = Len(messages) + Len(said)
   /\ Ordered(messages \o said) /\ Below(messages \o said, bound)
   /\ Within(messages, file) /\ Within(said, file) => Within(messages \o said, file)
   BY <1>1, ConcatKeeps
 <2> QED BY <1>1, <2>1, <2>2
<1>2. CASE run # "chat"
 <2>1. Len(messages) \in Nat BY Indices
 <2> QED BY <1>2, <2>1
<1> QED BY <1>1, <1>2

LEMMA AnswerAndStopStep == ASSUME IInv, AnswerAndStop PROVE IInv'
<1> DEFINE m == Msg("text", Fresh, 1)
  i == IF Len(local) + 1 = 1 THEN 1 ELSE (Len(local) + 1) - 1
<1>0.
  /\ pc = "waiting" /\ nextId < MaxMessages /\ local' = Append(local, m) /\ OnMessage(m)
  /\ registry' = Register(registry, Marker(local', i, Len(local) + 1, 10))
  /\ nextId' = nextId + 1 /\ pc' = "idle" /\ run' = "none"
  /\ messages' = (IF run = "chat" THEN messages \o persisted' ELSE messages)
  /\ clean' = clean /\ cut' = cut
  BY DEF AnswerAndStop, EndRun, Fresh
<1> HIDE DEF i
<1>2. TypeOK /\ Phases /\ Rooms /\ Orders /\ WrittenAhead /\ Agrees /\ Cuts /\ Newest
  BY DEF IInv
<1>3.
  /\ nextId \in Nat /\ MaxMessages \in Nat /\ Len(saved) \in Nat /\ Len(local) \in Nat
  /\ Len(messages) \in Nat /\ Len(persisted) \in Nat /\ cut \in Nat
  BY <1>2, Numbers
<1>4. PICK id : id = nextId + 1 OBVIOUS
<1>5. id \in 0..MaxMessages /\ id \in Nat /\ id >= 1 BY <1>0, <1>3, <1>4
<1>6. PICK bound : bound = 2 * id + 1 OBVIOUS
<1>7.
  /\ m \in Message /\ IsReal(m) /\ m.id = nextId + 1 /\ m.id >= 1 /\ m.kind = "text"
  /\ Rank(m) = 2 * id /\ bound \in Int
 <2>1. m = Msg("text", id, 1) BY <1>4 DEF Fresh
 <2> HIDE DEF m
 <2> QED BY <1>4, <1>5, <1>6, <2>1 DEF Msg, Message, Kind, IsReal, Rank
<1> HIDE DEF m
<1>8.
  Open = 0 /\ Top = 2 * nextId + 1 /\ Open' = 0 /\ Top' = bound /\ Top < Rank(m)
  /\ Rank(m) <= bound
  BY <1>0, <1>3, <1>4, <1>5, <1>6, <1>7 DEF Open, Top
<1>9. Spoken(m, bound) BY <1>0, <1>7, <1>8, Says
<1> USE DEF Spoken
<1>9a.
  /\ messages' \in Seq(Message) /\ Ordered(messages') /\ Below(messages', bound)
  /\ Within(messages', saved')
  /\ Len(messages') = Len(messages) + (IF run = "chat" THEN Len(persisted') ELSE 0)
 <2>1. PICK said, file : said = persisted' /\ file = saved' OBVIOUS
 <2>2.
   /\ messages \in Seq(Message) /\ said \in Seq(Message) /\ Ordered(messages) /\ Ordered(said)
   /\ Below(messages, bound) /\ Below(said, bound) /\ Within(messages, file)
   /\ (run = "chat" => Before(messages, said) /\ Within(said, file))
   /\ messages' = (IF run = "chat" THEN messages \o said ELSE messages)
   BY <1>0, <1>2, <1>9, <2>1 DEF TypeOK, Orders
 <2>3.
   /\ messages' \in Seq(Message) /\ Ordered(messages') /\ Below(messages', bound)
   /\ Within(messages', file)
   /\ Len(messages') = Len(messages) + (IF run = "chat" THEN Len(said) ELSE 0)
   BY <2>2, Ended
 <2> QED BY <2>1, <2>3
<1>10. registry' \in Seq(MarkerType) /\ Len(registry') <= MarkerCap
 <2>3. PICK longer, j : longer = local' /\ j = Len(local) + 1 OBVIOUS
 <2>4.
   /\ longer \in Seq(Message) /\ Ordered(longer) /\ Below(longer, 2 * id + 1)
   /\ Len(longer) <= 2 * id /\ i \in DOMAIN longer /\ j \in DOMAIN longer
  <3>1. Len(local) <= 2 * nextId BY <1>2, <1>3, <1>8 DEF Rooms
  <3>2. DOMAIN longer = 1..Len(longer) /\ Len(longer) = j BY <1>9, <2>3, Indices
  <3>3. i \in 1..j /\ j \in 1..j /\ j <= 2 * id BY <1>3, <1>4, <2>3, <3>1 DEF i
  <3> QED BY <1>6, <1>9, <2>3, <3>2, <3>3
 <2>5. PICK marker : marker = Marker(longer, i, j, 10) OBVIOUS
 <2>6. marker \in MarkerType BY <1>5, <2>4, <2>5, MarkerOf
 <2>7. registry' = Register(registry, marker) BY <1>0, <2>3, <2>5
 <2> QED BY <1>2, <2>6, <2>7, RegisterType DEF TypeOK
<1>11. TypeOK' BY <1>0, <1>2, <1>4, <1>5, <1>9, <1>9a, <1>10 DEF TypeOK
<1>12. Phases' BY <1>0 DEF Phases
<1>13. Rooms'
 <2>1.
   /\ Len(saved) <= 2 * nextId /\ Len(local) <= 2 * nextId
   /\ Len(messages) + (IF run = "chat" THEN Len(persisted) ELSE 0) <= 2 * nextId
   BY <1>2, <1>3, <1>8 DEF Rooms
 <2>2. Len(saved') <= 2 * nextId' /\ Len(local') <= 2 * nextId' BY <1>0, <1>3, <1>9, <2>1
 <2>3. Len(messages') <= 2 * nextId' /\ Len(messages') \in Nat
  <3>1. CASE run = "chat" BY <1>0, <1>3, <1>9, <1>9a, <2>1, <3>1
  <3>2. CASE run # "chat" BY <1>0, <1>3, <1>9, <1>9a, <2>1, <3>2
  <3> QED BY <3>1, <3>2
 <2>4. Len(saved') \in Nat /\ Len(local') \in Nat BY <1>9, Indices
 <2> QED BY <1>0, <1>3, <1>8, <2>2, <2>3, <2>4 DEF Rooms
<1>14. Orders' BY <1>0, <1>2, <1>8, <1>9, <1>9a DEF Orders
<1>15. WrittenAhead' BY <1>0, <1>9a DEF WrittenAhead
<1>16. Agrees' BY <1>0, <1>9 DEF Agrees
<1>17. Cuts'
 <2>1.
   /\ Dangling = Unanswered(saved) /\ Cardinality(Dangling) \in Nat
   /\ Dangling' = Unanswered(saved') /\ Cardinality(Dangling') \in Nat
   BY <1>2, <1>9, Numbers, UnansweredCount DEF Dangling, Unanswered
 <2>2. Cardinality(Dangling) <= cut BY <1>0, <1>2, <1>3, <2>1 DEF Cuts
 <2>3. Cardinality(Dangling') <= Cardinality(Dangling)
  <3>1. CASE run = "chat"
   <4>1. Cardinality(Unanswered(saved')) <= Cardinality(Unanswered(saved)) + 0
     BY <1>2, <1>7, <1>9, <3>1, UnansweredMore DEF TypeOK
   <4> QED BY <2>1, <4>1
  <3>2. CASE run # "chat"
   <4>1. Dangling' = Dangling BY <1>9, <2>1, <3>2
   <4> QED BY <2>1, <4>1
  <3> QED BY <3>1, <3>2
 <2> QED BY <1>0, <1>3, <2>1, <2>2, <2>3 DEF Cuts
<1>18. Newest' BY <1>0 DEF Newest, NewestReachesProvider
<1> QED BY <1>11, <1>12, <1>13, <1>14, <1>15, <1>16, <1>17, <1>18 DEF IInv

LEMMA StopStep == ASSUME IInv, Stop PROVE IInv'
<1>0.
  /\ pc \in {"top", "waiting"} /\ pc' = "idle" /\ run' = "none"
  /\ saved' = saved /\ registry' = registry /\ local' = local /\ persisted' = persisted
  /\ nextId' = nextId /\ clean' = clean /\ cut' = cut
  /\ messages' = (IF run = "chat" THEN messages \o persisted ELSE messages)
  BY DEF Stop, EndRun
<1>2. TypeOK /\ Phases /\ Rooms /\ Orders /\ WrittenAhead /\ Agrees /\ Cuts /\ Newest
  BY DEF IInv
<1>3.
  /\ messages' \in Seq(Message) /\ Ordered(messages') /\ Below(messages', Top)
  /\ Within(messages', saved)
  /\ Len(messages') = Len(messages) + (IF run = "chat" THEN Len(persisted) ELSE 0)
  BY <1>0, <1>2, Ended DEF TypeOK, Orders, WrittenAhead
<1>8. Open' = Open /\ Top' = Top /\ Open = 0 BY <1>0 DEF Open, Top
<1>11. TypeOK' BY <1>0, <1>2, <1>3 DEF TypeOK
<1>12. Phases' BY <1>0 DEF Phases
<1>13. Rooms'
 <2>1. Len(messages') \in Nat /\ nextId \in Nat BY <1>2, <1>3, Numbers, Indices
 <2> QED BY <1>0, <1>2, <1>3, <1>8, <2>1 DEF Rooms
<1>14. Orders' BY <1>0, <1>2, <1>3, <1>8 DEF Orders
<1>15. WrittenAhead' BY <1>0, <1>3 DEF WrittenAhead
<1>16. Agrees' BY <1>0, <1>2 DEF Agrees
<1>17. Cuts' BY <1>0, <1>2 DEF Cuts, Dangling
<1>18. Newest' BY <1>0 DEF Newest, NewestReachesProvider
<1> QED BY <1>11, <1>12, <1>13, <1>14, <1>15, <1>16, <1>17, <1>18 DEF IInv

LEMMA ThrowStep == ASSUME IInv, Throw PROVE IInv'
<1>0.
  /\ pc # "idle" /\ pc' = "idle" /\ run' = "none" /\ cut < MaxRestarts /\ cut' = cut + 1
  /\ clean' = (clean /\ (run = "step" \/ persisted = <<>>))
  /\ messages' = messages /\ saved' = saved /\ registry' = registry /\ local' = local
  /\ persisted' = persisted /\ nextId' = nextId
  BY DEF Throw
<1>2. TypeOK /\ Phases /\ Rooms /\ Orders /\ WrittenAhead /\ Agrees /\ Cuts /\ Newest
  BY DEF IInv
<1>3.
  /\ nextId \in Nat /\ MaxRestarts \in Nat /\ Len(saved) \in Nat /\ Len(local) \in Nat
  /\ Len(messages) \in Nat /\ Len(persisted) \in Nat /\ cut \in Nat
  /\ Open \in {0, 1} /\ Top \in Int /\ Cardinality(Dangling) \in Nat
  BY <1>2, Numbers
<1>4. PICK bound : bound = 2 * nextId + 1 OBVIOUS
<1>5. /\ bound \in Int /\ Top <= bound /\ Top' = bound /\ Open' = 0
  BY <1>0, <1>3, <1>4 DEF Open, Top
<1>6.
  /\ Below(messages, bound) /\ Below(saved, bound) /\ Below(local, bound)
  /\ Below(persisted, bound)
  BY <1>2, <1>5, SameSequences
<1>7. clean' \in BOOLEAN /\ (clean' => clean /\ (run = "step" \/ persisted = <<>>)) BY <1>0
<1>11. TypeOK'
 <2>1. cut' \in 0..MaxRestarts BY <1>0, <1>3
 <2> QED BY <1>0, <1>2, <1>7, <2>1 DEF TypeOK
<1>12. Phases' BY <1>0 DEF Phases
<1>13. Rooms'
 <2>1.
   /\ Len(saved) + Open <= 2 * nextId /\ Len(local) + Open <= 2 * nextId
   /\ Len(messages) + (IF run = "chat" THEN Len(persisted) ELSE 0) + Open <= 2 * nextId
   BY <1>2 DEF Rooms
 <2>2. Len(saved) <= 2 * nextId /\ Len(local) <= 2 * nextId BY <1>3, <2>1
 <2>3. Len(messages) <= 2 * nextId
  <3>1. CASE run = "chat" BY <1>3, <2>1, <3>1
  <3>2. CASE run # "chat" BY <1>3, <2>1, <3>2
  <3> QED BY <3>1, <3>2
 <2> QED BY <1>0, <1>3, <1>5, <2>2, <2>3 DEF Rooms
<1>14. Orders' BY <1>0, <1>2, <1>5, <1>6 DEF Orders
<1>15. WrittenAhead' BY <1>0, <1>2 DEF WrittenAhead
<1>16. Agrees'
 <2> SUFFICES ASSUME clean'
   PROVE saved = messages
   BY <1>0 DEF Agrees
 <2>1. clean /\ (run = "step" \/ persisted = <<>>) BY <1>7
 <2>2. messages \o <<>> = messages BY <1>2, Nothing DEF TypeOK
 <2>3. CASE run = "chat" BY <1>2, <2>1, <2>2, <2>3 DEF Agrees
 <2>4. CASE run # "chat" BY <1>2, <2>1, <2>4 DEF Agrees
 <2> QED BY <2>3, <2>4
<1>17. Cuts'
 <2>1. Dangling' = Dangling BY <1>0 DEF Dangling
 <2>2. Cardinality(Dangling) <= cut + 1 BY <1>2, <1>3 DEF Cuts
 <2> QED BY <1>0, <1>3, <2>1, <2>2 DEF Cuts
<1>18. Newest' BY <1>0 DEF Newest, NewestReachesProvider
<1> QED BY <1>11, <1>12, <1>13, <1>14, <1>15, <1>16, <1>17, <1>18 DEF IInv

LEMMA RestartStep == ASSUME IInv, Restart PROVE IInv'
<1>0.
  /\ pc' = "idle" /\ run' = "none" /\ cut < MaxRestarts /\ cut' = cut + 1
  /\ clean' = TRUE /\ messages' = saved /\ saved' = saved /\ registry' = <<>>
  /\ local' = <<>> /\ persisted' = <<>> /\ nextId' = nextId
  BY DEF Restart
<1>2. TypeOK /\ Rooms /\ Orders /\ Cuts BY DEF IInv
<1>3.
  /\ nextId \in Nat /\ MaxRestarts \in Nat /\ Len(saved) \in Nat /\ cut \in Nat
  /\ Open \in {0, 1} /\ Top \in Int /\ Cardinality(Dangling) \in Nat
  BY <1>2, Numbers
<1>4. PICK bound : bound = 2 * nextId + 1 OBVIOUS
<1>5. /\ bound \in Int /\ Top <= bound /\ Top' = bound /\ Open' = 0
  BY <1>0, <1>3, <1>4 DEF Open, Top
<1>6. saved \in Seq(Message) /\ Ordered(saved) /\ Below(saved, Top) /\ AllReal(saved)
  BY <1>2 DEF TypeOK, Orders
<1>7. Below(saved, bound) BY <1>3, <1>5, <1>6, BelowMore
<1>11. TypeOK'
 <2>1. cut' \in 0..MaxRestarts /\ 0 <= MarkerCap BY <1>0, <1>3, PolicyAssumption
 <2> QED BY <1>0, <1>2, <2>1, Nothing DEF TypeOK
<1>12. Phases' BY <1>0 DEF Phases
<1>13. Rooms'
 <2>1. Len(saved) <= 2 * nextId BY <1>2, <1>3 DEF Rooms
 <2> QED BY <1>0, <1>3, <1>5, <2>1, Nothing DEF Rooms
<1>14. Orders' BY <1>0, <1>5, <1>6, <1>7, Nothing DEF Orders
<1>15. WrittenAhead' BY <1>0 DEF WrittenAhead, Within
<1>16. Agrees' BY <1>0 DEF Agrees
<1>17. Cuts'
 <2>1. Dangling' = Dangling BY <1>0 DEF Dangling
 <2>2. Cardinality(Dangling) <= cut + 1 BY <1>2, <1>3 DEF Cuts
 <2> QED BY <1>0, <1>3, <2>1, <2>2 DEF Cuts
<1>18. Newest' BY <1>0 DEF Newest, NewestReachesProvider
<1> QED BY <1>11, <1>12, <1>13, <1>14, <1>15, <1>16, <1>17, <1>18 DEF IInv

LEMMA SlashCompactStep == ASSUME IInv, SlashCompact PROVE IInv'
<1>0.
  /\ pc = "idle" /\ messages' = Compact(messages) /\ clean' = FALSE
  /\ saved' = saved /\ registry' = registry /\ local' = local /\ persisted' = persisted
  /\ run' = run /\ pc' = pc /\ nextId' = nextId /\ cut' = cut
  BY DEF SlashCompact
<1>2. TypeOK /\ Phases /\ Rooms /\ Orders /\ WrittenAhead /\ Agrees /\ Cuts /\ Newest
  BY DEF IInv
<1>3. messages \in Seq(Message) /\ registry \in Seq(MarkerType) BY <1>2 DEF TypeOK
<1>4. Follows(messages', messages) BY <1>0, <1>3, CompactFollows
<1>5.
  /\ Ordered(messages') /\ Below(messages', Top)
  /\ (Within(messages, saved) => Within(messages', saved))
  BY <1>2, <1>3, <1>4, FollowsKeeps DEF Orders
<1>6. messages' \in Seq(Message) /\ Len(messages') <= Len(messages) BY <1>4 DEF Follows
<1>7. run = "none" /\ Open = 0 /\ Open' = Open /\ Top' = Top BY <1>0, <1>2 DEF Phases, Open, Top
<1>11. TypeOK' BY <1>0, <1>2, <1>6 DEF TypeOK
<1>12. Phases' BY <1>0, <1>2 DEF Phases
<1>13. Rooms'
 <2>1. Len(messages) \in Nat /\ Len(messages') \in Nat /\ nextId \in Nat
   BY <1>2, <1>6, Numbers, Indices
 <2> QED BY <1>0, <1>2, <1>6, <1>7, <2>1 DEF Rooms
<1>14. Orders' BY <1>0, <1>2, <1>5, <1>7 DEF Orders
<1>15. WrittenAhead' BY <1>0, <1>2, <1>5, <1>7 DEF WrittenAhead
<1>16. Agrees' BY <1>0 DEF Agrees
<1>17. Cuts' BY <1>0, <1>2 DEF Cuts, Dangling
<1>18. Newest' BY <1>0 DEF Newest, NewestReachesProvider
<1> QED BY <1>11, <1>12, <1>13, <1>14, <1>15, <1>16, <1>17, <1>18 DEF IInv

LEMMA StutterStep == ASSUME IInv, UNCHANGED vars PROVE IInv'
BY DEF IInv, vars, TypeOK, Phases, Rooms, Orders, WrittenAhead, Agrees, Cuts, Newest,
  NewestReachesProvider, Open, Top, Dangling

LEMMA NextIInv == IInv /\ [Next]_vars => IInv'
BY PromptStep, PlanStepStep, RequestStep, AnswerWithCallsStep, ToolsDoneStep, AnswerAndStopStep,
  StopStep, ThrowStep, RestartStep, SlashCompactStep, StutterStep DEF Next

\* In every reachable state the messages the UI, the run and the session file hold are in the
\* one order of their ids, what the first two hold is in the third, and the bounds of
\* compaction, of the marker registry and of unanswered calls are kept.
THEOREM Invariant == Spec => []IInv
<1>1. Init => IInv BY InitIInv
<1>2. IInv /\ [Next]_vars => IInv' BY NextIInv
<1> QED BY <1>1, <1>2, PTL DEF Spec

--------------------
(* What follows *)

\* Write ahead: whatever a chat shows the provider is, summaries aside, a selection of the
\* session file in its order, so that a restart restores it.
THEOREM RequestsAreSaved == Spec => []RequestIsSaved
<1>1. IInv => RequestIsSaved
 <2> SUFFICES ASSUME IInv, pc = "waiting", run = "chat"
   PROVE SelectedFrom(local, saved)
   BY DEF RequestIsSaved
 <2>1.
   /\ local \in Seq(Message) /\ saved \in Seq(Message)
   /\ Ordered(saved) /\ AllReal(saved) /\ Ordered(local) /\ Within(local, saved)
   BY DEF IInv, TypeOK, Orders, WrittenAhead
 <2>2. \A k \in DOMAIN saved : k \in Nat /\ Rank(saved[k]) \in Nat BY <2>1, MessagesOf
 <2>3. \A k, l \in DOMAIN saved : k < l => Rank(saved[k]) < Rank(saved[l])
   BY <2>1 DEF Ordered, AllReal
 <2>4. \A k, l \in DOMAIN saved : saved[k] = saved[l] => k = l
  <3>1. \A k, l \in DOMAIN saved : k < l \/ l < k \/ k = l BY <2>2
  <3>2. \A k, l \in DOMAIN saved : k < l => saved[k] # saved[l] BY <2>2, <2>3
  <3> QED BY <3>1, <3>2
 <2>5.
   \A i \in DOMAIN local : local[i].kind # "summary" =>
     \E k \in DOMAIN saved : saved[k] = local[i]
   BY <2>1 DEF Within, IsReal
 <2>6. ASSUME NEW i \in DOMAIN local, NEW j \in DOMAIN local, NEW k \in DOMAIN saved,
     NEW l \in DOMAIN saved, local[i].kind # "summary", local[j].kind # "summary",
     i < j, saved[k] = local[i], saved[l] = local[j]
   PROVE k < l
  <3>1. Rank(saved[k]) < Rank(saved[l]) BY <2>1, <2>6 DEF Ordered, IsReal
  <3>2. k < l \/ l < k \/ k = l BY <2>2
  <3>3. ~ (l < k) /\ k # l BY <2>2, <2>3, <3>1
  <3> QED BY <3>2, <3>3
 <2> QED BY <2>4, <2>5, <2>6 DEF SelectedFrom
<1>2. []IInv => []RequestIsSaved BY <1>1, PTL
<1> QED BY <1>2, Invariant, PTL

\* The newest message, a prompt or a result, is the last of every request and is not compacted,
\* and the request fits the window but for one summary.
THEOREM NewestIsSent == Spec => []NewestReachesProvider
<1>1. IInv => NewestReachesProvider BY DEF IInv, Newest
<1> QED BY <1>1, Invariant, PTL

\* The session file has no call without its result but one for each run that was cut short, and
\* between runs it is what the UI shows.
THEOREM SessionStaysComplete == Spec => []SessionComplete
<1>1. IInv => SessionComplete
 <2> SUFFICES ASSUME IInv
   PROVE SessionComplete
   OBVIOUS
 <2>1. TypeOK /\ Phases /\ Agrees /\ Cuts BY DEF IInv
 <2>2. DanglingOnlyIfCut
  <3>1. cut \in Nat /\ Cardinality(Dangling) \in Nat BY <2>1, Numbers
  <3> QED BY <2>1, <3>1 DEF Cuts, DanglingOnlyIfCut
 <2>3. MemoryMatchesSession BY <2>1 DEF Phases, Agrees, MemoryMatchesSession
 <2> QED BY <2>1, <2>2, <2>3 DEF SessionComplete
<1>2. []IInv => []SessionComplete BY <1>1, PTL
<1> QED BY <1>2, Invariant, PTL

--------------------
(* The session file *)

SsStatuses == SsOpen \cup SsEnds
SsStored == {"goal", "none"} \X SsStatuses
SsTexts == {"none", "user", "assistant", "result", "tool", "completed"}
SsSaid == {"user", "assistant", "result"}

\* A record of a run has a number and is stored with a status and no mode "plan".
SsLines ==
  {l \in [kind : {"header", "garbled", "torn", "message", "entry", "plan", "sub_agent_run",
                  "child_execution"},
          id : Nat, turn : Nat, at : Nat, what : SsTexts \cup SsStored] :
     /\ l.kind = "plan" => l.id # 0 /\ l.what \in SsStored
     /\ l.kind = "message" => l.what \in SsSaid}

SsRuns ==
  [id : Nat \ {0}, at : Nat, status : SsStatuses, mode : {"goal", "plan", "none"}]

SsTypeOK ==
  /\ ssFile \in Seq(SsLines) /\ ssWritten \in Seq(SsLines)
  /\ ssNow \in Nat /\ ssUp \in BOOLEAN /\ ssTurn \in Nat /\ ssRun \in SsRuns \cup {SsNoRun}
  /\ ssCounts \in [messages : Nat, records : Nat, plans : Nat, crashes : Nat, waited : BOOLEAN]

SsTornLast(file) == \A n \in DOMAIN file : file[n].kind = "torn" => n = Len(file)

SsIsMessage(l) == l.kind = "message"
SsIsPlan(l) == l.kind = "plan"

\* The second of two records of runs is the later, or one of the same run.
SsFollows(old, new) == old.at <= new.at /\ (old.at = new.at => old.id = new.id)

SsMessagesRise(file, last) ==
  /\ \A n \in DOMAIN file : SsIsMessage(file[n]) => file[n].id <= last
  /\ \A m, n \in DOMAIN file :
       m < n /\ SsIsMessage(file[m]) /\ SsIsMessage(file[n]) => file[m].id < file[n].id

SsDatesRise(file, now) ==
  /\ \A n \in DOMAIN file : SsIsPlan(file[n]) => file[n].at < now
  /\ \A m, n \in DOMAIN file :
       m < n /\ SsIsPlan(file[m]) /\ SsIsPlan(file[n]) => SsFollows(file[m], file[n])

SsRunNewest(file, r, now) ==
  r # SsNoRun =>
    r.at < now /\ \A n \in DOMAIN file : SsIsPlan(file[n]) => SsFollows(file[n], r)

SsCut(file) == IF file # <<>> /\ Last(file).kind = "torn" THEN 1 ELSE 0

SsFewLost(file, written, crashes) == SsCount(written) - SsCount(file) + SsCut(file) <= crashes

SsUnwritten(file, written) ==
  written = <<>> => \A n \in DOMAIN file : file[n].kind \in {"header", "garbled", "torn"}

SsInv ==
  /\ SsTypeOK /\ SsTornLast(ssFile) /\ SsMessagesRise(ssFile, ssCounts.messages)
  /\ SsDatesRise(ssFile, ssNow) /\ SsRunNewest(ssFile, ssRun, ssNow)
  /\ SsFewLost(ssFile, ssWritten, ssCounts.crashes) /\ SsUnwritten(ssFile, ssWritten)

--------------------
(* Sizes *)

\* What is told apart by a function is as much as it was.
LEMMA ImageSize ==
  ASSUME NEW S, IsFiniteSet(S), NEW f, f = [i \in S |-> f[i]],
    \A i, j \in S : f[i] = f[j] => i = j
  PROVE
    LET T == {f[i] : i \in S}
    IN  IsFiniteSet(T) /\ Cardinality(T) = Cardinality(S)
<1> DEFINE T == {f[i] : i \in S}
<1>1. \A i \in S : f[i] \in T OBVIOUS
<1>2. \A t \in T : \E i \in S : f[i] = t OBVIOUS
<1>3. DOMAIN f = S OBVIOUS
<1> HIDE DEF T
<1>4. f \in [S -> T] BY <1>1, <1>3
<1>5. f \in Bijection(S, T) BY <1>2, <1>4 DEF Bijection, Injection, Surjection, IsInjective
<1>6. ExistsBijection(S, T) BY <1>5 DEF ExistsBijection
<1> QED BY <1>6, FS_Bijection DEF T

\* In a set of numbers the later have more before them.
LEMMA RanksRise ==
  ASSUME NEW S \in SUBSET Nat, IsFiniteSet(S)
  PROVE
    /\ \A i \in S : /\ Cardinality({j \in S : j < i}) \in Nat
                    /\ Cardinality({j \in S : j < i}) < Cardinality(S)
    /\ \A i, k \in S : i < k =>
         Cardinality({j \in S : j < i}) < Cardinality({j \in S : j < k})
<1> DEFINE under(i) == {j \in S : j < i}
<1>1. \A T \in SUBSET S : IsFiniteSet(T) /\ Cardinality(T) \in Nat
  BY FS_Subset, FS_CardinalityType
<1>2. ASSUME NEW T \in SUBSET S, NEW i \in T, under(i) \subseteq T
  PROVE Cardinality(under(i)) < Cardinality(T)
 <2>1. IsFiniteSet(T) /\ Cardinality(T) \in Nat /\ Cardinality(under(i)) \in Nat BY <1>1
 <2>2. i \notin under(i) OBVIOUS
 <2>3. under(i) \in SUBSET (T \ {i}) BY <1>2, <2>2
 <2> HIDE DEF under
 <2>4. IsFiniteSet(T \ {i}) /\ Cardinality(T \ {i}) = Cardinality(T) - 1
   BY <2>1, FS_RemoveElement
 <2>5. Cardinality(under(i)) <= Cardinality(T \ {i}) BY <2>3, <2>4, FS_Subset
 <2> QED BY <2>1, <2>4, <2>5
<1>3. \A i \in S : under(i) \in SUBSET S OBVIOUS
<1>4. \A i, k \in S : i < k => i \in under(k) /\ under(i) \subseteq under(k)
 <2>1. \A i \in S : i \in Nat OBVIOUS
 <2>2. \A i, j, k \in S : i < k /\ j < i => j < k BY <2>1
 <2> QED BY <2>2
<1> HIDE DEF under
<1>5. \A i \in S : Cardinality(under(i)) \in Nat /\ Cardinality(under(i)) < Cardinality(S)
  BY <1>1, <1>2, <1>3
<1>6. \A i, k \in S : i < k => Cardinality(under(i)) < Cardinality(under(k)) BY <1>2, <1>3, <1>4
<1> QED BY <1>5, <1>6 DEF under

\* The lines that count.
SsCounted(lines) == {n \in DOMAIN lines : lines[n].kind \in {"message", "plan", "entry"}}

LEMMA CountIs ==
  ASSUME NEW s \in Seq(SsLines)
  PROVE
    /\ SsCount(s) = Cardinality(SsCounted(s))
    /\ SsCounted(s) \in SUBSET (1 .. Len(s)) /\ IsFiniteSet(SsCounted(s))
    /\ SsCount(s) \in Nat /\ SsCount(s) <= Len(s) /\ Len(s) \in Nat
<1>1. Len(s) \in Nat /\ DOMAIN s = 1 .. Len(s) BY LenProperties
<1>2. SsCounted(s) \in SUBSET (1 .. Len(s)) /\ SsCount(s) = Cardinality(SsCounted(s))
  BY <1>1 DEF SsCounted, SsCount
<1>3. IsFiniteSet(1 .. Len(s)) /\ Cardinality(1 .. Len(s)) = Len(s) BY <1>1, FS_Interval
<1>4. IsFiniteSet(SsCounted(s)) /\ Cardinality(SsCounted(s)) <= Len(s) BY <1>2, <1>3, FS_Subset
<1> QED BY <1>1, <1>2, <1>4, FS_CardinalityType

LEMMA CountConcat ==
  ASSUME NEW s \in Seq(SsLines), NEW t \in Seq(SsLines)
  PROVE SsCount(s \o t) = SsCount(s) + SsCount(t)
<1> DEFINE A == SsCounted(s)
  B == SsCounted(t)
  C == SsCounted(s \o t)
  f == [i \in B |-> i + Len(s)]
  D == {f[i] : i \in B}
<1>1.
  /\ s \o t \in Seq(SsLines) /\ Len(s \o t) = Len(s) + Len(t)
  /\ Len(s) \in Nat /\ Len(t) \in Nat
  /\ DOMAIN s = 1 .. Len(s) /\ DOMAIN t = 1 .. Len(t) /\ DOMAIN (s \o t) = 1 .. Len(s) + Len(t)
  /\ \A i \in 1 .. Len(s) + Len(t) : (s \o t)[i] = IF i <= Len(s) THEN s[i] ELSE t[i - Len(s)]
  BY ConcatProperties, LenProperties
<1>2.
  /\ SsCount(s) = Cardinality(A) /\ SsCount(t) = Cardinality(B) /\ SsCount(s \o t) = Cardinality(C)
  /\ IsFiniteSet(A) /\ IsFiniteSet(B) /\ SsCount(s) \in Nat /\ SsCount(t) \in Nat
  /\ A \in SUBSET (1 .. Len(s)) /\ B \in SUBSET (1 .. Len(t))
  BY <1>1, CountIs
<1>3. C = A \cup D
 <2>1. ASSUME NEW i \in C
   PROVE i \in A \cup D
  <3>1. i \in 1 .. Len(s) + Len(t) /\ (s \o t)[i].kind \in {"message", "plan", "entry"}
    BY <1>1 DEF SsCounted
  <3>2. CASE i <= Len(s) BY <1>1, <3>1, <3>2 DEF SsCounted
  <3>3. CASE ~ (i <= Len(s))
   <4>1. i - Len(s) \in 1 .. Len(t) /\ (i - Len(s)) + Len(s) = i BY <1>1, <3>1, <3>3
   <4>2. (s \o t)[i] = t[i - Len(s)] BY <1>1, <3>1, <3>3
   <4>3. i - Len(s) \in B BY <1>1, <3>1, <4>1, <4>2 DEF SsCounted
   <4> QED BY <4>1, <4>3
  <3> QED BY <3>2, <3>3
 <2>2. ASSUME NEW i \in A
   PROVE i \in C
  <3>1. i \in 1 .. Len(s) /\ s[i].kind \in {"message", "plan", "entry"} BY <1>1 DEF SsCounted
  <3>2. i \in 1 .. Len(s) + Len(t) /\ (s \o t)[i] = s[i] BY <1>1, <3>1
  <3> QED BY <1>1, <3>1, <3>2 DEF SsCounted
 <2>3. ASSUME NEW i \in B
   PROVE i + Len(s) \in C
  <3>1. i \in 1 .. Len(t) /\ t[i].kind \in {"message", "plan", "entry"} BY <1>1 DEF SsCounted
  <3>2. i + Len(s) \in 1 .. Len(s) + Len(t) /\ (i + Len(s)) - Len(s) = i /\ ~ (i + Len(s) <= Len(s))
    BY <1>1, <3>1
  <3>3. (s \o t)[i + Len(s)] = t[i] BY <1>1, <3>2
  <3> QED BY <1>1, <3>1, <3>2, <3>3 DEF SsCounted
 <2> HIDE DEF A, B, C
 <2> QED BY <2>1, <2>2, <2>3
<1>4. IsFiniteSet(D) /\ Cardinality(D) = Cardinality(B)
 <2>1. \A i, j \in B : f[i] = f[j] => i = j BY <1>1, <1>2
 <2>2. f = [i \in B |-> f[i]] OBVIOUS
 <2> HIDE DEF f, B
 <2> QED BY <1>2, <2>1, <2>2, ImageSize
<1>5. A \cap D = {} BY <1>1, <1>2
<1> HIDE DEF A, B, C, D, f
<1>6. Cardinality(A \cup D) = Cardinality(A) + Cardinality(D) - Cardinality(A \cap D)
  BY <1>2, <1>4, FS_Union
<1>7. Cardinality(A \cap D) = 0 BY <1>5, FS_EmptySet
<1> QED BY <1>2, <1>3, <1>4, <1>6, <1>7

--------------------
(* What a write makes of the file *)

LEMMA LineTypes ==
  /\ SsGarbled \in SsLines /\ SsHeader \in SsLines
  /\ SsLine("torn", 0, 0, 0, "none") \in SsLines
BY DEF SsGarbled, SsHeader, SsLine, SsLines, SsTexts, SsStored

\* A first write after one that was cut off loses its first line.
LEMMA AppendPlaces ==
  ASSUME NEW file \in Seq(SsLines), NEW lines \in Seq(SsLines), lines # <<>>
  PROVE
    LET r == SsAppend(file, lines)
        d == SsCut(file)
    IN  /\ r \in Seq(SsLines) /\ Len(r) = Len(file) + Len(lines) - d
        /\ d \in {0, 1} /\ (d = 1 => Len(file) >= 1)
        /\ d = 1 <=> (file # <<>> /\ file[Len(file)].kind = "torn")
        /\ \A n \in 1 .. Len(file) :
             r[n] = IF d = 1 /\ n = Len(file) THEN SsGarbled ELSE file[n]
        /\ \A n \in 1 .. Len(r) : n > Len(file) =>
             (n - Len(file)) + d \in 1 .. Len(lines) /\ r[n] = lines[(n - Len(file)) + d]
        /\ SsCount(r) >= SsCount(file) + SsCount(lines) - d
<1> DEFINE r == SsAppend(file, lines)
  d == SsCut(file)
  L == Len(file)
<1>1.
  /\ L \in Nat /\ Len(lines) \in Nat \ {0} /\ (file # <<>> => L \in Nat \ {0})
  /\ SsCount(file) \in Nat /\ SsCount(lines) \in Nat
  BY LenProperties, EmptySeq, CountIs
<1>2. d = (IF file # <<>> /\ file[L].kind = "torn" THEN 1 ELSE 0) BY DEF SsCut, Last
<1>3. CASE d = 0
 <2>1. r = file \o lines
  <3>1. ~ (file # <<>> /\ file[L].kind = "torn") BY <1>2, <1>3
  <3> QED BY <3>1 DEF SsAppend, Last
 <2>2. SsCount(r) = SsCount(file) + SsCount(lines) BY <2>1, CountConcat
 <2>3.
   /\ r \in Seq(SsLines) /\ Len(r) = L + Len(lines)
   /\ \A n \in 1 .. Len(r) : r[n] = IF n <= L THEN file[n] ELSE lines[n - L]
   BY <2>1, ConcatProperties
 <2> HIDE DEF r, d, L
 <2>4. \A n \in 1 .. L : n \in 1 .. Len(r) /\ r[n] = file[n] BY <1>1, <2>3
 <2>5. \A n \in 1 .. Len(r) : n > L => (n - L) + d \in 1 .. Len(lines) /\ r[n] = lines[(n - L) + d]
   BY <1>1, <1>3, <2>3
 <2>6. SsCount(r) >= SsCount(file) + SsCount(lines) - d BY <1>1, <1>3, <2>2
 <2>7. Len(r) = L + Len(lines) - d BY <1>1, <1>3, <2>3
 <2>8. d \in {0, 1} /\ (d = 1 => L >= 1) /\ (d = 1 <=> (file # <<>> /\ file[L].kind = "torn"))
   BY <1>2, <1>3
 <2> QED BY <1>3, <2>3, <2>4, <2>5, <2>6, <2>7, <2>8 DEF r, d, L
<1>4. CASE d # 0
 <2>0. d = 1 /\ file # <<>> /\ file[L].kind = "torn" /\ L \in Nat \ {0} BY <1>1, <1>2, <1>4
 <2> DEFINE a == Front(file)
   b == a \o <<SsGarbled>>
   c == Tail(lines)
 <2>1. r = b \o c BY <2>0 DEF SsAppend, Last
 <2>2.
   /\ a \in Seq(SsLines) /\ Len(a) = L - 1
   /\ \A i \in 1 .. L - 1 : a[i] = file[i]
  <3>1. \A i \in 1 .. L - 1 : file[i] \in SsLines BY <1>1, ElementOfSeq
  <3>2. a = SubSeq(file, 1, L - 1) /\ L - 1 \in Int BY <1>1 DEF Front
  <3>3. /\ a \in Seq(SsLines) /\ Len(a) = (IF 1 <= L - 1 THEN L - 1 - 1 + 1 ELSE 0)
        /\ \A i \in 1 .. L - 1 - 1 + 1 : a[i] = file[1 + i - 1]
   <4> HIDE DEF a, L
   <4> QED BY <3>1, <3>2, SubSeqProperties
  <3> HIDE DEF a, L
  <3> QED BY <2>0, <3>3
 <2> HIDE DEF a
 <2>3. <<SsGarbled>> \in Seq(SsLines) /\ Len(<<SsGarbled>>) = 1 /\ <<SsGarbled>>[1] = SsGarbled
   BY LineTypes
 <2>4.
   /\ b \in Seq(SsLines) /\ Len(b) = L
   /\ \A i \in 1 .. L : b[i] = IF i = L THEN SsGarbled ELSE file[i]
  <3>1. /\ b \in Seq(SsLines) /\ Len(b) = (L - 1) + 1
        /\ \A i \in 1 .. (L - 1) + 1 : b[i] = IF i <= L - 1 THEN a[i] ELSE <<SsGarbled>>[i - (L - 1)]
    BY <2>2, <2>3, ConcatProperties
  <3>2. \A i \in 1 .. L : i = L => b[i] = SsGarbled BY <2>0, <2>3, <3>1
  <3>3. \A i \in 1 .. L : i # L => b[i] = file[i] BY <2>0, <2>2, <3>1
  <3> QED BY <2>0, <3>1, <3>2, <3>3
 <2>5.
   /\ c \in Seq(SsLines) /\ Len(c) = Len(lines) - 1
   /\ \A i \in 1 .. Len(c) : c[i] = lines[i + 1]
   BY HeadTailProperties
 <2> HIDE DEF b, c, r, d, L
 <2>6.
   /\ r \in Seq(SsLines) /\ Len(r) = L + Len(c)
   /\ \A n \in 1 .. Len(r) : r[n] = IF n <= L THEN b[n] ELSE c[n - L]
  <3>1. /\ r \in Seq(SsLines) /\ Len(r) = Len(b) + Len(c)
        /\ \A n \in 1 .. Len(b) + Len(c) : r[n] = IF n <= Len(b) THEN b[n] ELSE c[n - Len(b)]
    BY <2>1, <2>4, <2>5, ConcatProperties
  <3>2. Len(b) = L BY <2>4
  <3> QED BY <3>1, <3>2
 <2>7. \A n \in 1 .. L : r[n] = IF d = 1 /\ n = L THEN SsGarbled ELSE file[n]
  <3>1. \A n \in 1 .. L : n \in 1 .. Len(r) /\ n <= L BY <1>1, <2>5, <2>6
  <3>2. \A n \in 1 .. L : r[n] = b[n] BY <2>6, <3>1
  <3> QED BY <2>0, <2>4, <3>2
 <2>8. ASSUME NEW n \in 1 .. Len(r), n > L
   PROVE (n - L) + d \in 1 .. Len(lines) /\ r[n] = lines[(n - L) + d]
  <3>1. n - L \in 1 .. Len(c) /\ (n - L) + d = (n - L) + 1 /\ (n - L) + 1 \in 1 .. Len(lines)
    BY <1>1, <2>0, <2>5, <2>6, <2>8
  <3>2. r[n] = c[n - L] BY <1>1, <2>6, <2>8
  <3>3. c[n - L] = lines[(n - L) + 1] BY <2>5, <3>1
  <3> QED BY <3>1, <3>2, <3>3
 <2>9. SsCount(b) = SsCount(file)
  <3>1. \A i \in 1 .. L : b[i].kind \in {"message", "plan", "entry"} <=>
                          file[i].kind \in {"message", "plan", "entry"}
   <4>1. SsGarbled.kind \notin {"message", "plan", "entry"} BY DEF SsGarbled, SsLine
   <4> QED BY <2>0, <2>4, <4>1
  <3>2. DOMAIN b = 1 .. L /\ DOMAIN file = 1 .. L BY <2>4, LenProperties DEF L
  <3>3. SsCounted(b) = SsCounted(file) BY <3>1, <3>2 DEF SsCounted
  <3> QED BY <2>4, <3>3, CountIs
 <2>10. SsCount(lines) <= SsCount(c) + 1 /\ SsCount(c) \in Nat
  <3>1. /\ <<Head(lines)>> \in Seq(SsLines) /\ Len(<<Head(lines)>>) = 1
        /\ lines = <<Head(lines)>> \o c
   <4>1. Head(lines) \in SsLines /\ Head(lines) = lines[1] BY HeadTailProperties
   <4>2. <<Head(lines)>> \in Seq(SsLines) /\ Len(<<Head(lines)>>) = 1 /\ <<Head(lines)>>[1] = lines[1]
     BY <4>1
   <4>3.
     /\ <<Head(lines)>> \o c \in Seq(SsLines) /\ Len(<<Head(lines)>> \o c) = 1 + Len(c)
     /\ \A i \in 1 .. 1 + Len(c) : (<<Head(lines)>> \o c)[i] =
          IF i <= 1 THEN <<Head(lines)>>[i] ELSE c[i - 1]
     BY <2>5, <4>2, ConcatProperties
   <4> DEFINE e == <<Head(lines)>> \o c
   <4>4. \A i \in 1 .. Len(lines) : e[i] = lines[i]
    <5> SUFFICES ASSUME NEW i \in 1 .. Len(lines)
      PROVE e[i] = lines[i]
      OBVIOUS
    <5>1. CASE i = 1 BY <1>1, <2>5, <4>2, <4>3, <5>1
    <5>2. CASE i # 1
     <6>1. i - 1 \in 1 .. Len(c) /\ (i - 1) + 1 = i BY <1>1, <2>5, <5>2
     <6> QED BY <1>1, <2>5, <4>3, <5>2, <6>1
    <5> QED BY <5>1, <5>2
   <4>5. e \in Seq(SsLines) /\ Len(lines) = Len(e) BY <1>1, <2>5, <4>3
   <4> HIDE DEF e
   <4>6. lines = e BY <4>4, <4>5, SeqEqual
   <4> QED BY <4>2, <4>6 DEF e
  <3>2. /\ SsCount(<<Head(lines)>>) \in Nat /\ SsCount(<<Head(lines)>>) <= Len(<<Head(lines)>>)
        /\ SsCount(c) \in Nat
    BY <2>5, <3>1, CountIs
  <3>3. SsCount(<<Head(lines)>> \o c) = SsCount(<<Head(lines)>>) + SsCount(c)
    BY <2>5, <3>1, CountConcat
  <3>4. SsCount(lines) = SsCount(<<Head(lines)>>) + SsCount(c) BY <3>1, <3>3
  <3> QED BY <3>1, <3>2, <3>4
 <2>11. SsCount(r) = SsCount(b) + SsCount(c) BY <2>1, <2>4, <2>5, CountConcat
 <2>12. SsCount(r) >= SsCount(file) + SsCount(lines) - d BY <1>1, <2>0, <2>9, <2>10, <2>11
 <2>13. Len(r) = L + Len(lines) - d BY <1>1, <2>0, <2>5, <2>6
 <2>14. d \in {0, 1} /\ (d = 1 => L >= 1) /\ (d = 1 <=> (file # <<>> /\ file[L].kind = "torn"))
   BY <2>0
 <2> QED BY <2>6, <2>7, <2>8, <2>12, <2>13, <2>14 DEF r, d, L
<1> QED BY <1>3, <1>4

LEMMA LineFields == \A l \in SsLines : l.id \in Nat /\ l.at \in Nat
BY DEF SsLines

SsTornLine == SsLine("torn", 0, 0, 0, "none")
SsTorn(lines) == [lines EXCEPT ![Len(lines)] = SsTornLine]

\* Only the first of the lines of a write is a message or a record of a run: a message later
\* than those before it, a record not earlier than theirs.
SsFit(file, lines, last, top, now) ==
  /\ \A k \in DOMAIN lines : k # 1 => ~ SsIsMessage(lines[k]) /\ ~ SsIsPlan(lines[k])
  /\ SsIsMessage(lines[1]) => last < lines[1].id /\ lines[1].id <= top
  /\ SsIsPlan(lines[1]) =>
       /\ lines[1].at < now
       /\ \A n \in DOMAIN file : SsIsPlan(file[n]) => SsFollows(file[n], lines[1])

\* Such a write keeps the order of the file.
LEMMA FileGrows ==
  ASSUME NEW file \in Seq(SsLines), NEW lines \in Seq(SsLines), lines # <<>>,
    SsTornLast(file), SsTornLast(lines),
    NEW last \in Nat, NEW top \in Nat, last <= top, SsMessagesRise(file, last),
    NEW old \in Nat, NEW now \in Nat, old <= now, SsDatesRise(file, old),
    SsFit(file, lines, last, top, now)
  PROVE
    LET r == SsAppend(file, lines)
    IN  /\ r \in Seq(SsLines) /\ SsTornLast(r)
        /\ SsMessagesRise(r, top) /\ SsDatesRise(r, now)
        /\ \A n \in DOMAIN r : SsIsPlan(r[n]) =>
             r[n] = lines[1] \/ \E m \in DOMAIN file : r[n] = file[m]
<1> DEFINE r == SsAppend(file, lines)
  d == SsCut(file)
  L == Len(file)
<1>1.
  /\ r \in Seq(SsLines) /\ Len(r) = L + Len(lines) - d /\ d \in {0, 1}
  /\ d = 1 <=> (file # <<>> /\ file[L].kind = "torn")
  /\ \A n \in 1 .. L : r[n] = IF d = 1 /\ n = L THEN SsGarbled ELSE file[n]
  /\ \A n \in 1 .. Len(r) : n > L =>
       (n - L) + d \in 1 .. Len(lines) /\ r[n] = lines[(n - L) + d]
  BY AppendPlaces
<1>2.
  /\ L \in Nat /\ Len(r) \in Nat /\ Len(lines) \in Nat
  /\ DOMAIN file = 1 .. L /\ DOMAIN r = 1 .. Len(r) /\ DOMAIN lines = 1 .. Len(lines)
  /\ Len(lines) # 0 /\ (file # <<>> <=> L # 0)
  BY <1>1, LenProperties, EmptySeq
<1>3.
  /\ \A n \in DOMAIN file : file[n].id \in Nat /\ file[n].at \in Nat
  /\ \A n \in DOMAIN lines : lines[n].id \in Nat /\ lines[n].at \in Nat
 <2>1.
   /\ \A n \in DOMAIN file : file[n] \in SsLines
   /\ \A n \in DOMAIN lines : lines[n] \in SsLines
   BY <1>2, ElementOfSeq
 <2> QED BY <2>1, LineFields
<1> HIDE DEF r, d, L
<1>4. SsGarbled.kind = "garbled" BY DEF SsGarbled, SsLine
\* Where a message or a record is, it was before, or it is the first line of the write.
<1>5. ASSUME NEW n \in DOMAIN r, SsIsMessage(r[n]) \/ SsIsPlan(r[n])
  PROVE
    \/ n \in DOMAIN file /\ r[n] = file[n]
    \/ n > L /\ r[n] = lines[1]
 <2>1. CASE n \in 1 .. L
  <3>1. r[n] # SsGarbled BY <1>4, <1>5 DEF SsIsMessage, SsIsPlan
  <3> QED BY <1>1, <1>2, <2>1, <3>1
 <2>2. CASE n \notin 1 .. L
  <3>1. n > L /\ n \in 1 .. Len(r) BY <1>2, <2>2
  <3>2. PICK k \in DOMAIN lines : r[n] = lines[k] BY <1>1, <1>2, <3>1
  <3>3. k = 1 BY <1>5, <3>2 DEF SsFit
  <3> QED BY <3>1, <3>2, <3>3
 <2> QED BY <2>1, <2>2
\* There is one such line at most.
<1>6. ASSUME NEW m \in DOMAIN r, NEW n \in DOMAIN r, m < n, m > L,
    SsIsMessage(r[n]) \/ SsIsPlan(r[n])
  PROVE FALSE
 <2>1. m \in 1 .. Len(r) /\ n \in 1 .. Len(r) /\ n > L BY <1>2, <1>6
 <2>2. (n - L) + d \in DOMAIN lines /\ r[n] = lines[(n - L) + d] BY <1>1, <1>2, <2>1
 <2>3. (n - L) + d # 1 BY <1>1, <1>2, <1>6, <2>1
 <2> QED BY <1>6, <2>2, <2>3 DEF SsFit
<1>7. SsTornLast(r)
 <2> SUFFICES ASSUME NEW n \in DOMAIN r, r[n].kind = "torn"
   PROVE n = Len(r)
   BY DEF SsTornLast
 <2>1. CASE n \in 1 .. L
  <3>1. ~ (d = 1 /\ n = L) /\ r[n] = file[n] BY <1>1, <1>4, <2>1
  <3>2. n = L /\ L # 0 BY <1>2, <2>1, <3>1 DEF SsTornLast, L
  <3>3. d = 1 BY <1>1, <1>2, <3>1, <3>2
  <3> QED BY <3>1, <3>2, <3>3
 <2>2. CASE n \notin 1 .. L
  <3>1. n > L /\ n \in 1 .. Len(r) BY <1>2, <2>2
  <3>2. (n - L) + d \in DOMAIN lines /\ r[n] = lines[(n - L) + d] BY <1>1, <1>2, <3>1
  <3>3. (n - L) + d = Len(lines) BY <3>2 DEF SsTornLast
  <3> QED BY <1>1, <1>2, <3>1, <3>3
 <2> QED BY <2>1, <2>2
<1>8. SsMessagesRise(r, top)
 <2>1. ASSUME NEW n \in DOMAIN r, SsIsMessage(r[n])
   PROVE r[n].id <= top
  <3>1. CASE n \in DOMAIN file /\ r[n] = file[n]
   <4>1. file[n].id <= last BY <2>1, <3>1 DEF SsMessagesRise
   <4> QED BY <1>3, <3>1, <4>1
  <3>2. CASE r[n] = lines[1] BY <2>1, <3>2 DEF SsFit
  <3> QED BY <1>5, <2>1, <3>1, <3>2
 <2>2. ASSUME NEW m \in DOMAIN r, NEW n \in DOMAIN r, m < n, SsIsMessage(r[m]), SsIsMessage(r[n])
   PROVE r[m].id < r[n].id
  <3>1. m \in DOMAIN file /\ r[m] = file[m] BY <1>5, <1>6, <2>2
  <3>2. CASE n \in DOMAIN file /\ r[n] = file[n] BY <2>2, <3>1, <3>2 DEF SsMessagesRise
  <3>3. CASE r[n] = lines[1]
   <4>1. r[m].id <= last BY <2>2, <3>1 DEF SsMessagesRise
   <4>2. last < r[n].id BY <2>2, <3>3 DEF SsFit
   <4>3. r[m].id \in Nat /\ r[n].id \in Nat BY <1>2, <1>3, <3>1, <3>3
   <4> QED BY <4>1, <4>2, <4>3
  <3> QED BY <1>5, <2>2, <3>2, <3>3
 <2> QED BY <2>1, <2>2 DEF SsMessagesRise
<1>9. SsDatesRise(r, now)
 <2>1. ASSUME NEW n \in DOMAIN r, SsIsPlan(r[n])
   PROVE r[n].at < now
  <3>1. CASE n \in DOMAIN file /\ r[n] = file[n]
   <4>1. file[n].at < old BY <2>1, <3>1 DEF SsDatesRise
   <4> QED BY <1>3, <3>1, <4>1
  <3>2. CASE r[n] = lines[1] BY <2>1, <3>2 DEF SsFit
  <3> QED BY <1>5, <2>1, <3>1, <3>2
 <2>2. ASSUME NEW m \in DOMAIN r, NEW n \in DOMAIN r, m < n, SsIsPlan(r[m]), SsIsPlan(r[n])
   PROVE SsFollows(r[m], r[n])
  <3>1. m \in DOMAIN file /\ r[m] = file[m] BY <1>5, <1>6, <2>2
  <3>2. CASE n \in DOMAIN file /\ r[n] = file[n] BY <2>2, <3>1, <3>2 DEF SsDatesRise
  <3>3. CASE r[n] = lines[1] BY <2>2, <3>1, <3>3 DEF SsFit
  <3> QED BY <1>5, <2>2, <3>2, <3>3
 <2> QED BY <2>1, <2>2 DEF SsDatesRise
<1>10. \A n \in DOMAIN r : SsIsPlan(r[n]) => r[n] = lines[1] \/ \E m \in DOMAIN file : r[n] = file[m]
  BY <1>5
<1> QED BY <1>1, <1>7, <1>8, <1>9, <1>10 DEF r

\* A whole write loses what was cut off before, no more.
LEMMA WriteLoses ==
  ASSUME NEW file \in Seq(SsLines), NEW lines \in Seq(SsLines), lines # <<>>,
    NEW written \in Seq(SsLines), NEW crashes \in Nat,
    \A k \in DOMAIN lines : lines[k].kind # "torn",
    SsFewLost(file, written, crashes)
  PROVE SsFewLost(SsAppend(file, lines), written \o lines, crashes)
<1> DEFINE r == SsAppend(file, lines)
  d == SsCut(file)
  L == Len(file)
<1>1.
  /\ r \in Seq(SsLines) /\ Len(r) = L + Len(lines) - d
  /\ d \in {0, 1} /\ (d = 1 => L >= 1)
  /\ \A n \in 1 .. L : r[n] = IF d = 1 /\ n = L THEN SsGarbled ELSE file[n]
  /\ \A n \in 1 .. Len(r) : n > L =>
       (n - L) + d \in 1 .. Len(lines) /\ r[n] = lines[(n - L) + d]
  /\ SsCount(r) >= SsCount(file) + SsCount(lines) - d
  BY AppendPlaces
<1>2.
  /\ L \in Nat /\ Len(r) \in Nat /\ Len(lines) \in Nat \ {0}
  /\ DOMAIN lines = 1 .. Len(lines)
  /\ SsCount(r) \in Nat /\ SsCount(file) \in Nat /\ SsCount(lines) \in Nat /\ SsCount(written) \in Nat
  /\ SsCount(written \o lines) = SsCount(written) + SsCount(lines)
  BY <1>1, LenProperties, EmptySeq, CountIs, CountConcat
<1> HIDE DEF r, d, L
<1>3. SsCut(r) = 0
 <2>1. Len(r) \in 1 .. Len(r) BY <1>1, <1>2
 <2>2. CASE Len(r) > L BY <1>1, <1>2, <2>1, <2>2 DEF SsCut, Last
 <2>3. CASE ~ (Len(r) > L)
  <3>1. Len(r) = L /\ d = 1 /\ L \in 1 .. L
   <4>1. /\ L \in Nat /\ Len(r) \in Nat /\ Len(lines) \in Nat \ {0}
         /\ Len(r) = L + Len(lines) - d /\ d \in {0, 1} /\ (d = 1 => L >= 1)
     BY <1>1, <1>2
   <4>2. d = 1 BY <4>1, <2>3
   <4> QED BY <4>1, <4>2, <2>3
  <3>2. r[L] = SsGarbled BY <1>1, <3>1
  <3> QED BY <3>1, <3>2 DEF SsCut, Last, SsGarbled, SsLine
 <2> QED BY <2>2, <2>3
<1>4. SsCount(written) - SsCount(file) + d <= crashes BY DEF SsFewLost, d
<1>5. SsCount(written \o lines) - SsCount(r) + 0 <= crashes
 <2> DEFINE before == SsCount(written)
   after == SsCount(written \o lines)
   had == SsCount(file)
   has == SsCount(r)
   more == SsCount(lines)
 <2>1.
   /\ after = before + more /\ has >= had + more - d /\ before - had + d <= crashes
   /\ d \in {0, 1} /\ before \in Nat /\ had \in Nat /\ has \in Nat /\ more \in Nat
   BY <1>1, <1>2, <1>4
 <2> HIDE DEF before, after, had, has, more
 <2>2. after - has + 0 <= crashes BY <2>1
 <2> QED BY <2>2 DEF after, has
<1> QED BY <1>3, <1>5 DEF SsFewLost, r

\* What is cut off is not lost to what was written whole.
LEMMA TornLines ==
  ASSUME NEW lines \in Seq(SsLines), lines # <<>>
  PROVE
    /\ SsTorn(lines) \in Seq(SsLines) /\ SsTorn(lines) # <<>>
    /\ Len(SsTorn(lines)) = Len(lines)
    /\ \A k \in 1 .. Len(lines) : SsTorn(lines)[k] = IF k = Len(lines) THEN SsTornLine ELSE lines[k]
    /\ Front(lines) \in Seq(SsLines) /\ Len(Front(lines)) = Len(lines) - 1
    /\ SsCount(Front(lines)) = SsCount(SsTorn(lines))
<1> DEFINE t == SsTorn(lines)
  f == Front(lines)
<1>1. Len(lines) \in Nat \ {0} /\ SsTornLine \in SsLines BY EmptySeq, LineTypes DEF SsTornLine
<1>2. Len(lines) \in 1 .. Len(lines) /\ Len(lines) - 1 \in Int BY <1>1
<1>3.
  /\ t \in Seq(SsLines) /\ Len(t) = Len(lines)
  /\ \A k \in 1 .. Len(lines) : t[k] = IF k = Len(lines) THEN SsTornLine ELSE lines[k]
  BY <1>1, <1>2, ExceptSeq DEF SsTorn
<1>4.
  /\ f \in Seq(SsLines) /\ Len(f) = Len(lines) - 1
  /\ \A k \in 1 .. Len(lines) - 1 : f[k] = lines[k]
 <2>1. \A i \in 1 .. Len(lines) - 1 : lines[i] \in SsLines BY <1>1, ElementOfSeq
 <2> DEFINE m == Len(lines) - 1
 <2>2. f = SubSeq(lines, 1, m) /\ m \in Int BY <1>1 DEF Front
 <2>3.
   /\ f \in Seq(SsLines) /\ Len(f) = (IF 1 <= m THEN m - 1 + 1 ELSE 0)
   /\ \A i \in 1 .. m - 1 + 1 : f[i] = lines[1 + i - 1]
  <3>1. 1 \in Int /\ \A i \in 1 .. m : lines[i] \in SsLines BY <2>1
  <3> HIDE DEF f, m
  <3> QED BY <2>2, <3>1, SubSeqProperties
 <2> HIDE DEF f
 <2>4. Len(f) = m
  <3>1. m \in Nat BY <1>1
  <3>2. Len(f) = (IF 1 <= m THEN m - 1 + 1 ELSE 0) BY <2>3
  <3> HIDE DEF m
  <3> QED BY <3>1, <3>2
 <2>5. \A i \in 1 .. m : i \in 1 .. m - 1 + 1 /\ 1 + i - 1 = i BY <1>1
 <2> HIDE DEF m
 <2>6. \A i \in 1 .. m : f[i] = lines[i] BY <2>3, <2>5
 <2> QED BY <2>3, <2>4, <2>6 DEF m
<1> HIDE DEF t, f
<1>5. SsCounted(f) = SsCounted(t)
 <2>1. DOMAIN f = 1 .. Len(lines) - 1 /\ DOMAIN t = 1 .. Len(lines) BY <1>3, <1>4, LenProperties
 <2>2. SsTornLine.kind \notin {"message", "plan", "entry"} BY DEF SsTornLine, SsLine
 <2>3. \A k \in 1 .. Len(lines) - 1 : k \in 1 .. Len(lines) /\ k # Len(lines) /\ f[k] = t[k]
   BY <1>1, <1>3, <1>4
 <2>4. \A k \in 1 .. Len(lines) : k # Len(lines) => k \in 1 .. Len(lines) - 1 BY <1>1
 <2>5. \A k \in DOMAIN t : t[k].kind \in {"message", "plan", "entry"} => k # Len(lines)
   BY <1>3, <2>1, <2>2
 <2> QED BY <2>1, <2>3, <2>4, <2>5 DEF SsCounted
<1>6. SsCount(f) = SsCount(t) BY <1>3, <1>4, <1>5, CountIs
<1>7. t # <<>> BY <1>1, <1>3, EmptySeq
<1> QED BY <1>3, <1>4, <1>6, <1>7 DEF t, f

LEMMA TearLoses ==
  ASSUME NEW file \in Seq(SsLines), NEW lines \in Seq(SsLines), lines # <<>>,
    NEW written \in Seq(SsLines), NEW crashes \in Nat,
    SsFewLost(file, written, crashes)
  PROVE SsFewLost(SsAppend(file, SsTorn(lines)), written \o Front(lines), crashes + 1)
<1> DEFINE t == SsTorn(lines)
  f == Front(lines)
  r == SsAppend(file, t)
  d == SsCut(file)
<1>1. /\ t \in Seq(SsLines) /\ t # <<>> /\ f \in Seq(SsLines) /\ SsCount(f) = SsCount(t)
  BY TornLines
<1> HIDE DEF t, f
<1>2. r \in Seq(SsLines) /\ d \in {0, 1} /\ SsCount(r) >= SsCount(file) + SsCount(t) - d
  BY <1>1, AppendPlaces
<1> HIDE DEF r
<1>3.
  /\ SsCount(r) \in Nat /\ SsCount(file) \in Nat /\ SsCount(t) \in Nat /\ SsCount(written) \in Nat
  /\ SsCount(written \o f) = SsCount(written) + SsCount(f)
  BY <1>1, <1>2, CountIs, CountConcat
<1>4. SsCut(r) \in {0, 1} BY DEF SsCut
<1>5. SsCount(written) - SsCount(file) + d <= crashes BY DEF SsFewLost
<1> HIDE DEF d
<1>6. SsCount(written \o f) - SsCount(r) + SsCut(r) <= crashes + 1
 <2> DEFINE before == SsCount(written)
   after == SsCount(written \o f)
   had == SsCount(file)
   has == SsCount(r)
   more == SsCount(t)
   still == SsCut(r)
 <2>1.
   /\ after = before + more /\ has >= had + more - d /\ before - had + d <= crashes
   /\ still \in {0, 1} /\ d \in {0, 1}
   /\ before \in Nat /\ had \in Nat /\ has \in Nat /\ more \in Nat /\ crashes \in Nat
   BY <1>1, <1>2, <1>3, <1>4, <1>5
 <2> HIDE DEF before, after, had, has, more, still
 <2>2. after - has + still <= crashes + 1 BY <2>1
 <2> QED BY <2>2 DEF after, has, still
<1> QED BY <1>6 DEF SsFewLost, r, t, f

--------------------
(* What is read of the file *)

LEMMA ParseKinds ==
  ASSUME NEW l
  PROVE
    /\ SsParse(l) = "message" <=> l.kind = "message"
    /\ SsParse(l) = "plan_run" <=> l.kind = "plan"
    /\ SsParse(l) = "transcript_entry" <=> l.kind = "entry"
    /\ SsParse(l) = "sub_agent_run" <=> l.kind \in {"sub_agent_run", "child_execution"}
    /\ SsParse(l) = "session_header" <=> l.kind = "header"
BY DEF SsParse

\* A record of a run is taken for what it is.
LEMMA TakenLines ==
  ASSUME NEW l \in SsLines
  PROVE
    /\ l.kind = "plan" => SsTakenPlan(l) = l
    /\ l.kind \in {"sub_agent_run", "child_execution"} => SsTakenChild(l) \in SsLines
<1>1.
  /\ l \in [kind : {"header", "garbled", "torn", "message", "entry", "plan", "sub_agent_run",
                    "child_execution"},
            id : Nat, turn : Nat, at : Nat, what : SsTexts \cup SsStored]
  /\ l.kind = "plan" => l.id # 0 /\ l.what \in SsStored
  BY DEF SsLines
<1>2. ASSUME l.kind = "plan"
  PROVE SsTakenPlan(l) = l
 <2>1.
   /\ l.what = <<l.what[1], l.what[2]>>
   /\ l.what[1] \in {"goal", "none"} /\ l.what[2] \in SsOpen \cup SsEnds
   BY <1>1, <1>2 DEF SsStored, SsStatuses
 <2>2.
   <<IF l.what[1] \in SsModes THEN l.what[1] ELSE "none",
     IF l.what[2] \in SsOpen \cup SsEnds THEN l.what[2] ELSE "none">> = l.what
  <3>1. (IF l.what[1] \in SsModes THEN l.what[1] ELSE "none") = l.what[1] BY <2>1 DEF SsModes
  <3>2. (IF l.what[2] \in SsOpen \cup SsEnds THEN l.what[2] ELSE "none") = l.what[2] BY <2>1
  <3> QED BY <2>1, <3>1, <3>2
 <2>3. [l EXCEPT !.what = l.what] = l BY <1>1
 <2> QED BY <2>2, <2>3 DEF SsTakenPlan
<1>3. ASSUME l.kind \in {"sub_agent_run", "child_execution"}
  PROVE SsTakenChild(l) \in SsLines
  BY <1>1, <1>3 DEF SsTakenChild, SsLines
<1> QED BY <1>2, <1>3

SsRead == {"message", "plan_run", "transcript_entry", "sub_agent_run"}

LEMMA TakenAs ==
  ASSUME NEW l \in SsLines, NEW kind \in SsRead, SsParse(l) = kind
  PROVE
    /\ SsTaken(kind, l) \in SsLines
    /\ kind # "sub_agent_run" => SsTaken(kind, l) = l
<1>1. CASE kind = "sub_agent_run" BY <1>1, ParseKinds, TakenLines DEF SsTaken
<1>2. CASE kind = "plan_run" BY <1>2, ParseKinds, TakenLines DEF SsTaken
<1>3. CASE kind \in {"message", "transcript_entry"} BY <1>3 DEF SsTaken
<1> QED BY <1>1, <1>2, <1>3 DEF SsRead

\* Where what is read of a kind stands in the file.
SsReadAt(kind, r, at) ==
  /\ at \in [1 .. Len(r) -> 1 .. Len(ssFile)]
  /\ \A i \in 1 .. Len(r) : SsParse(ssFile[at[i]]) = kind /\ r[i] = SsTaken(kind, ssFile[at[i]])
  /\ \A n \in 1 .. Len(ssFile) : SsParse(ssFile[n]) = kind => \E i \in 1 .. Len(r) : at[i] = n
  /\ \A i, j \in 1 .. Len(r) : i < j => at[i] < at[j]

\* Every line of a kind is read, in the order of the file, and nothing else.
LEMMA OfKind ==
  ASSUME ssFile \in Seq(SsLines), NEW kind \in SsRead
  PROVE SsOfKind(kind) \in Seq(SsLines) /\ \E at : SsReadAt(kind, SsOfKind(kind), at)
<1> DEFINE part(n) == IF SsParse(ssFile[n]) = kind THEN <<SsTaken(kind, ssFile[n])>> ELSE <<>>
  p == [n \in DOMAIN ssFile |-> part(n)]
  r == SsOfKind(kind)
  N == Len(ssFile)
<1>1. N \in Nat /\ DOMAIN ssFile = 1 .. N /\ \A n \in 1 .. N : ssFile[n] \in SsLines
  BY LenProperties, ElementOfSeq
<1>2. \A n \in 1 .. N : part(n) \in Seq(SsLines)
 <2> SUFFICES ASSUME NEW n \in 1 .. N
   PROVE part(n) \in Seq(SsLines)
   OBVIOUS
 <2>1. CASE SsParse(ssFile[n]) = kind
  <3>1. SsTaken(kind, ssFile[n]) \in SsLines BY <1>1, <2>1, TakenAs
  <3> QED BY <2>1, <3>1
 <2>2. CASE SsParse(ssFile[n]) # kind BY <2>2, EmptySeq
 <2> QED BY <2>1, <2>2
<1> HIDE DEF N
<1>3. p \in Seq(Seq(SsLines)) /\ Len(p) = N
 <2> HIDE DEF part
 <2>1. p \in [1 .. N -> Seq(SsLines)] BY <1>1, <1>2
 <2> HIDE DEF p
 <2> QED BY <1>1, <2>1, FromFunction
<1>4. r = FlattenSeq(p) BY DEF SsOfKind
<1>5.
  \A n \in 1 .. N : /\ p[n] = part(n)
                    /\ SsParse(ssFile[n]) = kind => /\ DOMAIN p[n] = 1 .. 1
                                                    /\ p[n][1] = SsTaken(kind, ssFile[n])
                    /\ SsParse(ssFile[n]) # kind => DOMAIN p[n] = {}
                    /\ Len(p[n]) <= 1
  BY <1>1
<1> HIDE DEF p, r, part
<1>6. r \in Seq(SsLines) BY <1>3, <1>4, FlattenPlaces
<1>7. PICK at : FlatUpTo(p, N, r, at) BY <1>3, <1>4, FlattenPlaces
<1>8.
  /\ at \in [1 .. Len(r) -> 1 .. N]
  /\ \A i \in 1 .. Len(r) : \E k \in DOMAIN p[at[i]] : r[i] = p[at[i]][k]
  /\ \A m \in 1 .. N : \A k \in DOMAIN p[m] : \E i \in 1 .. Len(r) : at[i] = m /\ r[i] = p[m][k]
  /\ \A i, j \in 1 .. Len(r) : i < j => at[i] < at[j]
  BY <1>3, <1>5, <1>7 DEF FlatUpTo
<1>9. ASSUME NEW i \in 1 .. Len(r)
  PROVE SsParse(ssFile[at[i]]) = kind /\ r[i] = SsTaken(kind, ssFile[at[i]])
 <2>1. at[i] \in 1 .. N BY <1>8
 <2>2. PICK k \in DOMAIN p[at[i]] : r[i] = p[at[i]][k] BY <1>8
 <2>3. SsParse(ssFile[at[i]]) = kind BY <1>5, <2>1, <2>2
 <2>4. k = 1 BY <1>5, <2>1, <2>2, <2>3
 <2> QED BY <1>5, <2>1, <2>2, <2>3, <2>4
<1>10. ASSUME NEW n \in 1 .. N, SsParse(ssFile[n]) = kind
  PROVE \E i \in 1 .. Len(r) : at[i] = n
 <2>1. 1 \in DOMAIN p[n] BY <1>5, <1>10
 <2> QED BY <1>8, <2>1
<1>11. SsReadAt(kind, r, at) BY <1>8, <1>9, <1>10 DEF SsReadAt, N
<1> QED BY <1>6, <1>11 DEF r

\* SsLatestOf takes one record after the other.
LEMMA LatestSteps ==
  ASSUME NEW rs \in Seq(SsLines), NEW id
  PROVE
    \E f : /\ f[0] = SsGarbled /\ SsLatestOf(id, rs) = f[Len(rs)]
           /\ \A n \in 1 .. Len(rs) :
                f[n] = IF rs[n].id = id /\ (f[n - 1].id = 0 \/ SsSupersedes(rs[n], f[n - 1]))
                       THEN rs[n] ELSE f[n - 1]
<1> DEFINE N == Len(rs)
  Taken(n, v) == IF rs[n].id = id /\ (v.id = 0 \/ SsSupersedes(rs[n], v)) THEN rs[n] ELSE v
  Is(f) == f = [n \in 0 .. N |->
                  IF n = 0 THEN SsGarbled
                  ELSE IF rs[n].id = id /\ (f[n - 1].id = 0 \/ SsSupersedes(rs[n], f[n - 1]))
                       THEN rs[n] ELSE f[n - 1]]
  step == [n \in 1 .. N |-> [v \in SsLines |-> Taken(n, v)]]
<1>1. N \in Nat /\ \A n \in 1 .. N : rs[n] \in SsLines BY LenProperties, ElementOfSeq
<1>2. step \in [1 .. N -> [SsLines -> SsLines]] BY <1>1
<1>3.
  PICK g \in [0 .. N -> SsLines] :
    g = [n \in 0 .. N |-> IF n = 0 THEN SsGarbled ELSE step[n][g[n - 1]]]
 <2>1. SsGarbled \in SsLines BY LineTypes
 <2> HIDE DEF N, step
 <2>2. \E g \in [0 .. N -> SsLines] : IsRecursive(g, N, SsGarbled, step)
   BY <1>1, <1>2, <2>1, RecursionUpTo
 <2> QED BY <2>2 DEF IsRecursive
<1>4. ASSUME NEW n \in 0 .. N, n # 0
  PROVE step[n][g[n - 1]] = Taken(n, g[n - 1])
 <2>1. n \in 1 .. N /\ n - 1 \in 0 .. N BY <1>1, <1>4
 <2>2. g[n - 1] \in SsLines BY <2>1
 <2> HIDE DEF Taken
 <2> QED BY <2>1, <2>2
<1>5. Is(g)
 <2> HIDE DEF step
 <2> QED BY <1>3, <1>4
<1> DEFINE kept == CHOOSE f : Is(f)
<1>6. SsLatestOf(id, rs) = kept[N] BY DEF SsLatestOf
<1>7. Is(kept) BY <1>5
<1> HIDE DEF kept
<1>8. 0 \in 0 .. N /\ \A n \in 1 .. N : n \in 0 .. N /\ n # 0 BY <1>1
<1> QED BY <1>6, <1>7, <1>8

\* The latest of a run is the last of its records, where their dates never fall.
LEMMA LatestIs ==
  ASSUME NEW rs \in Seq(SsLines), \A n \in 1 .. Len(rs) : rs[n].id # 0,
    \A m, n \in 1 .. Len(rs) : m < n => rs[m].at <= rs[n].at,
    NEW i \in 1 .. Len(rs)
  PROVE
    \E j \in 1 .. Len(rs) : /\ SsLatestOf(rs[i].id, rs) = rs[j] /\ rs[j].id = rs[i].id
                            /\ \A m \in 1 .. Len(rs) : rs[m].id = rs[i].id => m <= j
<1> DEFINE id == rs[i].id
  N == Len(rs)
<1>1. N \in Nat /\ \A n \in 1 .. N : rs[n] \in SsLines /\ rs[n].id \in Nat /\ rs[n].at \in Nat
  BY LenProperties, ElementOfSeq, LineFields
<1>2.
  PICK f : /\ f[0] = SsGarbled /\ SsLatestOf(id, rs) = f[N]
           /\ \A n \in 1 .. N :
                 f[n] = IF rs[n].id = id /\ (f[n - 1].id = 0 \/ SsSupersedes(rs[n], f[n - 1]))
                        THEN rs[n] ELSE f[n - 1]
  BY LatestSteps
<1> DEFINE
  Last1(n, j) == /\ j \in 1 .. n /\ f[n] = rs[j] /\ rs[j].id = id
                 /\ \A m \in 1 .. n : rs[m].id = id => m <= j
  None(n) == f[n] = SsGarbled /\ \A m \in 1 .. n : rs[m].id # id
  T == {n \in Nat : n <= N => None(n) \/ \E j : Last1(n, j)}
<1>3. 0 \in T
 <2>1. None(0) BY <1>2
 <2> QED BY <2>1
<1>4. ASSUME NEW n \in Nat, n \in T
  PROVE n + 1 \in T
 <2> SUFFICES ASSUME n + 1 <= N
   PROVE None(n + 1) \/ \E j : Last1(n + 1, j)
  <3> HIDE DEF Last1, None
  <3> QED BY <1>1
 <2>1. n + 1 \in 1 .. N /\ (n + 1) - 1 = n /\ n <= N BY <1>1
 <2>2. None(n) \/ \E j : Last1(n, j)
  <3> HIDE DEF Last1, None
  <3> QED BY <1>4, <2>1
 <2>3.
   f[n + 1] = IF rs[n + 1].id = id /\ (f[n].id = 0 \/ SsSupersedes(rs[n + 1], f[n]))
              THEN rs[n + 1] ELSE f[n]
   BY <1>2, <2>1
 <2> HIDE DEF T
 <2>4. CASE rs[n + 1].id = id
  <3>1. f[n].id = 0 \/ SsSupersedes(rs[n + 1], f[n])
   <4>1. CASE None(n) BY <4>1 DEF SsGarbled, SsLine
   <4>2. CASE \E j : Last1(n, j)
    <5>1. PICK j : Last1(n, j) BY <4>2
    <5>2. j \in 1 .. N /\ j < n + 1 BY <1>1, <2>1, <5>1
    <5>3. rs[j].at <= rs[n + 1].at /\ rs[j].at \in Nat /\ rs[n + 1].at \in Nat
      BY <1>1, <2>1, <5>2
    <5> QED BY <5>1, <5>3 DEF SsSupersedes
   <4> QED BY <2>2, <4>1, <4>2
  <3>2. f[n + 1] = rs[n + 1] BY <2>3, <2>4, <3>1
  <3>3. Last1(n + 1, n + 1) BY <2>4, <3>2
  <3> QED BY <3>3
 <2>5. CASE rs[n + 1].id # id
  <3>1. f[n + 1] = f[n] BY <2>3, <2>5
  <3>2. \A m \in 1 .. n + 1 : m = n + 1 \/ m \in 1 .. n OBVIOUS
  <3>3. CASE None(n) BY <2>5, <3>1, <3>2, <3>3
  <3>4. CASE \E j : Last1(n, j)
   <4>1. PICK j : Last1(n, j) BY <3>4
   <4>2. j \in 1 .. n + 1 BY <4>1
   <4>3. Last1(n + 1, j) BY <2>5, <3>1, <3>2, <4>1, <4>2
   <4> QED BY <4>3
  <3> QED BY <2>2, <3>3, <3>4
 <2> QED BY <2>4, <2>5
<1>5. None(N) \/ \E j : Last1(N, j)
 <2> HIDE DEF T
 <2>1. N \in T BY <1>1, <1>3, <1>4, EveryNumber
 <2> HIDE DEF None, Last1
 <2> QED BY <1>1, <2>1 DEF T
<1>6. PICK j : Last1(N, j) BY <1>5
<1> QED BY <1>2, <1>6

SsPlans == {n \in DOMAIN ssFile : SsIsPlan(ssFile[n])}
SsFinal == {n \in SsPlans : \A m \in SsPlans : ssFile[m].id = ssFile[n].id => m <= n}

\* The latest records are each run's last.
LEMMA LatestAreFinal ==
  ASSUME ssFile \in Seq(SsLines), NEW now, SsDatesRise(ssFile, now)
  PROVE SsLatest = {ssFile[n] : n \in SsFinal}
<1> DEFINE rs == SsOfKind("plan_run")
  N == Len(ssFile)
<1>1. rs \in Seq(SsLines) /\ \E at : SsReadAt("plan_run", rs, at) BY OfKind DEF SsRead
<1>2. PICK at : SsReadAt("plan_run", rs, at) BY <1>1
<1>3. N \in Nat /\ DOMAIN ssFile = 1 .. N /\ \A n \in 1 .. N : ssFile[n] \in SsLines
  BY LenProperties, ElementOfSeq
<1> DEFINE M == Len(rs)
<1>4. M \in Nat /\ DOMAIN rs = 1 .. M BY <1>1, LenProperties
<1> HIDE DEF rs, N
<1>5.
  /\ at \in [1 .. M -> 1 .. N]
  /\ \A i \in 1 .. M : SsParse(ssFile[at[i]]) = "plan_run" /\ rs[i] = SsTaken("plan_run", ssFile[at[i]])
  /\ \A n \in 1 .. N : SsParse(ssFile[n]) = "plan_run" => \E i \in 1 .. M : at[i] = n
  /\ \A i, j \in 1 .. M : i < j => at[i] < at[j]
  BY <1>2 DEF SsReadAt, N
<1> HIDE DEF M
<1>6. ASSUME NEW i \in 1 .. M
  PROVE at[i] \in SsPlans /\ rs[i] = ssFile[at[i]] /\ ssFile[at[i]].id # 0
 <2>1. at[i] \in 1 .. N /\ ssFile[at[i]] \in SsLines /\ SsParse(ssFile[at[i]]) = "plan_run"
   BY <1>3, <1>5
 <2>2. rs[i] = ssFile[at[i]] BY <1>5, <2>1, TakenAs DEF SsRead
 <2>3. ssFile[at[i]].kind = "plan" BY <2>1, ParseKinds
 <2>4. ssFile[at[i]].id # 0 BY <2>1, <2>3 DEF SsLines
 <2> QED BY <1>3, <2>1, <2>2, <2>3, <2>4 DEF SsPlans, SsIsPlan
<1>7. ASSUME NEW n \in SsPlans
  PROVE \E i \in 1 .. M : at[i] = n
 <2>1. n \in 1 .. N /\ SsParse(ssFile[n]) = "plan_run" BY <1>3, ParseKinds DEF SsPlans, SsIsPlan
 <2> QED BY <1>5, <2>1
<1>8. \A i, j \in 1 .. M : i <= j => at[i] <= at[j]
 <2>1. \A i \in 1 .. M : at[i] \in Nat /\ i \in Nat BY <1>3, <1>5
 <2>2. \A i, j \in 1 .. M : i <= j => i < j \/ i = j BY <2>1
 <2> QED BY <1>5, <2>1, <2>2
<1>9. \A m, n \in 1 .. M : m < n => rs[m].at <= rs[n].at
 <2> SUFFICES ASSUME NEW m \in 1 .. M, NEW n \in 1 .. M, m < n
   PROVE rs[m].at <= rs[n].at
   OBVIOUS
 <2>1. at[m] < at[n] /\ at[m] \in DOMAIN ssFile /\ at[n] \in DOMAIN ssFile BY <1>3, <1>5
 <2>2. SsFollows(ssFile[at[m]], ssFile[at[n]]) BY <1>6, <2>1 DEF SsDatesRise, SsPlans
 <2> QED BY <1>6, <2>2 DEF SsFollows
<1>10. ASSUME NEW i \in 1 .. M
  PROVE
    \E j \in 1 .. M : /\ SsLatestOf(rs[i].id, rs) = rs[j] /\ rs[j].id = rs[i].id
                      /\ \A m \in 1 .. M : rs[m].id = rs[i].id => m <= j
 <2>1.
   /\ rs \in Seq(SsLines) /\ \A n \in 1 .. Len(rs) : rs[n].id # 0
   /\ \A m, n \in 1 .. Len(rs) : m < n => rs[m].at <= rs[n].at
   /\ i \in 1 .. Len(rs)
   BY <1>1, <1>6, <1>9 DEF M
 <2>2.
   \E j \in 1 .. Len(rs) : /\ SsLatestOf(rs[i].id, rs) = rs[j] /\ rs[j].id = rs[i].id
                           /\ \A m \in 1 .. Len(rs) : rs[m].id = rs[i].id => m <= j
   BY <2>1, LatestIs
 <2> QED BY <2>2 DEF M
<1>11. SsLatest = {SsLatestOf(rs[i].id, rs) : i \in 1 .. M} BY <1>4 DEF SsLatest, rs
<1>12. ASSUME NEW i \in 1 .. M
  PROVE SsLatestOf(rs[i].id, rs) \in {ssFile[n] : n \in SsFinal}
 <2>1.
   PICK j \in 1 .. M : /\ SsLatestOf(rs[i].id, rs) = rs[j] /\ rs[j].id = rs[i].id
                       /\ \A m \in 1 .. M : rs[m].id = rs[i].id => m <= j
   BY <1>10
 <2>2. ASSUME NEW m \in SsPlans, ssFile[m].id = ssFile[at[j]].id
   PROVE m <= at[j]
  <3>1. PICK k \in 1 .. M : at[k] = m BY <1>7
  <3>2. rs[k].id = rs[i].id BY <1>6, <2>1, <2>2, <3>1
  <3> QED BY <1>8, <2>1, <3>1, <3>2
 <2>3. at[j] \in SsFinal BY <1>6, <2>2 DEF SsFinal
 <2> QED BY <1>6, <2>1, <2>3
<1>13. ASSUME NEW n \in SsFinal
  PROVE \E i \in 1 .. M : SsLatestOf(rs[i].id, rs) = ssFile[n]
 <2>1. n \in SsPlans /\ \A m \in SsPlans : ssFile[m].id = ssFile[n].id => m <= n BY DEF SsFinal
 <2>2. PICK i \in 1 .. M : at[i] = n BY <1>7, <2>1
 <2>3.
   PICK j \in 1 .. M : /\ SsLatestOf(rs[i].id, rs) = rs[j] /\ rs[j].id = rs[i].id
                       /\ \A m \in 1 .. M : rs[m].id = rs[i].id => m <= j
   BY <1>10
 <2>4. at[i] <= at[j] /\ at[j] <= at[i] BY <1>6, <1>8, <2>1, <2>2, <2>3
 <2>5. at[i] = at[j]
  <3>1. at[i] \in Nat /\ at[j] \in Nat BY <1>5
  <3> QED BY <2>4, <3>1
 <2> QED BY <1>6, <2>2, <2>3, <2>5
<1> QED BY <1>11, <1>12, <1>13

--------------------
(* What keeps the invariant *)

SsCountsTypes ==
  [messages : Nat, records : Nat, plans : Nat, crashes : Nat, waited : BOOLEAN]

\* What a step may do with all but the file.
SsOrdinary ==
  /\ ssNow' \in Nat /\ ssNow <= ssNow' /\ ssUp' \in BOOLEAN /\ ssTurn' \in Nat
  /\ ssRun' \in SsRuns \cup {SsNoRun} /\ SsRunNewest(ssFile, ssRun', ssNow')
  /\ ssCounts' \in SsCountsTypes /\ ssCounts.messages <= ssCounts'.messages
  /\ ssCounts.crashes <= ssCounts'.crashes

\* What a run is told of is not later than it.
SsRunWritten(l) == ssRun' # SsNoRun /\ SsIsPlan(l) => SsFollows(l, ssRun')

LEMMA InvParts ==
  ASSUME SsInv
  PROVE
    /\ ssFile \in Seq(SsLines) /\ ssWritten \in Seq(SsLines)
    /\ ssNow \in Nat /\ ssUp \in BOOLEAN /\ ssTurn \in Nat
    /\ ssRun \in SsRuns \cup {SsNoRun} /\ ssCounts \in SsCountsTypes
    /\ ssCounts.messages \in Nat /\ ssCounts.crashes \in Nat /\ ssCounts.records \in Nat
    /\ ssCounts.plans \in Nat /\ SsTornLast(ssFile)
    /\ SsMessagesRise(ssFile, ssCounts.messages)
    /\ SsDatesRise(ssFile, ssNow) /\ SsRunNewest(ssFile, ssRun, ssNow)
    /\ SsFewLost(ssFile, ssWritten, ssCounts.crashes) /\ SsUnwritten(ssFile, ssWritten)
BY DEF SsInv, SsTypeOK, SsCountsTypes

\* A step that writes nothing.
LEMMA QuietKeeps ==
  ASSUME SsInv, SsOrdinary, UNCHANGED <<ssFile, ssWritten>>
  PROVE SsInv'
<1>0.
  /\ ssFile \in Seq(SsLines) /\ ssWritten \in Seq(SsLines)
  /\ ssNow \in Nat /\ ssCounts.messages \in Nat /\ ssCounts.crashes \in Nat
  /\ SsMessagesRise(ssFile, ssCounts.messages) /\ SsDatesRise(ssFile, ssNow)
  /\ SsFewLost(ssFile, ssWritten, ssCounts.crashes)
  BY InvParts
<1>1. DOMAIN ssFile = 1 .. Len(ssFile) /\ \A n \in DOMAIN ssFile : ssFile[n].id \in Nat /\ ssFile[n].at \in Nat
 <2>1. DOMAIN ssFile = 1 .. Len(ssFile) /\ \A n \in DOMAIN ssFile : ssFile[n] \in SsLines
   BY <1>0, LenProperties, ElementOfSeq
 <2> QED BY <2>1, LineFields
<1>2. ssCounts'.messages \in Nat /\ ssCounts'.crashes \in Nat BY DEF SsOrdinary, SsCountsTypes
<1>3. SsTypeOK' BY DEF SsInv, SsTypeOK, SsOrdinary, SsCountsTypes
<1>4. SsMessagesRise(ssFile, ssCounts'.messages)
 <2>1. ASSUME NEW n \in DOMAIN ssFile, SsIsMessage(ssFile[n])
   PROVE ssFile[n].id <= ssCounts'.messages
  <3>1. ssFile[n].id <= ssCounts.messages BY <1>0, <2>1 DEF SsMessagesRise
  <3> QED BY <1>0, <1>1, <1>2, <3>1 DEF SsOrdinary
 <2> QED BY <1>0, <2>1 DEF SsMessagesRise
<1>5. SsDatesRise(ssFile, ssNow')
 <2>1. ASSUME NEW n \in DOMAIN ssFile, SsIsPlan(ssFile[n])
   PROVE ssFile[n].at < ssNow'
  <3>1. ssFile[n].at < ssNow BY <1>0, <2>1 DEF SsDatesRise
  <3> QED BY <1>0, <1>1, <3>1 DEF SsOrdinary
 <2> QED BY <1>0, <2>1 DEF SsDatesRise
<1>6. SsFewLost(ssFile, ssWritten, ssCounts'.crashes)
 <2>1. SsCount(ssFile) \in Nat /\ SsCount(ssWritten) \in Nat /\ SsCut(ssFile) \in {0, 1}
   BY <1>0, CountIs DEF SsCut
 <2> QED BY <1>0, <1>2, <2>1 DEF SsFewLost, SsOrdinary
<1>7. SsTornLast(ssFile)' /\ SsUnwritten(ssFile, ssWritten)'
  BY InvParts DEF SsTornLast, SsUnwritten
<1>8. SsRunNewest(ssFile, ssRun, ssNow)' BY DEF SsOrdinary, SsRunNewest, SsIsPlan, SsFollows
<1>9. SsMessagesRise(ssFile, ssCounts.messages)' /\ SsDatesRise(ssFile, ssNow)'
  BY <1>4, <1>5 DEF SsMessagesRise, SsDatesRise, SsIsMessage, SsIsPlan, SsFollows
<1>10. SsFewLost(ssFile, ssWritten, ssCounts.crashes)' BY <1>6 DEF SsFewLost, SsCount, SsCut
<1> QED BY <1>3, <1>7, <1>8, <1>9, <1>10 DEF SsInv

\* What a write and what is cut off of one have in common.
LEMMA FileKeeps ==
  ASSUME SsInv, SsOrdinary, NEW lines \in Seq(SsLines), lines # <<>>, SsTornLast(lines),
    SsFit(ssFile, lines, ssCounts.messages, ssCounts'.messages, ssNow'),
    SsRunWritten(lines[1]), ssFile' = SsAppend(ssFile, lines),
    ssWritten' \in Seq(SsLines), SsFewLost(ssFile', ssWritten', ssCounts'.crashes),
    SsUnwritten(ssFile', ssWritten')
  PROVE SsInv'
<1>0.
  /\ ssFile \in Seq(SsLines) /\ ssNow \in Nat /\ ssCounts.messages \in Nat
  /\ SsTornLast(ssFile) /\ SsMessagesRise(ssFile, ssCounts.messages)
  /\ SsDatesRise(ssFile, ssNow)
  BY InvParts
<1>1.
  /\ ssNow' \in Nat /\ ssNow <= ssNow' /\ ssCounts'.messages \in Nat
  /\ ssCounts.messages <= ssCounts'.messages
  BY DEF SsOrdinary, SsCountsTypes
<1> DEFINE last == ssCounts.messages
  top == ssCounts'.messages
  old == ssNow
  now == ssNow'
<1>2. last \in Nat /\ top \in Nat /\ last <= top /\ old \in Nat /\ now \in Nat /\ old <= now
  BY <1>0, <1>1
<1>3. SsMessagesRise(ssFile, last) /\ SsDatesRise(ssFile, old) /\ SsFit(ssFile, lines, last, top, now)
  BY <1>0
<1>4.
  /\ ssFile' \in Seq(SsLines) /\ SsTornLast(ssFile')
  /\ SsMessagesRise(ssFile', top) /\ SsDatesRise(ssFile', now)
  /\ \A n \in DOMAIN ssFile' : SsIsPlan(ssFile'[n]) =>
       ssFile'[n] = lines[1] \/ \E m \in DOMAIN ssFile : ssFile'[n] = ssFile[m]
 <2> HIDE DEF last, top, old, now
 <2> QED BY <1>0, <1>2, <1>3, FileGrows
<1>5. SsRunNewest(ssFile', ssRun', ssNow')
 <2> SUFFICES ASSUME ssRun' # SsNoRun
   PROVE
     /\ ssRun'.at < ssNow'
     /\ \A n \in DOMAIN ssFile' : SsIsPlan(ssFile'[n]) => SsFollows(ssFile'[n], ssRun')
   BY DEF SsRunNewest
 <2>1.
   /\ ssRun'.at < ssNow'
   /\ \A n \in DOMAIN ssFile : SsIsPlan(ssFile[n]) => SsFollows(ssFile[n], ssRun')
   BY DEF SsOrdinary, SsRunNewest
 <2> QED BY <1>4, <2>1 DEF SsRunWritten
<1>6. SsTypeOK' BY <1>4 DEF SsTypeOK, SsOrdinary, SsCountsTypes
<1>7.
  /\ SsTornLast(ssFile)' /\ SsUnwritten(ssFile, ssWritten)'
  /\ SsMessagesRise(ssFile, ssCounts.messages)' /\ SsDatesRise(ssFile, ssNow)'
  /\ SsRunNewest(ssFile, ssRun, ssNow)' /\ SsFewLost(ssFile, ssWritten, ssCounts.crashes)'
  BY <1>4, <1>5
<1> QED BY <1>6, <1>7 DEF SsInv

\* A step that writes whole lines.
LEMMA WriteKeeps ==
  ASSUME SsInv, SsOrdinary, NEW lines \in Seq(SsLines), lines # <<>>,
    \A k \in DOMAIN lines : lines[k].kind # "torn",
    SsFit(ssFile, lines, ssCounts.messages, ssCounts'.messages, ssNow'),
    SsRunWritten(lines[1]), SsWrite(lines)
  PROVE SsInv'
<1>1.
  /\ ssFile \in Seq(SsLines) /\ ssWritten \in Seq(SsLines) /\ ssCounts.crashes \in Nat
  /\ SsFewLost(ssFile, ssWritten, ssCounts.crashes)
  BY InvParts
<1>2. ssFile' = SsAppend(ssFile, lines) /\ ssWritten' = ssWritten \o lines BY DEF SsWrite
<1>3. ssWritten' \in Seq(SsLines) /\ ssWritten' # <<>>
  BY <1>1, <1>2, ConcatProperties, ConcatEqualIffEmpty
<1>4. SsFewLost(ssFile', ssWritten', ssCounts.crashes)
 <2> DEFINE c == ssCounts.crashes
 <2>1. c \in Nat /\ SsFewLost(ssFile, ssWritten, c) BY <1>1
 <2> HIDE DEF c
 <2>2. SsFewLost(ssFile', ssWritten', c) BY <1>1, <1>2, <2>1, WriteLoses
 <2> QED BY <2>2 DEF c
<1>5. ssFile' \in Seq(SsLines) BY <1>1, <1>2, AppendPlaces
<1>6. SsFewLost(ssFile', ssWritten', ssCounts'.crashes)
 <2>1. SsCount(ssFile') \in Nat /\ SsCount(ssWritten') \in Nat /\ SsCut(ssFile') \in {0, 1}
   BY <1>3, <1>5, CountIs DEF SsCut
 <2>2. ssCounts'.crashes \in Nat /\ ssCounts.crashes <= ssCounts'.crashes
   BY DEF SsOrdinary, SsCountsTypes
 <2> QED BY <1>1, <1>4, <2>1, <2>2 DEF SsFewLost
<1>7. SsUnwritten(ssFile', ssWritten') BY <1>3 DEF SsUnwritten
<1>8. SsTornLast(lines) BY DEF SsTornLast
<1> QED BY <1>2, <1>3, <1>6, <1>7, <1>8, FileKeeps

\* A step that is cut off within its last line, which is the second in the file without an end.
LEMMA TearAgain ==
  ASSUME SsInv, SsOrdinary, ssRun' = SsNoRun, ssCounts'.crashes = ssCounts.crashes + 1,
    ssFile' = ssFile, ssWritten' = ssWritten
  PROVE SsInv'
<1>0.
  /\ ssFile \in Seq(SsLines) /\ ssWritten \in Seq(SsLines) /\ ssCounts.crashes \in Nat
  /\ ssNow \in Nat /\ ssCounts.messages \in Nat
  /\ SsTornLast(ssFile) /\ SsUnwritten(ssFile, ssWritten)
  /\ SsMessagesRise(ssFile, ssCounts.messages) /\ SsDatesRise(ssFile, ssNow)
  /\ SsFewLost(ssFile, ssWritten, ssCounts.crashes)
  BY InvParts
<1>1.
  /\ ssNow' \in Nat /\ ssNow <= ssNow' /\ ssCounts'.messages \in Nat
  /\ ssCounts.messages <= ssCounts'.messages
  BY DEF SsOrdinary, SsCountsTypes
<1>2. SsMessagesRise(ssFile, ssCounts'.messages)
 <2>1.
   PICK last \in Nat, top \in Nat : /\ last = ssCounts.messages /\ top = ssCounts'.messages
                                  /\ last <= top
   BY <1>0, <1>1
 <2>2. \A l \in SsLines : l.id \in Nat BY DEF SsLines
 <2>3. \A n \in DOMAIN ssFile : SsIsMessage(ssFile[n]) => ssFile[n].id <= top
  <3>1. \A n \in DOMAIN ssFile : ssFile[n].id \in Nat BY <1>0, <2>2, LenProperties, ElementOfSeq
  <3>2. \A n \in DOMAIN ssFile : SsIsMessage(ssFile[n]) => ssFile[n].id <= last
    BY <1>0, <2>1 DEF SsMessagesRise
  <3> QED BY <2>1, <3>1, <3>2
 <2> QED BY <1>0, <2>1, <2>3 DEF SsMessagesRise
<1>3. SsDatesRise(ssFile, ssNow')
 <2>1. \A l \in SsLines : l.at \in Nat BY DEF SsLines
 <2>2. \A n \in DOMAIN ssFile : ssFile[n].at \in Nat BY <1>0, <2>1, LenProperties, ElementOfSeq
 <2>3. PICK old \in Nat, now \in Nat : old = ssNow /\ now = ssNow' /\ old <= now BY <1>0, <1>1
 <2>4. \A n \in DOMAIN ssFile : SsIsPlan(ssFile[n]) => ssFile[n].at < old
   BY <1>0, <2>3 DEF SsDatesRise
 <2>5. \A n \in DOMAIN ssFile : SsIsPlan(ssFile[n]) => ssFile[n].at < now BY <2>2, <2>3, <2>4
 <2> QED BY <1>0, <2>3, <2>5 DEF SsDatesRise
<1>4. SsRunNewest(ssFile, ssRun', ssNow') BY DEF SsRunNewest
<1>5. SsFewLost(ssFile, ssWritten, ssCounts.crashes + 1)
 <2>1. SsCount(ssFile) \in Nat /\ SsCount(ssWritten) \in Nat /\ SsCut(ssFile) \in {0, 1}
   BY <1>0, CountIs DEF SsCut
 <2> QED BY <1>0, <2>1 DEF SsFewLost
<1>6. SsTypeOK' BY <1>0 DEF SsTypeOK, SsOrdinary, SsCountsTypes
<1>7.
  /\ SsTornLast(ssFile)' /\ SsUnwritten(ssFile, ssWritten)'
  /\ SsMessagesRise(ssFile, ssCounts.messages)' /\ SsDatesRise(ssFile, ssNow)'
  /\ SsRunNewest(ssFile, ssRun, ssNow)' /\ SsFewLost(ssFile, ssWritten, ssCounts.crashes)'
  BY <1>0, <1>2, <1>3, <1>4, <1>5
<1> QED BY <1>6, <1>7 DEF SsInv

SsCutOff(lines) ==
  ssFile' = SsAppend(ssFile, SsTorn(lines)) /\ ssWritten' = ssWritten \o Front(lines)

\* A step that is cut off within its last line.
LEMMA TearCuts ==
  ASSUME SsInv, SsOrdinary, NEW lines \in Seq(SsLines), lines # <<>>,
    \A k \in DOMAIN lines : lines[k].kind # "torn",
    SsFit(ssFile, lines, ssCounts.messages, ssCounts'.messages, ssNow'),
    ssRun' = SsNoRun, ssCounts'.crashes = ssCounts.crashes + 1, SsCutOff(lines)
  PROVE SsInv'
<1> DEFINE t == SsTorn(lines)
<1>1.
  /\ ssFile \in Seq(SsLines) /\ ssWritten \in Seq(SsLines) /\ ssCounts.crashes \in Nat
  /\ SsFewLost(ssFile, ssWritten, ssCounts.crashes) /\ SsUnwritten(ssFile, ssWritten)
  BY InvParts
<1>2. ssFile' = SsAppend(ssFile, t) /\ ssWritten' = ssWritten \o Front(lines) BY DEF SsCutOff
<1>3.
  /\ t \in Seq(SsLines) /\ t # <<>> /\ Len(t) = Len(lines)
  /\ \A k \in 1 .. Len(lines) : t[k] = IF k = Len(lines) THEN SsTornLine ELSE lines[k]
  /\ Front(lines) \in Seq(SsLines) /\ Len(Front(lines)) = Len(lines) - 1
  BY TornLines
<1>4. Len(lines) \in Nat \ {0} /\ DOMAIN lines = 1 .. Len(lines) /\ DOMAIN t = 1 .. Len(lines)
  BY <1>3, LenProperties, EmptySeq
<1>5. SsTornLine.kind = "torn" BY DEF SsTornLine, SsLine
<1>6. ssWritten' \in Seq(SsLines) /\ (ssWritten' = <<>> => ssWritten = <<>> /\ Front(lines) = <<>>)
  BY <1>1, <1>2, <1>3, ConcatProperties, ConcatEqualIffEmpty
<1> HIDE DEF t
<1>7. SsTornLast(t) BY <1>3, <1>4 DEF SsTornLast
<1>8. SsFit(ssFile, t, ssCounts.messages, ssCounts'.messages, ssNow')
 <2>1. \A k \in DOMAIN t : t[k] = lines[k] \/ t[k].kind = "torn" BY <1>3, <1>4, <1>5
 <2>2. \A k \in DOMAIN t : SsIsMessage(t[k]) \/ SsIsPlan(t[k]) => t[k] = lines[k]
   BY <2>1 DEF SsIsMessage, SsIsPlan
 <2>3. 1 \in DOMAIN t BY <1>4
 <2> QED BY <1>4, <2>2, <2>3 DEF SsFit
<1>9. SsFewLost(ssFile', ssWritten', ssCounts'.crashes)
 <2> DEFINE c == ssCounts.crashes
 <2>1. c \in Nat /\ SsFewLost(ssFile, ssWritten, c) BY <1>1
 <2> HIDE DEF c
 <2>2. SsFewLost(ssFile', ssWritten', c + 1) BY <1>1, <1>2, <2>1, TearLoses DEF t
 <2> QED BY <2>2 DEF c
<1>10. SsUnwritten(ssFile', ssWritten')
 <2> SUFFICES ASSUME ssWritten' = <<>>
   PROVE \A n \in DOMAIN ssFile' : ssFile'[n].kind \in {"header", "garbled", "torn"}
   BY DEF SsUnwritten
 <2>1. Len(lines) = 1
  <3>1. Front(lines) = <<>> BY <1>6
  <3>2. Len(Front(lines)) = 0 BY <3>1, EmptySeq
  <3>3. Len(lines) - 1 = 0 BY <1>3, <3>2
  <3> DEFINE n == Len(lines)
  <3>4. n \in Nat \ {0} /\ n - 1 = 0 BY <1>4, <3>3
  <3> HIDE DEF n
  <3>5. n = 1 BY <3>4
  <3> QED BY <3>5 DEF n
 <2>2. \A n \in DOMAIN ssFile : ssFile[n].kind \in {"header", "garbled", "torn"}
   BY <1>1, <1>6 DEF SsUnwritten
 <2> DEFINE L == Len(ssFile)
   d == SsCut(ssFile)
   r == SsAppend(ssFile, t)
 <2>3.
   /\ r \in Seq(SsLines)
   /\ \A n \in 1 .. L : r[n] = IF d = 1 /\ n = L THEN SsGarbled ELSE ssFile[n]
   /\ \A n \in 1 .. Len(r) : n > L => (n - L) + d \in 1 .. Len(t) /\ r[n] = t[(n - L) + d]
   BY <1>1, <1>3, AppendPlaces
 <2>4. DOMAIN ssFile = 1 .. L /\ L \in Nat /\ DOMAIN r = 1 .. Len(r) /\ Len(r) \in Nat
   BY <1>1, <2>3, LenProperties
 <2>5. ssFile' = r BY <1>2
 <2> HIDE DEF L, d, r
 <2>6. ASSUME NEW n \in DOMAIN r
   PROVE r[n].kind \in {"header", "garbled", "torn"}
  <3>1. CASE n \in 1 .. L
   <4>1. r[n] = SsGarbled \/ r[n] = ssFile[n] BY <2>3, <3>1
   <4> QED BY <2>2, <2>4, <3>1, <4>1 DEF SsGarbled, SsLine
  <3>2. CASE n \notin 1 .. L
   <4>1. n > L /\ n \in 1 .. Len(r) BY <2>4, <3>2
   <4>2. (n - L) + d \in 1 .. Len(t) /\ r[n] = t[(n - L) + d] BY <2>3, <4>1
   <4>3. r[n] = t[1] BY <1>3, <2>1, <4>2
   <4> QED BY <1>3, <1>4, <1>5, <2>1, <4>3
  <3> QED BY <3>1, <3>2
 <2> QED BY <2>5, <2>6
<1>11. SsRunWritten(t[1]) BY DEF SsRunWritten
<1> QED BY <1>2, <1>3, <1>6, <1>7, <1>8, <1>9, <1>10, <1>11, FileKeeps

LEMMA TearKeeps ==
  ASSUME SsInv, SsOrdinary, NEW lines \in Seq(SsLines), lines # <<>>,
    \A k \in DOMAIN lines : lines[k].kind # "torn",
    SsFit(ssFile, lines, ssCounts.messages, ssCounts'.messages, ssNow'),
    ssRun' = SsNoRun, ssCounts'.crashes = ssCounts.crashes + 1, SsTear(lines)
  PROVE SsInv'
<1>1. ssWritten' = ssWritten \o Front(lines) BY DEF SsTear
<1>2. CASE Len(lines) = 1 /\ ssFile # <<>> /\ Last(ssFile).kind = "torn"
 <2>1. ssFile' = ssFile BY <1>2 DEF SsTear
 <2>2. Front(lines) \in Seq(SsLines) /\ Len(Front(lines)) = 0 BY <1>2, TornLines
 <2>3. Front(lines) = <<>> BY <2>2, EmptySeq
 <2>4. ssWritten' = ssWritten BY <1>1, <2>3, InvParts, ConcatEmptySeq
 <2> QED BY <2>1, <2>4, TearAgain
<1>3. CASE ~ (Len(lines) = 1 /\ ssFile # <<>> /\ Last(ssFile).kind = "torn")
 <2>1. SsCutOff(lines) BY <1>1, <1>3 DEF SsCutOff, SsTear, SsTorn, SsTornLine
 <2> QED BY <2>1, TearCuts
<1> QED BY <1>2, <1>3

--------------------
(* The initial state and the steps *)

\* Lines that a step makes.
LEMMA MessageLine ==
  ASSUME NEW id \in Nat, NEW at \in Nat, NEW what \in SsSaid
  PROVE
    SsMessage(id, what, at) \in SsLines /\ SsMessage(id, what, at).kind = "message"
    /\ SsMessage(id, what, at).id = id
BY DEF SsMessage, SsLine, SsLines, SsSaid, SsTexts, SsStored

LEMMA EntryLines ==
  ASSUME NEW id \in Nat, NEW at \in Nat, NEW turn \in Nat, NEW what \in SsSaid
  PROVE
    LET es == SsEntries(id, what, turn, at)
    IN  /\ es \in Seq(SsLines) /\ es # <<>>
        /\ DOMAIN es = 1 .. Len(es) /\ Len(es) \in Nat \ {0}
        /\ \A k \in DOMAIN es : es[k].kind = "entry" /\ es[k].id = id
<1> DEFINE rs == SsRoles(what)
  es == SsEntries(id, what, turn, at)
<1>1.
  /\ Len(rs) \in {1, 2}
  /\ \A i \in 1 .. Len(rs) : rs[i] \in SsTexts
 <2>1. CASE what = "user"
  <3>1. rs = <<"user">> BY <2>1 DEF SsRoles
  <3> QED BY <3>1 DEF SsTexts
 <2>2. CASE what = "assistant"
  <3>1. rs = <<"assistant", "assistant">> BY <2>2 DEF SsRoles
  <3> QED BY <3>1 DEF SsTexts
 <2>3. CASE what = "result"
  <3>1. rs = <<"tool">> BY <2>3 DEF SsRoles
  <3> QED BY <3>1 DEF SsTexts
 <2> QED BY <2>1, <2>2, <2>3 DEF SsSaid
<1>2. es = [i \in 1 .. Len(rs) |-> SsLine("entry", id, turn, at, rs[i])] BY DEF SsEntries
<1> HIDE DEF rs, es
<1>3. \A i \in 1 .. Len(rs) : SsLine("entry", id, turn, at, rs[i]) \in SsLines
  BY <1>1 DEF SsLine, SsLines
<1>4. es \in [1 .. Len(rs) -> SsLines] /\ Len(rs) \in Nat BY <1>1, <1>2, <1>3
<1>5. es \in Seq(SsLines) /\ Len(es) = Len(rs) /\ DOMAIN es = 1 .. Len(rs)
 <2> DEFINE n == Len(rs)
 <2>1. n \in Nat /\ es \in [1 .. n -> SsLines] BY <1>4
 <2> HIDE DEF n
 <2>2. es \in Seq(SsLines) /\ Len(es) = n /\ DOMAIN es = 1 .. n BY <2>1, FromFunction
 <2> QED BY <2>2 DEF n
<1>6. \A k \in DOMAIN es : es[k].kind = "entry" /\ es[k].id = id BY <1>2, <1>5 DEF SsLine
<1>7. es # <<>> BY <1>1, <1>5, EmptySeq
<1> QED BY <1>1, <1>5, <1>6, <1>7 DEF es

LEMMA RecordLine ==
  ASSUME NEW r \in SsRuns, r.mode # "plan"
  PROVE
    /\ SsRecord(r) \in SsLines /\ SsIsPlan(SsRecord(r)) /\ ~ SsIsMessage(SsRecord(r))
    /\ SsRecord(r).kind # "torn" /\ SsRecord(r).id = r.id /\ SsRecord(r).at = r.at
BY DEF SsRuns, SsRecord, SsLine, SsLines, SsStored, SsIsPlan, SsIsMessage

\* A write of one line.
LEMMA OneLine ==
  ASSUME NEW l \in SsLines
  PROVE
    /\ <<l>> \in Seq(SsLines) /\ <<l>> # <<>> /\ <<l>>[1] = l
    /\ DOMAIN <<l>> = 1 .. 1 /\ \A k \in DOMAIN <<l>> : k = 1
<1>1. <<l>> \in Seq(SsLines) /\ Len(<<l>>) = 1 /\ <<l>>[1] = l /\ DOMAIN <<l>> = 1 .. 1 OBVIOUS
<1>2. <<l>> # <<>> BY <1>1, EmptySeq
<1> QED BY <1>1, <1>2

LEMMA RecordFit ==
  ASSUME SsInv, NEW r \in SsRuns, r.mode # "plan", NEW top, NEW now \in Nat,
    r.at < now,
    \A n \in DOMAIN ssFile : SsIsPlan(ssFile[n]) => SsFollows(ssFile[n], r)
  PROVE SsFit(ssFile, <<SsRecord(r)>>, ssCounts.messages, top, now)
<1> DEFINE l == SsRecord(r)
<1>1. l \in SsLines /\ SsIsPlan(l) /\ ~ SsIsMessage(l) /\ l.id = r.id /\ l.at = r.at
  BY RecordLine
<1> HIDE DEF l
<1>2. /\ <<l>>[1] = l /\ \A k \in DOMAIN <<l>> : k = 1 BY <1>1, OneLine
<1>3. \A n \in DOMAIN ssFile : SsIsPlan(ssFile[n]) => SsFollows(ssFile[n], l)
  BY <1>1 DEF SsFollows
<1>4. SsFit(ssFile, <<l>>, ssCounts.messages, top, now) BY <1>1, <1>2, <1>3 DEF SsFit
<1> QED BY <1>4 DEF l

\* Whatever is dated now is later than all records.
LEMMA Later ==
  ASSUME SsInv, NEW r, r.at = ssNow
  PROVE \A n \in DOMAIN ssFile : SsIsPlan(ssFile[n]) => SsFollows(ssFile[n], r)
<1> SUFFICES ASSUME NEW n \in DOMAIN ssFile, SsIsPlan(ssFile[n])
  PROVE SsFollows(ssFile[n], r)
  OBVIOUS
<1>1. ssFile \in Seq(SsLines) /\ ssNow \in Nat /\ SsDatesRise(ssFile, ssNow) BY InvParts
<1>2. ssFile[n] \in SsLines BY <1>1, LenProperties, ElementOfSeq
<1>3. ssFile[n].at \in Nat /\ ssFile[n].at < ssNow BY <1>1, <1>2, LineFields DEF SsDatesRise
<1> QED BY <1>1, <1>3 DEF SsFollows

\* A new session is like that.
LEMMA SsInitInv == SsInit => SsInv
<1> SUFFICES ASSUME SsInit
  PROVE SsInv
  OBVIOUS
<1>0.
  /\ SsHeader \in SsLines /\ SsMessage(1, "user", 0) \in SsLines
  /\ SsLine("child_execution", 1, 0, 0, "completed") \in SsLines
  /\ SsHeader.kind = "header" /\ SsMessage(1, "user", 0).kind = "message"
  /\ SsMessage(1, "user", 0).id = 1
  /\ SsLine("child_execution", 1, 0, 0, "completed").kind = "child_execution"
 <2>1. /\ SsHeader \in SsLines /\ SsHeader.kind = "header"
   BY DEF SsHeader, SsLine, SsLines, SsTexts
 <2>2.
   /\ SsMessage(1, "user", 0) \in SsLines /\ SsMessage(1, "user", 0).kind = "message"
   /\ SsMessage(1, "user", 0).id = 1
   BY DEF SsMessage, SsLine, SsLines, SsTexts, SsSaid
 <2>3.
   /\ SsLine("child_execution", 1, 0, 0, "completed") \in SsLines
   /\ SsLine("child_execution", 1, 0, 0, "completed").kind = "child_execution"
   BY DEF SsLine, SsLines, SsTexts
 <2> QED BY <2>1, <2>2, <2>3
<1> DEFINE h == SsHeader
  m == SsMessage(1, "user", 0)
  c == SsLine("child_execution", 1, 0, 0, "completed")
<1>1. SsOld = <<h, m, c>> BY DEF SsOld
<1> HIDE DEF h, m, c
<1>2.
  /\ h \in SsLines /\ m \in SsLines /\ c \in SsLines
  /\ h.kind = "header" /\ m.kind = "message" /\ m.id = 1 /\ c.kind = "child_execution"
  BY <1>0 DEF h, m, c
<1>3.
  /\ ssFile = <<h>> \/ ssFile = <<h, m, c>>
  /\ ssNow = Len(ssFile) /\ ssUp = TRUE /\ ssRun = SsNoRun
  /\ ssTurn = IF ssFile = SsOld THEN 1 ELSE 0
  /\ ssCounts = [messages |-> ssTurn, records |-> 0, plans |-> 0, crashes |-> 0,
                 waited |-> FALSE]
  /\ ssWritten = Tail(ssFile)
  BY <1>1 DEF SsInit, h
<1>4. CASE ssFile = <<h>>
 <2>1. /\ ssFile \in Seq(SsLines) /\ Len(ssFile) = 1 /\ DOMAIN ssFile = 1 .. 1 /\ ssFile[1] = h
   BY <1>2, <1>4
 <2>2. ssWritten \in Seq(SsLines) /\ Len(ssWritten) = 0 /\ ssWritten = <<>> BY <1>3, <1>4
 <2>3. ssTurn = 0 BY <1>1, <1>3, <1>4
 <2>4. SsTypeOK BY <1>3, <2>1, <2>2, <2>3 DEF SsTypeOK
 <2>5. \A n \in DOMAIN ssFile : ssFile[n].kind = "header" BY <1>2, <2>1
 <2>6. SsMessagesRise(ssFile, ssCounts.messages) /\ SsDatesRise(ssFile, ssNow) /\ SsTornLast(ssFile)
   BY <2>5 DEF SsMessagesRise, SsDatesRise, SsTornLast, SsIsMessage, SsIsPlan
 <2>7. SsRunNewest(ssFile, ssRun, ssNow) BY <1>3 DEF SsRunNewest
 <2>8. SsUnwritten(ssFile, ssWritten) BY <2>5 DEF SsUnwritten
 <2>9. SsFewLost(ssFile, ssWritten, ssCounts.crashes)
  <3>1. SsCut(ssFile) = 0 BY <1>2, <2>1 DEF SsCut, Last
  <3>2. SsCount(ssFile) \in Nat /\ SsCount(ssWritten) \in Nat /\ SsCount(ssWritten) <= 0
    BY <2>1, <2>2, CountIs
  <3> QED BY <1>3, <3>1, <3>2 DEF SsFewLost
 <2> QED BY <2>4, <2>6, <2>7, <2>8, <2>9 DEF SsInv
<1>5. CASE ssFile = <<h, m, c>>
 <2>1.
   /\ ssFile \in Seq(SsLines) /\ Len(ssFile) = 3 /\ DOMAIN ssFile = 1 .. 3
   /\ ssFile[1] = h /\ ssFile[2] = m /\ ssFile[3] = c
   BY <1>2, <1>5
 <2>2.
   /\ ssWritten \in Seq(SsLines) /\ Len(ssWritten) = 2
   /\ ssWritten[1] = m /\ ssWritten[2] = c /\ ssWritten # <<>> /\ DOMAIN ssWritten = 1 .. 2
  <3>1. ssFile # <<>> BY <2>1, EmptySeq
  <3>2. /\ ssWritten \in Seq(SsLines) /\ Len(ssWritten) = 3 - 1
        /\ \A i \in 1 .. Len(ssWritten) : ssWritten[i] = ssFile[i + 1]
    BY <1>3, <2>1, <3>1, HeadTailProperties
  <3>3. Len(ssWritten) = 2 BY <3>2
  <3>4. DOMAIN ssWritten = 1 .. 2 BY <3>2, <3>3, LenProperties
  <3>5. ssWritten # <<>> BY <3>3, EmptySeq
  <3> QED BY <2>1, <3>2, <3>3, <3>4, <3>5
 <2>3. ssTurn = 1 BY <1>1, <1>3, <1>5
 <2>4. SsTypeOK BY <1>3, <2>1, <2>2, <2>3 DEF SsTypeOK
 <2>5. \A n \in DOMAIN ssFile : n = 2 \/ ssFile[n].kind \in {"header", "child_execution"}
   BY <1>2, <2>1
 <2>6. SsMessagesRise(ssFile, ssCounts.messages) /\ SsDatesRise(ssFile, ssNow) /\ SsTornLast(ssFile)
  <3>1. \A n \in DOMAIN ssFile : /\ SsIsMessage(ssFile[n]) => n = 2
                                 /\ ~ SsIsPlan(ssFile[n]) /\ ssFile[n].kind # "torn"
    BY <1>2, <2>1, <2>5 DEF SsIsMessage, SsIsPlan
  <3>2. ssFile[2].id <= ssCounts.messages BY <1>2, <1>3, <2>1, <2>3
  <3>3. ~ (2 < 2) OBVIOUS
  <3> QED BY <3>1, <3>2, <3>3 DEF SsMessagesRise, SsDatesRise, SsTornLast
 <2>7. SsRunNewest(ssFile, ssRun, ssNow) BY <1>3 DEF SsRunNewest
 <2>8. SsUnwritten(ssFile, ssWritten) BY <2>2 DEF SsUnwritten
 <2>9. SsFewLost(ssFile, ssWritten, ssCounts.crashes)
  <3>1. SsCut(ssFile) = 0 BY <1>2, <2>1 DEF SsCut, Last
  <3>2. /\ SsCount(ssFile) = Cardinality(SsCounted(ssFile))
        /\ SsCount(ssWritten) = Cardinality(SsCounted(ssWritten))
    BY <2>1, <2>2, CountIs
  <3>3. SsCounted(ssFile) = {2} BY <1>2, <2>1 DEF SsCounted
  <3>4. SsCounted(ssWritten) = {1} BY <1>2, <2>2 DEF SsCounted
  <3>5. SsCount(ssFile) = 1 /\ SsCount(ssWritten) = 1 BY <3>2, <3>3, <3>4, FS_Singleton
  <3> QED BY <1>3, <3>1, <3>5 DEF SsFewLost
 <2> QED BY <2>4, <2>6, <2>7, <2>8, <2>9 DEF SsInv
<1> QED BY <1>3, <1>4, <1>5

\* saveMessage
LEMMA SaveMessageKeeps ==
  ASSUME SsInv, NEW what \in SsSaid, SsSaveMessage(what)
  PROVE SsInv'
<1> DEFINE id == ssCounts.messages + 1
  m == SsMessage(id, what, ssNow)
  es == SsEntries(id, what, ssTurn, ssNow)
  one == <<m>>
  all == <<m>> \o es
<1>0.
  /\ ssFile \in Seq(SsLines) /\ ssNow \in Nat /\ ssTurn \in Nat
  /\ ssRun \in SsRuns \cup {SsNoRun} /\ ssCounts \in SsCountsTypes
  /\ ssCounts.messages \in Nat /\ ssCounts.crashes \in Nat
  /\ SsRunNewest(ssFile, ssRun, ssNow)
  BY InvParts
<1>1. id \in Nat /\ ssCounts.messages < id /\ id <= id BY <1>0
<1>2. m \in SsLines /\ m.kind = "message" /\ m.id = id
 <2> HIDE DEF id
 <2> QED BY <1>0, <1>1, MessageLine
<1>3.
  /\ es \in Seq(SsLines) /\ DOMAIN es = 1 .. Len(es) /\ Len(es) \in Nat \ {0}
  /\ \A k \in DOMAIN es : es[k].kind = "entry"
 <2> DEFINE turn == ssTurn
   at == ssNow
   made == SsEntries(id, what, turn, at)
 <2>1. id \in Nat /\ at \in Nat /\ turn \in Nat BY <1>0, <1>1
 <2> HIDE DEF id, turn, at
 <2>2.
   /\ made \in Seq(SsLines) /\ DOMAIN made = 1 .. Len(made) /\ Len(made) \in Nat \ {0}
   /\ \A k \in DOMAIN made : made[k].kind = "entry"
  <3>1.
    LET e == SsEntries(id, what, turn, at)
    IN  /\ e \in Seq(SsLines) /\ e # <<>>
        /\ DOMAIN e = 1 .. Len(e) /\ Len(e) \in Nat \ {0}
        /\ \A k \in DOMAIN e : e[k].kind = "entry" /\ e[k].id = id
    BY <2>1, EntryLines
  <3> QED BY <3>1
 <2> QED BY <2>2 DEF turn, at, made
<1>4.
  \/ /\ SsWrite(all) /\ ssTurn' = ssTurn + 1
     /\ ssCounts' = [ssCounts EXCEPT !.messages = id] /\ UNCHANGED <<ssUp, ssRun>>
  \/ /\ SsWrite(one) \/ SsTear(one) \/ SsTear(all)
     /\ SsDie /\ ssCounts' = [ssCounts EXCEPT !.messages = id, !.crashes = @ + 1]
  BY DEF SsSaveMessage
<1>5. ssNow' = ssNow + 1 BY DEF SsSaveMessage
<1> HIDE DEF id, m, es
<1>6. /\ one \in Seq(SsLines) /\ one # <<>> /\ one[1] = m /\ \A k \in DOMAIN one : k = 1
  BY <1>2, OneLine
<1>7.
  /\ all \in Seq(SsLines) /\ all # <<>> /\ all[1] = m
  /\ \A k \in DOMAIN all : k # 1 => all[k].kind = "entry"
 <2>1. one \in Seq(SsLines) /\ Len(one) = 1 BY <1>2
 <2>2.
   /\ all \in Seq(SsLines) /\ Len(all) = 1 + Len(es)
   /\ \A i \in 1 .. 1 + Len(es) : all[i] = IF i <= 1 THEN one[i] ELSE es[i - 1]
   BY <1>3, <2>1, ConcatProperties
 <2>3. DOMAIN all = 1 .. 1 + Len(es) /\ all # <<>> BY <1>3, <2>2, LenProperties, EmptySeq
 <2>4. 1 \in 1 .. 1 + Len(es) /\ \A k \in 1 .. 1 + Len(es) : k # 1 => k - 1 \in 1 .. Len(es) /\ ~ (k <= 1)
   BY <1>3
 <2> HIDE DEF one, all
 <2>5. all[1] = one[1] BY <2>2, <2>4
 <2>6. \A k \in DOMAIN all : k # 1 => all[k].kind = "entry" BY <1>3, <2>2, <2>3, <2>4
 <2> QED BY <1>6, <2>2, <2>3, <2>5, <2>6
<1> HIDE DEF one, all
<1>8. ASSUME NEW lines \in {one, all}, ssCounts'.messages = id
  PROVE
    /\ lines \in Seq(SsLines) /\ lines # <<>>
    /\ \A k \in DOMAIN lines : lines[k].kind # "torn"
    /\ SsFit(ssFile, lines, ssCounts.messages, ssCounts'.messages, ssNow')
    /\ ~ SsIsPlan(lines[1])
 <2>1.
   /\ lines \in Seq(SsLines) /\ lines # <<>> /\ lines[1] = m
   /\ \A k \in DOMAIN lines : k # 1 => lines[k].kind = "entry"
   BY <1>6, <1>7, <1>8
 <2>2.
   /\ ~ SsIsPlan(lines[1]) /\ \A k \in DOMAIN lines : lines[k].kind # "torn"
   /\ \A k \in DOMAIN lines : k # 1 => ~ SsIsMessage(lines[k]) /\ ~ SsIsPlan(lines[k])
   BY <1>2, <2>1 DEF SsIsPlan, SsIsMessage
 <2>3. SsFit(ssFile, lines, ssCounts.messages, ssCounts'.messages, ssNow')
   BY <1>1, <1>2, <1>8, <2>1, <2>2 DEF SsFit
 <2> QED BY <2>1, <2>2, <2>3
<1>9. SsRunNewest(ssFile, ssRun, ssNow') /\ ssNow' \in Nat /\ ssNow <= ssNow'
 <2>1. ssNow' \in Nat /\ ssNow <= ssNow' BY <1>0, <1>5
 <2>2. ssRun # SsNoRun => ssRun.at \in Nat BY <1>0 DEF SsRuns
 <2> QED BY <1>0, <2>1, <2>2 DEF SsRunNewest
<1>10.
  CASE /\ SsWrite(all) /\ ssTurn' = ssTurn + 1
       /\ ssCounts' = [ssCounts EXCEPT !.messages = id] /\ UNCHANGED <<ssUp, ssRun>>
 <2>1.
   /\ ssCounts' \in SsCountsTypes /\ ssCounts'.messages = id
   /\ ssCounts'.crashes = ssCounts.crashes
   BY <1>0, <1>1, <1>10 DEF SsCountsTypes
 <2>2. SsOrdinary BY <1>0, <1>1, <1>9, <1>10, <2>1, InvParts DEF SsOrdinary
 <2>3. SsRunWritten(all[1]) BY <1>8, <2>1 DEF SsRunWritten
 <2> QED BY <1>8, <1>10, <2>1, <2>2, <2>3, WriteKeeps
<1>11.
  CASE /\ SsWrite(one) \/ SsTear(one) \/ SsTear(all)
       /\ SsDie /\ ssCounts' = [ssCounts EXCEPT !.messages = id, !.crashes = @ + 1]
 <2>1.
   /\ ssCounts' \in SsCountsTypes /\ ssCounts'.messages = id
   /\ ssCounts'.crashes = ssCounts.crashes + 1
  <3>1. ssCounts' = [ssCounts EXCEPT !.messages = id, !.crashes = ssCounts.crashes + 1]
    BY <1>0, <1>11 DEF SsCountsTypes
  <3>2. ssCounts.crashes + 1 \in Nat BY <1>0
  <3> QED BY <1>0, <1>1, <3>1, <3>2 DEF SsCountsTypes
 <2>2. ssUp' = FALSE /\ ssRun' = SsNoRun /\ ssTurn' = 0 BY <1>11 DEF SsDie
 <2>3. SsOrdinary
  <3>1. SsRunNewest(ssFile, ssRun', ssNow') BY <2>2 DEF SsRunNewest
  <3>2. ssCounts.crashes <= ssCounts'.crashes /\ ssCounts.messages <= ssCounts'.messages
    BY <1>0, <1>1, <2>1
  <3> QED BY <1>9, <2>1, <2>2, <3>1, <3>2 DEF SsOrdinary
 <2>4. SsRunWritten(one[1]) BY <2>2 DEF SsRunWritten
 <2>5. CASE SsWrite(one) BY <1>8, <2>1, <2>3, <2>4, <2>5, WriteKeeps
 <2>6. CASE SsTear(one) BY <1>8, <2>1, <2>2, <2>3, <2>6, TearKeeps
 <2>7. CASE SsTear(all) BY <1>8, <2>1, <2>2, <2>3, <2>7, TearKeeps
 <2> QED BY <1>11, <2>5, <2>6, <2>7
<1> QED BY <1>4, <1>10, <1>11

--------------------
(* The run that is offered to be taken up again *)

SsUnfinished == {n \in SsFinal : ssFile[n].what[2] # "completed"}

\* Of two runs the one whose last record is further down is dated later.
LEMMA FinalRise ==
  ASSUME ssFile \in Seq(SsLines), NEW now, SsDatesRise(ssFile, now)
  PROVE
    /\ Len(ssFile) \in Nat /\ SsFinal \in SUBSET (1 .. Len(ssFile)) /\ IsFiniteSet(SsFinal)
    /\ \A n \in SsFinal : /\ ssFile[n] \in SsLines /\ SsIsPlan(ssFile[n])
                          /\ ssFile[n].at \in Nat /\ ssFile[n].what \in SsStored
                          /\ ssFile[n].id # 0
    /\ \A m, n \in SsFinal : m < n => ssFile[m].at < ssFile[n].at /\ ssFile[m].id # ssFile[n].id
<1> DEFINE N == Len(ssFile)
<1>1. N \in Nat /\ DOMAIN ssFile = 1 .. N /\ \A n \in 1 .. N : ssFile[n] \in SsLines
  BY LenProperties, ElementOfSeq
<1> HIDE DEF N
<1>2. SsFinal \in SUBSET (1 .. N) BY <1>1 DEF SsFinal, SsPlans
<1>3. IsFiniteSet(SsFinal)
 <2>1. IsFiniteSet(1 .. N) BY <1>1, FS_Interval
 <2> QED BY <1>2, <2>1, FS_Subset
<1>4. ASSUME NEW n \in SsFinal
  PROVE
    /\ n \in SsPlans /\ n \in 1 .. N /\ ssFile[n] \in SsLines /\ SsIsPlan(ssFile[n])
    /\ ssFile[n].at \in Nat /\ ssFile[n].what \in SsStored /\ ssFile[n].id # 0
 <2>1. n \in SsPlans /\ n \in 1 .. N /\ ssFile[n] \in SsLines /\ SsIsPlan(ssFile[n])
   BY <1>1, <1>2 DEF SsFinal, SsPlans
 <2>2. ssFile[n].what \in SsStored /\ ssFile[n].id # 0 BY <2>1 DEF SsLines, SsIsPlan
 <2> QED BY <2>1, <2>2, LineFields
<1>5. ASSUME NEW m \in SsFinal, NEW n \in SsFinal, m < n
  PROVE ssFile[m].at < ssFile[n].at /\ ssFile[m].id # ssFile[n].id
 <2>1. SsFollows(ssFile[m], ssFile[n]) BY <1>1, <1>4, <1>5 DEF SsDatesRise
 <2>2. ssFile[m].id # ssFile[n].id
  <3>1. ssFile[n].id = ssFile[m].id => n <= m BY <1>4 DEF SsFinal
  <3>2. m \in Nat /\ n \in Nat BY <1>1, <1>4
  <3> QED BY <1>5, <3>1, <3>2
 <2>3. ssFile[m].at \in Nat /\ ssFile[n].at \in Nat BY <1>4
 <2> QED BY <2>1, <2>2, <2>3 DEF SsFollows
<1> QED BY <1>1, <1>2, <1>3, <1>4, <1>5 DEF N

\* It is the last in the file of those that are not over.
LEMMA ResumableIs ==
  ASSUME ssFile \in Seq(SsLines), NEW now, SsDatesRise(ssFile, now)
  PROVE
    /\ SsUnfinished = {} => SsResumable = SsGarbled
    /\ SsUnfinished # {} =>
         \E n \in SsUnfinished : /\ \A m \in SsUnfinished : m <= n
                                 /\ SsResumable = ssFile[n]
<1> DEFINE open == {r \in SsLatest : r.what[1] # "plan" /\ r.what[2] \in SsOpen}
  N == Len(ssFile)
<1>1. SsLatest = {ssFile[n] : n \in SsFinal} BY LatestAreFinal
<1>2.
  /\ N \in Nat /\ SsFinal \in SUBSET (1 .. N)
  /\ \A n \in SsFinal : ssFile[n].at \in Nat /\ ssFile[n].what \in SsStored
  /\ \A m, n \in SsFinal : m < n => ssFile[m].at < ssFile[n].at
  BY FinalRise
<1> HIDE DEF N
<1>3. ASSUME NEW n \in SsFinal
  PROVE n \in SsUnfinished <=> ssFile[n].what[1] # "plan" /\ ssFile[n].what[2] \in SsOpen
 <2>1. ssFile[n].what[1] \in {"goal", "none"} /\ ssFile[n].what[2] \in SsStatuses
   BY <1>2 DEF SsStored
 <2> QED BY <2>1 DEF SsUnfinished, SsStatuses, SsOpen, SsEnds
<1>4. open = {ssFile[n] : n \in SsUnfinished}
 <2>1. SsUnfinished \subseteq SsFinal BY DEF SsUnfinished
 <2> QED BY <1>1, <1>3, <2>1
<1>5. SsResumable = IF open = {} THEN SsGarbled ELSE CHOOSE r \in open : \A s \in open : s.at <= r.at
  BY DEF SsResumable
<1> HIDE DEF open
<1>6. CASE SsUnfinished = {} BY <1>4, <1>5, <1>6
<1>7. CASE SsUnfinished # {}
 <2>0. SsUnfinished \subseteq SsFinal BY DEF SsUnfinished
 <2>1. SsUnfinished \subseteq SsFinal /\ SsUnfinished \in SUBSET (0 .. N)
  <3>1. 1 .. N \subseteq 0 .. N BY <1>2
  <3> QED BY <1>2, <2>0, <3>1
 <2>2. PICK n \in SsUnfinished : \A m \in SsUnfinished : m <= n
   BY <1>2, <1>7, <2>1, GreatestMember
 <2>3. ssFile[n] \in open /\ open # {} BY <1>4
 <2>4. ASSUME NEW s \in open
   PROVE s.at <= ssFile[n].at /\ (ssFile[n].at <= s.at => s = ssFile[n])
  <3>1. PICK m \in SsUnfinished : s = ssFile[m] BY <1>4
  <3>2. m <= n /\ m \in Nat /\ n \in Nat /\ m \in SsFinal /\ n \in SsFinal BY <2>1, <2>2
  <3>3. m = n \/ ssFile[m].at < ssFile[n].at BY <1>2, <3>2
  <3>4. ssFile[m].at \in Nat /\ ssFile[n].at \in Nat BY <1>2, <3>2
  <3> QED BY <3>1, <3>3, <3>4
 <2>5. SsResumable \in open /\ \A s \in open : s.at <= SsResumable.at BY <1>5, <2>3, <2>4
 <2>6. SsResumable = ssFile[n] BY <2>3, <2>4, <2>5
 <2> QED BY <1>7, <2>2, <2>6
<1> QED BY <1>6, <1>7

--------------------
(* The other steps *)

\* A step that counts a record.
LEMMA CountsMore ==
  ASSUME SsInv, SsCountRecord
  PROVE
    /\ ssCounts' \in SsCountsTypes /\ ssCounts'.messages = ssCounts.messages
    /\ ssCounts'.crashes = ssCounts.crashes /\ ssCounts.messages <= ssCounts'.messages
    /\ ssCounts.crashes <= ssCounts'.crashes
<1>1. ssCounts \in SsCountsTypes /\ ssCounts.records + 1 \in Nat BY InvParts
<1>2. ssCounts' = [ssCounts EXCEPT !.records = ssCounts.records + 1] BY DEF SsCountRecord
<1> QED BY <1>1, <1>2 DEF SsCountsTypes

\* A step that writes a record of a run dated no earlier than the others.
LEMMA RecordKeeps ==
  ASSUME SsInv, SsOrdinary, NEW r \in SsRuns, r.mode # "plan", r.at < ssNow',
    \A n \in DOMAIN ssFile : SsIsPlan(ssFile[n]) => SsFollows(ssFile[n], r),
    ssRun' = SsNoRun \/ (ssRun'.id = r.id /\ ssRun'.at = r.at),
    SsWrite(<<SsRecord(r)>>)
  PROVE SsInv'
<1> DEFINE l == SsRecord(r)
<1>1. /\ l \in SsLines /\ SsIsPlan(l) /\ l.kind # "torn" /\ l.id = r.id /\ l.at = r.at
  BY RecordLine
<1>2. ssNow' \in Nat BY DEF SsOrdinary
<1>3. SsFit(ssFile, <<l>>, ssCounts.messages, ssCounts'.messages, ssNow') BY <1>2, RecordFit
<1>4. SsRunWritten(l)
 <2>1. r.at \in Nat BY DEF SsRuns
 <2> HIDE DEF l
 <2> QED BY <1>1, <2>1 DEF SsRunWritten, SsFollows
<1>5. SsWrite(<<l>>) OBVIOUS
<1> HIDE DEF l
<1>6.
  /\ <<l>> \in Seq(SsLines) /\ <<l>> # <<>> /\ <<l>>[1] = l
  /\ \A k \in DOMAIN <<l>> : <<l>>[k].kind # "torn"
  BY <1>1, OneLine
<1> QED BY <1>3, <1>4, <1>5, <1>6, WriteKeeps

\* The clock of a step that takes a second.
LEMMA SecondLater ==
  ASSUME SsInv, ssNow' = ssNow + 1
  PROVE
    /\ ssNow' \in Nat /\ ssNow <= ssNow' /\ ssNow < ssNow'
    /\ SsRunNewest(ssFile, ssRun, ssNow')
<1>1. ssNow \in Nat /\ ssRun \in SsRuns \cup {SsNoRun} /\ SsRunNewest(ssFile, ssRun, ssNow)
  BY InvParts
<1>2. ssRun # SsNoRun => ssRun.at \in Nat BY <1>1 DEF SsRuns
<1> QED BY <1>1, <1>2 DEF SsRunNewest

LEMMA StartRunKeeps == SsInv /\ SsStartRun => SsInv'
<1> SUFFICES ASSUME SsInv, SsStartRun
  PROVE SsInv'
  OBVIOUS
<1>1.
  /\ ssNow \in Nat /\ ssUp \in BOOLEAN /\ ssTurn \in Nat /\ ssCounts \in SsCountsTypes
  /\ ssCounts.messages \in Nat /\ ssCounts.crashes \in Nat
  /\ ssCounts.plans \in Nat /\ ssCounts.records \in Nat
  BY InvParts
<1>2.
  /\ ssCounts' \in SsCountsTypes /\ ssCounts.messages <= ssCounts'.messages
  /\ ssCounts.crashes <= ssCounts'.crashes /\ ssCounts'.plans \in Nat \ {0}
 <2>1. ssCounts' = [ssCounts EXCEPT !.plans = ssCounts.plans + 1, !.records = ssCounts.records + 1]
   BY DEF SsStartRun
 <2>2. ssCounts.plans + 1 \in Nat \ {0} /\ ssCounts.records + 1 \in Nat BY <1>1
 <2>3.
   /\ ssCounts' \in SsCountsTypes /\ ssCounts'.messages = ssCounts.messages
   /\ ssCounts'.crashes = ssCounts.crashes /\ ssCounts'.plans = ssCounts.plans + 1
   BY <1>1, <2>1, <2>2 DEF SsCountsTypes
 <2> QED BY <1>1, <2>2, <2>3
<1> DEFINE Run(mode) == [id |-> ssCounts'.plans, at |-> ssNow, status |-> "running", mode |-> mode]
<1>3.
  PICK mode \in SsModes :
    IF mode = "goal" THEN SsSaveRun(Run(mode), Run(mode))
    ELSE ssRun' = Run(mode) /\ ssNow' = ssNow + 1 /\ UNCHANGED <<ssFile, ssUp, ssTurn, ssWritten>>
  BY DEF SsStartRun
<1> DEFINE r == Run(mode)
<1>4. r \in SsRuns /\ r.at = ssNow /\ r.mode = mode
  BY <1>1, <1>2 DEF SsRuns, SsModes, SsStatuses, SsOpen
<1>5. ssRun' = r /\ ssNow' = ssNow + 1 /\ UNCHANGED <<ssUp, ssTurn>> BY <1>3 DEF SsSaveRun
<1>6.
  /\ mode = "goal" => SsWrite(<<SsRecord(r)>>)
  /\ mode # "goal" => UNCHANGED <<ssFile, ssWritten>>
  BY <1>3 DEF SsSaveRun
<1> HIDE DEF r, Run
<1>7. \A n \in DOMAIN ssFile : SsIsPlan(ssFile[n]) => SsFollows(ssFile[n], r) BY <1>4, Later
<1>8. ssNow' \in Nat /\ ssNow <= ssNow' /\ ssNow < ssNow' BY <1>1, <1>5
<1>9. SsOrdinary
 <2>1. SsRunNewest(ssFile, ssRun', ssNow') BY <1>4, <1>5, <1>7, <1>8 DEF SsRunNewest
 <2> QED BY <1>1, <1>2, <1>4, <1>5, <1>8, <2>1 DEF SsOrdinary
<1>10. CASE mode = "goal"
 <2>1. SsWrite(<<SsRecord(r)>>) /\ r.mode # "plan" /\ r.at < ssNow' BY <1>4, <1>6, <1>8, <1>10
 <2> QED BY <1>4, <1>5, <1>7, <1>9, <2>1, RecordKeeps
<1>11. CASE mode # "goal" BY <1>6, <1>9, <1>11, QuietKeeps
<1> QED BY <1>10, <1>11

\* What is stored at a step of a run, and when it ends.
LEMMA SaveRunKeeps ==
  ASSUME SsInv, NEW r \in SsRuns, r.mode # "plan", r.at <= ssNow, NEW next,
    \A n \in DOMAIN ssFile : SsIsPlan(ssFile[n]) => SsFollows(ssFile[n], r),
    next = SsNoRun \/ next = r, SsSaveRun(r, next), SsCountRecord
  PROVE SsInv'
<1>1. ssUp \in BOOLEAN /\ ssTurn \in Nat /\ ssNow \in Nat BY InvParts
<1>2.
  /\ ssRun' = next /\ ssNow' = ssNow + 1 /\ SsWrite(<<SsRecord(r)>>)
  /\ UNCHANGED <<ssUp, ssTurn>>
  BY DEF SsSaveRun
<1>3. ssNow' \in Nat /\ ssNow <= ssNow' /\ r.at < ssNow'
 <2>1. r.at \in Nat BY DEF SsRuns
 <2> QED BY <1>1, <1>2, <2>1
<1>4. SsRunNewest(ssFile, ssRun', ssNow') BY <1>2, <1>3 DEF SsRunNewest
<1>5. SsOrdinary BY <1>1, <1>2, <1>3, <1>4, CountsMore DEF SsOrdinary
<1> QED BY <1>2, <1>3, <1>5, RecordKeeps

LEMMA StepRunKeeps == SsInv /\ SsStepRun => SsInv'
<1> SUFFICES ASSUME SsInv, SsStepRun
  PROVE SsInv'
  OBVIOUS
<1>1.
  PICK status \in {"running", "blocked"} :
    SsSaveRun([ssRun EXCEPT !.status = status], [ssRun EXCEPT !.status = status])
  BY DEF SsStepRun
<1>2. /\ ssNow \in Nat /\ ssRun \in SsRuns \cup {SsNoRun} /\ SsRunNewest(ssFile, ssRun, ssNow)
  BY InvParts
<1>3. ssRun.mode \in {"goal", "none"} /\ SsCountRecord BY DEF SsStepRun
<1>4. ssRun \in SsRuns /\ ssRun # SsNoRun
 <2>1. SsNoRun.mode = "idle" BY DEF SsNoRun
 <2>2. ssRun # SsNoRun BY <1>3, <2>1
 <2> QED BY <1>2, <2>2
<1> DEFINE r == [ssRun EXCEPT !.status = status]
<1>5. r \in SsRuns /\ r.mode # "plan" /\ r.id = ssRun.id /\ r.at = ssRun.at /\ ssRun.at \in Nat
  BY <1>3, <1>4 DEF SsRuns, SsStatuses, SsOpen
<1>6. SsSaveRun(r, r) BY <1>1
<1> HIDE DEF r
<1>7. r.at <= ssNow /\ \A n \in DOMAIN ssFile : SsIsPlan(ssFile[n]) => SsFollows(ssFile[n], r)
  BY <1>2, <1>4, <1>5 DEF SsRunNewest, SsFollows
<1> QED BY <1>3, <1>5, <1>6, <1>7, SaveRunKeeps

LEMMA EndRunKeeps == SsInv /\ SsEndRun => SsInv'
<1> SUFFICES ASSUME SsInv, SsEndRun
  PROVE SsInv'
  OBVIOUS
<1> DEFINE
  End(status) == [ssRun EXCEPT !.status = status, !.at = ssNow,
                               !.mode = IF @ = "plan" THEN "none" ELSE "goal"]
<1>1. PICK status \in SsEnds : SsSaveRun(End(status), SsNoRun) BY DEF SsEndRun
<1>2. ssNow \in Nat /\ ssRun \in SsRuns BY InvParts DEF SsEndRun
<1>3. SsCountRecord BY DEF SsEndRun
<1> DEFINE r == End(status)
<1>4. r \in SsRuns /\ r.mode # "plan" /\ r.at = ssNow BY <1>2 DEF SsRuns, SsStatuses
<1>5. SsSaveRun(r, SsNoRun) BY <1>1
<1> HIDE DEF r, End
<1>6. r.at <= ssNow /\ \A n \in DOMAIN ssFile : SsIsPlan(ssFile[n]) => SsFollows(ssFile[n], r)
  BY <1>2, <1>4, Later
<1> QED BY <1>3, <1>4, <1>5, <1>6, SaveRunKeeps

LEMMA SaveChildKeeps == SsInv /\ SsSaveChild => SsInv'
<1> SUFFICES ASSUME SsInv, SsSaveChild
  PROVE SsInv'
  OBVIOUS
<1> DEFINE l == SsLine("sub_agent_run", ssCounts.records + 2, 0, ssNow, "completed")
<1>1.
  /\ ssNow \in Nat /\ ssUp \in BOOLEAN /\ ssTurn \in Nat /\ ssRun \in SsRuns \cup {SsNoRun}
  /\ ssCounts.records \in Nat
  BY InvParts
<1>2. /\ SsWrite(<<l>>) /\ ssNow' = ssNow + 1 /\ SsCountRecord /\ UNCHANGED <<ssUp, ssTurn, ssRun>>
  BY DEF SsSaveChild
<1>3. l \in SsLines /\ l.kind = "sub_agent_run"
 <2>1. ssCounts.records + 2 \in Nat BY <1>1
 <2> QED BY <1>1, <2>1 DEF SsLine, SsLines, SsTexts
<1> HIDE DEF l
<1>4. SsOrdinary BY <1>1, <1>2, CountsMore, SecondLater DEF SsOrdinary
<1>5.
  /\ <<l>> \in Seq(SsLines) /\ <<l>> # <<>> /\ <<l>>[1] = l
  /\ \A k \in DOMAIN <<l>> : k = 1
  BY <1>3, OneLine
<1>6. ~ SsIsPlan(l) /\ ~ SsIsMessage(l) /\ \A k \in DOMAIN <<l>> : <<l>>[k].kind # "torn"
  BY <1>3, <1>5 DEF SsIsPlan, SsIsMessage
<1>7. SsFit(ssFile, <<l>>, ssCounts.messages, ssCounts'.messages, ssNow')
  BY <1>5, <1>6 DEF SsFit
<1>8. SsRunWritten(<<l>>[1]) BY <1>5, <1>6 DEF SsRunWritten
<1> QED BY <1>2, <1>4, <1>5, <1>6, <1>7, <1>8, WriteKeeps

LEMMA CrashKeeps == SsInv /\ SsCrash => SsInv'
<1> SUFFICES ASSUME SsInv, SsCrash
  PROVE SsInv'
  OBVIOUS
<1>1.
  /\ ssNow \in Nat /\ ssRun \in SsRuns \cup {SsNoRun} /\ SsRunNewest(ssFile, ssRun, ssNow)
  /\ ssCounts \in SsCountsTypes /\ ssCounts.messages \in Nat /\ ssCounts.crashes \in Nat
  BY InvParts
<1>2.
  /\ ssUp' = FALSE /\ ssRun' = SsNoRun /\ ssTurn' = 0 /\ ssNow' = ssNow + 1
  /\ \/ UNCHANGED <<ssFile, ssWritten>>
     \/ ssRun.mode \in {"goal", "none"} /\ SsTear(<<SsRecord(ssRun)>>)
  BY DEF SsCrash, SsDie
<1>3.
  /\ ssCounts' \in SsCountsTypes /\ ssCounts'.messages = ssCounts.messages
  /\ ssCounts'.crashes = ssCounts.crashes + 1
 <2>1. ssCounts' = [ssCounts EXCEPT !.crashes = ssCounts.crashes + 1] /\ ssCounts.crashes + 1 \in Nat
   BY <1>1 DEF SsCrash
 <2> QED BY <1>1, <2>1 DEF SsCountsTypes
<1>4. ssNow' \in Nat /\ ssNow <= ssNow' /\ SsRunNewest(ssFile, ssRun, ssNow')
  BY <1>2, SecondLater
<1>5. SsOrdinary
 <2>1. SsRunNewest(ssFile, ssRun', ssNow') BY <1>2 DEF SsRunNewest
 <2>2. ssCounts.crashes <= ssCounts'.crashes /\ ssCounts.messages <= ssCounts'.messages
   BY <1>1, <1>3
 <2> QED BY <1>2, <1>3, <1>4, <2>1, <2>2 DEF SsOrdinary
<1>6. CASE UNCHANGED <<ssFile, ssWritten>> BY <1>5, <1>6, QuietKeeps
<1>7. CASE ssRun.mode \in {"goal", "none"} /\ SsTear(<<SsRecord(ssRun)>>)
 <2>1. ssRun \in SsRuns /\ ssRun.mode # "plan" /\ ssRun # SsNoRun BY <1>1, <1>7 DEF SsNoRun
 <2>2. ssRun.at < ssNow' /\ \A n \in DOMAIN ssFile : SsIsPlan(ssFile[n]) => SsFollows(ssFile[n], ssRun)
   BY <1>4, <2>1 DEF SsRunNewest
 <2> DEFINE l == SsRecord(ssRun)
   r == ssRun
   top == ssCounts'.messages
   now == ssNow'
 <2>3. SsFit(ssFile, <<l>>, ssCounts.messages, ssCounts'.messages, ssNow')
  <3>1. r \in SsRuns /\ r.mode # "plan" /\ now \in Nat /\ r.at < now BY <1>4, <2>1, <2>2
  <3>2. \A n \in DOMAIN ssFile : SsIsPlan(ssFile[n]) => SsFollows(ssFile[n], r) BY <2>2
  <3> HIDE DEF r, now, top
  <3>3. SsFit(ssFile, <<SsRecord(r)>>, ssCounts.messages, top, now) BY <3>1, <3>2, RecordFit
  <3> QED BY <3>3 DEF r, now, top
 <2>4. l \in SsLines /\ l.kind # "torn"
  <3>1. r \in SsRuns /\ r.mode # "plan" BY <2>1
  <3> HIDE DEF r
  <3>2. SsRecord(r) \in SsLines /\ SsRecord(r).kind # "torn" BY <3>1, RecordLine
  <3> QED BY <3>2 DEF r
 <2>5. SsTear(<<l>>) BY <1>7
 <2> HIDE DEF l
 <2>6. /\ <<l>> \in Seq(SsLines) /\ <<l>> # <<>> /\ \A k \in DOMAIN <<l>> : <<l>>[k].kind # "torn"
   BY <2>4, OneLine
 <2> QED BY <1>2, <1>3, <1>5, <2>3, <2>5, <2>6, TearKeeps
<1> QED BY <1>2, <1>6, <1>7

LEMMA WaitKeeps == SsInv /\ SsWait => SsInv'
<1> SUFFICES ASSUME SsInv, SsWait
  PROVE SsInv'
  OBVIOUS
<1>1.
  /\ ssNow \in Nat /\ ssUp \in BOOLEAN /\ ssTurn \in Nat /\ ssRun \in SsRuns \cup {SsNoRun}
  /\ SsRunNewest(ssFile, ssRun, ssNow) /\ ssCounts \in SsCountsTypes
  /\ ssCounts.messages \in Nat /\ ssCounts.crashes \in Nat
  BY InvParts
<1>2.
  /\ ssNow' = ssNow + SsPause /\ ssCounts' = [ssCounts EXCEPT !.waited = TRUE]
  /\ UNCHANGED <<ssFile, ssUp, ssTurn, ssRun, ssWritten>>
  BY DEF SsWait
<1>3. ssNow' \in Nat /\ ssNow <= ssNow' BY <1>1, <1>2, SsAssumption
<1>4. SsRunNewest(ssFile, ssRun', ssNow')
 <2>1. ssRun # SsNoRun => ssRun.at \in Nat BY <1>1 DEF SsRuns
 <2> QED BY <1>1, <1>2, <1>3, <2>1 DEF SsRunNewest
<1>5.
  /\ ssCounts' \in SsCountsTypes /\ ssCounts.messages <= ssCounts'.messages
  /\ ssCounts.crashes <= ssCounts'.crashes
 <2>1.
   /\ ssCounts' \in SsCountsTypes /\ ssCounts'.messages = ssCounts.messages
   /\ ssCounts'.crashes = ssCounts.crashes
   BY <1>1, <1>2 DEF SsCountsTypes
 <2> QED BY <1>1, <2>1
<1>6. SsOrdinary BY <1>1, <1>2, <1>3, <1>4, <1>5 DEF SsOrdinary
<1> QED BY <1>2, <1>6, QuietKeeps

\* What is taken up again is a run with a number, stored without the mode "plan".
LEMMA ResumableRun ==
  ASSUME SsInv, SsResumable # SsGarbled
  PROVE /\ SsResumable.id \in Nat \ {0} /\ SsResumable.what[1] \in {"goal", "none"}
<1>1. ssFile \in Seq(SsLines) /\ SsDatesRise(ssFile, ssNow) BY InvParts
<1>2. PICK n \in SsUnfinished : SsResumable = ssFile[n] BY <1>1, ResumableIs
<1>3. n \in SsFinal BY <1>2 DEF SsUnfinished
<1>4. ssFile[n] \in SsLines /\ ssFile[n].what \in SsStored /\ ssFile[n].id # 0
  BY <1>1, <1>3, FinalRise
<1>5. ssFile[n].id \in Nat BY <1>4, LineFields
<1> QED BY <1>2, <1>4, <1>5 DEF SsStored

LEMMA StartKeeps == SsInv /\ SsStart => SsInv'
<1> SUFFICES ASSUME SsInv, SsStart
  PROVE SsInv'
  OBVIOUS
<1>1.
  /\ ssFile \in Seq(SsLines) /\ ssNow \in Nat /\ ssRun \in SsRuns \cup {SsNoRun}
  /\ ssCounts \in SsCountsTypes /\ ssCounts.messages \in Nat /\ ssCounts.crashes \in Nat
  BY InvParts
<1>2.
  /\ ssUp' = TRUE /\ ssTurn' = Len(SsMessages) /\ ssNow' = ssNow + 1
  /\ UNCHANGED ssCounts \/ SsCountRecord
  BY DEF SsStart
<1>3. ssTurn' \in Nat
 <2>1. SsMessages \in Seq(SsLines) BY <1>1, OfKind DEF SsMessages, SsRead
 <2> QED BY <1>2, <2>1, LenProperties
<1>4.
  /\ ssCounts' \in SsCountsTypes /\ ssCounts.messages <= ssCounts'.messages
  /\ ssCounts.crashes <= ssCounts'.crashes
  BY <1>1, <1>2, CountsMore
<1>5. ssNow' \in Nat /\ ssNow <= ssNow' /\ ssNow < ssNow' /\ SsRunNewest(ssFile, ssRun, ssNow')
  BY <1>2, SecondLater
<1>6. ASSUME ssRun' \in SsRuns \cup {SsNoRun}, SsRunNewest(ssFile, ssRun', ssNow')
  PROVE SsOrdinary
  BY <1>2, <1>3, <1>4, <1>5, <1>6 DEF SsOrdinary
<1>7. CASE UNCHANGED <<ssRun, ssFile, ssWritten>> BY <1>1, <1>5, <1>6, <1>7, QuietKeeps
<1>8.
  CASE /\ SsResumable # SsGarbled
       /\ ssRun' = [id |-> SsResumable.id, at |-> ssNow, status |-> "running",
                    mode |-> SsResumable.what[1]]
       /\ SsWrite(<<SsRecord(ssRun')>>)
 <2> DEFINE
   r == [id |-> SsResumable.id, at |-> ssNow, status |-> "running",
         mode |-> SsResumable.what[1]]
 <2>1. SsResumable.id \in Nat \ {0} /\ SsResumable.what[1] \in {"goal", "none"}
   BY <1>8, ResumableRun
 <2>2. r \in SsRuns /\ r.mode # "plan" /\ r.at = ssNow
   BY <1>1, <2>1 DEF SsRuns, SsStatuses, SsOpen
 <2>3. ssRun' = r /\ SsWrite(<<SsRecord(r)>>) BY <1>8
 <2> HIDE DEF r
 <2>4. \A n \in DOMAIN ssFile : SsIsPlan(ssFile[n]) => SsFollows(ssFile[n], r) BY <2>2, Later
 <2>5. SsRunNewest(ssFile, ssRun', ssNow') /\ r.at < ssNow'
   BY <1>5, <2>2, <2>3, <2>4 DEF SsRunNewest
 <2>6. SsOrdinary BY <1>6, <2>2, <2>3, <2>5
 <2> QED BY <2>2, <2>3, <2>4, <2>5, <2>6, RecordKeeps
<1> QED BY <1>7, <1>8 DEF SsStart

\* What SsInv says holds of every session, whatever is written and whenever the program dies.
THEOREM SessionInvariant == SsSpec => []SsInv
<1>1. SsInit => SsInv BY SsInitInv
<1>2. SsInv /\ [SsNext]_ssVars => SsInv'
 <2> SUFFICES ASSUME SsInv, [SsNext]_ssVars
   PROVE SsInv'
   OBVIOUS
 <2>1. ASSUME NEW what \in {"user", "assistant", "result"}, SsSaveMessage(what)
   PROVE SsInv'
  <3>1. what \in SsSaid BY DEF SsSaid
  <3> QED BY <2>1, <3>1, SaveMessageKeeps
 <2>2. CASE SsStartRun BY <2>2, StartRunKeeps
 <2>3. CASE SsStepRun BY <2>3, StepRunKeeps
 <2>4. CASE SsEndRun BY <2>4, EndRunKeeps
 <2>5. CASE SsSaveChild BY <2>5, SaveChildKeeps
 <2>6. CASE SsCrash BY <2>6, CrashKeeps
 <2>7. CASE SsWait BY <2>7, WaitKeeps
 <2>8. CASE SsStart BY <2>8, StartKeeps
 <2>9. CASE UNCHANGED ssVars
  <3>1. UNCHANGED <<ssFile, ssNow, ssUp, ssTurn, ssRun, ssCounts, ssWritten>> BY <2>9 DEF ssVars
  <3>2.
    /\ ssNow \in Nat /\ ssUp \in BOOLEAN /\ ssTurn \in Nat /\ ssRun \in SsRuns \cup {SsNoRun}
    /\ SsRunNewest(ssFile, ssRun, ssNow) /\ ssCounts \in SsCountsTypes
    /\ ssCounts.messages \in Nat /\ ssCounts.crashes \in Nat
    BY InvParts
  <3>3. SsOrdinary BY <3>1, <3>2 DEF SsOrdinary
  <3> QED BY <3>1, <3>3, QuietKeeps
 <2> QED BY <2>1, <2>2, <2>3, <2>4, <2>5, <2>6, <2>7, <2>8, <2>9 DEF SsNext
<1> QED BY <1>1, <1>2, PTL DEF SsSpec

--------------------
(* What is read back *)

\* All but the records of sub-agents are read as they stand in the file.
LEMMA ReadPlainly ==
  ASSUME ssFile \in Seq(SsLines), NEW kind \in SsRead, kind # "sub_agent_run"
  PROVE
    LET r == SsOfKind(kind)
    IN  /\ r \in Seq(SsLines) /\ Len(r) \in Nat /\ DOMAIN r = 1 .. Len(r)
        /\ \E at \in [1 .. Len(r) -> 1 .. Len(ssFile)] :
             /\ \A i \in 1 .. Len(r) : r[i] = ssFile[at[i]] /\ SsParse(ssFile[at[i]]) = kind
             /\ \A n \in 1 .. Len(ssFile) :
                  SsParse(ssFile[n]) = kind => \E i \in 1 .. Len(r) : at[i] = n
             /\ \A i, j \in 1 .. Len(r) : i < j => at[i] < at[j]
<1> DEFINE r == SsOfKind(kind)
<1>1. r \in Seq(SsLines) /\ \E at : SsReadAt(kind, r, at) BY OfKind
<1>2. PICK at : SsReadAt(kind, r, at) BY <1>1
<1>3. Len(r) \in Nat /\ DOMAIN r = 1 .. Len(r) BY <1>1, LenProperties
<1>4. \A n \in 1 .. Len(ssFile) : ssFile[n] \in SsLines BY LenProperties, ElementOfSeq
<1> HIDE DEF r
<1>5.
  /\ at \in [1 .. Len(r) -> 1 .. Len(ssFile)]
  /\ \A i \in 1 .. Len(r) : SsParse(ssFile[at[i]]) = kind /\ r[i] = SsTaken(kind, ssFile[at[i]])
  /\ \A n \in 1 .. Len(ssFile) : SsParse(ssFile[n]) = kind => \E i \in 1 .. Len(r) : at[i] = n
  /\ \A i, j \in 1 .. Len(r) : i < j => at[i] < at[j]
  BY <1>2 DEF SsReadAt
<1>6. ASSUME NEW i \in 1 .. Len(r)
  PROVE r[i] = ssFile[at[i]]
 <2>1. ssFile[at[i]] \in SsLines /\ SsParse(ssFile[at[i]]) = kind BY <1>4, <1>5
 <2> QED BY <1>5, <2>1, TakenAs
<1> QED BY <1>1, <1>3, <1>5, <1>6 DEF r

LEMMA LittleLost == SsInv => SsLittleLost
<1> SUFFICES ASSUME SsInv
  PROVE SsLittleLost
  OBVIOUS
<1>1.
  /\ ssFile \in Seq(SsLines) /\ ssWritten \in Seq(SsLines) /\ ssCounts.crashes \in Nat
  /\ SsMessagesRise(ssFile, ssCounts.messages)
  /\ SsFewLost(ssFile, ssWritten, ssCounts.crashes)
  BY InvParts
<1>2. SsCount(ssWritten) - SsCount(ssFile) <= ssCounts.crashes
 <2>1. SsCount(ssFile) \in Nat /\ SsCount(ssWritten) \in Nat /\ SsCut(ssFile) \in {0, 1}
   BY <1>1, CountIs DEF SsCut
 <2> QED BY <1>1, <2>1 DEF SsFewLost
<1> DEFINE kept == SsOfKind("message")
<1>3.
  /\ DOMAIN kept = 1 .. Len(kept)
  /\ \E at \in [1 .. Len(kept) -> 1 .. Len(ssFile)] :
       /\ \A i \in 1 .. Len(kept) : kept[i] = ssFile[at[i]] /\ SsParse(ssFile[at[i]]) = "message"
       /\ \A i, j \in 1 .. Len(kept) : i < j => at[i] < at[j]
  BY <1>1, ReadPlainly DEF SsRead
<1>4. DOMAIN ssFile = 1 .. Len(ssFile) BY <1>1, LenProperties
<1> HIDE DEF kept
<1>5.
  PICK at \in [1 .. Len(kept) -> 1 .. Len(ssFile)] :
    /\ \A i \in 1 .. Len(kept) : kept[i] = ssFile[at[i]] /\ SsParse(ssFile[at[i]]) = "message"
    /\ \A i, j \in 1 .. Len(kept) : i < j => at[i] < at[j]
  BY <1>3
<1>6. ASSUME NEW i \in DOMAIN kept, NEW j \in DOMAIN kept, i < j
  PROVE kept[i].id < kept[j].id
 <2>1.
   /\ at[i] \in DOMAIN ssFile /\ at[j] \in DOMAIN ssFile /\ at[i] < at[j]
   /\ kept[i] = ssFile[at[i]] /\ kept[j] = ssFile[at[j]]
   BY <1>3, <1>4, <1>5, <1>6
 <2>2. SsIsMessage(ssFile[at[i]]) /\ SsIsMessage(ssFile[at[j]])
   BY <1>3, <1>5, <1>6, ParseKinds DEF SsIsMessage
 <2> QED BY <1>1, <2>1, <2>2 DEF SsMessagesRise
<1> QED BY <1>2, <1>6 DEF SsLittleLost, SsMessages, kept

\* A message has an entry, and all its entries have its number.
MadeOf(id, what, turn, at) ==
  LET es == SsEntries(id, what, turn, at)
  IN  /\ es \in Seq(SsLines) /\ 1 \in DOMAIN es
      /\ \A k \in DOMAIN es : es[k].id = id

LEMMA MadeLines ==
  ASSUME NEW id \in Nat, NEW at \in Nat, NEW turn \in Nat, NEW what \in SsSaid
  PROVE MadeOf(id, what, turn, at)
<1> DEFINE es == SsEntries(id, what, turn, at)
<1>1.
  /\ es \in Seq(SsLines) /\ DOMAIN es = 1 .. Len(es) /\ Len(es) \in Nat \ {0}
  /\ \A k \in DOMAIN es : es[k].id = id
  BY EntryLines
<1> HIDE DEF es
<1>2. 1 \in DOMAIN es BY <1>1
<1> QED BY <1>1, <1>2 DEF MadeOf, es

\* The entries made for messages without: some for each message, and for nothing else.
LEMMA FallbackIs ==
  ASSUME ssFile \in Seq(SsLines)
  PROVE
    /\ SsFallback \in Seq(SsLines)
    /\ \A i \in 1 .. Len(SsFallback) : \E n \in DOMAIN ssFile :
         ssFile[n].kind = "message" /\ SsFallback[i].id = ssFile[n].id
    /\ \A n \in DOMAIN ssFile : ssFile[n].kind = "message" =>
         \E i \in 1 .. Len(SsFallback) : SsFallback[i].id = ssFile[n].id
<1> DEFINE N == Len(ssFile)
  made(n) == SsEntries(ssFile[n].id, ssFile[n].what, n - 1, n - 1)
  part(n) == IF SsParse(ssFile[n]) = "message" THEN made(n) ELSE <<>>
  p == [n \in DOMAIN ssFile |-> part(n)]
  r == SsFallback
<1>1. N \in Nat /\ DOMAIN ssFile = 1 .. N /\ \A n \in 1 .. N : ssFile[n] \in SsLines
  BY LenProperties, ElementOfSeq
<1> HIDE DEF N
<1>2. ASSUME NEW n \in 1 .. N, ssFile[n].kind = "message"
  PROVE
    /\ made(n) \in Seq(SsLines) /\ 1 \in DOMAIN made(n)
    /\ \A k \in DOMAIN made(n) : made(n)[k].id = ssFile[n].id
 <2> DEFINE id == ssFile[n].id
   what == ssFile[n].what
   turn == n - 1
 <2>1. id \in Nat /\ what \in SsSaid /\ turn \in Nat BY <1>1, <1>2, LineFields DEF SsLines
 <2> HIDE DEF id, what, turn
 <2>2. MadeOf(id, what, turn, turn) BY <2>1, MadeLines
 <2> QED BY <2>2 DEF MadeOf, id, what, turn
<1> HIDE DEF made
<1>3. ASSUME NEW n \in 1 .. N
  PROVE
    /\ part(n) \in Seq(SsLines)
    /\ ssFile[n].kind = "message" => part(n) = made(n)
    /\ ssFile[n].kind # "message" => DOMAIN part(n) = {}
 <2>1. CASE ssFile[n].kind = "message" BY <1>2, <2>1, ParseKinds
 <2>2. CASE ssFile[n].kind # "message"
  <3>1. part(n) = <<>> BY <2>2, ParseKinds
  <3> HIDE DEF part
  <3>2. <<>> \in Seq(SsLines) /\ DOMAIN <<>> = {} BY EmptySeq
  <3> QED BY <2>2, <3>1, <3>2
 <2> QED BY <2>1, <2>2
<1> HIDE DEF part
<1>4. p \in Seq(Seq(SsLines)) /\ Len(p) = N /\ \A n \in 1 .. N : p[n] = part(n)
 <2>1. p \in [1 .. N -> Seq(SsLines)] /\ \A n \in 1 .. N : p[n] = part(n) BY <1>1, <1>3
 <2> HIDE DEF p
 <2> QED BY <1>1, <2>1, FromFunction
<1>5. r = FlattenSeq(p) BY DEF SsFallback, part, made
<1> HIDE DEF p, r
<1>6. r \in Seq(SsLines) /\ \E at : FlatUpTo(p, N, r, at) BY <1>4, <1>5, FlattenPlaces
<1>7. PICK at : FlatUpTo(p, N, r, at) BY <1>6
<1>8.
  /\ at \in [1 .. Len(r) -> 1 .. N]
  /\ \A i \in 1 .. Len(r) : \E k \in DOMAIN p[at[i]] : r[i] = p[at[i]][k]
  /\ \A m \in 1 .. N : \A k \in DOMAIN p[m] : \E i \in 1 .. Len(r) : at[i] = m /\ r[i] = p[m][k]
  BY <1>7 DEF FlatUpTo
<1>9. ASSUME NEW i \in 1 .. Len(r)
  PROVE ssFile[at[i]].kind = "message" /\ r[i].id = ssFile[at[i]].id
 <2>1. at[i] \in 1 .. N BY <1>8
 <2>2. PICK k \in DOMAIN p[at[i]] : r[i] = p[at[i]][k] BY <1>8
 <2> QED BY <1>2, <1>3, <1>4, <2>1, <2>2
<1>10. ASSUME NEW n \in 1 .. N, ssFile[n].kind = "message"
  PROVE \E i \in 1 .. Len(r) : r[i].id = ssFile[n].id
 <2>1. 1 \in DOMAIN p[n] /\ p[n][1].id = ssFile[n].id BY <1>2, <1>3, <1>4, <1>10
 <2>2. PICK i \in 1 .. Len(r) : r[i] = p[n][1] BY <1>8, <2>1
 <2> QED BY <2>1, <2>2
<1>11. \A i \in 1 .. Len(r) : \E n \in DOMAIN ssFile : ssFile[n].kind = "message" /\ r[i].id = ssFile[n].id
  BY <1>1, <1>8, <1>9
<1> QED BY <1>1, <1>6, <1>10, <1>11 DEF r

\* What is found is what there are entries of, explicit or made.
LEMMA FoundIs ==
  ASSUME NEW explicit \in Seq(SsLines), NEW fallback \in Seq(SsLines)
  PROVE
    LET all == SsFound(explicit, fallback)
    IN  /\ \A i \in DOMAIN all : (\E k \in DOMAIN explicit : all[i].id = explicit[k].id)
                                 \/ \E k \in DOMAIN fallback : all[i].id = fallback[k].id
        /\ \A k \in DOMAIN explicit : \E i \in DOMAIN all : all[i].id = explicit[k].id
        /\ \A k \in DOMAIN fallback : \E i \in DOMAIN all : all[i].id = fallback[k].id
<1> DEFINE Said(n) == \E i \in DOMAIN explicit : SsEquivalent(fallback[n], explicit[i])
  part(n) == IF Said(n) THEN <<>> ELSE <<fallback[n]>>
  p == [n \in DOMAIN fallback |-> part(n)]
  q == FlattenSeq(p)
  N == Len(fallback)
  all == explicit \o q
<1>1.
  /\ N \in Nat /\ DOMAIN fallback = 1 .. N /\ \A n \in 1 .. N : fallback[n] \in SsLines
  /\ Len(explicit) \in Nat /\ DOMAIN explicit = 1 .. Len(explicit)
  BY LenProperties, ElementOfSeq
<1> HIDE DEF N
<1>2. \A n \in 1 .. N : Said(n) => \E i \in DOMAIN explicit : explicit[i].id = fallback[n].id
  BY DEF SsEquivalent
<1>3. SsFound(explicit, fallback) = all BY DEF SsFound
<1> HIDE DEF Said
<1>4.
  \A n \in 1 .. N : /\ part(n) \in Seq(SsLines)
                    /\ Said(n) => DOMAIN part(n) = {}
                    /\ ~ Said(n) => DOMAIN part(n) = 1 .. 1 /\ part(n)[1] = fallback[n]
 <2> SUFFICES ASSUME NEW n \in 1 .. N
   PROVE
     /\ part(n) \in Seq(SsLines)
     /\ Said(n) => DOMAIN part(n) = {}
     /\ ~ Said(n) => DOMAIN part(n) = 1 .. 1 /\ part(n)[1] = fallback[n]
   OBVIOUS
 <2>1. CASE Said(n)
  <3>1. part(n) = <<>> BY <2>1
  <3> HIDE DEF part
  <3>2. <<>> \in Seq(SsLines) /\ DOMAIN <<>> = {} BY EmptySeq
  <3> QED BY <2>1, <3>1, <3>2
 <2>2. CASE ~ Said(n) BY <1>1, <2>2
 <2> QED BY <2>1, <2>2
<1> HIDE DEF part
<1>5. p \in Seq(Seq(SsLines)) /\ Len(p) = N /\ \A n \in 1 .. N : p[n] = part(n)
 <2>1. p \in [1 .. N -> Seq(SsLines)] /\ \A n \in 1 .. N : p[n] = part(n) BY <1>1, <1>4
 <2> HIDE DEF p
 <2> QED BY <1>1, <2>1, FromFunction
<1> HIDE DEF p
<1>6. q \in Seq(SsLines) /\ \E at : FlatUpTo(p, N, q, at) BY <1>5, FlattenPlaces
<1> HIDE DEF q
<1>7. PICK at : FlatUpTo(p, N, q, at) BY <1>6
<1>8.
  /\ at \in [1 .. Len(q) -> 1 .. N]
  /\ \A i \in 1 .. Len(q) : \E k \in DOMAIN p[at[i]] : q[i] = p[at[i]][k]
  /\ \A m \in 1 .. N : \A k \in DOMAIN p[m] : \E i \in 1 .. Len(q) : at[i] = m /\ q[i] = p[m][k]
  BY <1>7 DEF FlatUpTo
<1>9.
  /\ all \in Seq(SsLines) /\ Len(all) = Len(explicit) + Len(q)
  /\ Len(q) \in Nat /\ DOMAIN all = 1 .. Len(explicit) + Len(q)
  /\ \A i \in 1 .. Len(explicit) + Len(q) :
       all[i] = IF i <= Len(explicit) THEN explicit[i] ELSE q[i - Len(explicit)]
  BY <1>6, ConcatProperties, LenProperties
<1> HIDE DEF all
<1>10. \A k \in DOMAIN explicit : \E i \in DOMAIN all : all[i].id = explicit[k].id
 <2>1. \A k \in DOMAIN explicit : k \in DOMAIN all /\ k <= Len(explicit) BY <1>1, <1>9
 <2>2. \A k \in DOMAIN explicit : all[k] = explicit[k] BY <1>9, <2>1
 <2> QED BY <2>1, <2>2
<1>11. ASSUME NEW i \in 1 .. Len(q)
  PROVE q[i] = fallback[at[i]] /\ at[i] \in DOMAIN fallback
 <2>1. at[i] \in 1 .. N BY <1>8
 <2>2. PICK k \in DOMAIN p[at[i]] : q[i] = p[at[i]][k] BY <1>8
 <2>3. ~ Said(at[i]) /\ k = 1 BY <1>4, <1>5, <2>1, <2>2
 <2> QED BY <1>1, <1>4, <1>5, <2>1, <2>2, <2>3
<1>12. ASSUME NEW i \in DOMAIN all
  PROVE
    \/ \E k \in DOMAIN explicit : all[i].id = explicit[k].id
    \/ \E k \in DOMAIN fallback : all[i].id = fallback[k].id
 <2>1. CASE i <= Len(explicit)
  <3>1. i \in DOMAIN explicit /\ all[i] = explicit[i] BY <1>1, <1>9, <2>1
  <3> QED BY <3>1
 <2>2. CASE ~ (i <= Len(explicit))
  <3>1. i - Len(explicit) \in 1 .. Len(q) /\ all[i] = q[i - Len(explicit)] BY <1>1, <1>9, <2>2
  <3> QED BY <1>11, <3>1
 <2> QED BY <2>1, <2>2
<1>13. ASSUME NEW k \in DOMAIN fallback
  PROVE \E i \in DOMAIN all : all[i].id = fallback[k].id
 <2>0. k \in 1 .. N BY <1>1
 <2>1. CASE Said(k)
  <3>1. PICK j \in DOMAIN explicit : explicit[j].id = fallback[k].id BY <1>2, <2>0, <2>1
  <3> QED BY <1>10, <3>1
 <2>2. CASE ~ Said(k)
  <3>1. 1 \in DOMAIN p[k] /\ p[k][1] = fallback[k] BY <1>4, <1>5, <2>0, <2>2
  <3>2. PICK i \in 1 .. Len(q) : q[i] = fallback[k] BY <1>8, <2>0, <3>1
  <3>3. /\ Len(explicit) + i \in 1 .. Len(explicit) + Len(q)
        /\ ~ (Len(explicit) + i <= Len(explicit)) /\ (Len(explicit) + i) - Len(explicit) = i
    BY <1>1, <1>9
  <3>4. all[Len(explicit) + i] = q[(Len(explicit) + i) - Len(explicit)] BY <1>9, <3>3
  <3> QED BY <1>9, <3>2, <3>3, <3>4
 <2> QED BY <2>1, <2>2
<1> QED BY <1>3, <1>10, <1>12, <1>13

LEMMA AllFound == SsInv => SsAllFound
<1> SUFFICES ASSUME SsInv
  PROVE SsAllFound
  OBVIOUS
<1>1. ssFile \in Seq(SsLines) BY InvParts
<1> DEFINE explicit == SsOfKind("transcript_entry")
  fallback == SsFallback
  all == SsFound(explicit, fallback)
  N == Len(ssFile)
  left == {ssFile[n].id : n \in {m \in DOMAIN ssFile :
             SsParse(ssFile[m]) \in {"message", "transcript_entry"}}}
<1>2. DOMAIN ssFile = 1 .. N BY <1>1, LenProperties
<1>3.
  /\ explicit \in Seq(SsLines) /\ DOMAIN explicit = 1 .. Len(explicit)
  /\ \E at \in [1 .. Len(explicit) -> 1 .. N] :
       /\ \A i \in 1 .. Len(explicit) :
            explicit[i] = ssFile[at[i]] /\ SsParse(ssFile[at[i]]) = "transcript_entry"
       /\ \A n \in 1 .. N :
            SsParse(ssFile[n]) = "transcript_entry" => \E i \in 1 .. Len(explicit) : at[i] = n
  BY <1>1, ReadPlainly DEF SsRead
<1>4.
  /\ fallback \in Seq(SsLines)
  /\ \A i \in 1 .. Len(fallback) : \E n \in DOMAIN ssFile :
       ssFile[n].kind = "message" /\ fallback[i].id = ssFile[n].id
  /\ \A n \in DOMAIN ssFile : ssFile[n].kind = "message" =>
       \E i \in 1 .. Len(fallback) : fallback[i].id = ssFile[n].id
  BY <1>1, FallbackIs
<1>5. DOMAIN fallback = 1 .. Len(fallback) BY <1>4, LenProperties
<1> HIDE DEF explicit, fallback, N
<1>6.
  /\ \A i \in DOMAIN all : (\E k \in DOMAIN explicit : all[i].id = explicit[k].id)
                           \/ \E k \in DOMAIN fallback : all[i].id = fallback[k].id
  /\ \A k \in DOMAIN explicit : \E i \in DOMAIN all : all[i].id = explicit[k].id
  /\ \A k \in DOMAIN fallback : \E i \in DOMAIN all : all[i].id = fallback[k].id
  BY <1>3, <1>4, FoundIs
<1> HIDE DEF all
<1>7. ASSUME NEW i \in DOMAIN all
  PROVE all[i].id \in left
 <2>1. CASE \E k \in DOMAIN explicit : all[i].id = explicit[k].id BY <1>2, <1>3, <2>1
 <2>2. CASE \E k \in DOMAIN fallback : all[i].id = fallback[k].id
  <3>1. PICK n \in DOMAIN ssFile : ssFile[n].kind = "message" /\ all[i].id = ssFile[n].id
    BY <1>4, <1>5, <2>2
  <3> QED BY <3>1, ParseKinds
 <2> QED BY <1>6, <2>1, <2>2
<1>8. ASSUME NEW n \in DOMAIN ssFile, SsParse(ssFile[n]) \in {"message", "transcript_entry"}
  PROVE \E i \in DOMAIN all : all[i].id = ssFile[n].id
 <2>1. CASE SsParse(ssFile[n]) = "message"
  <3>1. ssFile[n].kind = "message" BY <2>1, ParseKinds
  <3>2. PICK k \in DOMAIN fallback : fallback[k].id = ssFile[n].id BY <1>4, <1>5, <3>1
  <3> QED BY <1>6, <3>2
 <2>2. CASE SsParse(ssFile[n]) = "transcript_entry"
  <3>1. PICK k \in DOMAIN explicit : explicit[k] = ssFile[n] BY <1>2, <1>3, <2>2
  <3> QED BY <1>6, <3>1
 <2> QED BY <1>8, <2>1, <2>2
<1>9. {all[i].id : i \in DOMAIN all} = left BY <1>7, <1>8
<1> QED BY <1>9 DEF SsAllFound, SsAllEntries, all, explicit, fallback

--------------------
(* The list of the runs, and what is exported *)

\* What is dated differently stands in the list once, in the order of the dates.
LEMMA ListIs ==
  ASSUME NEW top \in Nat, IsFiniteSet(SsLatest), SsLatest \subseteq SsLines,
    \A r \in SsLatest : r.at < top,
    \A r, s \in SsLatest : r.at = s.at => r = s
  PROVE
    /\ SsPlanRuns \in Seq(SsLines) /\ Len(SsPlanRuns) = Cardinality(SsLatest)
    /\ DOMAIN SsPlanRuns = 1 .. Cardinality(SsLatest)
    /\ {SsPlanRuns[k] : k \in 1 .. Cardinality(SsLatest)} = SsLatest
<1> DEFINE S == SsLatest
  D == {r.at : r \in S}
  C == Cardinality(S)
  earlier(r) == {s \in S : s.at < r.at}
  before(d) == {e \in D : e < d}
<1>1. \A r \in S : r.at \in Nat /\ r \in SsLines BY LineFields
<1>2. C \in Nat BY FS_CardinalityType
<1>3. IsFiniteSet(S) /\ \A r, s \in S : r.at = s.at => r = s OBVIOUS
<1>4. ASSUME NEW T \in SUBSET S
  PROVE
    LET E == {r.at : r \in T}
    IN  IsFiniteSet(E) /\ Cardinality(E) = Cardinality(T)
 <2> DEFINE f == [r \in T |-> r.at]
   E == {f[r] : r \in T}
 <2>1. IsFiniteSet(T) BY <1>3, FS_Subset
 <2>2. f = [r \in T |-> f[r]] /\ \A r, s \in T : f[r] = f[s] => r = s BY <1>3
 <2>3. E = {r.at : r \in T} OBVIOUS
 <2> HIDE DEF f
 <2>4. IsFiniteSet(E) /\ Cardinality(E) = Cardinality(T) BY <2>1, <2>2, ImageSize
 <2> QED BY <2>3, <2>4
<1>5. IsFiniteSet(D) /\ Cardinality(D) = C BY <1>4
<1>6. D \in SUBSET Nat /\ D \in SUBSET (0 .. top)
 <2>1. \A r \in S : r.at \in 0 .. top BY <1>1
 <2> QED BY <1>1, <2>1
<1>7. ASSUME NEW r \in S
  PROVE r.at \in D /\ Cardinality(earlier(r)) = Cardinality(before(r.at))
 <2>1. earlier(r) \in SUBSET S OBVIOUS
 <2>2. {s.at : s \in earlier(r)} = before(r.at) OBVIOUS
 <2> HIDE DEF earlier, before
 <2>3. Cardinality(before(r.at)) = Cardinality(earlier(r)) BY <1>4, <2>1, <2>2
 <2> QED BY <2>3
<1> DEFINE is(k, r) == r \in S /\ Cardinality(earlier(r)) = k - 1
<1>8. SsPlanRuns = [k \in 1 .. C |-> CHOOSE r \in S : Cardinality(earlier(r)) = k - 1]
  BY DEF SsPlanRuns
<1>9.
  /\ \A d \in D : Cardinality(before(d)) \in Nat /\ Cardinality(before(d)) < C
  /\ \A d, e \in D : d < e => Cardinality(before(d)) < Cardinality(before(e))
  BY <1>5, <1>6, RanksRise
<1>10. \A k \in Nat : k < C => \E d \in D : Cardinality(before(d)) = k BY <1>5, <1>6, NthMember
<1>11. \A d \in D : \E r \in S : r.at = d OBVIOUS
<1> HIDE DEF S, D, C, earlier, before
<1>12. ASSUME NEW k \in 1 .. C
  PROVE \E r \in S : Cardinality(earlier(r)) = k - 1
 <2>1. k - 1 \in Nat /\ k - 1 < C BY <1>2
 <2>2. PICK d \in D : Cardinality(before(d)) = k - 1 BY <1>10, <2>1
 <2>3. PICK r \in S : r.at = d BY <1>11
 <2> QED BY <1>7, <2>2, <2>3
<1>13. \A k \in 1 .. C : SsPlanRuns[k] \in S /\ Cardinality(earlier(SsPlanRuns[k])) = k - 1
  BY <1>8, <1>12
<1>14. ASSUME NEW r \in S
  PROVE \E k \in 1 .. C : SsPlanRuns[k] = r
 <2> DEFINE n == Cardinality(earlier(r))
 <2>1. n \in Nat /\ n < C BY <1>7, <1>9
 <2>2. n + 1 \in 1 .. C /\ (n + 1) - 1 = n BY <1>2, <2>1
 <2> DEFINE s == SsPlanRuns[n + 1]
 <2>3. s \in S /\ Cardinality(earlier(s)) = n
  <3> HIDE DEF n
  <3> QED BY <1>13, <2>2
 <2> HIDE DEF s
 <2>4. s.at = r.at
  <3>1. Cardinality(before(s.at)) = Cardinality(before(r.at)) /\ s.at \in D /\ r.at \in D
    BY <1>7, <2>3
  <3>2. ~ (s.at < r.at) /\ ~ (r.at < s.at) BY <1>9, <3>1
  <3>3. s.at \in Nat /\ r.at \in Nat BY <1>1, <2>3
  <3> QED BY <3>2, <3>3
 <2>5. s = r BY <1>3, <2>3, <2>4
 <2> QED BY <2>2, <2>5 DEF s
<1>15. SsPlanRuns \in [1 .. C -> SsLines] BY <1>1, <1>8, <1>13
<1>16. SsPlanRuns \in Seq(SsLines) /\ Len(SsPlanRuns) = C /\ DOMAIN SsPlanRuns = 1 .. C
  BY <1>2, <1>15, FromFunction
<1> QED BY <1>13, <1>14, <1>16 DEF S, C

\* Every run has its last record in the list, and no other.
LEMMA RunsListed ==
  ASSUME SsInv
  PROVE
    /\ SsPlanRuns \in Seq(SsLines)
    /\ {SsPlanRuns[i] : i \in DOMAIN SsPlanRuns} = {ssFile[n] : n \in SsFinal}
    /\ Len(SsPlanRuns) = Cardinality(SsFinal)
<1>1. ssFile \in Seq(SsLines) /\ SsDatesRise(ssFile, ssNow) /\ ssNow \in Nat BY InvParts
<1>2.
  /\ SsFinal \in SUBSET (1 .. Len(ssFile)) /\ IsFiniteSet(SsFinal) /\ Len(ssFile) \in Nat
  /\ \A n \in SsFinal : /\ ssFile[n] \in SsLines /\ SsIsPlan(ssFile[n]) /\ ssFile[n].at \in Nat
  /\ \A m, n \in SsFinal : m < n => ssFile[m].at < ssFile[n].at /\ ssFile[m].id # ssFile[n].id
  BY <1>1, FinalRise
<1>3. DOMAIN ssFile = 1 .. Len(ssFile) BY <1>1, LenProperties
<1>4. ASSUME NEW m \in SsFinal, NEW n \in SsFinal, ssFile[m].at = ssFile[n].at
  PROVE m = n
 <2>1. ~ (m < n) /\ ~ (n < m) BY <1>2, <1>4
 <2>2. m \in Nat /\ n \in Nat BY <1>2
 <2> QED BY <2>1, <2>2
<1> DEFINE f == [n \in SsFinal |-> ssFile[n]]
  T == {f[n] : n \in SsFinal}
<1>5. T = {ssFile[n] : n \in SsFinal} /\ SsLatest = {ssFile[n] : n \in SsFinal}
  BY <1>1, LatestAreFinal
<1>6. f = [n \in SsFinal |-> f[n]] /\ \A m, n \in SsFinal : f[m] = f[n] => m = n BY <1>4
<1>7. IsFiniteSet(T) /\ Cardinality(T) = Cardinality(SsFinal)
 <2> HIDE DEF f
 <2> QED BY <1>2, <1>6, ImageSize
<1> HIDE DEF f, T
<1>8. IsFiniteSet(SsLatest) /\ Cardinality(SsLatest) = Cardinality(SsFinal) BY <1>5, <1>7
<1>9. SsLatest \subseteq SsLines BY <1>2, <1>5
<1>10. \A r \in SsLatest : r.at < ssNow
 <2>1. \A n \in SsFinal : n \in DOMAIN ssFile BY <1>2, <1>3
 <2>2. \A n \in SsFinal : ssFile[n].at < ssNow BY <1>1, <1>2, <2>1 DEF SsDatesRise
 <2> QED BY <1>5, <2>2
<1>11. \A r, s \in SsLatest : r.at = s.at => r = s BY <1>4, <1>5
<1> DEFINE top == ssNow
<1>12. top \in Nat /\ \A r \in SsLatest : r.at < top BY <1>1, <1>10
<1> HIDE DEF top
<1>13.
  /\ SsPlanRuns \in Seq(SsLines) /\ Len(SsPlanRuns) = Cardinality(SsLatest)
  /\ DOMAIN SsPlanRuns = 1 .. Cardinality(SsLatest)
  /\ {SsPlanRuns[k] : k \in 1 .. Cardinality(SsLatest)} = SsLatest
  BY <1>8, <1>9, <1>11, <1>12, ListIs
<1> QED BY <1>5, <1>8, <1>13

LEMMA RunsTrue == SsInv => SsRunsTrue
<1> SUFFICES ASSUME SsInv
  PROVE SsRunsTrue
  OBVIOUS
<1>1. ssFile \in Seq(SsLines) /\ SsDatesRise(ssFile, ssNow) BY InvParts
<1> DEFINE plans == {n \in DOMAIN ssFile : SsParse(ssFile[n]) = "plan_run"}
  final == {n \in plans : \A m \in plans : ssFile[m].id = ssFile[n].id => m <= n}
  open == {n \in final : ssFile[n].what[2] # "completed"}
  last == CHOOSE n \in open : \A m \in open : m <= n
<1>2. plans = SsPlans BY ParseKinds DEF SsPlans, SsIsPlan
<1>3. final = SsFinal BY <1>2 DEF SsFinal
<1>4. open = SsUnfinished BY <1>3 DEF SsUnfinished
<1>5. {SsPlanRuns[i] : i \in DOMAIN SsPlanRuns} = {ssFile[n] : n \in final} BY <1>3, RunsListed
<1>6. \A n \in SsUnfinished : n \in Nat
 <2>1. SsFinal \in SUBSET (1 .. Len(ssFile)) /\ Len(ssFile) \in Nat BY <1>1, FinalRise
 <2> QED BY <2>1 DEF SsUnfinished
<1>7. ASSUME open # {}
  PROVE SsResumable = ssFile[last]
 <2>1. PICK n \in SsUnfinished : (\A m \in SsUnfinished : m <= n) /\ SsResumable = ssFile[n]
   BY <1>1, <1>4, <1>7, ResumableIs
 <2>2. last \in open /\ \A m \in open : m <= last BY <1>4, <2>1
 <2> HIDE DEF last, open
 <2>3. n <= last /\ last <= n /\ n \in Nat /\ last \in Nat BY <1>4, <1>6, <2>1, <2>2
 <2>4. n = last BY <2>3
 <2> QED BY <2>1, <2>4
<1>8. open = {} => SsResumable = SsGarbled BY <1>1, <1>4, ResumableIs
<1> QED BY <1>5, <1>7, <1>8 DEF SsRunsTrue

LEMMA FirstItems ==
  ASSUME NEW items \in Seq(SsLines)
  PROVE Len(SsFirstItems(items)) \in Nat /\ Len(items) \in Nat
<1> DEFINE L == Len(items)
  m == Min({L, SsListItems})
<1>1. L \in Nat BY LenProperties
<1>2. m \in 0 .. L
 <2>1. SsListItems \in Nat BY SsAssumption
 <2> HIDE DEF L
 <2> DEFINE x == IF L <= SsListItems THEN L ELSE SsListItems
 <2>2. x \in {L, SsListItems} /\ \A y \in {L, SsListItems} : x <= y BY <1>1, <2>1
 <2>3. m \in {L, SsListItems} /\ \A y \in {L, SsListItems} : m <= y BY <2>2 DEF Min
 <2> QED BY <1>1, <2>1, <2>3
<1>3. SsFirstItems(items) = SubSeq(items, 1, m) BY DEF SsFirstItems
<1> HIDE DEF m
<1>4. Len(SubSeq(items, 1, m)) = m
 <2>1. CASE m = 0
  <3>1. SubSeq(items, 1, m) = <<>> BY <2>1, SubSeqProperties
  <3> QED BY <2>1, <3>1, EmptySeq
 <2>2. CASE m # 0 BY <1>1, <1>2, <2>2, SubSeqProperties
 <2> QED BY <2>1, <2>2
<1> QED BY <1>1, <1>2, <1>3, <1>4

\* There is an export of whatever there is.
LEMMA ExportableIs ==
  ASSUME ssFile \in Seq(SsLines)
  PROVE
    SsExportable <=> \E n \in DOMAIN ssFile :
      ssFile[n].kind \notin {"header", "garbled", "torn", "entry"}
<1> DEFINE kinds == {"message", "plan_run", "sub_agent_run"}
<1>1. DOMAIN ssFile = 1 .. Len(ssFile) /\ \A n \in DOMAIN ssFile : ssFile[n] \in SsLines
  BY LenProperties, ElementOfSeq
<1>2. ASSUME NEW kind \in kinds
  PROVE SsOfKind(kind) # <<>> <=> \E n \in DOMAIN ssFile : SsParse(ssFile[n]) = kind
 <2> DEFINE r == SsOfKind(kind)
 <2>1. r \in Seq(SsLines) /\ \E at : SsReadAt(kind, r, at) BY OfKind DEF SsRead
 <2>2. PICK at : SsReadAt(kind, r, at) BY <2>1
 <2> HIDE DEF r
 <2>3. Len(r) \in Nat /\ (r = <<>> <=> Len(r) = 0) BY <2>1, LenProperties, EmptySeq
 <2>4. CASE r = <<>> BY <1>1, <2>2, <2>3, <2>4 DEF SsReadAt, r
 <2>5. CASE r # <<>>
  <3>1. 1 \in 1 .. Len(r) BY <2>3, <2>5
  <3>2. at[1] \in 1 .. Len(ssFile) /\ SsParse(ssFile[at[1]]) = kind BY <2>2, <3>1 DEF SsReadAt
  <3> QED BY <1>1, <2>5, <3>2 DEF r
 <2> QED BY <2>4, <2>5
<1>3.
  \A n \in DOMAIN ssFile :
    SsParse(ssFile[n]) \in kinds <=> ssFile[n].kind \notin {"header", "garbled", "torn", "entry"}
 <2> SUFFICES ASSUME NEW n \in DOMAIN ssFile
   PROVE
     SsParse(ssFile[n]) \in kinds
       <=> ssFile[n].kind \notin {"header", "garbled", "torn", "entry"}
   OBVIOUS
 <2>1.
   ssFile[n].kind \in {"header", "garbled", "torn", "message", "entry", "plan", "sub_agent_run",
                       "child_execution"}
   BY <1>1 DEF SsLines
 <2> QED BY <2>1 DEF SsParse
<1> QED BY <1>2, <1>3 DEF SsExportable

\* There are as many runs as last records.
LEMMA RunsCounted ==
  ASSUME SsInv
  PROVE
    Cardinality({ssFile[n].id : n \in {m \in DOMAIN ssFile : ssFile[m].kind = "plan"}})
      = Cardinality(SsFinal)
<1>1. ssFile \in Seq(SsLines) /\ SsDatesRise(ssFile, ssNow) BY InvParts
<1> DEFINE N == Len(ssFile)
  f == [n \in SsFinal |-> ssFile[n].id]
  T == {f[n] : n \in SsFinal}
<1>2.
  /\ SsFinal \in SUBSET (1 .. N) /\ IsFiniteSet(SsFinal) /\ N \in Nat
  /\ \A m, n \in SsFinal : m < n => ssFile[m].id # ssFile[n].id
  BY <1>1, FinalRise
<1>3. DOMAIN ssFile = 1 .. N BY <1>1, LenProperties
<1> HIDE DEF N
<1>4. ASSUME NEW m \in SsFinal, NEW n \in SsFinal, ssFile[m].id = ssFile[n].id
  PROVE m = n
 <2>1. ~ (m < n) /\ ~ (n < m) BY <1>2, <1>4
 <2>2. m \in Nat /\ n \in Nat BY <1>2
 <2> QED BY <2>1, <2>2
<1>5. f = [n \in SsFinal |-> f[n]] /\ \A m, n \in SsFinal : f[m] = f[n] => m = n BY <1>4
<1>6. Cardinality(T) = Cardinality(SsFinal)
 <2> HIDE DEF f
 <2> QED BY <1>2, <1>5, ImageSize
<1>7. ASSUME NEW n \in SsPlans
  PROVE \E m \in SsFinal : ssFile[m].id = ssFile[n].id
 <2> DEFINE same == {m \in SsPlans : ssFile[m].id = ssFile[n].id}
 <2>1. same \in SUBSET (0 .. N) /\ same # {}
  <3>1. \A m \in SsPlans : m \in 0 .. N BY <1>2, <1>3 DEF SsPlans
  <3> QED BY <3>1
 <2>2. PICK m \in same : \A k \in same : k <= m
  <3> HIDE DEF same
  <3> QED BY <1>2, <2>1, GreatestMember
 <2>3. m \in SsFinal BY <2>2 DEF SsFinal
 <2> QED BY <2>2, <2>3
<1>8. {m \in DOMAIN ssFile : ssFile[m].kind = "plan"} = SsPlans BY DEF SsPlans, SsIsPlan
<1>9. T = {ssFile[n].id : n \in SsPlans}
 <2>1. SsFinal \subseteq SsPlans BY DEF SsFinal
 <2> QED BY <1>7, <2>1
<1> QED BY <1>6, <1>8, <1>9

LEMMA ExportTrue == SsInv => SsExportTrue
<1> SUFFICES ASSUME SsInv
  PROVE SsExportTrue
  OBVIOUS
<1>1. ssFile \in Seq(SsLines) BY InvParts
<1> DEFINE document == SsDocument
  draft == SsDraft
  runs == SsPlanRuns
  children == SsOfKind("sub_agent_run")
  said == SsOfKind("message")
<1>2.
  /\ document.messages = said /\ document.runs = SsSection(runs)
  /\ document.children = SsSection(children)
  /\ draft.messages = Len(said) /\ draft.runs = Len(runs) /\ draft.listed = SsFirstItems(runs)
  /\ draft.children = Len(children)
  /\ draft.ends = IF said = <<>> THEN {} ELSE {said[1], Last(said)}
  BY DEF SsDocument, SsDraft, SsMessages
<1>3. runs \in Seq(SsLines) /\ children \in Seq(SsLines) BY <1>1, RunsListed, OfKind DEF SsRead
<1>4.
  \A items \in Seq(SsLines) :
    /\ SsSection(items).shown = SsFirstItems(items)
    /\ Len(items) = Len(SsSection(items).shown) + SsSection(items).omitted
 <2> SUFFICES ASSUME NEW items \in Seq(SsLines)
   PROVE
     /\ SsSection(items).shown = SsFirstItems(items)
     /\ Len(items) = Len(SsSection(items).shown) + SsSection(items).omitted
   OBVIOUS
 <2>1.
   /\ SsSection(items).shown = SsFirstItems(items)
   /\ SsSection(items).omitted = Len(items) - Len(SsFirstItems(items))
   BY DEF SsSection
 <2> QED BY <2>1, FirstItems
<1>5. draft.ends \subseteq {ssFile[n] : n \in DOMAIN ssFile}
 <2>1.
   /\ said \in Seq(SsLines) /\ Len(said) \in Nat
   /\ \E at \in [1 .. Len(said) -> 1 .. Len(ssFile)] : \A i \in 1 .. Len(said) : said[i] = ssFile[at[i]]
   BY <1>1, ReadPlainly DEF SsRead
 <2>2. DOMAIN ssFile = 1 .. Len(ssFile) BY <1>1, LenProperties
 <2> HIDE DEF said
 <2>3. \A i \in 1 .. Len(said) : said[i] \in {ssFile[n] : n \in DOMAIN ssFile} BY <2>1, <2>2
 <2>4. said # <<>> => 1 \in 1 .. Len(said) /\ Len(said) \in 1 .. Len(said) BY <2>1, EmptySeq
 <2> HIDE DEF document, draft
 <2> QED BY <1>2, <2>3, <2>4 DEF Last
<1>6. draft.runs = Cardinality({ssFile[n].id : n \in {m \in DOMAIN ssFile : ssFile[m].kind = "plan"}})
  BY <1>2, RunsListed, RunsCounted
<1> HIDE DEF document, draft, runs, children, said
<1>7.
  /\ draft.messages = Len(document.messages)
  /\ draft.runs = Len(document.runs.shown) + document.runs.omitted
  /\ draft.listed = document.runs.shown
  /\ draft.children = Len(document.children.shown) + document.children.omitted
  BY <1>2, <1>3, <1>4
<1>8.
  SsExportable <=> \E n \in DOMAIN ssFile :
    ssFile[n].kind \notin {"header", "garbled", "torn", "entry"}
  BY <1>1, ExportableIs
<1> QED BY <1>5, <1>6, <1>7, <1>8 DEF SsExportTrue, document, draft

\* SessionReadsTrue: what each reader of a session file finds in it is what was written.
THEOREM SessionReadsBack == SsSpec => []SessionReadsTrue
<1>1. SsInv => SessionReadsTrue
 <2> SUFFICES ASSUME SsInv
   PROVE SessionReadsTrue
   OBVIOUS
 <2>1. ssFile \in Seq(SsLines) /\ SsUnwritten(ssFile, ssWritten) BY InvParts
 <2>2. ssWritten = <<>> => ~ SsExportable BY <2>1, ExportableIs DEF SsUnwritten
 <2> QED BY <2>2, LittleLost, AllFound, RunsTrue, ExportTrue DEF SessionReadsTrue
<1> QED BY <1>1, SessionInvariant, PTL
====
