---- MODULE ProxyProofs ----
(***************************************************************************)
(* That the proxy passes on what it was given, for every bound: each       *)
(* conversation, each stream an upstream may send, in each protocol and    *)
(* through each provider, each batch and each order in which its items     *)
(* end, and the credentials of two senders.                                *)
(*                                                                         *)
(* PxInv is by parts.  Of an answer it says that what the mapper has       *)
(* given out tells, and tells well (PxSound), a ledger of texts, calls,    *)
(* ends and arguments, and that the ledger is what the parser has passed   *)
(* on of what it heard (PxPassedOn); of a batch, what its workers and its  *)
(* results have to do with each other (PxBatchInv); of the credentials,    *)
(* who has the good one (PxKeysInOrder).  A conversation needs no          *)
(* invariant: what is sent for it is a function of it, and the lemmas      *)
(* follow that function.                                                   *)
(***************************************************************************)
EXTENDS Proxy, SequenceLemmas

--------------------
(* What a message is kept of *)

\* ProvKept takes one block after the other.
LEMMA KeptSteps ==
  ASSUME NEW S, NEW s \in Seq(S), NEW types
  PROVE
    \E f \in [0 .. Len(s) -> Seq(S)] :
      /\ f[0] = <<>> /\ ProvKept(s, types) = f[Len(s)]
      /\ \A n \in 1 .. Len(s) :
           f[n] = IF s[n][1] \in types THEN Append(f[n - 1], s[n]) ELSE f[n - 1]
<1> DEFINE
  Is(f) == f = [n \in 0 .. Len(s) |->
                  IF n = 0 THEN <<>>
                  ELSE IF s[n][1] \in types THEN Append(f[n - 1], s[n]) ELSE f[n - 1]]
  step == [n \in 1 .. Len(s) |->
             [v \in Seq(S) |-> IF s[n][1] \in types THEN Append(v, s[n]) ELSE v]]
<1>1. Len(s) \in Nat /\ <<>> \in Seq(S) /\ \A n \in 1 .. Len(s) : s[n] \in S
  BY LenProperties, EmptySeq, ElementOfSeq
<1>2. step \in [1 .. Len(s) -> [Seq(S) -> Seq(S)]] BY <1>1, AppendProperties
<1>3.
  PICK g \in [0 .. Len(s) -> Seq(S)] :
    g = [n \in 0 .. Len(s) |-> IF n = 0 THEN <<>> ELSE step[n][g[n - 1]]]
 <2> DEFINE V == Seq(S)
   N == Len(s)
   base == <<>>
 <2>1. N \in Nat /\ base \in V /\ step \in [1 .. N -> [V -> V]] BY <1>1, <1>2
 <2> HIDE DEF step, V, N, base
 <2>2. \E g \in [0 .. N -> V] : IsRecursive(g, N, base, step) BY <2>1, RecursionUpTo
 <2> QED BY <2>2 DEF V, N, base, IsRecursive
<1>4. ASSUME NEW n \in 0 .. Len(s), n # 0
  PROVE
    /\ n \in 1 .. Len(s) /\ g[n - 1] \in Seq(S)
    /\ step[n][g[n - 1]] = IF s[n][1] \in types THEN Append(g[n - 1], s[n]) ELSE g[n - 1]
 <2>1. n \in 1 .. Len(s) /\ n - 1 \in 0 .. Len(s) BY <1>1, <1>4
 <2>2. g[n - 1] \in Seq(S) BY <2>1
 <2> QED BY <2>1, <2>2
<1>5. Is(g)
 <2> HIDE DEF step
 <2> QED BY <1>3, <1>4
<1> DEFINE kept == CHOOSE f : Is(f)
<1>6. ProvKept(s, types) = kept[Len(s)] BY DEF ProvKept
<1>7. Is(kept) BY <1>5
<1> HIDE DEF kept
<1>8. \A n \in 0 .. Len(s) : kept[n] = g[n]
 <2> DEFINE T == {n \in Nat : n \in 0 .. Len(s) => kept[n] = g[n]}
 <2>1. 0 \in T BY <1>1, <1>5, <1>7
 <2>2. ASSUME NEW n \in Nat, n \in T
   PROVE n + 1 \in T
  <3>1. SUFFICES ASSUME n + 1 \in 0 .. Len(s) PROVE kept[n + 1] = g[n + 1] OBVIOUS
  <3>2. n \in 0 .. Len(s) /\ (n + 1) - 1 = n /\ n + 1 # 0 BY <1>1, <3>1
  <3>3. kept[n] = g[n] BY <2>2, <3>2
  <3> DEFINE Next(v) == IF s[n + 1][1] \in types THEN Append(v, s[n + 1]) ELSE v
  <3>4. kept[n + 1] = Next(kept[n]) BY <1>7, <3>1, <3>2
  <3>5. g[n + 1] = Next(g[n]) BY <1>5, <3>1, <3>2
  <3> QED BY <3>3, <3>4, <3>5
 <2> HIDE DEF T
 <2>3. Nat \subseteq T BY <2>1, <2>2, EveryNumber
 <2> QED BY <2>3, <1>1 DEF T
<1>9.
  g[0] = <<>> /\ \A n \in 1 .. Len(s) :
    g[n] = IF s[n][1] \in types THEN Append(g[n - 1], s[n]) ELSE g[n - 1]
 <2>1. 0 \in 0 .. Len(s) /\ \A n \in 1 .. Len(s) : n \in 0 .. Len(s) /\ n # 0 BY <1>1
 <2> QED BY <1>5, <2>1
<1> QED
 <2>1. Len(s) \in 0 .. Len(s) BY <1>1
 <2>2. ProvKept(s, types) = g[Len(s)] BY <1>6, <1>8, <2>1
 <2> QED BY <1>9, <2>2

\* What ProvKept keeps: the blocks of these types, each once if they were each there once.
LEMMA KeptBlocks ==
  ASSUME NEW S, NEW s \in Seq(S), NEW types
  PROVE
    /\ ProvKept(s, types) \in Seq(S)
    /\ ToSet(ProvKept(s, types)) = {b \in ToSet(s) : b[1] \in types}
    /\ Distinct(s) => Distinct(ProvKept(s, types))
<1>1.
  /\ Len(s) \in Nat
  /\ \A i \in 1 .. Len(s) : s[i] \in S
  /\ ToSet(s) = {s[i] : i \in 1 .. Len(s)}
  BY LenProperties, ElementOfSeq, ToSetMembers
<1>2.
  PICK f \in [0 .. Len(s) -> Seq(S)] :
    /\ f[0] = <<>> /\ ProvKept(s, types) = f[Len(s)]
    /\ \A n \in 1 .. Len(s) :
         f[n] = IF s[n][1] \in types THEN Append(f[n - 1], s[n]) ELSE f[n - 1]
  BY KeptSteps
<1> DEFINE Kept(n) == {s[i] : i \in {j \in 1 .. n : s[j][1] \in types}}
  T == {n \in Nat : n \in 0 .. Len(s) =>
                      /\ ToSet(f[n]) = Kept(n)
                      /\ Distinct(s) => Distinct(f[n])}
<1>3. 0 \in T
 <2>1. Kept(0) = {} OBVIOUS
 <2> QED BY <1>2, <2>1, NoMembers
<1>4. ASSUME NEW n \in Nat, n \in T
  PROVE n + 1 \in T
 <2>1. SUFFICES ASSUME n + 1 \in 0 .. Len(s)
   PROVE
     /\ ToSet(f[n + 1]) = Kept(n + 1)
     /\ Distinct(s) => Distinct(f[n + 1])
   OBVIOUS
 <2>2.
   /\ n \in 0 .. Len(s) /\ n + 1 \in 1 .. Len(s) /\ (n + 1) - 1 = n
   /\ f[n] \in Seq(S) /\ s[n + 1] \in S
   BY <1>1, <2>1
 <2>3. ToSet(f[n]) = Kept(n) /\ (Distinct(s) => Distinct(f[n])) BY <1>4, <2>2
 <2>4. f[n + 1] = IF s[n + 1][1] \in types THEN Append(f[n], s[n + 1]) ELSE f[n] BY <1>2, <2>2
 <2>5. CASE s[n + 1][1] \notin types
  <3>1. Kept(n + 1) = Kept(n) BY <2>2, <2>5
  <3> QED BY <2>3, <2>4, <2>5, <3>1
 <2>6. CASE s[n + 1][1] \in types
  <3>1. Kept(n + 1) = Kept(n) \cup {s[n + 1]}
   <4>1. \A j \in 1 .. n + 1 : j \in 1 .. n \/ j = n + 1 OBVIOUS
   <4>2. 1 .. n \subseteq 1 .. n + 1 /\ n + 1 \in 1 .. n + 1 OBVIOUS
   <4> QED BY <2>6, <4>1, <4>2
  <3>2. Distinct(s) => s[n + 1] \notin Kept(n)
   <4>1. \A i \in 1 .. n : i \in 1 .. Len(s) /\ i # n + 1 BY <2>2
   <4> QED BY <2>2, <4>1 DEF Distinct
  <3> HIDE DEF Kept
  <3>3. /\ ToSet(Append(f[n], s[n + 1])) = ToSet(f[n]) \cup {s[n + 1]}
        /\ (Distinct(f[n]) /\ s[n + 1] \notin ToSet(f[n])) => Distinct(Append(f[n], s[n + 1]))
    BY <2>2, AppendMember
  <3> QED BY <2>3, <2>4, <2>6, <3>1, <3>2, <3>3
 <2> QED BY <2>5, <2>6
<1> HIDE DEF T
<1>5. Nat \subseteq T BY <1>3, <1>4, EveryNumber
<1>6.
  /\ ToSet(f[Len(s)]) = Kept(Len(s)) /\ f[Len(s)] \in Seq(S)
  /\ Distinct(s) => Distinct(f[Len(s)])
 <2>1. Len(s) \in T /\ Len(s) \in 0 .. Len(s) BY <1>1, <1>5
 <2>2. f[Len(s)] \in Seq(S) BY <2>1
 <2> HIDE DEF Kept
 <2> QED BY <2>1, <2>2 DEF T
<1>7. Kept(Len(s)) = {b \in ToSet(s) : b[1] \in types} BY <1>1
<1> QED BY <1>2, <1>6, <1>7

--------------------
(* A conversation on its way to the provider *)

PxMessages == [role : {"user", "assistant"}, blocks : Seq(PxBlocks)]

\* A message as the mappers make them: each block once, and of the role of the message.
PxSorted(message) ==
  /\ message \in PxMessages /\ Distinct(message.blocks)
  /\ \A block \in ToSet(message.blocks) : PxRole(block) = message.role

\* Each provider passes on all of a message, and each of its blocks once.
LEMMA ItemsOfMessage ==
  ASSUME NEW kind \in ProvKinds, NEW message, PxSorted(message)
  PROVE
    /\ ProvItems(kind, message) \in Seq(PxBlocks) /\ Distinct(ProvItems(kind, message))
    /\ ToSet(ProvItems(kind, message)) = ToSet(message.blocks)
<1> DEFINE b == message.blocks
  Of(types) == ProvKept(b, types)
<1>1.
  b \in Seq(PxBlocks) /\ Distinct(b) /\ message.role \in {"user", "assistant"}
  /\ \A block \in ToSet(b) : PxRole(block) = message.role
  BY DEF PxSorted, PxMessages
<1>2. \A block \in ToSet(b) : block \in PxBlocks /\ block[1] \in {"text", "call", "result"}
  BY <1>1, ToSetMembers DEF PxBlocks, ProvSpoken
<1>3. ASSUME NEW types
  PROVE
    /\ Of(types) \in Seq(PxBlocks) /\ Distinct(Of(types))
    /\ ToSet(Of(types)) = {block \in ToSet(b) : block[1] \in types}
  BY <1>1, KeptBlocks
<1> DEFINE Fits(r) == r \in Seq(PxBlocks) /\ Distinct(r) /\ ToSet(r) = ToSet(b)
<1>4. Fits(Of(ProvSpoken))
 <2>1. {block \in ToSet(b) : block[1] \in ProvSpoken} = ToSet(b) BY <1>2 DEF ProvSpoken
 <2> QED BY <1>3, <2>1
<1>5. ASSUME NEW p, NEW q, p \cap q = {}, \A block \in ToSet(b) : block[1] \in p \cup q
  PROVE Fits(Of(p) \o Of(q))
 <2>1. ToSet(Of(p)) \cap ToSet(Of(q)) = {} /\ ToSet(Of(p)) \cup ToSet(Of(q)) = ToSet(b)
   BY <1>3, <1>5
 <2>2.
   /\ Of(p) \in Seq(PxBlocks) /\ Of(q) \in Seq(PxBlocks)
   /\ Distinct(Of(p)) /\ Distinct(Of(q))
   BY <1>3
 <2>3. ASSUME NEW u \in Seq(PxBlocks), NEW v \in Seq(PxBlocks), Distinct(u), Distinct(v),
     ToSet(u) \cap ToSet(v) = {}, ToSet(u) \cup ToSet(v) = ToSet(b)
   PROVE Fits(u \o v)
  <3>1. /\ u \o v \in Seq(PxBlocks) /\ ToSet(u \o v) = ToSet(u) \cup ToSet(v)
        /\ Distinct(u \o v)
    BY ONLY <2>3, u \in Seq(PxBlocks), v \in Seq(PxBlocks), ConcatMembers
  <3> QED BY <2>3, <3>1
 <2> HIDE DEF Of, Fits
 <2> QED BY <2>1, <2>2, <2>3
<1>6. CASE message.role = "user"
 <2>1. \A block \in ToSet(b) : block[1] # "call" BY <1>1, <1>6 DEF PxRole
 <2>2. Fits(Of({"result"}) \o Of({"text"}))
  <3>1. \A block \in ToSet(b) : block[1] \in {"result"} \cup {"text"} BY <1>2, <2>1
  <3> QED BY <1>5, <3>1
 <2>3.
   /\ ProvItems("codex", message) = Of({"result"}) \o Of({"text"})
   /\ ProvItems("openai", message) = Of(ProvSpoken)
   /\ ProvItems("compatible", message) = Of(ProvSpoken)
   /\ ProvItems("gemini", message) = Of(ProvSpoken) /\ ProvItems("anthropic", message) = b
   /\ ProvItems("cli", message) = b
   BY <1>6 DEF ProvItems, ProvCodexItems, ProvOpenAIItems, ProvGeminiParts
 <2> HIDE DEF Of
 <2> QED BY <1>1, <1>4, <2>2, <2>3 DEF ProvKinds
<1>7. CASE message.role = "assistant"
 <2>1. \A block \in ToSet(b) : block[1] # "result" BY <1>1, <1>7 DEF PxRole
 <2>2. Fits(Of({"call"}) \o Of({"text"})) /\ Fits(Of({"text"}) \o Of({"call"}))
  <3>1. \A block \in ToSet(b) :
          block[1] \in {"call"} \cup {"text"} /\ block[1] \in {"text"} \cup {"call"}
    BY <1>2, <2>1
  <3> QED BY <1>5, <3>1
 <2>3.
   /\ ProvItems("codex", message) = Of({"call"}) \o Of({"text"})
   /\ ProvItems("openai", message) = Of({"text"}) \o Of({"call"})
   /\ ProvItems("compatible", message) = Of({"text"}) \o Of({"call"})
   /\ ProvItems("gemini", message) = Of(ProvSpoken) /\ ProvItems("anthropic", message) = b
   /\ ProvItems("cli", message) = b
   BY <1>7 DEF ProvItems, ProvCodexItems, ProvOpenAIItems, ProvGeminiParts
 <2> HIDE DEF Of
 <2> QED BY <1>1, <1>4, <2>2, <2>3 DEF ProvKinds
<1> QED BY <1>1, <1>6, <1>7

\* ProvConvert takes one message after the other.
ConvertsBy(f, kind, ms, B) ==
  /\ f \in [0 .. Len(ms) -> Seq(B)] /\ f[0] = <<>> /\ ProvConvert(kind, ms) = f[Len(ms)]
  /\ \A n \in 1 .. Len(ms) : f[n] = f[n - 1] \o ProvItems(kind, ms[n])

\* ProvConvert takes one message after the other.
LEMMA ConvertSteps ==
  ASSUME NEW kind, NEW S, NEW ms \in Seq(S), NEW B,
    \A n \in 1 .. Len(ms) : ProvItems(kind, ms[n]) \in Seq(B)
  PROVE \E f : ConvertsBy(f, kind, ms, B)
<1> DEFINE
  Is(f) == f = [n \in 0 .. Len(ms) |->
                  IF n = 0 THEN <<>> ELSE f[n - 1] \o ProvItems(kind, ms[n])]
  step == [n \in 1 .. Len(ms) |-> [v \in Seq(B) |-> v \o ProvItems(kind, ms[n])]]
<1>1. Len(ms) \in Nat /\ <<>> \in Seq(B) /\ \A n \in 1 .. Len(ms) : ms[n] \in S
  BY LenProperties, EmptySeq, ElementOfSeq
<1>2. step \in [1 .. Len(ms) -> [Seq(B) -> Seq(B)]]
 <2>1. ASSUME NEW n \in 1 .. Len(ms), NEW v \in Seq(B)
   PROVE v \o ProvItems(kind, ms[n]) \in Seq(B)
   BY <2>1, ConcatProperties
 <2> QED BY <2>1
<1>3.
  PICK g \in [0 .. Len(ms) -> Seq(B)] :
    g = [n \in 0 .. Len(ms) |-> IF n = 0 THEN <<>> ELSE step[n][g[n - 1]]]
 <2> DEFINE V == Seq(B)
   N == Len(ms)
   base == <<>>
 <2>1. N \in Nat /\ base \in V /\ step \in [1 .. N -> [V -> V]] BY <1>1, <1>2
 <2> HIDE DEF step, V, N, base
 <2>2. \E g \in [0 .. N -> V] : IsRecursive(g, N, base, step) BY <2>1, RecursionUpTo
 <2> QED BY <2>2 DEF V, N, base, IsRecursive
<1>4. ASSUME NEW n \in 0 .. Len(ms), n # 0
  PROVE
    /\ n \in 1 .. Len(ms) /\ g[n - 1] \in Seq(B)
    /\ step[n][g[n - 1]] = g[n - 1] \o ProvItems(kind, ms[n])
 <2>1. n \in 1 .. Len(ms) /\ n - 1 \in 0 .. Len(ms) BY <1>1, <1>4
 <2>2. g[n - 1] \in Seq(B) BY <2>1
 <2> QED BY <2>1, <2>2
<1>5. Is(g)
 <2> HIDE DEF step
 <2> QED BY <1>3, <1>4
<1> DEFINE whole == CHOOSE f : Is(f)
<1>6. ProvConvert(kind, ms) = whole[Len(ms)] BY DEF ProvConvert
<1>7. Is(whole) BY <1>5
<1> HIDE DEF whole
<1>8. \A n \in 0 .. Len(ms) : whole[n] = g[n]
 <2> DEFINE T == {n \in Nat : n \in 0 .. Len(ms) => whole[n] = g[n]}
 <2>1. 0 \in T BY <1>1, <1>5, <1>7
 <2>2. ASSUME NEW n \in Nat, n \in T
   PROVE n + 1 \in T
  <3>1. SUFFICES ASSUME n + 1 \in 0 .. Len(ms) PROVE whole[n + 1] = g[n + 1] OBVIOUS
  <3>2. n \in 0 .. Len(ms) /\ (n + 1) - 1 = n /\ n + 1 # 0 BY <1>1, <3>1
  <3>3. whole[n] = g[n] BY <2>2, <3>2
  <3> DEFINE Next(v) == v \o ProvItems(kind, ms[n + 1])
  <3>4. whole[n + 1] = Next(whole[n]) BY <1>7, <3>1, <3>2
  <3>5. g[n + 1] = Next(g[n]) BY <1>5, <3>1, <3>2
  <3> QED BY <3>3, <3>4, <3>5
 <2> HIDE DEF T
 <2>3. Nat \subseteq T BY <2>1, <2>2, EveryNumber
 <2> QED BY <2>3, <1>1 DEF T
<1>9. g[0] = <<>> /\ \A n \in 1 .. Len(ms) : g[n] = g[n - 1] \o ProvItems(kind, ms[n])
 <2>1. 0 \in 0 .. Len(ms) /\ \A n \in 1 .. Len(ms) : n \in 0 .. Len(ms) /\ n # 0 BY <1>1
 <2> QED BY <1>5, <2>1
<1> QED
 <2>1. Len(ms) \in 0 .. Len(ms) BY <1>1
 <2>2. ProvConvert(kind, ms) = g[Len(ms)] BY <1>6, <1>8, <2>1
 <2>3. g \in [0 .. Len(ms) -> Seq(B)] OBVIOUS
 <2> HIDE DEF step
 <2> QED BY <1>9, <2>2, <2>3 DEF ConvertsBy

\* A block joins the last message or makes one of its own.
LEMMA TakeTyped ==
  ASSUME NEW protocol, NEW ms \in Seq(PxMessages), NEW block \in PxBlocks
  PROVE
    LET r == PxTake(protocol, ms, block)
        L == Len(ms)
    IN  /\ r \in Seq(PxMessages)
        /\ \E p \in {L, L + 1} :
             /\ Len(r) = p
             /\ \A k \in 1 .. p : k # p => k \in 1 .. L /\ r[k] = ms[k]
             /\ \/ p = L + 1 /\ r[p] = [role |-> PxRole(block), blocks |-> <<block>>]
                \/ /\ p = L /\ L \in 1 .. L /\ ms[L].role = PxRole(block)
                   /\ r[p] = [role |-> PxRole(block), blocks |-> Append(ms[L].blocks, block)]
<1> DEFINE r == PxTake(protocol, ms, block)
  L == Len(ms)
  new == [role |-> PxRole(block), blocks |-> <<block>>]
<1>1. L \in Nat /\ (ms # <<>> => L \in 1 .. L) /\ \A k \in 1 .. L : ms[k] \in PxMessages
  BY LenProperties, EmptySeq, ElementOfSeq
<1>2. PxRole(block) \in {"user", "assistant"} /\ new \in PxMessages BY DEF PxRole, PxMessages
<1>3.
  /\ Append(ms, new) \in Seq(PxMessages) /\ Len(Append(ms, new)) = L + 1
  /\ \A k \in 1 .. L + 1 : Append(ms, new)[k] = IF k <= L THEN ms[k] ELSE new
  BY <1>2, AppendNew
<1>4. CASE r = Append(ms, new)
 <2>1.
   /\ Len(r) = L + 1 /\ r[L + 1] = new
   /\ \A k \in 1 .. L + 1 : k # L + 1 => k \in 1 .. L /\ r[k] = ms[k]
   BY <1>1, <1>3, <1>4
 <2> QED BY <1>3, <1>4, <2>1
<1>5. CASE r # Append(ms, new)
 <2>1. ms # <<>> /\ Last(ms).role = PxRole(block) /\ r = PxAppendTo(ms, block)
   BY <1>5 DEF PxTake
 <2>2. ms[L].role = PxRole(block) /\ L \in 1 .. L /\ r = PxAppendTo(ms, block)
   BY <1>1, <2>1 DEF Last
 <2>3.
   /\ ms[L] \in PxMessages
   /\ r = [ms EXCEPT ![L] = [ms[L] EXCEPT !.blocks = Append(ms[L].blocks, block)]]
   BY <1>1, <2>2 DEF PxAppendTo
 <2> DEFINE m == [ms[L] EXCEPT !.blocks = Append(ms[L].blocks, block)]
 <2>4. m = [role |-> PxRole(block), blocks |-> Append(ms[L].blocks, block)]
  <3>1. ASSUME NEW x \in PxMessages, NEW b
    PROVE [x EXCEPT !.blocks = b] = [role |-> x.role, blocks |-> b]
    BY <3>1 DEF PxMessages
  <3> QED BY <2>2, <2>3, <3>1
 <2>5. ms[L].blocks \in Seq(PxBlocks) BY <2>3 DEF PxMessages
 <2>6. m \in PxMessages BY <1>2, <2>4, <2>5, AppendProperties DEF PxMessages
 <2> HIDE DEF m
 <2>7.
   /\ r \in Seq(PxMessages) /\ Len(r) = L
   /\ \A k \in 1 .. L : r[k] = IF k = L THEN m ELSE ms[k]
   BY <1>1, <2>2, <2>3, <2>6, ExceptSeq DEF m
 <2>8.
   /\ r \in Seq(PxMessages) /\ Len(r) = L
   /\ \A k \in 1 .. L : k # L => r[k] = ms[k]
   /\ r[L] = [role |-> PxRole(block), blocks |-> Append(ms[L].blocks, block)]
  <3> HIDE DEF r
  <3> QED BY <2>2, <2>4, <2>7
 <2> QED BY <1>1, <1>5, <2>2, <2>8
<1> QED BY <1>4, <1>5

\* PxToChatRequest takes one block after the other.
TakesBy(f, protocol, c) ==
  /\ f \in [0 .. Len(c) -> Seq(PxMessages)]
  /\ f[0] = <<>> /\ PxToChatRequest(protocol, c) = f[Len(c)]
  /\ \A n \in 1 .. Len(c) : f[n] = PxTake(protocol, f[n - 1], c[n])

\* PxToChatRequest takes one block after the other.
LEMMA TakeSteps ==
  ASSUME NEW protocol, NEW c \in Seq(PxBlocks)
  PROVE \E f : TakesBy(f, protocol, c)
<1> DEFINE
  Is(f) == f = [n \in 0 .. Len(c) |->
                  IF n = 0 THEN <<>> ELSE PxTake(protocol, f[n - 1], c[n])]
  step == [n \in 1 .. Len(c) |-> [v \in Seq(PxMessages) |-> PxTake(protocol, v, c[n])]]
<1>1. Len(c) \in Nat /\ <<>> \in Seq(PxMessages) /\ \A n \in 1 .. Len(c) : c[n] \in PxBlocks
  BY LenProperties, EmptySeq, ElementOfSeq
<1>2. step \in [1 .. Len(c) -> [Seq(PxMessages) -> Seq(PxMessages)]]
 <2>1. ASSUME NEW n \in 1 .. Len(c), NEW v \in Seq(PxMessages)
   PROVE PxTake(protocol, v, c[n]) \in Seq(PxMessages)
   BY <1>1, <2>1, TakeTyped
 <2> QED BY <2>1
<1>3.
  PICK g \in [0 .. Len(c) -> Seq(PxMessages)] :
    g = [n \in 0 .. Len(c) |-> IF n = 0 THEN <<>> ELSE step[n][g[n - 1]]]
 <2> DEFINE V == Seq(PxMessages)
   N == Len(c)
   base == <<>>
 <2>1. N \in Nat /\ base \in V /\ step \in [1 .. N -> [V -> V]] BY <1>1, <1>2
 <2> HIDE DEF step, V, N, base
 <2>2. \E g \in [0 .. N -> V] : IsRecursive(g, N, base, step) BY <2>1, RecursionUpTo
 <2> QED BY <2>2 DEF V, N, base, IsRecursive
<1>4. ASSUME NEW n \in 0 .. Len(c), n # 0
  PROVE
    /\ n \in 1 .. Len(c) /\ g[n - 1] \in Seq(PxMessages)
    /\ step[n][g[n - 1]] = PxTake(protocol, g[n - 1], c[n])
 <2>1. n \in 1 .. Len(c) /\ n - 1 \in 0 .. Len(c) BY <1>1, <1>4
 <2>2. g[n - 1] \in Seq(PxMessages) BY <2>1
 <2> QED BY <2>1, <2>2
<1>5. Is(g)
 <2> HIDE DEF step
 <2> QED BY <1>3, <1>4
<1> DEFINE whole == CHOOSE f : Is(f)
<1>6. PxToChatRequest(protocol, c) = whole[Len(c)] BY DEF PxToChatRequest
<1>7. Is(whole) BY <1>5
<1> HIDE DEF whole
<1>8. \A n \in 0 .. Len(c) : whole[n] = g[n]
 <2> DEFINE T == {n \in Nat : n \in 0 .. Len(c) => whole[n] = g[n]}
 <2>1. 0 \in T BY <1>1, <1>5, <1>7
 <2>2. ASSUME NEW n \in Nat, n \in T
   PROVE n + 1 \in T
  <3>1. SUFFICES ASSUME n + 1 \in 0 .. Len(c) PROVE whole[n + 1] = g[n + 1] OBVIOUS
  <3>2. n \in 0 .. Len(c) /\ (n + 1) - 1 = n /\ n + 1 # 0 BY <1>1, <3>1
  <3>3. whole[n] = g[n] BY <2>2, <3>2
  <3> DEFINE Next(v) == PxTake(protocol, v, c[n + 1])
  <3>4. whole[n + 1] = Next(whole[n]) BY <1>7, <3>1, <3>2
  <3>5. g[n + 1] = Next(g[n]) BY <1>5, <3>1, <3>2
  <3> QED BY <3>3, <3>4, <3>5
 <2> HIDE DEF T
 <2>3. Nat \subseteq T BY <2>1, <2>2, EveryNumber
 <2> QED BY <2>3, <1>1 DEF T
<1>9. g[0] = <<>> /\ \A n \in 1 .. Len(c) : g[n] = PxTake(protocol, g[n - 1], c[n])
 <2>1. 0 \in 0 .. Len(c) /\ \A n \in 1 .. Len(c) : n \in 0 .. Len(c) /\ n # 0 BY <1>1
 <2> QED BY <1>5, <2>1
<1> QED
 <2>1. Len(c) \in 0 .. Len(c) BY <1>1
 <2>2. PxToChatRequest(protocol, c) = g[Len(c)] BY <1>6, <1>8, <2>1
 <2>3. g \in [0 .. Len(c) -> Seq(PxMessages)] OBVIOUS
 <2> HIDE DEF step
 <2> QED BY <1>9, <2>2, <2>3 DEF TakesBy

\* The messages so far have the blocks placed, each in one message of its role, and each
\* result in a message after that of its call.
PxPlaced(ms, placed) ==
  /\ ms \in Seq(PxMessages)
  /\ \A k \in 1 .. Len(ms) : PxSorted(ms[k]) /\ ms[k].blocks # <<>>
  /\ \A k, l \in 1 .. Len(ms) : \A block \in ToSet(ms[k].blocks) :
       block \in ToSet(ms[l].blocks) => k = l
  /\ \A block : block \in placed <=> \E k \in 1 .. Len(ms) : block \in ToSet(ms[k].blocks)
  /\ \A k, l \in 1 .. Len(ms) : \A n :
       (<<"call", n>> \in ToSet(ms[k].blocks) /\ <<"result", n>> \in ToSet(ms[l].blocks)) => k < l

\* A block that comes after what it needs is placed like the others.
LEMMA TakePlaces ==
  ASSUME NEW protocol, NEW ms, NEW placed, PxPlaced(ms, placed),
    NEW block \in PxBlocks, block \notin placed,
    block[1] = "result" => <<"call", block[2]>> \in placed,
    block[1] = "call" => <<"result", block[2]>> \notin placed
  PROVE PxPlaced(PxTake(protocol, ms, block), placed \cup {block})
<1> DEFINE r == PxTake(protocol, ms, block)
  L == Len(ms)
  Was(k) == IF k \in 1 .. L THEN ToSet(ms[k].blocks) ELSE {}
  Now(k) == ToSet(r[k].blocks)
<1>1.
  /\ ms \in Seq(PxMessages) /\ L \in Nat
  /\ \A k \in 1 .. L : ms[k] \in PxMessages /\ PxSorted(ms[k]) /\ ms[k].blocks # <<>>
  BY LenProperties, ElementOfSeq DEF PxPlaced
<1>2.
  PICK p : /\ r \in Seq(PxMessages) /\ Len(r) = p
           /\ p = L + 1 \/ (p = L /\ L \in 1 .. L)
           /\ \A k \in 1 .. p : k # p => k \in 1 .. L /\ r[k] = ms[k]
           /\ \/ p = L + 1 /\ r[p] = [role |-> PxRole(block), blocks |-> <<block>>]
              \/ /\ p = L /\ L \in 1 .. L /\ ms[L].role = PxRole(block)
                 /\ r[p] = [role |-> PxRole(block), blocks |-> Append(ms[L].blocks, block)]
 <2>1.
   LET rr == PxTake(protocol, ms, block)
       LL == Len(ms)
   IN  /\ rr \in Seq(PxMessages)
       /\ \E p \in {LL, LL + 1} :
            /\ Len(rr) = p
            /\ \A k \in 1 .. p : k # p => k \in 1 .. LL /\ rr[k] = ms[k]
            /\ \/ p = LL + 1 /\ rr[p] = [role |-> PxRole(block), blocks |-> <<block>>]
               \/ /\ p = LL /\ LL \in 1 .. LL /\ ms[LL].role = PxRole(block)
                  /\ rr[p] = [role |-> PxRole(block), blocks |-> Append(ms[LL].blocks, block)]
  <3>1. ms \in Seq(PxMessages) BY <1>1
  <3> QED BY ONLY <3>1, block \in PxBlocks, TakeTyped
 <2> QED BY <2>1
<1> HIDE DEF r
<1>3. \A k \in 1 .. L : \A b : b \in ToSet(ms[k].blocks) => b \in placed BY DEF PxPlaced
<1>4. \A k : block \notin Was(k) BY <1>3
<1>5. p \in 1 .. p /\ p \in Nat /\ \A k \in 1 .. L : k \in 1 .. p BY <1>1, <1>2
<1>6. /\ PxSorted(r[p]) /\ r[p].blocks # <<>> /\ Now(p) = Was(p) \cup {block}
 <2>1. CASE p = L + 1 /\ r[p] = [role |-> PxRole(block), blocks |-> <<block>>]
  <3>1. r[p].blocks = <<block>> /\ r[p].role = PxRole(block) BY <2>1
  <3>2. /\ <<block>> \in Seq(PxBlocks) /\ Len(<<block>>) = 1 /\ <<block>>[1] = block
        /\ <<block>> # <<>> /\ Distinct(<<block>>)
    BY DEF Distinct
  <3>3. ToSet(<<block>>) = {block}
   <4>1. ToSet(<<block>>) = {<<block>>[i] : i \in 1 .. 1} BY <3>2, ToSetMembers
   <4> QED BY <4>1
  <3>4. Was(p) = {} BY <1>1, <2>1
  <3>5. r[p] \in PxMessages BY <1>2, <1>5, ElementOfSeq
  <3> QED BY <3>1, <3>2, <3>3, <3>4, <3>5 DEF PxSorted
 <2>2.
   CASE /\ p = L /\ L \in 1 .. L /\ ms[L].role = PxRole(block)
        /\ r[p] = [role |-> PxRole(block), blocks |-> Append(ms[L].blocks, block)]
  <3> DEFINE b == ms[L].blocks
  <3>1. r[p].blocks = Append(b, block) /\ r[p].role = PxRole(block) BY <2>2
  <3>2. /\ b \in Seq(PxBlocks) /\ Distinct(b)
        /\ \A x \in ToSet(b) : PxRole(x) = PxRole(block)
    BY <1>1, <2>2 DEF PxSorted, PxMessages
  <3>3. block \notin ToSet(b) /\ Was(p) = ToSet(b) BY <1>4, <2>2
  <3> HIDE DEF b
  <3>4. /\ Append(b, block) \in Seq(PxBlocks) /\ Len(Append(b, block)) = Len(b) + 1
        /\ ToSet(Append(b, block)) = ToSet(b) \cup {block} /\ Distinct(Append(b, block))
    BY <3>2, <3>3, AppendMember
  <3>5. Append(b, block) # <<>> BY <3>2, <3>4, LenProperties, EmptySeq
  <3>6. r[p] \in PxMessages BY <1>2, <1>5, ElementOfSeq
  <3> QED BY <3>1, <3>2, <3>3, <3>4, <3>5, <3>6 DEF PxSorted
 <2> QED BY <1>2, <2>1, <2>2
<1>7. \A k \in 1 .. p : k # p => k \in 1 .. L /\ Now(k) = Was(k) BY <1>2
<1>8. \A k \in 1 .. p : Now(k) = IF k = p THEN Was(k) \cup {block} ELSE Was(k) BY <1>6, <1>7
<1>9. \A k \in 1 .. p : PxSorted(r[k]) /\ r[k].blocks # <<>> BY <1>1, <1>2, <1>6
<1>10.
  /\ \A k, l : \A b \in Was(k) : b \in Was(l) => k = l
  /\ \A b : b \in placed <=> \E k \in 1 .. L : b \in Was(k)
  /\ \A k, l : \A n : (<<"call", n>> \in Was(k) /\ <<"result", n>> \in Was(l)) => k < l
  /\ \A k : \A b : b \in Was(k) => b \in placed /\ k \in 1 .. L
  BY <1>3 DEF PxPlaced
<1>11. \A k \in 1 .. L : \A b : (b \in Was(k) /\ PxRole(b) # PxRole(block)) => k # p
 <2> SUFFICES ASSUME NEW b, p \in 1 .. L, b \in Was(p) PROVE PxRole(b) = PxRole(block) OBVIOUS
 <2>1. b \in Now(p) /\ r[p].role = PxRole(block) BY <1>2, <1>6
 <2> QED BY <1>6, <2>1 DEF PxSorted
<1> HIDE DEF Was, Now
<1>12. ASSUME NEW k \in 1 .. p, NEW l \in 1 .. p, NEW b \in Now(k), b \in Now(l)
  PROVE k = l
  BY <1>4, <1>8, <1>10, <1>12
<1>13. ASSUME NEW b
  PROVE b \in placed \cup {block} <=> \E k \in 1 .. p : b \in Now(k)
  BY <1>5, <1>8, <1>10
<1>14. ASSUME NEW k \in 1 .. p, NEW l \in 1 .. p, NEW n,
    <<"call", n>> \in Now(k), <<"result", n>> \in Now(l)
  PROVE k < l
 <2>1. CASE block = <<"call", n>>
  <3>1. block[1] = "call" /\ block[2] = n /\ block # <<"result", n>> BY <2>1
  <3>2. <<"result", n>> \in Was(l) BY <1>8, <1>14, <3>1
  <3> QED BY <1>10, <3>1, <3>2
 <2>2. CASE block = <<"result", n>>
  <3>1. block[1] = "result" /\ block[2] = n /\ block # <<"call", n>> BY <2>2
  <3>2. <<"call", n>> \in Was(k) /\ k \in 1 .. L BY <1>8, <1>10, <1>14, <3>1
  <3>3. PxRole(<<"call", n>>) = "assistant" /\ PxRole(block) = "user" BY <3>1 DEF PxRole
  <3>4. k # p BY <1>11, <3>2, <3>3
  <3>5. CASE l = p BY <1>5, <3>4, <3>5
  <3>6. CASE l # p
   <4>1. <<"result", n>> \in Was(l) BY <1>8, <1>14, <3>6
   <4> QED BY <1>10, <3>2, <4>1
  <3> QED BY <3>5, <3>6
 <2>3. CASE block # <<"call", n>> /\ block # <<"result", n>>
  <3>1. <<"call", n>> \in Was(k) /\ <<"result", n>> \in Was(l) BY <1>8, <1>14, <2>3
  <3> QED BY <1>10, <3>1
 <2> QED BY <2>1, <2>2, <2>3
<1> QED BY <1>2, <1>9, <1>12, <1>13, <1>14 DEF PxPlaced, Now, r

\* A conversation has no block twice, and every result after its call.
LEMMA ConversationFacts ==
  ASSUME NEW c \in PxConversations
  PROVE
    /\ c \in Seq(PxBlocks) /\ Distinct(c)
    /\ \A i \in 1 .. Len(c) :
         c[i][1] = "result" => \E j \in 1 .. i - 1 : c[j] = <<"call", c[i][2]>>
<1>1. PICK n \in 0 .. PxMaxBlocks : c \in [1 .. n -> PxBlocks] BY DEF PxConversations
<1>2. n \in Nat BY PxBoundsAssumption
<1>3. c \in Seq(PxBlocks) /\ Len(c) = n /\ DOMAIN c = 1 .. n BY <1>1, <1>2, FromFunction
<1>4.
  /\ \A i, j \in DOMAIN c : i # j => c[i] # c[j]
  /\ \A i \in DOMAIN c : c[i][1] = "result" => \E j \in 1 .. i - 1 : c[j] = <<"call", c[i][2]>>
  BY DEF PxConversations
<1> QED BY <1>3, <1>4 DEF Distinct

\* The mappers place every block of a conversation in the messages of their request.
LEMMA RequestPlaced ==
  ASSUME NEW protocol, NEW c \in PxConversations
  PROVE PxPlaced(PxToChatRequest(protocol, c), ToSet(c))
<1>1.
  /\ c \in Seq(PxBlocks) /\ Distinct(c) /\ Len(c) \in Nat
  /\ \A i \in 1 .. Len(c) : c[i] \in PxBlocks
  /\ \A i \in 1 .. Len(c) :
       c[i][1] = "result" => \E j \in 1 .. i - 1 : c[j] = <<"call", c[i][2]>>
  /\ ToSet(c) = {c[i] : i \in 1 .. Len(c)}
  BY ConversationFacts, LenProperties, ElementOfSeq, ToSetMembers
<1>2.
  PICK f :
    /\ f \in [0 .. Len(c) -> Seq(PxMessages)]
    /\ f[0] = <<>> /\ PxToChatRequest(protocol, c) = f[Len(c)]
    /\ \A n \in 1 .. Len(c) : f[n] = PxTake(protocol, f[n - 1], c[n])
 <2>1. c \in Seq(PxBlocks) BY <1>1
 <2>2. PICK f : TakesBy(f, protocol, c) BY <2>1, TakeSteps
 <2> QED BY <2>2 DEF TakesBy
<1> DEFINE First(n) == {c[i] : i \in 1 .. n}
  T == {n \in Nat : n \in 0 .. Len(c) => PxPlaced(f[n], First(n))}
<1>3. 0 \in T
 <2>1. First(0) = {} OBVIOUS
 <2>2. <<>> \in Seq(PxMessages) /\ Len(<<>>) = 0 OBVIOUS
 <2>3. PxPlaced(<<>>, {}) BY <2>2 DEF PxPlaced
 <2> QED BY <1>2, <2>1, <2>3
<1>4. ASSUME NEW n \in Nat, n \in T
  PROVE n + 1 \in T
 <2>1. SUFFICES ASSUME n + 1 \in 0 .. Len(c) PROVE PxPlaced(f[n + 1], First(n + 1)) OBVIOUS
 <2> DEFINE block == c[n + 1]
 <2>2. n \in 0 .. Len(c) /\ n + 1 \in 1 .. Len(c) /\ (n + 1) - 1 = n /\ block \in PxBlocks
   BY <1>1, <2>1
 <2>3. PxPlaced(f[n], First(n)) /\ f[n + 1] = PxTake(protocol, f[n], block) BY <1>2, <1>4, <2>2
 <2>4. First(n + 1) = First(n) \cup {block}
  <3>1. \A i \in 1 .. n + 1 : i \in 1 .. n \/ i = n + 1 OBVIOUS
  <3>2. 1 .. n \subseteq 1 .. n + 1 /\ n + 1 \in 1 .. n + 1 OBVIOUS
  <3> QED BY <3>1, <3>2
 <2>5. \A i \in 1 .. n : i \in 1 .. Len(c) /\ i # n + 1 BY <2>2
 <2>6. block \notin First(n) BY <1>1, <2>2, <2>5 DEF Distinct
 <2>7. block[1] = "result" => <<"call", block[2]>> \in First(n)
  <3>1. SUFFICES ASSUME block[1] = "result" PROVE <<"call", block[2]>> \in First(n) OBVIOUS
  <3>2. PICK j \in 1 .. (n + 1) - 1 : c[j] = <<"call", block[2]>> BY <1>1, <2>2, <3>1
  <3> QED BY <2>2, <3>2
 <2>8. block[1] = "call" => <<"result", block[2]>> \notin First(n)
  <3>1. SUFFICES ASSUME block[1] = "call", NEW i \in 1 .. n, c[i] = <<"result", block[2]>>
    PROVE FALSE
    OBVIOUS
  <3>2. block = <<"call", block[2]>> BY <2>2, <3>1 DEF PxBlocks
  <3>3. c[i][1] = "result" /\ c[i][2] = block[2] BY <3>1
  <3>4. PICK j \in 1 .. i - 1 : c[j] = <<"call", block[2]>> BY <1>1, <2>5, <3>3
  <3>5. j \in 1 .. Len(c) /\ j # n + 1 BY <2>5, <3>4
  <3> QED BY <1>1, <2>2, <3>2, <3>4, <3>5 DEF Distinct
 <2> HIDE DEF First, block
 <2>9. PxPlaced(PxTake(protocol, f[n], block), First(n) \cup {block})
   BY <2>2, <2>3, <2>6, <2>7, <2>8, TakePlaces
 <2> QED BY <2>3, <2>4, <2>9
<1> HIDE DEF T
<1>5. Nat \subseteq T BY <1>3, <1>4, EveryNumber
<1>6. Len(c) \in T /\ Len(c) \in 0 .. Len(c) BY <1>1, <1>5
<1> QED BY <1>1, <1>2, <1>6 DEF T

\* What a provider sends for messages has all of their blocks, each once, and every result
\* after its call.
LEMMA ConvertKeeps ==
  ASSUME NEW kind \in ProvKinds, NEW ms, NEW placed, PxPlaced(ms, placed)
  PROVE
    LET items == ProvConvert(kind, ms)
    IN  /\ items \in Seq(PxBlocks) /\ Distinct(items) /\ ToSet(items) = placed
        /\ \A i, j \in 1 .. Len(items) : \A n :
             (items[i] = <<"call", n>> /\ items[j] = <<"result", n>>) => i < j
<1>1.
  /\ ms \in Seq(PxMessages) /\ Len(ms) \in Nat
  /\ \A k \in 1 .. Len(ms) : PxSorted(ms[k])
  BY LenProperties DEF PxPlaced
<1> DEFINE Of(k) == ProvItems(kind, ms[k])
  Has(k) == ToSet(ms[k].blocks)
<1>2.
  \A k \in 1 .. Len(ms) :
    Of(k) \in Seq(PxBlocks) /\ Distinct(Of(k)) /\ ToSet(Of(k)) = Has(k)
  BY <1>1, ItemsOfMessage
<1>3.
  /\ \A k, l \in 1 .. Len(ms) : \A block \in Has(k) : block \in Has(l) => k = l
  /\ \A block : block \in placed <=> \E k \in 1 .. Len(ms) : block \in Has(k)
  /\ \A k, l \in 1 .. Len(ms) : \A n :
       (<<"call", n>> \in Has(k) /\ <<"result", n>> \in Has(l)) => k < l
  BY DEF PxPlaced
<1>4.
  PICK f :
    /\ f \in [0 .. Len(ms) -> Seq(PxBlocks)]
    /\ f[0] = <<>> /\ ProvConvert(kind, ms) = f[Len(ms)]
    /\ \A k \in 1 .. Len(ms) : f[k] = f[k - 1] \o ProvItems(kind, ms[k])
 <2>1. \A k \in 1 .. Len(ms) : ProvItems(kind, ms[k]) \in Seq(PxBlocks) BY <1>2
 <2>2. PICK f : ConvertsBy(f, kind, ms, PxBlocks) BY <1>1, <2>1, ConvertSteps
 <2> QED BY <2>2 DEF ConvertsBy
<1> DEFINE First(n) == UNION {Has(k) : k \in 1 .. n}
  InOrder(s) == \A i, j \in 1 .. Len(s) : \A n :
                  (s[i] = <<"call", n>> /\ s[j] = <<"result", n>>) => i < j
  Fits(s, n) == Distinct(s) /\ ToSet(s) = First(n) /\ InOrder(s)
  T == {n \in Nat : n \in 0 .. Len(ms) => Fits(f[n], n)}
<1>5. 0 \in T
 <2>1. First(0) = {} /\ Len(<<>>) = 0 OBVIOUS
 <2> QED BY <1>4, <2>1, NoMembers
<1>6. ASSUME NEW k \in Nat, k \in T
  PROVE k + 1 \in T
 <2>1. SUFFICES ASSUME k + 1 \in 0 .. Len(ms) PROVE Fits(f[k + 1], k + 1) OBVIOUS
 <2> DEFINE s == f[k]
   u == Of(k + 1)
 <2>2.
   /\ k \in 0 .. Len(ms) /\ k + 1 \in 1 .. Len(ms) /\ (k + 1) - 1 = k
   /\ \A i \in 1 .. k : i \in 1 .. Len(ms) /\ i < k + 1
   BY <1>1, <2>1
 <2>3.
   /\ s \in Seq(PxBlocks) /\ u \in Seq(PxBlocks) /\ Distinct(u) /\ ToSet(u) = Has(k + 1)
   /\ f[k + 1] = s \o u
   BY <1>2, <1>4, <2>2
 <2>4. Distinct(s) /\ ToSet(s) = First(k) /\ InOrder(s) BY <1>6, <2>2
 <2>5. First(k + 1) = First(k) \cup Has(k + 1)
  <3>1. \A i \in 1 .. k + 1 : i \in 1 .. k \/ i = k + 1 OBVIOUS
  <3>2. 1 .. k \subseteq 1 .. k + 1 /\ k + 1 \in 1 .. k + 1 OBVIOUS
  <3> HIDE DEF Has
  <3> QED BY <3>1, <3>2
 <2>6. \A b \in First(k) : b \notin Has(k + 1)
  <3>1. SUFFICES ASSUME NEW i \in 1 .. k, NEW b \in Has(i), b \in Has(k + 1) PROVE FALSE OBVIOUS
  <3>2. i \in 1 .. Len(ms) /\ k + 1 \in 1 .. Len(ms) /\ i # k + 1 BY <2>2
  <3> HIDE DEF Has
  <3> QED BY <1>3, <3>1, <3>2
 <2>7. \A n : <<"call", n>> \in Has(k + 1) => <<"result", n>> \notin First(k) BY <1>3, <2>2
 <2>8. \A n : <<"call", n>> \in Has(k + 1) => <<"result", n>> \notin Has(k + 1) BY <1>3, <2>2
 <2> HIDE DEF s, u, First, Has
 <2>9.
   /\ ToSet(s \o u) = ToSet(s) \cup ToSet(u) /\ Distinct(s \o u)
   /\ Len(s \o u) = Len(s) + Len(u) /\ Len(s) \in Nat /\ Len(u) \in Nat
   /\ \A i \in 1 .. Len(s \o u) :
        (s \o u)[i] = IF i <= Len(s) THEN s[i] ELSE u[i - Len(s)]
  <3>1. ToSet(s) \cap ToSet(u) = {} BY <2>3, <2>4, <2>6
  <3>2. Distinct(s) /\ Distinct(u) /\ s \in Seq(PxBlocks) /\ u \in Seq(PxBlocks) BY <2>3, <2>4
  <3>3. ToSet(s \o u) = ToSet(s) \cup ToSet(u) /\ Distinct(s \o u)
    BY ONLY <3>1, <3>2, ConcatMembers
  <3> QED BY ONLY <3>2, <3>3, ConcatProperties, LenProperties
 <2>10. InOrder(s \o u)
  <3>1. SUFFICES ASSUME NEW i \in 1 .. Len(s \o u), NEW j \in 1 .. Len(s \o u), NEW n,
      (s \o u)[i] = <<"call", n>>, (s \o u)[j] = <<"result", n>>
    PROVE i < j
    OBVIOUS
  <3>2. /\ ToSet(s) = {s[m] : m \in 1 .. Len(s)} /\ ToSet(u) = {u[m] : m \in 1 .. Len(u)}
    BY <2>3, ToSetMembers
  <3>3. CASE i <= Len(s) /\ j <= Len(s)
   <4>1. i \in 1 .. Len(s) /\ j \in 1 .. Len(s) /\ s[i] = <<"call", n>> /\ s[j] = <<"result", n>>
     BY <2>9, <3>1, <3>3
   <4> QED BY <2>4, <4>1
  <3>4. CASE i <= Len(s) /\ ~ (j <= Len(s)) BY <2>9, <3>4
  <3>5. CASE ~ (i <= Len(s))
   <4>1. i - Len(s) \in 1 .. Len(u) /\ u[i - Len(s)] = <<"call", n>> BY <2>9, <3>1, <3>5
   <4>2. <<"call", n>> \in Has(k + 1) BY <2>3, <3>2, <4>1
   <4>3. CASE j <= Len(s)
    <5>1. j \in 1 .. Len(s) /\ s[j] = <<"result", n>> BY <2>9, <3>1, <4>3
    <5> QED BY <2>4, <2>7, <3>2, <4>2, <5>1
   <4>4. CASE ~ (j <= Len(s))
    <5>1. j - Len(s) \in 1 .. Len(u) /\ u[j - Len(s)] = <<"result", n>> BY <2>9, <3>1, <4>4
    <5> QED BY <2>3, <2>8, <3>2, <4>2, <5>1
   <4> QED BY <4>3, <4>4
  <3> QED BY <3>3, <3>4, <3>5
 <2> QED BY <2>3, <2>4, <2>5, <2>9, <2>10
<1> HIDE DEF T
<1>7. Nat \subseteq T BY <1>5, <1>6, EveryNumber
<1>8. Len(ms) \in T /\ Len(ms) \in 0 .. Len(ms) BY <1>1, <1>7
<1>9. Fits(f[Len(ms)], Len(ms)) /\ f[Len(ms)] \in Seq(PxBlocks) BY <1>4, <1>8 DEF T
<1>10. First(Len(ms)) = placed BY <1>3
<1> QED BY <1>4, <1>9, <1>10

--------------------
(* A batch *)

PxFates == {"none", "refused", "answered", "timed out"}
PxResults == {"none", "answer", "batch_item_timeout", "unsupported_batch_streaming"}

PxResultOf(fate) ==
  CASE fate = "none" -> "none"
    [] fate = "answered" -> "answer"
    [] fate = "timed out" -> "batch_item_timeout"
    [] fate = "refused" -> "unsupported_batch_streaming"

PxBatchShape ==
  /\ pxBatch = [phase |-> pxBatch.phase, items |-> pxBatch.items, next |-> pxBatch.next,
                workers |-> pxBatch.workers, at |-> pxBatch.at, result |-> pxBatch.result,
                fate |-> pxBatch.fate]
  /\ pxBatch.phase \in {"batch_limit_exceeded", "runs", "internal_error", "answered"}
  /\ pxBatch.items \in Seq(PxItems) /\ pxBatch.next \in Nat /\ 1 <= pxBatch.next
  /\ pxBatch.workers \in Nat /\ pxBatch.workers <= PxConcurrent
  /\ pxBatch.at \in [1 .. Len(pxBatch.items) -> {"waits", "runs", "reads", "late", "done"}]
  /\ pxBatch.result \in [1 .. Len(pxBatch.items) -> PxResults]
  /\ pxBatch.fate \in [1 .. Len(pxBatch.items) -> PxFates]

\* Each item waits until it is its turn; what is done with has a fate and the result of it,
\* unless no request could be made of it; and no more run than there are workers.
PxBatchInv ==
  \/ pxBatch = PxNoBatch
  \/ /\ PxBatchShape
     /\ Cardinality(PxRunning) <= pxBatch.workers
     /\ \A i \in 1 .. Len(pxBatch.items) :
          /\ pxBatch.at[i] = "waits" <=> pxBatch.next <= i
          /\ pxBatch.result[i] = PxResultOf(pxBatch.fate[i])
          /\ (pxBatch.at[i] \in {"late", "done"} /\ pxBatch.items[i] # "malformed")
               => pxBatch.fate[i] # "none"
          /\ (pxBatch.phase \in {"runs", "answered"} /\ pxBatch.items[i] = "malformed")
               => pxBatch.next <= i
          /\ pxBatch.phase = "answered" => pxBatch.at[i] \in {"late", "done"}

\* What runs is some of the items.
LEMMA RunningFinite ==
  ASSUME PxBatchShape
  PROVE
    /\ Len(pxBatch.items) \in Nat /\ DOMAIN pxBatch.items = 1 .. Len(pxBatch.items)
    /\ IsFiniteSet(PxRunning) /\ Cardinality(PxRunning) \in Nat
<1>1. pxBatch.items \in Seq(PxItems) BY DEF PxBatchShape
<1>2. Len(pxBatch.items) \in Nat /\ DOMAIN pxBatch.items = 1 .. Len(pxBatch.items)
  BY <1>1, LenProperties
<1>3. IsFiniteSet(1 .. Len(pxBatch.items)) /\ PxRunning \subseteq 1 .. Len(pxBatch.items)
  BY <1>2, FS_Interval DEF PxRunning
<1>4. IsFiniteSet(PxRunning) BY <1>3, FS_Subset
<1> QED BY <1>2, <1>4, FS_CardinalityType

\* A batch comes with all of its items waiting.
LEMMA BatchComes ==
  ASSUME PxBatchComes
  PROVE PxBatchInv'
<1> DEFINE
  Come(n, items) ==
    [phase |-> IF n > PxMaxItems THEN "batch_limit_exceeded" ELSE "runs",
     items |-> items, next |-> 1,
     workers |-> IF n < PxConcurrent THEN n ELSE PxConcurrent,
     at |-> [i \in 1 .. n |-> "waits"],
     result |-> [i \in 1 .. n |-> "none"], fate |-> [i \in 1 .. n |-> "none"]]
<1>0. PICK n \in 1 .. PxMaxItems + 1 : \E items \in [1 .. n -> PxItems] : pxBatch' = Come(n, items)
  BY DEF PxBatchComes
<1>1. PICK items \in [1 .. n -> PxItems] : pxBatch' = Come(n, items) BY <1>0
<1>2. n \in Nat /\ PxMaxItems \in Nat /\ PxConcurrent \in Nat BY PxBoundsAssumption
<1>3. items \in Seq(PxItems) /\ Len(items) = n /\ DOMAIN items = 1 .. n
  BY <1>1, <1>2, FromFunction
<1>4.
  /\ pxBatch'.items = items /\ pxBatch'.next = 1
  /\ pxBatch'.workers = IF n < PxConcurrent THEN n ELSE PxConcurrent
  /\ pxBatch'.phase \in {"batch_limit_exceeded", "runs"}
  /\ pxBatch'.at = [i \in 1 .. n |-> "waits"] /\ pxBatch'.result = [i \in 1 .. n |-> "none"]
  /\ pxBatch'.fate = [i \in 1 .. n |-> "none"]
  BY <1>1
<1>5. PxBatchShape'
 <2>1.
   pxBatch' = [phase |-> pxBatch'.phase, items |-> pxBatch'.items, next |-> pxBatch'.next,
               workers |-> pxBatch'.workers, at |-> pxBatch'.at,
               result |-> pxBatch'.result, fate |-> pxBatch'.fate]
   BY <1>1
 <2>2. pxBatch'.workers \in Nat /\ pxBatch'.workers <= PxConcurrent BY <1>2, <1>4
 <2> QED BY <1>2, <1>3, <1>4, <2>1, <2>2 DEF PxBatchShape, PxResults, PxFates
<1>6. PxRunning' = {} BY <1>3, <1>4 DEF PxRunning
<1>7. Cardinality(PxRunning') <= pxBatch'.workers BY <1>2, <1>4, <1>6, FS_EmptySet
<1>8. ASSUME NEW i \in 1 .. n
  PROVE
    /\ pxBatch'.at[i] = "waits" /\ pxBatch'.next <= i
    /\ pxBatch'.result[i] = "none" /\ pxBatch'.fate[i] = "none"
    /\ pxBatch'.phase # "answered"
  BY <1>2, <1>4
<1>9. PxResultOf("none") = "none" BY DEF PxResultOf
<1>10. Len(pxBatch'.items) = n BY <1>3, <1>4
<1> HIDE DEF Come
<1> QED BY <1>5, <1>7, <1>8, <1>9, <1>10 DEF PxBatchInv

\* A worker takes the next item.
LEMMA WorkerTakes ==
  ASSUME PxBatchInv, PxWorkerTakes
  PROVE PxBatchInv'
<1> DEFINE i == pxBatch.next
  item == pxBatch.items[i]
  n == Len(pxBatch.items)
  Runs == item \in {"fine", "endless"}
<1>1.
  /\ pxBatch.phase \in {"runs", "internal_error"}
  /\ Cardinality(PxRunning) < pxBatch.workers /\ i <= n
  /\ pxBatch' =
       [pxBatch EXCEPT
          !.next = @ + 1,
          !.at[i] = IF Runs THEN "runs" ELSE "done",
          !.result[i] = IF item = "stream" THEN "unsupported_batch_streaming" ELSE @,
          !.fate[i] = IF item = "stream" THEN "refused" ELSE @,
          !.workers = IF item = "malformed" THEN @ - 1 ELSE @,
          !.phase = IF item = "malformed" THEN "internal_error" ELSE @]
  BY DEF PxWorkerTakes
<1>2. PxBatchShape /\ pxBatch # PxNoBatch BY <1>1 DEF PxBatchInv, PxNoBatch
<1>3.
  /\ \A j \in 1 .. n :
       /\ pxBatch.at[j] = "waits" <=> pxBatch.next <= j
       /\ pxBatch.result[j] = PxResultOf(pxBatch.fate[j])
       /\ (pxBatch.at[j] \in {"late", "done"} /\ pxBatch.items[j] # "malformed")
            => pxBatch.fate[j] # "none"
       /\ (pxBatch.phase \in {"runs", "answered"} /\ pxBatch.items[j] = "malformed")
            => pxBatch.next <= j
  /\ Cardinality(PxRunning) <= pxBatch.workers
  BY <1>2 DEF PxBatchInv
<1>4.
  /\ n \in Nat /\ DOMAIN pxBatch.items = 1 .. n
  /\ IsFiniteSet(PxRunning) /\ Cardinality(PxRunning) \in Nat
  BY <1>2, RunningFinite
<1>5.
  /\ pxBatch = [phase |-> pxBatch.phase, items |-> pxBatch.items, next |-> pxBatch.next,
                workers |-> pxBatch.workers, at |-> pxBatch.at,
                result |-> pxBatch.result, fate |-> pxBatch.fate]
  /\ i \in Nat /\ 1 <= i /\ pxBatch.workers \in Nat /\ pxBatch.workers <= PxConcurrent
  /\ PxConcurrent \in Nat /\ pxBatch.items \in Seq(PxItems)
  /\ pxBatch.at \in [1 .. n -> {"waits", "runs", "reads", "late", "done"}]
  /\ pxBatch.result \in [1 .. n -> PxResults] /\ pxBatch.fate \in [1 .. n -> PxFates]
  BY <1>2, PxBoundsAssumption DEF PxBatchShape
<1> DEFINE at == [pxBatch.at EXCEPT ![i] = IF Runs THEN "runs" ELSE "done"]
  result == [pxBatch.result EXCEPT
               ![i] = IF item = "stream" THEN "unsupported_batch_streaming" ELSE @]
  fate == [pxBatch.fate EXCEPT ![i] = IF item = "stream" THEN "refused" ELSE @]
  workers == IF item = "malformed" THEN pxBatch.workers - 1 ELSE pxBatch.workers
  phase == IF item = "malformed" THEN "internal_error" ELSE pxBatch.phase
<1>6.
  pxBatch' = [phase |-> phase, items |-> pxBatch.items, next |-> i + 1,
              workers |-> workers, at |-> at, result |-> result, fate |-> fate]
  BY <1>1, <1>5
<1>7.
  /\ pxBatch'.phase = phase /\ pxBatch'.items = pxBatch.items /\ pxBatch'.next = i + 1
  /\ pxBatch'.workers = workers /\ pxBatch'.at = at
  /\ pxBatch'.result = result /\ pxBatch'.fate = fate
  BY <1>6
<1>8. i \in 1 .. n /\ pxBatch.at[i] = "waits"
 <2>1. i \in 1 .. n /\ i <= i BY <1>1, <1>4, <1>5
 <2> QED BY <1>3, <2>1
<1>9. item \in PxItems BY <1>5, <1>8, ElementOfSeq
<1>10.
  \A j \in 1 .. n :
    /\ at[j] = IF j = i THEN (IF Runs THEN "runs" ELSE "done") ELSE pxBatch.at[j]
    /\ fate[j] = IF j = i /\ item = "stream" THEN "refused" ELSE pxBatch.fate[j]
    /\ result[j] = IF j = i /\ item = "stream" THEN "unsupported_batch_streaming"
                   ELSE pxBatch.result[j]
  BY <1>5, <1>8
<1>11. workers \in Nat /\ workers <= PxConcurrent BY <1>1, <1>4, <1>5
<1>12. PxBatchShape'
 <2>1.
   /\ at \in [1 .. n -> {"waits", "runs", "reads", "late", "done"}]
   /\ result \in [1 .. n -> PxResults] /\ fate \in [1 .. n -> PxFates]
   BY <1>5, <1>8 DEF PxResults, PxFates
 <2>2. phase \in {"batch_limit_exceeded", "runs", "internal_error", "answered"} BY <1>1
 <2>3. i + 1 \in Nat /\ 1 <= i + 1 BY <1>5
 <2>4.
   pxBatch' = [phase |-> pxBatch'.phase, items |-> pxBatch'.items, next |-> pxBatch'.next,
               workers |-> pxBatch'.workers, at |-> pxBatch'.at,
               result |-> pxBatch'.result, fate |-> pxBatch'.fate]
   BY <1>6, <1>7
 <2> HIDE DEF at, result, fate, workers, phase, i
 <2> QED BY <1>5, <1>7, <1>11, <2>1, <2>2, <2>3, <2>4 DEF PxBatchShape
<1>13. PxRunning' = IF Runs THEN PxRunning \cup {i} ELSE PxRunning
 <2> HIDE DEF at, Runs
 <2> QED BY <1>4, <1>7, <1>8, <1>10 DEF PxRunning
<1>14. Cardinality(PxRunning') <= workers
 <2>1. CASE Runs
  <3>1. i \notin PxRunning BY <1>8 DEF PxRunning
  <3>2. Cardinality(PxRunning \cup {i}) = Cardinality(PxRunning) + 1
    BY <1>4, <3>1, FS_AddElement
  <3>3. workers = pxBatch.workers BY <2>1
  <3> QED BY <1>1, <1>4, <1>5, <1>13, <2>1, <3>2, <3>3
 <2>2. CASE ~ Runs BY <1>1, <1>4, <1>5, <1>13, <2>2
 <2> QED BY <2>1, <2>2
<1>15. ASSUME NEW j \in 1 .. n
  PROVE
    /\ at[j] = "waits" <=> i + 1 <= j
    /\ result[j] = PxResultOf(fate[j])
    /\ (at[j] \in {"late", "done"} /\ pxBatch.items[j] # "malformed")
         => fate[j] # "none"
    /\ (phase \in {"runs", "answered"} /\ pxBatch.items[j] = "malformed")
         => i + 1 <= j
    /\ phase # "answered"
 <2> DEFINE
   Goal == /\ at[j] = "waits" <=> i + 1 <= j
           /\ result[j] = PxResultOf(fate[j])
           /\ (at[j] \in {"late", "done"} /\ pxBatch.items[j] # "malformed")
                => fate[j] # "none"
           /\ (phase \in {"runs", "answered"} /\ pxBatch.items[j] = "malformed")
                => i + 1 <= j
 <2>1.
   /\ phase # "answered"
   /\ (phase # "internal_error" => item # "malformed" /\ phase = pxBatch.phase)
   BY <1>1
 <2>2. CASE j = i
  <3>1. ~ (i + 1 <= i) /\ result[i] = PxResultOf(fate[i])
   <4>1.
     /\ result[i] = IF item = "stream" THEN "unsupported_batch_streaming"
                     ELSE pxBatch.result[i]
     /\ fate[i] = IF item = "stream" THEN "refused" ELSE pxBatch.fate[i]
     /\ pxBatch.result[i] = PxResultOf(pxBatch.fate[i])
     BY <1>3, <1>8, <1>10
   <4>2. PxResultOf("refused") = "unsupported_batch_streaming" BY DEF PxResultOf
   <4> HIDE DEF result, fate
   <4>3. ~ (i + 1 <= i) BY <1>5
   <4> QED BY <4>1, <4>2, <4>3
  <3>2. at[i] = (IF Runs THEN "runs" ELSE "done") BY <1>8, <1>10
  <3>3. at[i] = "done" /\ item # "malformed" => fate[i] # "none"
    BY <1>8, <1>9, <1>10, <3>2 DEF PxItems
  <3> QED BY <2>1, <2>2, <3>1, <3>2, <3>3
 <2>3. CASE j # i
  <3>1. at[j] = pxBatch.at[j] /\ fate[j] = pxBatch.fate[j] /\ result[j] = pxBatch.result[j]
    BY <1>10, <2>3
  <3>2. i + 1 <= j <=> i <= j BY <1>4, <1>5, <2>3
  <3> HIDE DEF at, fate, result, phase
  <3> QED BY <1>3, <2>1, <3>1, <3>2
 <2> QED BY <2>2, <2>3
<1> HIDE DEF at, result, fate, workers, phase, Runs
<1> QED BY <1>7, <1>12, <1>14, <1>15 DEF PxBatchInv

\* What runs of an item: its answer, the timer, and the answer after the timer.
LEMMA ItemMoves ==
  ASSUME PxBatchInv, PxItemAnswers \/ PxItemTimer \/ PxLateAnswer
  PROVE PxBatchInv'
<1>1. PxBatchShape /\ pxBatch # PxNoBatch
 <2>1. PxNoBatch.phase = "none" /\ PxNoBatch.items = <<>> /\ DOMAIN <<>> = {} BY DEF PxNoBatch
 <2>2. pxBatch.phase # "none" BY DEF PxItemAnswers, PxItemTimer, PxLateAnswer
 <2> QED BY <2>1, <2>2 DEF PxBatchInv
<1> DEFINE n == Len(pxBatch.items)
<1>2.
  /\ n \in Nat /\ DOMAIN pxBatch.items = 1 .. n
  /\ IsFiniteSet(PxRunning) /\ Cardinality(PxRunning) \in Nat
  BY <1>1, RunningFinite
<1>3.
  /\ \A j \in 1 .. n :
       /\ pxBatch.at[j] = "waits" <=> pxBatch.next <= j
       /\ pxBatch.result[j] = PxResultOf(pxBatch.fate[j])
       /\ (pxBatch.at[j] \in {"late", "done"} /\ pxBatch.items[j] # "malformed")
            => pxBatch.fate[j] # "none"
       /\ (pxBatch.phase \in {"runs", "answered"} /\ pxBatch.items[j] = "malformed")
            => pxBatch.next <= j
       /\ pxBatch.phase = "answered" => pxBatch.at[j] \in {"late", "done"}
  /\ Cardinality(PxRunning) <= pxBatch.workers
  BY <1>1 DEF PxBatchInv
<1>4.
  /\ pxBatch = [phase |-> pxBatch.phase, items |-> pxBatch.items, next |-> pxBatch.next,
                workers |-> pxBatch.workers, at |-> pxBatch.at,
                result |-> pxBatch.result, fate |-> pxBatch.fate]
  /\ pxBatch.workers \in Nat
  /\ pxBatch.at \in [1 .. n -> {"waits", "runs", "reads", "late", "done"}]
  /\ pxBatch.result \in [1 .. n -> PxResults] /\ pxBatch.fate \in [1 .. n -> PxFates]
  BY <1>1 DEF PxBatchShape
\* In each case an item that had its turn moves on; if it is done with, it has a fate.
<1>5.
  PICK i \in 1 .. n, at \in {"reads", "late", "done"},
       result \in PxResults, fate \in PxFates :
    /\ pxBatch' = [phase |-> pxBatch.phase, items |-> pxBatch.items, next |-> pxBatch.next,
                   workers |-> pxBatch.workers, at |-> [pxBatch.at EXCEPT ![i] = at],
                   result |-> [pxBatch.result EXCEPT ![i] = result],
                   fate |-> [pxBatch.fate EXCEPT ![i] = fate]]
    /\ pxBatch.at[i] # "waits" /\ result = PxResultOf(fate)
    /\ at = "reads" => pxBatch.at[i] = "runs"
    /\ (at # "reads" /\ pxBatch.items[i] # "malformed") => fate # "none"
 <2> DEFINE
   Moves(i, at, result, fate) ==
     /\ pxBatch' = [phase |-> pxBatch.phase, items |-> pxBatch.items,
                    next |-> pxBatch.next, workers |-> pxBatch.workers,
                    at |-> [pxBatch.at EXCEPT ![i] = at],
                    result |-> [pxBatch.result EXCEPT ![i] = result],
                    fate |-> [pxBatch.fate EXCEPT ![i] = fate]]
     /\ pxBatch.at[i] # "waits" /\ result = PxResultOf(fate)
     /\ at = "reads" => pxBatch.at[i] = "runs"
     /\ (at # "reads" /\ pxBatch.items[i] # "malformed") => fate # "none"
 <2>0. ASSUME NEW i \in 1 .. n
   PROVE
     /\ [pxBatch.result EXCEPT ![i] = pxBatch.result[i]] = pxBatch.result
     /\ [pxBatch.fate EXCEPT ![i] = pxBatch.fate[i]] = pxBatch.fate
     /\ pxBatch.result[i] \in PxResults /\ pxBatch.fate[i] \in PxFates
     /\ pxBatch.result[i] = PxResultOf(pxBatch.fate[i])
   BY <1>3, <1>4
 <2>1. CASE PxItemAnswers
  <3>1.
    PICK i \in 1 .. n :
      /\ pxBatch.at[i] = "runs"
      /\ pxBatch' = IF pxBatch.items[i] = "endless"
                    THEN [pxBatch EXCEPT !.at[i] = "reads"]
                    ELSE [pxBatch EXCEPT !.at[i] = "done", !.result[i] = "answer",
                                         !.fate[i] = "answered"]
    BY <1>2, <2>1 DEF PxItemAnswers, PxRunning
  <3>2. CASE pxBatch.items[i] = "endless"
   <4>1.
     pxBatch' = [phase |-> pxBatch.phase, items |-> pxBatch.items, next |-> pxBatch.next,
                 workers |-> pxBatch.workers, at |-> [pxBatch.at EXCEPT ![i] = "reads"],
                 result |-> pxBatch.result, fate |-> pxBatch.fate]
     BY <1>4, <3>1, <3>2
   <4>2. Moves(i, "reads", pxBatch.result[i], pxBatch.fate[i]) BY <2>0, <3>1, <4>1
   <4> HIDE DEF Moves
   <4> QED BY <2>0, <4>2 DEF Moves
  <3>3. CASE pxBatch.items[i] # "endless"
   <4>1.
     pxBatch' = [phase |-> pxBatch.phase, items |-> pxBatch.items, next |-> pxBatch.next,
                 workers |-> pxBatch.workers, at |-> [pxBatch.at EXCEPT ![i] = "done"],
                 result |-> [pxBatch.result EXCEPT ![i] = "answer"],
                 fate |-> [pxBatch.fate EXCEPT ![i] = "answered"]]
     BY <1>4, <3>1, <3>3
   <4>2. Moves(i, "done", "answer", "answered") BY <3>1, <4>1 DEF PxResultOf
   <4>3. "answer" \in PxResults /\ "answered" \in PxFates BY DEF PxResults, PxFates
   <4> HIDE DEF Moves
   <4> QED BY <4>2, <4>3 DEF Moves
  <3> QED BY <3>2, <3>3
 <2>2. CASE PxItemTimer
  <3>1.
    PICK i \in 1 .. n :
      /\ pxBatch.at[i] = "runs"
      /\ pxBatch' = [pxBatch EXCEPT !.at[i] = "late", !.result[i] = "batch_item_timeout",
                                    !.fate[i] = "timed out"]
    BY <1>2, <2>2 DEF PxItemTimer, PxRunning
  <3>2.
    pxBatch' = [phase |-> pxBatch.phase, items |-> pxBatch.items, next |-> pxBatch.next,
                workers |-> pxBatch.workers, at |-> [pxBatch.at EXCEPT ![i] = "late"],
                result |-> [pxBatch.result EXCEPT ![i] = "batch_item_timeout"],
                fate |-> [pxBatch.fate EXCEPT ![i] = "timed out"]]
    BY <1>4, <3>1
  <3>3. Moves(i, "late", "batch_item_timeout", "timed out") BY <3>1, <3>2 DEF PxResultOf
  <3>4. "batch_item_timeout" \in PxResults /\ "timed out" \in PxFates BY DEF PxResults, PxFates
  <3> HIDE DEF Moves
  <3> QED BY <3>3, <3>4 DEF Moves
 <2>3. CASE PxLateAnswer
  <3>1. PICK i \in 1 .. n :
          pxBatch.at[i] = "late" /\ pxBatch' = [pxBatch EXCEPT !.at[i] = "done"]
    BY <1>2, <2>3 DEF PxLateAnswer
  <3>2.
    pxBatch' = [phase |-> pxBatch.phase, items |-> pxBatch.items, next |-> pxBatch.next,
                workers |-> pxBatch.workers, at |-> [pxBatch.at EXCEPT ![i] = "done"],
                result |-> pxBatch.result, fate |-> pxBatch.fate]
    BY <1>4, <3>1
  <3>3. Moves(i, "done", pxBatch.result[i], pxBatch.fate[i]) BY <1>3, <2>0, <3>1, <3>2
  <3> HIDE DEF Moves
  <3> QED BY <2>0, <3>3 DEF Moves
 <2> QED BY <2>1, <2>2, <2>3
<1>6.
  /\ pxBatch'.phase = pxBatch.phase /\ pxBatch'.items = pxBatch.items
  /\ pxBatch'.next = pxBatch.next /\ pxBatch'.workers = pxBatch.workers
  /\ pxBatch'.at = [pxBatch.at EXCEPT ![i] = at]
  /\ pxBatch'.result = [pxBatch.result EXCEPT ![i] = result]
  /\ pxBatch'.fate = [pxBatch.fate EXCEPT ![i] = fate]
  BY <1>5
<1>7.
  \A j \in 1 .. n :
    /\ pxBatch'.at[j] = IF j = i THEN at ELSE pxBatch.at[j]
    /\ pxBatch'.result[j] = IF j = i THEN result ELSE pxBatch.result[j]
    /\ pxBatch'.fate[j] = IF j = i THEN fate ELSE pxBatch.fate[j]
  BY <1>4, <1>6
<1>8. PxBatchShape'
 <2>1.
   /\ pxBatch'.at \in [1 .. n -> {"waits", "runs", "reads", "late", "done"}]
   /\ pxBatch'.result \in [1 .. n -> PxResults] /\ pxBatch'.fate \in [1 .. n -> PxFates]
   BY <1>4, <1>6
 <2>2.
   pxBatch' = [phase |-> pxBatch'.phase, items |-> pxBatch'.items, next |-> pxBatch'.next,
               workers |-> pxBatch'.workers, at |-> pxBatch'.at,
               result |-> pxBatch'.result, fate |-> pxBatch'.fate]
   BY <1>5, <1>6
 <2> QED BY <1>1, <1>6, <2>1, <2>2 DEF PxBatchShape
<1>9. Cardinality(PxRunning') <= pxBatch'.workers
 <2>1. PxRunning' \subseteq PxRunning BY <1>2, <1>5, <1>6, <1>7 DEF PxRunning
 <2>2. Cardinality(PxRunning') <= Cardinality(PxRunning) /\ Cardinality(PxRunning') \in Nat
   BY <1>2, <2>1, FS_Subset, FS_CardinalityType
 <2> QED BY <1>2, <1>3, <1>4, <1>6, <2>2
<1>10. ASSUME NEW j \in 1 .. n
  PROVE
    /\ pxBatch'.at[j] = "waits" <=> pxBatch'.next <= j
    /\ pxBatch'.result[j] = PxResultOf(pxBatch'.fate[j])
    /\ (pxBatch'.at[j] \in {"late", "done"} /\ pxBatch'.items[j] # "malformed")
         => pxBatch'.fate[j] # "none"
    /\ (pxBatch'.phase \in {"runs", "answered"} /\ pxBatch'.items[j] = "malformed")
         => pxBatch'.next <= j
    /\ pxBatch'.phase = "answered" => pxBatch'.at[j] \in {"late", "done"}
  BY <1>3, <1>5, <1>6, <1>7
<1> QED BY <1>6, <1>8, <1>9, <1>10 DEF PxBatchInv

\* The batch is answered when nothing runs and no item is left.
LEMMA BatchAnswered ==
  ASSUME PxBatchInv, PxBatchAnswered
  PROVE PxBatchInv'
<1> DEFINE n == Len(pxBatch.items)
<1>1.
  /\ pxBatch.phase = "runs" /\ pxBatch.next > n /\ PxRunning = {}
  /\ pxBatch' = [pxBatch EXCEPT !.phase = "answered"]
  BY DEF PxBatchAnswered
<1>2. PxBatchShape BY <1>1 DEF PxBatchInv, PxNoBatch
<1>3.
  /\ \A j \in 1 .. n :
       /\ pxBatch.at[j] = "waits" <=> pxBatch.next <= j
       /\ pxBatch.result[j] = PxResultOf(pxBatch.fate[j])
       /\ (pxBatch.at[j] \in {"late", "done"} /\ pxBatch.items[j] # "malformed")
            => pxBatch.fate[j] # "none"
       /\ (pxBatch.phase \in {"runs", "answered"} /\ pxBatch.items[j] = "malformed")
            => pxBatch.next <= j
  /\ Cardinality(PxRunning) <= pxBatch.workers
  BY <1>1, <1>2 DEF PxBatchInv, PxNoBatch
<1>4. n \in Nat /\ DOMAIN pxBatch.items = 1 .. n BY <1>2, RunningFinite
<1>5.
  /\ pxBatch' = [phase |-> "answered", items |-> pxBatch.items, next |-> pxBatch.next,
                 workers |-> pxBatch.workers, at |-> pxBatch.at,
                 result |-> pxBatch.result, fate |-> pxBatch.fate]
  /\ pxBatch.next \in Nat
  /\ pxBatch.at \in [1 .. n -> {"waits", "runs", "reads", "late", "done"}]
  BY <1>1, <1>2 DEF PxBatchShape
<1>6.
  /\ pxBatch'.phase = "answered" /\ pxBatch'.items = pxBatch.items
  /\ pxBatch'.next = pxBatch.next /\ pxBatch'.workers = pxBatch.workers
  /\ pxBatch'.at = pxBatch.at /\ pxBatch'.result = pxBatch.result
  /\ pxBatch'.fate = pxBatch.fate
  /\ pxBatch' = [phase |-> pxBatch'.phase, items |-> pxBatch'.items, next |-> pxBatch'.next,
                 workers |-> pxBatch'.workers, at |-> pxBatch'.at,
                 result |-> pxBatch'.result, fate |-> pxBatch'.fate]
  BY <1>5
<1>7. PxBatchShape' /\ PxRunning' = PxRunning BY <1>2, <1>6 DEF PxBatchShape, PxRunning
<1>8. \A j \in 1 .. n : ~ (pxBatch.next <= j) /\ pxBatch.at[j] \in {"late", "done"}
  BY <1>1, <1>3, <1>4, <1>5 DEF PxRunning
<1> QED BY <1>1, <1>3, <1>6, <1>7, <1>8 DEF PxBatchInv

\* The invariant is that an answered batch has its results.
LEMMA BatchInvWhole ==
  ASSUME PxBatchInv
  PROVE PxBatchWhole
<1> SUFFICES ASSUME pxBatch.phase # "none" PROVE PxBatchWhole BY DEF PxBatchWhole
<1>1. PxBatchShape /\ pxBatch # PxNoBatch BY DEF PxBatchInv, PxNoBatch
<1>2.
  /\ Len(pxBatch.items) \in Nat /\ DOMAIN pxBatch.items = 1 .. Len(pxBatch.items)
  /\ Cardinality(PxRunning) \in Nat /\ pxBatch.workers \in Nat
  /\ pxBatch.workers <= PxConcurrent /\ pxBatch.next \in Nat /\ PxConcurrent \in Nat
  /\ pxBatch.fate \in [1 .. Len(pxBatch.items) -> PxFates]
  BY <1>1, RunningFinite, PxBoundsAssumption DEF PxBatchShape
<1>3. Cardinality(PxRunning) <= PxConcurrent BY <1>1, <1>2 DEF PxBatchInv
<1>4. ASSUME pxBatch.phase = "answered", NEW i \in DOMAIN pxBatch.items
  PROVE
    pxBatch.result[i] = CASE pxBatch.fate[i] = "answered" -> "answer"
                          [] pxBatch.fate[i] = "timed out" -> "batch_item_timeout"
                          [] pxBatch.fate[i] = "refused" -> "unsupported_batch_streaming"
 <2>1.
   /\ pxBatch.result[i] = PxResultOf(pxBatch.fate[i]) /\ pxBatch.fate[i] # "none"
   /\ pxBatch.fate[i] \in PxFates
   BY <1>1, <1>2, <1>4 DEF PxBatchInv
 <2> QED BY <2>1 DEF PxResultOf, PxFates
<1> QED BY <1>3, <1>4 DEF PxBatchWhole

--------------------
(* The credentials *)

PxKeysShape ==
  /\ pxKeys = [file |-> pxKeys.file, current |-> pxKeys.current, expiries |-> pxKeys.expiries,
               sender |-> pxKeys.sender, overlap |-> pxKeys.overlap, unsaved |-> pxKeys.unsaved]
  /\ pxKeys.file \in [refresh : Nat, expired : BOOLEAN] /\ pxKeys.current \in Nat
  /\ pxKeys.sender \in [PxSenders -> [phase : {"idle", "asks", "saves"}, refresh : Nat]]
  /\ pxKeys.overlap \in BOOLEAN /\ pxKeys.unsaved \in BOOLEAN

\* The record of the credentials.
PxKeysAs(file, current, expiries, sender, overlap, unsaved) ==
  [file |-> file, current |-> current, expiries |-> expiries,
   sender |-> sender, overlap |-> overlap, unsaved |-> unsaved]

\* While senders do not overlap and what they get is written, one at most is busy: it asks
\* with the token of the file, which is the good one until the server answers, and then it
\* has the good one itself.
PxTurns(refresh, current, sender) ==
  /\ \A s, r \in PxSenders : s # r => sender[s].phase = "idle" \/ sender[r].phase = "idle"
  /\ \A s \in PxSenders : sender[s].phase = "asks" => sender[s].refresh = refresh
  /\ \A s \in PxSenders : sender[s].phase = "saves" => sender[s].refresh = current
  /\ (\A s \in PxSenders : sender[s].phase # "saves") => refresh = current

PxKeysInOrder ==
  PxTurns(pxKeys.file.refresh, pxKeys.current, pxKeys.sender)

PxKeysInv ==
  /\ PxKeysShape
  /\ pxKeys.overlap \/ pxKeys.unsaved \/ PxKeysInOrder

\* A sender that moves leaves the other where it is.
LEMMA KeysStep ==
  ASSUME PxKeysInv, PxExpires \/ PxLoads \/ PxRefreshed \/ PxSaves
  PROVE PxKeysInv'
<1> USE DEF PxTurns, PxKeysAs
<1> DEFINE Sender == [phase : {"idle", "asks", "saves"}, refresh : Nat]
  At(s, p) == pxKeys.sender[s].phase = p
<1>1.
  /\ pxKeys = PxKeysAs(pxKeys.file, pxKeys.current, pxKeys.expiries, pxKeys.sender,
                       pxKeys.overlap, pxKeys.unsaved)
  /\ pxKeys.file \in [refresh : Nat, expired : BOOLEAN]
  /\ pxKeys.current \in Nat /\ pxKeys.sender \in [PxSenders -> Sender]
  /\ pxKeys.overlap \in BOOLEAN /\ pxKeys.unsaved \in BOOLEAN
  BY DEF PxKeysInv, PxKeysShape
<1>2.
  \/ pxKeys.overlap \/ pxKeys.unsaved
  \/ PxTurns(pxKeys.file.refresh, pxKeys.current, pxKeys.sender)
  BY DEF PxKeysInv, PxKeysInOrder, PxSenderAt
\* What is to be shown, for values given one by one.
<1>3. ASSUME NEW file \in [refresh : Nat, expired : BOOLEAN], NEW current \in Nat, NEW expiries,
    NEW sender \in [PxSenders -> Sender],
    NEW overlap \in BOOLEAN, NEW unsaved \in BOOLEAN,
    pxKeys' = PxKeysAs(file, current, expiries, sender, overlap, unsaved),
    \/ overlap \/ unsaved \/ PxTurns(file.refresh, current, sender)
  PROVE PxKeysInv'
 <2>1.
   /\ pxKeys'.file = file /\ pxKeys'.current = current /\ pxKeys'.expiries = expiries
   /\ pxKeys'.sender = sender /\ pxKeys'.overlap = overlap /\ pxKeys'.unsaved = unsaved
   BY <1>3
 <2>2. PxKeysShape' BY <1>3, <2>1 DEF PxKeysShape
 <2>3. (pxKeys.overlap \/ pxKeys.unsaved \/ PxKeysInOrder)'
   BY <1>3, <2>1 DEF PxKeysInOrder, PxSenderAt
 <2> QED BY <2>2, <2>3 DEF PxKeysInv
<1>4. CASE PxExpires
 <2> DEFINE file == [refresh |-> pxKeys.file.refresh, expired |-> TRUE]
 <2>1. pxKeys' = [pxKeys EXCEPT !.expiries = @ + 1, !.file.expired = TRUE] BY <1>4 DEF PxExpires
 <2>2. [pxKeys.file EXCEPT !.expired = TRUE] = file
  <3>1. PICK f : f = [pxKeys.file EXCEPT !.expired = TRUE] OBVIOUS
  <3>2. pxKeys.file = [refresh |-> pxKeys.file.refresh, expired |-> pxKeys.file.expired] BY <1>1
  <3>3. f = file BY ONLY <3>1, <3>2
  <3> QED BY <3>1, <3>3
 <2>3.
   pxKeys' = PxKeysAs(file, pxKeys.current, pxKeys.expiries + 1, pxKeys.sender,
                      pxKeys.overlap, pxKeys.unsaved)
   BY <1>1, <2>1, <2>2
 <2>4. file \in [refresh : Nat, expired : BOOLEAN] /\ file.refresh = pxKeys.file.refresh BY <1>1
 <2> HIDE DEF file
 <2> QED BY <1>1, <1>2, <1>3, <2>3, <2>4
<1>5. CASE PxLoads
 <2> DEFINE expired == pxKeys.file.expired
   got == [phase |-> IF expired THEN "asks" ELSE "idle",
           refresh |-> IF expired THEN pxKeys.file.refresh ELSE 0]
   overlap == pxKeys.overlap \/ (expired /\ \E r \in PxSenders : ~ At(r, "idle"))
 <2>1.
   PICK s \in PxSenders :
     /\ At(s, "idle") /\ pxKeys' = [pxKeys EXCEPT !.sender[s] = got, !.overlap = overlap]
   BY <1>5 DEF PxLoads, PxSenderAt
 <2> DEFINE sender == [pxKeys.sender EXCEPT ![s] = got]
 <2>2.
   pxKeys' = PxKeysAs(pxKeys.file, pxKeys.current, pxKeys.expiries, sender, overlap,
                      pxKeys.unsaved)
   BY <1>1, <2>1
 <2>3.
   /\ expired \in BOOLEAN /\ got \in Sender
   /\ got.phase = IF expired THEN "asks" ELSE "idle"
   /\ expired => got.refresh = pxKeys.file.refresh
   BY <1>1
 <2>4.
   /\ sender \in [PxSenders -> Sender] /\ overlap \in BOOLEAN
   /\ \A r \in PxSenders : sender[r] = IF r = s THEN got ELSE pxKeys.sender[r]
   BY <1>1, <2>3
 <2>5. \/ overlap \/ pxKeys.unsaved \/ PxTurns(pxKeys.file.refresh, pxKeys.current, sender)
  <3>1. SUFFICES ASSUME ~ overlap, ~ pxKeys.unsaved
    PROVE PxTurns(pxKeys.file.refresh, pxKeys.current, sender)
    OBVIOUS
  <3>2. ~ pxKeys.overlap /\ (expired => \A r \in PxSenders : At(r, "idle")) BY <3>1
  <3> HIDE DEF sender, got, overlap, expired
  <3>3. CASE expired BY <1>2, <2>1, <2>3, <2>4, <3>1, <3>2, <3>3
  <3>4. CASE ~ expired BY <1>2, <2>1, <2>3, <2>4, <3>1, <3>2, <3>4
  <3> QED BY <3>3, <3>4
 <2> HIDE DEF sender, got, overlap
 <2> QED BY <1>1, <1>3, <2>2, <2>4, <2>5
<1>6. CASE PxRefreshed
 <2>1.
   PICK s \in PxSenders :
     /\ At(s, "asks")
     /\ IF pxKeys.sender[s].refresh # pxKeys.current
        THEN pxKeys' = [pxKeys EXCEPT !.sender[s].phase = "idle", !.sender[s].refresh = 0]
        ELSE \E rotates \in BOOLEAN :
               pxKeys' = [pxKeys EXCEPT
                            !.current = IF rotates THEN pxKeys.current + 1 ELSE pxKeys.current,
                            !.sender[s] = [phase |-> "saves",
                                           refresh |-> IF rotates THEN pxKeys.current + 1
                                                       ELSE pxKeys.current]]
   BY <1>6 DEF PxRefreshed, PxSenderAt
 <2>2. CASE pxKeys.sender[s].refresh # pxKeys.current
  <3> DEFINE got == [phase |-> "idle", refresh |-> 0]
    sender == [pxKeys.sender EXCEPT ![s] = got]
  <3>1. [pxKeys.sender[s] EXCEPT !.phase = "idle", !.refresh = 0] = got
   <4>1. PICK f : f = [pxKeys.sender[s] EXCEPT !.phase = "idle", !.refresh = 0] OBVIOUS
   <4>2. pxKeys.sender[s] = [phase |-> pxKeys.sender[s].phase,
                             refresh |-> pxKeys.sender[s].refresh]
     BY <1>1
   <4>3. f = got BY ONLY <4>1, <4>2
   <4> QED BY <4>1, <4>3
  <3>2. pxKeys' = [pxKeys EXCEPT !.sender[s].phase = "idle", !.sender[s].refresh = 0]
    BY <2>1, <2>2
  <3>3. [pxKeys.sender EXCEPT ![s].phase = "idle", ![s].refresh = 0] = sender BY <1>1, <3>1
  <3>4. pxKeys' = PxKeysAs(pxKeys.file, pxKeys.current, pxKeys.expiries, sender,
                           pxKeys.overlap, pxKeys.unsaved)
    BY <1>1, <3>2, <3>3
  <3>5. /\ sender \in [PxSenders -> Sender] /\ got.phase = "idle"
        /\ \A r \in PxSenders : sender[r] = IF r = s THEN got ELSE pxKeys.sender[r]
    BY <1>1
  <3> HIDE DEF sender, got
  <3>6. pxKeys.overlap \/ pxKeys.unsaved
    \* the one that is busy asks with the token of the file, which is good
    BY <1>2, <2>1, <2>2
  <3> QED BY <1>1, <1>3, <3>4, <3>5, <3>6
 <2>3. CASE ~ (pxKeys.sender[s].refresh # pxKeys.current)
  <3>1.
    PICK rotates \in BOOLEAN :
      pxKeys' = [pxKeys EXCEPT
                   !.current = IF rotates THEN pxKeys.current + 1 ELSE pxKeys.current,
                   !.sender[s] = [phase |-> "saves",
                                  refresh |-> IF rotates THEN pxKeys.current + 1
                                              ELSE pxKeys.current]]
    BY <2>1, <2>3
  <3> DEFINE given == IF rotates THEN pxKeys.current + 1 ELSE pxKeys.current
    got == [phase |-> "saves", refresh |-> given]
    sender == [pxKeys.sender EXCEPT ![s] = got]
  <3>2. pxKeys' = PxKeysAs(pxKeys.file, given, pxKeys.expiries, sender, pxKeys.overlap,
                           pxKeys.unsaved)
    BY <1>1, <3>1
  <3>3. given \in Nat BY <1>1
  <3>4. got \in Sender /\ got.phase = "saves" /\ got.refresh = given BY <3>3
  <3>5. /\ sender \in [PxSenders -> Sender]
        /\ \A r \in PxSenders : sender[r] = IF r = s THEN got ELSE pxKeys.sender[r]
    BY <1>1, <3>4
  <3> HIDE DEF sender, got, given
  <3>6. \/ pxKeys.overlap \/ pxKeys.unsaved \/ PxTurns(pxKeys.file.refresh, given, sender)
    BY <1>2, <2>1, <3>4, <3>5
  <3> QED BY <1>1, <1>3, <3>2, <3>3, <3>5, <3>6
 <2> QED BY <2>2, <2>3
<1>7. CASE PxSaves
 <2>1.
   PICK s \in PxSenders, ok \in BOOLEAN :
     /\ At(s, "saves")
     /\ pxKeys' = [pxKeys EXCEPT
                     !.file = IF ok THEN PxSavedFile(pxKeys.file, pxKeys.sender[s].refresh)
                              ELSE pxKeys.file,
                     !.unsaved = pxKeys.unsaved \/ ~ ok,
                     !.sender[s] = [phase |-> "idle", refresh |-> 0]]
   BY <1>7 DEF PxSaves, PxSenderAt
 <2> DEFINE
   file == IF ok THEN PxSavedFile(pxKeys.file, pxKeys.sender[s].refresh)
           ELSE pxKeys.file
   got == [phase |-> "idle", refresh |-> 0]
   unsaved == pxKeys.unsaved \/ ~ ok
   sender == [pxKeys.sender EXCEPT ![s] = got]
 <2>2. pxKeys' = PxKeysAs(file, pxKeys.current, pxKeys.expiries, sender, pxKeys.overlap, unsaved)
   BY <1>1, <2>1
 <2>3.
   /\ file \in [refresh : Nat, expired : BOOLEAN] /\ unsaved \in BOOLEAN
   /\ ok => file.refresh = pxKeys.sender[s].refresh
   BY <1>1 DEF PxSavedFile
 <2>4.
   /\ sender \in [PxSenders -> Sender] /\ got.phase = "idle"
   /\ \A r \in PxSenders : sender[r] = IF r = s THEN got ELSE pxKeys.sender[r]
   BY <1>1
 <2>5. \/ pxKeys.overlap \/ unsaved \/ PxTurns(file.refresh, pxKeys.current, sender)
  <3>1. CASE ok
   <4> HIDE DEF file, sender, got
   <4>2. \A r \in PxSenders : r # s => At(r, "idle") \/ pxKeys.overlap \/ pxKeys.unsaved
     BY <1>2, <2>1
   <4> QED BY <1>2, <2>1, <2>3, <2>4, <3>1, <4>2
  <3> QED BY <3>1
 <2> HIDE DEF file, got, unsaved, sender
 <2> QED BY <1>1, <1>3, <2>2, <2>3, <2>4, <2>5
<1> QED BY <1>4, <1>5, <1>6, <1>7

--------------------
(* The events of an answer *)

PxEntries == [ev : {"text", "open", "args", "close"}, at : Nat, id : Nat]

\* Where an answer says this of this call or text.
PxAt(w, ev, id) == {i \in 1 .. Len(w) : w[i].ev = ev /\ w[i].id = id}

\* One more event is one more place for what it says, and changes no other.
PxOneMore(w, e, ev, id) ==
  /\ IsFiniteSet(PxAt(w, ev, id)) /\ Cardinality(PxAt(w, ev, id)) \in Nat
  /\ PxAt(w, ev, id) \subseteq 1 .. Len(w)
  /\ (e.ev = ev /\ e.id = id)
       => /\ PxAt(Append(w, e), ev, id) = PxAt(w, ev, id) \cup {Len(w) + 1}
          /\ Cardinality(PxAt(Append(w, e), ev, id)) = Cardinality(PxAt(w, ev, id)) + 1
  /\ ~ (e.ev = ev /\ e.id = id) => PxAt(Append(w, e), ev, id) = PxAt(w, ev, id)

\* What an answer is with one more event.
LEMMA OneMoreEntry ==
  ASSUME NEW w \in Seq(PxEntries), NEW e \in PxEntries
  PROVE
    /\ Append(w, e) \in Seq(PxEntries) /\ Len(w) \in Nat /\ Len(Append(w, e)) = Len(w) + 1
    /\ \A i \in 1 .. Len(w) + 1 : Append(w, e)[i] = IF i <= Len(w) THEN w[i] ELSE e
    /\ \A ev, id : PxOneMore(w, e, ev, id)
<1> DEFINE r == Append(w, e)
  n == Len(w)
<1>1.
  /\ r \in Seq(PxEntries) /\ n \in Nat /\ Len(r) = n + 1
  /\ \A i \in 1 .. n + 1 : r[i] = IF i <= n THEN w[i] ELSE e
  BY AppendNew, LenProperties
<1> HIDE DEF r
<1>2. ASSUME NEW ev, NEW id
  PROVE
    /\ IsFiniteSet(PxAt(w, ev, id)) /\ Cardinality(PxAt(w, ev, id)) \in Nat
    /\ PxAt(w, ev, id) \subseteq 1 .. n
    /\ (e.ev = ev /\ e.id = id)
         => /\ PxAt(r, ev, id) = PxAt(w, ev, id) \cup {n + 1}
            /\ Cardinality(PxAt(r, ev, id)) = Cardinality(PxAt(w, ev, id)) + 1
    /\ ~ (e.ev = ev /\ e.id = id) => PxAt(r, ev, id) = PxAt(w, ev, id)
 <2>1. PxAt(w, ev, id) \subseteq 1 .. n /\ IsFiniteSet(1 .. n) BY <1>1, FS_Interval DEF PxAt
 <2>2. IsFiniteSet(PxAt(w, ev, id)) /\ Cardinality(PxAt(w, ev, id)) \in Nat
   BY <2>1, FS_Subset, FS_CardinalityType
 <2>3. ASSUME e.ev = ev, e.id = id
   PROVE
     /\ PxAt(r, ev, id) = PxAt(w, ev, id) \cup {n + 1}
     /\ Cardinality(PxAt(r, ev, id)) = Cardinality(PxAt(w, ev, id)) + 1
  <3>1. PxAt(r, ev, id) = PxAt(w, ev, id) \cup {n + 1} BY <1>1, <2>3 DEF PxAt
  <3>2. n + 1 \notin PxAt(w, ev, id) BY <1>1, <2>1
  <3> QED BY <2>2, <3>1, <3>2, FS_AddElement
 <2>4. ASSUME ~ (e.ev = ev /\ e.id = id)
   PROVE PxAt(r, ev, id) = PxAt(w, ev, id)
   BY <1>1, <2>4 DEF PxAt
 <2> QED BY <2>1, <2>2, <2>3, <2>4
<1>3. \A ev, id : PxOneMore(w, e, ev, id) BY <1>2 DEF PxOneMore, r
<1> QED BY <1>1, <1>3 DEF r

\* What has been said of texts, of calls, of calls that are done, and how many pieces of
\* arguments of each.
PxLedgers ==
  {L \in [texts : SUBSET Nat, calls : SUBSET (Nat \ {0}), done : SUBSET Nat, args : [Nat -> Nat]] :
     L.done \subseteq L.calls}

PxLedger(texts, calls, done, args) ==
  [texts |-> texts, calls |-> calls, done |-> done, args |-> args]

\* The texts told are these, each once and in rising order.
PxTold(w, texts) ==
  /\ \A x : x \in texts <=> \E i \in 1 .. Len(w) : w[i].ev = "text" /\ w[i].id = x
  /\ \A i, j \in 1 .. Len(w) :
       (w[i].ev = "text" /\ w[j].ev = "text" /\ i < j) => w[i].id < w[j].id

PxCallsTold(w, L) ==
  /\ \A x \in L.calls :
       /\ Cardinality(PxAt(w, "open", x)) = 1 /\ Cardinality(PxAt(w, "args", x)) = L.args[x]
       /\ \A i \in PxAt(w, "open", x), j \in PxAt(w, "args", x) : i < j
  /\ \A x \in Nat \ {0} :
       x \notin L.calls => PxAt(w, "open", x) = {} /\ PxAt(w, "args", x) = {}

PxEndsTold(w, L) ==
  \A x \in Nat \ {0} :
    IF x \in L.done
    THEN /\ Cardinality(PxAt(w, "close", x)) = 1
         /\ \A i \in PxAt(w, "args", x), j \in PxAt(w, "close", x) : i < j
    ELSE PxAt(w, "close", x) = {}

PxBlocksTold(w, open) ==
  Cardinality(PxAt(w, "open", 0)) = Cardinality(PxAt(w, "close", 0)) + IF open THEN 1 ELSE 0

PxIndexed(w, bound) ==
  /\ \A i \in 1 .. Len(w) : w[i].ev = "open" => w[i].at < bound
  /\ \A i, j \in 1 .. Len(w) :
       (w[i].ev = "open" /\ w[j].ev = "open" /\ w[i].at = w[j].at) => i = j

\* An answer so far: it tells what is in the ledger, and it has a block open or not; it may
\* be of a protocol that closes its calls, and of one that has an index for each block.
PxSound(w, L, open, closes, indexed, bound) ==
  /\ w \in Seq(PxEntries) /\ L \in PxLedgers /\ PxTold(w, L.texts) /\ PxCallsTold(w, L)
  /\ closes => PxEndsTold(w, L)
  /\ PxBlocksTold(w, open)
  /\ indexed => PxIndexed(w, bound)

\* A ledger has four fields, and four fields make a ledger.
LEMMA LedgerParts ==
  ASSUME NEW L \in PxLedgers
  PROVE
    /\ L = PxLedger(L.texts, L.calls, L.done, L.args)
    /\ L.texts \in SUBSET Nat /\ L.calls \in SUBSET (Nat \ {0}) /\ L.done \in SUBSET Nat
    /\ L.args \in [Nat -> Nat] /\ L.done \subseteq L.calls
BY DEF PxLedgers, PxLedger

LEMMA LedgerMade ==
  ASSUME NEW texts \in SUBSET Nat, NEW calls \in SUBSET (Nat \ {0}), NEW done \in SUBSET Nat,
    NEW args \in [Nat -> Nat], done \subseteq calls
  PROVE
    /\ PxLedger(texts, calls, done, args) \in PxLedgers
    /\ PxLedger(texts, calls, done, args).texts = texts
    /\ PxLedger(texts, calls, done, args).calls = calls
    /\ PxLedger(texts, calls, done, args).done = done
    /\ PxLedger(texts, calls, done, args).args = args
BY DEF PxLedgers, PxLedger

\* What an event that is no text does to the texts, and one that opens nothing to the
\* indexes.
LEMMA OtherEntry ==
  ASSUME NEW w \in Seq(PxEntries), NEW e \in PxEntries
  PROVE
    /\ \A texts : (PxTold(w, texts) /\ e.ev # "text") => PxTold(Append(w, e), texts)
    /\ \A bound : (PxIndexed(w, bound) /\ e.ev # "open") => PxIndexed(Append(w, e), bound)
    /\ \A bound, more : (/\ PxIndexed(w, bound) /\ e.ev = "open"
                         /\ bound \in Nat /\ more \in Nat /\ bound <= e.at /\ e.at < more)
                          => PxIndexed(Append(w, e), more)
<1> DEFINE r == Append(w, e)
  n == Len(w)
<1>1.
  /\ n \in Nat /\ Len(r) = n + 1
  /\ \A i \in 1 .. n + 1 : r[i] = IF i <= n THEN w[i] ELSE e
  /\ \A i \in 1 .. n : w[i] \in PxEntries
  BY OneMoreEntry, ElementOfSeq
<1> HIDE DEF r
<1>2.
  /\ \A i \in 1 .. n : i \in 1 .. n + 1 /\ r[i] = w[i]
  /\ \A i \in 1 .. n + 1 : i \notin 1 .. n => r[i] = e /\ i = n + 1
  BY <1>1
<1>3. ASSUME NEW texts, PxTold(w, texts), e.ev # "text"
  PROVE PxTold(r, texts)
  BY <1>1, <1>2, <1>3 DEF PxTold
<1>4. ASSUME NEW bound, PxIndexed(w, bound), e.ev # "open"
  PROVE PxIndexed(r, bound)
  BY <1>1, <1>2, <1>4 DEF PxIndexed
<1>5. ASSUME NEW bound \in Nat, NEW more \in Nat, PxIndexed(w, bound), e.ev = "open",
    bound <= e.at, e.at < more
  PROVE PxIndexed(r, more)
 <2>1. e.at \in Nat /\ \A i \in 1 .. n : w[i].at \in Nat BY <1>1 DEF PxEntries
 <2>2. \A i \in 1 .. n : w[i].ev = "open" => w[i].at < e.at /\ w[i].at < more
   BY <1>5, <2>1 DEF PxIndexed
 <2> QED BY <1>1, <1>2, <1>5, <2>1, <2>2 DEF PxIndexed
<1> QED BY <1>3, <1>4, <1>5 DEF r

\* An answer stays sound when it tells one text more, with a number above the others.
LEMMA SoundText ==
  ASSUME NEW w, NEW L, NEW open, NEW closes, NEW indexed, NEW bound,
    PxSound(w, L, open, closes, indexed, bound),
    NEW at \in Nat, NEW x \in Nat, \A y \in L.texts : y < x
  PROVE
    PxSound(Append(w, PxEvent("text", at, x)),
            PxLedger(L.texts \cup {x}, L.calls, L.done, L.args),
            open, closes, indexed, bound)
<1> DEFINE e == PxEvent("text", at, x)
  r == Append(w, e)
  M == PxLedger(L.texts \cup {x}, L.calls, L.done, L.args)
  n == Len(w)
<1>1. w \in Seq(PxEntries) /\ L \in PxLedgers /\ e \in PxEntries /\ e.ev = "text" /\ e.id = x
  BY DEF PxSound, PxEvent, PxEntries
<1> HIDE DEF e
<1>2.
  /\ r \in Seq(PxEntries) /\ n \in Nat /\ Len(r) = n + 1
  /\ \A i \in 1 .. n + 1 : r[i] = IF i <= n THEN w[i] ELSE e
  /\ \A ev, id : ev # "text" => PxAt(r, ev, id) = PxAt(w, ev, id)
  BY <1>1, OneMoreEntry DEF PxOneMore
<1>3.
  /\ M \in PxLedgers /\ M.texts = L.texts \cup {x} /\ M.calls = L.calls
  /\ M.done = L.done /\ M.args = L.args
 <2>1.
   /\ L.texts \cup {x} \in SUBSET Nat /\ L.calls \in SUBSET (Nat \ {0})
   /\ L.done \in SUBSET Nat /\ L.args \in [Nat -> Nat] /\ L.done \subseteq L.calls
   BY <1>1, LedgerParts
 <2> QED BY <2>1, LedgerMade
<1> HIDE DEF r, M
<1>4. PxTold(r, M.texts)
 <2>1.
   /\ \A i \in 1 .. n : i \in 1 .. n + 1 /\ r[i] = w[i]
   /\ \A i \in 1 .. n + 1 : i \notin 1 .. n => r[i] = e /\ i = n + 1
   /\ r[n + 1] = e /\ n + 1 \in 1 .. n + 1
   BY <1>2
 <2>2.
   /\ \A y : y \in L.texts <=> \E i \in 1 .. n : w[i].ev = "text" /\ w[i].id = y
   /\ \A i, j \in 1 .. n :
        (w[i].ev = "text" /\ w[j].ev = "text" /\ i < j) => w[i].id < w[j].id
   BY DEF PxSound, PxTold
 <2>3. \A y : y \in M.texts <=> \E i \in 1 .. n + 1 : r[i].ev = "text" /\ r[i].id = y
   BY <1>1, <1>3, <2>1, <2>2
 <2>4. ASSUME NEW i \in 1 .. n + 1, NEW j \in 1 .. n + 1,
     r[i].ev = "text", r[j].ev = "text", i < j
   PROVE r[i].id < r[j].id
  <3>1. i \in 1 .. n BY <1>2, <2>4
  <3>2. CASE j \in 1 .. n BY <2>1, <2>2, <2>4, <3>1, <3>2
  <3>3. CASE j \notin 1 .. n
   <4>1. w[i].id \in L.texts BY <2>1, <2>2, <2>4, <3>1
   <4> QED BY <1>1, <2>1, <3>1, <3>3, <4>1
  <3> QED BY <3>2, <3>3
 <2> QED BY <1>2, <2>3, <2>4 DEF PxTold
<1>5. PxCallsTold(r, M) /\ PxBlocksTold(r, open) /\ (closes => PxEndsTold(r, M))
  BY <1>2, <1>3 DEF PxSound, PxCallsTold, PxBlocksTold, PxEndsTold
<1>6. indexed => PxIndexed(r, bound) BY <1>1, OtherEntry DEF PxSound, r
<1> QED BY <1>2, <1>3, <1>4, <1>5, <1>6 DEF PxSound, r, M, e

\* An answer stays sound when it opens a call that it has not opened.
LEMMA SoundOpen ==
  ASSUME NEW w, NEW L, NEW open, NEW closes, NEW indexed, NEW bound \in Nat,
    PxSound(w, L, open, closes, indexed, bound),
    NEW at \in Nat, NEW x \in Nat \ {0}, x \notin L.calls, L.args[x] = 0,
    NEW more \in Nat, indexed => bound <= at /\ at < more
  PROVE
    PxSound(Append(w, PxEvent("open", at, x)),
            PxLedger(L.texts, L.calls \cup {x}, L.done, L.args),
            open, closes, indexed, more)
<1> DEFINE e == PxEvent("open", at, x)
  r == Append(w, e)
  M == PxLedger(L.texts, L.calls \cup {x}, L.done, L.args)
  n == Len(w)
<1>1.
  /\ w \in Seq(PxEntries) /\ L \in PxLedgers /\ e \in PxEntries
  /\ e.ev = "open" /\ e.id = x /\ e.at = at
  BY DEF PxSound, PxEvent, PxEntries
<1> HIDE DEF e
<1>2.
  /\ r \in Seq(PxEntries) /\ n \in Nat
  /\ \A ev, id : (ev # "open" \/ id # x) => PxAt(r, ev, id) = PxAt(w, ev, id)
  /\ Cardinality(PxAt(r, "open", x)) = Cardinality(PxAt(w, "open", x)) + 1
  BY <1>1, OneMoreEntry DEF PxOneMore
<1>3.
  /\ M \in PxLedgers /\ M.texts = L.texts /\ M.calls = L.calls \cup {x}
  /\ M.done = L.done /\ M.args = L.args /\ L.done \subseteq L.calls
 <2>1.
   /\ L.texts \in SUBSET Nat /\ L.calls \cup {x} \in SUBSET (Nat \ {0})
   /\ L.done \in SUBSET Nat /\ L.args \in [Nat -> Nat] /\ L.done \subseteq L.calls \cup {x}
   /\ L.done \subseteq L.calls
   BY <1>1, LedgerParts
 <2> QED BY <2>1, LedgerMade
<1> HIDE DEF r, M
<1>4. PxTold(r, M.texts) BY <1>1, <1>3, OtherEntry DEF PxSound, r
<1>5. PxCallsTold(r, M)
 <2>1. PxAt(w, "open", x) = {} /\ PxAt(w, "args", x) = {} /\ Cardinality({}) = 0
   BY FS_EmptySet DEF PxSound, PxCallsTold
 <2>2. /\ Cardinality(PxAt(r, "open", x)) = 1 /\ PxAt(r, "args", x) = {}
  <3>1. Cardinality(PxAt(w, "open", x)) = 0 BY <2>1
  <3>2. Cardinality(PxAt(r, "open", x)) = 1 BY <1>2, <3>1
  <3>3. PxAt(r, "args", x) = PxAt(w, "args", x) BY <1>2
  <3> QED BY <2>1, <3>2, <3>3
 <2> QED BY <1>2, <1>3, <2>1, <2>2 DEF PxSound, PxCallsTold
<1>6. PxBlocksTold(r, open) BY <1>2 DEF PxSound, PxBlocksTold
<1>7. closes => PxEndsTold(r, M)
 <2>1. \A y \in L.done : y # x BY <1>3
 <2> QED BY <1>2, <1>3 DEF PxSound, PxEndsTold
<1>8. indexed => PxIndexed(r, more) BY <1>1, OtherEntry DEF PxSound, r
<1> QED BY <1>2, <1>3, <1>4, <1>5, <1>6, <1>7, <1>8 DEF PxSound, r, M, e

\* An answer stays sound when it tells a piece of the arguments of a call that is open.
LEMMA SoundArgs ==
  ASSUME NEW w, NEW L, NEW open, NEW closes, NEW indexed, NEW bound,
    PxSound(w, L, open, closes, indexed, bound),
    NEW at \in Nat, NEW x \in L.calls, x \notin L.done
  PROVE
    PxSound(Append(w, PxEvent("args", at, x)),
            PxLedger(L.texts, L.calls, L.done, [L.args EXCEPT ![x] = @ + 1]),
            open, closes, indexed, bound)
<1> DEFINE e == PxEvent("args", at, x)
  r == Append(w, e)
  args == [L.args EXCEPT ![x] = @ + 1]
  M == PxLedger(L.texts, L.calls, L.done, args)
  n == Len(w)
<1>0.
  /\ w \in Seq(PxEntries) /\ L \in PxLedgers
  /\ L.texts \in SUBSET Nat /\ L.calls \in SUBSET (Nat \ {0})
  /\ L.done \in SUBSET Nat /\ L.args \in [Nat -> Nat] /\ L.done \subseteq L.calls
  /\ x \in Nat \ {0}
  BY LedgerParts DEF PxSound
<1>1. e \in PxEntries /\ e.ev = "args" /\ e.id = x BY <1>0 DEF PxEvent, PxEntries
<1> HIDE DEF e
<1>2.
  /\ r \in Seq(PxEntries) /\ n \in Nat
  /\ \A ev, id : (ev # "args" \/ id # x) => PxAt(r, ev, id) = PxAt(w, ev, id)
  /\ Cardinality(PxAt(r, "args", x)) = Cardinality(PxAt(w, "args", x)) + 1
  /\ PxAt(r, "args", x) = PxAt(w, "args", x) \cup {n + 1}
  /\ \A ev, id : PxAt(w, ev, id) \subseteq 1 .. n
 <2>0. w \in Seq(PxEntries) /\ e \in PxEntries BY <1>0, <1>1
 <2>1. r \in Seq(PxEntries) /\ n \in Nat /\ \A ev, id : PxOneMore(w, e, ev, id)
   BY <2>0, OneMoreEntry
 <2> QED BY <1>1, <2>1 DEF PxOneMore
<1>3.
  /\ args \in [Nat -> Nat] /\ args[x] = L.args[x] + 1
  /\ \A y \in Nat : y # x => args[y] = L.args[y]
 <2>1. ASSUME NEW f \in [Nat -> Nat], NEW y \in Nat
   PROVE
     /\ [f EXCEPT ![y] = @ + 1] \in [Nat -> Nat] /\ [f EXCEPT ![y] = @ + 1][y] = f[y] + 1
     /\ \A z \in Nat : z # y => [f EXCEPT ![y] = @ + 1][z] = f[z]
   OBVIOUS
 <2>2. L.args \in [Nat -> Nat] /\ x \in Nat BY <1>0
 <2> QED BY ONLY <2>1, <2>2
<1> HIDE DEF args
<1>4.
  /\ M \in PxLedgers /\ M.texts = L.texts /\ M.calls = L.calls
  /\ M.done = L.done /\ M.args = args
 <2>1.
   /\ L.texts \in SUBSET Nat /\ L.calls \in SUBSET (Nat \ {0})
   /\ L.done \in SUBSET Nat /\ args \in [Nat -> Nat] /\ L.done \subseteq L.calls
   BY <1>0, <1>3
 <2> QED BY ONLY <2>1, LedgerMade
<1> HIDE DEF r, M
<1>5. PxTold(r, M.texts) BY <1>0, <1>1, <1>4, OtherEntry DEF PxSound, r
<1>6. PxCallsTold(r, M)
 <2>1. \A i \in PxAt(w, "open", x) : i < n + 1 BY <1>2
 <2>2. ASSUME NEW y \in L.calls
   PROVE
     /\ Cardinality(PxAt(r, "open", y)) = 1
     /\ Cardinality(PxAt(r, "args", y)) = args[y]
     /\ \A i \in PxAt(r, "open", y), j \in PxAt(r, "args", y) : i < j
  <3>1.
    /\ Cardinality(PxAt(w, "open", y)) = 1 /\ Cardinality(PxAt(w, "args", y)) = L.args[y]
    /\ \A i \in PxAt(w, "open", y), j \in PxAt(w, "args", y) : i < j
    /\ y \in Nat
    BY <1>0 DEF PxSound, PxCallsTold
  <3>2. CASE y = x BY <1>2, <1>3, <2>1, <3>1, <3>2
  <3>3. CASE y # x BY <1>2, <1>3, <3>1, <3>3
  <3> QED BY <3>2, <3>3
 <2>3.
   \A y \in Nat \ {0} :
     y \notin L.calls => PxAt(r, "open", y) = {} /\ PxAt(r, "args", y) = {}
   BY <1>2 DEF PxSound, PxCallsTold
 <2> QED BY <1>4, <2>2, <2>3 DEF PxCallsTold
<1>7. PxBlocksTold(r, open) BY <1>2 DEF PxSound, PxBlocksTold
<1>8. closes => PxEndsTold(r, M)
 <2>1. ASSUME closes, NEW y \in Nat \ {0}
   PROVE
     IF y \in L.done
     THEN /\ Cardinality(PxAt(r, "close", y)) = 1
          /\ \A i \in PxAt(r, "args", y), j \in PxAt(r, "close", y) : i < j
     ELSE PxAt(r, "close", y) = {}
  <3>1. /\ PxAt(r, "close", y) = PxAt(w, "close", y)
        /\ y \in L.done => PxAt(r, "args", y) = PxAt(w, "args", y)
    BY <1>2
  <3> QED BY <2>1, <3>1 DEF PxSound, PxEndsTold
 <2> QED BY <1>4, <2>1 DEF PxEndsTold
<1>9. indexed => PxIndexed(r, bound) BY <1>0, <1>1, OtherEntry DEF PxSound, r
<1> QED BY <1>2, <1>4, <1>5, <1>6, <1>7, <1>8, <1>9 DEF PxSound, r, M, e, args

\* An answer stays sound when it closes a call that is open.
LEMMA SoundClose ==
  ASSUME NEW w, NEW L, NEW open, NEW closes, NEW indexed, NEW bound,
    PxSound(w, L, open, closes, indexed, bound),
    NEW at \in Nat, NEW x \in L.calls, x \notin L.done
  PROVE
    PxSound(Append(w, PxEvent("close", at, x)),
            PxLedger(L.texts, L.calls, L.done \cup {x}, L.args),
            open, closes, indexed, bound)
<1> DEFINE e == PxEvent("close", at, x)
  r == Append(w, e)
  M == PxLedger(L.texts, L.calls, L.done \cup {x}, L.args)
  n == Len(w)
<1>0.
  /\ w \in Seq(PxEntries) /\ L \in PxLedgers
  /\ L.texts \in SUBSET Nat /\ L.calls \in SUBSET (Nat \ {0})
  /\ L.done \in SUBSET Nat /\ L.args \in [Nat -> Nat] /\ L.done \subseteq L.calls
  /\ x \in Nat \ {0}
  BY LedgerParts DEF PxSound
<1>1. e \in PxEntries /\ e.ev = "close" /\ e.id = x BY <1>0 DEF PxEvent, PxEntries
<1> HIDE DEF e
<1>2.
  /\ r \in Seq(PxEntries) /\ n \in Nat
  /\ \A ev, id : (ev # "close" \/ id # x) => PxAt(r, ev, id) = PxAt(w, ev, id)
  /\ Cardinality(PxAt(r, "close", x)) = Cardinality(PxAt(w, "close", x)) + 1
  /\ PxAt(r, "close", x) = PxAt(w, "close", x) \cup {n + 1}
  /\ \A ev, id : PxAt(w, ev, id) \subseteq 1 .. n
 <2>0. w \in Seq(PxEntries) /\ e \in PxEntries BY <1>0, <1>1
 <2>1. r \in Seq(PxEntries) /\ n \in Nat /\ \A ev, id : PxOneMore(w, e, ev, id)
   BY <2>0, OneMoreEntry
 <2> QED BY <1>1, <2>1 DEF PxOneMore
<1>3.
  /\ M \in PxLedgers /\ M.texts = L.texts /\ M.calls = L.calls
  /\ M.done = L.done \cup {x} /\ M.args = L.args
 <2>1.
   /\ L.texts \in SUBSET Nat /\ L.calls \in SUBSET (Nat \ {0})
   /\ L.done \cup {x} \in SUBSET Nat /\ L.args \in [Nat -> Nat]
   /\ L.done \cup {x} \subseteq L.calls
   BY <1>0
 <2> QED BY ONLY <2>1, LedgerMade
<1> HIDE DEF r, M
<1>4. PxTold(r, M.texts) BY <1>0, <1>1, <1>3, OtherEntry DEF PxSound, r
<1>5. PxCallsTold(r, M) BY <1>2, <1>3 DEF PxSound, PxCallsTold
<1>6. PxBlocksTold(r, open) BY <1>0, <1>2 DEF PxSound, PxBlocksTold
<1>7. closes => PxEndsTold(r, M)
 <2>1. ASSUME closes, NEW y \in Nat \ {0}
   PROVE
     IF y \in L.done \cup {x}
     THEN /\ Cardinality(PxAt(r, "close", y)) = 1
          /\ \A i \in PxAt(r, "args", y), j \in PxAt(r, "close", y) : i < j
     ELSE PxAt(r, "close", y) = {}
  <3>1. PxAt(r, "args", y) = PxAt(w, "args", y) BY <1>2
  <3>2. CASE y = x
   <4>1. PxAt(w, "close", y) = {} /\ Cardinality({}) = 0
     BY <2>1, <3>2, FS_EmptySet DEF PxSound, PxEndsTold
   <4>2. Cardinality(PxAt(r, "close", y)) = 1 /\ PxAt(r, "close", y) = {n + 1}
    <5>1. Cardinality(PxAt(w, "close", x)) = 0 /\ PxAt(w, "close", x) = {} BY <3>2, <4>1
    <5>2. Cardinality(PxAt(r, "close", x)) = 1 /\ PxAt(r, "close", x) = {n + 1} BY <1>2, <5>1
    <5> QED BY <3>2, <5>2
   <4>3. \A i \in PxAt(r, "args", y) : i < n + 1 BY <1>2, <3>1
   <4> QED BY <3>2, <4>2, <4>3
  <3>3. CASE y # x
   <4>1. PxAt(r, "close", y) = PxAt(w, "close", y) BY <1>2, <3>3
   <4> QED BY <2>1, <3>1, <3>3, <4>1 DEF PxSound, PxEndsTold
  <3> QED BY <3>2, <3>3
 <2> QED BY <1>3, <2>1 DEF PxEndsTold
<1>8. indexed => PxIndexed(r, bound) BY <1>0, <1>1, OtherEntry DEF PxSound, r
<1> QED BY <1>2, <1>3, <1>4, <1>5, <1>6, <1>7, <1>8 DEF PxSound, r, M, e

\* A block of text opens when none is open, and closes when one is.
LEMMA SoundBlock ==
  ASSUME NEW w, NEW L, NEW closes, NEW indexed, NEW bound \in Nat,
    NEW at \in Nat, NEW more \in Nat
  PROVE
    /\ (PxSound(w, L, FALSE, closes, indexed, bound) /\ (indexed => bound <= at /\ at < more))
         => PxSound(Append(w, PxEvent("open", at, 0)), L, TRUE, closes, indexed, more)
    /\ PxSound(w, L, TRUE, closes, indexed, bound)
         => PxSound(Append(w, PxEvent("close", at, 0)), L, FALSE, closes, indexed, bound)
<1>1. \A x \in Nat \ {0} : x # 0 OBVIOUS
<1>2. ASSUME PxSound(w, L, FALSE, closes, indexed, bound), indexed => bound <= at /\ at < more
  PROVE PxSound(Append(w, PxEvent("open", at, 0)), L, TRUE, closes, indexed, more)
 <2> DEFINE e == PxEvent("open", at, 0)
   r == Append(w, e)
 <2>1.
   /\ w \in Seq(PxEntries) /\ L \in PxLedgers /\ e \in PxEntries
   /\ e.ev = "open" /\ e.id = 0 /\ e.at = at
   BY <1>2 DEF PxSound, PxEvent, PxEntries
 <2>2. L.calls \subseteq Nat \ {0} BY <2>1, LedgerParts
 <2> HIDE DEF e
 <2>3.
   /\ r \in Seq(PxEntries)
   /\ \A ev, id : (ev # "open" \/ id # 0) => PxAt(r, ev, id) = PxAt(w, ev, id)
   /\ Cardinality(PxAt(r, "open", 0)) = Cardinality(PxAt(w, "open", 0)) + 1
   /\ \A ev, id : Cardinality(PxAt(w, ev, id)) \in Nat
   BY <2>1, OneMoreEntry DEF PxOneMore
 <2> HIDE DEF r
 <2>4. PxTold(r, L.texts) BY <1>2, <2>1, OtherEntry DEF PxSound, r
 <2>5. PxCallsTold(r, L) /\ (closes => PxEndsTold(r, L))
   BY <1>1, <1>2, <2>2, <2>3 DEF PxSound, PxCallsTold, PxEndsTold
 <2>6. PxBlocksTold(r, TRUE) BY <1>2, <2>3 DEF PxSound, PxBlocksTold
 <2>7. indexed => PxIndexed(r, more) BY <1>2, <2>1, OtherEntry DEF PxSound, r
 <2> QED BY <2>1, <2>3, <2>4, <2>5, <2>6, <2>7 DEF PxSound, r, e
<1>3. ASSUME PxSound(w, L, TRUE, closes, indexed, bound)
  PROVE PxSound(Append(w, PxEvent("close", at, 0)), L, FALSE, closes, indexed, bound)
 <2> DEFINE e == PxEvent("close", at, 0)
   r == Append(w, e)
 <2>1.
   /\ w \in Seq(PxEntries) /\ L \in PxLedgers /\ e \in PxEntries
   /\ e.ev = "close" /\ e.id = 0
   BY <1>3 DEF PxSound, PxEvent, PxEntries
 <2>2. L.calls \subseteq Nat \ {0} BY <2>1, LedgerParts
 <2> HIDE DEF e
 <2>3.
   /\ r \in Seq(PxEntries)
   /\ \A ev, id : (ev # "close" \/ id # 0) => PxAt(r, ev, id) = PxAt(w, ev, id)
   /\ Cardinality(PxAt(r, "close", 0)) = Cardinality(PxAt(w, "close", 0)) + 1
   /\ \A ev, id : Cardinality(PxAt(w, ev, id)) \in Nat
   BY <2>1, OneMoreEntry DEF PxOneMore
 <2> HIDE DEF r
 <2>4. PxTold(r, L.texts) BY <1>3, <2>1, OtherEntry DEF PxSound, r
 <2>5. PxCallsTold(r, L) /\ (closes => PxEndsTold(r, L))
   BY <1>1, <1>3, <2>2, <2>3 DEF PxSound, PxCallsTold, PxEndsTold
 <2>6. PxBlocksTold(r, FALSE) BY <1>3, <2>3 DEF PxSound, PxBlocksTold
 <2>7. indexed => PxIndexed(r, bound) BY <1>3, <2>1, OtherEntry DEF PxSound, r
 <2> QED BY <2>1, <2>3, <2>4, <2>5, <2>6, <2>7 DEF PxSound, r, e
<1> QED BY <1>2, <1>3

--------------------
(* The mappers *)

\* The indexes of some calls.
PxCallMaps == UNION {[D -> Nat] : D \in {E \in SUBSET Nat : IsFiniteSet(E)}}

PxMappers ==
  [next : Nat, open : Nat \cup {-1}, calls : PxCallMaps, text : Seq(PxEntries),
   events : Seq(PxEntries)]

PxChunks == [t : {"text", "reasoning", "start", "delta", "end", "done"}, id : Nat]

PxMore(calls, x, at) == [y \in DOMAIN calls \cup {x} |-> IF y = x THEN at ELSE calls[y]]

\* The indexes of the calls, and of one call more.
LEMMA CallMaps ==
  ASSUME NEW calls \in PxCallMaps
  PROVE
    /\ DOMAIN calls \in SUBSET Nat /\ IsFiniteSet(DOMAIN calls)
    /\ Cardinality(DOMAIN calls) \in Nat
    /\ \A x \in DOMAIN calls : calls[x] \in Nat
    /\ \A x \in Nat, at \in Nat :
         /\ PxMore(calls, x, at) \in PxCallMaps
         /\ DOMAIN PxMore(calls, x, at) = DOMAIN calls \cup {x}
         /\ x \notin DOMAIN calls =>
              Cardinality(DOMAIN calls \cup {x}) = Cardinality(DOMAIN calls) + 1
<1>1. PICK D \in SUBSET Nat : IsFiniteSet(D) /\ calls \in [D -> Nat] BY DEF PxCallMaps
<1>2. DOMAIN calls = D /\ \A x \in D : calls[x] \in Nat BY <1>1
<1>3. Cardinality(D) \in Nat BY <1>1, FS_CardinalityType
<1>4. ASSUME NEW x \in Nat, NEW at \in Nat
  PROVE
    /\ PxMore(calls, x, at) \in PxCallMaps /\ DOMAIN PxMore(calls, x, at) = D \cup {x}
    /\ x \notin D => Cardinality(D \cup {x}) = Cardinality(D) + 1
 <2>1.
   /\ IsFiniteSet(D \cup {x}) /\ D \cup {x} \in SUBSET Nat
   /\ x \notin D => Cardinality(D \cup {x}) = Cardinality(D) + 1
   BY <1>1, FS_AddElement
 <2>2. PxMore(calls, x, at) \in [D \cup {x} -> Nat] BY <1>2 DEF PxMore
 <2> QED BY <2>1, <2>2 DEF PxCallMaps
<1> QED BY <1>1, <1>2, <1>3, <1>4

\* A mapper has five fields.
LEMMA MapperParts ==
  ASSUME NEW m \in PxMappers
  PROVE
    /\ m.next \in Nat /\ m.open \in Nat \cup {-1} /\ m.calls \in PxCallMaps
    /\ m.text \in Seq(PxEntries) /\ m.events \in Seq(PxEntries)
BY DEF PxMappers

\* An event of one of the four kinds is an entry.
LEMMA EntryMade ==
  ASSUME NEW ev \in {"text", "open", "args", "close"}, NEW at \in Nat, NEW id \in Nat
  PROVE PxEvent(ev, at, id) \in PxEntries
BY DEF PxEvent, PxEntries

\* A mapper with these parts.
PxIs(m, next, open, calls, text, events) ==
  /\ m \in PxMappers /\ m.next = next /\ m.open = open /\ m.calls = calls
  /\ m.text = text /\ m.events = events

LEMMA MapperIs ==
  ASSUME NEW m \in PxMappers
  PROVE PxIs(m, m.next, m.open, m.calls, m.text, m.events)
BY DEF PxIs

\* What the updates of a mapper make of it.
LEMMA EmitIs ==
  ASSUME NEW m, NEW next, NEW open, NEW calls, NEW text, NEW events,
    PxIs(m, next, open, calls, text, events), NEW e \in PxEntries
  PROVE PxIs(PxEmit(m, <<e>>), next, open, calls, text, Append(events, e))
<1> DEFINE v == Append(events, e)
<1>1. m \in PxMappers /\ events \in Seq(PxEntries) /\ m.events = events BY MapperParts DEF PxIs
<1>2. v \in Seq(PxEntries) /\ PxEmit(m, <<e>>) = [m EXCEPT !.events = v]
  BY <1>1, AppendIsConcat, AppendProperties DEF PxEmit
<1> HIDE DEF v
<1>3. PxIs([m EXCEPT !.events = v], next, open, calls, text, v) BY <1>2 DEF PxIs, PxMappers
<1> QED BY <1>2, <1>3 DEF v

LEMMA SayIs ==
  ASSUME NEW m, NEW next, NEW open, NEW calls, NEW text, NEW events,
    PxIs(m, next, open, calls, text, events), NEW e \in PxEntries
  PROVE PxIs(PxSay(m, e), next, open, calls, Append(text, e), events)
<1> DEFINE v == Append(text, e)
<1>1. m \in PxMappers /\ text \in Seq(PxEntries) /\ m.text = text BY MapperParts DEF PxIs
<1>2. v \in Seq(PxEntries) /\ PxSay(m, e) = [m EXCEPT !.text = v]
  BY <1>1, AppendProperties DEF PxSay
<1> HIDE DEF v
<1>3. PxIs([m EXCEPT !.text = v], next, open, calls, v, events) BY <1>2 DEF PxIs, PxMappers
<1> QED BY <1>2, <1>3 DEF v

LEMMA MoveIs ==
  ASSUME NEW m, NEW next, NEW open, NEW calls, NEW text, NEW events,
    PxIs(m, next, open, calls, text, events), NEW o \in Nat \cup {-1}, NEW n \in Nat
  PROVE PxIs(PxMove(m, o, n), n, o, calls, text, events)
BY DEF PxMove, PxIs, PxMappers

LEMMA CallIs ==
  ASSUME NEW m, NEW next, NEW open, NEW calls, NEW text, NEW events,
    PxIs(m, next, open, calls, text, events), NEW x \in Nat, NEW at \in Nat
  PROVE PxIs(PxWithCall(m, x, at), next, open, PxMore(calls, x, at), text, events)
<1> DEFINE c == PxMore(calls, x, at)
<1>1. m \in PxMappers /\ calls \in PxCallMaps /\ m.calls = calls BY MapperParts DEF PxIs
<1>2. c \in PxCallMaps BY <1>1, CallMaps
<1>3. PxWithCall(m, x, at) = [m EXCEPT !.calls = c] BY <1>1 DEF PxWithCall, PxMore
<1> HIDE DEF c
<1>4. PxIs([m EXCEPT !.calls = c], next, open, c, text, events) BY <1>2 DEF PxIs, PxMappers
<1> QED BY <1>3, <1>4 DEF c

\* Two events are one after the other.
LEMMA EmitTwo ==
  ASSUME NEW m \in PxMappers, NEW a \in PxEntries, NEW b \in PxEntries
  PROVE
    /\ PxEmit(m, <<a, b>>) = PxEmit(PxEmit(m, <<a>>), <<b>>)
    /\ PxEmit(m, <<a>> \o <<b>>) = PxEmit(PxEmit(m, <<a>>), <<b>>)
    /\ PxEmit(m, <<>> \o <<b>>) = PxEmit(m, <<b>>)
<1>1. m.events \in Seq(PxEntries) /\ <<a>> \in Seq(PxEntries) /\ <<b>> \in Seq(PxEntries)
  BY MapperParts
<1>2.
  /\ (m.events \o <<a>>) \o <<b>> = m.events \o (<<a>> \o <<b>>)
  /\ <<a, b>> = <<a>> \o <<b>> /\ <<>> \o <<b>> = <<b>>
 <2>1. <<a, b>> = Append(<<a>>, b) OBVIOUS
 <2>2. Append(<<a>>, b) = <<a>> \o <<b>> BY <1>1, AppendIsConcat
 <2> QED BY <1>1, <2>1, <2>2, ConcatAssociative, ConcatEmptySeq
<1>3. ASSUME NEW v, NEW w
  PROVE PxEmit(PxEmit(m, v), w) = [m EXCEPT !.events = (m.events \o v) \o w]
  BY DEF PxEmit, PxMappers
<1> QED BY <1>2, <1>3 DEF PxEmit

\* What a chunk says, and when an answer may go on with it.
PxSaying(L, c) ==
  CASE c.t = "text" -> PxLedger(L.texts \cup {c.id}, L.calls, L.done, L.args)
    [] c.t = "start" -> PxLedger(L.texts, L.calls \cup {c.id}, L.done, L.args)
    [] c.t = "delta" -> PxLedger(L.texts, L.calls, L.done, [L.args EXCEPT ![c.id] = @ + 1])
    [] c.t = "end" -> PxLedger(L.texts, L.calls, L.done \cup {c.id}, L.args)
    [] OTHER -> L

PxMaySay(L, c) ==
  /\ c.t = "text" => \A y \in L.texts : y < c.id
  /\ c.t = "start" => c.id \notin L.calls /\ c.id # 0 /\ L.args[c.id] = 0
  /\ c.t \in {"delta", "end"} => c.id \in L.calls /\ c.id \notin L.done

\* A ledger of texts only, and one without texts.
PxOfTexts(L) == PxLedger(L.texts, {}, {}, [x \in Nat |-> 0])
PxOfCalls(L) == PxLedger({}, L.calls, L.done, L.args)

\* What a mapper has told, whether it has a block of text open or not.
PxTells(m, L, closes, indexed, bound) ==
  /\ m \in PxMappers /\ L \in PxLedgers /\ DOMAIN m.calls = L.calls
  /\ m.open = -1 => PxSound(m.events, L, FALSE, closes, indexed, bound)
  /\ m.open # -1 => PxSound(m.events, L, TRUE, closes, indexed, bound)

\* The answers of the four mappers, as far as they go.
PxGoodMessages(m, L) == PxTells(m, L, TRUE, TRUE, m.next)
PxGoodChat(m, L) == m.open = -1 /\ PxTells(m, L, FALSE, TRUE, Cardinality(L.calls))
PxGoodResponses(m, L) == PxTells(m, L, TRUE, FALSE, 0)
PxTexts(text, T) ==
  /\ PxSound(text, T, FALSE, FALSE, FALSE, 0)
  /\ \A i \in 1 .. Len(text) : text[i].ev = "text"
PxGoodWhole(m, L) ==
  /\ m.open = -1 /\ L \in PxLedgers
  /\ PxTells(m, PxOfCalls(L), FALSE, FALSE, 0) /\ PxTexts(m.text, PxOfTexts(L))

\* What a chunk says is what the ledger then has.
LEMMA SayingParts ==
  ASSUME NEW L \in PxLedgers, NEW c \in PxChunks, PxMaySay(L, c)
  PROVE
    /\ PxSaying(L, c) \in PxLedgers
    /\ c.id \in Nat /\ c.t \in {"text", "reasoning", "start", "delta", "end", "done"}
    /\ c.t = "text" =>
         /\ PxSaying(L, c) = PxLedger(L.texts \cup {c.id}, L.calls, L.done, L.args)
         /\ PxSaying(L, c).calls = L.calls
         /\ \A y \in L.texts : y < c.id
    /\ c.t = "start" =>
         /\ PxSaying(L, c) = PxLedger(L.texts, L.calls \cup {c.id}, L.done, L.args)
         /\ PxSaying(L, c).calls = L.calls \cup {c.id}
         /\ c.id \in Nat \ {0} /\ c.id \notin L.calls /\ L.args[c.id] = 0
    /\ c.t = "delta" =>
         /\ PxSaying(L, c)
              = PxLedger(L.texts, L.calls, L.done, [L.args EXCEPT ![c.id] = @ + 1])
         /\ PxSaying(L, c).calls = L.calls /\ c.id \in L.calls /\ c.id \notin L.done
    /\ c.t = "end" =>
         /\ PxSaying(L, c) = PxLedger(L.texts, L.calls, L.done \cup {c.id}, L.args)
         /\ PxSaying(L, c).calls = L.calls /\ c.id \in L.calls /\ c.id \notin L.done
    /\ c.t \in {"reasoning", "done"} => PxSaying(L, c) = L
<1>0.
  /\ L.texts \in SUBSET Nat /\ L.calls \in SUBSET (Nat \ {0}) /\ L.done \in SUBSET Nat
  /\ L.args \in [Nat -> Nat] /\ L.done \subseteq L.calls
  BY LedgerParts
<1>1. c.id \in Nat /\ c.t \in {"text", "reasoning", "start", "delta", "end", "done"}
  BY DEF PxChunks
<1>2. ASSUME c.t = "text"
  PROVE
    /\ PxSaying(L, c) = PxLedger(L.texts \cup {c.id}, L.calls, L.done, L.args)
    /\ PxSaying(L, c).calls = L.calls /\ PxSaying(L, c) \in PxLedgers
    /\ \A y \in L.texts : y < c.id
 <2>1. PxSaying(L, c) = PxLedger(L.texts \cup {c.id}, L.calls, L.done, L.args)
   BY <1>2 DEF PxSaying
 <2>2. L.texts \cup {c.id} \in SUBSET Nat BY <1>0, <1>1
 <2>3.
   /\ PxLedger(L.texts \cup {c.id}, L.calls, L.done, L.args) \in PxLedgers
   /\ PxLedger(L.texts \cup {c.id}, L.calls, L.done, L.args).calls = L.calls
   BY ONLY <1>0, <2>2, LedgerMade
 <2>4. \A y \in L.texts : y < c.id BY <1>2 DEF PxMaySay
 <2> QED BY <2>1, <2>3, <2>4
<1>3. ASSUME c.t = "start"
  PROVE
    /\ PxSaying(L, c) = PxLedger(L.texts, L.calls \cup {c.id}, L.done, L.args)
    /\ PxSaying(L, c).calls = L.calls \cup {c.id} /\ PxSaying(L, c) \in PxLedgers
    /\ c.id \in Nat \ {0} /\ c.id \notin L.calls /\ L.args[c.id] = 0
 <2>1. PxSaying(L, c) = PxLedger(L.texts, L.calls \cup {c.id}, L.done, L.args)
   BY <1>3 DEF PxSaying
 <2>4. c.id \in Nat \ {0} /\ c.id \notin L.calls /\ L.args[c.id] = 0 BY <1>1, <1>3 DEF PxMaySay
 <2>2. L.calls \cup {c.id} \in SUBSET (Nat \ {0}) /\ L.done \subseteq L.calls \cup {c.id}
   BY <1>0, <2>4
 <2>3.
   /\ PxLedger(L.texts, L.calls \cup {c.id}, L.done, L.args) \in PxLedgers
   /\ PxLedger(L.texts, L.calls \cup {c.id}, L.done, L.args).calls = L.calls \cup {c.id}
   BY ONLY <1>0, <2>2, LedgerMade
 <2> QED BY <2>1, <2>3, <2>4
<1>4. ASSUME c.t = "delta"
  PROVE
    /\ PxSaying(L, c)
         = PxLedger(L.texts, L.calls, L.done, [L.args EXCEPT ![c.id] = @ + 1])
    /\ PxSaying(L, c).calls = L.calls /\ PxSaying(L, c) \in PxLedgers
    /\ c.id \in L.calls /\ c.id \notin L.done
 <2> DEFINE args == [L.args EXCEPT ![c.id] = @ + 1]
 <2>1. PxSaying(L, c) = PxLedger(L.texts, L.calls, L.done, args) BY <1>4 DEF PxSaying
 <2>4. c.id \in L.calls /\ c.id \notin L.done BY <1>4 DEF PxMaySay
 <2>2. args \in [Nat -> Nat]
  <3>1. ASSUME NEW f \in [Nat -> Nat], NEW y \in Nat
    PROVE [f EXCEPT ![y] = @ + 1] \in [Nat -> Nat]
    OBVIOUS
  <3> QED BY ONLY <1>0, <1>1, <3>1
 <2> HIDE DEF args
 <2>3.
   /\ PxLedger(L.texts, L.calls, L.done, args) \in PxLedgers
   /\ PxLedger(L.texts, L.calls, L.done, args).calls = L.calls
   BY ONLY <1>0, <2>2, LedgerMade
 <2> QED BY <2>1, <2>3, <2>4 DEF args
<1>5. ASSUME c.t = "end"
  PROVE
    /\ PxSaying(L, c) = PxLedger(L.texts, L.calls, L.done \cup {c.id}, L.args)
    /\ PxSaying(L, c).calls = L.calls /\ PxSaying(L, c) \in PxLedgers
    /\ c.id \in L.calls /\ c.id \notin L.done
 <2>1. PxSaying(L, c) = PxLedger(L.texts, L.calls, L.done \cup {c.id}, L.args)
   BY <1>5 DEF PxSaying
 <2>4. c.id \in L.calls /\ c.id \notin L.done BY <1>5 DEF PxMaySay
 <2>2. L.done \cup {c.id} \in SUBSET Nat /\ L.done \cup {c.id} \subseteq L.calls
   BY <1>0, <1>1, <2>4
 <2>3.
   /\ PxLedger(L.texts, L.calls, L.done \cup {c.id}, L.args) \in PxLedgers
   /\ PxLedger(L.texts, L.calls, L.done \cup {c.id}, L.args).calls = L.calls
   BY ONLY <1>0, <2>2, LedgerMade
 <2> QED BY <2>1, <2>3, <2>4
<1>6. c.t \in {"reasoning", "done"} => PxSaying(L, c) = L BY DEF PxSaying
<1> QED BY <1>1, <1>2, <1>3, <1>4, <1>5, <1>6

\* A call that is done is one in no protocol that says nothing of it.
LEMMA SoundDone ==
  ASSUME NEW w, NEW L, NEW open, NEW indexed, NEW bound,
    PxSound(w, L, open, FALSE, indexed, bound), NEW x \in L.calls
  PROVE
    PxSound(w, PxLedger(L.texts, L.calls, L.done \cup {x}, L.args), open, FALSE, indexed,
            bound)
<1> DEFINE M == PxLedger(L.texts, L.calls, L.done \cup {x}, L.args)
<1>1. w \in Seq(PxEntries) /\ L \in PxLedgers BY DEF PxSound
<1>2.
  /\ L.texts \in SUBSET Nat /\ L.calls \in SUBSET (Nat \ {0}) /\ L.done \cup {x} \in SUBSET Nat
  /\ L.args \in [Nat -> Nat] /\ L.done \cup {x} \subseteq L.calls
 <2>1.
   /\ L.texts \in SUBSET Nat /\ L.calls \in SUBSET (Nat \ {0}) /\ L.done \in SUBSET Nat
   /\ L.args \in [Nat -> Nat] /\ L.done \subseteq L.calls
   BY <1>1, LedgerParts
 <2> QED BY <2>1
<1>3. M \in PxLedgers /\ M.texts = L.texts /\ M.calls = L.calls /\ M.args = L.args
  BY ONLY <1>2, LedgerMade
<1> HIDE DEF M
<1>4.
  PxTold(w, M.texts) /\ PxCallsTold(w, M) /\ PxBlocksTold(w, open)
  /\ (indexed => PxIndexed(w, bound))
  BY <1>3 DEF PxSound, PxCallsTold
<1> QED BY <1>1, <1>3, <1>4 DEF PxSound, M

\* One event more, by which the mapper has told what is in a new ledger.
LEMMA TellsOn ==
  ASSUME NEW m, NEW L, NEW closes, NEW indexed, NEW bound, PxTells(m, L, closes, indexed, bound),
    NEW e \in PxEntries, NEW M \in PxLedgers, M.calls = L.calls,
    \A open : PxSound(m.events, L, open, closes, indexed, bound)
                => PxSound(Append(m.events, e), M, open, closes, indexed, bound)
  PROVE PxTells(PxEmit(m, <<e>>), M, closes, indexed, bound)
<1>1. PxIs(PxEmit(m, <<e>>), m.next, m.open, m.calls, m.text, Append(m.events, e))
  BY MapperIs, EmitIs DEF PxTells
<1> QED BY <1>1 DEF PxTells, PxIs

\* A text, a piece of arguments or the end of a call is told.
LEMMA TellsChunk ==
  ASSUME NEW m, NEW L, NEW closes, NEW indexed, NEW bound, PxTells(m, L, closes, indexed, bound),
    NEW c \in PxChunks, PxMaySay(L, c), NEW M, M = PxSaying(L, c)
  PROVE
    /\ c.t = "text" => \A at \in Nat :
         PxTells(PxEmit(m, <<PxEvent("text", at, c.id)>>), M, closes, indexed, bound)
    /\ c.t = "delta" => /\ PxKnows(m, c.id) /\ m.calls[c.id] \in Nat
                        /\ PxTells(PxEmit(m, <<PxEvent("args", m.calls[c.id], c.id)>>), M,
                                   closes, indexed, bound)
    /\ c.t = "end" => /\ PxKnows(m, c.id) /\ m.calls[c.id] \in Nat
                      /\ PxTells(PxEmit(m, <<PxEvent("close", m.calls[c.id], c.id)>>), M,
                                 closes, indexed, bound)
                      /\ closes = FALSE => PxTells(m, M, closes, indexed, bound)
    /\ c.t \in {"reasoning", "done"} => PxTells(m, M, closes, indexed, bound)
<1>1.
  /\ m \in PxMappers /\ L \in PxLedgers /\ M \in PxLedgers /\ DOMAIN m.calls = L.calls
  /\ c.id \in Nat /\ m.calls \in PxCallMaps
  BY SayingParts, MapperParts DEF PxTells
<1>2. ASSUME c.t = "text", NEW at \in Nat
  PROVE PxTells(PxEmit(m, <<PxEvent("text", at, c.id)>>), M, closes, indexed, bound)
 <2>1.
   /\ M = PxLedger(L.texts \cup {c.id}, L.calls, L.done, L.args) /\ M.calls = L.calls
   /\ \A y \in L.texts : y < c.id
   BY <1>1, <1>2, SayingParts
 <2>2. PxEvent("text", at, c.id) \in PxEntries BY <1>1, EntryMade
 <2> QED BY <1>1, <2>1, <2>2, SoundText, TellsOn
<1>3. ASSUME c.t \in {"delta", "end"}
  PROVE PxKnows(m, c.id) /\ m.calls[c.id] \in Nat /\ c.id \in L.calls /\ c.id \notin L.done
  BY <1>1, <1>3, SayingParts, CallMaps DEF PxKnows
<1>4. ASSUME c.t = "delta"
  PROVE PxTells(PxEmit(m, <<PxEvent("args", m.calls[c.id], c.id)>>), M, closes, indexed, bound)
 <2>1.
   /\ M = PxLedger(L.texts, L.calls, L.done, [L.args EXCEPT ![c.id] = @ + 1])
   /\ M.calls = L.calls
   BY <1>1, <1>4, SayingParts
 <2>2. PxEvent("args", m.calls[c.id], c.id) \in PxEntries BY <1>1, <1>3, <1>4, EntryMade
 <2> QED BY <1>1, <1>3, <1>4, <2>1, <2>2, SoundArgs, TellsOn
<1>5. ASSUME c.t = "end"
  PROVE
    /\ PxTells(PxEmit(m, <<PxEvent("close", m.calls[c.id], c.id)>>), M,
               closes, indexed, bound)
    /\ closes = FALSE => PxTells(m, M, closes, indexed, bound)
 <2>1. M = PxLedger(L.texts, L.calls, L.done \cup {c.id}, L.args) /\ M.calls = L.calls
   BY <1>1, <1>5, SayingParts
 <2>2. PxEvent("close", m.calls[c.id], c.id) \in PxEntries BY <1>1, <1>3, <1>5, EntryMade
 <2>3. PxTells(PxEmit(m, <<PxEvent("close", m.calls[c.id], c.id)>>), M, closes, indexed, bound)
   BY <1>1, <1>3, <1>5, <2>1, <2>2, SoundClose, TellsOn
 <2>4. ASSUME closes = FALSE
   PROVE PxTells(m, M, closes, indexed, bound)
  <3>1. ASSUME NEW open, PxSound(m.events, L, open, closes, indexed, bound)
    PROVE PxSound(m.events, M, open, closes, indexed, bound)
    BY <1>3, <1>5, <2>1, <2>4, <3>1, SoundDone
  <3> QED BY <1>1, <2>1, <3>1 DEF PxTells
 <2> QED BY <2>3, <2>4
<1>6. c.t \in {"reasoning", "done"} => M = L BY <1>1, SayingParts
<1> QED BY <1>2, <1>3, <1>4, <1>5, <1>6

\* A call is told when no block of text is open.
LEMMA TellsCall ==
  ASSUME NEW m, NEW L, NEW closes, NEW indexed, NEW bound \in Nat,
    PxTells(m, L, closes, indexed, bound), m.open = -1,
    NEW c \in PxChunks, PxMaySay(L, c), c.t = "start", NEW at \in Nat, NEW more \in Nat,
    indexed => bound <= at /\ at < more,
    NEW k \in PxMappers, k.open = -1, DOMAIN k.calls = DOMAIN m.calls \cup {c.id},
    k.events = Append(m.events, PxEvent("open", at, c.id))
  PROVE PxTells(k, PxSaying(L, c), closes, indexed, more)
<1> DEFINE M == PxSaying(L, c)
<1>1.
  /\ M = PxLedger(L.texts, L.calls \cup {c.id}, L.done, L.args) /\ M \in PxLedgers
  /\ M.calls = L.calls \cup {c.id} /\ c.id \in Nat \ {0} /\ c.id \notin L.calls
  /\ L.args[c.id] = 0 /\ DOMAIN m.calls = L.calls
  /\ PxSound(m.events, L, FALSE, closes, indexed, bound)
  BY SayingParts DEF PxTells
<1>2.
  PxSound(Append(m.events, PxEvent("open", at, c.id)),
          PxLedger(L.texts, L.calls \cup {c.id}, L.done, L.args), FALSE, closes, indexed, more)
  BY <1>1, SoundOpen
<1> QED BY <1>1, <1>2 DEF PxTells

\* A block of text is opened, or shut.
LEMMA TellsBlock ==
  ASSUME NEW m, NEW L, NEW closes, NEW indexed, NEW bound \in Nat,
    PxTells(m, L, closes, indexed, bound), NEW at \in Nat, NEW more \in Nat,
    NEW n \in Nat
  PROVE
    /\ \A o \in Nat : (m.open = -1 /\ (indexed => bound <= at /\ at < more)) =>
         PxTells(PxEmit(PxMove(m, o, n), <<PxEvent("open", at, 0)>>), L,
                 closes, indexed, more)
    /\ m.open # -1 =>
         PxTells(PxEmit(PxMove(m, -1, n), <<PxEvent("close", at, 0)>>), L,
                 closes, indexed, bound)
<1>1. m \in PxMappers /\ L \in PxLedgers /\ DOMAIN m.calls = L.calls BY DEF PxTells
<1>2. PxEvent("open", at, 0) \in PxEntries /\ PxEvent("close", at, 0) \in PxEntries BY EntryMade
<1>3. ASSUME NEW o \in Nat \cup {-1}, NEW e \in PxEntries
  PROVE PxIs(PxEmit(PxMove(m, o, n), <<e>>), n, o, m.calls, m.text, Append(m.events, e))
  BY <1>1, MapperIs, MoveIs, EmitIs
<1>4. ASSUME NEW o \in Nat, m.open = -1, indexed => bound <= at /\ at < more
  PROVE
    PxTells(PxEmit(PxMove(m, o, n), <<PxEvent("open", at, 0)>>), L,
            closes, indexed, more)
 <2>1. PxSound(Append(m.events, PxEvent("open", at, 0)), L, TRUE, closes, indexed, more)
   BY <1>4, SoundBlock DEF PxTells
 <2>2.
   PxIs(PxEmit(PxMove(m, o, n), <<PxEvent("open", at, 0)>>), n, o, m.calls, m.text,
        Append(m.events, PxEvent("open", at, 0)))
   BY <1>2, <1>3
 <2>3. o # -1 OBVIOUS
 <2> QED BY <1>1, <2>1, <2>2, <2>3 DEF PxTells, PxIs
<1>5. ASSUME m.open # -1
  PROVE
    PxTells(PxEmit(PxMove(m, -1, n), <<PxEvent("close", at, 0)>>), L,
            closes, indexed, bound)
 <2>1. PxSound(Append(m.events, PxEvent("close", at, 0)), L, FALSE, closes, indexed, bound)
   BY <1>5, SoundBlock DEF PxTells
 <2>2.
   PxIs(PxEmit(PxMove(m, -1, n), <<PxEvent("close", at, 0)>>), n, -1, m.calls, m.text,
        Append(m.events, PxEvent("close", at, 0)))
   BY <1>2, <1>3
 <2> QED BY <1>1, <2>1, <2>2 DEF PxTells, PxIs
<1> QED BY <1>4, <1>5

\* A call is told after the open block, if there is one, is shut.
PxStarted(m, id, at, n, last) ==
  PxEmit(PxMove(PxWithCall(m, id, at), -1, n),
         (IF m.open = -1 THEN <<>> ELSE <<PxEvent("close", last, 0)>>)
           \o <<PxEvent("open", at, id)>>)

LEMMA TellsStart ==
  ASSUME NEW m, NEW L, NEW closes, NEW indexed, NEW bound \in Nat,
    PxTells(m, L, closes, indexed, bound),
    NEW c \in PxChunks, PxMaySay(L, c), c.t = "start",
    NEW at \in Nat, NEW more \in Nat, indexed => bound <= at /\ at < more,
    NEW last \in Nat, NEW n \in Nat, NEW k, k = PxStarted(m, c.id, at, n, last)
  PROVE PxTells(k, PxSaying(L, c), closes, indexed, more) /\ k.next = n
<1> DEFINE shut == PxEvent("close", last, 0)
  b == PxEvent("open", at, c.id)
  x == PxMore(m.calls, c.id, at)
  w == PxMove(PxWithCall(m, c.id, at), -1, n)
<1>1.
  /\ m \in PxMappers /\ c.id \in Nat /\ b \in PxEntries /\ shut \in PxEntries
  /\ PxIs(m, m.next, m.open, m.calls, m.text, m.events)
  BY EntryMade, MapperIs DEF PxTells, PxChunks
<1>2. PxIs(w, n, -1, x, m.text, m.events) /\ DOMAIN x = DOMAIN m.calls \cup {c.id}
 <2>1.
   /\ PxIs(PxWithCall(m, c.id, at), m.next, m.open, x, m.text, m.events)
   /\ DOMAIN x = DOMAIN m.calls \cup {c.id}
  <3>1. PxIs(PxWithCall(m, c.id, at), m.next, m.open, x, m.text, m.events) BY <1>1, CallIs
  <3>2. DOMAIN x = DOMAIN m.calls \cup {c.id} BY DEF PxMore
  <3> QED BY <3>1, <3>2
 <2> HIDE DEF x
 <2>2. -1 \in Nat \cup {-1} OBVIOUS
 <2> QED BY <2>1, <2>2, MoveIs
<1>3. w \in PxMappers BY <1>2 DEF PxIs
<1> HIDE DEF shut, b, x, w
<1>4. CASE m.open = -1
 <2>1. k = PxEmit(w, <<b>>) BY <1>1, <1>3, <1>4, EmitTwo DEF PxStarted, shut, b, w
 <2>2. PxIs(k, n, -1, x, m.text, Append(m.events, b)) BY <1>1, <1>2, <2>1, EmitIs
 <2>3. PxTells(k, PxSaying(L, c), closes, indexed, more)
   BY <1>2, <1>4, <2>2, TellsCall DEF b, PxIs
 <2> QED BY <2>2, <2>3 DEF PxIs
<1>5. CASE m.open # -1
 <2> DEFINE l == PxEmit(PxMove(m, -1, m.next), <<shut>>)
 <2>1. k = PxEmit(PxEmit(w, <<shut>>), <<b>>)
   BY <1>1, <1>3, <1>5, EmitTwo DEF PxStarted, shut, b, w
 <2>2. PxIs(PxEmit(w, <<shut>>), n, -1, x, m.text, Append(m.events, shut)) BY <1>1, <1>2, EmitIs
 <2>3. PxIs(k, n, -1, x, m.text, Append(Append(m.events, shut), b)) BY <1>1, <2>1, <2>2, EmitIs
 <2>4. m.next \in Nat /\ -1 \in Nat \cup {-1} BY <1>1, MapperParts
 <2>5. PxIs(PxMove(m, -1, m.next), m.next, -1, m.calls, m.text, m.events) BY <1>1, <2>4, MoveIs
 <2>6. PxIs(l, m.next, -1, m.calls, m.text, Append(m.events, shut)) BY <1>1, <2>5, EmitIs
 <2>7. PxTells(l, L, closes, indexed, bound) BY <1>5, <2>4, TellsBlock DEF shut
 <2> HIDE DEF l
 <2>8. PxTells(k, PxSaying(L, c), closes, indexed, more)
  <3>1. /\ k \in PxMappers /\ k.open = -1 /\ DOMAIN k.calls = DOMAIN l.calls \cup {c.id}
        /\ l.open = -1 /\ k.events = Append(l.events, PxEvent("open", at, c.id))
    BY <1>2, <2>3, <2>6 DEF PxIs, b
  <3> QED BY <2>7, <3>1, TellsCall
 <2> QED BY <2>3, <2>8 DEF PxIs
<1> QED BY <1>4, <1>5

\* A good answer stays one, chunk after chunk.
LEMMA AnthropicStep ==
  ASSUME NEW m, NEW L, PxGoodMessages(m, L), NEW c \in PxChunks, PxMaySay(L, c)
  PROVE PxGoodMessages(PxAnthropic(m, c), PxSaying(L, c))
<1> DEFINE M == PxSaying(L, c)
<1>1.
  /\ PxTells(m, L, TRUE, TRUE, m.next) /\ m \in PxMappers /\ L \in PxLedgers
  /\ m.next \in Nat /\ m.next + 1 \in Nat /\ m.next <= m.next /\ m.next < m.next + 1
  /\ m.open \in Nat \cup {-1} /\ -1 \in Nat \cup {-1} /\ m.next # -1 /\ c.id \in Nat
  /\ c.t \in {"text", "reasoning", "start", "delta", "end", "done"}
 <2>1. PxTells(m, L, TRUE, TRUE, m.next) /\ m \in PxMappers /\ L \in PxLedgers
   BY DEF PxGoodMessages, PxTells
 <2>2. m.next \in Nat /\ m.open \in Nat \cup {-1} BY <2>1, MapperParts
 <2>3. c.id \in Nat /\ c.t \in {"text", "reasoning", "start", "delta", "end", "done"}
   BY DEF PxChunks
 <2>4. \A n \in Nat : n + 1 \in Nat /\ n <= n /\ n < n + 1 /\ n # -1 OBVIOUS
 <2> QED BY <2>1, <2>2, <2>3, <2>4
<1>2. ASSUME NEW k, NEW n, NEW o, NEW x, NEW s, NEW w, PxTells(k, M, TRUE, TRUE, n),
    PxIs(k, n, o, x, s, w), PxAnthropic(m, c) = k
  PROVE PxGoodMessages(PxAnthropic(m, c), M)
  BY <1>2 DEF PxGoodMessages, PxIs
<1>3. PxIs(m, m.next, m.open, m.calls, m.text, m.events) BY <1>1, MapperIs
<1> SUFFICES PxGoodMessages(PxAnthropic(m, c), M) OBVIOUS
<1> HIDE DEF M
<1>4. CASE c.t = "text" /\ m.open = -1
 <2> DEFINE a == PxEvent("open", m.next, 0)
   b == PxEvent("text", m.next, c.id)
   l == PxMove(m, m.next, m.next + 1)
   k == PxEmit(l, <<a>>)
 <2>1. PxTells(k, L, TRUE, TRUE, m.next + 1) BY <1>1, <1>4, TellsBlock
 <2>2. PxTells(PxEmit(k, <<b>>), M, TRUE, TRUE, m.next + 1)
   BY <1>1, <1>4, <2>1, TellsChunk DEF M
 <2>3. a \in PxEntries /\ b \in PxEntries BY <1>1, EntryMade
 <2>4. PxAnthropic(m, c) = PxEmit(l, <<a, b>>) BY <1>4 DEF PxAnthropic
 <2> HIDE DEF a, b, l
 <2>5. PxIs(l, m.next + 1, m.next, m.calls, m.text, m.events) BY <1>1, <1>3, MoveIs DEF l
 <2>6.
   PxIs(PxEmit(k, <<b>>), m.next + 1, m.next, m.calls, m.text,
        Append(Append(m.events, a), b))
   BY <2>3, <2>5, EmitIs
 <2>7. PxAnthropic(m, c) = PxEmit(k, <<b>>) BY <2>3, <2>4, <2>5, EmitTwo DEF PxIs
 <2> QED BY <1>2, <2>2, <2>6, <2>7
<1>5. CASE c.t = "text" /\ m.open # -1
 <2> DEFINE b == PxEvent("text", m.open, c.id)
 <2>1. m.open \in Nat /\ b \in PxEntries BY <1>1, <1>5, EntryMade
 <2>2. PxTells(PxEmit(m, <<b>>), M, TRUE, TRUE, m.next) BY <1>1, <1>5, <2>1, TellsChunk DEF M
 <2>3. PxAnthropic(m, c) = PxEmit(m, <<b>>) BY <1>5 DEF PxAnthropic
 <2>4. PxIs(PxEmit(m, <<b>>), m.next, m.open, m.calls, m.text, Append(m.events, b))
   BY <1>3, <2>1, EmitIs
 <2> QED BY <1>2, <2>2, <2>3, <2>4
<1>6. CASE c.t = "start"
 <2>1. PICK last \in Nat : PxAnthropic(m, c) = PxStarted(m, c.id, m.next, m.next + 1, last)
  <3>1. PxAnthropic(m, c) = PxStarted(m, c.id, m.next, m.next + 1, m.open)
    BY <1>6 DEF PxAnthropic, PxStarted
  <3>2. CASE m.open = -1 BY <1>1, <3>1, <3>2 DEF PxStarted
  <3>3. CASE m.open # -1 BY <1>1, <3>1, <3>3
  <3> QED BY <3>2, <3>3
 <2> DEFINE n == m.next + 1
   k == PxStarted(m, c.id, m.next, n, last)
 <2>2. n \in Nat /\ m.next \in Nat /\ m.next <= m.next /\ m.next < n BY <1>1
 <2>3. k = PxStarted(m, c.id, m.next, n, last) OBVIOUS
 <2> HIDE DEF k, n
 <2>4. PxTells(k, M, TRUE, TRUE, n) /\ k.next = n
  <3>1. ASSUME NEW closes, NEW indexed, PxTells(m, L, closes, indexed, m.next)
    PROVE PxTells(k, M, closes, indexed, n) /\ k.next = n
    BY <1>6, <2>2, <2>3, <3>1, TellsStart DEF M
  <3> QED BY <1>1, <3>1
 <2> QED BY <2>1, <2>4 DEF PxGoodMessages, k, n
<1>7. CASE c.t \in {"delta", "end"}
 <2> DEFINE e == PxEvent(IF c.t = "delta" THEN "args" ELSE "close", m.calls[c.id], c.id)
 <2>1. PxTells(PxEmit(m, <<e>>), M, TRUE, TRUE, m.next) /\ e \in PxEntries
   BY <1>1, <1>7, TellsChunk, EntryMade DEF M
 <2>2. PxAnthropic(m, c) = PxEmit(m, <<e>>) BY <1>1, <1>7, TellsChunk DEF PxAnthropic
 <2>3. PxIs(PxEmit(m, <<e>>), m.next, m.open, m.calls, m.text, Append(m.events, e))
   BY <1>3, <2>1, EmitIs
 <2> QED BY <1>2, <2>1, <2>2, <2>3
<1>8. CASE c.t \in {"reasoning", "done"}
 <2>1. PxAnthropic(m, c) = m /\ PxTells(m, M, TRUE, TRUE, m.next)
   BY <1>1, <1>8, TellsChunk DEF PxAnthropic, M
 <2> QED BY <1>2, <1>3, <2>1
<1> QED BY <1>1, <1>4, <1>5, <1>6, <1>7, <1>8

\* The parts of the two ledgers of an answer without a stream.
LEMMA OfParts ==
  ASSUME NEW L \in PxLedgers
  PROVE
    /\ PxOfTexts(L) \in PxLedgers /\ PxOfTexts(L).texts = L.texts
    /\ PxOfTexts(L).calls = {} /\ PxOfTexts(L).done = {}
    /\ PxOfTexts(L).args = [x \in Nat |-> 0]
    /\ PxOfCalls(L) \in PxLedgers /\ PxOfCalls(L).texts = {}
    /\ PxOfCalls(L).calls = L.calls /\ PxOfCalls(L).done = L.done
    /\ PxOfCalls(L).args = L.args
<1>1.
  /\ L.texts \in SUBSET Nat /\ L.calls \in SUBSET (Nat \ {0}) /\ L.done \in SUBSET Nat
  /\ L.args \in [Nat -> Nat] /\ L.done \subseteq L.calls
  BY LedgerParts
<1>2.
  /\ {} \in SUBSET Nat /\ {} \in SUBSET (Nat \ {0}) /\ {} \subseteq {}
  /\ [x \in Nat |-> 0] \in [Nat -> Nat]
  OBVIOUS
<1> DEFINE zero == [x \in Nat |-> 0]
<1> HIDE DEF zero
<1>3. zero \in [Nat -> Nat] BY <1>2 DEF zero
<1>4.
  /\ PxLedger(L.texts, {}, {}, zero) \in PxLedgers
  /\ PxLedger(L.texts, {}, {}, zero).texts = L.texts
  /\ PxLedger(L.texts, {}, {}, zero).calls = {} /\ PxLedger(L.texts, {}, {}, zero).done = {}
  /\ PxLedger(L.texts, {}, {}, zero).args = zero
  BY ONLY <1>1, <1>2, <1>3, LedgerMade
<1>5.
  /\ PxLedger({}, L.calls, L.done, L.args) \in PxLedgers
  /\ PxLedger({}, L.calls, L.done, L.args).texts = {}
  /\ PxLedger({}, L.calls, L.done, L.args).calls = L.calls
  /\ PxLedger({}, L.calls, L.done, L.args).done = L.done
  /\ PxLedger({}, L.calls, L.done, L.args).args = L.args
  BY ONLY <1>1, <1>2, LedgerMade
<1> QED BY <1>4, <1>5 DEF PxOfTexts, PxOfCalls, zero

\* The same for toOpenAiChatSseChunks.
LEMMA ChatStep ==
  ASSUME NEW m, NEW L, PxGoodChat(m, L), NEW c \in PxChunks, PxMaySay(L, c)
  PROVE PxGoodChat(PxChat(m, c), PxSaying(L, c))
<1> DEFINE M == PxSaying(L, c)
  n == Cardinality(L.calls)
<1>1.
  /\ PxTells(m, L, FALSE, TRUE, n) /\ m.open = -1 /\ m \in PxMappers /\ L \in PxLedgers
  /\ DOMAIN m.calls = L.calls
  BY DEF PxGoodChat, PxTells
<1>2.
  /\ n \in Nat /\ n + 1 \in Nat /\ n <= n /\ n < n + 1
  /\ c.id \notin L.calls => Cardinality(L.calls \cup {c.id}) = n + 1
  /\ c.id \in Nat /\ c.t \in {"text", "reasoning", "start", "delta", "end", "done"}
 <2>1. m.calls \in PxCallMaps /\ c.id \in Nat BY <1>1, MapperParts DEF PxChunks
 <2>2. n \in Nat /\ (c.id \notin L.calls => Cardinality(L.calls \cup {c.id}) = n + 1)
   BY <1>1, <2>1, CallMaps
 <2>3. \A k \in Nat : k + 1 \in Nat /\ k <= k /\ k < k + 1 OBVIOUS
 <2> QED BY <2>1, <2>2, <2>3 DEF PxChunks
<1>3. PxIs(m, m.next, m.open, m.calls, m.text, m.events) BY <1>1, MapperIs
<1> SUFFICES PxGoodChat(PxChat(m, c), M) OBVIOUS
<1> HIDE DEF M
<1>4. CASE c.t \in {"text", "delta"}
 <2> DEFINE
   e == IF c.t = "text" THEN PxEvent("text", 0, c.id)
        ELSE PxEvent("args", m.calls[c.id], c.id)
 <2>1. PxTells(PxEmit(m, <<e>>), M, FALSE, TRUE, n) /\ PxChat(m, c) = PxEmit(m, <<e>>)
   BY <1>1, <1>4, TellsChunk DEF PxChat, M
 <2>2. e \in PxEntries /\ M.calls = L.calls
   BY <1>1, <1>2, <1>4, SayingParts, TellsChunk, EntryMade DEF M
 <2>3. PxIs(PxEmit(m, <<e>>), m.next, m.open, m.calls, m.text, Append(m.events, e))
   BY <1>3, <2>2, EmitIs
 <2> QED BY <1>1, <2>1, <2>2, <2>3 DEF PxGoodChat, PxIs
<1>5. CASE c.t = "start"
 <2> DEFINE e == PxEvent("open", n, c.id)
   w == PxWithCall(m, c.id, n)
   k == PxEmit(w, <<e>>)
   x == PxMore(m.calls, c.id, n)
 <2>1. PxChat(m, c) = k /\ e \in PxEntries BY <1>1, <1>2, <1>5, EntryMade DEF PxChat
 <2>2. M.calls = L.calls \cup {c.id} /\ c.id \notin L.calls /\ DOMAIN x = L.calls \cup {c.id}
   BY <1>1, <1>5, SayingParts DEF M, PxMore
 <2>3. Cardinality(M.calls) = n + 1 BY <1>2, <2>2
 <2> HIDE DEF n
 <2>4. PxIs(w, m.next, m.open, x, m.text, m.events) BY <1>2, <1>3, CallIs
 <2> HIDE DEF x, w, e
 <2>5. PxIs(k, m.next, m.open, x, m.text, Append(m.events, e)) BY <2>1, <2>4, EmitIs
 <2> HIDE DEF k
 <2>6.
   /\ k \in PxMappers /\ k.open = -1 /\ DOMAIN k.calls = DOMAIN m.calls \cup {c.id}
   /\ k.events = Append(m.events, PxEvent("open", n, c.id))
   BY <1>1, <2>2, <2>5 DEF PxIs, e
 <2>7. ASSUME NEW closes, NEW indexed, PxTells(m, L, closes, indexed, n)
   PROVE PxTells(k, M, closes, indexed, n + 1)
   BY <1>1, <1>2, <1>5, <2>6, <2>7, TellsCall DEF M
 <2> QED BY <1>1, <2>1, <2>3, <2>6, <2>7 DEF PxGoodChat
<1>6. CASE c.t \in {"end", "reasoning", "done"}
 <2>1. PxChat(m, c) = m BY <1>6 DEF PxChat
 <2>2. M.calls = L.calls BY <1>1, <1>6, SayingParts DEF M
 <2>3. PxTells(m, M, FALSE, TRUE, n) BY <1>1, <1>6, TellsChunk DEF M
 <2> QED BY <1>1, <2>1, <2>2, <2>3 DEF PxGoodChat
<1> QED BY <1>2, <1>4, <1>5, <1>6

\* A mapper that moves without a block opened or shut tells the same.
LEMMA TellsMoved ==
  ASSUME NEW m, NEW L, NEW closes, NEW indexed, NEW bound,
    PxTells(m, L, closes, indexed, bound),
    NEW o \in Nat \cup {-1}, NEW n \in Nat, o = -1 <=> m.open = -1
  PROVE
    /\ PxTells(PxMove(m, o, n), L, closes, indexed, bound)
    /\ PxIs(PxMove(m, o, n), n, o, m.calls, m.text, m.events)
<1>1. PxIs(PxMove(m, o, n), n, o, m.calls, m.text, m.events) BY MapperIs, MoveIs DEF PxTells
<1> QED BY <1>1 DEF PxTells, PxIs

\* The same for toResponsesSseEvents.
LEMMA ResponsesStep ==
  ASSUME NEW m, NEW L, PxGoodResponses(m, L), NEW c \in PxChunks, PxMaySay(L, c)
  PROVE PxGoodResponses(PxResponses(m, c), PxSaying(L, c))
<1> DEFINE M == PxSaying(L, c)
  Good(k, K) == PxTells(k, K, TRUE, FALSE, 0)
<1>1. Good(m, L) /\ m \in PxMappers /\ L \in PxLedgers BY DEF PxGoodResponses, PxTells
<1>2.
  /\ m.next \in Nat /\ m.next + 1 \in Nat /\ m.open \in Nat \cup {-1} /\ m.calls \in PxCallMaps
  /\ 0 \in Nat /\ 0 # -1 /\ 0 \in Nat \cup {-1} /\ c.id \in Nat
  /\ c.t \in {"text", "reasoning", "start", "delta", "end", "done"}
 <2>1. m.next \in Nat /\ m.open \in Nat \cup {-1} /\ m.calls \in PxCallMaps BY <1>1, MapperParts
 <2>2. \A k \in Nat : k + 1 \in Nat OBVIOUS
 <2> QED BY <2>1, <2>2 DEF PxChunks
<1> SUFFICES Good(PxResponses(m, c), M) BY DEF PxGoodResponses
<1>3. CASE c.t = "text"
 <2> DEFINE a == PxEvent("open", m.next, 0)
   b == PxEvent("text", m.next, c.id)
   l == PxMove(m, 0, m.next)
 <2>1.
   /\ PxResponses(m, c) = PxEmit(l, (IF m.open = -1 THEN <<a>> ELSE <<>>) \o <<b>>)
   /\ a \in PxEntries /\ b \in PxEntries
   BY <1>2, <1>3, EntryMade DEF PxResponses
 <2>2. PxIs(l, m.next, 0, m.calls, m.text, m.events) BY <1>1, <1>2, MapperIs, MoveIs
 <2>3. l \in PxMappers BY <2>2 DEF PxIs
 <2>4. ASSUME NEW k, Good(k, L)
   PROVE Good(PxEmit(k, <<b>>), M)
   BY <1>2, <1>3, <2>4, TellsChunk
 <2>5. CASE m.open = -1
  <3>1. Good(PxEmit(l, <<a>>), L) BY <1>1, <1>2, <2>5, TellsBlock
  <3>2. Good(PxEmit(PxEmit(l, <<a>>), <<b>>), M) BY <2>4, <3>1
  <3> HIDE DEF a, b, l, M
  <3> QED BY <2>1, <2>3, <2>5, <3>2, EmitTwo
 <2>6. CASE m.open # -1
  <3>1. Good(l, L) BY <1>1, <1>2, <2>6, TellsMoved
  <3>2. Good(PxEmit(l, <<b>>), M) BY <2>4, <3>1
  <3> HIDE DEF a, b, l, M
  <3> QED BY <2>1, <2>3, <2>6, <3>2, EmitTwo
 <2> QED BY <2>5, <2>6
<1>4. CASE c.t = "start"
 <2>1. PICK at \in Nat : PxResponses(m, c) = PxStarted(m, c.id, at, at, m.next)
  <3>1. CASE m.open = -1 BY <1>2, <1>4, <3>1 DEF PxResponses, PxStarted
  <3>2. CASE m.open # -1 BY <1>2, <1>4, <3>2 DEF PxResponses, PxStarted
  <3> QED BY <3>1, <3>2
 <2> DEFINE k == PxStarted(m, c.id, at, at, m.next)
 <2>2. k = PxStarted(m, c.id, at, at, m.next) OBVIOUS
 <2> HIDE DEF k
 <2>3. ASSUME NEW closes, NEW indexed, indexed = FALSE, PxTells(m, L, closes, indexed, 0)
   PROVE PxTells(k, M, closes, indexed, 0)
   BY <1>2, <1>4, <2>2, <2>3, TellsStart
 <2> QED BY <1>1, <2>1, <2>2, <2>3
<1>5. CASE c.t = "delta" BY <1>1, <1>5, TellsChunk DEF PxResponses
<1>6. CASE c.t = "end"
 <2> DEFINE at == m.calls[c.id]
   n == IF m.next > at THEN m.next ELSE at + 1
   l == PxMove(m, m.open, n)
 <2>1. PxKnows(m, c.id) /\ at \in Nat BY <1>1, <1>6, TellsChunk
 <2>2. n \in Nat BY <1>2, <2>1
 <2>3. PxResponses(m, c) = PxEmit(l, <<PxEvent("close", at, c.id)>>)
   BY <1>6, <2>1 DEF PxResponses
 <2> HIDE DEF n
 <2>4. Good(l, L) /\ PxIs(l, n, m.open, m.calls, m.text, m.events)
   BY <1>1, <1>2, <2>2, TellsMoved
 <2>5. l.calls = m.calls BY <2>4 DEF PxIs
 <2> HIDE DEF l, M
 <2>6. Good(PxEmit(l, <<PxEvent("close", l.calls[c.id], c.id)>>), M)
   BY <1>6, <2>4, TellsChunk DEF M
 <2> QED BY <2>3, <2>5, <2>6
<1>7. CASE c.t \in {"reasoning", "done"} BY <1>1, <1>7, TellsChunk DEF PxResponses
<1> QED BY <1>2, <1>3, <1>4, <1>5, <1>6, <1>7

\* The same for buildNonStreamingResponse, whose texts are apart.
LEMMA WholeStep ==
  ASSUME NEW m, NEW L, PxGoodWhole(m, L), NEW c \in PxChunks, PxMaySay(L, c), NEW protocol
  PROVE PxGoodWhole(PxCollect(protocol, m, c), PxSaying(L, c))
<1> DEFINE M == PxSaying(L, c)
  C == PxOfCalls(L)
  T == PxOfTexts(L)
  Good(k, K) == PxTells(k, K, FALSE, FALSE, 0)
  r == PxCollect(protocol, m, c)
<1>1.
  /\ Good(m, C) /\ m.open = -1 /\ m \in PxMappers /\ L \in PxLedgers
  /\ DOMAIN m.calls = L.calls /\ PxTexts(m.text, T)
  BY OfParts DEF PxGoodWhole, PxTells
<1>2.
  /\ m.text \in Seq(PxEntries) /\ m.calls \in PxCallMaps /\ 0 \in Nat
  /\ Cardinality(DOMAIN m.calls) \in Nat /\ c.id \in Nat /\ M \in PxLedgers
  /\ c.t \in {"text", "reasoning", "start", "delta", "end", "done"}
  BY <1>1, MapperParts, CallMaps, SayingParts
<1>3. PxIs(m, m.next, m.open, m.calls, m.text, m.events) BY <1>1, MapperIs
<1>4.
  /\ T.texts = L.texts /\ T.calls = {} /\ T.done = {} /\ T.args = [x \in Nat |-> 0]
  /\ C.texts = {} /\ C.calls = L.calls /\ C.done = L.done /\ C.args = L.args
  BY <1>1, OfParts
<1>5.
  /\ c.t # "text" => /\ PxOfTexts(M) = T /\ PxMaySay(C, c)
                     /\ PxOfCalls(M) = PxSaying(C, c)
  /\ c.t = "text" => /\ PxOfCalls(M) = C /\ \A y \in T.texts : y < c.id
                     /\ PxOfTexts(M) = PxLedger(T.texts \cup {c.id}, T.calls, T.done, T.args)
 <2>1. L = PxLedger(L.texts, L.calls, L.done, L.args) BY <1>1, LedgerParts
 <2>2. c.t # "text" => M.texts = L.texts BY <1>1, <1>2, <2>1, SayingParts DEF PxLedger
 <2>3. c.t # "text" => PxOfTexts(M) = T BY <2>2 DEF PxOfTexts
 <2>4. c.t # "text" => PxMaySay(C, c) BY <1>4 DEF PxMaySay
 <2>5. c.t # "text" => PxOfCalls(M) = PxSaying(C, c)
   BY <1>2, <1>4 DEF PxSaying, PxOfCalls, PxLedger
 <2>6. c.t = "text" => PxOfCalls(M) = C BY DEF PxSaying, PxOfCalls, PxLedger
 <2>7. c.t = "text" => PxOfTexts(M) = PxLedger(T.texts \cup {c.id}, T.calls, T.done, T.args)
   BY DEF PxSaying, PxOfTexts, PxLedger
 <2>8. c.t = "text" => \A y \in T.texts : y < c.id BY <1>4 DEF PxMaySay
 <2> QED BY <2>3, <2>4, <2>5, <2>6, <2>7, <2>8
<1> HIDE DEF C, T
<1>6. CASE c.t = "text"
 <2> DEFINE a == PxEvent("text", 0, c.id)
 <2>1. r = PxSay(m, a) /\ a \in PxEntries /\ a.ev = "text"
   BY <1>2, <1>6, EntryMade DEF PxCollect, PxEvent
 <2>2. PxSound(Append(m.text, a), PxOfTexts(M), FALSE, FALSE, FALSE, 0)
  <3>1. PxSound(m.text, T, FALSE, FALSE, FALSE, 0) BY <1>1 DEF PxTexts
  <3>2. PxSound(Append(m.text, a), PxLedger(T.texts \cup {c.id}, T.calls, T.done, T.args),
                FALSE, FALSE, FALSE, 0)
    BY <1>2, <1>5, <1>6, <3>1, SoundText
  <3> QED BY <1>5, <1>6, <3>2
 <2> HIDE DEF a, M
 <2>3. PxIs(PxSay(m, a), m.next, m.open, m.calls, Append(m.text, a), m.events)
   BY <1>3, <2>1, SayIs
 <2>4. \A i \in 1 .. Len(Append(m.text, a)) : Append(m.text, a)[i].ev = "text"
  <3>1.
    /\ Len(Append(m.text, a)) = Len(m.text) + 1 /\ Len(m.text) \in Nat
    /\ \A i \in 1 .. Len(m.text) + 1 :
         Append(m.text, a)[i] = IF i <= Len(m.text) THEN m.text[i] ELSE a
    BY <1>2, <2>1, OneMoreEntry
  <3>2. \A i \in 1 .. Len(m.text) + 1 : i <= Len(m.text) => i \in 1 .. Len(m.text) BY <3>1
  <3> QED BY <1>1, <2>1, <3>1, <3>2 DEF PxTexts
 <2>5. Good(PxSay(m, a), PxOfCalls(M)) BY <1>1, <1>5, <1>6, <2>3 DEF PxTells, PxIs
 <2> QED BY <1>1, <1>2, <2>1, <2>2, <2>3, <2>4, <2>5 DEF PxGoodWhole, PxIs, PxTexts, M
<1>7. ASSUME c.t # "text", Good(r, PxOfCalls(M)), r.open = -1, r.text = m.text
  PROVE PxGoodWhole(r, M)
  BY <1>1, <1>2, <1>5, <1>7 DEF PxGoodWhole
<1>8. CASE c.t = "start"
 <2> DEFINE at == IF protocol = "messages" THEN c.id ELSE Cardinality(DOMAIN m.calls)
   e == PxEvent("open", at, c.id)
   w == PxWithCall(m, c.id, at)
   x == PxMore(m.calls, c.id, at)
 <2>1. r = PxEmit(w, <<e>>) /\ e \in PxEntries /\ at \in Nat
   BY <1>2, <1>8, EntryMade DEF PxCollect
 <2>2. DOMAIN x = DOMAIN m.calls \cup {c.id} BY DEF PxMore
 <2> HIDE DEF at, M
 <2>3. PxIs(w, m.next, m.open, x, m.text, m.events) BY <1>2, <1>3, <2>1, CallIs
 <2> HIDE DEF w, x, e
 <2>4. PxIs(r, m.next, m.open, x, m.text, Append(m.events, e)) BY <2>1, <2>3, EmitIs
 <2> HIDE DEF r
 <2>5.
   /\ r \in PxMappers /\ r.open = -1 /\ DOMAIN r.calls = DOMAIN m.calls \cup {c.id}
   /\ r.events = Append(m.events, PxEvent("open", at, c.id)) /\ r.text = m.text
   BY <1>1, <2>2, <2>4 DEF PxIs, e
 <2>6. ASSUME NEW closes, NEW indexed, indexed = FALSE, PxTells(m, C, closes, indexed, 0)
   PROVE PxTells(r, PxSaying(C, c), closes, indexed, 0)
   BY <1>1, <1>2, <1>5, <1>8, <2>1, <2>5, <2>6, TellsCall
 <2>7. Good(r, PxOfCalls(M)) BY <1>1, <1>5, <1>8, <2>6 DEF M
 <2> QED BY <1>7, <1>8, <2>5, <2>7 DEF M, r
<1>9. CASE c.t = "delta"
 <2> DEFINE e == PxEvent("args", m.calls[c.id], c.id)
 <2>1. Good(PxEmit(m, <<e>>), PxSaying(C, c)) /\ r = PxEmit(m, <<e>>) /\ m.calls[c.id] \in Nat
   BY <1>1, <1>5, <1>9, TellsChunk DEF PxCollect
 <2>2. PxIs(PxEmit(m, <<e>>), m.next, m.open, m.calls, m.text, Append(m.events, e))
   BY <1>2, <1>3, <2>1, EntryMade, EmitIs
 <2> QED BY <1>1, <1>5, <1>7, <1>9, <2>1, <2>2 DEF PxIs
<1>10. CASE c.t \in {"end", "reasoning", "done"}
 <2>1. Good(m, PxSaying(C, c)) /\ r = m BY <1>1, <1>5, <1>10, TellsChunk DEF PxCollect
 <2> QED BY <1>1, <1>5, <1>7, <1>10, <2>1
<1> QED BY <1>2, <1>6, <1>8, <1>9, <1>10

\* What the updates of a mapper make is a mapper, as is what comes of each chunk.
LEMMA UpdatesTyped ==
  ASSUME NEW m \in PxMappers
  PROVE
    /\ \A a \in PxEntries : PxEmit(m, <<a>>) \in PxMappers /\ PxSay(m, a) \in PxMappers
    /\ \A a \in PxEntries, b \in PxEntries :
         /\ PxEmit(m, <<a, b>>) \in PxMappers /\ PxEmit(m, <<a>> \o <<b>>) \in PxMappers
         /\ PxEmit(m, <<>> \o <<b>>) \in PxMappers
    /\ \A o \in Nat \cup {-1}, n \in Nat : PxMove(m, o, n) \in PxMappers
    /\ \A x \in Nat, at \in Nat : PxWithCall(m, x, at) \in PxMappers
<1>1. ASSUME NEW k \in PxMappers, NEW a \in PxEntries
  PROVE PxEmit(k, <<a>>) \in PxMappers
 <2>1. PxIs(PxEmit(k, <<a>>), k.next, k.open, k.calls, k.text, Append(k.events, a))
   BY MapperIs, EmitIs
 <2> QED BY <2>1 DEF PxIs
<1>2. ASSUME NEW a \in PxEntries
  PROVE PxSay(m, a) \in PxMappers
 <2>1. PxIs(PxSay(m, a), m.next, m.open, m.calls, Append(m.text, a), m.events)
   BY MapperIs, SayIs
 <2> QED BY <2>1 DEF PxIs
<1>3. ASSUME NEW a \in PxEntries, NEW b \in PxEntries
  PROVE
    /\ PxEmit(m, <<a, b>>) \in PxMappers /\ PxEmit(m, <<a>> \o <<b>>) \in PxMappers
    /\ PxEmit(m, <<>> \o <<b>>) \in PxMappers
  BY <1>1, EmitTwo
<1>4. ASSUME NEW o \in Nat \cup {-1}, NEW n \in Nat
  PROVE PxMove(m, o, n) \in PxMappers
 <2>1. PxIs(PxMove(m, o, n), n, o, m.calls, m.text, m.events) BY MapperIs, MoveIs
 <2> QED BY <2>1 DEF PxIs
<1>5. ASSUME NEW x \in Nat, NEW at \in Nat
  PROVE PxWithCall(m, x, at) \in PxMappers
 <2>1. PxIs(PxWithCall(m, x, at), m.next, m.open, PxMore(m.calls, x, at), m.text, m.events)
   BY MapperIs, CallIs
 <2> QED BY <2>1 DEF PxIs
<1> QED BY <1>1, <1>2, <1>3, <1>4, <1>5

LEMMA AnyMapTyped ==
  ASSUME NEW m \in PxMappers, NEW c \in PxChunks, NEW protocol
  PROVE
    /\ PxAnthropic(m, c) \in PxMappers /\ PxChat(m, c) \in PxMappers
    /\ PxResponses(m, c) \in PxMappers /\ PxCollect(protocol, m, c) \in PxMappers
<1> DEFINE n == Cardinality(DOMAIN m.calls)
<1>1.
  /\ m.next \in Nat /\ m.next + 1 \in Nat /\ m.open \in Nat \cup {-1} /\ n \in Nat
  /\ 0 \in Nat /\ -1 \in Nat \cup {-1} /\ Nat \subseteq Nat \cup {-1} /\ c.id \in Nat
  /\ PxKnows(m, c.id) => m.calls[c.id] \in Nat /\ m.calls[c.id] + 1 \in Nat
 <2>1. m.next \in Nat /\ m.open \in Nat \cup {-1} /\ m.calls \in PxCallMaps BY MapperParts
 <2>2. n \in Nat /\ (PxKnows(m, c.id) => m.calls[c.id] \in Nat) BY <2>1, CallMaps DEF PxKnows
 <2>3. \A k \in Nat : k + 1 \in Nat OBVIOUS
 <2> QED BY <2>1, <2>2, <2>3 DEF PxChunks
<1>2.
  \A ev \in {"text", "open", "args", "close"}, at \in Nat :
    PxEvent(ev, at, c.id) \in PxEntries /\ PxEvent(ev, at, 0) \in PxEntries
  BY <1>1, EntryMade
<1> HIDE DEF n
<1>3. ASSUME NEW at \in Nat
  PROVE
    /\ PxEmit(m, <<PxEvent("text", at, c.id)>>) \in PxMappers
    /\ PxEmit(m, <<PxEvent("args", at, c.id)>>) \in PxMappers
    /\ PxEmit(m, <<PxEvent("close", at, c.id)>>) \in PxMappers
    /\ PxEmit(PxWithCall(m, c.id, at), <<PxEvent("open", at, c.id)>>) \in PxMappers
    /\ PxSay(m, PxEvent("text", at, c.id)) \in PxMappers
  BY <1>1, <1>2, UpdatesTyped
<1>4. ASSUME NEW at \in Nat, NEW last \in Nat, NEW next \in Nat
  PROVE PxStarted(m, c.id, at, next, last) \in PxMappers
 <2>1. PxMove(PxWithCall(m, c.id, at), -1, next) \in PxMappers BY <1>1, UpdatesTyped
 <2> QED BY <1>2, <2>1, UpdatesTyped DEF PxStarted
<1>5. PxAnthropic(m, c) \in PxMappers
 <2>1. CASE c.t = "text" /\ m.open = -1
  <3>1. PxMove(m, m.next, m.next + 1) \in PxMappers BY <1>1, UpdatesTyped
  <3> QED BY <1>1, <1>2, <2>1, <3>1, UpdatesTyped DEF PxAnthropic
 <2>2. CASE c.t = "start"
  <3>1. PxAnthropic(m, c) = PxStarted(m, c.id, m.next, m.next + 1, m.open)
    BY <2>2 DEF PxAnthropic, PxStarted
  <3>2. CASE m.open = -1
   <4>1. PxAnthropic(m, c) = PxStarted(m, c.id, m.next, m.next + 1, 0)
     BY <3>1, <3>2 DEF PxStarted
   <4> QED BY <1>1, <1>4, <4>1
  <3> QED BY <1>1, <1>4, <3>1, <3>2
 <2> QED BY <1>1, <1>3, <2>1, <2>2 DEF PxAnthropic
<1>6. PxChat(m, c) \in PxMappers BY <1>1, <1>3 DEF PxChat, n
<1>7. PxCollect(protocol, m, c) \in PxMappers BY <1>1, <1>3 DEF PxCollect, n
<1>8. PxResponses(m, c) \in PxMappers
 <2>1. CASE c.t = "text"
  <3>1. PxMove(m, 0, m.next) \in PxMappers BY <1>1, UpdatesTyped
  <3> QED BY <1>1, <1>2, <2>1, <3>1, UpdatesTyped DEF PxResponses
 <2>2. CASE c.t = "start"
  <3>1. PxResponses(m, c) = PxStarted(m, c.id, IF m.open # -1 THEN m.next + 1 ELSE m.next,
                                      IF m.open # -1 THEN m.next + 1 ELSE m.next, m.next)
    BY <2>2 DEF PxResponses, PxStarted
  <3> QED BY <1>1, <1>4, <3>1
 <2>3. CASE c.t = "end" /\ PxKnows(m, c.id)
  <3> DEFINE at == m.calls[c.id]
    next == IF m.next > at THEN m.next ELSE at + 1
  <3>1. PxResponses(m, c) = PxEmit(PxMove(m, m.open, next), <<PxEvent("close", at, c.id)>>)
    BY <2>3 DEF PxResponses
  <3>2. next \in Nat /\ at \in Nat BY <1>1, <2>3
  <3> HIDE DEF at, next
  <3>3. PxMove(m, m.open, next) \in PxMappers BY <1>1, <3>2, UpdatesTyped
  <3> QED BY <1>2, <3>1, <3>2, <3>3, UpdatesTyped
 <2> QED BY <1>1, <1>3, <2>1, <2>2, <2>3 DEF PxResponses
<1> QED BY <1>5, <1>6, <1>7, <1>8

LEMMA MapTyped ==
  ASSUME NEW request, request.stream => request.protocol \in PxProtocols,
    NEW m \in PxMappers, NEW c \in PxChunks
  PROVE PxMap(request, m, c) \in PxMappers
BY AnyMapTyped DEF PxMap, PxProtocols

\* An answer of a request, as far as it goes.
PxGood(request, m, L) ==
  /\ request.stream \in BOOLEAN /\ request.protocol \in PxProtocols
  /\ ~ request.stream => PxGoodWhole(m, L)
  /\ (request.stream /\ request.protocol = "messages") => PxGoodMessages(m, L)
  /\ (request.stream /\ request.protocol = "chat") => PxGoodChat(m, L)
  /\ (request.stream /\ request.protocol = "responses") => PxGoodResponses(m, L)

\* One chunk keeps an answer good, in any protocol.
LEMMA MapStep ==
  ASSUME NEW request, NEW m, NEW L, PxGood(request, m, L),
    NEW c \in PxChunks, PxMaySay(L, c)
  PROVE PxGood(request, PxMap(request, m, c), PxSaying(L, c))
<1>0. request.stream \in BOOLEAN /\ request.protocol \in PxProtocols BY DEF PxGood
<1>1. CASE ~ request.stream
 <2>1. PxMap(request, m, c) = PxCollect(request.protocol, m, c) BY <1>1 DEF PxMap
 <2>2. PxGoodWhole(PxMap(request, m, c), PxSaying(L, c)) BY <1>1, <2>1, WholeStep DEF PxGood
 <2> QED BY <1>0, <1>1, <2>2 DEF PxGood
<1>2. CASE request.stream
 <2>1. CASE request.protocol = "messages"
  <3>1. PxMap(request, m, c) = PxAnthropic(m, c) BY <1>2, <2>1 DEF PxMap
  <3>2. PxGoodMessages(PxMap(request, m, c), PxSaying(L, c))
    BY <1>2, <2>1, <3>1, AnthropicStep DEF PxGood
  <3> QED BY <1>0, <1>2, <2>1, <3>2 DEF PxGood
 <2>2. CASE request.protocol = "chat"
  <3>1. PxMap(request, m, c) = PxChat(m, c) BY <1>2, <2>2 DEF PxMap
  <3>2. PxGoodChat(PxMap(request, m, c), PxSaying(L, c))
    BY <1>2, <2>2, <3>1, ChatStep DEF PxGood
  <3> QED BY <1>0, <1>2, <2>2, <3>2 DEF PxGood
 <2>3. CASE request.protocol = "responses"
  <3>1. PxMap(request, m, c) = PxResponses(m, c) BY <1>2, <2>3 DEF PxMap
  <3>2. PxGoodResponses(PxMap(request, m, c), PxSaying(L, c))
    BY <1>2, <2>3, <3>1, ResponsesStep DEF PxGood
  <3> QED BY <1>0, <1>2, <2>3, <3>2 DEF PxGood
 <2> QED BY <1>0, <1>2, <2>1, <2>2, <2>3 DEF PxProtocols
<1> QED BY <1>1, <1>2

\* PxMapAll takes one chunk after the other.
MapsBy(f, request, m, cs) ==
  /\ f \in [0 .. Len(cs) -> PxMappers] /\ f[0] = m /\ PxMapAll(request, m, cs) = f[Len(cs)]
  /\ \A n \in 1 .. Len(cs) : f[n] = PxMap(request, f[n - 1], cs[n])

\* PxMapAll takes one chunk after the other.
LEMMA MapSteps ==
  ASSUME NEW request, request.stream => request.protocol \in PxProtocols,
    NEW m \in PxMappers, NEW cs \in Seq(PxChunks)
  PROVE \E f : MapsBy(f, request, m, cs)
<1> DEFINE
  Is(f) == f = [n \in 0 .. Len(cs) |->
                  IF n = 0 THEN m ELSE PxMap(request, f[n - 1], cs[n])]
  step == [n \in 1 .. Len(cs) |-> [v \in PxMappers |-> PxMap(request, v, cs[n])]]
<1>1. Len(cs) \in Nat /\ m \in PxMappers /\ \A n \in 1 .. Len(cs) : cs[n] \in PxChunks
  BY LenProperties, EmptySeq, ElementOfSeq
<1>2. step \in [1 .. Len(cs) -> [PxMappers -> PxMappers]]
 <2>1. ASSUME NEW n \in 1 .. Len(cs), NEW v \in PxMappers
   PROVE PxMap(request, v, cs[n]) \in PxMappers
   BY <1>1, <2>1, MapTyped
 <2> QED BY <2>1
<1>3.
  PICK g \in [0 .. Len(cs) -> PxMappers] :
    g = [n \in 0 .. Len(cs) |-> IF n = 0 THEN m ELSE step[n][g[n - 1]]]
 <2> DEFINE V == PxMappers
   N == Len(cs)
   base == m
 <2>1. N \in Nat /\ base \in V /\ step \in [1 .. N -> [V -> V]] BY <1>1, <1>2
 <2> HIDE DEF step, V, N, base
 <2>2. \E g \in [0 .. N -> V] : IsRecursive(g, N, base, step) BY <2>1, RecursionUpTo
 <2> QED BY <2>2 DEF V, N, base, IsRecursive
<1>4. ASSUME NEW n \in 0 .. Len(cs), n # 0
  PROVE
    /\ n \in 1 .. Len(cs) /\ g[n - 1] \in PxMappers
    /\ step[n][g[n - 1]] = PxMap(request, g[n - 1], cs[n])
 <2>1. n \in 1 .. Len(cs) /\ n - 1 \in 0 .. Len(cs) BY <1>1, <1>4
 <2>2. g[n - 1] \in PxMappers BY <2>1
 <2> QED BY <2>1, <2>2
<1>5. Is(g)
 <2> HIDE DEF step
 <2> QED BY <1>3, <1>4
<1> DEFINE whole == CHOOSE f : Is(f)
<1>6. PxMapAll(request, m, cs) = whole[Len(cs)] BY DEF PxMapAll
<1>7. Is(whole) BY <1>5
<1> HIDE DEF whole
<1>8. \A n \in 0 .. Len(cs) : whole[n] = g[n]
 <2> DEFINE T == {n \in Nat : n \in 0 .. Len(cs) => whole[n] = g[n]}
 <2>1. 0 \in T BY <1>1, <1>5, <1>7
 <2>2. ASSUME NEW n \in Nat, n \in T
   PROVE n + 1 \in T
  <3>1. SUFFICES ASSUME n + 1 \in 0 .. Len(cs) PROVE whole[n + 1] = g[n + 1] OBVIOUS
  <3>2. n \in 0 .. Len(cs) /\ (n + 1) - 1 = n /\ n + 1 # 0 BY <1>1, <3>1
  <3>3. whole[n] = g[n] BY <2>2, <3>2
  <3> DEFINE Next(v) == PxMap(request, v, cs[n + 1])
  <3>4. whole[n + 1] = Next(whole[n]) BY <1>7, <3>1, <3>2
  <3>5. g[n + 1] = Next(g[n]) BY <1>5, <3>1, <3>2
  <3> QED BY <3>3, <3>4, <3>5
 <2> HIDE DEF T
 <2>3. Nat \subseteq T BY <2>1, <2>2, EveryNumber
 <2> QED BY <2>3, <1>1 DEF T
<1>9. g[0] = m /\ \A n \in 1 .. Len(cs) : g[n] = PxMap(request, g[n - 1], cs[n])
 <2>1. 0 \in 0 .. Len(cs) /\ \A n \in 1 .. Len(cs) : n \in 0 .. Len(cs) /\ n # 0 BY <1>1
 <2> QED BY <1>5, <2>1
<1> QED
 <2>1. Len(cs) \in 0 .. Len(cs) BY <1>1
 <2>2. PxMapAll(request, m, cs) = g[Len(cs)] BY <1>6, <1>8, <2>1
 <2>3. g \in [0 .. Len(cs) -> PxMappers] OBVIOUS
 <2> HIDE DEF step
 <2> QED BY <1>9, <2>2, <2>3 DEF MapsBy

\* No chunk, and one chunk.
LEMMA MapFew ==
  ASSUME NEW request, request.stream => request.protocol \in PxProtocols,
    NEW m \in PxMappers
  PROVE
    /\ PxMapAll(request, m, <<>>) = m
    /\ \A c \in PxChunks : PxMapAll(request, m, <<c>>) = PxMap(request, m, c)
<1>1. PxMapAll(request, m, <<>>) = m
 <2>1. <<>> \in Seq(PxChunks) /\ Len(<<>>) = 0 OBVIOUS
 <2>2. PICK f : MapsBy(f, request, m, <<>>) BY <2>1, MapSteps
 <2> QED BY <2>1, <2>2 DEF MapsBy
<1>2. ASSUME NEW c \in PxChunks
  PROVE PxMapAll(request, m, <<c>>) = PxMap(request, m, c)
 <2>1. <<c>> \in Seq(PxChunks) /\ Len(<<c>>) = 1 /\ <<c>>[1] = c OBVIOUS
 <2>2. PICK f : MapsBy(f, request, m, <<c>>) BY <2>1, MapSteps
 <2>3.
   /\ f[0] = m /\ PxMapAll(request, m, <<c>>) = f[1]
   /\ f[1] = PxMap(request, f[1 - 1], <<c>>[1])
   BY <2>1, <2>2 DEF MapsBy
 <2> QED BY <2>1, <2>3
<1> QED BY <1>1, <1>2

\* Chunks that come in two parts.
LEMMA MapConcat ==
  ASSUME NEW request, request.stream => request.protocol \in PxProtocols,
    NEW m \in PxMappers, NEW a \in Seq(PxChunks), NEW b \in Seq(PxChunks)
  PROVE
    /\ PxMapAll(request, m, a) \in PxMappers
    /\ PxMapAll(request, m, a \o b) = PxMapAll(request, PxMapAll(request, m, a), b)
<1> DEFINE k == PxMapAll(request, m, a)
  ab == a \o b
<1>1.
  /\ ab \in Seq(PxChunks) /\ Len(ab) = Len(a) + Len(b) /\ Len(a) \in Nat /\ Len(b) \in Nat
  /\ \A i \in 1 .. Len(a) : ab[i] = a[i]
  /\ \A i \in 1 .. Len(b) : ab[Len(a) + i] = b[i]
  BY ConcatProperties, LenProperties
<1>2. PICK f : MapsBy(f, request, m, ab) BY <1>1, MapSteps
<1>3. PICK g : MapsBy(g, request, m, a) BY MapSteps
<1>4. k \in PxMappers /\ k = g[Len(a)] BY <1>1, <1>3 DEF MapsBy
<1>5. PICK h : MapsBy(h, request, k, b) BY <1>4, MapSteps
<1> HIDE DEF k, ab
<1>6. \A n \in Nat : n \in 0 .. Len(a) => f[n] = g[n]
 <2> DEFINE T == {n \in Nat : n \in 0 .. Len(a) => f[n] = g[n]}
 <2>1. 0 \in T BY <1>2, <1>3 DEF MapsBy
 <2>2. ASSUME NEW n \in Nat, n \in T
   PROVE n + 1 \in T
  <3>1. SUFFICES ASSUME n + 1 \in 0 .. Len(a) PROVE f[n + 1] = g[n + 1] OBVIOUS
  <3>2. n \in 0 .. Len(a) /\ n + 1 \in 1 .. Len(a) /\ n + 1 \in 1 .. Len(ab) /\ (n + 1) - 1 = n
    BY <1>1, <3>1
  <3>3. f[n + 1] = PxMap(request, f[n], ab[n + 1]) BY <1>2, <3>2 DEF MapsBy
  <3>4. g[n + 1] = PxMap(request, g[n], a[n + 1]) BY <1>3, <3>2 DEF MapsBy
  <3> QED BY <1>1, <2>2, <3>2, <3>3, <3>4
 <2> HIDE DEF T
 <2>3. Nat \subseteq T BY <2>1, <2>2, EveryNumber
 <2> QED BY <2>3 DEF T
<1>7. \A n \in Nat : n \in 0 .. Len(b) => f[Len(a) + n] = h[n]
 <2> DEFINE T == {n \in Nat : n \in 0 .. Len(b) => f[Len(a) + n] = h[n]}
 <2>1. 0 \in T
  <3>1. f[Len(a)] = k /\ h[0] = k /\ Len(a) + 0 = Len(a) BY <1>1, <1>4, <1>5, <1>6 DEF MapsBy
  <3> QED BY <3>1
 <2>2. ASSUME NEW n \in Nat, n \in T
   PROVE n + 1 \in T
  <3>1. SUFFICES ASSUME n + 1 \in 0 .. Len(b) PROVE f[Len(a) + (n + 1)] = h[n + 1] OBVIOUS
  <3>2. /\ n \in 0 .. Len(b) /\ n + 1 \in 1 .. Len(b) /\ (n + 1) - 1 = n
        /\ Len(a) + (n + 1) \in 1 .. Len(ab) /\ (Len(a) + (n + 1)) - 1 = Len(a) + n
    BY <1>1, <3>1
  <3>3. f[Len(a) + (n + 1)] = PxMap(request, f[Len(a) + n], ab[Len(a) + (n + 1)])
    BY <1>2, <3>2 DEF MapsBy
  <3>4. h[n + 1] = PxMap(request, h[n], b[n + 1]) BY <1>5, <3>2 DEF MapsBy
  <3> QED BY <1>1, <2>2, <3>2, <3>3, <3>4
 <2> HIDE DEF T
 <2>3. Nat \subseteq T BY <2>1, <2>2, EveryNumber
 <2> QED BY <2>3 DEF T
<1>8. PxMapAll(request, m, ab) = PxMapAll(request, k, b)
 <2>1.
   /\ PxMapAll(request, m, ab) = f[Len(ab)] /\ PxMapAll(request, k, b) = h[Len(b)]
   /\ Len(b) \in 0 .. Len(b)
   BY <1>1, <1>2, <1>5 DEF MapsBy
 <2> QED BY <1>1, <1>7, <2>1
<1> QED BY <1>4, <1>8 DEF k, ab

\* A good answer goes on as one with no chunk, with one, and with one after others.
LEMMA GoodMapper ==
  ASSUME NEW request, NEW m, NEW L, PxGood(request, m, L)
  PROVE
    /\ m \in PxMappers /\ L \in PxLedgers /\ request.protocol \in PxProtocols
    /\ request.stream \in BOOLEAN
BY DEF PxGood, PxProtocols, PxGoodMessages, PxGoodChat, PxGoodResponses, PxGoodWhole, PxTells

\* No chunk and one chunk keep an answer good.
LEMMA GoodFew ==
  ASSUME NEW request, NEW m, NEW L, PxGood(request, m, L)
  PROVE
    /\ PxGood(request, PxMapAll(request, m, <<>>), L)
    /\ \A c \in PxChunks :
         PxMaySay(L, c) => PxGood(request, PxMapAll(request, m, <<c>>), PxSaying(L, c))
<1>1. m \in PxMappers /\ L \in PxLedgers /\ request.protocol \in PxProtocols BY GoodMapper
<1>2.
  /\ PxMapAll(request, m, <<>>) = m
  /\ \A c \in PxChunks : PxMapAll(request, m, <<c>>) = PxMap(request, m, c)
  BY <1>1, MapFew
<1>3. ASSUME NEW c \in PxChunks, PxMaySay(L, c)
  PROVE PxGood(request, PxMap(request, m, c), PxSaying(L, c))
  BY <1>3, MapStep
<1> QED BY <1>2, <1>3

--------------------
(* What the parser has heard *)

PxHeardEvents == [t : {"text", "think", "start", "args", "stop"}, id : Nat \ {0}]

\* The texts or calls of which the upstream has said this; where it sent arguments.
PxIds(h, t) == {x \in Nat : \E i \in 1 .. Len(h) : h[i].t = t /\ h[i].id = x}
PxArgsAt(h, x) == {i \in 1 .. Len(h) : h[i].t = "args" /\ h[i].id = x}

\* What has been heard has numbers.
LEMMA HeardTyped ==
  ASSUME NEW h \in Seq(PxHeardEvents)
  PROVE
    /\ \A i \in 1 .. Len(h) : h[i] \in PxHeardEvents /\ h[i].id \in Nat \ {0}
    /\ \A t : PxIds(h, t) \in SUBSET (Nat \ {0})
<1>1. ASSUME NEW i \in 1 .. Len(h)
  PROVE h[i] \in PxHeardEvents /\ h[i].id \in Nat \ {0}
 <2>1. h[i] \in PxHeardEvents BY ElementOfSeq
 <2> QED BY <2>1 DEF PxHeardEvents
<1> QED BY <1>1 DEF PxIds

\* One event heard is one number more, or one piece of arguments more.
LEMMA HeardMore ==
  ASSUME NEW h \in Seq(PxHeardEvents), NEW e \in PxHeardEvents
  PROVE
    /\ Append(h, e) \in Seq(PxHeardEvents)
    /\ \A t : /\ PxIds(h, t) \in SUBSET (Nat \ {0})
              /\ e.t = t => PxIds(Append(h, e), t) = PxIds(h, t) \cup {e.id}
              /\ e.t # t => PxIds(Append(h, e), t) = PxIds(h, t)
    /\ \A x : /\ IsFiniteSet(PxArgsAt(h, x)) /\ Cardinality(PxArgsAt(h, x)) \in Nat
              /\ x \notin PxIds(h, "args") /\ x \in Nat => Cardinality(PxArgsAt(h, x)) = 0
              /\ (e.t = "args" /\ e.id = x)
                   => Cardinality(PxArgsAt(Append(h, e), x)) = Cardinality(PxArgsAt(h, x)) + 1
              /\ ~ (e.t = "args" /\ e.id = x) => PxArgsAt(Append(h, e), x) = PxArgsAt(h, x)
<1> DEFINE r == Append(h, e)
  n == Len(h)
<1>1.
  /\ r \in Seq(PxHeardEvents) /\ n \in Nat /\ Len(r) = n + 1
  /\ \A i \in 1 .. n + 1 : r[i] = IF i <= n THEN h[i] ELSE e
  BY AppendNew, LenProperties
<1> HIDE DEF r
<1>2.
  /\ \A i \in 1 .. n : i \in 1 .. n + 1 /\ r[i] = h[i]
  /\ \A i \in 1 .. n + 1 : i \notin 1 .. n => r[i] = e /\ i = n + 1
  /\ r[n + 1] = e /\ n + 1 \in 1 .. n + 1 /\ n + 1 \notin 1 .. n
  BY <1>1
<1>3. (\A i \in 1 .. n : h[i].id \in Nat \ {0}) /\ e.id \in Nat \ {0}
  BY HeardTyped DEF PxHeardEvents
<1>4. ASSUME NEW t
  PROVE
    /\ PxIds(h, t) \in SUBSET (Nat \ {0})
    /\ e.t = t => PxIds(r, t) = PxIds(h, t) \cup {e.id}
    /\ e.t # t => PxIds(r, t) = PxIds(h, t)
 <2>1. PxIds(h, t) \in SUBSET (Nat \ {0}) BY <1>3 DEF PxIds
 <2>2. e.t = t => PxIds(r, t) = PxIds(h, t) \cup {e.id} BY <1>1, <1>2, <1>3 DEF PxIds
 <2>3. e.t # t => PxIds(r, t) = PxIds(h, t) BY <1>1, <1>2 DEF PxIds
 <2> QED BY <2>1, <2>2, <2>3
<1>5. ASSUME NEW x
  PROVE
    /\ IsFiniteSet(PxArgsAt(h, x)) /\ Cardinality(PxArgsAt(h, x)) \in Nat
    /\ x \notin PxIds(h, "args") /\ x \in Nat => Cardinality(PxArgsAt(h, x)) = 0
    /\ (e.t = "args" /\ e.id = x)
         => Cardinality(PxArgsAt(r, x)) = Cardinality(PxArgsAt(h, x)) + 1
    /\ ~ (e.t = "args" /\ e.id = x) => PxArgsAt(r, x) = PxArgsAt(h, x)
 <2>1. PxArgsAt(h, x) \subseteq 1 .. n /\ IsFiniteSet(1 .. n) BY <1>1, FS_Interval DEF PxArgsAt
 <2>2. IsFiniteSet(PxArgsAt(h, x)) /\ Cardinality(PxArgsAt(h, x)) \in Nat
   BY <2>1, FS_Subset, FS_CardinalityType
 <2>3. ASSUME x \notin PxIds(h, "args"), x \in Nat
   PROVE Cardinality(PxArgsAt(h, x)) = 0
  <3>1. PxArgsAt(h, x) = {} BY <2>3 DEF PxIds, PxArgsAt
  <3> QED BY <3>1, FS_EmptySet
 <2>4. ASSUME e.t = "args", e.id = x
   PROVE Cardinality(PxArgsAt(r, x)) = Cardinality(PxArgsAt(h, x)) + 1
  <3>1. PxArgsAt(r, x) = PxArgsAt(h, x) \cup {n + 1} BY <1>1, <1>2, <2>4 DEF PxArgsAt
  <3>2. n + 1 \notin PxArgsAt(h, x) BY <1>2, <2>1
  <3> QED BY <2>2, <3>1, <3>2, FS_AddElement
 <2>5. ASSUME ~ (e.t = "args" /\ e.id = x)
   PROVE PxArgsAt(r, x) = PxArgsAt(h, x)
   BY <1>1, <1>2, <2>5 DEF PxArgsAt
 <2> QED BY <2>2, <2>3, <2>4, <2>5
<1> QED BY <1>1, <1>4, <1>5 DEF r

\* The calls and texts heard are the provider's, and the parser has the calls that started.
PxKnown(via, up, parser, h) ==
  /\ Distinct(parser.calls) /\ ToSet(parser.calls) = PxIds(h, "start")
  /\ via = "cli" => parser.calls = <<>>
  /\ up.open <= up.calls
  /\ \A x \in PxIds(h, "start") \cup PxIds(h, "args") \cup PxIds(h, "stop") : x <= up.calls
  /\ up.open \notin PxIds(h, "stop")
  /\ \A x \in PxIds(h, "text") : x <= up.texts

\* What a parser holds back is the last text heard, from a compatible provider.
PxHolds(via, parser, texts) ==
  parser.held # <<>> =>
    /\ via = "compatible" /\ Len(parser.held) = 1 /\ parser.held[1].t \in {"text", "think"}
    /\ \A x \in texts : x <= parser.held[1].id
    /\ (parser.held[1].t = "text") <=> (parser.held[1].id \in texts)

\* The parser has the calls that it heard start, and holds back the last text at most.
PxHears(via, up, parser, h) ==
  /\ up \in [calls : Nat, open : Nat, texts : Nat] /\ h \in Seq(PxHeardEvents)
  /\ parser \in [calls : Seq(Nat), held : Seq(PxHeardEvents)] /\ PxKnown(via, up, parser, h)
  /\ PxHolds(via, parser, PxIds(h, "text"))

\* The ledger of what it has passed on.
PxHeldIds(parser) == IF parser.held = <<>> THEN {} ELSE {parser.held[1].id}

PxDoneIds(via, h) ==
  IF via \in {"anthropic", "codex"} THEN PxIds(h, "start") \cap PxIds(h, "stop")
  ELSE IF via = "gemini" THEN PxIds(h, "start") ELSE {}

PxArgsOf(via, h) ==
  [x \in Nat |-> IF x \notin PxIds(h, "start") THEN 0
                 ELSE IF via = "gemini" THEN 1 ELSE Cardinality(PxArgsAt(h, x))]

PxPassedOn(via, parser, h) ==
  PxLedger(PxIds(h, "text") \ PxHeldIds(parser), PxIds(h, "start"), PxDoneIds(via, h),
           PxArgsOf(via, h))

\* What the parser has passed on is a ledger.
LEMMA PassedParts ==
  ASSUME NEW via, NEW parser, NEW h \in Seq(PxHeardEvents)
  PROVE
    /\ PxPassedOn(via, parser, h) \in PxLedgers
    /\ PxPassedOn(via, parser, h).texts = PxIds(h, "text") \ PxHeldIds(parser)
    /\ PxPassedOn(via, parser, h).calls = PxIds(h, "start")
    /\ PxPassedOn(via, parser, h).done = PxDoneIds(via, h)
    /\ PxPassedOn(via, parser, h).args = PxArgsOf(via, h)
<1>1. \A t : PxIds(h, t) \in SUBSET (Nat \ {0}) BY HeardTyped
<1>2.
  /\ PxIds(h, "text") \ PxHeldIds(parser) \in SUBSET Nat
  /\ PxIds(h, "start") \in SUBSET (Nat \ {0})
  /\ PxDoneIds(via, h) \in SUBSET Nat /\ PxDoneIds(via, h) \subseteq PxIds(h, "start")
  BY <1>1 DEF PxDoneIds
<1>3. PxArgsOf(via, h) \in [Nat -> Nat]
 <2>1. \A x \in Nat : Cardinality(PxArgsAt(h, x)) \in Nat
  <3>1. \A x : PxArgsAt(h, x) \subseteq 1 .. Len(h) /\ IsFiniteSet(1 .. Len(h))
    BY LenProperties, FS_Interval DEF PxArgsAt
  <3> QED BY <3>1, FS_Subset, FS_CardinalityType
 <2> QED BY <2>1 DEF PxArgsOf
<1> DEFINE texts == PxIds(h, "text") \ PxHeldIds(parser)
  calls == PxIds(h, "start")
  done == PxDoneIds(via, h)
  args == PxArgsOf(via, h)
<1>4.
  /\ texts \in SUBSET Nat /\ calls \in SUBSET (Nat \ {0}) /\ done \in SUBSET Nat
  /\ args \in [Nat -> Nat] /\ done \subseteq calls
  BY <1>2, <1>3
<1>5. PxPassedOn(via, parser, h) = PxLedger(texts, calls, done, args) BY DEF PxPassedOn
<1> HIDE DEF texts, calls, done, args
<1>6.
  /\ PxLedger(texts, calls, done, args) \in PxLedgers
  /\ PxLedger(texts, calls, done, args).texts = texts
  /\ PxLedger(texts, calls, done, args).calls = calls
  /\ PxLedger(texts, calls, done, args).done = done
  /\ PxLedger(texts, calls, done, args).args = args
  BY ONLY <1>4 DEF PxLedgers, PxLedger
<1> QED BY <1>5, <1>6 DEF texts, calls, done, args

\* The stream goes on: what was heard has been passed on.
PxGoesOn(via, up, parser, h, request, m) ==
  PxHears(via, up, parser, h) /\ PxGood(request, m, PxPassedOn(via, parser, h))

PxParsers == [calls : Seq(Nat), held : Seq(PxHeardEvents)]
PxUps == [calls : Nat, open : Nat, texts : Nat]

\* The updates of a parser.
LEMMA ParserSet ==
  ASSUME NEW parser \in PxParsers
  PROVE
    /\ parser.calls \in Seq(Nat) /\ parser.held \in Seq(PxHeardEvents)
    /\ \A x \in Seq(PxHeardEvents) :
         /\ [parser EXCEPT !.held = x] \in PxParsers /\ [parser EXCEPT !.held = x].held = x
         /\ [parser EXCEPT !.held = x].calls = parser.calls
    /\ \A x \in Seq(Nat) :
         /\ [parser EXCEPT !.calls = x] \in PxParsers
         /\ [parser EXCEPT !.calls = x].calls = x
         /\ [parser EXCEPT !.calls = x].held = parser.held
BY DEF PxParsers

\* What the upstream has sent once it has sent one event more.
LEMMA SentParts ==
  ASSUME NEW via, NEW up \in PxUps, NEW e \in PxHeardEvents
  PROVE
    /\ ProvSent(via, up, e) \in PxUps
    /\ up.calls \in Nat /\ up.open \in Nat /\ up.texts \in Nat
    /\ e.t \in {"text", "think"} =>
         /\ ProvSent(via, up, e).texts = up.texts + 1
         /\ ProvSent(via, up, e).calls = up.calls /\ ProvSent(via, up, e).open = up.open
    /\ e.t = "start" =>
         /\ ProvSent(via, up, e).texts = up.texts
         /\ ProvSent(via, up, e).calls = up.calls + 1
         /\ ProvSent(via, up, e).open \in {0, e.id}
    /\ e.t = "args" => ProvSent(via, up, e) = up
    /\ e.t = "stop" =>
         /\ ProvSent(via, up, e).texts = up.texts
         /\ ProvSent(via, up, e).calls = up.calls /\ ProvSent(via, up, e).open = 0
<1>1.
  /\ up.calls \in Nat /\ up.open \in Nat /\ up.texts \in Nat /\ e.id \in Nat
  /\ e.t \in {"text", "think", "start", "args", "stop"}
  BY DEF PxUps, PxHeardEvents
<1>2. CASE e.t \in {"text", "think"}
 <2>1. ProvSent(via, up, e) = [up EXCEPT !.texts = up.texts + 1] BY <1>2 DEF ProvSent
 <2>2.
   /\ [up EXCEPT !.texts = up.texts + 1] \in PxUps
   /\ [up EXCEPT !.texts = up.texts + 1].texts = up.texts + 1
   /\ [up EXCEPT !.texts = up.texts + 1].calls = up.calls
   /\ [up EXCEPT !.texts = up.texts + 1].open = up.open
   BY <1>1 DEF PxUps
 <2> QED BY <1>1, <1>2, <2>1, <2>2
<1>3. CASE e.t = "start"
 <2> DEFINE o == IF via \in {"anthropic", "codex"} THEN e.id ELSE 0
   k == up.calls + 1
 <2>1. o \in {0, e.id} /\ o \in Nat /\ k \in Nat BY <1>1
 <2>2. PICK f : f = ProvSent(via, up, e) OBVIOUS
 <2>3. f = [up EXCEPT !.calls = k, !.open = o] BY <1>3, <2>2 DEF ProvSent
 <2> HIDE DEF o, k
 <2>4. up = [calls |-> up.calls, open |-> up.open, texts |-> up.texts] BY DEF PxUps
 <2>5. f = [calls |-> k, open |-> o, texts |-> up.texts] BY ONLY <2>3, <2>4
 <2>6. f \in PxUps /\ f.calls = k /\ f.open = o /\ f.texts = up.texts
   BY ONLY <1>1, <2>1, <2>5 DEF PxUps
 <2> QED BY <1>1, <1>3, <2>1, <2>2, <2>6 DEF k
<1>4. CASE e.t = "args" BY <1>1, <1>4 DEF ProvSent
<1>5. CASE e.t = "stop"
 <2>1. ProvSent(via, up, e) = [up EXCEPT !.open = 0] BY <1>5 DEF ProvSent
 <2>2.
   /\ [up EXCEPT !.open = 0] \in PxUps /\ [up EXCEPT !.open = 0].texts = up.texts
   /\ [up EXCEPT !.open = 0].calls = up.calls /\ [up EXCEPT !.open = 0].open = 0
   BY <1>1 DEF PxUps
 <2> QED BY <1>1, <1>5, <2>1, <2>2
<1> QED BY <1>1, <1>2, <1>3, <1>4, <1>5

\* The text that is held back comes after all that were passed on.
LEMMA GoodHeld ==
  ASSUME NEW via, NEW up, NEW parser, NEW h, NEW request, NEW m,
    PxGoesOn(via, up, parser, h, request, m)
  PROVE
    /\ ProvHeld(parser) \in Seq(PxChunks)
    /\ PxGood(request, PxMapAll(request, m, ProvHeld(parser)),
              PxLedger(PxIds(h, "text"), PxIds(h, "start"), PxDoneIds(via, h),
                       PxArgsOf(via, h)))
<1> USE DEF PxKnown, PxHolds
<1> DEFINE L == PxPassedOn(via, parser, h)
  M == PxLedger(PxIds(h, "text"), PxIds(h, "start"), PxDoneIds(via, h), PxArgsOf(via, h))
  q == parser.held[1]
  c == [t |-> IF q.t = "think" THEN "reasoning" ELSE "text", id |-> q.id]
<1>1.
  /\ h \in Seq(PxHeardEvents) /\ parser \in PxParsers
  /\ PxGood(request, m, L) /\ PxIds(h, "text") \in SUBSET (Nat \ {0})
  BY HeardTyped DEF PxGoesOn, PxHears, PxParsers
<1>2.
  /\ L \in PxLedgers /\ L.texts = PxIds(h, "text") \ PxHeldIds(parser)
  /\ L.calls = PxIds(h, "start") /\ L.done = PxDoneIds(via, h) /\ L.args = PxArgsOf(via, h)
  BY <1>1, PassedParts
<1>3. L = PxLedger(L.texts, L.calls, L.done, L.args) BY <1>2, LedgerParts
<1> HIDE DEF L
<1>4. CASE parser.held = <<>>
 <2>1. ProvHeld(parser) = <<>> /\ PxHeldIds(parser) = {} BY <1>4 DEF ProvHeld, PxHeldIds
 <2>2. M = L BY <1>2, <1>3, <2>1
 <2> QED BY <1>1, <2>1, <2>2, GoodFew
<1>5. CASE parser.held # <<>>
 <2>1. ProvHeld(parser) = <<c>> /\ PxHeldIds(parser) = {q.id}
   BY <1>5 DEF ProvHeld, PxHeldIds, ProvText, ProvChunk
 <2>2.
   /\ Len(parser.held) = 1 /\ q.t \in {"text", "think"}
   /\ \A x \in PxIds(h, "text") : x <= q.id
   /\ (q.t = "text") <=> (q.id \in PxIds(h, "text"))
   BY <1>5 DEF PxGoesOn, PxHears
 <2>3. q.id \in Nat
  <3>1. q \in PxHeardEvents BY <1>1, <2>2, ParserSet, ElementOfSeq
  <3> QED BY <3>1 DEF PxHeardEvents
 <2>4. L.texts = PxIds(h, "text") \ {q.id} BY <1>2, <2>1
 <2>5. c \in PxChunks /\ PxMaySay(L, c) BY <1>1, <2>2, <2>3, <2>4 DEF PxChunks, PxMaySay
 <2>6. PxGood(request, PxMapAll(request, m, <<c>>), PxSaying(L, c)) BY <1>1, <2>5, GoodFew
 <2>7. PxSaying(L, c) = M
  <3>1. CASE q.t = "text"
   <4>1. PxSaying(L, c) = PxLedger(L.texts \cup {q.id}, L.calls, L.done, L.args)
     BY <3>1 DEF PxSaying
   <4>2. L.texts \cup {q.id} = PxIds(h, "text") BY <2>2, <2>4, <3>1
   <4> QED BY <1>2, <4>1, <4>2
  <3>2. CASE q.t = "think"
   <4>1. PxSaying(L, c) = L BY <3>2 DEF PxSaying
   <4>2. L.texts = PxIds(h, "text") BY <2>2, <2>4, <3>2
   <4> QED BY <1>2, <1>3, <4>1, <4>2
  <3> QED BY <2>2, <3>1, <3>2
 <2>8. <<c>> \in Seq(PxChunks) BY <2>5
 <2> HIDE DEF c, M
 <2> QED BY <2>1, <2>6, <2>7, <2>8 DEF M
<1> QED BY <1>4, <1>5

\* A text takes the place of the one that is held back.
LEMMA HearText ==
  ASSUME NEW via, NEW up, NEW parser, NEW h, NEW request, NEW m,
    PxGoesOn(via, up, parser, h, request, m),
    NEW e \in PxHeardEvents, e.t \in {"text", "think"}, ProvSends(via, up, e)
  PROVE
    PxGoesOn(via, ProvSent(via, up, e), ProvHear(via, parser, e).parser, Append(h, e),
             request, PxMapAll(request, m, ProvHear(via, parser, e).chunks))
<1> USE DEF PxKnown, PxHolds
<1> DEFINE L == PxPassedOn(via, parser, h)
  r == Append(h, e)
  v == ProvSent(via, up, e)
<1>1.
  /\ up \in PxUps /\ h \in Seq(PxHeardEvents) /\ parser \in PxParsers
  /\ PxKnown(via, up, parser, h)
  BY DEF PxGoesOn, PxHears, PxUps, PxParsers
<1>2. e.id = up.texts + 1 /\ e.id \in Nat \ {0} /\ up.texts \in Nat
  BY <1>1 DEF ProvSends, PxHeardEvents, PxUps
<1>3.
  /\ r \in Seq(PxHeardEvents)
  /\ e.t = "text" => PxIds(r, "text") = PxIds(h, "text") \cup {e.id}
  /\ e.t = "think" => PxIds(r, "text") = PxIds(h, "text")
  /\ PxIds(r, "start") = PxIds(h, "start") /\ PxIds(r, "args") = PxIds(h, "args")
  /\ PxIds(r, "stop") = PxIds(h, "stop")
  /\ \A x : PxArgsAt(r, x) = PxArgsAt(h, x)
  /\ PxIds(h, "text") \in SUBSET (Nat \ {0})
  BY <1>1, HeardMore
<1>4. /\ v \in PxUps /\ v.texts = up.texts + 1 /\ v.calls = up.calls /\ v.open = up.open
  BY <1>1, SentParts
<1>5. PxDoneIds(via, r) = PxDoneIds(via, h) /\ PxArgsOf(via, r) = PxArgsOf(via, h)
  BY <1>3 DEF PxDoneIds, PxArgsOf
<1>6. e.id \notin PxIds(h, "text") /\ \A x \in PxIds(h, "text") : x < e.id /\ x <= up.texts + 1
  BY <1>1, <1>2, <1>3
<1>7.
  /\ L \in PxLedgers /\ L.texts = PxIds(h, "text") \ PxHeldIds(parser)
  /\ L.calls = PxIds(h, "start") /\ L.done = PxDoneIds(via, h) /\ L.args = PxArgsOf(via, h)
  BY <1>1, PassedParts
<1>8. ASSUME NEW p \in PxParsers, p.calls = parser.calls,
    p.held = <<>> \/ (p.held = <<e>> /\ via = "compatible")
  PROVE PxHears(via, v, p, r)
 <2>1. \A x \in PxIds(r, "text") : x <= v.texts /\ x <= e.id BY <1>1, <1>2, <1>3, <1>4, <1>6
 <2>2. PxHolds(via, p, PxIds(r, "text"))
  <3>1. Len(<<e>>) = 1 /\ <<e>>[1] = e OBVIOUS
  <3>2. (e.t = "text") <=> (e.id \in PxIds(r, "text")) BY <1>3, <1>6
  <3> QED BY <1>8, <2>1, <3>1, <3>2
 <2> QED BY <1>1, <1>3, <1>4, <1>8, <2>1, <2>2 DEF PxHears, PxUps, PxParsers
<1> HIDE DEF L, r, v
<1>9. ASSUME NEW p \in PxParsers, NEW k, PxHears(via, v, p, r),
    PxGood(request, PxMapAll(request, m, k), PxPassedOn(via, p, r)),
    ProvHear(via, parser, e) = [parser |-> p, chunks |-> k]
  PROVE
    PxGoesOn(via, v, ProvHear(via, parser, e).parser, r, request,
             PxMapAll(request, m, ProvHear(via, parser, e).chunks))
  BY <1>9 DEF PxGoesOn
<1>10. PxGood(request, m, L) /\ m \in PxMappers BY GoodMapper DEF PxGoesOn, L
<1>11. CASE via # "compatible"
 <2> DEFINE c == [t |-> IF e.t = "think" THEN "reasoning" ELSE "text", id |-> e.id]
 <2>1. ProvHear(via, parser, e) = [parser |-> parser, chunks |-> <<c>>]
   BY <1>11 DEF ProvHear, ProvFeed, ProvText, ProvChunk
 <2>2. parser.held = <<>> BY <1>11 DEF PxGoesOn, PxHears
 <2>3. c \in PxChunks /\ PxMaySay(L, c) BY <1>2, <1>6, <1>7 DEF PxChunks, PxMaySay
 <2>4. PxGood(request, PxMapAll(request, m, <<c>>), PxSaying(L, c)) BY <1>10, <2>3, GoodFew
 <2>5. PxSaying(L, c) = PxPassedOn(via, parser, r)
  <3>0. PxHeldIds(parser) = {} BY <2>2 DEF PxHeldIds
  <3>1. CASE e.t = "text"
   <4>1. PxSaying(L, c) = PxLedger(L.texts \cup {e.id}, L.calls, L.done, L.args)
     BY <3>1 DEF PxSaying
   <4> QED BY <1>3, <1>5, <1>7, <3>0, <3>1, <4>1 DEF PxPassedOn
  <3>2. CASE e.t = "think"
   <4>1. PxSaying(L, c) = L BY <3>2 DEF PxSaying
   <4> QED BY <1>3, <1>5, <3>2, <4>1 DEF PxPassedOn, L
  <3> QED BY <3>1, <3>2
 <2>6. PxHears(via, v, parser, r) BY <1>1, <1>8, <2>2
 <2> HIDE DEF c
 <2> QED BY <1>1, <1>9, <2>1, <2>4, <2>5, <2>6 DEF r, v
<1>12. CASE via = "compatible"
 <2> DEFINE p == [parser EXCEPT !.held = <<e>>]
 <2>1. ProvHear(via, parser, e) = [parser |-> p, chunks |-> ProvHeld(parser)]
   BY <1>12 DEF ProvHear, ProvFeed
 <2>2. <<e>> \in Seq(PxHeardEvents) OBVIOUS
 <2>3. p \in PxParsers /\ p.held = <<e>> /\ p.calls = parser.calls BY <1>1, <2>2, ParserSet
 <2> HIDE DEF p
 <2>4. PxHears(via, v, p, r) BY <1>8, <1>12, <2>3
 <2>5. PxHeldIds(p) = {e.id} BY <2>3 DEF PxHeldIds
 <2>6. PxPassedOn(via, p, r) = PxLedger(PxIds(h, "text"), L.calls, L.done, L.args)
  <3>1. PxIds(r, "text") \ {e.id} = PxIds(h, "text") BY <1>3, <1>6
  <3> QED BY <1>3, <1>5, <1>7, <2>5, <3>1 DEF PxPassedOn
 <2>7. PxGood(request, PxMapAll(request, m, ProvHeld(parser)), PxPassedOn(via, p, r))
   BY <1>7, <2>6, GoodHeld
 <2> QED BY <1>9, <2>1, <2>3, <2>4, <2>7 DEF r, v
<1> QED BY <1>11, <1>12

\* A call that comes as a whole.
LEMMA GoodCall ==
  ASSUME NEW request, NEW m, NEW L, PxGood(request, m, L), NEW x \in Nat \ {0},
    x \notin L.calls, L.args[x] = 0
  PROVE
    LET a == ProvChunk("start", x)
        b == ProvChunk("delta", x)
        c == ProvChunk("end", x)
        M == PxLedger(L.texts, L.calls \cup {x}, L.done \cup {x}, [L.args EXCEPT ![x] = 1]) IN
    /\ PxGood(request, PxMapAll(request, m, a \o (b \o c)), M)
    /\ PxGood(request, PxMapAll(request, m, a \o b \o c), M)
    /\ a \in Seq(PxChunks) /\ b \o c \in Seq(PxChunks) /\ a \o b \o c \in Seq(PxChunks)
<1> DEFINE s == [t |-> "start", id |-> x]
  d == [t |-> "delta", id |-> x]
  e == [t |-> "end", id |-> x]
  S == PxLedger(L.texts, L.calls \cup {x}, L.done, L.args)
  D == PxLedger(L.texts, L.calls \cup {x}, L.done, [L.args EXCEPT ![x] = 1])
  E == PxLedger(L.texts, L.calls \cup {x}, L.done \cup {x}, [L.args EXCEPT ![x] = 1])
  k == PxMapAll(request, m, <<s>>)
  l == PxMapAll(request, k, <<d>>)
<1>1. s \in PxChunks /\ d \in PxChunks /\ e \in PxChunks BY DEF PxChunks
<1>2.
  /\ L \in PxLedgers /\ request.protocol \in PxProtocols /\ m \in PxMappers
  /\ L.texts \in SUBSET Nat /\ L.calls \in SUBSET (Nat \ {0}) /\ L.done \in SUBSET Nat
  /\ L.args \in [Nat -> Nat] /\ L.done \subseteq L.calls
  /\ request.stream => request.protocol \in PxProtocols
  BY GoodMapper, LedgerParts
<1>3.
  /\ S.texts = L.texts /\ S.calls = L.calls \cup {x} /\ S.done = L.done /\ S.args = L.args
  /\ D.texts = L.texts /\ D.calls = L.calls \cup {x} /\ D.done = L.done
  /\ D.args = [L.args EXCEPT ![x] = 1]
  BY DEF PxLedger
<1>4. PxMaySay(L, s) /\ PxSaying(L, s) = S BY DEF PxMaySay, PxSaying
<1>5. PxMaySay(S, d) /\ PxSaying(S, d) = D
 <2>1. PxMaySay(S, d) BY <1>2, <1>3 DEF PxMaySay
 <2>2. PxSaying(S, d) = PxLedger(S.texts, S.calls, S.done, [S.args EXCEPT ![x] = @ + 1])
   BY DEF PxSaying
 <2>3. PxSaying(S, d) = PxLedger(L.texts, L.calls \cup {x}, L.done, [L.args EXCEPT ![x] = @ + 1])
   BY <1>3, <2>2
 <2>4. [L.args EXCEPT ![x] = @ + 1] = [L.args EXCEPT ![x] = 1] BY <1>2
 <2> QED BY <2>1, <2>3, <2>4
<1>6. PxMaySay(D, e) /\ PxSaying(D, e) = E
 <2>1. PxMaySay(D, e) BY <1>2, <1>3 DEF PxMaySay
 <2>2. PxSaying(D, e) = PxLedger(D.texts, D.calls, D.done \cup {x}, D.args) BY DEF PxSaying
 <2> QED BY <1>3, <2>1, <2>2
<1> HIDE DEF S, D, E, s, d, e, k, l
<1>7. PxGood(request, k, S) BY <1>1, <1>4, GoodFew DEF k
<1>8. PxGood(request, l, D) BY <1>1, <1>5, <1>7, GoodFew DEF l
<1>9. PxGood(request, PxMapAll(request, l, <<e>>), E) BY <1>1, <1>6, <1>8, GoodFew
<1>10. k \in PxMappers BY <1>7, GoodMapper
<1> DEFINE a == <<s>>
  b == <<d>>
  c == <<e>>
  bc == b \o c
  ab == a \o b
  abc == ab \o c
<1>11. a \in Seq(PxChunks) /\ b \in Seq(PxChunks) /\ c \in Seq(PxChunks) BY <1>1
<1>12. ab \in Seq(PxChunks) /\ bc \in Seq(PxChunks)
 <2> HIDE DEF a, b, c
 <2> QED BY <1>11, ConcatProperties
<1>13. abc \in Seq(PxChunks)
 <2> HIDE DEF ab, c
 <2> QED BY <1>11, <1>12, ConcatProperties
<1>14. k = PxMapAll(request, m, a) /\ l = PxMapAll(request, k, b) BY DEF k, l
<1> HIDE DEF a, b, c
<1>15.
  \A w \in PxMappers : \A u, z \in Seq(PxChunks) :
    PxMapAll(request, w, u \o z) = PxMapAll(request, PxMapAll(request, w, u), z)
 <2>1. request.protocol \in PxProtocols BY <1>2
 <2> QED BY ONLY <2>1, MapConcat
<1>16.
  /\ PxMapAll(request, m, a \o bc) = PxMapAll(request, l, c)
  /\ PxMapAll(request, m, abc) = PxMapAll(request, l, c)
 <2>1. PxMapAll(request, m, a \o bc) = PxMapAll(request, k, bc)
  <3> HIDE DEF bc
  <3> QED BY <1>2, <1>11, <1>12, <1>14, <1>15
 <2>2. PxMapAll(request, k, bc) = PxMapAll(request, l, c) BY <1>10, <1>11, <1>14, <1>15
 <2>3. PxMapAll(request, m, ab) = l BY <1>2, <1>11, <1>14, <1>15
 <2>4. PxMapAll(request, m, abc) = PxMapAll(request, PxMapAll(request, m, ab), c)
  <3> HIDE DEF ab
  <3> QED BY <1>2, <1>11, <1>12, <1>15
 <2> QED BY <2>1, <2>2, <2>3, <2>4
<1>17. ProvChunk("start", x) = a /\ ProvChunk("delta", x) = b /\ ProvChunk("end", x) = c
  BY DEF ProvChunk, s, d, e, a, b, c
<1>18. PxGood(request, PxMapAll(request, l, c), E) BY <1>9 DEF c
<1> QED BY <1>11, <1>12, <1>13, <1>16, <1>17, <1>18 DEF E

\* What is known while the stream goes on, part by part.
LEMMA OnParts ==
  ASSUME NEW via, NEW up, NEW parser, NEW h, NEW request, NEW m,
    PxGoesOn(via, up, parser, h, request, m)
  PROVE
    /\ up \in PxUps /\ h \in Seq(PxHeardEvents) /\ parser \in PxParsers
    /\ up.calls \in Nat /\ up.open \in Nat /\ up.texts \in Nat
    /\ parser.calls \in Seq(Nat) /\ parser.held \in Seq(PxHeardEvents)
    /\ PxKnown(via, up, parser, h)
    /\ \A t : PxIds(h, t) \in SUBSET (Nat \ {0})
    /\ PxPassedOn(via, parser, h) \in PxLedgers
    /\ PxPassedOn(via, parser, h).texts = PxIds(h, "text") \ PxHeldIds(parser)
    /\ PxPassedOn(via, parser, h).calls = PxIds(h, "start")
    /\ PxPassedOn(via, parser, h).done = PxDoneIds(via, h)
    /\ PxPassedOn(via, parser, h).args = PxArgsOf(via, h)
    /\ PxGood(request, m, PxPassedOn(via, parser, h)) /\ m \in PxMappers
    /\ request.protocol \in PxProtocols
<1> USE DEF PxKnown, PxHolds
<1>1.
  /\ up \in PxUps /\ h \in Seq(PxHeardEvents) /\ parser \in PxParsers
  /\ PxKnown(via, up, parser, h) /\ PxGood(request, m, PxPassedOn(via, parser, h))
  BY DEF PxGoesOn, PxHears, PxUps, PxParsers
<1>2. up.calls \in Nat /\ up.open \in Nat /\ up.texts \in Nat BY <1>1 DEF PxUps
<1>3. parser.calls \in Seq(Nat) /\ parser.held \in Seq(PxHeardEvents) BY <1>1, ParserSet
<1>4. m \in PxMappers /\ request.protocol \in PxProtocols BY <1>1, GoodMapper
<1>5. \A t : PxIds(h, t) \in SUBSET (Nat \ {0}) BY <1>1, HeardTyped
<1> QED BY <1>1, <1>2, <1>3, <1>4, <1>5, PassedParts

\* The texts and the one that is held back play no part in what happens to calls.
LEMMA HeldStays ==
  ASSUME NEW via, NEW up, NEW parser, NEW h, NEW request, NEW m,
    PxGoesOn(via, up, parser, h, request, m)
  PROVE
    \A p, r :
      (p.held = parser.held /\ PxIds(r, "text") = PxIds(h, "text")) =>
        /\ PxHolds(via, p, PxIds(r, "text"))
        /\ PxIds(r, "text") \ PxHeldIds(p) = PxIds(h, "text") \ PxHeldIds(parser)
<1> USE DEF PxKnown, PxHolds
<1>1. PxHolds(via, parser, PxIds(h, "text")) BY DEF PxGoesOn, PxHears
<1>2. \A p : p.held = parser.held => PxHeldIds(p) = PxHeldIds(parser) BY DEF PxHeldIds
<1> QED BY <1>1, <1>2

\* A call starts; Gemini's is complete at once.
LEMMA HearStart ==
  ASSUME NEW via, NEW up, NEW parser, NEW h, NEW request, NEW m,
    PxGoesOn(via, up, parser, h, request, m),
    NEW e \in PxHeardEvents, e.t = "start", ProvSends(via, up, e)
  PROVE
    PxGoesOn(via, ProvSent(via, up, e), ProvHear(via, parser, e).parser, Append(h, e),
             request, PxMapAll(request, m, ProvHear(via, parser, e).chunks))
<1> USE DEF PxKnown, PxHolds
<1> DEFINE L == PxPassedOn(via, parser, h)
  r == Append(h, e)
  v == ProvSent(via, up, e)
  p == [parser EXCEPT !.calls = Append(parser.calls, e.id)]
<1>1.
  /\ up \in PxUps /\ h \in Seq(PxHeardEvents) /\ parser \in PxParsers
  /\ up.calls \in Nat /\ up.open \in Nat /\ up.texts \in Nat /\ parser.calls \in Seq(Nat)
  /\ Distinct(parser.calls) /\ ToSet(parser.calls) = PxIds(h, "start")
  /\ up.open <= up.calls
  /\ \A x \in PxIds(h, "start") \cup PxIds(h, "args") \cup PxIds(h, "stop") : x <= up.calls
  /\ \A x \in PxIds(h, "text") : x <= up.texts
  /\ \A t : PxIds(h, t) \in SUBSET (Nat \ {0})
  /\ L \in PxLedgers /\ L.texts = PxIds(h, "text") \ PxHeldIds(parser)
  /\ L.calls = PxIds(h, "start") /\ L.done = PxDoneIds(via, h) /\ L.args = PxArgsOf(via, h)
  /\ PxGood(request, m, L) /\ m \in PxMappers
  BY OnParts
<1>2. e.id = up.calls + 1 /\ e.id \in Nat \ {0} /\ via # "cli"
  BY <1>1 DEF ProvSends, PxHeardEvents
<1>3.
  /\ r \in Seq(PxHeardEvents)
  /\ PxIds(r, "start") = PxIds(h, "start") \cup {e.id} /\ PxIds(r, "text") = PxIds(h, "text")
  /\ PxIds(r, "args") = PxIds(h, "args") /\ PxIds(r, "stop") = PxIds(h, "stop")
  /\ \A x : PxArgsAt(r, x) = PxArgsAt(h, x)
 <2>1. h \in Seq(PxHeardEvents) /\ e.t = "start" BY <1>1
 <2> HIDE DEF L, v, p
 <2> QED BY ONLY <2>1, e \in PxHeardEvents, HeardMore DEF r
<1>4. v \in PxUps /\ v.texts = up.texts /\ v.calls = up.calls + 1 /\ v.open \in {0, e.id}
  BY <1>1, SentParts
<1>5.
  /\ e.id \notin PxIds(h, "start") /\ e.id \notin PxIds(h, "args")
  /\ e.id \notin PxIds(h, "stop")
  /\ \A x \in PxIds(h, "start") \cup PxIds(h, "args") \cup PxIds(h, "stop") : x <= up.calls + 1
  BY <1>1, <1>2
<1>50. Cardinality(PxArgsAt(h, e.id)) = 0 BY <1>1, <1>2, <1>5, HeardMore
<1>6.
  /\ p \in PxParsers /\ p.held = parser.held /\ p.calls = Append(parser.calls, e.id)
  /\ Distinct(p.calls) /\ ToSet(p.calls) = PxIds(h, "start") \cup {e.id}
 <2>1. Append(parser.calls, e.id) \in Seq(Nat) BY <1>1, <1>2, AppendProperties
 <2>2. p \in PxParsers /\ p.held = parser.held /\ p.calls = Append(parser.calls, e.id)
   BY <1>1, <2>1, ParserSet
 <2>3.
   /\ Distinct(Append(parser.calls, e.id))
   /\ ToSet(Append(parser.calls, e.id)) = ToSet(parser.calls) \cup {e.id}
   BY <1>1, <1>2, <1>5, AppendNew, AppendMember
 <2> QED BY <1>1, <2>2, <2>3
<1> HIDE DEF L, r, v, p
<1>7. PxHolds(via, p, PxIds(r, "text")) BY <1>3, <1>6, HeldStays
<1>8. PxIds(r, "text") \ PxHeldIds(p) = PxIds(h, "text") \ PxHeldIds(parser)
  BY <1>3, <1>6, HeldStays
<1>9. PxHears(via, v, p, r)
 <2>1. v.open <= v.calls /\ v.open \notin PxIds(r, "stop") BY <1>1, <1>2, <1>3, <1>4, <1>5
 <2>2. \A x \in PxIds(r, "start") \cup PxIds(r, "args") \cup PxIds(r, "stop") : x <= v.calls
   BY <1>2, <1>3, <1>4, <1>5
 <2>3. \A x \in PxIds(r, "text") : x <= v.texts BY <1>1, <1>3, <1>4
 <2> QED BY <1>2, <1>3, <1>4, <1>6, <1>7, <2>1, <2>2, <2>3 DEF PxHears, PxUps, PxParsers
<1>10. L.args \in [Nat -> Nat] /\ L.args[e.id] = 0 /\ e.id \notin L.calls
  BY <1>1, <1>2, <1>5, LedgerParts DEF PxArgsOf
<1>11. ASSUME NEW k, PxGood(request, PxMapAll(request, m, k), PxPassedOn(via, p, r)),
    ProvHear(via, parser, e) = [parser |-> p, chunks |-> k]
  PROVE
    PxGoesOn(via, v, ProvHear(via, parser, e).parser, r, request,
             PxMapAll(request, m, ProvHear(via, parser, e).chunks))
  BY <1>9, <1>11 DEF PxGoesOn
<1> DEFINE s == ProvChunk("start", e.id)
  d == ProvChunk("delta", e.id)
  f == ProvChunk("end", e.id)
<1>12. CASE via = "gemini"
 <2>1. ProvHear(via, parser, e) = [parser |-> p, chunks |-> s \o (d \o f)]
   BY <1>12 DEF ProvHear, ProvStart, p
 <2>2.
   PxGood(request, PxMapAll(request, m, s \o (d \o f)),
          PxLedger(L.texts, L.calls \cup {e.id}, L.done \cup {e.id},
              [L.args EXCEPT ![e.id] = 1]))
   BY <1>1, <1>2, <1>10, GoodCall
 <2>3. PxDoneIds(via, r) = L.done \cup {e.id} BY <1>1, <1>3, <1>12 DEF PxDoneIds
 <2>4. PxArgsOf(via, r) = [L.args EXCEPT ![e.id] = 1] BY <1>1, <1>2, <1>3, <1>12 DEF PxArgsOf
 <2>5.
   PxPassedOn(via, p, r)
     = PxLedger(L.texts, L.calls \cup {e.id}, L.done \cup {e.id}, [L.args EXCEPT ![e.id] = 1])
   BY <1>1, <1>3, <1>8, <2>3, <2>4 DEF PxPassedOn
 <2> HIDE DEF s, d, f
 <2> QED BY <1>11, <2>1, <2>2, <2>5 DEF r, v
<1>13. CASE via # "gemini"
 <2> DEFINE c == [t |-> "start", id |-> e.id]
 <2>1. ProvHear(via, parser, e) = [parser |-> p, chunks |-> <<c>>]
  <3>1. ProvHear(via, parser, e) = [parser |-> p, chunks |-> <<c>> \o <<>>]
    BY <1>13 DEF ProvHear, ProvStart, ProvChunk, p
  <3>2. <<c>> \o <<>> = <<c>> OBVIOUS
  <3> QED BY <3>1, <3>2
 <2>2. c \in PxChunks /\ PxMaySay(L, c) BY <1>2, <1>10 DEF PxChunks, PxMaySay
 <2>3. PxGood(request, PxMapAll(request, m, <<c>>), PxSaying(L, c)) BY <1>1, <2>2, GoodFew
 <2>4. PxSaying(L, c) = PxLedger(L.texts, L.calls \cup {e.id}, L.done, L.args) BY DEF PxSaying
 <2>5. PxDoneIds(via, r) = L.done BY <1>1, <1>3, <1>5, <1>13 DEF PxDoneIds
 <2>6. PxArgsOf(via, r) = L.args BY <1>1, <1>3, <1>5, <1>50, <1>13 DEF PxArgsOf
 <2>7. PxPassedOn(via, p, r) = PxLedger(L.texts, L.calls \cup {e.id}, L.done, L.args)
   BY <1>1, <1>3, <1>8, <2>5, <2>6 DEF PxPassedOn
 <2> HIDE DEF c
 <2> QED BY <1>11, <2>1, <2>3, <2>4, <2>7 DEF r, v
<1> QED BY <1>12, <1>13

\* Arguments are passed on when the start of their call was.
LEMMA HearArgs ==
  ASSUME NEW via, NEW up, NEW parser, NEW h, NEW request, NEW m,
    PxGoesOn(via, up, parser, h, request, m),
    NEW e \in PxHeardEvents, e.t = "args", ProvSends(via, up, e)
  PROVE
    PxGoesOn(via, ProvSent(via, up, e), ProvHear(via, parser, e).parser, Append(h, e),
             request, PxMapAll(request, m, ProvHear(via, parser, e).chunks))
<1> USE DEF PxKnown, PxHolds
<1> DEFINE L == PxPassedOn(via, parser, h)
  r == Append(h, e)
<1>1.
  /\ up \in PxUps /\ h \in Seq(PxHeardEvents) /\ parser \in PxParsers
  /\ up.calls \in Nat /\ up.open \in Nat /\ PxKnown(via, up, parser, h)
  /\ L \in PxLedgers /\ L.texts = PxIds(h, "text") \ PxHeldIds(parser)
  /\ L.calls = PxIds(h, "start") /\ L.done = PxDoneIds(via, h) /\ L.args = PxArgsOf(via, h)
  /\ PxGood(request, m, L) /\ m \in PxMappers
  BY OnParts
<1>2.
  /\ e.id \in Nat \ {0} /\ via # "gemini" /\ e.id <= up.calls
  /\ via \in {"anthropic", "codex"} => e.id \notin PxIds(h, "stop")
 <2>1. e.id \in Nat \ {0} BY DEF PxHeardEvents
 <2>2.
   /\ via # "gemini"
   /\ via \in {"openai", "compatible"} => e.id \in 1 .. up.calls
   /\ via \notin {"openai", "compatible"} => e.id = up.open
   BY DEF ProvSends
 <2> QED BY <1>1, <2>1, <2>2
<1>3.
  /\ r \in Seq(PxHeardEvents)
  /\ PxIds(r, "start") = PxIds(h, "start") /\ PxIds(r, "text") = PxIds(h, "text")
  /\ PxIds(r, "args") = PxIds(h, "args") \cup {e.id} /\ PxIds(r, "stop") = PxIds(h, "stop")
  /\ \A x : x # e.id => PxArgsAt(r, x) = PxArgsAt(h, x)
  /\ Cardinality(PxArgsAt(r, e.id)) = Cardinality(PxArgsAt(h, e.id)) + 1
 <2>1. h \in Seq(PxHeardEvents) /\ e.t = "args" BY <1>1
 <2>2. r \in Seq(PxHeardEvents) BY <2>1, AppendProperties
 <2>3.
   /\ PxIds(r, "start") = PxIds(h, "start") /\ PxIds(r, "text") = PxIds(h, "text")
   /\ PxIds(r, "stop") = PxIds(h, "stop") /\ PxIds(r, "args") = PxIds(h, "args") \cup {e.id}
   BY ONLY <2>1, e \in PxHeardEvents, HeardMore DEF r
 <2>4.
   \A x : /\ (e.t = "args" /\ e.id = x)
              => Cardinality(PxArgsAt(r, x)) = Cardinality(PxArgsAt(h, x)) + 1
          /\ ~ (e.t = "args" /\ e.id = x) => PxArgsAt(r, x) = PxArgsAt(h, x)
   BY ONLY <2>1, e \in PxHeardEvents, HeardMore DEF r
 <2> HIDE DEF L, r
 <2> QED BY <2>1, <2>2, <2>3, <2>4
<1>4. ProvSent(via, up, e) = up BY <1>1, SentParts
<1> HIDE DEF L, r
<1>5. PxHears(via, up, parser, r)
 <2>1. PxHolds(via, parser, PxIds(r, "text")) BY <1>3, HeldStays
 <2>2. \A x \in PxIds(r, "start") \cup PxIds(r, "args") \cup PxIds(r, "stop") : x <= up.calls
   BY <1>1, <1>2, <1>3
 <2> QED BY <1>1, <1>3, <2>1, <2>2 DEF PxHears, PxUps, PxParsers
<1>6. PxIds(r, "text") \ PxHeldIds(parser) = L.texts /\ PxDoneIds(via, r) = L.done
  BY <1>1, <1>3 DEF PxDoneIds
<1>7. ASSUME NEW k, PxGood(request, PxMapAll(request, m, k), PxPassedOn(via, parser, r)),
    ProvHear(via, parser, e) = [parser |-> parser, chunks |-> k]
  PROVE
    PxGoesOn(via, ProvSent(via, up, e), ProvHear(via, parser, e).parser, r, request,
             PxMapAll(request, m, ProvHear(via, parser, e).chunks))
  BY <1>4, <1>5, <1>7 DEF PxGoesOn
<1>8. CASE e.id \in PxIds(h, "start")
 <2> DEFINE c == [t |-> "delta", id |-> e.id]
 <2>1. ProvHear(via, parser, e) = [parser |-> parser, chunks |-> <<c>>]
   BY <1>1, <1>8 DEF ProvHear, ProvOfCall, ProvChunk
 <2>2. c \in PxChunks /\ PxMaySay(L, c) BY <1>1, <1>2, <1>8 DEF PxChunks, PxMaySay, PxDoneIds
 <2>3. PxGood(request, PxMapAll(request, m, <<c>>), PxSaying(L, c)) BY <1>1, <2>2, GoodFew
 <2>4. PxSaying(L, c) = PxLedger(L.texts, L.calls, L.done, [L.args EXCEPT ![e.id] = @ + 1])
   BY DEF PxSaying
 <2>5. PxArgsOf(via, r) = [L.args EXCEPT ![e.id] = @ + 1]
  <3>1. \A x \in Nat : PxArgsOf(via, r)[x] = [L.args EXCEPT ![e.id] = @ + 1][x]
    BY <1>1, <1>2, <1>3, <1>8 DEF PxArgsOf
  <3> QED BY <1>1, <3>1 DEF PxArgsOf
 <2>6.
   PxPassedOn(via, parser, r)
     = PxLedger(L.texts, L.calls, L.done, [L.args EXCEPT ![e.id] = @ + 1])
   BY <1>1, <1>3, <1>6, <2>5 DEF PxPassedOn
 <2> HIDE DEF c
 <2> QED BY <1>7, <2>1, <2>3, <2>4, <2>6 DEF r
<1>9. CASE e.id \notin PxIds(h, "start")
 <2>1. ProvHear(via, parser, e) = [parser |-> parser, chunks |-> <<>>]
   BY <1>1, <1>9 DEF ProvHear, ProvOfCall
 <2>2. PxArgsOf(via, r) = L.args BY <1>1, <1>3, <1>9 DEF PxArgsOf
 <2>3. PxPassedOn(via, parser, r) = L BY <1>1, <1>3, <1>6, <2>2, LedgerParts DEF PxPassedOn
 <2>4. PxGood(request, PxMapAll(request, m, <<>>), L) BY <1>1, GoodFew
 <2> QED BY <1>7, <2>1, <2>3, <2>4 DEF r
<1> QED BY <1>8, <1>9

\* A call ends.
LEMMA HearStop ==
  ASSUME NEW via, NEW up, NEW parser, NEW h, NEW request, NEW m,
    PxGoesOn(via, up, parser, h, request, m),
    NEW e \in PxHeardEvents, e.t = "stop", ProvSends(via, up, e)
  PROVE
    PxGoesOn(via, ProvSent(via, up, e), ProvHear(via, parser, e).parser, Append(h, e),
             request, PxMapAll(request, m, ProvHear(via, parser, e).chunks))
<1> USE DEF PxKnown, PxHolds
<1> DEFINE L == PxPassedOn(via, parser, h)
  r == Append(h, e)
  v == ProvSent(via, up, e)
<1>1.
  /\ up \in PxUps /\ h \in Seq(PxHeardEvents) /\ parser \in PxParsers
  /\ up.calls \in Nat /\ up.open \in Nat /\ PxKnown(via, up, parser, h)
  /\ \A t : PxIds(h, t) \in SUBSET (Nat \ {0})
  /\ L \in PxLedgers /\ L.texts = PxIds(h, "text") \ PxHeldIds(parser)
  /\ L.calls = PxIds(h, "start") /\ L.done = PxDoneIds(via, h) /\ L.args = PxArgsOf(via, h)
  /\ PxGood(request, m, L) /\ m \in PxMappers
  BY OnParts
<1>2. e.id \in Nat \ {0} /\ via \in {"anthropic", "codex"} /\ e.id = up.open
  BY DEF ProvSends, PxHeardEvents
<1>3.
  /\ r \in Seq(PxHeardEvents)
  /\ PxIds(r, "start") = PxIds(h, "start") /\ PxIds(r, "text") = PxIds(h, "text")
  /\ PxIds(r, "args") = PxIds(h, "args") /\ PxIds(r, "stop") = PxIds(h, "stop") \cup {e.id}
  /\ \A x : PxArgsAt(r, x) = PxArgsAt(h, x)
 <2>1. h \in Seq(PxHeardEvents) /\ e.t = "stop" BY <1>1
 <2>2. r \in Seq(PxHeardEvents) BY <2>1, AppendProperties
 <2>3.
   /\ PxIds(r, "start") = PxIds(h, "start") /\ PxIds(r, "text") = PxIds(h, "text")
   /\ PxIds(r, "args") = PxIds(h, "args") /\ PxIds(r, "stop") = PxIds(h, "stop") \cup {e.id}
   BY ONLY <2>1, e \in PxHeardEvents, HeardMore DEF r
 <2>4.
   \A x : /\ (e.t = "args" /\ e.id = x)
              => Cardinality(PxArgsAt(r, x)) = Cardinality(PxArgsAt(h, x)) + 1
          /\ ~ (e.t = "args" /\ e.id = x) => PxArgsAt(r, x) = PxArgsAt(h, x)
   BY ONLY <2>1, e \in PxHeardEvents, HeardMore DEF r
 <2> HIDE DEF L, v, r
 <2> QED BY <2>1, <2>2, <2>3, <2>4
<1>4. v \in PxUps /\ v.texts = up.texts /\ v.calls = up.calls /\ v.open = 0 BY <1>1, SentParts
<1> HIDE DEF L, r, v
<1>5. PxHears(via, v, parser, r)
 <2>1. PxHolds(via, parser, PxIds(r, "text")) BY <1>3, HeldStays
 <2>2. \A x \in PxIds(r, "start") \cup PxIds(r, "args") \cup PxIds(r, "stop") : x <= v.calls
   BY <1>1, <1>2, <1>3, <1>4
 <2>3. v.open <= v.calls /\ v.open \notin PxIds(r, "stop") BY <1>1, <1>2, <1>3, <1>4
 <2> QED BY <1>1, <1>3, <1>4, <2>1, <2>2, <2>3 DEF PxHears, PxUps, PxParsers
<1>6. PxIds(r, "text") \ PxHeldIds(parser) = L.texts /\ PxArgsOf(via, r) = L.args
  BY <1>1, <1>3 DEF PxArgsOf
<1>7. ASSUME NEW k, PxGood(request, PxMapAll(request, m, k), PxPassedOn(via, parser, r)),
    ProvHear(via, parser, e) = [parser |-> parser, chunks |-> k]
  PROVE
    PxGoesOn(via, v, ProvHear(via, parser, e).parser, r, request,
             PxMapAll(request, m, ProvHear(via, parser, e).chunks))
  BY <1>5, <1>7 DEF PxGoesOn
<1>8. CASE e.id \in PxIds(h, "start")
 <2> DEFINE c == [t |-> "end", id |-> e.id]
 <2>1. ProvHear(via, parser, e) = [parser |-> parser, chunks |-> <<c>>]
   BY <1>1, <1>8 DEF ProvHear, ProvOfCall, ProvChunk
 <2>2. c \in PxChunks /\ PxMaySay(L, c) BY <1>1, <1>2, <1>8 DEF PxChunks, PxMaySay, PxDoneIds
 <2>3. PxGood(request, PxMapAll(request, m, <<c>>), PxSaying(L, c)) BY <1>1, <2>2, GoodFew
 <2>4. PxSaying(L, c) = PxLedger(L.texts, L.calls, L.done \cup {e.id}, L.args) BY DEF PxSaying
 <2>5. PxDoneIds(via, r) = L.done \cup {e.id} BY <1>1, <1>2, <1>3, <1>8 DEF PxDoneIds
 <2>6. PxPassedOn(via, parser, r) = PxLedger(L.texts, L.calls, L.done \cup {e.id}, L.args)
   BY <1>1, <1>3, <1>6, <2>5 DEF PxPassedOn
 <2> HIDE DEF c
 <2> QED BY <1>7, <2>1, <2>3, <2>4, <2>6 DEF r, v
<1>9. CASE e.id \notin PxIds(h, "start")
 <2>1. ProvHear(via, parser, e) = [parser |-> parser, chunks |-> <<>>]
   BY <1>1, <1>9 DEF ProvHear, ProvOfCall
 <2>2. PxDoneIds(via, r) = L.done BY <1>1, <1>2, <1>3, <1>9 DEF PxDoneIds
 <2>3. PxPassedOn(via, parser, r) = L BY <1>1, <1>3, <1>6, <2>2, LedgerParts DEF PxPassedOn
 <2>4. PxGood(request, PxMapAll(request, m, <<>>), L) BY <1>1, GoodFew
 <2> QED BY <1>7, <2>1, <2>3, <2>4 DEF r, v
<1> QED BY <1>8, <1>9

\* What a Codex stream loses changes nothing of what was heard.
LEMMA HearLost ==
  ASSUME NEW via, NEW up, NEW parser, NEW h, NEW request, NEW m,
    PxGoesOn(via, up, parser, h, request, m),
    NEW e \in PxHeardEvents, e.t # "args", ProvSends(via, up, e)
  PROVE PxGoesOn(via, ProvSent(via, up, e), parser, h, request, m)
<1> USE DEF PxKnown, PxHolds
<1> DEFINE v == ProvSent(via, up, e)
<1>1.
  /\ up \in PxUps /\ h \in Seq(PxHeardEvents) /\ parser \in PxParsers
  /\ up.calls \in Nat /\ up.open \in Nat /\ up.texts \in Nat /\ up.open <= up.calls
  /\ \A x \in PxIds(h, "start") \cup PxIds(h, "args") \cup PxIds(h, "stop") : x <= up.calls
  /\ up.open \notin PxIds(h, "stop")
  /\ \A x \in PxIds(h, "text") : x <= up.texts
  /\ \A t : PxIds(h, t) \in SUBSET (Nat \ {0})
  BY OnParts
<1>2.
  /\ v \in PxUps /\ v.texts \in Nat /\ v.calls \in Nat /\ v.open \in Nat
  /\ up.texts <= v.texts /\ up.calls <= v.calls
  /\ v.open <= v.calls /\ v.open \notin PxIds(h, "stop")
 <2>1. e.t \in {"text", "think", "start", "stop"} /\ e.id \in Nat \ {0} BY DEF PxHeardEvents
 <2>2. e.t = "start" => e.id = up.calls + 1 BY DEF ProvSends
 <2>3.
   /\ v \in PxUps
   /\ e.t \in {"text", "think"} =>
        v.texts = up.texts + 1 /\ v.calls = up.calls /\ v.open = up.open
   /\ e.t = "start" =>
        v.texts = up.texts /\ v.calls = up.calls + 1 /\ v.open \in {0, e.id}
   /\ e.t = "stop" => v.texts = up.texts /\ v.calls = up.calls /\ v.open = 0
   BY <1>1, SentParts
 <2> HIDE DEF v
 <2>4. v.texts \in Nat /\ v.calls \in Nat /\ v.open \in Nat BY <2>3 DEF PxUps
 <2>5. \A x \in PxIds(h, "stop") : x # 0 /\ x < up.calls + 1 BY <1>1
 <2> QED BY <1>1, <2>1, <2>2, <2>3, <2>4, <2>5
<1> HIDE DEF v
<1>3.
  /\ \A x \in PxIds(h, "start") \cup PxIds(h, "args") \cup PxIds(h, "stop") : x <= v.calls
  /\ \A x \in PxIds(h, "text") : x <= v.texts
  BY <1>1, <1>2
<1> QED BY <1>2, <1>3 DEF PxGoesOn, PxHears, PxUps, v

\* The end of every call is told once.
LEMMA GoodEnds ==
  ASSUME NEW request, NEW m, NEW L, PxGood(request, m, L),
    NEW calls \in Seq(Nat), Distinct(calls),
    ToSet(calls) \subseteq L.calls, ToSet(calls) \cap L.done = {},
    NEW cs, cs = [i \in DOMAIN calls |-> [t |-> "end", id |-> calls[i]]]
  PROVE
    /\ cs \in Seq(PxChunks)
    /\ PxGood(request, PxMapAll(request, m, cs),
              PxLedger(L.texts, L.calls, L.done \cup ToSet(calls), L.args))
<1> DEFINE N == Len(calls)
  Upto(n) == {calls[i] : i \in 1 .. n}
  M(n) == PxLedger(L.texts, L.calls, L.done \cup Upto(n), L.args)
<1>1.
  /\ N \in Nat /\ DOMAIN calls = 1 .. N /\ \A i \in 1 .. N : calls[i] \in Nat
  /\ ToSet(calls) = Upto(N)
  BY LenProperties, ElementOfSeq, ToSetMembers
<1>2.
  /\ cs \in Seq(PxChunks) /\ Len(cs) = N
  /\ \A i \in 1 .. N : cs[i] = [t |-> "end", id |-> calls[i]]
 <2>1. cs \in [1 .. N -> PxChunks] BY <1>1 DEF PxChunks
 <2> HIDE DEF N
 <2>2. cs \in Seq(PxChunks) /\ Len(cs) = N BY <1>1, <2>1, FromFunction
 <2> QED BY <1>1, <2>2
<1>3.
  /\ L \in PxLedgers /\ request.protocol \in PxProtocols /\ m \in PxMappers
  /\ L.texts \in SUBSET Nat /\ L.calls \in SUBSET (Nat \ {0}) /\ L.done \in SUBSET Nat
  /\ L.args \in [Nat -> Nat] /\ L.done \subseteq L.calls
  BY GoodMapper, LedgerParts
<1>4. PICK f : MapsBy(f, request, m, cs)
 <2>1. request.stream => request.protocol \in PxProtocols BY <1>3
 <2> QED BY ONLY <1>2, <1>3, <2>1, MapSteps
<1>5.
  /\ f[0] = m /\ PxMapAll(request, m, cs) = f[N]
  /\ \A n \in 1 .. N : f[n] = PxMap(request, f[n - 1], cs[n])
  BY <1>2, <1>4 DEF MapsBy
<1> DEFINE T == {n \in Nat : n \in 0 .. N => PxGood(request, f[n], M(n))}
<1>6. 0 \in T
 <2>1. Upto(0) = {} OBVIOUS
 <2>2. L.done \cup Upto(0) = L.done BY <2>1
 <2> HIDE DEF Upto
 <2>3. M(0) = L BY <1>3, <2>2, LedgerParts
 <2> QED BY <1>5, <2>3
<1>7. ASSUME NEW n \in Nat, n \in T
  PROVE n + 1 \in T
 <2>1. SUFFICES ASSUME n + 1 \in 0 .. N PROVE PxGood(request, f[n + 1], M(n + 1)) OBVIOUS
 <2> DEFINE x == calls[n + 1]
   c == [t |-> "end", id |-> x]
 <2>2.
   /\ n \in 0 .. N /\ n + 1 \in 1 .. N /\ (n + 1) - 1 = n
   /\ \A i \in 1 .. n : i \in 1 .. N /\ i # n + 1
   /\ \A i \in 1 .. n + 1 : i = n + 1 \/ i \in 1 .. n
   BY <1>1, <2>1
 <2>3. PxGood(request, f[n], M(n)) BY <1>7, <2>2
 <2>4. f[n + 1] = PxMap(request, f[n], c) BY <1>2, <1>5, <2>2
 <2>5. x \in Nat /\ x \in L.calls /\ x \notin L.done BY <1>1, <2>2
 <2>6. x \notin Upto(n)
  <3>1. \A i \in 1 .. n : calls[i] # x
   <4>1. \A i, j \in 1 .. N : calls[i] = calls[j] => i = j BY DEF Distinct
   <4> HIDE DEF N, x
   <4>2. calls[n + 1] = x BY DEF x
   <4> QED BY <2>2, <4>1, <4>2
  <3> QED BY <3>1
 <2>7. Upto(n + 1) = Upto(n) \cup {x}
  <3>1. 1 .. n + 1 = (1 .. n) \cup {n + 1} OBVIOUS
  <3> QED BY ONLY <3>1
 <2>8.
   M(n).texts = L.texts /\ M(n).calls = L.calls /\ M(n).done = L.done \cup Upto(n)
   /\ M(n).args = L.args
   BY DEF PxLedger
 <2>9. c \in PxChunks /\ PxMaySay(M(n), c) BY <2>5, <2>6, <2>8 DEF PxChunks, PxMaySay
 <2>10. PxSaying(M(n), c) = M(n + 1)
  <3>1. PxSaying(M(n), c) = PxLedger(M(n).texts, M(n).calls, M(n).done \cup {x}, M(n).args)
    BY DEF PxSaying
  <3>2. (L.done \cup Upto(n)) \cup {x} = L.done \cup Upto(n + 1) BY <2>7
  <3> HIDE DEF Upto
  <3> QED BY <2>8, <3>1, <3>2
 <2> HIDE DEF M, c
 <2> QED BY <2>3, <2>4, <2>9, <2>10, MapStep
<1> HIDE DEF T
<1>8. Nat \subseteq T BY <1>6, <1>7, EveryNumber
<1>9. PxGood(request, f[N], M(N)) BY <1>1, <1>8 DEF T
<1> QED BY <1>1, <1>2, <1>5, <1>9

\* What an answer has told when the stream has ended.
PxToldAll(via, h, request, m, L) ==
  /\ PxGood(request, m, L) /\ L.texts = PxIds(h, "text") /\ PxIds(h, "start") \subseteq L.calls
  /\ PxIds(h, "start") \cap (IF via \in {"anthropic", "codex"} THEN PxIds(h, "stop") ELSE Nat)
       \subseteq L.done
  /\ via # "gemini" => \A x \in PxIds(h, "start") : L.args[x] = Cardinality(PxArgsAt(h, x))

\* At the end of the stream the parser passes on what it has kept back.
LEMMA HearEnd ==
  ASSUME NEW via \in ProvKinds, NEW up, NEW parser, NEW h, NEW request, NEW m,
    PxGoesOn(via, up, parser, h, request, m),
    NEW react \in BOOLEAN, NEW chunks, chunks = ProvEnd(via, parser, react).chunks
  PROVE \E L : PxToldAll(via, h, request, PxMapAll(request, m, chunks), L)
<1> USE DEF PxKnown, PxHolds
<1> DEFINE P == PxPassedOn(via, parser, h)
  texts == PxIds(h, "text")
  starts == PxIds(h, "start")
  whole == starts \cap (IF via \in {"anthropic", "codex"} THEN PxIds(h, "stop") ELSE Nat)
  args == PxArgsOf(via, h)
  H == ProvHeld(parser)
  C == ProvEndCalls(via, parser)
  R == ProvReact(via, parser, react)
  D == ProvChunk("done", 0)
  L1 == PxLedger(texts, starts, PxDoneIds(via, h), args)
  m1 == PxMapAll(request, m, H)
  m2 == PxMapAll(request, m1, C)
  m3 == PxMapAll(request, m2, R)
  m4 == PxMapAll(request, m3, D)
<1>1.
  /\ h \in Seq(PxHeardEvents) /\ parser \in PxParsers /\ parser.calls \in Seq(Nat)
  /\ Distinct(parser.calls) /\ ToSet(parser.calls) = starts
  /\ via = "cli" => parser.calls = <<>>
  /\ \A t : PxIds(h, t) \in SUBSET (Nat \ {0})
  /\ P \in PxLedgers /\ P.done = PxDoneIds(via, h) /\ P.args = args
  /\ PxGood(request, m, P) /\ m \in PxMappers /\ request.protocol \in PxProtocols
  BY OnParts
<1>2. PxGood(request, m1, L1) /\ H \in Seq(PxChunks) BY GoodHeld
<1>3. L1.texts = texts /\ L1.calls = starts /\ L1.done = PxDoneIds(via, h) /\ L1.args = args
  BY DEF PxLedger
<1>4. \A x \in starts : via # "gemini" => args[x] = Cardinality(PxArgsAt(h, x))
  BY <1>1 DEF PxArgsOf
<1>5.
  PICK L2 : /\ PxGood(request, m2, L2) /\ C \in Seq(PxChunks)
            /\ L2.texts = texts /\ L2.calls = starts /\ L2.args = args
            /\ whole \subseteq L2.done
 <2>1. CASE via \in {"openai", "compatible"}
  <3> DEFINE E == PxLedger(texts, starts, PxDoneIds(via, h) \cup ToSet(parser.calls), args)
  <3>1. C = [i \in DOMAIN parser.calls |-> [t |-> "end", id |-> parser.calls[i]]]
    BY <2>1 DEF ProvEndCalls
  <3>2. ToSet(parser.calls) \subseteq L1.calls /\ ToSet(parser.calls) \cap L1.done = {}
    BY <1>1, <1>3, <2>1 DEF PxDoneIds
  <3> HIDE DEF L1, m1, C
  <3>3.
    /\ C \in Seq(PxChunks)
    /\ PxGood(request, PxMapAll(request, m1, C),
              PxLedger(L1.texts, L1.calls, L1.done \cup ToSet(parser.calls), L1.args))
   <4> DEFINE K == parser.calls
   <4>1.
     /\ K \in Seq(Nat) /\ Distinct(K)
     /\ ToSet(K) \subseteq L1.calls /\ ToSet(K) \cap L1.done = {}
     /\ C = [i \in DOMAIN K |-> [t |-> "end", id |-> K[i]]]
     BY <1>1, <3>1, <3>2
   <4> HIDE DEF K
   <4>2. C \in Seq(PxChunks) /\ PxGood(request, PxMapAll(request, m1, C),
                 PxLedger(L1.texts, L1.calls, L1.done \cup ToSet(K), L1.args))
     BY ONLY <1>2, <4>1, GoodEnds
   <4> QED BY <4>2 DEF K
  <3>4. E.texts = texts /\ E.calls = starts /\ E.args = args
        /\ E.done = PxDoneIds(via, h) \cup ToSet(parser.calls)
    BY DEF PxLedger
  <3>5. whole \subseteq E.done BY <1>1, <3>4
  <3>6. PxGood(request, m2, E) BY <1>3, <3>3
  <3> HIDE DEF E, texts, starts, args, whole, m2
  <3> QED BY <3>3, <3>4, <3>5, <3>6
 <2>2. CASE via \notin {"openai", "compatible"}
  <3>1. C = <<>> BY <2>2 DEF ProvEndCalls
  <3>2. C \in Seq(PxChunks) /\ PxGood(request, m2, L1)
   <4> HIDE DEF L1, m1
   <4>1. PxGood(request, PxMapAll(request, m1, <<>>), L1) BY <1>2, GoodFew
   <4> QED BY <3>1, <4>1
  <3>3. whole \subseteq PxDoneIds(via, h)
   <4>1. CASE via \in {"anthropic", "codex"} BY <4>1 DEF PxDoneIds
   <4>2. CASE via = "gemini" BY <4>2 DEF PxDoneIds
   <4>3. CASE via = "cli"
    <5>1. starts = {} BY <1>1, <4>3, NoMembers
    <5> QED BY <5>1
   <4> QED BY <2>2, <4>1, <4>2, <4>3 DEF ProvKinds
  <3> HIDE DEF L1, m2, C, texts, starts, args, whole
  <3> QED BY <1>3, <3>2, <3>3
 <2> QED BY <2>1, <2>2
<1>6.
  PICK L3 : /\ PxGood(request, m3, L3) /\ R \in Seq(PxChunks)
            /\ L3.texts = texts /\ starts \subseteq L3.calls
            /\ \A x \in starts : L3.args[x] = args[x]
            /\ whole \subseteq L3.done
 <2>1. CASE via = "compatible" /\ parser.calls = <<>> /\ react
  <3> DEFINE a == ProvChunk("start", 9)
    b == ProvChunk("delta", 9)
    c == ProvChunk("end", 9)
    E == PxLedger(L2.texts, L2.calls \cup {9}, L2.done \cup {9},
        [L2.args EXCEPT ![9] = 1])
  <3>1. R = a \o b \o c BY <2>1 DEF ProvReact
  <3>2. starts = {} BY <1>1, <2>1, NoMembers
  <3>3. 9 \in Nat \ {0} /\ 9 \notin L2.calls /\ L2.args[9] = 0 BY <1>5, <3>2 DEF PxArgsOf
  <3>4. PxGood(request, PxMapAll(request, m2, a \o b \o c), E) /\ a \o b \o c \in Seq(PxChunks)
   <4> HIDE DEF m2
   <4> QED BY <1>5, <3>3, GoodCall
  <3>5. E.texts = texts /\ E.done = L2.done \cup {9} BY <1>5 DEF PxLedger
  <3> HIDE DEF E, R, m2, a, b, c
  <3> QED BY <1>5, <3>1, <3>2, <3>4, <3>5
 <2>2. CASE ~ (via = "compatible" /\ parser.calls = <<>> /\ react)
  <3>1. R = <<>> BY <2>2 DEF ProvReact
  <3>2. R \in Seq(PxChunks) /\ PxGood(request, m3, L2)
   <4> HIDE DEF m2
   <4>1. PxGood(request, PxMapAll(request, m2, <<>>), L2) BY <1>5, GoodFew
   <4> QED BY <3>1, <4>1
  <3> HIDE DEF m3, R, texts, starts, args, whole
  <3> QED BY <1>5, <3>2
 <2> QED BY <2>1, <2>2
<1>7. PxGood(request, m4, L3) /\ D \in Seq(PxChunks)
 <2> DEFINE c == [t |-> "done", id |-> 0]
 <2>1. D = <<c>> BY DEF ProvChunk
 <2>2. c \in PxChunks /\ PxMaySay(L3, c) /\ PxSaying(L3, c) = L3
   BY DEF PxChunks, PxMaySay, PxSaying
 <2> HIDE DEF m3, c
 <2>3. PxGood(request, PxMapAll(request, m3, <<c>>), L3) BY <1>6, <2>2, GoodFew
 <2>4. <<c>> \in Seq(PxChunks) BY <2>2
 <2> HIDE DEF D
 <2> QED BY <2>1, <2>3, <2>4
<1>8. PxMapAll(request, m, chunks) = m4
 <2>1. chunks = ((H \o C) \o R) \o D BY DEF ProvEnd
 <2> HIDE DEF H, C, R, D
 <2> DEFINE HC == H \o C
   HCR == HC \o R
 <2>2. HC \in Seq(PxChunks) BY <1>2, <1>5, ConcatProperties
 <2>3. HCR \in Seq(PxChunks)
  <3> HIDE DEF HC
  <3> QED BY <1>6, <2>2, ConcatProperties
 <2>4.
   \A w \in PxMappers : \A u, z \in Seq(PxChunks) :
     PxMapAll(request, w, u \o z) = PxMapAll(request, PxMapAll(request, w, u), z)
  <3>1. request.protocol \in PxProtocols BY <1>1
  <3> QED BY ONLY <3>1, MapConcat
 <2>5. PxMapAll(request, m, HC) = m2 BY <1>1, <1>2, <1>5, <2>4
 <2> HIDE DEF HC
 <2>6. PxMapAll(request, m, HCR) = m3 BY <1>1, <1>6, <2>2, <2>4, <2>5
 <2> HIDE DEF HCR
 <2>7. PxMapAll(request, m, HCR \o D) = m4 BY <1>1, <1>7, <2>3, <2>4, <2>6
 <2> QED BY <2>1, <2>7 DEF HC, HCR
<1> HIDE DEF m4, texts, args
<1>9. PxToldAll(via, h, request, m4, L3) BY <1>4, <1>6, <1>7 DEF PxToldAll, texts
<1> QED BY <1>8, <1>9

--------------------
(* The answer as a whole *)

\* As many numbers, all the same distance further on.
LEMMA MovedSet ==
  ASSUME NEW S \in SUBSET Nat, IsFiniteSet(S), NEW n \in Nat
  PROVE /\ IsFiniteSet({i + n : i \in S}) /\ Cardinality({i + n : i \in S}) = Cardinality(S)
<1> DEFINE T == {i + n : i \in S}
  f == [i \in S |-> i + n]
<1>1. f \in Bijection(S, T)
 <2>1. f \in [S -> T] /\ \A a, b \in S : f[a] = f[b] => a = b
  <3>1. \A a, b \in S : a + n = b + n => a = b OBVIOUS
  <3> QED BY <3>1
 <2>2. \A t \in T : \E s \in S : f[s] = t OBVIOUS
 <2> HIDE DEF f, T
 <2> QED BY <2>1, <2>2 DEF Bijection, Injection, Surjection, IsInjective
<1>2. ExistsBijection(S, T) BY <1>1 DEF ExistsBijection
<1> QED BY <1>2, FS_Bijection

\* The body of an answer without a stream: its text, and then its calls.
LEMMA BodySound ==
  ASSUME NEW m, NEW L, PxGoodWhole(m, L)
  PROVE PxSound(m.text \o m.events, L, FALSE, FALSE, FALSE, 0)
<1> DEFINE t == m.text
  w == m.events
  b == t \o w
  n == Len(t)
  k == Len(w)
<1>1.
  /\ m \in PxMappers /\ L \in PxLedgers /\ PxSound(w, PxOfCalls(L), FALSE, FALSE, FALSE, 0)
  /\ PxSound(t, PxOfTexts(L), FALSE, FALSE, FALSE, 0)
  /\ \A i \in 1 .. n : t[i].ev = "text"
  BY DEF PxGoodWhole, PxTells, PxTexts
<1>2.
  /\ t \in Seq(PxEntries) /\ w \in Seq(PxEntries)
  /\ PxOfTexts(L).texts = L.texts /\ PxOfCalls(L).texts = {}
  /\ PxOfCalls(L).calls = L.calls /\ PxOfCalls(L).args = L.args
  BY <1>1, MapperParts, OfParts
<1>3.
  /\ PxTold(w, {}) /\ PxCallsTold(w, PxOfCalls(L)) /\ PxBlocksTold(w, FALSE)
  /\ PxTold(t, L.texts)
  BY <1>1, <1>2 DEF PxSound
<1> HIDE DEF t, w
<1>4.
  /\ b \in Seq(PxEntries) /\ Len(b) = n + k /\ n \in Nat /\ k \in Nat
  /\ \A i \in 1 .. n : b[i] = t[i]
  /\ \A i \in 1 .. k : b[n + i] = w[i]
  BY <1>2, ConcatProperties, LenProperties
<1> HIDE DEF b, n, k
<1>5. \A i \in 1 .. k : w[i].ev # "text"
 <2>1. \A x : x \in {} <=> \E i \in 1 .. Len(w) : w[i].ev = "text" /\ w[i].id = x
   BY <1>3 DEF PxTold
 <2> QED BY <2>1 DEF k
<1>6.
  \A i \in 1 .. n + k :
    \/ i \in 1 .. n /\ b[i] = t[i] /\ b[i].ev = "text"
    \/ i \notin 1 .. n /\ i - n \in 1 .. k /\ b[i] = w[i - n] /\ b[i].ev # "text"
 <2>1. ASSUME NEW i \in 1 .. n + k, i \notin 1 .. n
   PROVE i - n \in 1 .. k /\ b[i] = w[i - n] /\ b[i].ev # "text"
  <3>1. i - n \in 1 .. k /\ n + (i - n) = i BY <1>4, <2>1
  <3> QED BY <1>4, <1>5, <3>1
 <2>2. \A i \in 1 .. n : t[i].ev = "text" BY <1>1 DEF n, t
 <2> QED BY <1>4, <2>1, <2>2
<1>7. ASSUME NEW ev, ev # "text", NEW id
  PROVE
    /\ PxAt(b, ev, id) = {i + n : i \in PxAt(w, ev, id)}
    /\ Cardinality(PxAt(b, ev, id)) = Cardinality(PxAt(w, ev, id))
 <2>1. PxAt(b, ev, id) = {i + n : i \in PxAt(w, ev, id)}
  <3>1. ASSUME NEW i \in PxAt(b, ev, id)
    PROVE i \in {j + n : j \in PxAt(w, ev, id)}
   <4>1. i \in 1 .. n + k /\ b[i].ev = ev /\ b[i].id = id BY <1>4, <3>1 DEF PxAt
   <4>2. i - n \in 1 .. k /\ b[i] = w[i - n] BY <1>6, <1>7, <4>1
   <4>3. i - n \in PxAt(w, ev, id) /\ (i - n) + n = i BY <1>4, <4>1, <4>2 DEF PxAt, k
   <4> QED BY <4>3
  <3>2. ASSUME NEW j \in PxAt(w, ev, id)
    PROVE j + n \in PxAt(b, ev, id)
   <4>1. j \in 1 .. k /\ w[j].ev = ev /\ w[j].id = id BY <3>2 DEF PxAt, k
   <4>2. b[n + j] = w[j] /\ n + j = j + n /\ j + n \in 1 .. n + k BY <1>4, <4>1
   <4> QED BY <1>4, <4>1, <4>2 DEF PxAt
  <3> QED BY <3>1, <3>2
 <2>2. PxAt(w, ev, id) \in SUBSET Nat /\ IsFiniteSet(PxAt(w, ev, id))
  <3>1. PxAt(w, ev, id) \subseteq 1 .. k /\ IsFiniteSet(1 .. k) BY <1>4, FS_Interval DEF PxAt, k
  <3> QED BY <1>4, <3>1, FS_Subset
 <2> QED BY <1>4, <2>1, <2>2, MovedSet
<1>8. PxTold(b, L.texts)
 <2>1.
   /\ \A x : x \in L.texts <=> \E i \in 1 .. n : t[i].ev = "text" /\ t[i].id = x
   /\ \A i, j \in 1 .. n :
        (t[i].ev = "text" /\ t[j].ev = "text" /\ i < j) => t[i].id < t[j].id
   BY <1>3 DEF PxTold, n
 <2>2. \A x : x \in L.texts <=> \E i \in 1 .. n + k : b[i].ev = "text" /\ b[i].id = x
  <3>1. \A i \in 1 .. n : i \in 1 .. n + k BY <1>4
  <3> QED BY <1>6, <2>1, <3>1
 <2>3.
   \A i, j \in 1 .. n + k :
     (b[i].ev = "text" /\ b[j].ev = "text" /\ i < j) => b[i].id < b[j].id
   BY <1>6, <2>1
 <2> QED BY <1>4, <2>2, <2>3 DEF PxTold
<1>9. PxCallsTold(b, L)
 <2>1. ASSUME NEW x \in L.calls
   PROVE
     /\ Cardinality(PxAt(b, "open", x)) = 1
     /\ Cardinality(PxAt(b, "args", x)) = L.args[x]
     /\ \A i \in PxAt(b, "open", x), j \in PxAt(b, "args", x) : i < j
  <3>1. /\ Cardinality(PxAt(w, "open", x)) = 1 /\ Cardinality(PxAt(w, "args", x)) = L.args[x]
        /\ \A i \in PxAt(w, "open", x), j \in PxAt(w, "args", x) : i < j
    BY <1>2, <1>3 DEF PxCallsTold
  <3>2.
    /\ PxAt(b, "open", x) = {i + n : i \in PxAt(w, "open", x)}
    /\ PxAt(b, "args", x) = {i + n : i \in PxAt(w, "args", x)}
    /\ Cardinality(PxAt(b, "open", x)) = Cardinality(PxAt(w, "open", x))
    /\ Cardinality(PxAt(b, "args", x)) = Cardinality(PxAt(w, "args", x))
    BY <1>7
  <3>3. PxAt(w, "open", x) \in SUBSET Nat /\ PxAt(w, "args", x) \in SUBSET Nat
    BY <1>4 DEF PxAt, k
  <3>4. \A i \in PxAt(b, "open", x), j \in PxAt(b, "args", x) : i < j
   <4>1. ASSUME NEW i \in PxAt(b, "open", x), NEW j \in PxAt(b, "args", x)
     PROVE i < j
    <5>1. PICK i1 \in PxAt(w, "open", x) : i = i1 + n BY <3>2
    <5>2. PICK j1 \in PxAt(w, "args", x) : j = j1 + n BY <3>2
    <5>3. i1 < j1 /\ i1 \in Nat /\ j1 \in Nat BY <3>1, <3>3
    <5> QED BY <1>4, <5>1, <5>2, <5>3
   <4> QED BY <4>1
  <3> QED BY <3>1, <3>2, <3>4
 <2>2. ASSUME NEW x \in Nat \ {0}, x \notin L.calls
   PROVE PxAt(b, "open", x) = {} /\ PxAt(b, "args", x) = {}
  <3>1. PxAt(w, "open", x) = {} /\ PxAt(w, "args", x) = {} BY <1>2, <1>3, <2>2 DEF PxCallsTold
  <3>2. /\ PxAt(b, "open", x) = {i + n : i \in PxAt(w, "open", x)}
        /\ PxAt(b, "args", x) = {i + n : i \in PxAt(w, "args", x)}
    BY <1>7
  <3> QED BY <3>1, <3>2
 <2> QED BY <2>1, <2>2 DEF PxCallsTold
<1>10. PxBlocksTold(b, FALSE)
 <2>1.
   /\ Cardinality(PxAt(b, "open", 0)) = Cardinality(PxAt(w, "open", 0))
   /\ Cardinality(PxAt(b, "close", 0)) = Cardinality(PxAt(w, "close", 0))
   BY <1>7
 <2> QED BY <1>3, <2>1 DEF PxBlocksTold
<1>11. PxSound(b, L, FALSE, FALSE, FALSE, 0) BY <1>1, <1>4, <1>8, <1>9, <1>10 DEF PxSound
<1> QED BY <1>11 DEF b, t, w

\* The last event comes after a sound answer in which no block is open.
LEMMA LastSound ==
  ASSUME NEW request, NEW m, NEW L, PxGood(request, m, L)
  PROVE
    \E v, bound :
      /\ PxSound(v, L, FALSE, request.stream /\ request.protocol # "chat",
                 request.stream /\ request.protocol # "responses", bound)
      /\ PxLast(request, m).events = Append(v, PxEvent("end", 0, 0))
<1> DEFINE end == PxEvent("end", 0, 0)
  S == PxEntries \cup {end}
  at == IF request.protocol = "messages" THEN m.open ELSE m.next
  shut == PxEvent("close", at, 0)
  closes == request.stream /\ request.protocol # "chat"
  indexed == request.stream /\ request.protocol # "responses"
<1>1.
  /\ m \in PxMappers /\ L \in PxLedgers /\ request.protocol \in PxProtocols
  /\ request.stream \in BOOLEAN
  BY GoodMapper
<1>2.
  /\ m.next \in Nat /\ m.open \in Nat \cup {-1}
  /\ m.text \in Seq(PxEntries) /\ m.events \in Seq(PxEntries)
  BY <1>1, MapperParts
<1>3.
  \A w \in Seq(PxEntries) :
    /\ w \o (<<>> \o <<end>>) = Append(w, end)
    /\ shut \in PxEntries =>
         /\ Append(w, shut) \in Seq(PxEntries)
         /\ w \o (<<shut>> \o <<end>>) = Append(Append(w, shut), end)
 <2>1. ASSUME NEW w \in Seq(PxEntries)
   PROVE w \o (<<>> \o <<end>>) = Append(w, end)
  <3>1. w \in Seq(S) /\ end \in S /\ <<end>> \in Seq(S) OBVIOUS
  <3> HIDE DEF S, end
  <3>2. <<>> \o <<end>> = <<end>> BY <3>1, ConcatEmptySeq
  <3> QED BY <3>1, <3>2, AppendIsConcat
 <2>2. ASSUME NEW w \in Seq(PxEntries), shut \in PxEntries
   PROVE
     /\ Append(w, shut) \in Seq(PxEntries)
     /\ w \o (<<shut>> \o <<end>>) = Append(Append(w, shut), end)
  <3>1. /\ w \in Seq(S) /\ end \in S /\ <<end>> \in Seq(S) /\ shut \in S /\ <<shut>> \in Seq(S)
    BY <2>2
  <3>2. Append(w, shut) \in Seq(PxEntries)
   <4> HIDE DEF shut
   <4> QED BY <2>2, AppendProperties
  <3> HIDE DEF S, end, shut
  <3>3. w \o (<<shut>> \o <<end>>) = (w \o <<shut>>) \o <<end>> BY <3>1, ConcatAssociative
  <3>4. w \o <<shut>> = Append(w, shut) /\ Append(w, shut) \in Seq(S)
    BY <3>1, AppendIsConcat, AppendProperties
  <3>5. Append(w, shut) \o <<end>> = Append(Append(w, shut), end) BY <3>1, <3>4, AppendIsConcat
  <3> QED BY <3>2, <3>3, <3>4, <3>5
 <2> HIDE DEF shut, end
 <2> QED BY <2>1, <2>2
<1>4. ASSUME NEW x
  PROVE PxEmit(m, x).events = m.events \o x
  BY <1>1 DEF PxEmit, PxMappers
<1> HIDE DEF end, S, shut
<1>5. CASE ~ request.stream
 <2> DEFINE v == m.text \o m.events
 <2>1. PxBody(m) = [m EXCEPT !.events = v] BY DEF PxBody
 <2>2. PxLast(request, m).events = v \o (<<>> \o <<end>>)
  <3>1. PxLast(request, m) = PxEmit(PxBody(m), <<>> \o <<end>>) BY <1>5 DEF PxLast, end
  <3> DEFINE x == <<>> \o <<end>>
  <3> HIDE DEF v, x
  <3>2. PxEmit([m EXCEPT !.events = v], x).events = v \o x BY <1>1 DEF PxEmit, PxMappers
  <3> QED BY <2>1, <3>1, <3>2 DEF x
 <2>3. PxSound(v, L, FALSE, FALSE, FALSE, 0) BY <1>5, BodySound DEF PxGood
 <2>4. v \in Seq(PxEntries) BY <2>3 DEF PxSound
 <2> HIDE DEF v
 <2>5. PxSound(v, L, FALSE, closes, indexed, 0) BY <1>5, <2>3 DEF PxSound
 <2> QED BY <1>3, <2>2, <2>4, <2>5 DEF end
<1>6. CASE request.stream /\ (request.protocol = "chat" \/ m.open = -1)
 <2>1. PxLast(request, m).events = m.events \o (<<>> \o <<end>>)
  <3>1. PxLast(request, m) = PxEmit(m, <<>> \o <<end>>) BY <1>6 DEF PxLast, end
  <3> QED BY <1>4, <3>1
 <2>2. \E bound : PxSound(m.events, L, FALSE, closes, indexed, bound)
  <3>1. CASE request.protocol = "messages" BY <1>6, <3>1 DEF PxGood, PxGoodMessages, PxTells
  <3>2. CASE request.protocol = "chat" BY <1>6, <3>2 DEF PxGood, PxGoodChat, PxTells
  <3>3. CASE request.protocol = "responses" BY <1>6, <3>3 DEF PxGood, PxGoodResponses, PxTells
  <3> QED BY <1>1, <3>1, <3>2, <3>3 DEF PxProtocols
 <2> QED BY <1>2, <1>3, <2>1, <2>2 DEF end
<1>7. CASE request.stream /\ request.protocol # "chat" /\ m.open # -1
 <2>1. shut \in PxEntries /\ at \in Nat
  <3>1. at \in Nat BY <1>2, <1>7
  <3> QED BY <3>1, EntryMade DEF shut
 <2>2. PxLast(request, m).events = m.events \o (<<shut>> \o <<end>>)
  <3>1. PxLast(request, m) = PxEmit(m, <<shut>> \o <<end>>) BY <1>7 DEF PxLast, end, shut
  <3> QED BY <1>4, <3>1
 <2>3. \E bound : PxSound(Append(m.events, shut), L, FALSE, closes, indexed, bound)
  <3>1. CASE request.protocol = "messages"
   <4>1. PxSound(m.events, L, TRUE, TRUE, TRUE, m.next)
     BY <1>7, <3>1 DEF PxGood, PxGoodMessages, PxTells
   <4>2. PxSound(Append(m.events, shut), L, FALSE, TRUE, TRUE, m.next)
     BY <1>2, <2>1, <4>1, SoundBlock DEF shut
   <4> QED BY <1>7, <3>1, <4>2
  <3>2. CASE request.protocol = "responses"
   <4>1. PxSound(m.events, L, TRUE, TRUE, FALSE, 0)
     BY <1>7, <3>2 DEF PxGood, PxGoodResponses, PxTells
   <4>2. PxSound(Append(m.events, shut), L, FALSE, TRUE, FALSE, 0)
     BY <2>1, <4>1, SoundBlock DEF shut
   <4> QED BY <1>7, <3>2, <4>2
  <3> QED BY <1>1, <1>7, <3>1, <3>2 DEF PxProtocols
 <2>4. PICK bound : PxSound(Append(m.events, shut), L, FALSE, closes, indexed, bound) BY <2>3
 <2>5. PxLast(request, m).events = Append(Append(m.events, shut), end) BY <1>2, <1>3, <2>1, <2>2
 <2> QED BY <2>4, <2>5 DEF end
<1> QED BY <1>1, <1>5, <1>6, <1>7

\* An answer with its last event.
PxFinal(w, L, closes, indexed) ==
  /\ Len(w) \in Nat \ {0} /\ DOMAIN w = 1 .. Len(w)
  /\ \A i \in 1 .. Len(w) : w[i].ev \in {"end", "error"} <=> i = Len(w)
  /\ PxTold(w, L.texts) /\ PxCallsTold(w, L) /\ PxBlocksTold(w, FALSE)
  /\ closes => PxEndsTold(w, L)
  /\ indexed => \A i, j \in 1 .. Len(w) :
                  (w[i].ev = "open" /\ w[j].ev = "open" /\ w[i].at = w[j].at) => i = j

\* A sound answer with the last event after it.
LEMMA LastEntry ==
  ASSUME NEW v, NEW L, NEW closes, NEW indexed, NEW bound,
    PxSound(v, L, FALSE, closes, indexed, bound),
    NEW w, w = Append(v, PxEvent("end", 0, 0))
  PROVE PxFinal(w, L, closes, indexed)
<1> DEFINE end == PxEvent("end", 0, 0)
  S == PxEntries \cup {end}
  n == Len(v)
<1>1.
  /\ v \in Seq(PxEntries) /\ PxTold(v, L.texts) /\ PxCallsTold(v, L) /\ PxBlocksTold(v, FALSE)
  /\ closes => PxEndsTold(v, L)
  /\ indexed => PxIndexed(v, bound)
  /\ L \in PxLedgers
  BY DEF PxSound
<1>2.
  /\ n \in Nat /\ Len(w) = n + 1 /\ DOMAIN w = 1 .. n + 1
  /\ \A i \in 1 .. n + 1 : w[i] = IF i <= n THEN v[i] ELSE end
 <2>1. v \in Seq(S) /\ end \in S BY <1>1
 <2> HIDE DEF S, end
 <2>2.
   /\ Append(v, end) \in Seq(S) /\ Len(Append(v, end)) = n + 1
   /\ \A i \in 1 .. Len(Append(v, end)) : Append(v, end)[i] = IF i <= n THEN v[i] ELSE end
   BY <2>1, AppendNew
 <2>3. w = Append(v, end) BY DEF end
 <2> QED BY <2>1, <2>2, <2>3, LenProperties
<1>3.
  /\ end.ev = "end"
  /\ \A i \in 1 .. n : v[i].ev \in {"text", "open", "args", "close"}
 <2>1. \A i \in 1 .. n : v[i] \in PxEntries BY <1>1, ElementOfSeq
 <2> QED BY <2>1 DEF PxEvent, PxEntries
<1> HIDE DEF end, S, n
<1>4.
  /\ \A i \in 1 .. n : i \in 1 .. n + 1 /\ i # n + 1 /\ w[i] = v[i]
  /\ n + 1 \in 1 .. n + 1 /\ w[n + 1] = end /\ n + 1 \in Nat \ {0}
  /\ \A i \in 1 .. n + 1 : i = n + 1 \/ i \in 1 .. n
  BY <1>2
<1>5. \A i \in 1 .. n + 1 : w[i].ev \in {"end", "error"} <=> i = n + 1 BY <1>3, <1>4
<1>6. \A i \in 1 .. n + 1 : w[i].ev \in {"text", "open", "args", "close"} => i \in 1 .. n
  BY <1>3, <1>4
<1>7. ASSUME NEW ev \in {"text", "open", "args", "close"}, NEW id
  PROVE PxAt(w, ev, id) = PxAt(v, ev, id)
  BY <1>2, <1>4, <1>6 DEF PxAt, n
<1>8. PxTold(w, L.texts)
 <2>1.
   /\ \A x : x \in L.texts <=> \E i \in 1 .. n : v[i].ev = "text" /\ v[i].id = x
   /\ \A i, j \in 1 .. n :
        (v[i].ev = "text" /\ v[j].ev = "text" /\ i < j) => v[i].id < v[j].id
   BY <1>1 DEF PxTold, n
 <2>2. \A x : x \in L.texts <=> \E i \in 1 .. n + 1 : w[i].ev = "text" /\ w[i].id = x
   BY <1>4, <1>6, <2>1
 <2>3.
   \A i, j \in 1 .. n + 1 :
     (w[i].ev = "text" /\ w[j].ev = "text" /\ i < j) => w[i].id < w[j].id
   BY <1>4, <1>6, <2>1
 <2> QED BY <1>2, <2>2, <2>3 DEF PxTold
<1>9. PxCallsTold(w, L)
 <2>1. \A x : PxAt(w, "open", x) = PxAt(v, "open", x) /\ PxAt(w, "args", x) = PxAt(v, "args", x)
   BY <1>7
 <2> QED BY <1>1, <2>1 DEF PxCallsTold
<1>10. PxBlocksTold(w, FALSE)
 <2>1. PxAt(w, "open", 0) = PxAt(v, "open", 0) /\ PxAt(w, "close", 0) = PxAt(v, "close", 0)
   BY <1>7
 <2> QED BY <1>1, <2>1 DEF PxBlocksTold
<1>11. closes => PxEndsTold(w, L)
 <2>1. \A x : PxAt(w, "args", x) = PxAt(v, "args", x) /\ PxAt(w, "close", x) = PxAt(v, "close", x)
   BY <1>7
 <2> QED BY <1>1, <2>1 DEF PxEndsTold
<1>12.
  indexed => \A i, j \in 1 .. n + 1 :
               (w[i].ev = "open" /\ w[j].ev = "open" /\ w[i].at = w[j].at) => i = j
  BY <1>1, <1>4, <1>6 DEF PxIndexed, n
<1> QED BY <1>2, <1>4, <1>5, <1>8, <1>9, <1>10, <1>11, <1>12 DEF PxFinal

\* What PxLast makes of a good answer.
LEMMA LastFinal ==
  ASSUME NEW request, NEW m, NEW L, PxGood(request, m, L)
  PROVE
    PxFinal(PxLast(request, m).events, L, request.stream /\ request.protocol # "chat",
            request.stream /\ request.protocol # "responses")
<1>1.
  PICK v, bound :
    /\ PxSound(v, L, FALSE, request.stream /\ request.protocol # "chat",
               request.stream /\ request.protocol # "responses", bound)
    /\ PxLast(request, m).events = Append(v, PxEvent("end", 0, 0))
  BY LastSound
<1> DEFINE closes == request.stream /\ request.protocol # "chat"
  indexed == request.stream /\ request.protocol # "responses"
  w == PxLast(request, m).events
<1>2. PxSound(v, L, FALSE, closes, indexed, bound) /\ w = Append(v, PxEvent("end", 0, 0))
  BY <1>1
<1> HIDE DEF closes, indexed, w
<1>3. PxFinal(w, L, closes, indexed) BY <1>2, LastEntry
<1> QED BY <1>3 DEF closes, indexed, w

\* The end of the stream says nothing of texts or calls.
PxSameHeard(r, h) ==
  /\ \A t \in {"text", "start", "stop"} :
       {r[i].id : i \in {j \in DOMAIN r : r[j].t = t}} = PxIds(h, t)
  /\ \A x : {i \in DOMAIN r : r[i].t = "args" /\ r[i].id = x} = PxArgsAt(h, x)

\* The end adds nothing to what was heard.
LEMMA HeardLast ==
  ASSUME NEW h \in Seq(PxHeardEvents), NEW e, e.t = "end", NEW r, r = Append(h, e)
  PROVE PxSameHeard(r, h)
<1> DEFINE S == PxHeardEvents \cup {e}
  n == Len(h)
<1>1.
  /\ n \in Nat /\ DOMAIN r = 1 .. n + 1
  /\ \A i \in 1 .. n + 1 : r[i] = IF i <= n THEN h[i] ELSE e
 <2>1. h \in Seq(S) /\ e \in S OBVIOUS
 <2> HIDE DEF S
 <2>2.
   /\ r \in Seq(S) /\ Len(r) = n + 1
   /\ \A i \in 1 .. Len(r) : r[i] = IF i <= n THEN h[i] ELSE e
   BY <2>1, AppendNew
 <2> QED BY <2>1, <2>2, LenProperties
<1>2. \A i \in 1 .. n : h[i] \in PxHeardEvents /\ h[i].id \in Nat
 <2>1. \A i \in 1 .. n : h[i] \in PxHeardEvents BY ElementOfSeq
 <2> QED BY <2>1 DEF PxHeardEvents
<1> HIDE DEF n, S
<1>3.
  /\ \A i \in 1 .. n : i \in 1 .. n + 1 /\ r[i] = h[i]
  /\ \A i \in 1 .. n + 1 : i \in 1 .. n \/ r[i].t = "end"
  BY <1>1
<1>4. ASSUME NEW t \in {"text", "start", "stop"}
  PROVE {r[i].id : i \in {j \in DOMAIN r : r[j].t = t}} = PxIds(h, t)
 <2>1. {r[i].id : i \in {j \in DOMAIN r : r[j].t = t}} \subseteq PxIds(h, t)
  <3>1. ASSUME NEW i \in DOMAIN r, r[i].t = t
    PROVE r[i].id \in PxIds(h, t)
   <4>1. i \in 1 .. n /\ r[i] = h[i] BY <1>1, <1>3, <3>1
   <4> QED BY <1>2, <3>1, <4>1 DEF PxIds, n
  <3> QED BY <3>1
 <2>2. ASSUME NEW x \in PxIds(h, t)
   PROVE x \in {r[i].id : i \in {j \in DOMAIN r : r[j].t = t}}
  <3>1. PICK i \in 1 .. n : h[i].t = t /\ h[i].id = x BY <2>2 DEF PxIds, n
  <3>2. i \in DOMAIN r /\ r[i].t = t /\ r[i].id = x BY <1>1, <1>3, <3>1
  <3> QED BY <3>2
 <2> QED BY <2>1, <2>2
<1>5. ASSUME NEW x
  PROVE {i \in DOMAIN r : r[i].t = "args" /\ r[i].id = x} = PxArgsAt(h, x)
  BY <1>1, <1>3 DEF PxArgsAt, n
<1> QED BY <1>4, <1>5 DEF PxSameHeard

\* When the stream has ended, all that was heard has been told.
LEMMA Answered ==
  ASSUME NEW m, NEW L, NEW h \in Seq(PxHeardEvents), NEW e, e.t = "end",
    PxToldAll(pxRequest'.via, h, pxRequest', m, L),
    pxHeard' = Append(h, e), pxWire' = PxLast(pxRequest', m)
  PROVE PxStreamWhole' /\ PxIndexesDiffer'
<1> DEFINE q == pxRequest'
  w == pxWire'.events
  r == pxHeard'
  closes == q.stream /\ q.protocol # "chat"
  indexed == q.stream /\ q.protocol # "responses"
  texts == PxIds(h, "text")
  starts == PxIds(h, "start")
  stops == PxIds(h, "stop")
<1>1.
  /\ PxGood(q, m, L) /\ L.texts = texts /\ starts \subseteq L.calls
  /\ starts \cap (IF q.via \in {"anthropic", "codex"} THEN stops ELSE Nat) \subseteq L.done
  /\ q.via # "gemini" => \A x \in starts : L.args[x] = Cardinality(PxArgsAt(h, x))
  BY DEF PxToldAll
<1>2. /\ L \in PxLedgers /\ L.calls \in SUBSET (Nat \ {0}) BY <1>1, GoodMapper, LedgerParts
<1>3. PxFinal(w, L, closes, indexed)
 <2>1. w = PxLast(q, m).events OBVIOUS
 <2> HIDE DEF q, w
 <2>2.
   PxFinal(PxLast(q, m).events, L, q.stream /\ q.protocol # "chat",
           q.stream /\ q.protocol # "responses")
   BY <1>1, LastFinal
 <2> QED BY <2>1, <2>2
<1>4.
  /\ {r[i].id : i \in {j \in DOMAIN r : r[j].t = "text"}} = texts
  /\ {r[i].id : i \in {j \in DOMAIN r : r[j].t = "start"}} = starts
  /\ {r[i].id : i \in {j \in DOMAIN r : r[j].t = "stop"}} = stops
  /\ \A x : {i \in DOMAIN r : r[i].t = "args" /\ r[i].id = x} = PxArgsAt(h, x)
 <2>1. r = Append(h, e) OBVIOUS
 <2> HIDE DEF r, texts, starts, stops
 <2>2. PxSameHeard(r, h) BY <2>1, HeardLast
 <2> QED BY <2>2 DEF PxSameHeard, texts, starts, stops
<1>5.
  (PxWholeCalls)'
    \subseteq starts \cap (IF q.via \in {"anthropic", "codex"} THEN stops ELSE Nat)
 <2>1.
   (PxWholeCalls)' = starts \cap (IF q.via \in {"anthropic", "codex"} THEN stops
                                ELSE 1 .. PxMaxEvents)
   BY <1>4 DEF PxWholeCalls, PxPositions
 <2> QED BY <2>1
<1>6. \A ev, id : (PxWireOf(ev, id))' = PxAt(w, ev, id)
 <2>1. DOMAIN w = 1 .. Len(w) BY <1>3 DEF PxFinal
 <2> QED BY <2>1 DEF PxWireOf, PxPositions, PxAt
<1>7. PxStreamWhole'
 <2>1. {i \in DOMAIN w : w[i].ev \in {"end", "error"}} = {Len(w)} BY <1>3 DEF PxFinal
 <2>2.
   /\ {w[i].id : i \in {j \in DOMAIN w : w[j].ev = "text"}} = texts
   /\ \A i, j \in {k \in DOMAIN w : w[k].ev = "text"} : i < j => w[i].id < w[j].id
  <3>1.
    /\ DOMAIN w = 1 .. Len(w)
    /\ \A x : x \in texts <=> \E i \in 1 .. Len(w) : w[i].ev = "text" /\ w[i].id = x
    /\ \A i, j \in 1 .. Len(w) :
         (w[i].ev = "text" /\ w[j].ev = "text" /\ i < j) => w[i].id < w[j].id
    BY <1>1, <1>3 DEF PxFinal, PxTold
  <3> HIDE DEF w, texts
  <3> QED BY <3>1
 <2>3. ASSUME NEW x \in (PxWholeCalls)'
   PROVE
     /\ x \in Nat \ {0} /\ x \in starts /\ x \in L.calls /\ x \in L.done
     /\ Cardinality(PxAt(w, "open", x)) = 1
     /\ Cardinality(PxAt(w, "args", x)) = L.args[x]
     /\ \A i \in PxAt(w, "open", x), j \in PxAt(w, "args", x) : i < j
     /\ closes => /\ Cardinality(PxAt(w, "close", x)) = 1
                  /\ \A i \in PxAt(w, "args", x), j \in PxAt(w, "close", x) : i < j
  <3>1. x \in starts /\ x \in L.calls /\ x \in L.done /\ x \in Nat \ {0}
    BY <1>1, <1>2, <1>5, <2>3
  <3>2. PxCallsTold(w, L) /\ (closes => PxEndsTold(w, L)) BY <1>3 DEF PxFinal
  <3> HIDE DEF w, starts, closes
  <3> QED BY <3>1, <3>2 DEF PxCallsTold, PxEndsTold
 <2>4. Cardinality(PxAt(w, "open", 0)) = Cardinality(PxAt(w, "close", 0))
  <3>1. Cardinality(PxAt(w, "open", 0)) = Cardinality(PxAt(w, "close", 0)) + 0
    BY <1>3 DEF PxFinal, PxBlocksTold
  <3>2. Cardinality(PxAt(w, "close", 0)) \in Nat
   <4>1. PxAt(w, "close", 0) \subseteq 1 .. Len(w) /\ IsFiniteSet(1 .. Len(w))
     BY <1>3, FS_Interval DEF PxFinal, PxAt
   <4> QED BY <4>1, FS_Subset, FS_CardinalityType
  <3> QED BY <3>1, <3>2
 <2>5.
   \A x \in (PxWholeCalls)' :
     q.via # "gemini" => L.args[x] = Cardinality(PxArgsAt(h, x))
   BY <1>1, <2>3
 <2>6.
   \A x \in (PxWholeCalls)' :
     /\ Cardinality((PxWireOf("open", x))') = 1
     /\ q.via # "gemini" =>
          Cardinality((PxWireOf("args", x))')
            = Cardinality({i \in DOMAIN r : r[i].t = "args" /\ r[i].id = x})
     /\ \A i \in (PxWireOf("open", x))', j \in (PxWireOf("args", x))' : i < j
     /\ q.stream /\ q.protocol # "chat" =>
          /\ Cardinality((PxWireOf("close", x))') = 1
          /\ \A i \in (PxWireOf("args", x))', j \in (PxWireOf("close", x))' : i < j
   BY <1>4, <1>6, <2>3, <2>5
 <2>7. Cardinality((PxWireOf("open", 0))') = Cardinality((PxWireOf("close", 0))') BY <1>6, <2>4
 <2>8.
   {w[i].id : i \in {j \in DOMAIN w : w[j].ev = "text"}}
     = {r[i].id : i \in {j \in DOMAIN r : r[j].t = "text"}}
   BY <1>4, <2>2
 <2> QED BY <2>1, <2>2, <2>6, <2>7, <2>8 DEF PxStreamWhole, PxPositions
<1>8. PxIndexesDiffer'
 <2>1.
   /\ DOMAIN w = 1 .. Len(w)
   /\ indexed => \A i, j \in 1 .. Len(w) :
                   (w[i].ev = "open" /\ w[j].ev = "open" /\ w[i].at = w[j].at) => i = j
   BY <1>3 DEF PxFinal
 <2> QED BY <2>1 DEF PxIndexesDiffer, PxPositions
<1> QED BY <1>7, <1>8

--------------------
(* The invariant *)

\* A request that is open goes on: what its answer says is what its parser has passed on.
PxOpenWell ==
  /\ pxRequest = [phase |-> pxRequest.phase, protocol |-> pxRequest.protocol,
                  via |-> pxRequest.via, stream |-> pxRequest.stream,
                  up |-> pxRequest.up, parser |-> pxRequest.parser]
  /\ pxRequest.via \in ProvKinds
  /\ PxGoesOn(pxRequest.via, pxRequest.up, pxRequest.parser, pxHeard, pxRequest, pxWire)

PxRequestInv ==
  /\ pxRequest.phase \in {"none", "refused", "converted"} => pxHeard = <<>> /\ pxWire = PxMapper
  /\ pxRequest.phase = "converted" =>
       pxRequest.protocol \in PxProtocols /\ pxRequest.via \in ProvKinds
         /\ pxRequest.stream \in BOOLEAN
  /\ PxNothingLost
  /\ pxRequest.phase = "open" => PxOpenWell
  /\ PxStreamWhole /\ PxIndexesDiffer

PxInv == PxRequestInv /\ PxBatchInv /\ PxKeysInv

\* Of a request, the mapper sees its protocol and whether it is to be streamed.
LEMMA SameRequest ==
  ASSUME NEW a, NEW b, a.stream = b.stream, a.protocol = b.protocol, NEW m
  PROVE
    /\ PxLast(a, m) = PxLast(b, m)
    /\ \A L : PxGood(a, m, L) => PxGood(b, m, L)
BY DEF PxLast, PxGood

\* The mapper at the start has told what there is to tell: nothing.
LEMMA GoodStart ==
  ASSUME NEW request, request.protocol \in PxProtocols, request.stream \in BOOLEAN, NEW via
  PROVE PxGoesOn(via, ProvUpstream, ProvParser, <<>>, request, PxMapper)
<1> USE DEF PxKnown, PxHolds
<1> DEFINE none == [x \in Nat |-> 0]
  L == PxLedger({}, {}, {}, none)
  calls == [id \in {} |-> 0]
  w == <<>>
<1>1. Len(w) = 0 /\ w \in Seq(PxEntries) /\ w \in Seq(PxHeardEvents) /\ w \in Seq(Nat) OBVIOUS
<1>2. none \in [Nat -> Nat] /\ {} \in SUBSET Nat /\ {} \in SUBSET (Nat \ {0}) OBVIOUS
<1>3. calls \in PxCallMaps /\ DOMAIN calls = {}
 <2>1. calls \in [{} -> Nat] /\ DOMAIN calls = {} OBVIOUS
 <2>2. {} \in {E \in SUBSET Nat : IsFiniteSet(E)} BY FS_EmptySet
 <2> HIDE DEF calls
 <2> QED BY <2>1, <2>2 DEF PxCallMaps
<1> HIDE DEF none, calls, w
<1>4. /\ L \in PxLedgers /\ L.texts = {} /\ L.calls = {} /\ L.done = {} /\ L.args = none
  BY ONLY <1>2, LedgerMade
<1> HIDE DEF L
<1>5. \A ev, id : PxAt(w, ev, id) = {} BY <1>1 DEF PxAt
<1>6. Cardinality({}) = 0 BY FS_EmptySet
<1>7. ASSUME NEW closes \in BOOLEAN, NEW indexed \in BOOLEAN
  PROVE PxSound(w, L, FALSE, closes, indexed, 0)
 <2>1. 1 .. Len(w) = {} BY <1>1
 <2>2. PxTold(w, L.texts) BY <1>4, <2>1 DEF PxTold
 <2>3. PxCallsTold(w, L) BY <1>4, <1>5 DEF PxCallsTold
 <2>4. PxEndsTold(w, L) BY <1>4, <1>5 DEF PxEndsTold
 <2>5. PxBlocksTold(w, FALSE) BY <1>5, <1>6 DEF PxBlocksTold
 <2>6. PxIndexed(w, 0) BY <2>1 DEF PxIndexed
 <2> QED BY <1>1, <1>4, <2>2, <2>3, <2>4, <2>5, <2>6 DEF PxSound
<1>8. PxIs(PxMapper, 0, -1, calls, w, w) BY <1>1, <1>3 DEF PxMapper, PxMappers, PxIs, calls, w
<1>9. -1 \in Nat \cup {-1} /\ 0 \in Nat OBVIOUS
<1>10.
  PxSound(w, L, FALSE, TRUE, TRUE, 0) /\ PxSound(w, L, FALSE, FALSE, TRUE, 0)
    /\ PxSound(w, L, FALSE, TRUE, FALSE, 0) /\ PxSound(w, L, FALSE, FALSE, FALSE, 0)
  BY <1>7
<1>11. /\ PxGoodMessages(PxMapper, L) /\ PxGoodResponses(PxMapper, L) /\ PxGoodChat(PxMapper, L)
 <2>1. Cardinality(L.calls) = 0 /\ DOMAIN calls = L.calls BY <1>3, <1>4, <1>6
 <2>2.
   /\ PxTells(PxMapper, L, TRUE, TRUE, 0) /\ PxTells(PxMapper, L, TRUE, FALSE, 0)
   /\ PxTells(PxMapper, L, FALSE, TRUE, 0) /\ PxTells(PxMapper, L, FALSE, FALSE, 0)
   BY <1>4, <1>8, <1>10, <2>1 DEF PxIs, PxTells
 <2> QED BY <1>8, <2>1, <2>2 DEF PxIs, PxGoodMessages, PxGoodResponses, PxGoodChat
<1>12. PxGoodWhole(PxMapper, L)
 <2>1. PxOfCalls(L) = L /\ PxOfTexts(L) = L BY <1>4 DEF PxOfCalls, PxOfTexts, L, none
 <2>2. DOMAIN calls = L.calls /\ \A i \in 1 .. Len(w) : w[i].ev = "text" BY <1>1, <1>3, <1>4
 <2>3.
   /\ PxSound(w, PxOfCalls(L), FALSE, FALSE, FALSE, 0)
   /\ PxSound(w, PxOfTexts(L), FALSE, FALSE, FALSE, 0)
   BY <1>10, <2>1
 <2>4. PxTells(PxMapper, PxOfCalls(L), FALSE, FALSE, 0)
   BY <1>4, <1>8, <2>1, <2>2, <2>3 DEF PxIs, PxTells
 <2> QED BY <1>4, <1>8, <2>2, <2>3, <2>4 DEF PxIs, PxGoodWhole, PxTexts
<1>13. PxGood(request, PxMapper, L) BY <1>11, <1>12 DEF PxGood
<1>14.
  ProvParser.calls = w /\ ProvParser.held = w
  /\ ProvParser \in [calls : Seq(Nat), held : Seq(PxHeardEvents)]
  BY <1>1 DEF ProvParser, w
<1>15.
  /\ ProvUpstream.calls = 0 /\ ProvUpstream.open = 0 /\ ProvUpstream.texts = 0
  /\ ProvUpstream \in [calls : Nat, open : Nat, texts : Nat]
  BY DEF ProvUpstream
<1>16. \A t : PxIds(w, t) = {} BY <1>1 DEF PxIds
<1>17. PxPassedOn(via, ProvParser, w) = L
 <2>1. PxIds(w, "text") \ PxHeldIds(ProvParser) = {} BY <1>16
 <2>2. PxDoneIds(via, w) = {} BY <1>16 DEF PxDoneIds
 <2>3. PxArgsOf(via, w) = none BY <1>16 DEF PxArgsOf, none
 <2> QED BY <1>16, <2>1, <2>2, <2>3 DEF PxPassedOn, L
<1>18. Distinct(w) /\ ToSet(w) = {} BY <1>1, NoMembers DEF Distinct, w
<1>19. PxHears(via, ProvUpstream, ProvParser, w)
 <2>1. ProvParser.held = <<>> /\ ProvParser.calls = <<>> BY <1>14 DEF w
 <2> QED BY <1>1, <1>14, <1>15, <1>16, <1>18, <2>1 DEF PxHears
<1> QED BY <1>13, <1>17, <1>19 DEF PxGoesOn, w

\* What a provider is given for a conversation.
LEMMA RequestAccepted ==
  ASSUME PxRequestInv, PxAccepted
  PROVE PxRequestInv'
<1>1.
  PICK protocol \in PxProtocols, via \in ProvKinds, stream \in BOOLEAN,
       conversation \in PxConversations :
    pxRequest' = [phase |-> "converted", protocol |-> protocol, via |-> via,
                  stream |-> stream, conversation |-> conversation,
                  sent |-> ProvConvert(via, PxToChatRequest(protocol, conversation))]
  BY DEF PxAccepted
<1> DEFINE items == ProvConvert(via, PxToChatRequest(protocol, conversation))
<1>2.
  /\ pxRequest'.phase = "converted" /\ pxRequest'.protocol = protocol
  /\ pxRequest'.via = via /\ pxRequest'.stream = stream
  /\ pxRequest'.conversation = conversation /\ pxRequest'.sent = items
  BY <1>1
<1>3. conversation \in Seq(PxBlocks) /\ Distinct(conversation) BY ConversationFacts
<1>4. PxPlaced(PxToChatRequest(protocol, conversation), ToSet(conversation)) BY RequestPlaced
<1>5.
  /\ items \in Seq(PxBlocks) /\ Distinct(items) /\ ToSet(items) = ToSet(conversation)
  /\ \A i, j \in 1 .. Len(items) : \A n :
       (items[i] = <<"call", n>> /\ items[j] = <<"result", n>>) => i < j
  BY <1>4, ConvertKeeps
<1> HIDE DEF items
<1>6. Len(items) = Len(conversation)
 <2>1. ASSUME NEW s \in Seq(PxBlocks), Distinct(s)
   PROVE Cardinality(ToSet(s)) = Len(s)
  <3>1. Len(s) \in 0 .. Len(s) /\ ToSet(s) = {s[i] : i \in 1 .. Len(s)}
    BY LenProperties, ToSetMembers
  <3> QED BY <2>1, <3>1, CountFirst
 <2> QED BY <1>3, <1>5, <2>1
<1>7. DOMAIN items = 1 .. Len(items) BY <1>5, LenProperties
<1>8. ASSUME NEW i \in DOMAIN items, NEW j \in DOMAIN items,
    items[i][1] = "call", items[j] = <<"result", items[i][2]>>
  PROVE i < j
 <2>1. items[i] \in PxBlocks BY <1>5, <1>7, ElementOfSeq
 <2>2. items[i] = <<items[i][1], items[i][2]>> BY <2>1 DEF PxBlocks
 <2>3. items[i] = <<"call", items[i][2]>> BY <1>8, <2>2
 <2> QED BY <1>5, <1>7, <1>8, <2>3
<1>9. PxNothingLost' BY <1>2, <1>5, <1>6, <1>8 DEF PxNothingLost
<1>10. pxHeard' = <<>> /\ pxWire' = PxMapper BY DEF PxAccepted, PxRequestInv
<1> QED BY <1>2, <1>9, <1>10 DEF PxRequestInv, PxStreamWhole, PxIndexesDiffer

\* The answer has nothing in it yet.
LEMMA RequestSent ==
  ASSUME PxRequestInv, PxSend
  PROVE PxRequestInv'
<1> DEFINE q == pxRequest'
<1>1.
  /\ pxRequest.phase = "converted" /\ pxHeard' = pxHeard /\ pxWire' = pxWire
  /\ q = [phase |-> "open", protocol |-> pxRequest.protocol, via |-> pxRequest.via,
          stream |-> pxRequest.stream, up |-> ProvUpstream, parser |-> ProvParser]
  BY DEF PxSend
<1>2.
  /\ pxHeard' = <<>> /\ pxWire' = PxMapper /\ pxRequest.protocol \in PxProtocols
  /\ pxRequest.via \in ProvKinds /\ pxRequest.stream \in BOOLEAN
  BY <1>1 DEF PxRequestInv
<1>3.
  /\ q.phase = "open" /\ q.protocol = pxRequest.protocol /\ q.via = pxRequest.via
  /\ q.stream = pxRequest.stream /\ q.up = ProvUpstream /\ q.parser = ProvParser
  /\ q = [phase |-> q.phase, protocol |-> q.protocol, via |-> q.via,
          stream |-> q.stream, up |-> q.up, parser |-> q.parser]
  BY <1>1
<1> HIDE DEF q
<1>4. q.protocol \in PxProtocols /\ q.stream \in BOOLEAN BY <1>2, <1>3
<1>5. PxGoesOn(q.via, ProvUpstream, ProvParser, <<>>, q, PxMapper) BY ONLY <1>4, GoodStart
<1>6. PxOpenWell' BY <1>2, <1>3, <1>5 DEF PxOpenWell, q
<1> QED BY <1>3, <1>6 DEF PxRequestInv, PxNothingLost, PxStreamWhole, PxIndexesDiffer, q

\* Each event that the parser hears, and each that it loses, leaves the answer in step.
LEMMA UpstreamSends ==
  ASSUME PxRequestInv, PxUpstreamSends
  PROVE PxRequestInv'
<1> DEFINE q == pxRequest'
  via == pxRequest.via
  up == pxRequest.up
  parser == pxRequest.parser
<1>0. pxRequest.phase = "open" /\ PxOpenWell BY DEF PxUpstreamSends, PxRequestInv
<1>1.
  PICK event \in PxEvents, heard \in BOOLEAN :
    /\ ProvSends(via, up, event)
    /\ heard \/ (via = "codex" /\ event.t # "args")
    /\ pxRequest' = [pxRequest EXCEPT
                       !.up = ProvSent(via, @, event),
                       !.parser = IF heard THEN ProvHear(via, parser, event).parser ELSE @]
    /\ pxHeard' = IF heard THEN Append(pxHeard, event) ELSE pxHeard
    /\ pxWire' = IF heard THEN PxMapAll(pxRequest, pxWire, ProvHear(via, parser, event).chunks)
                 ELSE pxWire
  BY DEF PxUpstreamSends
<1>2. event \in PxHeardEvents
 <2>1. PxMaxEvents \in Nat BY PxBoundsAssumption
 <2>2. \A id \in 1 .. PxMaxEvents : id \in Nat \ {0} BY <2>1
 <2> QED BY <2>2 DEF PxEvents, PxHeardEvents
<1>3.
  /\ pxRequest = [phase |-> "open", protocol |-> pxRequest.protocol, via |-> via,
                  stream |-> pxRequest.stream, up |-> up, parser |-> parser]
  /\ via \in ProvKinds /\ PxGoesOn(via, up, parser, pxHeard, pxRequest, pxWire)
  BY <1>0 DEF PxOpenWell
<1> DEFINE U == ProvSent(via, up, event)
  P == IF heard THEN ProvHear(via, parser, event).parser ELSE parser
<1>4.
  q = [phase |-> "open", protocol |-> pxRequest.protocol, via |-> via,
       stream |-> pxRequest.stream, up |-> U, parser |-> P]
 <2> HIDE DEF U, P
 <2>1. q = [pxRequest EXCEPT !.up = U, !.parser = P] BY <1>1 DEF U, P
 <2>2.
   PICK protocol, kind, stream, u, p :
     pxRequest = [phase |-> "open", protocol |-> protocol, via |-> kind,
                  stream |-> stream, up |-> u, parser |-> p]
   BY <1>3
 <2>3. pxRequest.protocol = protocol /\ via = kind /\ pxRequest.stream = stream BY <2>2
 <2>4. ASSUME NEW f, f = [pxRequest EXCEPT !.up = U, !.parser = P]
   PROVE
     f = [phase |-> "open", protocol |-> protocol, via |-> kind,
          stream |-> stream, up |-> U, parser |-> P]
   BY ONLY <2>2, <2>4
 <2> QED BY <2>1, <2>3, <2>4
<1>5. PxGoesOn(via, U, P, pxHeard', pxRequest, pxWire')
 <2>1. CASE heard
  <3>1. event.t \in {"text", "think", "start", "args", "stop"} BY <1>2 DEF PxHeardEvents
  <3>2. PxGoesOn(via, U, ProvHear(via, parser, event).parser, Append(pxHeard, event), pxRequest,
                 PxMapAll(pxRequest, pxWire, ProvHear(via, parser, event).chunks))
   <4>1. CASE event.t \in {"text", "think"} BY ONLY <1>1, <1>2, <1>3, <4>1, HearText
   <4>2. CASE event.t = "start" BY ONLY <1>1, <1>2, <1>3, <4>2, HearStart
   <4>3. CASE event.t = "args" BY ONLY <1>1, <1>2, <1>3, <4>3, HearArgs
   <4>4. CASE event.t = "stop" BY ONLY <1>1, <1>2, <1>3, <4>4, HearStop
   <4> QED BY <3>1, <4>1, <4>2, <4>3, <4>4
  <3> QED BY <1>1, <2>1, <3>2
 <2>2. CASE ~ heard
  <3>1. PxGoesOn(via, U, parser, pxHeard, pxRequest, pxWire)
   <4>1. event.t # "args" BY <1>1, <2>2
   <4> QED BY ONLY <1>1, <1>2, <1>3, <4>1, HearLost
  <3> QED BY <1>1, <2>2, <3>1
 <2> QED BY <2>1, <2>2
<1> HIDE DEF U, P
<1>6.
  /\ q.phase = "open" /\ q.protocol = pxRequest.protocol /\ q.via = via
  /\ q.stream = pxRequest.stream /\ q.up = U /\ q.parser = P
  /\ q = [phase |-> q.phase, protocol |-> q.protocol, via |-> q.via,
          stream |-> q.stream, up |-> q.up, parser |-> q.parser]
  BY <1>4
<1>7. PxGoesOn(via, U, P, pxHeard', q, pxWire')
 <2> HIDE DEF q
 <2>1. pxRequest.stream = q.stream /\ pxRequest.protocol = q.protocol BY <1>6
 <2>2. \A L : PxGood(pxRequest, pxWire', L) => PxGood(q, pxWire', L) BY ONLY <2>1, SameRequest
 <2> QED BY <1>5, <2>2 DEF PxGoesOn
<1>8. PxOpenWell' BY <1>3, <1>6, <1>7 DEF PxOpenWell
<1> QED BY <1>6, <1>8 DEF PxRequestInv, PxNothingLost, PxStreamWhole, PxIndexesDiffer

\* At the end all that was heard has been told.
LEMMA UpstreamEnds ==
  ASSUME PxRequestInv, PxUpstreamEnds
  PROVE PxRequestInv'
<1> USE DEF PxKnown, PxHolds
<1> DEFINE q == pxRequest'
  via == pxRequest.via
  parser == pxRequest.parser
<1>0. pxRequest.phase = "open" /\ PxOpenWell BY DEF PxUpstreamEnds, PxRequestInv
<1> DEFINE End(react) == [t |-> "end", id |-> IF react THEN 9 ELSE 0]
<1>1.
  PICK react \in BOOLEAN :
    /\ pxHeard' = Append(pxHeard, End(react))
    /\ pxWire' = PxLast(pxRequest,
                        PxMapAll(pxRequest, pxWire, ProvHear(via, parser, End(react)).chunks))
    /\ pxRequest' = [pxRequest EXCEPT !.phase = "answered",
                                      !.parser = ProvHear(via, parser, End(react)).parser]
  BY DEF PxUpstreamEnds
<1> DEFINE e == End(react)
<1>2. e.t = "end" /\ (e.id = 9) = react OBVIOUS
<1>3. ProvHear(via, parser, e) = ProvEnd(via, parser, react)
 <2> HIDE DEF e
 <2> QED BY <1>2 DEF ProvHear
<1>4.
  /\ pxRequest = [phase |-> "open", protocol |-> pxRequest.protocol, via |-> via,
                  stream |-> pxRequest.stream, up |-> pxRequest.up, parser |-> parser]
  /\ via \in ProvKinds /\ PxGoesOn(via, pxRequest.up, parser, pxHeard, pxRequest, pxWire)
  BY <1>0 DEF PxOpenWell
<1> HIDE DEF e, End
<1> DEFINE chunks == ProvEnd(via, parser, react).chunks
  m == PxMapAll(pxRequest, pxWire, chunks)
<1>5.
  /\ pxHeard' = Append(pxHeard, e) /\ pxWire' = PxLast(pxRequest, m)
  /\ q = [phase |-> "answered", protocol |-> pxRequest.protocol, via |-> via,
          stream |-> pxRequest.stream, up |-> pxRequest.up,
          parser |-> ProvEnd(via, parser, react).parser]
 <2>1.
   /\ pxHeard' = Append(pxHeard, e)
   /\ pxWire' = PxLast(pxRequest, PxMapAll(pxRequest, pxWire, ProvHear(via, parser, e).chunks))
   /\ pxRequest' = [pxRequest EXCEPT !.phase = "answered",
                                     !.parser = ProvHear(via, parser, e).parser]
   BY <1>1 DEF e
 <2> QED BY <1>3, <1>4, <2>1
<1>6.
  /\ q.phase = "answered" /\ q.protocol = pxRequest.protocol /\ q.via = via
  /\ q.stream = pxRequest.stream
  BY <1>5
<1>7. PICK L : PxToldAll(via, pxHeard, pxRequest, m, L)
 <2> HIDE DEF m, chunks, q
 <2>1. chunks = ProvEnd(via, parser, react).chunks BY DEF chunks
 <2>2. \E L : PxToldAll(via, pxHeard, pxRequest, PxMapAll(pxRequest, pxWire, chunks), L)
   BY ONLY <1>4, <2>1, react \in BOOLEAN, HearEnd
 <2> QED BY <2>2 DEF m
<1>8. pxHeard \in Seq(PxHeardEvents) BY <1>4 DEF PxGoesOn, PxHears
<1> HIDE DEF m, q
<1>9. PxLast(pxRequest, m) = PxLast(q, m) /\ (PxGood(pxRequest, m, L) => PxGood(q, m, L))
 <2>1. pxRequest.stream = q.stream /\ pxRequest.protocol = q.protocol BY <1>6
 <2> QED BY ONLY <2>1, SameRequest
<1>10. PxToldAll(q.via, pxHeard, q, m, L) BY <1>6, <1>7, <1>9 DEF PxToldAll
<1>11. PxStreamWhole' /\ PxIndexesDiffer'
 <2>1.
   /\ PxToldAll(pxRequest'.via, pxHeard, pxRequest', m, L)
   /\ pxHeard' = Append(pxHeard, e) /\ pxWire' = PxLast(pxRequest', m)
   BY <1>5, <1>9, <1>10 DEF q
 <2> QED BY ONLY <1>2, <1>8, <2>1, Answered
<1> QED BY <1>6, <1>11 DEF PxRequestInv, PxNothingLost, q

\* PxStreamWhole, of an answer that is given.
PxWholeOf(q, wire, heard, calls) ==
  LET At(ev, id) == {i \in DOMAIN wire : wire[i].ev = ev /\ wire[i].id = id}
      told == {i \in DOMAIN wire : wire[i].ev = "text"}
      texts == {i \in DOMAIN heard : heard[i].t = "text"} IN
  q.phase = "answered" =>
    /\ {i \in DOMAIN wire : wire[i].ev \in {"end", "error"}} = {Len(wire)}
    /\ {wire[i].id : i \in told} = {heard[i].id : i \in texts}
    /\ \A i, j \in told : i < j => wire[i].id < wire[j].id
    /\ \A id \in calls :
         /\ Cardinality(At("open", id)) = 1
         /\ q.via # "gemini" =>
              Cardinality(At("args", id))
                = Cardinality({i \in DOMAIN heard : heard[i].t = "args" /\ heard[i].id = id})
         /\ \A i \in At("open", id), j \in At("args", id) : i < j
         /\ q.stream /\ q.protocol # "chat" =>
              /\ Cardinality(At("close", id)) = 1
              /\ \A i \in At("args", id), j \in At("close", id) : i < j
    /\ Cardinality(At("open", 0)) = Cardinality(At("close", 0))

\* What answers no request changes nothing of it.
LEMMA RequestStays ==
  ASSUME PxRequestInv, UNCHANGED <<pxRequest, pxHeard, pxWire>>
  PROVE PxRequestInv'
<1>1. pxRequest' = pxRequest /\ pxHeard' = pxHeard /\ pxWire' = pxWire OBVIOUS
<1>2. PxNothingLost' /\ PxIndexesDiffer'
  BY <1>1 DEF PxRequestInv, PxNothingLost, PxIndexesDiffer, PxPositions
<1>3. PxStreamWhole'
 <2>1. (PxWholeCalls)' = PxWholeCalls /\ \A ev, id : (PxWireOf(ev, id))' = PxWireOf(ev, id)
   BY <1>1 DEF PxWholeCalls, PxWireOf, PxPositions
 <2>2. PxStreamWhole BY DEF PxRequestInv
 <2>3. PxStreamWhole <=> PxWholeOf(pxRequest, pxWire.events, pxHeard, PxWholeCalls)
   BY DEF PxStreamWhole, PxWireOf, PxPositions, PxWholeOf
 <2>4. PxStreamWhole' <=> PxWholeOf(pxRequest', pxWire'.events, pxHeard', (PxWholeCalls)')
   BY DEF PxStreamWhole, PxWireOf, PxPositions, PxWholeOf
 <2> QED BY <1>1, <2>1, <2>2, <2>3, <2>4
<1>4. pxRequest'.phase = "open" => PxOpenWell' BY <1>1 DEF PxRequestInv, PxOpenWell
<1> QED BY <1>1, <1>2, <1>3, <1>4 DEF PxRequestInv

\* What is no batch changes nothing of one.
LEMMA BatchStays ==
  ASSUME PxBatchInv, pxBatch' = pxBatch
  PROVE PxBatchInv'
BY DEF PxBatchInv, PxBatchShape, PxRunning

\* What moves no sender leaves the credentials as they are.
LEMMA KeysStay ==
  ASSUME PxKeysInv, pxKeys' = pxKeys
  PROVE PxKeysInv'
BY DEF PxKeysInv, PxKeysShape, PxKeysInOrder, PxTurns, PxSenderAt

\* A request that is refused, that fails, or whose client has gone is owed nothing more.
LEMMA RequestOver ==
  ASSUME PxRequestInv, PxRefused \/ PxUpstreamFails \/ PxClientLeaves
  PROVE PxRequestInv'
<1>1. CASE PxRefused
 <2>1. pxRequest.phase = "none" /\ pxHeard' = pxHeard /\ pxWire' = pxWire BY <1>1 DEF PxRefused
 <2>2. pxRequest'.phase = "refused"
  <3>1. \E reason : pxRequest' = [phase |-> "refused", with |-> reason]
    BY <1>1, Zenon DEF PxRefused
  <3> QED BY <3>1
 <2>3. pxHeard' = <<>> /\ pxWire' = PxMapper BY <2>1 DEF PxRequestInv
 <2> QED BY <2>2, <2>3 DEF PxRequestInv, PxNothingLost, PxStreamWhole, PxIndexesDiffer
<1>2. CASE PxUpstreamFails \/ PxClientLeaves
 <2>1. pxRequest.phase = "open" /\ PxOpenWell
   BY <1>2 DEF PxUpstreamFails, PxClientLeaves, PxRequestInv
 <2>2. PICK phase \in {"failed", "left"} : pxRequest' = [pxRequest EXCEPT !.phase = phase]
   BY <1>2 DEF PxUpstreamFails, PxClientLeaves
 <2>3. pxRequest'.phase \in {"failed", "left"} BY <2>1, <2>2 DEF PxOpenWell
 <2> QED BY <2>3 DEF PxRequestInv, PxNothingLost, PxStreamWhole, PxIndexesDiffer
<1> QED BY <1>1, <1>2

\* The invariant holds at the start.
LEMMA ProxyInit ==
  ASSUME PxInit
  PROVE PxInv
<1>1.
  /\ pxRequest = [phase |-> "none"] /\ pxHeard = <<>> /\ pxWire = PxMapper
  /\ pxBatch = PxNoBatch /\ pxKeys = PxFreshKeys
  BY DEF PxInit
<1>2. pxRequest.phase = "none" BY <1>1
<1>3. PxRequestInv BY <1>1, <1>2 DEF PxRequestInv, PxNothingLost, PxStreamWhole, PxIndexesDiffer
<1>4. PxBatchInv BY <1>1 DEF PxBatchInv
<1>5. PxKeysInv
 <2> DEFINE one == [s \in PxSenders |-> [phase |-> "idle", refresh |-> 0]]
   file == [refresh |-> 1, expired |-> FALSE]
 <2>1.
   /\ one \in [PxSenders -> [phase : {"idle", "asks", "saves"}, refresh : Nat]]
   /\ \A s \in PxSenders : one[s].phase = "idle"
   /\ file \in [refresh : Nat, expired : BOOLEAN] /\ file.refresh = 1
   OBVIOUS
 <2>2.
   pxKeys = [file |-> file, current |-> 1, expiries |-> 0, sender |-> one,
             overlap |-> FALSE, unsaved |-> FALSE]
   BY <1>1 DEF PxFreshKeys
 <2> HIDE DEF one, file
 <2>3.
   /\ pxKeys.file = file /\ pxKeys.current = 1 /\ pxKeys.expiries = 0
   /\ pxKeys.sender = one /\ pxKeys.overlap = FALSE /\ pxKeys.unsaved = FALSE
   BY <2>2
 <2>4. PxKeysShape BY <2>1, <2>2, <2>3 DEF PxKeysShape
 <2>5. PxKeysInOrder BY <2>1, <2>3 DEF PxKeysInOrder, PxTurns, PxSenderAt
 <2> QED BY <2>4, <2>5 DEF PxKeysInv
<1> QED BY <1>3, <1>4, <1>5 DEF PxInv

\* Every step keeps the invariant.
LEMMA ProxyNext ==
  ASSUME PxInv, [PxNext]_pxVars
  PROVE PxInv'
<1>1. PxRequestInv /\ PxBatchInv /\ PxKeysInv BY DEF PxInv
<1>2. ASSUME UNCHANGED <<pxBatch, pxKeys>>
  PROVE PxBatchInv' /\ PxKeysInv'
  BY <1>1, <1>2, BatchStays, KeysStay
<1>3. ASSUME UNCHANGED <<pxRequest, pxHeard, pxWire>>
  PROVE PxRequestInv'
  BY <1>1, <1>3, RequestStays
<1>4. CASE PxRefused \/ PxUpstreamFails \/ PxClientLeaves
 <2>1. UNCHANGED <<pxBatch, pxKeys>> BY <1>4 DEF PxRefused, PxUpstreamFails, PxClientLeaves
 <2> QED BY <1>1, <1>2, <1>4, <2>1, RequestOver DEF PxInv
<1>5. CASE PxAccepted
 <2>1. UNCHANGED <<pxBatch, pxKeys>> BY <1>5 DEF PxAccepted
 <2> QED BY <1>1, <1>2, <1>5, <2>1, RequestAccepted DEF PxInv
<1>6. CASE PxSend
 <2>1. UNCHANGED <<pxBatch, pxKeys>> BY <1>6 DEF PxSend
 <2> QED BY <1>1, <1>2, <1>6, <2>1, RequestSent DEF PxInv
<1>7. CASE PxUpstreamSends
 <2>1. UNCHANGED <<pxBatch, pxKeys>> BY <1>7 DEF PxUpstreamSends
 <2> QED BY <1>1, <1>2, <1>7, <2>1, UpstreamSends DEF PxInv
<1>8. CASE PxUpstreamEnds
 <2>1. UNCHANGED <<pxBatch, pxKeys>> BY <1>8 DEF PxUpstreamEnds
 <2> QED BY <1>1, <1>2, <1>8, <2>1, UpstreamEnds DEF PxInv
<1>9.
  CASE \/ PxBatchComes \/ PxWorkerTakes \/ PxBatchAnswered
       \/ PxItemAnswers \/ PxItemTimer \/ PxLateAnswer
 <2>1. UNCHANGED <<pxRequest, pxHeard, pxWire>> /\ pxKeys' = pxKeys
   BY <1>9 DEF PxBatchComes, PxWorkerTakes, PxBatchAnswered, PxItemAnswers, PxItemTimer,
     PxLateAnswer
 <2>2. PxBatchInv' BY <1>1, <1>9, BatchComes, WorkerTakes, ItemMoves, BatchAnswered
 <2> QED BY <1>1, <1>3, <2>1, <2>2, KeysStay DEF PxInv
<1>10. CASE PxExpires \/ PxLoads \/ PxRefreshed \/ PxSaves
 <2>1. UNCHANGED <<pxRequest, pxHeard, pxWire>> /\ pxBatch' = pxBatch
   BY <1>10 DEF PxExpires, PxLoads, PxRefreshed, PxSaves
 <2> QED BY <1>1, <1>3, <1>10, <2>1, KeysStep, BatchStays DEF PxInv
<1>11. CASE UNCHANGED pxVars
 <2>1. UNCHANGED <<pxRequest, pxHeard, pxWire>> /\ UNCHANGED <<pxBatch, pxKeys>>
   BY <1>11 DEF pxVars
 <2> QED BY <1>2, <1>3, <2>1 DEF PxInv
<1> QED BY <1>4, <1>5, <1>6, <1>7, <1>8, <1>9, <1>10, <1>11 DEF PxNext

\* At every step of an answer, through any provider and in any protocol, with a stream or
\* without, what the mapper has given out is what the parser has passed on of what the
\* upstream sent (toAnthropicSseEvents and its siblings, send() of the providers); a batch and
\* its workers agree on what has been taken, what runs and what came of it (server.ts:441);
\* and senders of credentials that do not overlap have the good one among them
\* (codex-auth.ts:260).
THEOREM ProxyInvariant == PxSpec => []PxInv
<1>1. PxInit => PxInv BY ProxyInit
<1>2. PxInv /\ [PxNext]_pxVars => PxInv' BY ProxyNext
<1> QED BY <1>1, <1>2, PTL DEF PxSpec

\* The proxy passes on what it was given, whatever the conversation, the stream of the
\* upstream, the batch and the order in which its items end.
THEOREM ProxyPassesEverythingOn == PxSpec => []ProxyPassesOn
<1>1. PxInv => ProxyPassesOn
 <2> SUFFICES ASSUME PxInv PROVE ProxyPassesOn OBVIOUS
 <2>1. PxBatchWhole BY BatchInvWhole DEF PxInv
 <2>2. PxKeysGood BY DEF PxInv, PxKeysInv, PxKeysInOrder, PxTurns, PxKeysGood, PxSenderAt
 <2> QED BY <2>1, <2>2 DEF PxInv, PxRequestInv, ProxyPassesOn
<1> QED BY <1>1, ProxyInvariant, PTL
====
