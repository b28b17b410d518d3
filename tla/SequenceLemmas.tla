---- MODULE SequenceLemmas ----
(***************************************************************************)
(* Facts about queues, that is sequences without repetitions, which the    *)
(* proofs about the schedulers and pools of the program share, and what    *)
(* there is to say of induction and recursion on the natural numbers.      *)
(***************************************************************************)
EXTENDS Integers, SequencesExt, FiniteSetTheorems, SequenceTheorems,
        WellFoundedInduction, TLAPS

\* A sequence without repetitions.
Distinct(s) == \A i, j \in 1..Len(s) : s[i] = s[j] => i = j

\* The members of a sequence are the values at its indices.
LEMMA ToSetMembers ==
  ASSUME NEW S, NEW s \in Seq(S)
  PROVE /\ ToSet(s) = {s[i] : i \in 1..Len(s)} /\ ToSet(s) \subseteq S
BY LenProperties DEF ToSet

\* What is in a sequence.
LEMMA Indices ==
  ASSUME NEW S, NEW s \in Seq(S)
  PROVE
    /\ Len(s) \in Nat /\ DOMAIN s = 1 .. Len(s)
    /\ \A i \in DOMAIN s : s[i] \in S
BY LenProperties, ElementOfSeq

\* What makes one.
LEMMA FromFunction ==
  ASSUME NEW S, NEW n \in Nat, NEW f \in [1 .. n -> S]
  PROVE f \in Seq(S) /\ Len(f) = n /\ DOMAIN f = 1 .. n
BY IsASeq, LenProperties

\* Dropping the first k elements shifts the rest down by k.
LEMMA DropFirst ==
  ASSUME NEW S, NEW s \in Seq(S), NEW k \in 0..Len(s)
  PROVE
    LET r == SubSeq(s, k + 1, Len(s))
    IN  /\ r \in Seq(S)
        /\ Len(r) = Len(s) - k
        /\ \A i \in 1..Len(r) : r[i] = s[i + k]
        /\ Distinct(s) => Distinct(r)
<1> DEFINE r == SubSeq(s, k + 1, Len(s))
<1>1.
  /\ Len(s) \in Nat
  /\ \A i \in (k + 1)..Len(s) : s[i] \in S
  BY LenProperties, ElementOfSeq
<1>2.
  /\ r \in Seq(S)
  /\ Len(r) = IF k + 1 <= Len(s) THEN Len(s) - (k + 1) + 1 ELSE 0
  /\ \A i \in 1..(Len(s) - (k + 1) + 1) : r[i] = s[k + 1 + i - 1]
 <2> HIDE DEF r
 <2>1. k + 1 \in Int /\ Len(s) \in Int BY <1>1
 <2> QED BY <1>1, <2>1, SubSeqProperties DEF r
<1> HIDE DEF r
<1>3.
  /\ Len(r) = Len(s) - k
  /\ \A i \in 1..Len(r) : r[i] = s[i + k]
  BY <1>1, <1>2
<1>4. Distinct(s) => Distinct(r) BY <1>1, <1>3 DEF Distinct
<1> QED BY <1>2, <1>3, <1>4 DEF r

\* Appending a value the sequence does not have keeps it free of repetitions.
LEMMA AppendNew ==
  ASSUME NEW S, NEW s \in Seq(S), NEW e \in S
  PROVE
    LET r == Append(s, e)
    IN  /\ r \in Seq(S)
        /\ Len(r) = Len(s) + 1
        /\ \A i \in 1..Len(r) : r[i] = IF i <= Len(s) THEN s[i] ELSE e
        /\ (Distinct(s) /\ \A i \in 1..Len(s) : s[i] # e) => Distinct(r)
<1> DEFINE r == Append(s, e)
<1>1.
  /\ r \in Seq(S) /\ Len(r) = Len(s) + 1
  /\ \A i \in 1..Len(s) : r[i] = s[i]
  /\ r[Len(s) + 1] = e /\ Len(s) \in Nat
  BY AppendProperties, LenProperties
<1> HIDE DEF r
<1>2. \A i \in 1..Len(r) : r[i] = IF i <= Len(s) THEN s[i] ELSE e BY <1>1
<1>3. (Distinct(s) /\ \A i \in 1..Len(s) : s[i] # e) => Distinct(r) BY <1>1, <1>2 DEF Distinct
<1> QED BY <1>1, <1>2, <1>3 DEF r

\* Two sequences with nothing in common concatenate without repetitions.
LEMMA ConcatDisjoint ==
  ASSUME NEW S, NEW s \in Seq(S), NEW u \in Seq(S)
  PROVE
    LET r == s \o u
    IN  /\ r \in Seq(S)
        /\ Len(r) = Len(s) + Len(u)
        /\ \A i \in 1..Len(r) :
             r[i] = IF i <= Len(s) THEN s[i] ELSE u[i - Len(s)]
        /\ (/\ Distinct(s) /\ Distinct(u)
            /\ \A i \in 1..Len(s), j \in 1..Len(u) : s[i] # u[j])
             => Distinct(r)
<1> DEFINE r == s \o u
<1>1.
  /\ r \in Seq(S) /\ Len(r) = Len(s) + Len(u)
  /\ \A i \in 1..Len(r) : r[i] = IF i <= Len(s) THEN s[i] ELSE u[i - Len(s)]
  /\ Len(s) \in Nat /\ Len(u) \in Nat
  BY ConcatProperties, LenProperties
<1> HIDE DEF r
<1>2. ASSUME Distinct(s), Distinct(u),
    \A i \in 1..Len(s), j \in 1..Len(u) : s[i] # u[j]
  PROVE Distinct(r)
 <2>1. SUFFICES ASSUME NEW i \in 1..Len(r), NEW j \in 1..Len(r), r[i] = r[j]
   PROVE i = j
   BY DEF Distinct
 <2>2. CASE i <= Len(s) /\ j <= Len(s) BY <1>1, <1>2, <2>1, <2>2 DEF Distinct
 <2>3. CASE i > Len(s) /\ j > Len(s)
  <3>1. i - Len(s) \in 1..Len(u) /\ j - Len(s) \in 1..Len(u) BY <1>1, <2>3
  <3>2. u[i - Len(s)] = u[j - Len(s)] BY <1>1, <2>1, <2>3
  <3>3. i - Len(s) = j - Len(s) BY <1>2, <3>1, <3>2 DEF Distinct
  <3> QED BY <1>1, <3>3
 <2>4. CASE i <= Len(s) /\ j > Len(s)
  <3>1. i \in 1..Len(s) /\ j - Len(s) \in 1..Len(u) BY <1>1, <2>4
  <3>2. s[i] = u[j - Len(s)] BY <1>1, <2>1, <2>4
  <3> QED BY <1>2, <3>1, <3>2
 <2>5. CASE i > Len(s) /\ j <= Len(s)
  <3>1. j \in 1..Len(s) /\ i - Len(s) \in 1..Len(u) BY <1>1, <2>5
  <3>2. s[j] = u[i - Len(s)] BY <1>1, <2>1, <2>5
  <3> QED BY <1>2, <3>1, <3>2
 <2> QED BY <1>1, <2>2, <2>3, <2>4, <2>5
<1> QED BY <1>1, <1>2 DEF r

\* Removing the element at k closes the gap and loses nothing else.
LEMMA RemoveAtIndex ==
  ASSUME NEW S, NEW s \in Seq(S), NEW k \in 1..Len(s)
  PROVE
    LET r == RemoveAt(s, k)
    IN  /\ r \in Seq(S)
        /\ Len(r) = Len(s) - 1
        /\ \A i \in 1..Len(r) : r[i] = IF i < k THEN s[i] ELSE s[i + 1]
        /\ Distinct(s) => Distinct(r)
<1> DEFINE a == SubSeq(s, 1, k - 1)
  b == SubSeq(s, k + 1, Len(s))
  r == RemoveAt(s, k)
<1>1.
  /\ Len(s) \in Nat /\ k - 1 \in Int
  /\ \A i \in 1..(k - 1) : s[i] \in S
  BY LenProperties, ElementOfSeq
<1>2.
  /\ a \in Seq(S) /\ Len(a) = k - 1
  /\ \A i \in 1..(k - 1) : a[i] = s[i]
 <2>1.
   /\ SubSeq(s, 1, k - 1) \in Seq(S)
   /\ Len(SubSeq(s, 1, k - 1)) = IF 1 <= k - 1 THEN k - 1 - 1 + 1 ELSE 0
   /\ \A i \in 1..(k - 1 - 1 + 1) : SubSeq(s, 1, k - 1)[i] = s[1 + i - 1]
   BY <1>1, SubSeqProperties
 <2> QED BY <1>1, <2>1
<1>3.
  /\ b \in Seq(S) /\ Len(b) = Len(s) - k
  /\ \A i \in 1..(Len(s) - k) : b[i] = s[i + k]
  BY <1>1, DropFirst
<1>4. r = a \o b BY DEF RemoveAt
<1> HIDE DEF a, b, r
<1>5.
  /\ r \in Seq(S) /\ Len(r) = Len(a) + Len(b)
  /\ \A i \in 1..Len(r) : r[i] = IF i <= Len(a) THEN a[i] ELSE b[i - Len(a)]
  BY <1>2, <1>3, <1>4, ConcatDisjoint
<1>6. Len(r) = Len(s) - 1 BY <1>1, <1>2, <1>3, <1>5
<1>7. \A i \in 1..Len(r) : r[i] = IF i < k THEN s[i] ELSE s[i + 1]
 <2>1. SUFFICES ASSUME NEW i \in 1..Len(r)
   PROVE r[i] = IF i < k THEN s[i] ELSE s[i + 1]
   OBVIOUS
 <2>2. CASE i < k BY <1>1, <1>2, <1>5, <2>2
 <2>3. CASE i >= k
  <3>1. i - (k - 1) \in 1..(Len(s) - k) BY <1>1, <1>6, <2>3
  <3>2. b[i - (k - 1)] = s[i - (k - 1) + k] BY <1>3, <3>1
  <3>3. i - (k - 1) + k = i + 1 BY <1>1, <1>6
  <3> QED BY <1>1, <1>2, <1>5, <2>3, <3>2, <3>3
 <2> QED BY <1>1, <1>6, <2>2, <2>3
<1>8. Distinct(s) => Distinct(r) BY <1>1, <1>7, <1>6 DEF Distinct
<1> QED BY <1>5, <1>7, <1>8, <1>6 DEF r

\* The first k elements of a sequence without repetitions are k elements.
LEMMA CountFirst ==
  ASSUME NEW S, NEW s \in Seq(S), NEW k \in 0..Len(s), Distinct(s)
  PROVE
    LET T == {s[i] : i \in 1..k}
    IN  IsFiniteSet(T) /\ Cardinality(T) = k
<1> DEFINE T == {s[i] : i \in 1..k}
  f == [i \in 1..k |-> s[i]]
<1>1. Len(s) \in Nat /\ k \in Int BY LenProperties
<1>2. f \in Surjection(1..k, T) BY DEF Surjection
<1>3. f \in Injection(1..k, T)
  BY <1>1, <1>2, SMTT(20) DEF Injection, Surjection, Distinct, IsInjective
<1>4. IsFiniteSet(1..k) /\ Cardinality(1..k) = k BY <1>1, FS_Interval
<1> HIDE DEF f, T
<1>5. IsFiniteSet(T) /\ Cardinality(T) = Cardinality(1..k) BY <1>2, <1>3, <1>4, FS_Surjection
<1> QED BY <1>4, <1>5 DEF T
\* A sequence of numbers in rising order.
Rising(s) == \A i, j \in 1..Len(s) : i < j => s[i] < s[j]

\* A rising sequence has no repetitions.
LEMMA RisingDistinct ==
  ASSUME NEW s \in Seq(Nat), Rising(s)
  PROVE Distinct(s)
<1>1. Len(s) \in Nat /\ \A i \in 1..Len(s) : s[i] \in Nat BY LenProperties, ElementOfSeq
<1> QED BY <1>1 DEF Rising, Distinct

\* What appending does to the members and the order of a sequence.
LEMMA AppendMember ==
  ASSUME NEW S, NEW s \in Seq(S), NEW e \in S
  PROVE
    LET r == Append(s, e)
    IN  /\ r \in Seq(S)
        /\ Len(r) = Len(s) + 1 /\ ToSet(r) = ToSet(s) \cup {e}
        /\ (Distinct(s) /\ e \notin ToSet(s)) => Distinct(r)
        /\ (Rising(s) /\ \A x \in ToSet(s) : x < e) => Rising(r)
<1> DEFINE r == Append(s, e)
<1>1.
  /\ r \in Seq(S) /\ Len(r) = Len(s) + 1 /\ Len(s) \in Nat
  /\ \A i \in 1..Len(r) : r[i] = IF i <= Len(s) THEN s[i] ELSE e
  /\ (Distinct(s) /\ \A i \in 1..Len(s) : s[i] # e) => Distinct(r)
  BY AppendNew, LenProperties
<1> HIDE DEF r
<1>2. /\ ToSet(s) = {s[i] : i \in 1..Len(s)} /\ ToSet(r) = {r[i] : i \in 1..Len(r)}
  BY <1>1, ToSetMembers
<1>3. ToSet(r) = ToSet(s) \cup {e} BY <1>1, <1>2
<1>4. (Distinct(s) /\ e \notin ToSet(s)) => Distinct(r) BY <1>1, <1>2
<1>5. ASSUME Rising(s), \A x \in ToSet(s) : x < e
  PROVE Rising(r)
 <2>1. \A i \in 1..Len(s) : s[i] < e BY <1>2, <1>5
 <2> QED BY <1>1, <1>5, <2>1 DEF Rising
<1> QED BY <1>1, <1>3, <1>4, <1>5 DEF r

\* The members of a concatenation.
LEMMA ConcatMembers ==
  ASSUME NEW S, NEW s \in Seq(S), NEW u \in Seq(S)
  PROVE
    /\ s \o u \in Seq(S) /\ ToSet(s \o u) = ToSet(s) \cup ToSet(u)
    /\ (Distinct(s) /\ Distinct(u) /\ ToSet(s) \cap ToSet(u) = {})
         => Distinct(s \o u)
<1> DEFINE r == s \o u
<1>1.
  /\ r \in Seq(S) /\ Len(r) = Len(s) + Len(u)
  /\ \A i \in 1..Len(r) : r[i] = IF i <= Len(s) THEN s[i] ELSE u[i - Len(s)]
  /\ (/\ Distinct(s) /\ Distinct(u)
      /\ \A i \in 1..Len(s), j \in 1..Len(u) : s[i] # u[j])
       => Distinct(r)
  /\ Len(s) \in Nat /\ Len(u) \in Nat
  BY ConcatDisjoint, LenProperties
<1> HIDE DEF r
<1>2.
  /\ ToSet(s) = {s[i] : i \in 1..Len(s)} /\ ToSet(u) = {u[i] : i \in 1..Len(u)}
  /\ ToSet(r) = {r[i] : i \in 1..Len(r)}
  BY <1>1, ToSetMembers
<1>3. ToSet(r) \subseteq ToSet(s) \cup ToSet(u) BY <1>1, <1>2
<1>4. ToSet(s) \subseteq ToSet(r) BY <1>1, <1>2
<1>5. ASSUME NEW j \in 1..Len(u)
  PROVE u[j] \in ToSet(r)
 <2>0.
   /\ Len(s) \in Nat /\ Len(u) \in Nat /\ Len(r) = Len(s) + Len(u)
   /\ \A i \in 1..Len(r) : r[i] = IF i <= Len(s) THEN s[i] ELSE u[i - Len(s)]
   BY <1>1
 <2> DEFINE i == j + Len(s)
 <2>1. i \in 1..Len(r) /\ ~(i <= Len(s)) /\ i - Len(s) = j BY <2>0
 <2> HIDE DEF i
 <2>2. r[i] = u[j] BY <2>0, <2>1
 <2> QED BY <1>2, <2>1, <2>2
<1>6. ToSet(u) \subseteq ToSet(r) BY <1>2, <1>5
<1>7. (ToSet(s) \cap ToSet(u) = {}) => \A i \in 1..Len(s), j \in 1..Len(u) : s[i] # u[j] BY <1>2
<1> QED BY <1>1, <1>3, <1>4, <1>6, <1>7 DEF r

\* A rising sequence cut in two.
LEMMA CutRising ==
  ASSUME NEW S \in SUBSET Nat, NEW s \in Seq(S), Rising(s), NEW k \in 0..Len(s)
  PROVE
    LET a == SubSeq(s, 1, k)
        b == SubSeq(s, k + 1, Len(s))
    IN  /\ a \in Seq(S) /\ b \in Seq(S)
        /\ Len(a) = k
        /\ \A i \in 1..k : a[i] = s[i]
        /\ ToSet(s) = ToSet(a) \cup ToSet(b) /\ Rising(a) /\ Rising(b)
        /\ \A x \in ToSet(a), y \in ToSet(b) : x < y
<1> DEFINE a == SubSeq(s, 1, k)
  b == SubSeq(s, k + 1, Len(s))
<1>0. Len(s) \in Nat /\ \A i \in 1..Len(s) : s[i] \in S BY LenProperties, ElementOfSeq
<1>1.
  /\ Len(s) \in Nat /\ k \in Int
  /\ \A i \in 1..k : s[i] \in S
  /\ \A i \in 1..Len(s) : s[i] \in Nat
 <2>1. k \in Int /\ k <= Len(s) BY <1>0
 <2>2. \A i \in 1..k : s[i] \in S BY <1>0, <2>1
 <2>3. \A i \in 1..Len(s) : s[i] \in Nat BY <1>0
 <2> QED BY <1>0, <2>1, <2>2, <2>3
<1>2.
  /\ a \in Seq(S) /\ Len(a) = k
  /\ \A i \in 1..k : a[i] = s[i]
 <2>1.
   /\ SubSeq(s, 1, k) \in Seq(S)
   /\ Len(SubSeq(s, 1, k)) = IF 1 <= k THEN k - 1 + 1 ELSE 0
   /\ \A i \in 1..(k - 1 + 1) : SubSeq(s, 1, k)[i] = s[1 + i - 1]
   BY <1>1, SubSeqProperties
 <2> QED BY <1>1, <2>1
<1>3.
  /\ b \in Seq(S) /\ Len(b) = Len(s) - k
  /\ \A i \in 1..Len(b) : b[i] = s[i + k]
  BY DropFirst
<1> HIDE DEF a, b
<1>4.
  /\ ToSet(s) = {s[i] : i \in 1..Len(s)} /\ ToSet(a) = {a[i] : i \in 1..Len(a)}
  /\ ToSet(b) = {b[i] : i \in 1..Len(b)}
  BY <1>2, <1>3, ToSetMembers
<1>5. ToSet(a) \subseteq ToSet(s) /\ ToSet(b) \subseteq ToSet(s) BY <1>1, <1>2, <1>3, <1>4
<1>6. ASSUME NEW i \in 1..Len(s)
  PROVE s[i] \in ToSet(a) \cup ToSet(b)
 <2>1. CASE i <= k BY <1>1, <1>2, <1>4, <2>1
 <2>2. CASE i > k
  <3>1. i - k \in 1..Len(b) /\ b[i - k] = s[i] BY <1>1, <1>3, <2>2
  <3> QED BY <1>4, <3>1
 <2> QED BY <1>1, <2>1, <2>2
<1>7. Rising(a) /\ Rising(b)
 <2>1. ASSUME NEW i \in 1..Len(a), NEW j \in 1..Len(a), i < j
   PROVE a[i] < a[j]
  <3>1. i \in 1..Len(s) /\ j \in 1..Len(s) /\ a[i] = s[i] /\ a[j] = s[j] BY <1>1, <1>2
  <3> QED BY <2>1, <3>1 DEF Rising
 <2>2. ASSUME NEW i \in 1..Len(b), NEW j \in 1..Len(b), i < j
   PROVE b[i] < b[j]
  <3>1. /\ i + k \in 1..Len(s) /\ j + k \in 1..Len(s) /\ i + k < j + k
        /\ b[i] = s[i + k] /\ b[j] = s[j + k]
    BY <1>1, <1>3, <2>2
  <3> QED BY <3>1 DEF Rising
 <2> QED BY <2>1, <2>2 DEF Rising
<1>8. \A x \in ToSet(a), y \in ToSet(b) : x < y
 <2>1. ASSUME NEW i \in 1..Len(a), NEW j \in 1..Len(b)
   PROVE a[i] < b[j]
  <3>1. /\ i \in 1..Len(s) /\ j + k \in 1..Len(s) /\ i < j + k /\ a[i] = s[i] /\ b[j] = s[j + k]
    BY <1>1, <1>2, <1>3
  <3> QED BY <3>1 DEF Rising
 <2> QED BY <1>4, <2>1
<1> QED BY <1>2, <1>3, <1>4, <1>5, <1>6, <1>7, <1>8 DEF a, b

\* A rising sequence without its first member.
LEMMA HeadRising ==
  ASSUME NEW S \in SUBSET Nat, NEW s \in Seq(S), s # <<>>, Rising(s)
  PROVE
    /\ Head(s) \in S /\ Tail(s) \in Seq(S) /\ ToSet(s) = {Head(s)} \cup ToSet(Tail(s))
    /\ Rising(Tail(s))
    /\ \A y \in ToSet(Tail(s)) : Head(s) < y
<1> DEFINE t == Tail(s)
<1>1. Len(s) \in Nat \ {0} /\ \A i \in 1..Len(s) : s[i] \in Nat BY EmptySeq, ElementOfSeq
<1>2.
  /\ Head(s) \in S /\ t \in Seq(S) /\ Len(t) = Len(s) - 1
  /\ \A i \in 1..Len(t) : t[i] = s[i + 1]
  /\ Head(s) = s[1]
  BY <1>1, HeadTailProperties
<1> HIDE DEF t
<1>3. /\ ToSet(s) = {s[i] : i \in 1..Len(s)} /\ ToSet(t) = {t[i] : i \in 1..Len(t)}
  BY <1>2, ToSetMembers
<1>4. ToSet(t) \subseteq ToSet(s) /\ Head(s) \in ToSet(s) BY <1>1, <1>2, <1>3
<1>5. ASSUME NEW i \in 1..Len(s), i # 1
  PROVE s[i] \in ToSet(t)
 <2>1. i - 1 \in 1..Len(t) /\ t[i - 1] = s[i] BY <1>1, <1>2, <1>5
 <2> QED BY <1>3, <2>1
<1>6. Rising(t) BY <1>1, <1>2 DEF Rising
<1>7. \A i \in 1..Len(t) : Head(s) < t[i] BY <1>1, <1>2 DEF Rising
<1> QED BY <1>2, <1>3, <1>4, <1>5, <1>6, <1>7 DEF t

\* Nothing is in an empty sequence, and a sequence with no members is empty.
LEMMA NoMembers ==
  ASSUME NEW S
  PROVE
    /\ <<>> \in Seq(S) /\ ToSet(<<>>) = {} /\ Rising(<<>>) /\ Distinct(<<>>)
    /\ \A s \in Seq(S) : ToSet(s) = {} => s = <<>>
<1> DEFINE e == <<>>
<1>1. e \in Seq(S) /\ Len(e) = 0 BY EmptySeq
<1>2. ToSet(e) = {}
 <2> HIDE DEF e
 <2>1. ToSet(e) = {e[i] : i \in 1..Len(e)} BY <1>1, ToSetMembers
 <2> QED BY <1>1, <2>1
<1>3. ASSUME NEW s \in Seq(S), s # <<>>
  PROVE ToSet(s) # {}
 <2>1. Len(s) \in Nat \ {0} BY <1>3, EmptySeq
 <2>2. s[1] \in ToSet(s) BY <2>1, ToSetMembers
 <2> QED BY <2>2
<1> QED BY <1>1, <1>2, <1>3 DEF Rising, Distinct

\* A set in some order.
LEMMA SetToSeqMembers ==
  ASSUME NEW S, IsFiniteSet(S)
  PROVE Cardinality(S) \in Nat /\ SetToSeq(S) \in [1 .. Cardinality(S) -> S]
<1>1. Cardinality(S) \in Nat /\ ExistsBijection(1 .. Cardinality(S), S) BY FS_CardinalityType
<1>2. PICK f : f \in Bijection(1 .. Cardinality(S), S) BY <1>1 DEF ExistsBijection
<1>3. f \in [1 .. Cardinality(S) -> S] /\ IsInjective(f)
  BY <1>2 DEF Bijection, Injection, Surjection, IsInjective
<1> QED BY <1>1, <1>3 DEF SetToSeq

--------------------
(* Numbers and recursion *)

\* A set of natural numbers that has a member has a least one.
LEMMA LeastMember ==
  ASSUME NEW T \in SUBSET Nat, T # {}
  PROVE \E x \in T : \A y \in T : x <= y
<1> DEFINE R == {ss \in Nat \X Nat : ss[1] < ss[2]}
<1>1. IsWellFoundedOn(R, Nat) BY NatLessThanWellFounded DEF OpToRel
<1>2. \A x, y \in Nat : y < x => <<y, x>> \in R OBVIOUS
<1> HIDE DEF R
<1>3. PICK x \in T : \A y \in T : ~ (<<y, x>> \in R) BY <1>1, WFMin
<1>4. ASSUME NEW y \in T
  PROVE x <= y
 <2>1. x \in Nat /\ y \in Nat /\ ~ (<<y, x>> \in R) BY <1>3
 <2>2. ~ (y < x) BY <1>2, <2>1
 <2> QED BY <2>1, <2>2
<1> QED BY <1>4

\* So a set that has 0 and every successor of its members has every number.
LEMMA EveryNumber ==
  ASSUME NEW T, 0 \in T, \A n \in Nat : n \in T => n + 1 \in T
  PROVE Nat \subseteq T
<1> SUFFICES ASSUME ~ (Nat \subseteq T)
  PROVE FALSE
  OBVIOUS
<1> DEFINE N == Nat \ T
<1>1. N \in SUBSET Nat /\ N # {} OBVIOUS
<1>2. PICK x \in N : \A y \in N : x <= y
 <2> HIDE DEF N
 <2> QED BY <1>1, LeastMember
<1>3. x # 0 /\ x - 1 \in Nat /\ x - 1 \notin N BY <1>2
<1>4. x - 1 \in T /\ (x - 1) + 1 = x BY <1>3
<1> QED BY <1>2, <1>3, <1>4

\* A set of natural numbers with a bound has a greatest one.
LEMMA GreatestMember ==
  ASSUME NEW m \in Nat, NEW T \in SUBSET (0 .. m), T # {}
  PROVE \E x \in T : \A y \in T : y <= x
<1> DEFINE D == {d \in Nat : \E x \in T : d = m - x}
<1>1. D \in SUBSET Nat /\ D # {}
 <2>1. PICK x \in T : TRUE OBVIOUS
 <2>2. m - x \in D BY <2>1
 <2> QED BY <2>2
<1>2. PICK d \in D : \A e \in D : d <= e
 <2> HIDE DEF D
 <2> QED BY <1>1, LeastMember
<1>3. PICK x \in T : d = m - x BY <1>2
<1>4. ASSUME NEW y \in T
  PROVE y <= x
 <2>1. m - y \in D OBVIOUS
 <2> QED BY <2>1, <1>2, <1>3
<1> QED BY <1>4

\* The function with these values for 0 and for every successor.
Recurs(f, V, base, step) ==
  f \in [Nat -> V] /\ f[0] = base /\ \A n \in Nat : f[n + 1] = step[n][f[n]]

\* What is defined by recursion on the natural numbers exists: a value for 0 and a
\* step from each value to the next make a function.
LEMMA Recursion ==
  ASSUME NEW V, NEW base \in V, NEW step \in [Nat -> [V -> V]]
  PROVE \E f : Recurs(f, V, base, step)
<1> DEFINE
  Part(g, n) == /\ g \in [0 .. n -> V]
                /\ g[0] = base
                /\ \A i \in 0 .. n : i # n => g[i + 1] = step[i][g[i]]
  T == {n \in Nat : \E g : Part(g, n)}
  G(n) == CHOOSE g : Part(g, n)
<1>1. \A n \in Nat : \E g : Part(g, n)
 <2>1. 0 \in T
  <3>1. Part([i \in 0 .. 0 |-> base], 0) OBVIOUS
  <3> QED BY <3>1
 <2>2. ASSUME NEW n \in Nat, n \in T
   PROVE n + 1 \in T
  <3>1. PICK g : Part(g, n) BY <2>2
  <3> DEFINE h == [i \in 0 .. n + 1 |-> IF i = n + 1 THEN step[n][g[n]] ELSE g[i]]
  <3>2. step[n][g[n]] \in V BY <3>1
  <3>3. h \in [0 .. n + 1 -> V] /\ h[0] = base BY <3>1, <3>2
  <3>4. \A i \in 0 .. n + 1 : i # n + 1 => h[i + 1] = step[i][h[i]] BY <3>1
  <3> HIDE DEF h
  <3>5. Part(h, n + 1) BY <3>3, <3>4
  <3> QED BY <3>5
 <2> HIDE DEF T
 <2>3. Nat \subseteq T BY <2>1, <2>2, EveryNumber
 <2> QED BY <2>3 DEF T
<1>2. \A n \in Nat : Part(G(n), n) BY <1>1
<1> HIDE DEF G, T
<1>3. \A n \in Nat : \A i \in 0 .. n : G(n)[i] = G(n + 1)[i]
 <2> SUFFICES ASSUME NEW n \in Nat
   PROVE \A i \in 0 .. n : G(n)[i] = G(n + 1)[i]
   OBVIOUS
 <2> DEFINE A == {i \in Nat : i <= n => G(n)[i] = G(n + 1)[i]}
 <2>1. Part(G(n), n) /\ Part(G(n + 1), n + 1) BY <1>2
 <2>2. 0 \in A BY <2>1
 <2>3. ASSUME NEW i \in Nat, i \in A
   PROVE i + 1 \in A
   BY <2>1, <2>3
 <2> HIDE DEF A
 <2>4. Nat \subseteq A BY <2>2, <2>3, EveryNumber
 <2> QED BY <2>4 DEF A
<1> DEFINE f == [n \in Nat |-> G(n)[n]]
<1>4. f \in [Nat -> V] /\ f[0] = base BY <1>2
<1>5. ASSUME NEW n \in Nat
  PROVE f[n + 1] = step[n][f[n]]
 <2>1. G(n + 1)[n + 1] = step[n][G(n + 1)[n]] BY <1>2
 <2>2. G(n + 1)[n] = G(n)[n] BY <1>3
 <2> QED BY <2>1, <2>2
<1> HIDE DEF f
<1>6. Recurs(f, V, base, step) BY <1>4, <1>5 DEF Recurs
<1> QED BY <1>6

\* The function on 0 .. N with these values for 0 and for every successor.
IsRecursive(g, N, base, step) ==
  g = [n \in 0 .. N |-> IF n = 0 THEN base ELSE step[n][g[n - 1]]]

\* A recursive function on an initial segment of the numbers exists, and its values are
\* those of its steps.
LEMMA RecursionUpTo ==
  ASSUME NEW V, NEW N \in Nat, NEW base \in V, NEW step \in [1 .. N -> [V -> V]]
  PROVE \E g \in [0 .. N -> V] : IsRecursive(g, N, base, step)
<1> DEFINE Step == [n \in Nat |-> IF n + 1 \in 1 .. N THEN step[n + 1] ELSE [v \in V |-> v]]
<1>1. Step \in [Nat -> [V -> V]] OBVIOUS
<1> HIDE DEF Step
<1>2. PICK f : Recurs(f, V, base, Step) BY <1>1, Recursion
<1>3. f \in [Nat -> V] /\ f[0] = base /\ \A n \in Nat : f[n + 1] = Step[n][f[n]]
  BY <1>2 DEF Recurs
<1> DEFINE g == [n \in 0 .. N |-> f[n]]
<1>4. ASSUME NEW n \in 0 .. N, n # 0
  PROVE f[n] = step[n][g[n - 1]]
 <2>1. n - 1 \in Nat /\ n - 1 \in 0 .. N /\ (n - 1) + 1 = n /\ n \in 1 .. N BY <1>4
 <2>2. f[n] = Step[n - 1][f[n - 1]] BY <1>3, <2>1
 <2>3. Step[n - 1] = step[n] BY <2>1 DEF Step
 <2>4. g[n - 1] = f[n - 1] BY <2>1
 <2> QED BY <2>2, <2>3, <2>4
<1>5. g = [n \in 0 .. N |-> IF n = 0 THEN base ELSE step[n][g[n - 1]]] BY <1>3, <1>4
<1>6. g \in [0 .. N -> V] BY <1>3
<1>7. IsRecursive(g, N, base, step) BY <1>5 DEF IsRecursive
<1> QED BY <1>6, <1>7

\* In a finite set of numbers every rank below its size is one member's: with so many
\* members below it.
LEMMA NthMember ==
  ASSUME NEW m \in Nat, NEW S \in SUBSET (0 .. m), NEW k \in Nat, k < Cardinality(S)
  PROVE \E e \in S : Cardinality({x \in S : x < e}) = k
<1> DEFINE UpTo(e) == {x \in S : x <= e}
  T == {e \in S : k < Cardinality(UpTo(e))}
<1>0. S \subseteq Nat /\ T \subseteq S OBVIOUS
<1>1. \A R \in SUBSET S : IsFiniteSet(R) /\ Cardinality(R) \in Nat
 <2>1. IsFiniteSet(0 .. m) BY FS_Interval
 <2>2. \A R \in SUBSET S : IsFiniteSet(R) BY <2>1, FS_Subset
 <2> QED BY <2>2, FS_CardinalityType
<1>2. T # {}
 <2>1. S # {} BY FS_EmptySet
 <2>2. PICK g \in S : \A x \in S : x <= g BY <2>1, GreatestMember
 <2>3. UpTo(g) = S BY <2>2
 <2> QED BY <2>3
<1>3. PICK e \in T : \A x \in T : e <= x
 <2> HIDE DEF T
 <2>1. T \in SUBSET Nat BY <1>0
 <2> QED BY <1>2, <2>1, LeastMember
<1> DEFINE B == {x \in S : x < e}
<1>4. Cardinality(B) \in Nat /\ Cardinality(UpTo(e)) = Cardinality(B) + 1
 <2>1. B = UpTo(e) \ {e} /\ e \in UpTo(e)
  <3> HIDE DEF T
  <3>1. e \in S /\ e \in Nat BY <1>0
  <3>2. \A x \in S : x < e <=> (x <= e /\ x # e) BY <1>0, <3>1
  <3>3. e <= e BY <3>1
  <3> QED BY <3>1, <3>2, <3>3
 <2>2. IsFiniteSet(UpTo(e)) /\ Cardinality(UpTo(e)) \in Nat BY <1>1
 <2>3. Cardinality(B) = Cardinality(UpTo(e)) - 1
  <3> HIDE DEF B, UpTo
  <3> QED BY <2>1, <2>2, FS_RemoveElement
 <2>4. Cardinality(B) \in Nat BY <1>1
 <2> QED BY <2>2, <2>3, <2>4
<1>5. k <= Cardinality(B)
 <2>1. k < Cardinality(UpTo(e)) BY <1>3
 <2> HIDE DEF B, UpTo
 <2> QED BY <2>1, <1>4
<1>6. ~ (k < Cardinality(B))
 <2> SUFFICES ASSUME k < Cardinality(B)
   PROVE FALSE
   OBVIOUS
 <2>1. B # {} BY <1>4, FS_EmptySet
 <2>2. B \in SUBSET (0 .. m) OBVIOUS
 <2>3. PICK h \in B : \A x \in B : x <= h
  <3> HIDE DEF B
  <3> QED BY <2>1, <2>2, GreatestMember
 <2>4. UpTo(h) = B
  <3> HIDE DEF T
  <3>1. h \in Nat /\ e \in Nat /\ h < e BY <1>0, <2>3
  <3>2. \A x \in S : x <= h => x < e BY <1>0, <3>1
  <3> QED BY <2>3, <3>2
 <2>5. h \in T /\ h < e BY <2>3, <2>4
 <2> QED BY <2>5, <1>3
<1>7. e \in S /\ Cardinality(B) = k
 <2> HIDE DEF B
 <2> QED BY <1>4, <1>5, <1>6
<1> QED BY <1>7

--------------------
(* Flattening a sequence of sequences *)

\* FlattenSeq takes one part after the other.
LEMMA FlattenSteps ==
  ASSUME NEW S, NEW p \in Seq(Seq(S))
  PROVE
    \E g \in [0 .. Len(p) -> Seq(S)] :
      /\ g[0] = <<>> /\ FlattenSeq(p) = g[Len(p)]
      /\ \A n \in 1 .. Len(p) : g[n] = g[n - 1] \o p[n]
<1> DEFINE N == Len(p)
  V == Seq(S)
  Is(f) == f = [i \in 1 .. N |-> IF i = 1 THEN p[i] ELSE f[i - 1] \o p[i]]
  step == [n \in 1 .. N |-> [v \in V |-> v \o p[n]]]
  base == <<>>
<1>1. N \in Nat /\ base \in V /\ \A n \in 1 .. N : p[n] \in V
  BY LenProperties, EmptySeq, ElementOfSeq
<1>2. step \in [1 .. N -> [V -> V]] BY <1>1, ConcatProperties
<1>3. PICK g \in [0 .. N -> V] : g = [n \in 0 .. N |-> IF n = 0 THEN base ELSE step[n][g[n - 1]]]
 <2> HIDE DEF N, V, base, step
 <2>1. \E g \in [0 .. N -> V] : IsRecursive(g, N, base, step) BY <1>1, <1>2, RecursionUpTo
 <2> QED BY <2>1 DEF IsRecursive
<1>4. g[0] = base BY <1>1, <1>3
<1>5. ASSUME NEW n \in 1 .. N
  PROVE g[n] = g[n - 1] \o p[n] /\ g[n - 1] \in V
 <2>1. n \in 0 .. N /\ n # 0 /\ n - 1 \in 0 .. N BY <1>1
 <2>2. g[n - 1] \in V BY <2>1
 <2>3. g[n] = step[n][g[n - 1]]
  <3> HIDE DEF step, V, base
  <3> QED BY <1>3, <2>1
 <2> HIDE DEF V, base
 <2> QED BY <2>2, <2>3
<1> HIDE DEF step
<1>6. CASE p = <<>>
 <2>1. N = 0 BY <1>6, EmptySeq
 <2>2. FlattenSeq(p) = <<>> BY <1>6, <2>1 DEF FlattenSeq
 <2> QED BY <1>4, <1>5, <2>1, <2>2
<1>7. CASE p # <<>>
 <2>1. N \in Nat \ {0} BY <1>7, EmptySeq
 <2> DEFINE h == [i \in 1 .. N |-> g[i]]
 <2>2. ASSUME NEW i \in 1 .. N
   PROVE h[i] = IF i = 1 THEN p[i] ELSE h[i - 1] \o p[i]
  <3>1. CASE i = 1
   <4>0. 1 \in 1 .. N /\ 1 - 1 = 0 BY <2>1
   <4>1. p[1] \in V /\ g[0] = <<>> /\ g[1] = g[1 - 1] \o p[1]
    <5> HIDE DEF N, V
    <5> QED BY <1>1, <1>4, <1>5, <4>0
   <4>2. <<>> \o p[1] = p[1] BY <4>1, ConcatEmptySeq
   <4> QED BY <3>1, <4>0, <4>1, <4>2
  <3>2. CASE i # 1
   <4>1. i - 1 \in 1 .. N BY <2>1, <3>2
   <4>2. h[i] = g[i] /\ h[i - 1] = g[i - 1] BY <4>1
   <4> HIDE DEF h, N, V, base
   <4> QED BY <1>5, <3>2, <4>2
  <3> QED BY <3>1, <3>2
 <2>3. h = [i \in 1 .. N |-> h[i]] OBVIOUS
 <2>4. Is(h)
  <3> HIDE DEF h
  <3> QED BY <2>2, <2>3
 <2> DEFINE flatten == CHOOSE f : Is(f)
 <2>5. FlattenSeq(p) = flatten[N] BY <2>1 DEF FlattenSeq
 <2>6. Is(flatten) BY <2>4
 <2> HIDE DEF flatten
 <2>7. \A i \in 1 .. N : flatten[i] = h[i]
  <3> DEFINE T == {n \in Nat : n \in 1 .. N => flatten[n] = h[n]}
  <3>1. 0 \in T OBVIOUS
  <3>2. ASSUME NEW n \in Nat, n \in T
    PROVE n + 1 \in T
   <4>1. SUFFICES ASSUME n + 1 \in 1 .. N PROVE flatten[n + 1] = h[n + 1] OBVIOUS
   <4>2. n = 0 \/ (n \in 1 .. N /\ (n + 1) - 1 = n /\ n + 1 # 1) BY <1>1, <4>1
   <4> HIDE DEF h, N
   <4>3. /\ flatten[n + 1] = IF n + 1 = 1 THEN p[n + 1] ELSE flatten[(n + 1) - 1] \o p[n + 1]
         /\ h[n + 1] = IF n + 1 = 1 THEN p[n + 1] ELSE h[(n + 1) - 1] \o p[n + 1]
     BY <2>2, <2>6, <4>1
   <4> QED BY <3>2, <4>2, <4>3
  <3> HIDE DEF T, h, N
  <3>3. Nat \subseteq T BY <3>1, <3>2, EveryNumber
  <3>4. \A i \in 1 .. N : i \in Nat BY <1>1
  <3> QED BY <3>3, <3>4 DEF T
 <2>8. FlattenSeq(p) = g[N] BY <2>1, <2>5, <2>7
 <2> QED BY <1>4, <1>5, <2>8
<1> QED BY <1>6, <1>7

\* Where what is in r, the first n parts made flat, stands in them: r[i] in part at[i].
FlatUpTo(p, n, r, at) ==
  /\ at \in [1 .. Len(r) -> 1 .. n]
  /\ \A i \in 1 .. Len(r) : \E k \in DOMAIN p[at[i]] : r[i] = p[at[i]][k]
  /\ \A m \in 1 .. n : \A k \in DOMAIN p[m] : \E i \in 1 .. Len(r) : at[i] = m /\ r[i] = p[m][k]
  /\ (\A m \in 1 .. Len(p) : Len(p[m]) <= 1) =>
       \A i, j \in 1 .. Len(r) : i < j => at[i] < at[j]

\* What is in the flat sequence is in its parts, in their order.
LEMMA FlattenPlaces ==
  ASSUME NEW S, NEW p \in Seq(Seq(S))
  PROVE FlattenSeq(p) \in Seq(S) /\ \E at : FlatUpTo(p, Len(p), FlattenSeq(p), at)
<1> DEFINE N == Len(p)
<1>1. N \in Nat /\ \A n \in 1 .. N : p[n] \in Seq(S) BY LenProperties, ElementOfSeq
<1>2.
  PICK g \in [0 .. N -> Seq(S)] :
    /\ g[0] = <<>> /\ FlattenSeq(p) = g[N]
    /\ \A n \in 1 .. N : g[n] = g[n - 1] \o p[n]
  BY FlattenSteps
<1> DEFINE T == {n \in Nat : n <= N => \E at : FlatUpTo(p, n, g[n], at)}
<1>3. 0 \in T
 <2>1. Len(g[0]) = 0 BY <1>2, EmptySeq
 <2>2. FlatUpTo(p, 0, g[0], <<>>) BY <2>1 DEF FlatUpTo
 <2> QED BY <2>2
<1>4. ASSUME NEW n \in Nat, n \in T
  PROVE n + 1 \in T
 <2> SUFFICES ASSUME n + 1 <= N
   PROVE \E at : FlatUpTo(p, n + 1, g[n + 1], at)
  <3> QED BY <1>1
 <2>1. PICK at : FlatUpTo(p, n, g[n], at) BY <1>1, <1>4
 <2> DEFINE s == g[n]
   t == p[n + 1]
   r == g[n + 1]
   new == [i \in 1 .. Len(s) + Len(t) |-> IF i <= Len(s) THEN at[i] ELSE n + 1]
 <2>2. s \in Seq(S) /\ t \in Seq(S) /\ r = s \o t
  <3>1. n + 1 \in 1 .. N /\ n \in 0 .. N /\ (n + 1) - 1 = n BY <1>1
  <3>2. g[n + 1] = g[(n + 1) - 1] \o p[n + 1] BY <1>2, <3>1
  <3> QED BY <1>1, <1>2, <3>1, <3>2
 <2>3.
   /\ at \in [1 .. Len(s) -> 1 .. n]
   /\ \A i \in 1 .. Len(s) : \E k \in DOMAIN p[at[i]] : s[i] = p[at[i]][k]
   /\ \A m \in 1 .. n : \A k \in DOMAIN p[m] :
        \E i \in 1 .. Len(s) : at[i] = m /\ s[i] = p[m][k]
   /\ (\A m \in 1 .. N : Len(p[m]) <= 1) =>
        \A i, j \in 1 .. Len(s) : i < j => at[i] < at[j]
   BY <2>1 DEF FlatUpTo
 <2> HIDE DEF s, t, r, T
 <2>4.
   /\ Len(s) \in Nat /\ Len(t) \in Nat /\ Len(r) = Len(s) + Len(t) /\ DOMAIN t = 1 .. Len(t)
   /\ \A i \in 1 .. Len(r) : r[i] = IF i <= Len(s) THEN s[i] ELSE t[i - Len(s)]
   BY <2>2, ConcatProperties, LenProperties
 <2>5. new \in [1 .. Len(r) -> 1 .. n + 1] BY <2>3, <2>4
 <2>6. \A i \in 1 .. Len(s) : i \in 1 .. Len(r) /\ new[i] = at[i] /\ r[i] = s[i] BY <2>4
 <2>7.
   \A i \in 1 .. Len(r) : i \notin 1 .. Len(s) =>
     /\ new[i] = n + 1 /\ i - Len(s) \in DOMAIN t /\ r[i] = t[i - Len(s)]
   BY <2>4
 <2> HIDE DEF new
 <2>8. \A i \in 1 .. Len(r) : \E k \in DOMAIN p[new[i]] : r[i] = p[new[i]][k]
  <3> SUFFICES ASSUME NEW i \in 1 .. Len(r)
    PROVE \E k \in DOMAIN p[new[i]] : r[i] = p[new[i]][k]
    OBVIOUS
  <3>1. CASE i \in 1 .. Len(s)
   <4>1. PICK k \in DOMAIN p[at[i]] : s[i] = p[at[i]][k] BY <2>3, <3>1
   <4>2. new[i] = at[i] /\ r[i] = s[i] BY <2>6, <3>1
   <4> QED BY <4>1, <4>2
  <3>2. CASE i \notin 1 .. Len(s) BY <2>7, <3>2 DEF t
  <3> QED BY <3>1, <3>2
 <2>9.
   \A m \in 1 .. n + 1 : \A k \in DOMAIN p[m] :
     \E i \in 1 .. Len(r) : new[i] = m /\ r[i] = p[m][k]
  <3> SUFFICES ASSUME NEW m \in 1 .. n + 1, NEW k \in DOMAIN p[m]
    PROVE \E i \in 1 .. Len(r) : new[i] = m /\ r[i] = p[m][k]
    OBVIOUS
  <3>1. CASE m \in 1 .. n
   <4>1. PICK i \in 1 .. Len(s) : at[i] = m /\ s[i] = p[m][k] BY <2>3, <3>1
   <4> QED BY <2>6, <4>1
  <3>2. CASE m \notin 1 .. n
   <4>1. m = n + 1 /\ k \in 1 .. Len(t) BY <2>4, <3>2 DEF t
   <4>2. Len(s) + k \in 1 .. Len(r) /\ Len(s) + k \notin 1 .. Len(s) /\ (Len(s) + k) - Len(s) = k
     BY <2>4, <4>1
   <4>3. new[Len(s) + k] = n + 1 /\ r[Len(s) + k] = t[(Len(s) + k) - Len(s)] BY <2>7, <4>2
   <4> QED BY <4>1, <4>2, <4>3 DEF t
  <3> QED BY <3>1, <3>2
 <2>10. ASSUME \A m \in 1 .. N : Len(p[m]) <= 1,
     NEW i \in 1 .. Len(r), NEW j \in 1 .. Len(r), i < j
   PROVE new[i] < new[j]
  <3>1. n + 1 \in 1 .. N BY <1>1
  <3>2. Len(t) <= 1 BY <2>10, <3>1 DEF t
  <3>3. i \in 1 .. Len(s) BY <2>4, <2>10, <3>2
  <3>4. CASE j \in 1 .. Len(s) BY <2>3, <2>6, <2>10, <3>3, <3>4
  <3>5. CASE j \notin 1 .. Len(s)
   <4>1. new[i] = at[i] /\ at[i] \in 1 .. n /\ new[j] = n + 1 BY <2>3, <2>6, <2>7, <3>3, <3>5
   <4> QED BY <4>1
  <3> QED BY <3>4, <3>5
 <2>11. FlatUpTo(p, n + 1, r, new) BY <2>5, <2>8, <2>9, <2>10 DEF FlatUpTo
 <2> QED BY <2>11 DEF r
<1> HIDE DEF T
<1>5. Nat \subseteq T BY <1>3, <1>4, EveryNumber
<1>6. \E at : FlatUpTo(p, N, g[N], at)
 <2>1. N \in T /\ N <= N BY <1>1, <1>5
 <2> QED BY <2>1 DEF T
<1>7. FlattenSeq(p) = g[N] /\ g[N] \in Seq(S) BY <1>1, <1>2
<1> QED BY <1>6, <1>7

\* Each value rests only on those at places of a lower rank.
RestsOnLower(step, D, rank, V) ==
  \A i \in D : \A g, h \in [D -> V] :
    (\A j \in D : rank[j] < rank[i] => g[j] = h[j]) => step[i][g] = step[i][h]

\* The function with these values, each reckoned from the function itself.
IsFixed(g, D, step) == \A i \in D : g[i] = step[i][g]

\* What is defined by such a recursion on a set exists.
LEMMA RecursionOn ==
  ASSUME NEW D, NEW R \in Nat, NEW rank \in [D -> 0 .. R], NEW V, NEW some \in V,
    NEW step \in [D -> [[D -> V] -> V]], RestsOnLower(step, D, rank, V)
  PROVE \E g \in [D -> V] : IsFixed(g, D, step)
<1> DEFINE W == [D -> V]
  base == [i \in D |-> some]
  F == [g \in W |-> [i \in D |-> step[i][g]]]
  once == [n \in 1 .. R + 1 |-> F]
<1>1. base \in W /\ F \in [W -> W] /\ once \in [1 .. R + 1 -> [W -> W]]
 <2>1. base \in W OBVIOUS
 <2>2. ASSUME NEW g \in W
   PROVE [i \in D |-> step[i][g]] \in W
   OBVIOUS
 <2>3. F \in [W -> W]
  <3> HIDE DEF W
  <3> QED BY <2>2
 <2> HIDE DEF F, W
 <2> QED BY <2>1, <2>3
<1>2. PICK f \in [0 .. R + 1 -> W] : IsRecursive(f, R + 1, base, once)
 <2>1. R + 1 \in Nat OBVIOUS
 <2> HIDE DEF W, base, once
 <2>2. \E f \in [0 .. R + 1 -> W] : IsRecursive(f, R + 1, base, once)
   BY <1>1, <2>1, RecursionUpTo
 <2> QED BY <2>2
<1>3. ASSUME NEW n \in 0 .. R, NEW i \in D
  PROVE f[n] \in W /\ f[n + 1][i] = step[i][f[n]]
 <2>1.
   /\ n + 1 \in 0 .. R + 1 /\ n + 1 # 0 /\ (n + 1) - 1 = n
   /\ n \in 0 .. R + 1 /\ n + 1 \in 1 .. R + 1
   OBVIOUS
 <2>2. f[n + 1] = once[n + 1][f[n]]
  <3> HIDE DEF base, once
  <3> QED BY <1>2, <2>1 DEF IsRecursive
 <2>3. f[n] \in W
  <3> HIDE DEF W
  <3> QED BY <2>1
 <2>4. f[n + 1] = F[f[n]]
  <3> HIDE DEF F
  <3> QED BY <2>1, <2>2
 <2>5. F[f[n]] = [k \in D |-> step[k][f[n]]]
  <3> HIDE DEF W
  <3> QED BY <2>3
 <2> QED BY <2>3, <2>4, <2>5
<1> DEFINE T == {n \in Nat : n <= R + 1 => \A i \in D : rank[i] < n => f[n][i] = step[i][f[n]]}
<1> HIDE DEF W, base, F, once
<1>4. 0 \in T OBVIOUS
<1>5. ASSUME NEW n \in Nat, n \in T
  PROVE n + 1 \in T
 <2> SUFFICES ASSUME n + 1 <= R + 1, NEW i \in D, rank[i] < n + 1
   PROVE f[n + 1][i] = step[i][f[n + 1]]
   OBVIOUS
 <2>1. n \in 0 .. R /\ n + 1 \in 0 .. R + 1 OBVIOUS
 <2>2. f[n] \in W /\ f[n + 1] \in W /\ f[n + 1][i] = step[i][f[n]] BY <1>3, <2>1
 <2>3. ASSUME NEW j \in D, rank[j] < rank[i]
   PROVE f[n][j] = f[n + 1][j]
  <3>1. rank[j] < n
   <4>1. rank[j] \in 0 .. R /\ rank[i] \in 0 .. R OBVIOUS
   <4> QED BY <2>3, <4>1
  <3>2. f[n][j] = step[j][f[n]] BY <1>5, <2>1, <3>1
  <3> QED BY <1>3, <2>1, <3>2
 <2>4. step[i][f[n]] = step[i][f[n + 1]] BY <2>2, <2>3 DEF W, RestsOnLower
 <2> QED BY <2>2, <2>4
<1> HIDE DEF T
<1>6. Nat \subseteq T BY <1>4, <1>5, EveryNumber
<1>7. \A i \in D : f[R + 1][i] = step[i][f[R + 1]]
 <2>1. R + 1 \in T BY <1>6
 <2> QED BY <2>1 DEF T
<1>8. f[R + 1] \in W OBVIOUS
<1> QED BY <1>7, <1>8 DEF W, IsFixed



\* Two sequences made flat one after the other.
LEMMA FlattenConcat ==
  ASSUME NEW S, NEW p \in Seq(Seq(S)), NEW q \in Seq(Seq(S))
  PROVE FlattenSeq(p \o q) = FlattenSeq(p) \o FlattenSeq(q)
<1> DEFINE P == Len(p)
  Q == Len(q)
  r == p \o q
<1>0. ASSUME NEW x \in Seq(S), NEW y \in Seq(S), NEW z \in Seq(S)
  PROVE (x \o y) \o z = x \o (y \o z)
  BY ConcatAssociative
<1>1.
  /\ P \in Nat /\ Q \in Nat /\ r \in Seq(Seq(S)) /\ Len(r) = P + Q
  /\ \A i \in 1 .. P + Q : r[i] = IF i <= P THEN p[i] ELSE q[i - P]
  BY ConcatProperties, LenProperties
<1>2.
  PICK f \in [0 .. P -> Seq(S)] :
    f[0] = <<>> /\ FlattenSeq(p) = f[P] /\ \A n \in 1 .. P : f[n] = f[n - 1] \o p[n]
  BY FlattenSteps
<1>3.
  PICK g \in [0 .. Q -> Seq(S)] :
    g[0] = <<>> /\ FlattenSeq(q) = g[Q] /\ \A n \in 1 .. Q : g[n] = g[n - 1] \o q[n]
  BY FlattenSteps
<1> HIDE DEF r
<1>4.
  PICK h \in [0 .. Len(r) -> Seq(S)] :
    h[0] = <<>> /\ FlattenSeq(r) = h[Len(r)] /\ \A n \in 1 .. Len(r) : h[n] = h[n - 1] \o r[n]
  BY <1>1, FlattenSteps
<1> HIDE DEF P, Q
<1>5. h[P] = f[P]
 <2> DEFINE T == {n \in Nat : n <= P => h[n] = f[n]}
 <2>1. 0 \in T BY <1>1, <1>2, <1>4
 <2>2. ASSUME NEW n \in Nat, n \in T
   PROVE n + 1 \in T
  <3> SUFFICES ASSUME n + 1 <= P
    PROVE h[n + 1] = f[n + 1]
    OBVIOUS
  <3>1. n + 1 \in 1 .. P /\ n + 1 \in 1 .. P + Q /\ (n + 1) - 1 = n /\ n <= P BY <1>1
  <3>2. h[n + 1] = h[n] \o p[n + 1] /\ f[n + 1] = f[n] \o p[n + 1] BY <1>1, <1>2, <1>4, <3>1
  <3> QED BY <2>2, <3>1, <3>2
 <2> HIDE DEF T
 <2>3. Nat \subseteq T BY <2>1, <2>2, EveryNumber
 <2>4. P \in T /\ P <= P BY <1>1, <2>3
 <2> QED BY <2>4 DEF T
<1>6. h[P + Q] = f[P] \o g[Q]
 <2> DEFINE T == {n \in Nat : n <= Q => h[P + n] = f[P] \o g[n]}
 <2>0. f[P] \in Seq(S) /\ \A n \in 0 .. Q : g[n] \in Seq(S) BY <1>1
 <2>1. 0 \in T
  <3>1. P + 0 = P /\ f[P] \o <<>> = f[P] BY <1>1, <2>0, ConcatEmptySeq
  <3>2. h[P + 0] = f[P] \o g[0] BY <1>3, <1>5, <3>1
  <3> QED BY <3>2
 <2>2. ASSUME NEW n \in Nat, n \in T
   PROVE n + 1 \in T
  <3> SUFFICES ASSUME n + 1 <= Q
    PROVE h[P + (n + 1)] = f[P] \o g[n + 1]
   <4>1. n + 1 \in Nat OBVIOUS
   <4> QED BY <4>1, Zenon
  <3>1.
    /\ P + (n + 1) \in 1 .. P + Q /\ n + 1 \in 1 .. Q /\ n \in 0 .. Q /\ n <= Q
    /\ (P + (n + 1)) - 1 = P + n /\ ~ (P + (n + 1) <= P) /\ (P + (n + 1)) - P = n + 1
    /\ (n + 1) - 1 = n
    BY <1>1
  <3>2. r[P + (n + 1)] = q[n + 1] BY <1>1, <3>1
  <3>3. h[P + (n + 1)] = h[P + n] \o q[n + 1] BY <1>1, <1>4, <3>1, <3>2
  <3>4. h[P + n] = f[P] \o g[n] BY <2>2, <3>1
  <3>5. g[n + 1] = g[n] \o q[n + 1] BY <1>3, <3>1
  <3>6. q[n + 1] \in Seq(S) /\ g[n] \in Seq(S) BY <2>0, <3>1, ElementOfSeq DEF Q
  <3>7. (f[P] \o g[n]) \o q[n + 1] = f[P] \o (g[n] \o q[n + 1]) BY <1>0, <2>0, <3>6, Zenon
  <3> QED BY <3>3, <3>4, <3>5, <3>7
 <2> HIDE DEF T
 <2>3. Nat \subseteq T BY <2>1, <2>2, EveryNumber
 <2>4. Q \in T /\ Q <= Q BY <1>1, <2>3
 <2> QED BY <2>4 DEF T
<1> QED BY <1>1, <1>2, <1>3, <1>4, <1>6 DEF r

\* What each member of a sequence is worth, one after the other.
FlatImage(h, s) == FlattenSeq([i \in DOMAIN s |-> h[s[i]]])

\* What is kept of each member of S is a sequence over V.
Keeps(h, S, V) == h \in [S -> Seq(V)]

\* The same, with the type of what a sequence is worth.
LEMMA FlatImages ==
  ASSUME NEW S, NEW V, NEW h, Keeps(h, S, V), NEW s \in Seq(S), NEW t \in Seq(S)
  PROVE
    /\ FlatImage(h, s) \in Seq(V)
    /\ FlatImage(h, s \o t) = FlatImage(h, s) \o FlatImage(h, t)
<1>0. h \in [S -> Seq(V)] BY DEF Keeps
<1> DEFINE M(w) == [i \in DOMAIN w |-> h[w[i]]]
<1>1. ASSUME NEW w \in Seq(S)
  PROVE
    /\ M(w) \in Seq(Seq(V)) /\ Len(M(w)) = Len(w) /\ Len(w) \in Nat
    /\ DOMAIN w = 1 .. Len(w)
 <2>1. Len(w) \in Nat /\ DOMAIN w = 1 .. Len(w) /\ \A i \in DOMAIN w : w[i] \in S BY Indices
 <2>2. M(w) \in [1 .. Len(w) -> Seq(V)] BY <1>0, <2>1
 <2> HIDE DEF M
 <2> QED BY <2>1, <2>2, FromFunction
<1>2. M(s \o t) = M(s) \o M(t)
 <2>0.
   /\ s \o t \in Seq(S) /\ Len(s \o t) = Len(s) + Len(t)
   /\ \A i \in 1 .. Len(s) + Len(t) : (s \o t)[i] = IF i <= Len(s) THEN s[i] ELSE t[i - Len(s)]
   BY ConcatProperties
 <2> DEFINE a == M(s)
   b == M(t)
   c == M(s \o t)
 <2>1.
   /\ a \in Seq(Seq(V)) /\ Len(a) = Len(s) /\ Len(s) \in Nat /\ DOMAIN s = 1 .. Len(s)
   /\ b \in Seq(Seq(V)) /\ Len(b) = Len(t) /\ Len(t) \in Nat /\ DOMAIN t = 1 .. Len(t)
   /\ c \in Seq(Seq(V)) /\ Len(c) = Len(s) + Len(t)
   /\ DOMAIN (s \o t) = 1 .. Len(s) + Len(t)
  <3> HIDE DEF M
  <3> QED BY <1>1, <2>0
 <2>2.
   /\ a \o b \in Seq(Seq(V)) /\ Len(a \o b) = Len(s) + Len(t)
   /\ \A i \in 1 .. Len(s) + Len(t) : (a \o b)[i] = IF i <= Len(s) THEN a[i] ELSE b[i - Len(s)]
  <3> HIDE DEF a, b
  <3>1.
    /\ a \o b \in Seq(Seq(V)) /\ Len(a \o b) = Len(a) + Len(b)
    /\ \A i \in 1 .. Len(a) + Len(b) :
         (a \o b)[i] = IF i <= Len(a) THEN a[i] ELSE b[i - Len(a)]
   <4>1.
     \A x, y \in Seq(Seq(V)) :
       /\ x \o y \in Seq(Seq(V)) /\ Len(x \o y) = Len(x) + Len(y)
       /\ \A i \in 1 .. Len(x) + Len(y) :
            (x \o y)[i] = IF i <= Len(x) THEN x[i] ELSE y[i - Len(x)]
     BY ConcatProperties
   <4> QED BY <2>1, <4>1, Zenon
  <3> QED BY <2>1, <3>1
 <2>3. ASSUME NEW i \in 1 .. Len(s) + Len(t)
   PROVE c[i] = (a \o b)[i]
  <3>0. c[i] = h[(s \o t)[i]] BY <2>1
  <3>1. CASE i <= Len(s)
   <4>1. i \in 1 .. Len(s) BY <2>1, <3>1
   <4>2. a[i] = h[s[i]] BY <2>1, <4>1
   <4> HIDE DEF a, b, c
   <4> QED BY <2>0, <2>2, <3>0, <3>1, <4>2
  <3>2. CASE ~ (i <= Len(s))
   <4>1. i - Len(s) \in 1 .. Len(t) BY <2>1, <3>2
   <4>2. b[i - Len(s)] = h[t[i - Len(s)]] BY <2>1, <4>1
   <4> HIDE DEF a, b, c
   <4> QED BY <2>0, <2>2, <3>0, <3>2, <4>2
  <3> QED BY <3>1, <3>2
 <2> HIDE DEF a, b, c
 <2>4. c = a \o b BY <2>1, <2>2, <2>3, SeqEqual
 <2> QED BY <2>4 DEF a, b, c
<1>3. ASSUME NEW p \in Seq(Seq(V))
  PROVE FlattenSeq(p) \in Seq(V)
 <2>1. PICK g \in [0 .. Len(p) -> Seq(V)] : FlattenSeq(p) = g[Len(p)] BY FlattenSteps
 <2>2. Len(p) \in 0 .. Len(p) BY LenProperties
 <2> QED BY <2>1, <2>2
<1>4.
  /\ FlatImage(h, s) = FlattenSeq(M(s)) /\ FlatImage(h, t) = FlattenSeq(M(t))
  /\ FlatImage(h, s \o t) = FlattenSeq(M(s \o t))
  BY DEF FlatImage
<1>5. M(s) \in Seq(Seq(V)) /\ M(t) \in Seq(Seq(V))
 <2> HIDE DEF M
 <2> QED BY <1>1
<1> DEFINE a == M(s)
  b == M(t)
<1> HIDE DEF M, a, b
<1>6. a \in Seq(Seq(V)) /\ b \in Seq(Seq(V)) BY <1>5 DEF a, b
<1>7. FlattenSeq(a \o b) = FlattenSeq(a) \o FlattenSeq(b) BY <1>6, FlattenConcat
<1>8. FlattenSeq(a) \in Seq(V) BY <1>3, <1>6
<1> QED BY <1>2, <1>4, <1>7, <1>8 DEF a, b

\* What two sequences are worth, one after the other.
LEMMA FlatImageConcat ==
  ASSUME NEW S, NEW V, NEW h, Keeps(h, S, V), NEW s \in Seq(S), NEW t \in Seq(S)
  PROVE FlatImage(h, s \o t) = FlatImage(h, s) \o FlatImage(h, t)
BY FlatImages

\* What one member is worth.
LEMMA FlatImageOne ==
  ASSUME NEW S, NEW V, NEW h \in [S -> Seq(V)], NEW e \in S
  PROVE FlatImage(h, <<e>>) = h[e]
<1> DEFINE p == <<h[e]>>
<1>1. FlatImage(h, <<e>>) = FlattenSeq(p)
 <2>1. [i \in DOMAIN <<e>> |-> h[<<e>>[i]]] = p OBVIOUS
 <2> QED BY <2>1 DEF FlatImage
<1>2. p \in Seq(Seq(V)) /\ Len(p) = 1 /\ p[1] = h[e] /\ h[e] \in Seq(V) OBVIOUS
<1> HIDE DEF p
<1>3.
  PICK g \in [0 .. Len(p) -> Seq(V)] :
    /\ g[0] = <<>> /\ FlattenSeq(p) = g[Len(p)]
    /\ \A n \in 1 .. Len(p) : g[n] = g[n - 1] \o p[n]
  BY <1>2, FlattenSteps
<1>4. FlattenSeq(p) = <<>> \o p[1]
 <2>1. 1 \in 1 .. Len(p) /\ 1 - 1 = 0 BY <1>2
 <2>2. g[1] = g[0] \o p[1] BY <1>3, <2>1
 <2> QED BY <1>2, <1>3, <2>2
<1> QED BY <1>1, <1>2, <1>4, ConcatEmptySeq

\* The function with these values from the last of N steps to the first.
IsRecursiveDown(g, N, base, step) ==
  g[N + 1] = base /\ \A k \in 1 .. N : g[k] = step[k][g[k + 1]]

\* What is defined from the last step to the first exists.
LEMMA RecursionDown ==
  ASSUME NEW V, NEW N \in Nat, NEW base \in V, NEW step \in [1 .. N -> [V -> V]]
  PROVE \E g \in [1 .. N + 1 -> V] : IsRecursiveDown(g, N, base, step)
<1> DEFINE back == [n \in 1 .. N |-> step[N + 1 - n]]
<1>1. back \in [1 .. N -> [V -> V]]
 <2>1. \A n \in 1 .. N : N + 1 - n \in 1 .. N OBVIOUS
 <2> QED BY <2>1
<1>2. \A k \in 1 .. N : N + 1 - k \in 1 .. N /\ N + 1 - (N + 1 - k) = k OBVIOUS
<1>3. \A k \in 1 .. N : back[N + 1 - k] = step[k] BY <1>2
<1> HIDE DEF back
<1>4. PICK h \in [0 .. N -> V] : IsRecursive(h, N, base, back) BY <1>1, RecursionUpTo
<1> DEFINE g == [k \in 1 .. N + 1 |-> h[N + 1 - k]]
<1>5. g \in [1 .. N + 1 -> V]
 <2>1. \A k \in 1 .. N + 1 : N + 1 - k \in 0 .. N OBVIOUS
 <2> QED BY <2>1
<1>6. g[N + 1] = base
 <2>1. 0 \in 0 .. N /\ N + 1 \in 1 .. N + 1 /\ N + 1 - (N + 1) = 0 OBVIOUS
 <2>2. h[0] = base BY <1>4, <2>1 DEF IsRecursive
 <2> QED BY <2>1, <2>2
<1>7. ASSUME NEW k \in 1 .. N
  PROVE g[k] = step[k][g[k + 1]]
 <2>1.
   /\ N + 1 - k \in 0 .. N /\ N + 1 - k # 0 /\ (N + 1 - k) - 1 = N + 1 - (k + 1)
   /\ k \in 1 .. N + 1 /\ k + 1 \in 1 .. N + 1
   OBVIOUS
 <2>2. g[k] = h[N + 1 - k] /\ g[k + 1] = h[N + 1 - (k + 1)] BY <2>1
 <2> HIDE DEF g
 <2>3. h[N + 1 - k] = back[N + 1 - k][h[(N + 1 - k) - 1]] BY <1>4, <2>1 DEF IsRecursive
 <2> QED BY <1>3, <2>1, <2>2, <2>3
<1> HIDE DEF g
<1> QED BY <1>5, <1>6, <1>7 DEF IsRecursiveDown

\* What a pass over N places gives, which goes on from place i at next[i].
IsPass(f, N, M, next, out) ==
  f = [i \in 1 .. M |-> IF i > N THEN <<>> ELSE out[i] \o f[next[i]]]

\* A pass that only goes forward gives some sequence from every place.
LEMMA PassExists ==
  ASSUME NEW V, NEW N \in Nat, NEW M \in Nat, NEW next \in [1 .. N -> 1 .. M],
    \A i \in 1 .. N : i < next[i], NEW out \in [1 .. N -> Seq(V)]
  PROVE \E f \in [1 .. M -> Seq(V)] : IsPass(f, N, M, next, out)
<1> DEFINE D == 1 .. M
  W == Seq(V)
  rank == [i \in D |-> M - i]
  some == <<>>
  step == [i \in D |-> [f \in [D -> W] |->
             IF i > N THEN <<>> ELSE out[i] \o f[next[i]]]]
<1>1. rank \in [D -> 0 .. M] /\ some \in W OBVIOUS
<1>2. ASSUME NEW i \in D, NEW f \in [D -> W]
  PROVE (IF i > N THEN <<>> ELSE out[i] \o f[next[i]]) \in W
 <2>1. CASE i > N BY <2>1
 <2>2. CASE ~ (i > N)
  <3>1. i \in 1 .. N BY <2>2
  <3>2. next[i] \in D /\ out[i] \in Seq(V) BY <3>1
  <3>3. f[next[i]] \in Seq(V) BY <3>2
  <3> QED BY <2>2, <3>2, <3>3, ConcatProperties
 <2> QED BY <2>1, <2>2
<1>3. step \in [D -> [[D -> W] -> W]]
 <2> HIDE DEF D, W
 <2> QED BY <1>2
<1>4. ASSUME NEW i \in D, NEW g \in [D -> W], NEW h \in [D -> W],
    \A j \in D : rank[j] < rank[i] => g[j] = h[j]
  PROVE step[i][g] = step[i][h]
 <2>1. CASE i > N
  <3>1. step[i][g] = <<>> /\ step[i][h] = <<>> BY <2>1
  <3> QED BY <3>1
 <2>2. CASE ~ (i > N)
  <3>1. i \in 1 .. N BY <2>2
  <3>2. next[i] \in D /\ i < next[i] BY <3>1
  <3>3. rank[next[i]] < rank[i] BY <3>2
  <3>4. g[next[i]] = h[next[i]] BY <1>4, <3>2, <3>3
  <3>5. /\ step[i][g] = IF i > N THEN <<>> ELSE out[i] \o g[next[i]]
        /\ step[i][h] = IF i > N THEN <<>> ELSE out[i] \o h[next[i]]
   <4> HIDE DEF D, W
   <4> QED OBVIOUS
  <3> HIDE DEF step
  <3> QED BY <3>4, <3>5
 <2> QED BY <2>1, <2>2
<1> HIDE DEF D, W, rank, some, step
<1>5. PICK f \in [D -> W] : IsFixed(f, D, step)
 <2>1. RestsOnLower(step, D, rank, W) BY <1>4 DEF RestsOnLower
 <2> QED BY <1>1, <1>3, <2>1, RecursionOn
<1>6. \A i \in D : f[i] = IF i > N THEN <<>> ELSE out[i] \o f[next[i]] BY <1>5 DEF step, IsFixed
<1>7. f = [i \in D |-> f[i]] BY <1>5
<1>8. f = [i \in D |-> IF i > N THEN <<>> ELSE out[i] \o f[next[i]]] BY <1>6, <1>7
<1> QED BY <1>5, <1>8 DEF IsPass, D, W

\* Whatever holds at a place when it holds at all later ones holds everywhere.
LEMMA FromTheEnd ==
  ASSUME NEW M \in Nat, NEW T,
    \A i \in 1 .. M : (\A j \in 1 .. M : i < j => j \in T) => i \in T
  PROVE 1 .. M \subseteq T
<1> DEFINE B == {n \in Nat : \A i \in 1 .. M : M - i < n => i \in T}
<1>1. 0 \in B OBVIOUS
<1>2. ASSUME NEW n \in Nat, n \in B
  PROVE n + 1 \in B
 <2> SUFFICES ASSUME NEW i \in 1 .. M, M - i < n + 1
   PROVE i \in T
   OBVIOUS
 <2>1. \A j \in 1 .. M : i < j => j \in T BY <1>2
 <2> QED BY <2>1
<1> HIDE DEF B
<1>3. Nat \subseteq B BY <1>1, <1>2, EveryNumber
<1>4. M \in B BY <1>3
<1> QED BY <1>4 DEF B

\* What a pass gives at each place.
LEMMA PassValues ==
  ASSUME NEW V, NEW N \in Nat, NEW M \in Nat, NEW next \in [1 .. N -> 1 .. M],
    \A i \in 1 .. N : i < next[i], NEW out \in [1 .. N -> Seq(V)],
    NEW f, IsPass(f, N, M, next, out)
  PROVE
    \A i \in 1 .. M : /\ f[i] \in Seq(V)
                      /\ f[i] = IF i > N THEN <<>> ELSE out[i] \o f[next[i]]
<1>1. \A i \in 1 .. M : f[i] = IF i > N THEN <<>> ELSE out[i] \o f[next[i]] BY DEF IsPass
<1> DEFINE T == {i \in 1 .. M : f[i] \in Seq(V)}
<1>2. ASSUME NEW i \in 1 .. M, \A j \in 1 .. M : i < j => j \in T
  PROVE i \in T
 <2>1. CASE i > N
  <3>1. f[i] = <<>> BY <1>1, <2>1
  <3> QED BY <3>1, EmptySeq
 <2>2. CASE ~ (i > N)
  <3>1. i \in 1 .. N BY <2>2
  <3>2. next[i] \in 1 .. M /\ i < next[i] /\ out[i] \in Seq(V) BY <3>1
  <3>3. f[next[i]] \in Seq(V) BY <1>2, <3>2
  <3>4. out[i] \o f[next[i]] \in Seq(V) BY <3>2, <3>3, ConcatProperties
  <3> QED BY <1>1, <2>2, <3>4
 <2> QED BY <2>1, <2>2
<1> HIDE DEF T
<1>3. 1 .. M \subseteq T BY <1>2, FromTheEnd
<1> QED BY <1>1, <1>3 DEF T

\* Three texts one after the other.
Associates(s, t, u) == (s \o t) \o u = s \o (t \o u)

\* One text after another, and a third one after both.
LEMMA ConcatAssociates ==
  ASSUME NEW S, NEW s \in Seq(S), NEW t \in Seq(S), NEW u \in Seq(S)
  PROVE Associates(s, t, u)
<1>1. (s \o t) \o u = s \o (t \o u) BY ConcatAssociative
<1> QED BY <1>1 DEF Associates

\* The greater of two numbers.
LEMMA GreaterOfTwo ==
  ASSUME NEW a \in Nat, NEW b \in Nat
  PROVE Max({a, b}) = IF a >= b THEN a ELSE b
<1>1. Max({a, b}) = CHOOSE x \in {a, b} : \A y \in {a, b} : x >= y BY DEF Max
<1>2. \E x \in {a, b} : \A y \in {a, b} : x >= y OBVIOUS
<1>3. Max({a, b}) \in {a, b} /\ \A y \in {a, b} : Max({a, b}) >= y BY <1>1, <1>2
<1> QED BY <1>3

\* The cells of a grid with a row and a column behind the last ones.
Grid(M, N) == (1 .. M + 1) \X (1 .. N + 1)

\* Whatever holds in a cell when it holds below, beside and beyond it holds in all.
LEMMA GridInduction ==
  ASSUME NEW M \in Nat, NEW N \in Nat, NEW T,
    \A i \in 1 .. M + 1, j \in 1 .. N + 1 :
      /\ i <= M => <<i + 1, j>> \in T
      /\ j <= N => <<i, j + 1>> \in T
      /\ i <= M /\ j <= N => <<i + 1, j + 1>> \in T
      => <<i, j>> \in T
  PROVE \A i \in 1 .. M + 1, j \in 1 .. N + 1 : <<i, j>> \in T
<1> DEFINE A == {i \in 1 .. M + 1 : \A j \in 1 .. N + 1 : <<i, j>> \in T}
<1>1. ASSUME NEW i \in 1 .. M + 1, \A k \in 1 .. M + 1 : i < k => k \in A
  PROVE i \in A
 <2> DEFINE B == {j \in 1 .. N + 1 : <<i, j>> \in T}
 <2>1. ASSUME NEW j \in 1 .. N + 1, \A k \in 1 .. N + 1 : j < k => k \in B
   PROVE j \in B
  <3>1. ASSUME i <= M
    PROVE \A k \in 1 .. N + 1 : <<i + 1, k>> \in T
   <4>1. i + 1 \in 1 .. M + 1 /\ i < i + 1 BY <3>1
   <4> QED BY <1>1, <4>1
  <3>2. j <= N => j + 1 \in 1 .. N + 1 /\ <<i, j + 1>> \in T BY <2>1
  <3>3. <<i, j>> \in T BY <3>1, <3>2
  <3> QED BY <3>3
 <2> HIDE DEF B
 <2>2. 1 .. N + 1 \subseteq B
  <3>1. N + 1 \in Nat OBVIOUS
  <3> QED BY <2>1, <3>1, FromTheEnd
 <2> QED BY <2>2 DEF B
<1> HIDE DEF A
<1>2. 1 .. M + 1 \subseteq A
 <2>1. M + 1 \in Nat OBVIOUS
 <2> QED BY <1>1, <2>1, FromTheEnd
<1> QED BY <1>2 DEF A

\* What a grid of values has below, beside and beyond a cell.
Around(f, M, N, some, i, j) ==
  <<IF i <= M THEN f[<<i + 1, j>>] ELSE some,
    IF j <= N THEN f[<<i, j + 1>>] ELSE some,
    IF i <= M /\ j <= N THEN f[<<i + 1, j + 1>>] ELSE some>>

\* What is reckoned in each cell from three values.
IsGridStep(out, M, N, V) == out \in [Grid(M, N) -> [V \X V \X V -> V]]

\* The values reckoned in the cells, each from those below, beside and beyond it.
IsGrid(f, M, N, V, some, out) ==
  /\ f \in [Grid(M, N) -> V]
  /\ \A i \in 1 .. M + 1, j \in 1 .. N + 1 :
       f[<<i, j>>] = out[<<i, j>>][Around(f, M, N, some, i, j)]

\* What is reckoned in each cell from what is below, beside and beyond it exists.
LEMMA GridRecursion ==
  ASSUME NEW M \in Nat, NEW N \in Nat, NEW V, NEW some \in V,
    NEW out, IsGridStep(out, M, N, V)
  PROVE \E f : IsGrid(f, M, N, V, some, out)
<1> DEFINE D == Grid(M, N)
  rank == [c \in D |-> (M + 1 - c[1]) + (N + 1 - c[2])]
  around(f, c) == Around(f, M, N, some, c[1], c[2])
  step == [c \in D |-> [f \in [D -> V] |-> out[c][around(f, c)]]]
<1>0. out \in [Grid(M, N) -> [V \X V \X V -> V]] BY DEF IsGridStep
<1>1.
  /\ \A c \in D : c[1] \in 1 .. M + 1 /\ c[2] \in 1 .. N + 1 /\ c = <<c[1], c[2]>>
  /\ \A i \in 1 .. M + 1, j \in 1 .. N + 1 : <<i, j>> \in D
  BY DEF Grid
<1>2. rank \in [D -> 0 .. M + N] /\ M + N \in Nat
 <2>1. \A c \in D : (M + 1 - c[1]) + (N + 1 - c[2]) \in 0 .. M + N BY <1>1
 <2> HIDE DEF D
 <2> QED BY <2>1
<1>3. ASSUME NEW i \in 1 .. M + 1, NEW j \in 1 .. N + 1
  PROVE
    /\ i <= M => /\ <<i + 1, j>> \in D
                 /\ rank[<<i + 1, j>>] < rank[<<i, j>>]
    /\ j <= N => /\ <<i, j + 1>> \in D
                 /\ rank[<<i, j + 1>>] < rank[<<i, j>>]
    /\ i <= M /\ j <= N => /\ <<i + 1, j + 1>> \in D
                           /\ rank[<<i + 1, j + 1>>] < rank[<<i, j>>]
 <2>1.
   \A a \in 1 .. M + 1, b \in 1 .. N + 1 :
     <<a, b>> \in D /\ rank[<<a, b>>] = (M + 1 - a) + (N + 1 - b)
   BY <1>1
 <2> HIDE DEF rank, D
 <2>2.
   /\ i <= M => i + 1 \in 1 .. M + 1
   /\ j <= N => j + 1 \in 1 .. N + 1
   OBVIOUS
 <2> QED BY <2>1, <2>2
<1>4. ASSUME NEW c \in D, NEW f \in [D -> V]
  PROVE around(f, c) \in V \X V \X V
 <2> DEFINE i == c[1] j == c[2]
 <2>1. i \in 1 .. M + 1 /\ j \in 1 .. N + 1 BY <1>1
 <2> HIDE DEF i, j
 <2>2.
   /\ i <= M => f[<<i + 1, j>>] \in V
   /\ j <= N => f[<<i, j + 1>>] \in V
   /\ i <= M /\ j <= N => f[<<i + 1, j + 1>>] \in V
   BY <1>3, <2>1
 <2>3. Around(f, M, N, some, i, j) \in V \X V \X V BY <2>2 DEF Around
 <2> QED BY <2>3 DEF i, j
<1>5. step \in [D -> [[D -> V] -> V]]
 <2>1. \A c \in D : \A f \in [D -> V] : out[c][around(f, c)] \in V
  <3> HIDE DEF around
  <3> QED BY <1>0, <1>4
 <2> HIDE DEF D, around
 <2> QED BY <2>1
<1>6. RestsOnLower(step, D, rank, V)
 <2> SUFFICES ASSUME NEW c \in D, NEW g \in [D -> V], NEW h \in [D -> V],
     \A d \in D : rank[d] < rank[c] => g[d] = h[d]
   PROVE step[c][g] = step[c][h]
   BY DEF RestsOnLower
 <2> DEFINE i == c[1] j == c[2]
 <2>1. i \in 1 .. M + 1 /\ j \in 1 .. N + 1 /\ c = <<i, j>> BY <1>1
 <2> HIDE DEF i, j, rank
 <2>2.
   /\ i <= M => g[<<i + 1, j>>] = h[<<i + 1, j>>]
   /\ j <= N => g[<<i, j + 1>>] = h[<<i, j + 1>>]
   /\ i <= M /\ j <= N => g[<<i + 1, j + 1>>] = h[<<i + 1, j + 1>>]
  <3>1. \A d \in D : rank[d] < rank[<<i, j>>] => g[d] = h[d] BY <2>1
  <3> HIDE DEF D
  <3> QED BY <1>3, <2>1, <3>1
 <2>3. Around(g, M, N, some, i, j) = Around(h, M, N, some, i, j) BY <2>2 DEF Around
 <2>4. around(g, c) = around(h, c) BY <2>3 DEF i, j
 <2> HIDE DEF around, D
 <2> QED BY <2>4
<1> HIDE DEF rank
<1>7. PICK f \in [D -> V] : IsFixed(f, D, step)
 <2> HIDE DEF D, step
 <2> QED BY <1>2, <1>5, <1>6, RecursionOn
<1>8. \A c \in D : f[c] = out[c][around(f, c)]
 <2> HIDE DEF around, D
 <2> QED BY <1>7 DEF IsFixed
<1>9. ASSUME NEW i \in 1 .. M + 1, NEW j \in 1 .. N + 1
  PROVE f[<<i, j>>] = out[<<i, j>>][Around(f, M, N, some, i, j)]
 <2>1. <<i, j>> \in D /\ <<i, j>>[1] = i /\ <<i, j>>[2] = j BY <1>1
 <2> HIDE DEF D
 <2> QED BY <1>8, <2>1
<1> QED BY <1>7, <1>9 DEF IsGrid
====
