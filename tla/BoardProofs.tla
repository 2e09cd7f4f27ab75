------------------------------ MODULE BoardProofs ------------------------------
(***************************************************************************)
(* Proofs about Board, for any tasks, any plans of a message, any sizes of *)
(* a page and of a section, and any number of changes of the board.        *)
(*                                                                         *)
(* Why a read that is not marked is whole: its rows differ, they all match *)
(* as long as no task left (ReadHolds), and there are as many as the total *)
(* that the last page repeated, which is the number of tasks that match.   *)
(* The argument counts and never looks at the order of the board.          *)
(***************************************************************************)
EXTENDS Board, FiniteSetTheorems, SequenceTheorems, TLAPS

\* The reads there are.
Reads == {r \in [offset : Nat, total : 0..Cardinality(Tasks), rows : Seq(Tasks),
                 partial : BOOLEAN, over : BOOLEAN, odd : BOOLEAN] :
            IsInjective(r.rows)}

BoardTyped ==
  /\ board \in SetToSeqs(Tasks)
  /\ status \in [Tasks -> Statuses]
  /\ fresh \subseteq Tasks
  /\ changes \in 0..MaxChanges

ReaderTyped ==
  /\ server \in {"honest", "short"}
  /\ client \in {"configured", "unconfigured"}
  /\ sections \in Seq(DOMAIN Query \cup {"snapshot"})
  /\ read \in Reads
  /\ stayed \subseteq Tasks /\ left \in BOOLEAN

\* While a section is read: what is said to have stayed still matches, and so
\* does every row, unless a task left.
ReadHolds ==
  Reading =>
    /\ sections # <<>> /\ Section \in Paged
    /\ stayed \subseteq Matches(Section)
    /\ ~left => ToSet(read.rows) \subseteq Matches(Section)

\* What may be said of a section.
WellSaid(x) ==
  /\ x.says \in {"nothing", "none", "list", "unavailable"}
  /\ x.says \in {"none", "list"} /\ x.section \in DOMAIN Query /\ ~x.partial /\ ~x.left
     /\ (x.section \in {"completed", "archived"} => server = "honest")
     => x.stayed \subseteq x.rows

Rank(u) == CHOOSE i \in DOMAIN Wanted : Wanted[i] = PriorityOf[u]

Missing(x) == {u \in x.stayed \ ToSet(x.named) : PriorityOf[u] \in ToSet(Wanted)}

BestNamed(x) ==
  x.says \in {"none", "list"} /\ x.section = "backlog" /\ ~x.partial /\ ~x.left =>
    /\ \A u \in Missing(x), v \in ToSet(x.named) : Rank(v) <= Rank(u)
    /\ Missing(x) # {} => Len(x.named) = TopN

ToldHolds == WellSaid(told) /\ BestNamed(told)

\* What a section says of a refusal.
Reason(refusal) == [why |-> refusal.why, cause |-> Cause(refusal)]

RefusedHolds == refused = NoRefusal \/ \E x \in Refusals : refused = Reason(x)

IInv == BoardTyped /\ ReaderTyped /\ ReadHolds /\ ToldHolds /\ RefusedHolds

-----------------------------------------------------------------------------
(* Sequences.                                                             *)

\* A set of naturals that is not empty has a least element.
LEMMA LeastOf ==
  ASSUME NEW S, S \subseteq Nat, S # {}
  PROVE  \E x \in S : \A y \in S : x <= y
<1> DEFINE R == {ss \in Nat \X Nat : ss[1] < ss[2]}
<1>1. IsWellFoundedOn(R, Nat)
  BY NatLessThanWellFounded DEF OpToRel
<1>2. \A x, y \in Nat : <<y, x>> \in R <=> y < x
  OBVIOUS
<1> HIDE DEF R
<1>3. PICK x \in S : \A y \in S : ~(<<y, x>> \in R)
  BY <1>1, WFMin
<1>4. ASSUME NEW y \in S PROVE x <= y
  <2>1. x \in Nat /\ y \in Nat
    OBVIOUS
  <2>2. ~(y < x)
    BY <1>2, <1>3, <2>1
  <2> QED
    BY <2>1, <2>2
<1> QED
  BY <1>4

\* Induction over the numbers up to n.
LEMMA UpTo ==
  ASSUME NEW n \in Nat, NEW T \in SUBSET (0..n), 0 \in T,
         \A k \in 0..n : k # 0 /\ k - 1 \in T => k \in T
  PROVE  T = 0..n
<1> SUFFICES ASSUME (0..n) \ T # {} PROVE FALSE
  OBVIOUS
<1>0. (0..n) \ T \subseteq Nat
  OBVIOUS
<1>1. PICK k \in (0..n) \ T : \A m \in (0..n) \ T : k <= m
  BY <1>0, LeastOf
<1>2. k # 0 /\ k - 1 \in 0..n
  BY <1>1
<1>3. k - 1 \in T
  BY <1>1, <1>2
<1> QED
  BY <1>1, <1>2, <1>3

\* The function that Among takes the elements with.
IsTaken(g, s, set, n) ==
  g = [i \in 0..n |->
        IF i = 0 THEN <<>>
        ELSE IF s[i] \in set THEN Append(g[i - 1], s[i]) ELSE g[i - 1]]

\* It exists, although it is recursive.
LEMMA TakenExists ==
  ASSUME NEW n \in Nat, NEW s, NEW set
  PROVE  \E g : IsTaken(g, s, set, n)
<1> DEFINE T == {k \in 0..n : \E g : IsTaken(g, s, set, k)}
<1>1. 0 \in T
  <2> DEFINE g == [i \in 0..0 |-> <<>>]
  <2>1. IsTaken(g, s, set, 0)
    BY DEF IsTaken
  <2> QED
    BY <2>1
<1>2. ASSUME NEW k \in 0..n, k # 0, k - 1 \in T PROVE k \in T
  <2>1. PICK g : IsTaken(g, s, set, k - 1)
    BY <1>2
  <2> DEFINE h == [i \in 0..k |->
                     IF i = k THEN IF s[k] \in set THEN Append(g[k - 1], s[k]) ELSE g[k - 1]
                              ELSE g[i]]
  <2>2. \A i \in 0..k : i # k => i \in 0..(k - 1) /\ h[i] = g[i]
    OBVIOUS
  <2>3. ASSUME NEW i \in 0..k
        PROVE  h[i] = IF i = 0 THEN <<>>
                      ELSE IF s[i] \in set THEN Append(h[i - 1], s[i]) ELSE h[i - 1]
    <3>1. CASE i = k
      <4>1. k - 1 \in 0..k /\ k - 1 # k
        BY <1>2
      <4>2. h[k - 1] = g[k - 1]
        BY <2>2, <4>1
      <4> QED
        BY <1>2, <3>1, <4>2
    <3>2. CASE i # k
      <4>1. i \in 0..(k - 1) /\ h[i] = g[i]
        BY <2>2, <3>2
      <4>2. g[i] = IF i = 0 THEN <<>>
                   ELSE IF s[i] \in set THEN Append(g[i - 1], s[i]) ELSE g[i - 1]
        BY <2>1, <4>1 DEF IsTaken
      <4>3. i # 0 => i - 1 \in 0..k /\ i - 1 # k
        BY <4>1
      <4>4. i # 0 => h[i - 1] = g[i - 1]
        BY <2>2, <4>3
      <4> QED
        BY <4>1, <4>2, <4>4
    <3> QED
      BY <3>1, <3>2
  <2>4. IsTaken(h, s, set, k)
    BY <2>3 DEF IsTaken
  <2> QED
    BY <2>4
<1> HIDE DEF T
<1>3. T = 0..n
  <2>1. T \in SUBSET (0..n)
    BY DEF T
  <2> QED
    BY <1>1, <1>2, <2>1, UpTo
<1> QED
  BY <1>3 DEF T

\* Among is its last value.
LEMMA AmongIsTaken ==
  ASSUME NEW s, NEW set, Len(s) \in Nat
  PROVE  \E g : IsTaken(g, s, set, Len(s)) /\ Among(s, set) = g[Len(s)]
<1> DEFINE t == CHOOSE g : IsTaken(g, s, set, Len(s))
<1>1. IsTaken(t, s, set, Len(s))
  BY TakenExists
<1>2. Among(s, set) = t[Len(s)]
  BY DEF Among, IsTaken
<1> QED
  BY <1>1, <1>2

\* Among takes from a sequence what is in the set, and nothing twice.
LEMMA AmongProperties ==
  ASSUME NEW S, NEW s \in Seq(S), NEW set
  PROVE  /\ Among(s, set) \in Seq(S)
         /\ ToSet(Among(s, set)) = ToSet(s) \cap set
         /\ Len(Among(s, set)) <= Len(s)
         /\ IsInjective(s) => IsInjective(Among(s, set))
<1>0. Len(s) \in Nat /\ DOMAIN s = 1..Len(s) /\ \A i \in 1..Len(s) : s[i] \in S
  BY LenProperties, ElementOfSeq
<1>1. PICK g : IsTaken(g, s, set, Len(s)) /\ Among(s, set) = g[Len(s)]
  BY <1>0, AmongIsTaken
<1> DEFINE Good(k) == /\ g[k] \in Seq(S) /\ Len(g[k]) <= k
                      /\ ToSet(g[k]) = {s[i] : i \in 1..k} \cap set
                      /\ IsInjective(s) => IsInjective(g[k])
           T == {k \in 0..Len(s) : Good(k)}
<1>2. 0 \in T
  <2>1. g[0] = <<>>
    BY <1>0, <1>1 DEF IsTaken
  <2>2. <<>> \in Seq(S) /\ Len(<<>>) = 0 /\ ToSet(<<>>) = {} /\ IsInjective(<<>>)
    BY DEF ToSet, IsInjective
  <2>3. {s[i] : i \in 1..0} = {}
    OBVIOUS
  <2>4. Good(0)
    BY <2>1, <2>2, <2>3
  <2>5. 0 \in 0..Len(s)
    BY <1>0
  <2> QED
    BY <2>4, <2>5
<1>3. ASSUME NEW k \in 0..Len(s), k # 0, k - 1 \in T PROVE k \in T
  <2>1. /\ g[k] = IF s[k] \in set THEN Append(g[k - 1], s[k]) ELSE g[k - 1]
        /\ k \in 1..Len(s) /\ s[k] \in S
    <3>1. g[k] = IF k = 0 THEN <<>> ELSE IF s[k] \in set THEN Append(g[k - 1], s[k]) ELSE g[k - 1]
      BY ONLY <1>1, k \in 0..Len(s) DEF IsTaken
    <3>2. k \in 1..Len(s)
      BY ONLY <1>0, <1>3, k \in 0..Len(s)
    <3> QED
      BY <1>0, <1>3, <3>1, <3>2
  <2> DEFINE h == g[k - 1]
  <2>2. /\ h \in Seq(S) /\ Len(h) \in Nat /\ Len(h) <= k - 1 /\ DOMAIN h = 1..Len(h)
        /\ ToSet(h) = {s[i] : i \in 1..(k - 1)} \cap set
        /\ IsInjective(s) => IsInjective(h)
    BY <1>3, LenProperties
  <2>3. {s[i] : i \in 1..k} = {s[i] : i \in 1..(k - 1)} \cup {s[k]}
    <3>1. \A i \in 1..k : i = k \/ i \in 1..(k - 1)
      OBVIOUS
    <3>2. \A i \in 1..(k - 1) : i \in 1..k
      BY <2>1
    <3> QED
      BY <2>1, <3>1, <3>2
  <2> HIDE DEF h
  <2>4. CASE s[k] \notin set
    <3>1. g[k] = h
      BY <2>1, <2>4 DEF h
    <3> QED
      BY <2>1, <2>2, <2>3, <2>4, <3>1
  <2>5. CASE s[k] \in set
    <3>1. g[k] = Append(h, s[k])
      BY <2>1, <2>5 DEF h
    <3>2. /\ Append(h, s[k]) \in Seq(S) /\ Len(Append(h, s[k])) = Len(h) + 1
          /\ DOMAIN Append(h, s[k]) = 1..(Len(h) + 1)
          /\ \A i \in 1..Len(h) : Append(h, s[k])[i] = h[i]
          /\ Append(h, s[k])[Len(h) + 1] = s[k]
      BY <2>1, <2>2
    <3>3. ToSet(Append(h, s[k])) = ToSet(h) \cup {s[k]}
      <4>1. \A i \in 1..(Len(h) + 1) : i = Len(h) + 1 \/ i \in 1..Len(h)
        BY <2>2
      <4>2. Len(h) + 1 \in 1..(Len(h) + 1) /\ \A i \in 1..Len(h) : i \in 1..(Len(h) + 1)
        BY <2>2
      <4> QED
        BY <2>2, <3>2, <4>1, <4>2 DEF ToSet
    <3>4. ASSUME IsInjective(s) PROVE IsInjective(Append(h, s[k]))
      <4>1. \A i \in 1..(k - 1) : s[i] # s[k]
        BY <1>0, <2>1, <3>4 DEF IsInjective
      <4>2. s[k] \notin ToSet(h)
        BY <2>2, <4>1
      <4>3. \A i \in 1..Len(h) : h[i] # s[k]
        BY <2>2, <4>2 DEF ToSet
      <4>4. \A i, j \in 1..Len(h) : h[i] = h[j] => i = j
        BY <2>2, <3>4 DEF IsInjective
      <4>5. \A i \in 1..(Len(h) + 1) : i = Len(h) + 1 \/ i \in 1..Len(h)
        BY <2>2
      <4> QED
        BY <3>2, <4>3, <4>4, <4>5 DEF IsInjective
    <3>5. Len(h) + 1 <= k
      BY <2>1, <2>2
    <3> QED
      BY <2>1, <2>2, <2>3, <2>5, <3>1, <3>2, <3>3, <3>4, <3>5
  <2> QED
    BY <2>4, <2>5
<1>4. T \in SUBSET (0..Len(s))
  OBVIOUS
<1> HIDE DEF T
<1>5. T = 0..Len(s)
  BY <1>0, <1>2, <1>3, <1>4, UpTo
<1>6. Len(s) \in T
  BY <1>0, <1>5
<1>7. ToSet(s) = {s[i] : i \in 1..Len(s)}
  BY <1>0 DEF ToSet
<1> QED
  BY <1>1, <1>6, <1>7 DEF T

\* A sequence that holds nothing twice is as long as the set of its elements.
LEMMA InjectiveLen ==
  ASSUME NEW S, NEW s \in Seq(S), IsInjective(s)
  PROVE  IsFiniteSet(ToSet(s)) /\ Cardinality(ToSet(s)) = Len(s)
<1>1. Len(s) \in Nat /\ DOMAIN s = 1..Len(s) /\ s \in [1..Len(s) -> S]
  BY LenProperties
<1>2. IsFiniteSet(1..Len(s)) /\ Cardinality(1..Len(s)) = Len(s)
  BY <1>1, FS_Interval
<1>3. s \in Bijection(1..Len(s), ToSet(s))
  BY <1>1 DEF Bijection, Injection, Surjection, IsInjective, ToSet
<1> QED
  BY <1>2, <1>3, FS_Bijection DEF ExistsBijection

\* A part of a sequence, from a place on, holds nothing else and nothing twice.
LEMMA PartProperties ==
  ASSUME NEW S, NEW s \in Seq(S), NEW m \in Nat, NEW n \in 0..Len(s)
  PROVE  /\ SubSeq(s, m + 1, n) \in Seq(S)
         /\ Len(SubSeq(s, m + 1, n)) = IF m <= n THEN n - m ELSE 0
         /\ \A i \in 1..Len(SubSeq(s, m + 1, n)) :
              m + i \in 1..Len(s) /\ SubSeq(s, m + 1, n)[i] = s[m + i]
         /\ ToSet(SubSeq(s, m + 1, n)) \subseteq ToSet(s)
         /\ IsInjective(s) => IsInjective(SubSeq(s, m + 1, n))
<1> DEFINE p == SubSeq(s, m + 1, n)
<1>0. Len(s) \in Nat /\ DOMAIN s = 1..Len(s) /\ \A i \in 1..Len(s) : s[i] \in S
  BY LenProperties, ElementOfSeq
<1>1. \A i \in (m + 1)..n : i \in 1..Len(s) /\ s[i] \in S
  BY <1>0
<1>2. /\ p \in Seq(S)
      /\ Len(p) = IF m + 1 <= n THEN n - (m + 1) + 1 ELSE 0
      /\ \A i \in 1..(n - (m + 1) + 1) : p[i] = s[m + 1 + i - 1]
  <2>1. m + 1 \in Int /\ n \in Int
    OBVIOUS
  <2> QED
    BY <1>1, <2>1, SubSeqProperties
<1> HIDE DEF p
<1>3. Len(p) = IF m <= n THEN n - m ELSE 0
  BY <1>0, <1>2
<1>4. ASSUME NEW i \in 1..Len(p)
      PROVE  m + i \in 1..Len(s) /\ p[i] = s[m + i]
  <2>1. i \in 1..(n - (m + 1) + 1) /\ m + 1 + i - 1 = m + i
    BY <1>0, <1>3
  <2>2. m + i \in 1..Len(s)
    BY <1>0, <1>3
  <2> QED
    BY <1>2, <2>1, <2>2
<1>5. DOMAIN p = 1..Len(p) /\ Len(p) \in Nat
  BY <1>2, LenProperties
<1>6. ToSet(p) \subseteq ToSet(s)
  BY <1>0, <1>4, <1>5 DEF ToSet
<1>7. ASSUME IsInjective(s) PROVE IsInjective(p)
  <2>1. ASSUME NEW a \in 1..Len(p), NEW b \in 1..Len(p), p[a] = p[b] PROVE a = b
    <3>1. m + a = m + b
      BY <1>0, <1>4, <1>7, <2>1 DEF IsInjective
    <3> QED
      BY <1>5, <3>1
  <2> QED
    BY <1>5, <2>1 DEF IsInjective
<1> QED
  BY <1>2, <1>3, <1>4, <1>6, <1>7 DEF p

\* The first of a sequence.
LEMMA FirstOfProperties ==
  ASSUME NEW S, NEW s \in Seq(S), NEW n \in Nat
  PROVE  /\ FirstOf(s, n) \in Seq(S)
         /\ Len(FirstOf(s, n)) = IF Len(s) < n THEN Len(s) ELSE n
         /\ \A i \in 1..Len(FirstOf(s, n)) : i \in 1..Len(s) /\ FirstOf(s, n)[i] = s[i]
         /\ ToSet(FirstOf(s, n)) \subseteq ToSet(s)
         /\ IsInjective(s) => IsInjective(FirstOf(s, n))
<1> DEFINE k == IF Len(s) < n THEN Len(s) ELSE n
<1>1. Len(s) \in Nat
  BY LenProperties
<1>2. k \in 0..Len(s) /\ k \in Nat
  BY <1>1
<1>3. FirstOf(s, n) = SubSeq(s, 0 + 1, k)
  BY DEF FirstOf
<1> HIDE DEF k
<1>4. \A i \in Nat : 0 + i = i
  OBVIOUS
<1>5. /\ SubSeq(s, 0 + 1, k) \in Seq(S)
      /\ Len(SubSeq(s, 0 + 1, k)) = IF 0 <= k THEN k - 0 ELSE 0
      /\ \A i \in 1..Len(SubSeq(s, 0 + 1, k)) :
            0 + i \in 1..Len(s) /\ SubSeq(s, 0 + 1, k)[i] = s[0 + i]
      /\ ToSet(SubSeq(s, 0 + 1, k)) \subseteq ToSet(s)
      /\ IsInjective(s) => IsInjective(SubSeq(s, 0 + 1, k))
  BY <1>2, PartProperties
<1>6. Len(FirstOf(s, n)) = k
  BY <1>2, <1>3, <1>5
<1>7. \A i \in 1..k : i \in 1..Len(s) /\ FirstOf(s, n)[i] = s[i]
  BY <1>2, <1>3, <1>4, <1>5
<1> QED
  BY <1>3, <1>5, <1>6, <1>7 DEF k

\* Sequences with nothing in common, one after the other.
LEMMA JoinedProperties ==
  ASSUME NEW S, NEW s \in Seq(S), NEW t \in Seq(S)
  PROVE  /\ s \o t \in Seq(S) /\ Len(s \o t) = Len(s) + Len(t)
         /\ ToSet(s \o t) = ToSet(s) \cup ToSet(t)
         /\ IsInjective(s) /\ IsInjective(t) /\ ToSet(s) \cap ToSet(t) = {}
            => IsInjective(s \o t)
<1> DEFINE c == s \o t
<1>1. /\ Len(s) \in Nat /\ DOMAIN s = 1..Len(s)
      /\ Len(t) \in Nat /\ DOMAIN t = 1..Len(t)
  BY LenProperties
<1>2. /\ c \in Seq(S) /\ Len(c) = Len(s) + Len(t)
      /\ \A i \in 1..Len(s) + Len(t) : c[i] = IF i <= Len(s) THEN s[i] ELSE t[i - Len(s)]
  BY ConcatProperties
<1>3. DOMAIN c = 1..Len(s) + Len(t)
  BY <1>2, LenProperties
<1> HIDE DEF c
<1>4. ASSUME NEW i \in 1..Len(s) + Len(t)
      PROVE  \/ i \in 1..Len(s) /\ c[i] = s[i]
             \/ i - Len(s) \in 1..Len(t) /\ ~(i \in 1..Len(s)) /\ c[i] = t[i - Len(s)]
  <2>1. CASE i <= Len(s)
    BY <1>1, <1>2, <2>1
  <2>2. CASE ~(i <= Len(s))
    <3>1. i - Len(s) \in 1..Len(t) /\ ~(i \in 1..Len(s))
      BY <1>1, <2>2
    <3> QED
      BY <1>2, <2>2, <3>1
  <2> QED
    BY <2>1, <2>2
<1>5. ASSUME NEW i \in 1..Len(s) PROVE i \in 1..Len(s) + Len(t) /\ c[i] = s[i]
  BY <1>1, <1>2
<1>6. ASSUME NEW i \in 1..Len(t)
      PROVE  Len(s) + i \in 1..Len(s) + Len(t) /\ c[Len(s) + i] = t[i]
  <2>1. Len(s) + i \in 1..Len(s) + Len(t) /\ ~(Len(s) + i <= Len(s)) /\ Len(s) + i - Len(s) = i
    BY <1>1
  <2> QED
    BY <1>2, <2>1
<1>7. ToSet(c) = ToSet(s) \cup ToSet(t)
  <2>1. \A x \in ToSet(c) : x \in ToSet(s) \cup ToSet(t)
    BY <1>1, <1>3, <1>4 DEF ToSet
  <2>2. \A x \in ToSet(s) : x \in ToSet(c)
    BY <1>1, <1>3, <1>5 DEF ToSet
  <2>3. \A x \in ToSet(t) : x \in ToSet(c)
    BY <1>1, <1>3, <1>6 DEF ToSet
  <2> QED
    BY <2>1, <2>2, <2>3
<1>8. ASSUME IsInjective(s), IsInjective(t), ToSet(s) \cap ToSet(t) = {} PROVE IsInjective(c)
  <2>1. \A i \in 1..Len(s), j \in 1..Len(t) : s[i] # t[j]
    BY <1>1, <1>8 DEF ToSet
  <2>2. ASSUME NEW i \in 1..Len(s) + Len(t), NEW j \in 1..Len(s) + Len(t), c[i] = c[j]
        PROVE  i = j
    <3>1. CASE i \in 1..Len(s)
      BY <1>1, <1>4, <1>8, <2>1, <2>2, <3>1 DEF IsInjective
    <3>2. CASE i \notin 1..Len(s)
      <4>1. i - Len(s) \in 1..Len(t) /\ c[i] = t[i - Len(s)]
        BY <1>4, <3>2
      <4>2. j \notin 1..Len(s)
        BY <1>5, <2>1, <2>2, <4>1
      <4>3. j - Len(s) \in 1..Len(t) /\ c[j] = t[j - Len(s)]
        BY <1>4, <4>2
      <4>4. i - Len(s) = j - Len(s)
        BY <1>1, <1>8, <2>2, <4>1, <4>3 DEF IsInjective
      <4> QED
        BY <1>1, <4>4
    <3> QED
      BY <3>1, <3>2
  <2> QED
    BY <1>3, <2>2 DEF IsInjective
<1> QED
  BY <1>2, <1>7, <1>8 DEF c

-----------------------------------------------------------------------------
(* The board and its pages.                                                *)

LEMMA TasksCounted == Cardinality(Tasks) \in Nat
  BY TasksAssumption, FS_CardinalityType

\* The board is the tasks in some order, each once.
LEMMA BoardIsOfTasks ==
  ASSUME NEW b
  PROVE  b \in SetToSeqs(Tasks) <=> b \in Seq(Tasks) /\ IsInjective(b) /\ ToSet(b) = Tasks
<1> DEFINE N == Cardinality(Tasks)
<1>1. N \in Nat
  BY TasksCounted
<1>2. ASSUME b \in SetToSeqs(Tasks)
      PROVE  b \in Seq(Tasks) /\ IsInjective(b) /\ ToSet(b) = Tasks
  <2>1. b \in [1..N -> Tasks] /\ \A i, j \in 1..N : i # j => b[i] # b[j]
    BY <1>2 DEF SetToSeqs
  <2>2. b \in Seq(Tasks)
    BY <1>1, <2>1, SeqDef
  <2>3. DOMAIN b = 1..N /\ Len(b) = N
    BY <1>1, <2>1, <2>2, LenProperties
  <2>4. IsInjective(b)
    BY <2>1, <2>3 DEF IsInjective
  <2>5. ToSet(b) \in SUBSET Tasks
    BY <2>1, <2>3 DEF ToSet
  <2>6. Cardinality(ToSet(b)) = N
    BY <2>2, <2>3, <2>4, InjectiveLen
  <2> QED
    BY <2>2, <2>4, <2>5, <2>6, TasksAssumption, FS_Subset
<1>3. ASSUME b \in Seq(Tasks), IsInjective(b), ToSet(b) = Tasks
      PROVE  b \in SetToSeqs(Tasks)
  <2>1. Len(b) = N
    BY <1>3, InjectiveLen
  <2>2. DOMAIN b = 1..N /\ b \in [1..N -> Tasks]
    BY <1>3, <2>1, LenProperties
  <2> QED
    BY <1>3, <2>2 DEF SetToSeqs, IsInjective
<1> QED
  BY <1>2, <1>3

\* What a section asks for is listed: each task that matches, once.
LEMMA ListingProperties ==
  ASSUME BoardTyped, NEW s
  PROVE  /\ Listing(s) \in Seq(Tasks) /\ IsInjective(Listing(s))
         /\ ToSet(Listing(s)) = Matches(s)
         /\ Matches(s) \subseteq Tasks /\ IsFiniteSet(Matches(s))
         /\ Len(Listing(s)) = Cardinality(Matches(s))
         /\ Len(Listing(s)) \in 0..Cardinality(Tasks)
<1>1. board \in Seq(Tasks) /\ IsInjective(board) /\ ToSet(board) = Tasks
  BY BoardIsOfTasks DEF BoardTyped
<1>2. Matches(s) \subseteq Tasks
  BY DEF Matches
<1>3. /\ Listing(s) \in Seq(Tasks) /\ IsInjective(Listing(s))
      /\ ToSet(Listing(s)) = Matches(s)
  <2>1. /\ Among(board, Matches(s)) \in Seq(Tasks) /\ IsInjective(Among(board, Matches(s)))
        /\ ToSet(Among(board, Matches(s))) = ToSet(board) \cap Matches(s)
    BY <1>1, AmongProperties
  <2> QED
    BY <1>1, <1>2, <2>1 DEF Listing
<1>4. IsFiniteSet(Matches(s)) /\ Len(Listing(s)) = Cardinality(Matches(s))
  BY <1>3, InjectiveLen
<1>5. Cardinality(Matches(s)) <= Cardinality(Tasks)
  BY <1>2, TasksAssumption, FS_Subset
<1>6. Len(Listing(s)) \in Nat
  BY <1>3, LenProperties
<1> QED
  BY <1>2, <1>3, <1>4, <1>5, <1>6, TasksCounted

\* A page holds tasks that match, each once; the first page of an honest
\* server is empty only if nothing matches.
LEMMA PagesProperties ==
  ASSUME BoardTyped, NEW s, NEW offset \in Nat, NEW items \in Pages(s, offset)
  PROVE  /\ items \in Seq(Tasks) /\ IsInjective(items)
         /\ ToSet(items) \subseteq Matches(s)
         /\ server = "honest" /\ offset = 0 /\ items = <<>> => Matches(s) = {}
<1> DEFINE all == Listing(s)
           rest == SubSeq(all, offset + 1, Len(all))
           full == FirstOf(rest, PageSize)
<1>0. PageSize \in Nat /\ PageSize # 0
  BY SizesAssumption
<1>1. /\ all \in Seq(Tasks) /\ IsInjective(all) /\ ToSet(all) = Matches(s)
      /\ Len(all) \in Nat /\ Len(all) = Cardinality(Matches(s)) /\ IsFiniteSet(Matches(s))
  BY ListingProperties, LenProperties
<1>2. items \in (IF server = "honest" THEN {full} ELSE {FirstOf(full, n) : n \in 0..Len(full)})
  BY DEF Pages
<1> HIDE DEF all
<1>3. Len(all) \in 0..Len(all)
  BY <1>1
<1>4. /\ rest \in Seq(Tasks) /\ IsInjective(rest) /\ ToSet(rest) \subseteq Matches(s)
      /\ Len(rest) = IF offset <= Len(all) THEN Len(all) - offset ELSE 0
  BY <1>1, <1>3, PartProperties
<1> HIDE DEF rest
<1>5. /\ full \in Seq(Tasks) /\ IsInjective(full) /\ ToSet(full) \subseteq Matches(s)
      /\ Len(full) = IF Len(rest) < PageSize THEN Len(rest) ELSE PageSize
  BY <1>0, <1>4, FirstOfProperties
<1>6. Len(full) \in Nat /\ Len(rest) \in Nat
  BY <1>4, <1>5, LenProperties
<1> HIDE DEF full
<1>7. CASE server = "honest"
  <2>1. items = full
    BY <1>2, <1>7
  <2>2. ASSUME offset = 0, items = <<>> PROVE Matches(s) = {}
    <3>1. Len(full) = 0
      BY <2>1, <2>2
    <3>2. Len(rest) = 0
      BY <1>0, <1>5, <1>6, <3>1
    <3>3. Len(all) = 0
      BY <1>1, <1>4, <2>2, <3>2
    <3> QED
      BY <1>1, <3>3, FS_EmptySet
  <2> QED
    BY <1>5, <2>1, <2>2
<1>8. CASE server # "honest"
  <2>1. PICK n \in 0..Len(full) : items = FirstOf(full, n)
    BY <1>2, <1>8
  <2>2. n \in Nat
    BY <1>6
  <2> QED
    BY <1>5, <1>8, <2>1, <2>2, FirstOfProperties
<1> QED
  BY <1>7, <1>8

-----------------------------------------------------------------------------
(* The reader.                                                             *)

LEMMA FirstPageProperties ==
  ASSUME BoardTyped, NEW s, NEW items \in Pages(s, 0)
  PROVE  LET r == FirstPage(items, Len(Listing(s)))
         IN  r \in Reads /\ ToSet(r.rows) \subseteq Matches(s) /\ r.rows = items
             /\ r.total = Len(Listing(s)) /\ ~r.partial /\ Len(r.rows) <= r.total
<1>1. items \in Seq(Tasks) /\ IsInjective(items) /\ ToSet(items) \subseteq Matches(s)
  BY PagesProperties
<1>2. Len(items) \in Nat /\ Len(Listing(s)) \in 0..Cardinality(Tasks)
  BY <1>1, LenProperties, ListingProperties
<1>3. (Len(items) >= Len(Listing(s))) \in BOOLEAN
  OBVIOUS
<1>4. Len(items) <= Len(Listing(s))
  <2>1. Matches(s) \subseteq Tasks /\ IsFiniteSet(Matches(s)) /\ Len(Listing(s)) = Cardinality(Matches(s))
    BY ListingProperties
  <2>2. Cardinality(ToSet(items)) = Len(items) /\ Cardinality(ToSet(items)) <= Cardinality(Matches(s))
    BY <1>1, <2>1, InjectiveLen, FS_Subset
  <2> QED
    BY <2>1, <2>2
<1> QED
  BY <1>1, <1>2, <1>3, <1>4 DEF FirstPage, Reads

\* A further page adds what is new; only if it repeats the total can the read
\* still be whole.
LEMMA NextPageProperties ==
  ASSUME NEW r \in Reads, NEW items \in Seq(Tasks), IsInjective(items),
         NEW total \in 0..Cardinality(Tasks)
  PROVE  LET q == NextPage(r, items, total)
         IN  /\ q \in Reads /\ q.total = r.total
             /\ ToSet(q.rows) \subseteq ToSet(r.rows) \cup ToSet(items)
             /\ ~q.partial => q.total = total
<1> DEFINE q == NextPage(r, items, total)
           new == Among(items, Tasks \ ToSet(r.rows))
<1>1. /\ r \in [offset : Nat, total : 0..Cardinality(Tasks), rows : Seq(Tasks),
                 partial : BOOLEAN, over : BOOLEAN, odd : BOOLEAN]
      /\ IsInjective(r.rows) /\ r.rows \in Seq(Tasks) /\ r.offset \in Nat
      /\ r.partial \in BOOLEAN /\ r.odd \in BOOLEAN
  BY DEF Reads
<1>2. CASE total # r.total \/ items = <<>>
  <2>1. q = [r EXCEPT !.partial = TRUE, !.over = TRUE]
    BY <1>2 DEF NextPage
  <2>2. /\ q \in [offset : Nat, total : 0..Cardinality(Tasks), rows : Seq(Tasks),
                  partial : BOOLEAN, over : BOOLEAN, odd : BOOLEAN]
        /\ q.rows = r.rows /\ q.total = r.total /\ q.partial = TRUE
    BY <1>1, <2>1
  <2> QED
    BY <1>1, <2>2 DEF Reads
<1>3. CASE ~(total # r.total \/ items = <<>>)
  <2> DEFINE offset == r.offset + Len(items)
             short == Len(items) < PageSize /\ offset < r.total
  <2>1. q = [r EXCEPT !.rows = @ \o new, !.offset = offset,
                      !.partial = @ \/ Len(new) < Len(items) \/ short,
                      !.over = short \/ offset >= r.total]
    BY <1>3 DEF NextPage
  <2>2. new \in Seq(Tasks) /\ IsInjective(new) /\ ToSet(new) = ToSet(items) \cap (Tasks \ ToSet(r.rows))
    BY AmongProperties
  <2>3. offset \in Nat
    BY <1>1, LenProperties
  <2> DEFINE rows == r.rows \o new
  <2>4. ToSet(r.rows) \cap ToSet(new) = {}
    BY <2>2
  <2> HIDE DEF new
  <2>5. rows \in Seq(Tasks) /\ ToSet(rows) = ToSet(r.rows) \cup ToSet(new) /\ IsInjective(rows)
    BY <1>1, <2>2, <2>4, JoinedProperties
  <2> DEFINE partial == r.partial \/ Len(new) < Len(items) \/ short
             over == short \/ offset >= r.total
  <2>6. partial \in BOOLEAN /\ over \in BOOLEAN
    BY <1>1
  <2>7. q = [r EXCEPT !.rows = rows, !.offset = offset, !.partial = partial, !.over = over]
    BY <1>1, <2>1
  <2> HIDE DEF rows, partial, over, offset, short
  <2>8. /\ q \in [offset : Nat, total : 0..Cardinality(Tasks), rows : Seq(Tasks),
                  partial : BOOLEAN, over : BOOLEAN, odd : BOOLEAN]
        /\ q.rows = rows /\ q.total = r.total
    BY <1>1, <2>3, <2>5, <2>6, <2>7
  <2>9. q \in Reads
    BY <2>5, <2>8 DEF Reads
  <2> HIDE DEF q
  <2> QED
    BY <1>3, <2>2, <2>5, <2>8, <2>9 DEF q
<1> QED
  BY <1>2, <1>3

\* A read of as many rows as match, each of which matches, holds them all.
LEMMA WholeRead ==
  ASSUME BoardTyped, NEW s, NEW r \in Reads, ToSet(r.rows) \subseteq Matches(s),
         ~r.partial => r.total = Len(Listing(s)), ~Truncated(r)
  PROVE  ToSet(r.rows) = Matches(s)
<1>1. r.rows \in Seq(Tasks) /\ IsInjective(r.rows)
  BY DEF Reads
<1>2. Len(r.rows) = Len(Listing(s))
  BY DEF Truncated
<1>3. Cardinality(ToSet(r.rows)) = Cardinality(Matches(s)) /\ IsFiniteSet(Matches(s))
  BY <1>1, <1>2, InjectiveLen, ListingProperties
<1> QED
  BY <1>3, FS_Subset

-----------------------------------------------------------------------------
(* The texts.                                                              *)

LEMMA Ranks ==
  /\ DOMAIN Wanted = {1, 2} /\ ToSet(Wanted) = {"critical", "high"}
  /\ \A u : PriorityOf[u] = "critical" => Rank(u) = 1
  /\ \A u : PriorityOf[u] = "high" => Rank(u) = 2
<1>1. DOMAIN Wanted = {1, 2} /\ Wanted[1] = "critical" /\ Wanted[2] = "high"
  <2>1. Wanted \in Seq({"critical", "high"}) /\ Len(Wanted) = 2
    BY DEF Wanted
  <2>2. DOMAIN Wanted = 1..2
    BY <2>1, LenProperties
  <2> QED
    BY <2>2 DEF Wanted
<1>2. ToSet(Wanted) = {"critical", "high"}
  BY <1>1 DEF ToSet
<1>3. ASSUME NEW u, PriorityOf[u] = "critical" PROVE Rank(u) = 1
  BY <1>1, <1>3 DEF Rank
<1>4. ASSUME NEW u, PriorityOf[u] = "high" PROVE Rank(u) = 2
  BY <1>1, <1>4 DEF Rank
<1> QED
  BY <1>1, <1>2, <1>3, <1>4

\* The rows of the wanted priorities, the highest first.
LEMMA RankedProperties ==
  ASSUME NEW rows \in Seq(Tasks)
  PROVE  /\ Ranked(rows) \in Seq(Tasks)
         /\ ToSet(Ranked(rows)) = {u \in ToSet(rows) : PriorityOf[u] \in ToSet(Wanted)}
         /\ \A i, j \in 1..Len(Ranked(rows)) :
              i <= j => Rank(Ranked(rows)[i]) <= Rank(Ranked(rows)[j])
<1> DEFINE a == Among(rows, {t \in Tasks : PriorityOf[t] = "critical"})
           b == Among(rows, {t \in Tasks : PriorityOf[t] = "high"})
           c == a \o b
<1>0. ToSet(rows) \subseteq Tasks
  BY LenProperties, ElementOfSeq DEF ToSet
<1>1. Ranked(rows) = c
  BY DEF Ranked, Wanted
<1>2. /\ a \in Seq(Tasks) /\ ToSet(a) = {u \in ToSet(rows) : PriorityOf[u] = "critical"}
      /\ b \in Seq(Tasks) /\ ToSet(b) = {u \in ToSet(rows) : PriorityOf[u] = "high"}
  <2>1. a \in Seq(Tasks) /\ ToSet(a) = ToSet(rows) \cap {t \in Tasks : PriorityOf[t] = "critical"}
    BY AmongProperties
  <2>2. b \in Seq(Tasks) /\ ToSet(b) = ToSet(rows) \cap {t \in Tasks : PriorityOf[t] = "high"}
    BY AmongProperties
  <2> HIDE DEF a, b
  <2> QED
    BY <1>0, <2>1, <2>2
<1> HIDE DEF a, b
<1>3. /\ Len(a) \in Nat /\ DOMAIN a = 1..Len(a) /\ Len(b) \in Nat /\ DOMAIN b = 1..Len(b)
      /\ c \in Seq(Tasks) /\ Len(c) = Len(a) + Len(b)
      /\ ToSet(c) = ToSet(a) \cup ToSet(b)
      /\ \A i \in 1..Len(a) + Len(b) : c[i] = IF i <= Len(a) THEN a[i] ELSE b[i - Len(a)]
  BY <1>2, LenProperties, JoinedProperties, ConcatProperties
<1>4. \A i \in 1..Len(a) : Rank(a[i]) = 1
  BY <1>2, <1>3, Ranks DEF ToSet
<1>5. \A i \in 1..Len(b) : Rank(b[i]) = 2
  BY <1>2, <1>3, Ranks DEF ToSet
<1> HIDE DEF c
<1>6. ASSUME NEW i \in 1..Len(c), NEW j \in 1..Len(c), i <= j
      PROVE  Rank(c[i]) <= Rank(c[j])
  <2>1. CASE j <= Len(a)
    <3>1. i \in 1..Len(a) /\ j \in 1..Len(a) /\ c[i] = a[i] /\ c[j] = a[j]
      BY <1>3, <1>6, <2>1
    <3> QED
      BY <1>4, <3>1
  <2>2. CASE ~(j <= Len(a))
    <3>1. j - Len(a) \in 1..Len(b) /\ c[j] = b[j - Len(a)]
      BY <1>3, <2>2
    <3>2. Rank(c[j]) = 2
      BY <1>5, <3>1
    <3>3. CASE i <= Len(a)
      <4>1. i \in 1..Len(a) /\ c[i] = a[i]
        BY <1>3, <3>3
      <4>2. Rank(c[i]) = 1
        BY <1>4, <4>1
      <4> QED
        BY <3>2, <4>2
    <3>4. CASE ~(i <= Len(a))
      <4>1. i - Len(a) \in 1..Len(b) /\ c[i] = b[i - Len(a)]
        BY <1>3, <3>4
      <4>2. Rank(c[i]) = 2
        BY <1>5, <4>1
      <4> QED
        BY <3>2, <4>2
    <3> QED
      BY <3>3, <3>4
  <2> QED
    BY <2>1, <2>2
<1>7. ToSet(c) = {u \in ToSet(rows) : PriorityOf[u] \in ToSet(Wanted)}
  BY <1>2, <1>3, Ranks
<1> QED
  BY <1>1, <1>3, <1>6, <1>7

\* The best of all rows are named first.
LEMMA BestFirst ==
  ASSUME NEW rows \in Seq(Tasks), NEW since, since \subseteq ToSet(rows)
  PROVE  LET named == FirstOf(Ranked(rows), TopN)
             missing == {u \in since \ ToSet(named) : PriorityOf[u] \in ToSet(Wanted)}
         IN  /\ \A u \in missing, v \in ToSet(named) : Rank(v) <= Rank(u)
             /\ missing # {} => Len(named) = TopN
<1> DEFINE all == Ranked(rows)
           named == FirstOf(all, TopN)
           missing == {u \in since \ ToSet(named) : PriorityOf[u] \in ToSet(Wanted)}
<1>0. TopN \in Nat
  BY SizesAssumption
<1>1. /\ all \in Seq(Tasks) /\ DOMAIN all = 1..Len(all) /\ Len(all) \in Nat
      /\ ToSet(all) = {u \in ToSet(rows) : PriorityOf[u] \in ToSet(Wanted)}
      /\ \A i, j \in 1..Len(all) : i <= j => Rank(all[i]) <= Rank(all[j])
  BY RankedProperties, LenProperties
<1> HIDE DEF all
<1>2. /\ named \in Seq(Tasks) /\ Len(named) = IF Len(all) < TopN THEN Len(all) ELSE TopN
      /\ \A i \in 1..Len(named) : i \in 1..Len(all) /\ named[i] = all[i]
  BY <1>0, <1>1, FirstOfProperties
<1>3. DOMAIN named = 1..Len(named) /\ Len(named) \in Nat
  BY <1>2, LenProperties
<1> HIDE DEF named
<1>4. ASSUME NEW u \in missing
      PROVE  Len(named) = TopN /\ \E j \in 1..Len(all) : u = all[j] /\ ~(j <= Len(named))
  <2>1. u \in ToSet(all) /\ u \notin ToSet(named)
    BY <1>1
  <2>2. PICK j \in 1..Len(all) : u = all[j]
    BY <1>1, <2>1 DEF ToSet
  <2>3. ~(j <= Len(named))
    <3>1. SUFFICES ASSUME j <= Len(named) PROVE FALSE
      OBVIOUS
    <3>2. j \in 1..Len(named)
      BY <1>3, <3>1
    <3> QED
      BY <1>2, <1>3, <2>1, <2>2, <3>2 DEF ToSet
  <2>4. Len(named) = TopN
    <3>1. Len(named) = IF Len(all) < TopN THEN Len(all) ELSE TopN
      BY <1>2
    <3>2. Len(all) \in Nat
      BY <1>1
    <3> QED
      BY <1>0, <2>3, <3>1, <3>2
  <2> QED
    BY <2>2, <2>3, <2>4
<1>5. ASSUME NEW u \in missing, NEW v \in ToSet(named) PROVE Rank(v) <= Rank(u)
  <2>1. PICK j \in 1..Len(all) : u = all[j] /\ ~(j <= Len(named))
    BY <1>4
  <2>2. PICK i \in 1..Len(named) : v = named[i]
    BY <1>3 DEF ToSet
  <2>3. i \in 1..Len(all) /\ v = all[i] /\ i <= j
    BY <1>2, <1>3, <2>1, <2>2
  <2> QED
    BY <1>1, <2>1, <2>3
<1> QED
  BY <1>4, <1>5 DEF named, all

\* What becomes of the fields of a text.
LEMMA SaidFields ==
  ASSUME NEW s, NEW says, NEW named, NEW rows, NEW total, NEW part \in BOOLEAN,
         NEW since, NEW gone \in BOOLEAN
  PROVE  LET x == [Says(s, says, named, rows, total, part) EXCEPT !.stayed = since, !.left = gone]
         IN  /\ x.section = s /\ x.says = says /\ x.named = named /\ x.rows = ToSet(rows)
             /\ (x.partial <=> part) /\ x.stayed = since /\ (x.left <=> gone)
BY DEF Says, Untold

\* The text of a section, of a read that holds what stayed unless it says so.
LEMMA TextHolds ==
  ASSUME NEW s \in DOMAIN Query, NEW r \in Reads, NEW since, NEW gone \in BOOLEAN,
         ~gone /\ ~Truncated(r) => since \subseteq ToSet(r.rows),
         s \notin Paged => /\ ~gone /\ ~r.partial /\ Len(r.rows) <= r.total
                           /\ server = "honest" /\ r.rows = <<>> => since = {}
  PROVE  LET x == [Rendered(s, r) EXCEPT !.stayed = since, !.left = gone]
         IN  WellSaid(x) /\ BestNamed(x)
<1> DEFINE x == [Rendered(s, r) EXCEPT !.stayed = since, !.left = gone]
<1>0. /\ r.rows \in Seq(Tasks) /\ Len(r.rows) \in Nat /\ r.total \in Nat
      /\ (Len(r.rows) = 0 => r.rows = <<>>) /\ ToSet(<<>>) = {}
      /\ Truncated(r) \in BOOLEAN /\ FALSE \in BOOLEAN
  BY TasksCounted, LenProperties, EmptySeq DEF Reads, ToSet, Truncated
<1> SUFFICES WellSaid(x) /\ BestNamed(x)
  OBVIOUS
<1> HIDE DEF x
<1>1. s \in {"active", "backlog", "completed", "archived", "summary"}
  BY DEF Query
<1>2. CASE s = "active"
  <2>1. ~gone /\ ~r.partial /\ Len(r.rows) <= r.total
    BY <1>2 DEF Paged
  <2>2. CASE r.total = 0
    <3>1. x = [Says("active", "none", <<>>, r.rows, 0, FALSE) EXCEPT !.stayed = since, !.left = gone]
      BY <1>2, <2>2 DEF Rendered, RenderActive, x
    <3>2. /\ x.section = "active" /\ x.says = "none" /\ x.rows = ToSet(r.rows)
          /\ x.stayed = since
      BY <3>1 DEF Says, Untold
    <3>3. ~Truncated(r)
      BY <1>0, <2>1, <2>2 DEF Truncated
    <3> QED
      BY <2>1, <3>2, <3>3 DEF WellSaid, BestNamed
  <2>3. CASE r.total # 0
    <3> DEFINE shown == FirstOf(r.rows, MaxListed)
    <3>1. x = [Says("active", "list", shown, r.rows, r.total, r.total > Len(shown))
                EXCEPT !.stayed = since, !.left = gone]
      BY <1>2, <2>3 DEF Rendered, RenderActive, x
    <3>2. Len(shown) \in Nat /\ Len(shown) <= Len(r.rows)
      BY <1>0, SizesAssumption, FirstOfProperties, LenProperties
    <3> HIDE DEF shown
    <3>3. /\ x.section = "active" /\ x.says = "list" /\ x.rows = ToSet(r.rows)
          /\ x.stayed = since /\ (x.partial <=> r.total > Len(shown))
      BY <3>1 DEF Says, Untold
    <3>4. ~(r.total > Len(shown)) => ~Truncated(r)
      BY <1>0, <2>1, <3>2 DEF Truncated
    <3> QED
      BY <2>1, <3>3, <3>4 DEF WellSaid, BestNamed
  <2> QED
    BY <2>2, <2>3
<1>3. CASE s = "backlog"
  <2> DEFINE named == FirstOf(Ranked(r.rows), TopN)
             says == IF named = <<>> THEN "none" ELSE "list"
  <2>1. x = [Says("backlog", says, named, r.rows, Len(Ranked(r.rows)), Truncated(r))
              EXCEPT !.stayed = since, !.left = gone]
    BY <1>3 DEF Rendered, RenderBacklog, x
  <2>2. since \subseteq ToSet(r.rows) =>
          LET missing == {u \in since \ ToSet(named) : PriorityOf[u] \in ToSet(Wanted)}
          IN  /\ \A u \in missing, v \in ToSet(named) : Rank(v) <= Rank(u)
              /\ missing # {} => Len(named) = TopN
    BY <1>0, BestFirst
  <2>3. says \in {"none", "list"}
    OBVIOUS
  <2> HIDE DEF named, says
  <2>4. /\ x.section = "backlog" /\ x.says = says /\ x.named = named /\ x.rows = ToSet(r.rows)
        /\ x.stayed = since /\ (x.partial <=> Truncated(r)) /\ (x.left <=> gone)
    BY <1>0, <2>1, SaidFields
  <2>5. WellSaid(x)
    BY <2>3, <2>4 DEF WellSaid
  <2>6. BestNamed(x)
    BY <2>2, <2>4 DEF BestNamed, Missing
  <2> QED
    BY <2>5, <2>6
<1>4. CASE s \in {"completed", "archived"}
  <2>1. ~gone /\ (server = "honest" /\ r.rows = <<>> => since = {})
    BY <1>4 DEF Paged
  <2>2. Rendered(s, r) = RenderDay(s, r)
    BY <1>4 DEF Rendered
  <2>3. CASE r.rows = <<>>
    <3>1. x = [Says(s, "none", <<>>, r.rows, 0, FALSE) EXCEPT !.stayed = since, !.left = gone]
      BY <2>2, <2>3 DEF RenderDay, x
    <3>2. x.section = s /\ x.says = "none" /\ x.rows = ToSet(r.rows) /\ x.stayed = since
      BY <3>1 DEF Says, Untold
    <3> QED
      BY <1>4, <2>1, <2>3, <3>2 DEF WellSaid, BestNamed
  <2>4. CASE r.rows # <<>>
    <3>1. x = [Says(s, "list", r.rows, r.rows, r.total, Truncated(r))
                EXCEPT !.stayed = since, !.left = gone]
      BY <2>2, <2>4 DEF RenderDay, x
    <3>2. /\ x.section = s /\ x.says = "list" /\ x.rows = ToSet(r.rows)
          /\ x.stayed = since /\ (x.partial <=> Truncated(r))
      BY <1>0, <3>1, SaidFields
    <3> QED
      BY <1>4, <2>1, <3>2 DEF WellSaid, BestNamed
  <2> QED
    BY <2>3, <2>4
<1>5. CASE s = "summary"
  <2> DEFINE says == IF r.rows = <<>> THEN "none" ELSE "list"
  <2>1. x = [Says("summary", says, r.rows, r.rows, r.total, Truncated(r))
              EXCEPT !.stayed = since, !.left = gone]
    BY <1>5 DEF Rendered, RenderSummary, Summary, x
  <2>2. says \in {"none", "list"}
    OBVIOUS
  <2> HIDE DEF says
  <2>3. /\ x.section = "summary" /\ x.says = says /\ x.rows = ToSet(r.rows)
        /\ x.stayed = since /\ (x.partial <=> Truncated(r)) /\ (x.left <=> gone)
    BY <1>0, <2>1, SaidFields
  <2> QED
    BY <2>2, <2>3 DEF WellSaid, BestNamed
<1> QED
  BY <1>1, <1>2, <1>3, <1>4, <1>5

-----------------------------------------------------------------------------
(* The invariant.                                                          *)

LEMMA UntoldHolds == WellSaid(Untold) /\ BestNamed(Untold)
BY DEF WellSaid, BestNamed, Untold

LEMMA NoReadIsRead == NoRead \in Reads
<1>1. <<>> \in Seq(Tasks) /\ IsInjective(<<>>)
  BY DEF IsInjective
<1>2. 0 \in Nat /\ 0 \in 0..Cardinality(Tasks)
  BY TasksCounted
<1> QED
  BY <1>1, <1>2 DEF NoRead, Reads

LEMMA InitIInv == Init => IInv
<1> SUFFICES ASSUME Init PROVE IInv
  OBVIOUS
<1>1. BoardTyped
  <2>1. PICK n \in 0..Len(board) : fresh = {board[i] : i \in 1..n}
    BY DEF Init
  <2>2. board \in Seq(Tasks)
    BY BoardIsOfTasks DEF Init
  <2>3. \A i \in 1..n : board[i] \in Tasks
    <3>1. Len(board) \in Nat
      BY <2>2, LenProperties
    <3>2. \A i \in 1..n : i \in 1..Len(board)
      BY <3>1
    <3> QED
      BY <2>2, <3>2, ElementOfSeq
  <2>4. fresh \subseteq Tasks
    BY <2>1, <2>3
  <2>5. changes \in 0..MaxChanges
    BY SizesAssumption DEF Init
  <2> QED
    BY <2>4, <2>5 DEF Init, BoardTyped
<1>2. ReaderTyped
  BY PlansAssumption, NoReadIsRead DEF Init, ReaderTyped
<1>3. ReadHolds
  BY DEF Init, ReadHolds, Reading
<1>4. ToldHolds
  BY UntoldHolds DEF Init, ToldHolds
<1>5. RefusedHolds
  BY DEF Init, RefusedHolds
<1> QED
  BY <1>1, <1>2, <1>3, <1>4, <1>5 DEF IInv

LEMMA RefusedStays ==
  ASSUME RefusedHolds, refused' = refused, client' = client
  PROVE  RefusedHolds'
<1>1. Refusals' = Refusals
  BY DEF Refusals
<1>2. CASE refused = NoRefusal
  BY <1>2 DEF RefusedHolds
<1>3. CASE \E x \in Refusals : refused = Reason(x)
  <2>1. PICK x \in Refusals : refused = Reason(x)
    BY <1>3
  <2>2. x \in Refusals' /\ refused' = Reason(x)
    BY <1>1, <2>1
  <2> QED
    BY <2>2 DEF RefusedHolds
<1> QED
  BY <1>2, <1>3 DEF RefusedHolds

\* The board changes under a read: what no longer matches has not stayed, and
\* a task that no longer matches has left.
LEMMA ChangeStep ==
  ASSUME IInv, NEW t \in Tasks, NEW s \in Statuses, Change(t, s)
  PROVE  IInv'
<1> USE DEF IInv
<1>1. BoardTyped'
  <2>1. board \in Seq(Tasks) /\ IsInjective(board) /\ ToSet(board) = Tasks
    BY BoardIsOfTasks DEF BoardTyped
  <2> DEFINE others == Among(board, Tasks \ {t})
  <2>2. others \in Seq(Tasks) /\ IsInjective(others) /\ ToSet(others) = Tasks \ {t}
    <3>1. others \in Seq(Tasks) /\ IsInjective(others)
          /\ ToSet(others) = ToSet(board) \cap (Tasks \ {t})
      BY <2>1, AmongProperties
    <3> QED
      BY <2>1, <3>1
  <2>3. <<t>> \in Seq(Tasks) /\ IsInjective(<<t>>) /\ ToSet(<<t>>) = {t}
    <3>1. <<t>> \in Seq(Tasks) /\ Len(<<t>>) = 1 /\ <<t>>[1] = t
      OBVIOUS
    <3>2. DOMAIN <<t>> = 1..1
      BY <3>1, LenProperties
    <3> QED
      BY <3>1, <3>2 DEF IsInjective, ToSet
  <2> DEFINE one == <<t>>
  <2> HIDE DEF others, one
  <2>4. one \o others \in Seq(Tasks) /\ IsInjective(one \o others) /\ ToSet(one \o others) = Tasks
    <3>1. ToSet(one) \cap ToSet(others) = {} /\ ToSet(one) \cup ToSet(others) = Tasks
      BY <2>2, <2>3 DEF one
    <3> QED
      BY <2>2, <2>3, <3>1, JoinedProperties DEF one
  <2>5. board' = one \o others
    BY DEF Change, one, others
  <2>6. board' \in SetToSeqs(Tasks)
    BY <2>4, <2>5, BoardIsOfTasks
  <2>7. status' \in [Tasks -> Statuses] /\ fresh' \subseteq Tasks
    BY DEF Change, BoardTyped
  <2>8. changes' \in 0..MaxChanges
    BY SizesAssumption DEF Change, BoardTyped
  <2> QED
    BY <2>6, <2>7, <2>8 DEF BoardTyped
<1>2. ReaderTyped' /\ ReadHolds'
  <2>1. UNCHANGED <<server, client, sections, read>>
    BY DEF Change
  <2>2. CASE Reading
    <3>1. PICK q \in {Section} :
            /\ stayed' = stayed \cap Matches(q)'
            /\ left' = (left \/ ~(Matches(q) \subseteq Matches(q)'))
      BY <2>2 DEF Change
    <3>2. Section' = q /\ Reading'
      BY <2>1, <2>2, <3>1 DEF Section, Reading
    <3>3. stayed' \subseteq Tasks /\ left' \in BOOLEAN
      BY <3>1 DEF ReaderTyped
    <3>4. Matches(Section)' = Matches(q)'
      BY <3>2 DEF Matches
    <3>5. sections # <<>> /\ Section \in Paged /\ (~left => ToSet(read.rows) \subseteq Matches(Section))
      BY <2>2 DEF ReadHolds
    <3>6. stayed' \subseteq Matches(Section)'
      BY <3>1, <3>4
    <3>7. ~left' => ToSet(read'.rows) \subseteq Matches(Section)'
      BY <2>1, <3>1, <3>4, <3>5
    <3> QED
      BY <2>1, <3>1, <3>2, <3>3, <3>5, <3>6, <3>7 DEF ReaderTyped, ReadHolds
  <2>3. CASE ~Reading
    <3>1. UNCHANGED <<stayed, left>> /\ ~Reading'
      BY <2>1, <2>3 DEF Change, Reading
    <3> QED
      BY <2>1, <3>1 DEF ReaderTyped, ReadHolds
  <2> QED
    BY <2>2, <2>3
<1>3. ToldHolds'
  <2>1. told' = Untold /\ server' = server
    BY DEF Change
  <2> QED
    BY <2>1, UntoldHolds DEF ToldHolds, WellSaid, BestNamed, Missing, Untold
<1>4. RefusedHolds'
  BY RefusedStays DEF Change
<1> QED
  BY <1>1, <1>2, <1>3, <1>4

\* What a text that holds leaves behind.
LEMMA TellStep ==
  ASSUME IInv, sections # <<>>, NEW text, WellSaid(text), BestNamed(text), Tell(text)
  PROVE  BoardTyped' /\ ReadHolds' /\ ToldHolds' /\ read' \in Reads
         /\ sections' \in Seq(DOMAIN Query \cup {"snapshot"})
         /\ server' = server /\ client' = client
<1>1. /\ told' = text /\ sections' = Tail(sections) /\ read' = NoRead
      /\ UNCHANGED <<boardVars, server, client>>
  BY DEF Tell
<1>2. BoardTyped'
  BY <1>1 DEF IInv, BoardTyped, boardVars
<1>3. ReadHolds'
  BY <1>1 DEF ReadHolds, Reading
<1>4. ToldHolds'
  BY <1>1 DEF ToldHolds, WellSaid, BestNamed, Missing
<1>5. sections' \in Seq(DOMAIN Query \cup {"snapshot"})
  BY <1>1, HeadTailProperties DEF IInv, ReaderTyped
<1> QED
  BY <1>1, <1>2, <1>3, <1>4, <1>5, NoReadIsRead

LEMMA SnapshotStep == ASSUME IInv, Snapshot PROVE IInv'
<1>1. PICK says \in {"list", "unavailable"} :
        Tell([Untold EXCEPT !.section = "snapshot", !.says = says])
  BY DEF Snapshot
<1> DEFINE text == [Untold EXCEPT !.section = "snapshot", !.says = says]
<1>2. WellSaid(text) /\ BestNamed(text)
  <2>1. text.section = "snapshot" /\ text.says = says
    BY DEF Untold
  <2>2. "snapshot" \notin DOMAIN Query
    BY DEF Query
  <2> HIDE DEF text
  <2> QED
    BY <2>1, <2>2 DEF WellSaid, BestNamed
<1>3. sections # <<>> /\ UNCHANGED <<stayed, left, refused>>
  BY DEF Snapshot
<1> HIDE DEF text
<1>4. Tell(text)
  BY <1>1 DEF text
<1>5. client' = client
  BY <1>4 DEF Tell
<1>6. RefusedHolds'
  BY <1>3, <1>5, RefusedStays DEF IInv
<1> QED
  BY <1>2, <1>3, <1>4, <1>6, TellStep DEF IInv, ReaderTyped

LEMMA RefusedStep == ASSUME IInv, NEW s, Refused(s) PROVE IInv'
<1>1. PICK refusal \in Refusals : Tell(Degraded(refusal)) /\ refused' = told'.refusal
  BY DEF Refused
<1> DEFINE text == Degraded(refusal)
<1>2. WellSaid(text) /\ BestNamed(text) /\ text.refusal = Reason(refusal)
  <2>1. text.says = "unavailable" /\ text.refusal = Reason(refusal)
    BY DEF Degraded, Untold, Reason
  <2> HIDE DEF text
  <2> QED
    BY <2>1 DEF WellSaid, BestNamed
<1>3. sections # <<>> /\ UNCHANGED <<stayed, left>>
  BY DEF Refused, Turned
<1> HIDE DEF text
<1>4. Tell(text)
  BY <1>1 DEF text
<1>5. refused' = Reason(refusal) /\ client' = client
  BY <1>1, <1>2, <1>4 DEF Tell
<1>6. Refusals' = Refusals
  BY <1>5 DEF Refusals
<1>7. RefusedHolds'
  BY <1>5, <1>6 DEF RefusedHolds, Reason, Cause
<1> QED
  BY <1>2, <1>3, <1>4, <1>7, TellStep DEF IInv, ReaderTyped

\* The read goes on with rows that match unless a task left, or it is told.
LEMMA GoesStep ==
  ASSUME IInv, NEW s \in DOMAIN Query, Turned(s), NEW r \in Reads,
         NEW since, since \subseteq Matches(s), NEW gone \in BOOLEAN,
         ~gone => ToSet(r.rows) \subseteq Matches(s),
         ~gone /\ ~Truncated(r) => since \subseteq ToSet(r.rows),
         s \notin Paged => /\ ~gone /\ ~r.partial /\ Len(r.rows) <= r.total
                           /\ server = "honest" /\ r.rows = <<>> => since = {},
         Goes(s, r, since, gone), stayed' = since, left' = gone, refused' = refused
  PROVE  IInv'
<1>0. sections # <<>> /\ Section = s /\ since \subseteq Tasks
  BY DEF Turned, Matches
<1>1. CASE s \in Paged /\ ~r.over
  <2>1. /\ read' = [r EXCEPT !.odd = ~@] /\ told' = Untold
        /\ UNCHANGED <<boardVars, server, client, sections>>
    BY <1>1 DEF Goes
  <2>2. read' \in Reads /\ read'.rows = r.rows
    BY <2>1 DEF Reads
  <2>3. BoardTyped'
    BY <2>1 DEF IInv, BoardTyped, boardVars
  <2>4. ReaderTyped'
    BY <1>0, <2>1, <2>2 DEF IInv, ReaderTyped
  <2>5. ReadHolds'
    <3>1. Section' = s
      BY <1>0, <2>1 DEF Section
    <3>2. Matches(Section)' = Matches(s)
      BY <2>1, <3>1 DEF Matches, boardVars
    <3> QED
      BY <1>0, <1>1, <2>1, <2>2, <3>1, <3>2 DEF ReadHolds
  <2>6. ToldHolds'
    BY <2>1, UntoldHolds DEF ToldHolds, WellSaid, BestNamed, Missing, Untold
  <2>7. RefusedHolds'
    BY <2>1, RefusedStays DEF IInv
  <2> QED
    BY <2>3, <2>4, <2>5, <2>6, <2>7 DEF IInv
<1>2. CASE ~(s \in Paged /\ ~r.over)
  <2> DEFINE text == [Rendered(s, r) EXCEPT !.stayed = since, !.left = gone]
  <2>1. WellSaid(text) /\ BestNamed(text)
    BY TextHolds
  <2>2. Tell(text)
    BY <1>2 DEF Goes
  <2> HIDE DEF text
  <2>3. RefusedHolds'
    BY <2>2, RefusedStays DEF IInv, Tell
  <2> QED
    BY <1>0, <2>1, <2>2, <2>3, TellStep DEF IInv, ReaderTyped
<1> QED
  BY <1>1, <1>2

LEMMA OpenStep == ASSUME IInv, NEW s \in DOMAIN Query, Open(s) PROVE IInv'
<1>1. PICK items \in Pages(s, 0) :
        Goes(s, FirstPage(items, Len(Listing(s))), Matches(s), FALSE)
  BY DEF Open
<1> DEFINE r == FirstPage(items, Len(Listing(s)))
<1>2. /\ Turned(s) /\ stayed' = Matches(s) /\ left' = FALSE /\ refused' = refused
      /\ BoardTyped
  BY DEF Open, IInv
<1>3. /\ r \in Reads /\ ToSet(r.rows) \subseteq Matches(s) /\ r.rows = items
      /\ r.total = Len(Listing(s)) /\ ~r.partial /\ Len(r.rows) <= r.total
  BY <1>2, FirstPageProperties
<1>4. Goes(s, r, Matches(s), FALSE)
  BY <1>1
<1> HIDE DEF r
<1>5. ~Truncated(r) => Matches(s) \subseteq ToSet(r.rows)
  BY <1>2, <1>3, WholeRead
<1>6. server = "honest" /\ r.rows = <<>> => Matches(s) = {}
  BY <1>2, <1>3, PagesProperties
<1> QED
  BY <1>2, <1>3, <1>4, <1>5, <1>6, GoesStep

LEMMA ContinueStep == ASSUME IInv, NEW s \in DOMAIN Query, Continue(s) PROVE IInv'
<1>1. PICK items \in Pages(s, read.offset) :
        Goes(s, NextPage(read, items, Len(Listing(s))), stayed, left)
  BY DEF Continue
<1>2. /\ Turned(s) /\ Section = s /\ Reading /\ UNCHANGED <<stayed, left, refused>>
      /\ BoardTyped
  BY DEF Continue, Turned, IInv
<1>3. /\ read \in Reads /\ read.offset \in Nat /\ left \in BOOLEAN
      /\ s \in Paged /\ stayed \subseteq Matches(s)
      /\ ~left => ToSet(read.rows) \subseteq Matches(s)
  BY <1>2 DEF IInv, ReaderTyped, ReadHolds, Reads
<1>4. items \in Seq(Tasks) /\ IsInjective(items) /\ ToSet(items) \subseteq Matches(s)
  BY <1>2, <1>3, PagesProperties
<1> DEFINE r == NextPage(read, items, Len(Listing(s)))
<1>5. /\ r \in Reads /\ r.total = read.total
      /\ ToSet(r.rows) \subseteq ToSet(read.rows) \cup ToSet(items)
      /\ ~r.partial => r.total = Len(Listing(s))
  <2>1. Len(Listing(s)) \in 0..Cardinality(Tasks)
    BY <1>2, ListingProperties
  <2> QED
    BY <1>3, <1>4, <2>1, NextPageProperties
<1>6. Goes(s, r, stayed, left)
  BY <1>1
<1> HIDE DEF r
<1>7. ~left => ToSet(r.rows) \subseteq Matches(s)
  BY <1>3, <1>4, <1>5
<1>8. ~left /\ ~Truncated(r) => stayed \subseteq ToSet(r.rows)
  BY <1>2, <1>3, <1>5, <1>7, WholeRead
<1> QED
  BY <1>2, <1>3, <1>5, <1>6, <1>7, <1>8, GoesStep

LEMMA InductiveStep == IInv /\ [Next]_vars => IInv'
<1> SUFFICES ASSUME IInv, [Next]_vars PROVE IInv'
  OBVIOUS
<1>1. ASSUME NEW t \in Tasks, NEW s \in Statuses, Change(t, s) PROVE IInv'
  BY <1>1, ChangeStep
<1>2. CASE Snapshot
  BY <1>2, SnapshotStep
<1>3. ASSUME NEW s \in DOMAIN Query, Refused(s) PROVE IInv'
  BY <1>3, RefusedStep
<1>4. ASSUME NEW s \in DOMAIN Query, Open(s) PROVE IInv'
  BY <1>4, OpenStep
<1>5. ASSUME NEW s \in DOMAIN Query, Continue(s) PROVE IInv'
  BY <1>5, ContinueStep
<1>6. CASE UNCHANGED vars
  <2>1. BoardTyped' /\ ReaderTyped'
    BY <1>6 DEF vars, boardVars, IInv, BoardTyped, ReaderTyped
  <2>2. ReadHolds'
    BY <1>6 DEF vars, boardVars, IInv, ReadHolds, Reading, Section, Matches
  <2>3. ToldHolds'
    BY <1>6 DEF vars, IInv, ToldHolds, WellSaid, BestNamed, Missing
  <2>4. RefusedHolds'
    BY <1>6, RefusedStays DEF vars, IInv
  <2> QED
    BY <2>1, <2>2, <2>3, <2>4 DEF IInv
<1> QED
  BY <1>1, <1>2, <1>3, <1>4, <1>5, <1>6 DEF Next, Compose

\* In every behaviour.
LEMMA Invariance == Spec => []IInv
BY InitIInv, InductiveStep, PTL DEF Spec

-----------------------------------------------------------------------------
(* What a reader should know of.                                           *)

\* The board stays an order of the tasks, whatever is touched (Change), and a
\* read holds no task twice (the map of fetchAll).
THEOREM TypeCorrect == Spec => []TypeOK
<1>1. IInv => TypeOK
  <2> SUFFICES ASSUME IInv PROVE TypeOK
    OBVIOUS
  <2>1. read.rows \in Seq(Tasks) /\ IsInjective(read.rows)
        /\ read.offset \in Nat /\ read.total \in 0..Cardinality(Tasks)
    BY DEF IInv, ReaderTyped, Reads
  <2>2. ToSet(read.rows) \subseteq Tasks
    BY <2>1, LenProperties, ElementOfSeq DEF ToSet
  <2>3. told.says \in {"nothing", "none", "list", "unavailable"}
    BY DEF IInv, ToldHolds, WellSaid
  <2>4. refused = NoRefusal \/ refused.why \in {x.why : x \in Refusals}
    BY DEF IInv, RefusedHolds, Reason
  <2> QED
    BY <2>1, <2>2, <2>3, <2>4 DEF IInv, BoardTyped, ReaderTyped, TypeOK
<1> QED
  BY <1>1, Invariance, PTL

\* A section that is not marked as partial holds every task that matched all
\* the while, unless one left the list (fetchAll and the sections of one page),
\* however many tasks were touched or joined between two pages.
THEOREM WholeUnlessLeftHolds == Spec => []WholeUnlessLeft
<1>1. IInv => WholeUnlessLeft
  BY DEF IInv, ToldHolds, WellSaid, WholeUnlessLeft, Ok
<1> QED
  BY <1>1, Invariance, PTL

\* A backlog section that is whole names the best (readBacklogTopN).
THEOREM TopIsTopHolds == Spec => []TopIsTop
<1>1. IInv => TopIsTop
  BY DEF IInv, ToldHolds, BestNamed, Missing, Rank, TopIsTop, Ok
<1> QED
  BY <1>1, Invariance, PTL

\* No two refusals of one client have a cause in common, nor is any without.
LEMMA CausesDiffer ==
  ASSUME NEW x \in Refusals
  PROVE  /\ Cause(x) # "none"
         /\ \A y \in Refusals : Cause(x) = Cause(y) => x.why = y.why
<1>1. CASE client = "unconfigured"
  <2>1. ASSUME NEW y \in Refusals PROVE y.why = "no credential" /\ Cause(y) = "key is not set"
    <3>1. y = [why |-> "no credential", code |-> "none", http |-> 0]
      BY <1>1, <2>1 DEF Refusals
    <3>2. y.why = "no credential"
      BY <3>1
    <3> QED
      BY <3>2 DEF Cause
  <2> QED
    BY <2>1
<1>2. CASE client # "unconfigured"
  <2> DEFINE Told(y) ==
        \/ y.why = "no grant" /\ Cause(y) = "DIGEST_GRANT_REQUIRED"
        \/ y.why = "grant lapsed" /\ Cause(y) = "GRANT_EXPIRED"
        \/ y.why = "route closed" /\ Cause(y) = "MUN-0043"
        \/ y.why = "service fault" /\ Cause(y) = "HTTP status"
        \/ y.why = "breaker open" /\ Cause(y) = "breaker open"
        \/ y.why = "bad answer" /\ Cause(y) = "bad answer"
  <2>1. ASSUME NEW y \in Refusals PROVE Told(y)
    <3>1. \/ y = [why |-> "no grant", code |-> "required", http |-> 403]
          \/ y = [why |-> "grant lapsed", code |-> "expired", http |-> 403]
          \/ y = [why |-> "route closed", code |-> "none", http |-> 403]
          \/ y = [why |-> "service fault", code |-> "none", http |-> 500]
          \/ y = [why |-> "breaker open", code |-> "none", http |-> 0]
          \/ y = [why |-> "bad answer", code |-> "none", http |-> 0]
      BY <1>2, <2>1 DEF Refusals
    <3>2. CASE y = [why |-> "no grant", code |-> "required", http |-> 403]
      <4>1. y.why = "no grant" /\ y.why # "no credential"
        BY <3>2
      <4>2. y.code = "required"
        BY <3>2
      <4> QED
        BY <4>1, <4>2 DEF Cause
    <3>3. CASE y = [why |-> "grant lapsed", code |-> "expired", http |-> 403]
      <4>1. y.why = "grant lapsed" /\ y.why # "no credential"
        BY <3>3
      <4>2. y.code = "expired" /\ y.code # "required"
        BY <3>3
      <4> QED
        BY <4>1, <4>2 DEF Cause
    <3>4. CASE y = [why |-> "route closed", code |-> "none", http |-> 403]
      <4>1. y.why = "route closed" /\ y.why # "no credential"
        BY <3>4
      <4>2. y.code # "required" /\ y.code # "expired"
        BY <3>4
      <4>3. y.http = 403
        BY <3>4
      <4> QED
        BY <4>1, <4>2, <4>3 DEF Cause
    <3>5. CASE y = [why |-> "service fault", code |-> "none", http |-> 500]
      <4>1. y.why = "service fault" /\ y.why # "no credential"
        BY <3>5
      <4>2. y.code # "required" /\ y.code # "expired"
        BY <3>5
      <4>3. y.http # 403 /\ y.http # 0
        <5>1. y.http = 500
          BY <3>5
        <5> QED
          BY <5>1
      <4> QED
        BY <4>1, <4>2, <4>3 DEF Cause
    <3>6. CASE y = [why |-> "breaker open", code |-> "none", http |-> 0]
      <4>1. y.why = "breaker open" /\ y.why # "no credential"
        BY <3>6
      <4>2. y.code # "required" /\ y.code # "expired"
        BY <3>6
      <4>3. y.http # 403 /\ y.http = 0
        <5>1. y.http = 0
          BY <3>6
        <5> QED
          BY <5>1
      <4> QED
        BY <4>1, <4>2, <4>3 DEF Cause
    <3>7. CASE y = [why |-> "bad answer", code |-> "none", http |-> 0]
      <4>1. y.why = "bad answer" /\ y.why # "no credential"
        BY <3>7
      <4>2. y.code # "required" /\ y.code # "expired"
        BY <3>7
      <4>3. y.http # 403 /\ y.http = 0
        <5>1. y.http = 0
          BY <3>7
        <5> QED
          BY <5>1
      <4> QED
        BY <4>1, <4>2, <4>3 DEF Cause
    <3> QED
      BY <3>1, <3>2, <3>3, <3>4, <3>5, <3>6, <3>7
  <2> HIDE DEF Told
  <2>2. \A y \in Refusals : Told(y)
    BY <2>1
  <2> QED
    BY <2>2 DEF Told
<1> QED
  BY <1>1, <1>2

\* A step that tells another refusal.
TellsReason ==
  {refused.why, refused'.why} \cap Actionable # {} /\ refused.cause = refused'.cause
    => refused.why = refused'.why

\* Two sections that give one cause were refused for one reason, if the
\* operator can do something about it (describeUnavailable).
THEOREM CauseTellsReasonHolds == Spec => CauseTellsReason
<1>1. IInv /\ [Next]_vars => [TellsReason]_refused
  <2> SUFFICES ASSUME IInv, [Next]_vars PROVE TellsReason
    OBVIOUS
  <2>1. RefusedHolds /\ RefusedHolds'
    BY InductiveStep DEF IInv
  <2>2. client' = client
    BY DEF Next, vars, Change, Compose, Snapshot, Refused, Open, Continue, Goes, Tell
  <2>3. Refusals' = Refusals
    BY <2>2 DEF Refusals
  <2>4. refused' = NoRefusal \/ \E x \in Refusals : refused' = Reason(x)
    BY <2>1, <2>3 DEF RefusedHolds, Reason, Cause, NoRefusal
  <2>5. refused = NoRefusal \/ \E x \in Refusals : refused = Reason(x)
    BY <2>1 DEF RefusedHolds
  <2>6. \A x : Reason(x).why = x.why /\ Reason(x).cause = Cause(x)
    BY DEF Reason
  <2>7. NoRefusal.why = "none" /\ NoRefusal.cause = "none"
    BY DEF NoRefusal
  <2> QED
    BY <2>4, <2>5, <2>6, <2>7, CausesDiffer DEF TellsReason
<1> QED
  BY <1>1, Invariance, PTL DEF Spec, CauseTellsReason, TellsReason
================================================================================
