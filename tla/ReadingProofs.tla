---------------------------- MODULE ReadingProofs ----------------------------
(***************************************************************************)
(* Theorems about Reading, for every value of its constants: any devices   *)
(* that send such items, escape sequences and texts of any length, and a   *)
(* network that cuts the stream into reads wherever it likes.              *)
(***************************************************************************)
EXTENDS Reading, SequenceTheorems, WellFoundedInduction, TLAPS

------------------------------------------------------------------------------
(* Sequences of characters *)

\* The elements from i to j, of which there may be none.
LEMMA Part ==
    ASSUME NEW S, NEW s \in Seq(S), NEW i \in 1..(Len(s) + 1), NEW j \in (i - 1)..Len(s)
    PROVE  /\ SubSeq(s, i, j) \in Seq(S) /\ Len(SubSeq(s, i, j)) = j - i + 1
           /\ \A p \in 1..(j - i + 1) : SubSeq(s, i, j)[p] = s[i + p - 1]
<1>1. \A p \in i..j : s[p] \in S
  BY ElementOfSeq
<1>2. /\ SubSeq(s, i, j) \in Seq(S)
      /\ Len(SubSeq(s, i, j)) = IF i <= j THEN j - i + 1 ELSE 0
      /\ \A p \in 1..(j - i + 1) : SubSeq(s, i, j)[p] = s[i + p - 1]
  BY <1>1, SubSeqProperties
<1> QED BY <1>2

LEMMA CutIs ==
    ASSUME NEW S, NEW s \in Seq(S), NEW i \in 1..Len(s), NEW j \in i..Len(s)
    PROVE  /\ Cut(s, i, j) \in Seq(S) /\ Len(Cut(s, i, j)) = Len(s) - (j - i + 1)
           /\ \A p \in 1..(i - 1) : Cut(s, i, j)[p] = s[p]
           /\ \A p \in i..(Len(s) - (j - i + 1)) : Cut(s, i, j)[p] = s[p + (j - i + 1)]
<1> DEFINE a == SubSeq(s, 1, i - 1)
           b == SubSeq(s, j + 1, Len(s))
<1>1. a \in Seq(S) /\ Len(a) = i - 1 /\ \A p \in 1..(i - 1) : a[p] = s[p]
  <2>1. 1 \in 1..(Len(s) + 1) /\ i - 1 \in (1 - 1)..Len(s)
    OBVIOUS
  <2>2. /\ a \in Seq(S) /\ Len(a) = i - 1 - 1 + 1
        /\ \A p \in 1..(i - 1 - 1 + 1) : a[p] = s[1 + p - 1]
    BY <2>1, Part
  <2> QED BY <2>2
<1>2. /\ b \in Seq(S) /\ Len(b) = Len(s) - j
      /\ \A p \in 1..(Len(s) - j) : b[p] = s[j + p]
  <2>1. j + 1 \in 1..(Len(s) + 1) /\ Len(s) \in (j + 1 - 1)..Len(s)
    OBVIOUS
  <2>2. /\ b \in Seq(S) /\ Len(b) = Len(s) - (j + 1) + 1
        /\ \A p \in 1..(Len(s) - (j + 1) + 1) : b[p] = s[j + 1 + p - 1]
    BY <2>1, Part
  <2> QED BY <2>2
<1> HIDE DEF a, b
<1>3. /\ a \o b \in Seq(S) /\ Len(a \o b) = Len(a) + Len(b)
      /\ \A p \in 1..(Len(a) + Len(b)) :
            (a \o b)[p] = IF p <= Len(a) THEN a[p] ELSE b[p - Len(a)]
  BY <1>1, <1>2, ConcatProperties
<1>4. /\ a \o b \in Seq(S) /\ Len(a \o b) = Len(s) - (j - i + 1)
      /\ \A p \in 1..(i - 1) : (a \o b)[p] = s[p]
      /\ \A p \in i..(Len(s) - (j - i + 1)) : (a \o b)[p] = s[p + (j - i + 1)]
  <2>0. Len(s) \in Nat /\ i \in Nat /\ j \in Nat /\ 1 <= i /\ i <= j /\ j <= Len(s)
    OBVIOUS
  <2>1. Len(a \o b) = Len(s) - (j - i + 1)
    BY ONLY <1>1, <1>2, <1>3, <2>0
  <2>2. ASSUME NEW p \in 1..(i - 1) PROVE (a \o b)[p] = s[p]
    <3>1. p \in 1..(Len(a) + Len(b)) /\ p <= Len(a)
      BY ONLY <1>1, <1>2, <2>0, <2>2
    <3> QED BY ONLY <1>1, <1>3, <2>2, <3>1
  <2>3. ASSUME NEW p \in i..(Len(s) - (j - i + 1)) PROVE (a \o b)[p] = s[p + (j - i + 1)]
    <3>1. /\ p \in 1..(Len(a) + Len(b)) /\ ~ (p <= Len(a))
          /\ p - Len(a) \in 1..(Len(s) - j) /\ j + (p - Len(a)) = p + (j - i + 1)
      BY ONLY <1>1, <1>2, <2>0, <2>3
    <3>2. (a \o b)[p] = b[p - Len(a)]
      BY ONLY <1>3, <3>1
    <3>3. b[p - Len(a)] = s[j + (p - Len(a))]
      BY ONLY <1>2, <3>1
    <3> QED BY ONLY <3>1, <3>2, <3>3
  <2> QED BY <1>3, <2>1, <2>2, <2>3
<1> QED BY <1>4 DEF Cut, a, b

\* A set of places has a last one, and a first one if it is not empty.
LEMMA LeastOf ==
    ASSUME NEW S \in SUBSET Nat, S # {}
    PROVE  Min(S) \in S /\ \A y \in S : Min(S) <= y
<1>1. PICK x \in S : \A y \in S : ~ (<<y, x>> \in OpToRel(<, Nat))
  BY WFMin, NatLessThanWellFounded
<1>2. ASSUME NEW y \in S PROVE x <= y
  <2>1. <<y, x>> \in OpToRel(<, Nat) <=> y < x
    BY DEF OpToRel
  <2>2. ~ (y < x) /\ x \in Nat /\ y \in Nat
    BY <1>1, <2>1
  <2> QED BY ONLY <2>2
<1> QED BY <1>2 DEF Min

LEMMA GreatestOf ==
    ASSUME NEW n \in Nat, NEW S \in SUBSET (0..n), S # {}
    PROVE  Max(S) \in S /\ \A y \in S : y <= Max(S)
<1> DEFINE T == {m \in Nat : \A y \in S : y <= m}
<1>1. n \in T /\ T \in SUBSET Nat
  OBVIOUS
<1>2. Min(T) \in T /\ \A m \in T : Min(T) <= m
  BY ONLY <1>1, LeastOf
<1>3. Min(T) \in S
  <2> SUFFICES ASSUME Min(T) \notin S PROVE FALSE
    OBVIOUS
  <2> DEFINE m == Min(T)
  <2>0. m \in Nat /\ (\A y \in S : y \in Nat /\ y <= m) /\ m \notin S
    BY <1>2
  <2>1. PICK x \in S : TRUE
    OBVIOUS
  <2> HIDE DEF m
  <2>2. \A y \in S : y <= m - 1
    BY <2>0
  <2>3. m - 1 \in T
    BY <2>0, <2>1, <2>2
  <2>4. m <= m - 1
    BY <1>2, <2>3 DEF m
  <2> QED BY <2>0, <2>4
<1>4. \A y \in S : y <= Min(T)
  BY <1>2
<1>5. \E x \in S : \A y \in S : x >= y
  BY <1>3, <1>4, <1>2
<1>6. Max(S) \in S /\ \A y \in S : Max(S) >= y
  BY ONLY <1>5 DEF Max
<1> QED BY ONLY <1>6, S \in SUBSET (0..n), n \in Nat

LEMMA LastIs ==
    ASSUME NEW S, NEW s \in Seq(S), NEW c
    PROVE  /\ LastIndex(s, c) \in 0..Len(s)
           /\ LastIndex(s, c) > 0 => s[LastIndex(s, c)] = c
           /\ \A p \in 1..Len(s) : p > LastIndex(s, c) => s[p] # c
<1> DEFINE P == {0} \cup {i \in 1..Len(s) : s[i] = c}
<1>1. P \in SUBSET (0..Len(s)) /\ P # {} /\ Len(s) \in Nat
  OBVIOUS
<1>2. Max(P) \in P /\ \A y \in P : y <= Max(P)
  BY ONLY <1>1, GreatestOf
<1>3. LastIndex(s, c) = Max(P)
  BY DEF LastIndex
<1> HIDE DEF P
<1>4. ASSUME NEW m \in P, \A y \in P : y <= m
      PROVE  /\ m \in 0..Len(s) /\ (m > 0 => s[m] = c)
             /\ \A p \in 1..Len(s) : p > m => s[p] # c
  <2>1. m \in 0..Len(s) /\ (m > 0 => s[m] = c)
    BY DEF P
  <2>2. ASSUME NEW p \in 1..Len(s), p > m PROVE s[p] # c
    <3>1. ~ (p <= m)
      BY <2>1, <2>2
    <3> QED BY <1>4, <3>1 DEF P
  <2> QED BY <2>1, <2>2
<1> QED BY <1>2, <1>3, <1>4

\* The last place is the only one with nothing after it.
LEMMA LastUnique ==
    ASSUME NEW S, NEW s \in Seq(S), NEW c, NEW n \in 0..Len(s), n > 0 => s[n] = c,
           \A p \in 1..Len(s) : p > n => s[p] # c
    PROVE  LastIndex(s, c) = n
<1>1. /\ LastIndex(s, c) \in 0..Len(s)
      /\ LastIndex(s, c) > 0 => s[LastIndex(s, c)] = c
      /\ \A p \in 1..Len(s) : p > LastIndex(s, c) => s[p] # c
  BY LastIs
<1> QED BY <1>1

\* A sequence and one more element, in parts.
LEMMA PartNext ==
    ASSUME NEW S, NEW b \in Seq(S), NEW s \in Seq(S), NEW i \in 1..Len(s)
    PROVE  b \o SubSeq(s, 1, i) = Append(b \o SubSeq(s, 1, i - 1), s[i])
<1>0. i \in Nat /\ Len(s) \in Nat /\ 1 <= i /\ i <= Len(s)
  OBVIOUS
<1>1. /\ SubSeq(s, 1, i) \in Seq(S) /\ SubSeq(s, 1, i - 1) \in Seq(S)
      /\ s[i] \in S /\ <<s[i]>> \in Seq(S)
  <2>1. 1 \in 1..(Len(s) + 1) /\ i \in (1 - 1)..Len(s) /\ i - 1 \in (1 - 1)..Len(s)
    BY <1>0
  <2>2. s[i] \in S
    BY ElementOfSeq
  <2> QED BY <2>1, <2>2, Part
<1>2. SubSeq(s, 1, i) = SubSeq(s, 1, i - 1) \o <<s[i]>>
  BY <1>0, SubSeqRecursiveSecond
<1>3. b \o SubSeq(s, 1, i) = (b \o SubSeq(s, 1, i - 1)) \o <<s[i]>>
  <2> DEFINE u == SubSeq(s, 1, i - 1)
             e == <<s[i]>>
  <2>1. u \in Seq(S) /\ e \in Seq(S)
    BY <1>1
  <2> HIDE DEF u, e
  <2>2. (b \o u) \o e = b \o (u \o e)
    BY ONLY <2>1, b \in Seq(S)
  <2> QED BY <1>2, <2>2 DEF u, e
<1>4. b \o SubSeq(s, 1, i - 1) \in Seq(S)
  BY <1>1, ConcatProperties
<1> QED BY <1>1, <1>3, <1>4, AppendIsConcat

\* What is before the place of a cut stays.
LEMMA PartOfCut ==
    ASSUME NEW S, NEW s \in Seq(S), NEW i \in 1..Len(s), NEW j \in i..Len(s)
    PROVE  SubSeq(Cut(s, i, j), 1, i - 1) = SubSeq(s, 1, i - 1)
<1> DEFINE c == Cut(s, i, j)
           u == SubSeq(c, 1, i - 1)
           v == SubSeq(s, 1, i - 1)
<1>0. /\ Len(s) \in Nat /\ i \in Nat /\ j \in Nat /\ 1 <= i /\ i <= j /\ j <= Len(s)
  OBVIOUS
<1>1. /\ c \in Seq(S) /\ Len(c) = Len(s) - (j - i + 1)
      /\ \A p \in 1..(i - 1) : c[p] = s[p]
  BY CutIs
<1> HIDE DEF c
<1>2. /\ 1 \in 1..(Len(c) + 1) /\ i - 1 \in (1 - 1)..Len(c)
      /\ 1 \in 1..(Len(s) + 1) /\ i - 1 \in (1 - 1)..Len(s)
  BY <1>0, <1>1
<1>3. /\ u \in Seq(S) /\ Len(u) = i - 1 - 1 + 1
      /\ \A p \in 1..(i - 1 - 1 + 1) : u[p] = c[1 + p - 1]
  BY <1>1, <1>2, Part
<1>4. /\ v \in Seq(S) /\ Len(v) = i - 1 - 1 + 1
      /\ \A p \in 1..(i - 1 - 1 + 1) : v[p] = s[1 + p - 1]
  BY <1>2, Part
<1> HIDE DEF u, v
<1>5. Len(u) = Len(v) /\ \A p \in 1..Len(u) : u[p] = v[p]
  BY <1>0, <1>1, <1>3, <1>4
<1>6. u = v
  BY ONLY <1>3, <1>4, <1>5, SeqEqual
<1> QED BY <1>6 DEF u, v, c

LEMMA FrontIs ==
    ASSUME NEW S, NEW s \in Seq(S), s # <<>>
    PROVE  /\ Front(s) \in Seq(S) /\ Len(Front(s)) = Len(s) - 1
           /\ \A p \in 1..(Len(s) - 1) : Front(s)[p] = s[p]
<1>1. Len(s) \in Nat /\ Len(s) >= 1
  BY EmptySeq
<1>2. 1 \in 1..(Len(s) + 1) /\ Len(s) - 1 \in (1 - 1)..Len(s)
  BY <1>1
<1>3. /\ SubSeq(s, 1, Len(s) - 1) \in Seq(S)
      /\ Len(SubSeq(s, 1, Len(s) - 1)) = Len(s) - 1 - 1 + 1
      /\ \A p \in 1..(Len(s) - 1 - 1 + 1) : SubSeq(s, 1, Len(s) - 1)[p] = s[1 + p - 1]
  BY <1>2, Part
<1> QED BY <1>1, <1>3 DEF Front

LEMMA FrontAppend ==
    ASSUME NEW S, NEW s \in Seq(S), NEW e \in S
    PROVE  Append(s, e) # <<>> /\ Front(Append(s, e)) = s
<1> DEFINE t == Append(s, e)
<1>1. /\ t \in Seq(S) /\ t # <<>> /\ Len(t) = Len(s) + 1
      /\ \A p \in 1..Len(s) : t[p] = s[p]
  BY AppendProperties
<1> HIDE DEF t
<1>2. /\ Front(t) \in Seq(S) /\ Len(Front(t)) = Len(t) - 1
      /\ \A p \in 1..(Len(t) - 1) : Front(t)[p] = t[p]
  BY <1>1, FrontIs
<1>3. Len(s) \in Nat
  OBVIOUS
<1>4. Len(Front(t)) = Len(s) /\ \A p \in 1..Len(Front(t)) : Front(t)[p] = s[p]
  BY <1>1, <1>2, <1>3
<1> QED BY <1>1, <1>2, <1>4, SeqEqual DEF t

\* What is before the last occurrence of c, nothing if there is none.
LEMMA BeforeLast ==
    ASSUME NEW S, NEW s \in Seq(S), NEW c
    PROVE  LET r == SubSeq(s, 1, LastIndex(s, c) - 1)
           IN /\ r \in Seq(S)
              /\ Len(r) = IF LastIndex(s, c) = 0 THEN 0 ELSE LastIndex(s, c) - 1
              /\ Len(r) <= Len(s) /\ \A p \in 1..Len(r) : r[p] = s[p]
<1> DEFINE n == LastIndex(s, c)
<1>1. n \in 0..Len(s) /\ Len(s) \in Nat
  BY LastIs
<1> HIDE DEF n
<1>2. \A p \in 1..(n - 1) : s[p] \in S
  <2>1. \A p \in 1..(n - 1) : p \in 1..Len(s)
    BY <1>1
  <2> QED BY <2>1, ElementOfSeq
<1>3. n - 1 \in Int /\ 1 \in Int
  BY <1>1
<1>4. /\ SubSeq(s, 1, n - 1) \in Seq(S)
      /\ Len(SubSeq(s, 1, n - 1)) = IF 1 <= n - 1 THEN n - 1 - 1 + 1 ELSE 0
      /\ \A p \in 1..(n - 1 - 1 + 1) : SubSeq(s, 1, n - 1)[p] = s[1 + p - 1]
  BY <1>2, <1>3, SubSeqProperties
<1>5. /\ SubSeq(s, 1, n - 1) \in Seq(S)
      /\ Len(SubSeq(s, 1, n - 1)) = IF n = 0 THEN 0 ELSE n - 1
      /\ Len(SubSeq(s, 1, n - 1)) <= Len(s)
      /\ \A p \in 1..Len(SubSeq(s, 1, n - 1)) : SubSeq(s, 1, n - 1)[p] = s[p]
  BY <1>1, <1>4
<1> QED BY <1>5 DEF n

LEMMA LastOfBoth ==
    ASSUME NEW S, NEW s \in Seq(S), NEW t \in Seq(S), NEW c
    PROVE  LastIndex(s \o t, c) = IF LastIndex(t, c) > 0 THEN Len(s) + LastIndex(t, c)
                                  ELSE LastIndex(s, c)
<1> DEFINE a == LastIndex(s, c)
           b == LastIndex(t, c)
           both == s \o t
           n == IF b > 0 THEN Len(s) + b ELSE a
<1>1. /\ a \in 0..Len(s) /\ (a > 0 => s[a] = c)
      /\ \A p \in 1..Len(s) : p > a => s[p] # c
  BY LastIs
<1>2. /\ b \in 0..Len(t) /\ (b > 0 => t[b] = c)
      /\ \A p \in 1..Len(t) : p > b => t[p] # c
  BY LastIs
<1>3. /\ both \in Seq(S) /\ Len(both) = Len(s) + Len(t)
      /\ \A p \in 1..(Len(s) + Len(t)) :
            both[p] = IF p <= Len(s) THEN s[p] ELSE t[p - Len(s)]
  BY ConcatProperties
<1>4. Len(s) \in Nat /\ Len(t) \in Nat
  OBVIOUS
<1> HIDE DEF a, b, both
<1>5. n \in 0..Len(both)
  BY <1>1, <1>2, <1>3, <1>4
<1>6. ASSUME n > 0 PROVE both[n] = c
  <2>1. CASE b > 0
    <3>1. n \in 1..(Len(s) + Len(t)) /\ ~ (n <= Len(s)) /\ n - Len(s) = b
      BY <1>2, <1>4, <2>1
    <3> QED BY <1>2, <1>3, <2>1, <3>1
  <2>2. CASE ~ (b > 0)
    <3>1. n = a /\ n \in 1..(Len(s) + Len(t)) /\ n <= Len(s)
      BY <1>1, <1>4, <1>6, <2>2
    <3> QED BY <1>1, <1>3, <1>6, <3>1
  <2> QED BY <2>1, <2>2
<1>7. ASSUME NEW p \in 1..Len(both), p > n PROVE both[p] # c
  <2>0. p \in 1..(Len(s) + Len(t)) /\ p \in Nat
    BY <1>3, <1>4
  <2>1. CASE p <= Len(s)
    <3>1. p \in 1..Len(s) /\ p > a
      BY <1>1, <1>2, <1>4, <1>7, <2>0, <2>1
    <3> QED BY <1>1, <1>3, <2>0, <2>1, <3>1
  <2>2. CASE ~ (p <= Len(s))
    <3>1. p - Len(s) \in 1..Len(t) /\ p - Len(s) > b
      BY <1>1, <1>2, <1>4, <1>7, <2>0, <2>2
    <3> QED BY <1>2, <1>3, <2>0, <2>2, <3>1
  <2> QED BY <2>1, <2>2
<1> HIDE DEF n
<1>8. LastIndex(both, c) = n
  BY ONLY <1>3, <1>5, <1>6, <1>7, LastUnique
<1> QED BY <1>8 DEF n, a, b, both

\* The end of a stream that grew, and a part of it from before it grew.
LEMMA PartOfLonger ==
    ASSUME NEW S, NEW s \in Seq(S), NEW t \in Seq(S), NEW i \in 1..(Len(s) + 1),
           NEW j \in (i - 1)..Len(s)
    PROVE  /\ SubSeq(s \o t, i, j) = SubSeq(s, i, j)
           /\ SubSeq(s \o t, i, Len(s) + Len(t)) = SubSeq(s, i, Len(s)) \o t
<1> DEFINE st == s \o t
<1>0. Len(s) \in Nat /\ Len(t) \in Nat /\ i \in Nat /\ j \in Nat
      /\ 1 <= i /\ i <= Len(s) + 1 /\ i - 1 <= j /\ j <= Len(s)
  OBVIOUS
<1>1. /\ st \in Seq(S) /\ Len(st) = Len(s) + Len(t)
      /\ \A p \in 1..(Len(s) + Len(t)) : st[p] = IF p <= Len(s) THEN s[p] ELSE t[p - Len(s)]
  BY ConcatProperties
<1> HIDE DEF st
<1>2. SubSeq(st, i, j) = SubSeq(s, i, j)
  <2> DEFINE u == SubSeq(st, i, j)
             v == SubSeq(s, i, j)
  <2>1. i \in 1..(Len(st) + 1) /\ j \in (i - 1)..Len(st)
    BY <1>0, <1>1
  <2>2. /\ u \in Seq(S) /\ Len(u) = j - i + 1
        /\ \A p \in 1..(j - i + 1) : u[p] = st[i + p - 1]
    BY <1>1, <2>1, Part
  <2>3. /\ v \in Seq(S) /\ Len(v) = j - i + 1
        /\ \A p \in 1..(j - i + 1) : v[p] = s[i + p - 1]
    BY Part
  <2> HIDE DEF u, v
  <2>4. \A p \in 1..Len(u) : u[p] = v[p]
    <3> SUFFICES ASSUME NEW p \in 1..Len(u) PROVE u[p] = v[p]
      OBVIOUS
    <3>1. p \in 1..(j - i + 1) /\ i + p - 1 \in 1..(Len(s) + Len(t)) /\ i + p - 1 <= Len(s)
      BY <1>0, <2>2
    <3> QED BY <1>1, <2>2, <2>3, <3>1
  <2> QED BY <2>2, <2>3, <2>4, SeqEqual DEF u, v
<1>3. SubSeq(st, i, Len(s) + Len(t)) = SubSeq(s, i, Len(s)) \o t
  <2> DEFINE u == SubSeq(st, i, Len(s) + Len(t))
             v == SubSeq(s, i, Len(s))
             m == Len(s) - i + 1
  <2>1. i \in 1..(Len(st) + 1) /\ Len(s) + Len(t) \in (i - 1)..Len(st)
        /\ Len(s) \in (i - 1)..Len(s)
    BY <1>0, <1>1
  <2>2. /\ u \in Seq(S) /\ Len(u) = Len(s) + Len(t) - i + 1
        /\ \A p \in 1..(Len(s) + Len(t) - i + 1) : u[p] = st[i + p - 1]
    BY <1>1, <2>1, Part, SMTT(30)
  <2>3. v \in Seq(S) /\ Len(v) = m /\ \A p \in 1..m : v[p] = s[i + p - 1]
    BY <2>1, Part
  <2> HIDE DEF u, v
  <2> HIDE DEF m
  <2>4. /\ v \o t \in Seq(S) /\ Len(v \o t) = m + Len(t)
        /\ \A p \in 1..(m + Len(t)) : (v \o t)[p] = IF p <= m THEN v[p] ELSE t[p - m]
    <3>1. /\ v \o t \in Seq(S) /\ Len(v \o t) = Len(v) + Len(t)
          /\ \A p \in 1..(Len(v) + Len(t)) :
                (v \o t)[p] = IF p <= Len(v) THEN v[p] ELSE t[p - Len(v)]
      BY <2>3, ConcatProperties
    <3> QED BY <2>3, <3>1
  <2>5. \A p \in 1..Len(u) : u[p] = (v \o t)[p]
    <3> SUFFICES ASSUME NEW p \in 1..Len(u) PROVE u[p] = (v \o t)[p]
      OBVIOUS
    <3>1. /\ p \in 1..(Len(s) + Len(t) - i + 1) /\ i + p - 1 \in 1..(Len(s) + Len(t))
          /\ p \in 1..(m + Len(t))
      BY <1>0, <2>2 DEF m
    <3>2. u[p] = IF i + p - 1 <= Len(s) THEN s[i + p - 1] ELSE t[i + p - 1 - Len(s)]
      <4> DEFINE q == i + p - 1
      <4>1. u[p] = st[q]
        BY <2>2, <3>1
      <4>2. q \in 1..(Len(s) + Len(t))
        BY <3>1
      <4> HIDE DEF q
      <4>3. u[p] = IF q <= Len(s) THEN s[q] ELSE t[q - Len(s)]
        BY <1>1, <4>1, <4>2
      <4> QED BY <4>3 DEF q
    <3>3. CASE p <= m
      <4>1. i + p - 1 <= Len(s) /\ p \in 1..m
        BY <1>0, <3>1, <3>3 DEF m
      <4> QED BY <2>3, <2>4, <3>1, <3>2, <3>3, <4>1
    <3>4. CASE ~ (p <= m)
      <4>1. ~ (i + p - 1 <= Len(s)) /\ i + p - 1 - Len(s) = p - m
        BY <1>0, <3>1, <3>4 DEF m
      <4> QED BY <2>4, <3>1, <3>2, <3>4, <4>1
    <3> QED BY <3>3, <3>4
  <2>6. Len(u) = Len(v \o t)
    BY <1>0, <2>2, <2>4 DEF m
  <2> QED BY <2>2, <2>4, <2>5, <2>6, SeqEqual DEF u, v
<1> QED BY <1>2, <1>3 DEF st

------------------------------------------------------------------------------
(* Items *)

\* Which item it is shows in its length and its first two characters.
LEMMA ItemIs ==
    ASSUME NEW item, Item(item)
    PROVE  /\ item \in Seq(Char) /\ Len(item) \in Nat /\ Len(item) >= 1
           /\ \A j \in 1..Len(item) : item[j] = "IAC" => j = 1 /\ IsCommand(item)
           /\ IsPlain(item) => Len(item) = 1 /\ item[1] \in Text \cup {"LF"}
           /\ IsCommand(item) => Len(item) = 3 /\ item[1] = "IAC"
           /\ IsLineEnd(item) => /\ Len(item) = 2 /\ item[1] = "CR"
                                 /\ item[2] \in {"LF", "NUL"}
           /\ IsDrawing(item) => \/ item[1] = "ESC" /\ Len(item) >= 3
                                 \/ item[1] \in OtherControl /\ Len(item) = 1
           /\ IsKey(item) => Len(item) = 4 /\ item[1] = "ESC"
<1>1. item \in Seq(Char) /\ Len(item) \in Nat
  <2>1. item \in Seq(Char)
    BY DEF Item
  <2> QED BY <2>1, LenProperties
<1>2. IsPlain(item) => Len(item) = 1 /\ item[1] \in Text \cup {"LF"}
  BY DEF IsPlain
<1>3. IsCommand(item) => Len(item) = 3 /\ item[1] = "IAC"
  BY DEF IsCommand
<1>4. IsLineEnd(item) => Len(item) = 2 /\ item[1] = "CR" /\ item[2] \in {"LF", "NUL"}
  <2>1. ASSUME item = <<"CR", "LF">>
        PROVE  Len(item) = 2 /\ item[1] = "CR" /\ item[2] = "LF"
    BY ONLY <2>1
  <2>2. ASSUME item = <<"CR", "NUL">>
        PROVE  Len(item) = 2 /\ item[1] = "CR" /\ item[2] = "NUL"
    BY ONLY <2>2
  <2> QED BY <2>1, <2>2 DEF IsLineEnd
<1>5. IsDrawing(item) => \/ item[1] = "ESC" /\ Len(item) >= 3
                         \/ item[1] \in OtherControl /\ Len(item) = 1
  <2>1. IsColour(item) => item[1] = "ESC" /\ Len(item) >= 3
    BY <1>1 DEF IsColour
  <2>2. IsMove(item) => item[1] = "ESC" /\ Len(item) >= 3
    BY <1>1 DEF IsMove
  <2>3. IsTitle(item) => item[1] = "ESC" /\ Len(item) >= 3
    <3>1. IsTitle(item) => item[1] = "ESC" /\ Len(item) > 4
      BY Zenon DEF IsTitle
    <3> QED BY <1>1, <3>1
  <2>4. IsKey(item) => item[1] = "ESC" /\ Len(item) >= 3
    BY <1>1 DEF IsKey
  <2> QED BY <2>1, <2>2, <2>3, <2>4 DEF IsDrawing
<1>6. IsKey(item) => Len(item) = 4 /\ item[1] = "ESC"
  BY DEF IsKey
<1>7. ASSUME NEW c, item = <<c>> PROVE Len(item) = 1 /\ item[1] = c
  BY ONLY <1>7
<1>8. Len(item) >= 1
  <2>1. \/ IsPlain(item) \/ IsCommand(item) \/ IsLineEnd(item) \/ IsDrawing(item)
        \/ item = <<"CR">> \/ item = <<"BS">>
    BY DEF Item
  <2> QED BY <1>1, <1>2, <1>3, <1>4, <1>5, <1>7, <2>1
<1>9. ASSUME NEW j \in 1..Len(item), item[j] = "IAC" PROVE j = 1 /\ IsCommand(item)
  <2>0. "IAC" \notin Text
    BY ReadAssumption DEF Special
  <2>1. CASE IsPlain(item)
    <3>1. Len(item) = 1 /\ item[1] # "IAC"
      BY <1>2, <2>0, <2>1
    <3>2. j = 1
      BY ONLY <3>1, <1>9
    <3> QED BY <1>9, <3>1, <3>2
  <2>2. CASE IsCommand(item)
    <3>0. Len(item) = 3
      BY <1>3, <2>2
    <3>1. j \in {1, 2, 3}
      BY ONLY <3>0, <1>9
    <3> QED BY <1>9, <2>2, <3>1 DEF IsCommand, Commands, OtherControl
  <2>3. CASE IsLineEnd(item)
    <3>0. Len(item) = 2
      BY <1>4, <2>3
    <3>1. j = 1 \/ j = 2
      BY ONLY <3>0, <1>9
    <3> QED BY <1>4, <1>9, <2>3, <3>1
  <2>4. CASE IsColour(item)
    <3>1. j \in 3..(Len(item) - 1) \/ j = 1 \/ j = 2 \/ j = Len(item)
      BY <1>1
    <3> QED BY <1>9, <2>4, <3>1 DEF IsColour, Digits, Last
  <2>5. CASE IsMove(item)
    <3>0. Len(item) = 3
      BY <2>5 DEF IsMove
    <3>1. j = 1 \/ j = 2 \/ j = 3
      BY ONLY <3>0, <1>9
    <3> QED BY <1>9, <2>5, <3>1 DEF IsMove, Moves
  <2>6. CASE IsTitle(item)
    <3>1. j \in 5..(Len(item) - 1) \/ j \in {1, 2, 3, 4} \/ j = Len(item)
      BY <1>1
    <3> QED BY <1>9, <2>0, <2>6, <3>1 DEF IsTitle, Last
  <2>7. CASE Len(item) = 1 /\ item[1] \in OtherControl
    BY <1>9, <2>7 DEF OtherControl
  <2>8. CASE IsKey(item)
    <3>0. Len(item) = 4
      BY <1>6, <2>8
    <3>1. j \in {1, 2, 3, 4}
      BY ONLY <3>0, <1>9
    <3> QED BY <1>9, <2>8, <3>1 DEF IsKey, Tildes
  <2>9. CASE item = <<"CR">> \/ item = <<"BS">>
    BY <1>7, <1>9, <2>9
  <2> QED BY <2>1, <2>2, <2>3, <2>4, <2>5, <2>6, <2>7, <2>8, <2>9 DEF Item, IsDrawing
<1> QED BY <1>1, <1>2, <1>3, <1>4, <1>5, <1>6, <1>8, <1>9

\* What the reference keeps of each kind of item.
LEMMA ShownIs ==
    ASSUME NEW item, Item(item), NEW text
    PROVE  /\ IsPlain(item) => Shown(FALSE, text, item) = text \o item
           /\ IsLineEnd(item) => Shown(FALSE, text, item) = text \o <<"CR", "LF">>
           /\ item = <<"CR">> =>
                Shown(FALSE, text, item) = SubSeq(text, 1, LastIndex(text, "LF"))
           /\ item = <<"BS">> =>
                Shown(FALSE, text, item) = IF text = <<>> THEN text ELSE Front(text)
           /\ IsDrawing(item) => Shown(FALSE, text, item) = text
<1> DEFINE cr == <<"CR">>
           bs == <<"BS">>
           nul == <<"CR", "NUL">>
           lf == <<"CR", "LF">>
<1>1. /\ Len(cr) = 1 /\ cr[1] = "CR" /\ Len(bs) = 1 /\ bs[1] = "BS"
      /\ Len(nul) = 2 /\ nul[1] = "CR" /\ Len(lf) = 2 /\ lf[1] = "CR" /\ nul # lf
  <2>1. nul[2] = "NUL" /\ lf[2] = "LF"
    OBVIOUS
  <2> QED BY <2>1
<1>2. \A c \in {"CR", "BS", "ESC", "IAC"} : c \notin Text \cup {"LF"} \cup OtherControl
  BY ReadAssumption DEF Special, OtherControl
<1>2a. \A c \in Text \cup {"LF"} : c \notin OtherControl
  BY ReadAssumption DEF Special, OtherControl
<1> HIDE DEF cr, bs, nul, lf
<1>3. Shown(FALSE, text, item) =
        IF IsCommand(item) THEN text
        ELSE CASE item = nul       -> text \o <<"CR", "LF">>
               [] item = cr        -> SubSeq(text, 1, LastIndex(text, "LF"))
               [] item = bs        -> IF text = <<>> THEN text ELSE Front(text)
               [] IsDrawing(item)  -> text
               [] OTHER            -> text \o item
  BY DEF Shown, nul, cr, bs
<1>4. ASSUME IsPlain(item) PROVE Shown(FALSE, text, item) = text \o item
  <2>1. /\ ~ IsCommand(item) /\ item # nul /\ item # cr /\ item # bs
        /\ ~ IsDrawing(item)
    BY <1>1, <1>2, <1>2a, <1>4, ItemIs
  <2> QED BY <1>3, <2>1
<1>5. ASSUME IsLineEnd(item) PROVE Shown(FALSE, text, item) = text \o <<"CR", "LF">>
  <2>1. /\ ~ IsCommand(item) /\ item # cr /\ item # bs
        /\ ~ IsDrawing(item) /\ (item = nul \/ item = lf)
    BY <1>1, <1>2, <1>5, ItemIs DEF IsLineEnd, nul, lf
  <2>2. CASE item = nul
    BY <1>3, <2>1, <2>2
  <2>3. CASE item = lf
    <3>1. item # nul
      BY <1>1, <2>3
    <3>2. Shown(FALSE, text, item) = text \o item
      BY <1>3, <2>1, <3>1
    <3> QED BY <2>3, <3>2 DEF lf
  <2> QED BY <2>1, <2>2, <2>3
<1>6. ASSUME item = cr
      PROVE  Shown(FALSE, text, item) = SubSeq(text, 1, LastIndex(text, "LF"))
  <2>1. ~ IsCommand(item) /\ item # nul /\ item # bs /\ ~ IsDrawing(item)
    BY <1>1, <1>2, <1>6, ItemIs
  <2> QED BY <1>3, <1>6, <2>1
<1>7. ASSUME item = bs PROVE Shown(FALSE, text, item) = IF text = <<>> THEN text ELSE Front(text)
  <2>1. ~ IsCommand(item) /\ item # nul /\ item # cr /\ ~ IsDrawing(item)
    BY <1>1, <1>2, <1>7, ItemIs
  <2> QED BY <1>3, <1>7, <2>1
<1>8. ASSUME IsDrawing(item) PROVE Shown(FALSE, text, item) = text
  <2>1. ~ IsCommand(item) /\ item # nul /\ item # cr /\ item # bs
    BY <1>1, <1>2, <1>8, ItemIs
  <2> QED BY <1>3, <1>8, <2>1
<1> QED BY <1>4, <1>5, <1>6, <1>7, <1>8 DEF cr, bs

LEMMA ShownKept ==
    ASSUME NEW whole, NEW item, NEW text
    PROVE  /\ IsCommand(item) => Shown(whole, text, item) = text
           /\ whole /\ ~ IsCommand(item) => Shown(whole, text, item) = text \o item
<1> DEFINE rest == CASE item = <<"CR", "NUL">> -> text \o <<"CR", "LF">>
                     [] item = <<"CR">> -> SubSeq(text, 1, LastIndex(text, "LF"))
                     [] item = <<"BS">> -> IF text = <<>> THEN text ELSE Front(text)
                     [] IsDrawing(item) -> text
                     [] OTHER -> text \o item
<1>1. Shown(whole, text, item) = IF IsCommand(item) THEN text
                          ELSE IF whole THEN text \o item ELSE rest
  BY Zenon DEF Shown
<1> HIDE DEF rest
<1> QED BY <1>1

------------------------------------------------------------------------------
(* Where removeControlChars is, and what one iteration of it does *)

LoopType == suffix \in Seq(Char) /\ at \in 1..(Len(suffix) + 1) /\ buf \in Seq(Char)

\* suffix ends where the last read ended in the stream; From is where it begins.  Pos
\* is the place in the stream of the last character done with, Kept what is left of it.
From == taken - Len(suffix)
Pos == From + at - 1
Kept == buf \o SubSeq(suffix, 1, at - 1)
Unread(i) == \A j \in i..Len(suffix) : suffix[j] = stream[From + j]

LEMMA KeptType ==
    ASSUME LoopType
    PROVE  /\ Kept \in Seq(Char) /\ SubSeq(suffix, 1, at - 1) \in Seq(Char)
           /\ Len(SubSeq(suffix, 1, at - 1)) = at - 1
           /\ at = 1 => Kept = buf
<1>1. 1 \in 1..(Len(suffix) + 1) /\ at - 1 \in (1 - 1)..Len(suffix)
  BY DEF LoopType
<1>2. /\ SubSeq(suffix, 1, at - 1) \in Seq(Char)
      /\ Len(SubSeq(suffix, 1, at - 1)) = at - 1 - 1 + 1
  BY <1>1, Part DEF LoopType
<1>3. Kept \in Seq(Char)
  BY <1>2, ConcatProperties DEF Kept, LoopType
<1>4. ASSUME at = 1 PROVE Kept = buf
  <2>1. SubSeq(suffix, 1, at - 1) = <<>>
    BY <1>4, SubSeqEmpty
  <2> QED BY <2>1, ConcatEmptySeq DEF Kept, LoopType
<1>5. at - 1 - 1 + 1 = at - 1
  BY DEF LoopType
<1> QED BY <1>2, <1>3, <1>4, <1>5

LEMMA OrdinaryDoes ==
    ASSUME LoopType, taken \in Nat, Len(suffix) <= taken, Ordinary
    PROVE  /\ LoopType' /\ Len(suffix') <= taken' /\ Pos' = Pos + 1
           /\ Kept' = Append(Kept, suffix[at])
           /\ Unread(at + 1) => Unread(at)'
<1>0. /\ suffix' = suffix /\ at' = at + 1 /\ buf' = buf /\ taken' = taken /\ stream' = stream
      /\ at <= Len(suffix)
  BY DEF Ordinary, GoOn, inVars
<1>1. Len(suffix) \in Nat /\ at \in Nat /\ at \in 1..Len(suffix)
  BY <1>0 DEF LoopType
<1>2. LoopType'
  BY <1>0, <1>1 DEF LoopType
<1>3. Pos' = Pos + 1
  BY <1>0, <1>1 DEF Pos, From
<1>4. Kept' = Append(Kept, suffix[at])
  <2>1. at' - 1 = at
    BY <1>0, <1>1
  <2>2. buf \o SubSeq(suffix, 1, at) = Append(buf \o SubSeq(suffix, 1, at - 1), suffix[at])
    BY <1>1, PartNext DEF LoopType
  <2> QED BY <1>0, <2>1, <2>2 DEF Kept
<1>5. Unread(at + 1) => Unread(at)'
  BY <1>0 DEF Unread, From
<1> QED BY <1>0, <1>2, <1>3, <1>4, <1>5

LEMMA LineEndDoes ==
    ASSUME LoopType, taken \in Nat, Len(suffix) <= taken, LineEnd
    PROVE  /\ LoopType' /\ Len(suffix') <= taken' /\ Pos' = Pos + 1
           /\ Kept' = Append(Kept, "CR")
           /\ at' <= Len(suffix') /\ suffix'[at'] = "LF"
           /\ Unread(at) => Unread(at + 1)'
<1>0. /\ suffix' = [suffix EXCEPT ![at + 1] = "LF"] /\ at' = at + 1 /\ buf' = buf
      /\ taken' = taken /\ stream' = stream
      /\ at < Len(suffix) /\ suffix[at] = "CR"
  BY DEF LineEnd, LineEnds, Finds, GoOn, inVars
<1>1. /\ Len(suffix) \in Nat /\ at \in Nat /\ at \in 1..Len(suffix)
      /\ at + 1 \in 1..Len(suffix) /\ "LF" \in Char /\ suffix \in Seq(Char)
  <2>1. "LF" \in Char
    BY Zenon DEF Char, Special
  <2> QED BY <1>0, <2>1 DEF LoopType
<1>2. /\ suffix' \in Seq(Char) /\ Len(suffix') = Len(suffix)
      /\ \A j \in 1..Len(suffix) : suffix'[j] = IF j = at + 1 THEN "LF" ELSE suffix[j]
  BY <1>0, <1>1, ExceptSeq
<1>3. LoopType'
  BY <1>0, <1>1, <1>2 DEF LoopType
<1>4. Pos' = Pos + 1
  BY <1>0, <1>1, <1>2 DEF Pos, From
<1>5. Kept' = Append(Kept, "CR")
  <2> DEFINE u == SubSeq(suffix, 1, at)
             v == SubSeq(suffix', 1, at)
  <2>1. 1 \in 1..(Len(suffix) + 1) /\ at \in (1 - 1)..Len(suffix)
    BY <1>1
  <2>2. /\ u \in Seq(Char) /\ Len(u) = at - 1 + 1
        /\ \A p \in 1..(at - 1 + 1) : u[p] = suffix[1 + p - 1]
    BY <1>1, <2>1, Part
  <2>3. /\ v \in Seq(Char) /\ Len(v) = at - 1 + 1
        /\ \A p \in 1..(at - 1 + 1) : v[p] = suffix'[1 + p - 1]
    BY <1>2, <2>1, Part
  <2> HIDE DEF u, v
  <2>4. \A p \in 1..Len(u) : u[p] = v[p]
    <3> SUFFICES ASSUME NEW p \in 1..Len(u) PROVE u[p] = v[p]
      OBVIOUS
    <3>1. p \in 1..(at - 1 + 1) /\ p \in 1..Len(suffix) /\ p # at + 1 /\ 1 + p - 1 = p
      BY <1>1, <2>2
    <3> QED BY <1>2, <2>2, <2>3, <3>1
  <2>5. u = v
    BY ONLY <2>2, <2>3, <2>4, SeqEqual
  <2>6. buf \o u = Append(buf \o SubSeq(suffix, 1, at - 1), suffix[at])
    BY <1>1, PartNext DEF LoopType, u
  <2>7. at' - 1 = at
    BY <1>0, <1>1
  <2> QED BY <1>0, <2>5, <2>6, <2>7 DEF Kept, v
<1>6. Unread(at) => Unread(at + 1)'
  <2> SUFFICES ASSUME Unread(at), NEW j \in (at' + 1)..Len(suffix')
               PROVE  suffix'[j] = stream'[From' + j]
    BY DEF Unread
  <2>1. j \in 1..Len(suffix) /\ j \in at..Len(suffix) /\ j # at + 1
    BY <1>0, <1>1, <1>2
  <2> QED BY <1>0, <1>2, <2>1 DEF Unread, From
<1>7. at' <= Len(suffix') /\ suffix'[at'] = "LF"
  BY <1>0, <1>1, <1>2
<1> QED BY <1>0, <1>2, <1>3, <1>4, <1>5, <1>6, <1>7

LEMMA CutHead ==
    ASSUME NEW S, NEW s \in Seq(S), NEW j \in 1..Len(s)
    PROVE  SubSeq(s, j + 1, Len(s)) = Cut(s, 1, j) /\ Tail(s) = Cut(s, 1, 1)
<1>1. ASSUME NEW i \in 1..Len(s) PROVE SubSeq(s, i + 1, Len(s)) = Cut(s, 1, i)
  <2>1. i + 1 \in 1..(Len(s) + 1) /\ Len(s) \in (i + 1 - 1)..Len(s)
    OBVIOUS
  <2>2. SubSeq(s, i + 1, Len(s)) \in Seq(S)
    BY <2>1, Part
  <2>3. SubSeq(s, 1, 1 - 1) = <<>>
    BY SubSeqEmpty
  <2> QED BY <2>2, <2>3, ConcatEmptySeq DEF Cut
<1>2. 1 \in 1..Len(s) /\ s # <<>> /\ 1 + 1 = 2
  BY EmptySeq
<1>3. Tail(s) = SubSeq(s, 2, Len(s))
  BY <1>2, TailIsSubSeq
<1>4. SubSeq(s, 1 + 1, Len(s)) = Cut(s, 1, 1)
  BY <1>1, <1>2
<1> QED BY <1>1, <1>2, <1>3, <1>4

\* Whatever goes around the place where the loop is, the loop is then at what was next.
LEMMA CutDoes ==
    ASSUME LoopType, taken \in Nat, Len(suffix) <= taken,
           NEW i \in 1..at, NEW j \in at..Len(suffix),
           suffix' = Cut(suffix, i, j), at' = i, taken' = taken, stream' = stream
    PROVE  /\ suffix' \in Seq(Char) /\ at' \in 1..(Len(suffix') + 1) /\ Len(suffix') <= taken'
           /\ Len(suffix') = Len(suffix) - (j - i + 1) /\ Pos' = Pos + (j - at + 1)
           /\ SubSeq(suffix', 1, at' - 1) = SubSeq(suffix, 1, i - 1)
           /\ \A p \in i..Len(suffix') : suffix'[p] = suffix[p + (j - i + 1)]
           /\ Unread(j + 1) => Unread(at)'
<1> DEFINE n == Len(suffix)
<1>0. /\ n \in Nat /\ at \in Nat /\ i \in Nat /\ j \in Nat
      /\ 1 <= i /\ i <= at /\ at <= j /\ j <= n
      /\ i \in 1..Len(suffix) /\ j \in i..Len(suffix) /\ suffix \in Seq(Char)
  BY DEF LoopType
<1>1. /\ suffix' \in Seq(Char) /\ Len(suffix') = n - (j - i + 1)
      /\ \A p \in i..(n - (j - i + 1)) : suffix'[p] = suffix[p + (j - i + 1)]
  BY <1>0, CutIs
<1>2. SubSeq(suffix', 1, at' - 1) = SubSeq(suffix, 1, i - 1)
  BY <1>0, PartOfCut
<1>3. From = taken - n /\ From' = taken - Len(suffix')
  BY DEF From
<1> HIDE DEF n
<1>4. at' \in 1..(Len(suffix') + 1) /\ Len(suffix') <= n
  BY ONLY <1>0, <1>1, at' = i
<1>5. Pos' = Pos + (j - at + 1)
  <2>1. Pos = From + at - 1 /\ Pos' = From' + i - 1
    BY DEF Pos
  <2> QED BY ONLY <1>0, <1>1, <1>3, <2>1, taken \in Nat
<1>6. ASSUME Unread(j + 1) PROVE Unread(at)'
  <2> SUFFICES ASSUME NEW p \in at'..Len(suffix') PROVE suffix'[p] = stream'[From' + p]
    BY DEF Unread
  <2> DEFINE q == p + (j - i + 1)
  <2>1. /\ p \in i..(n - (j - i + 1)) /\ q \in (j + 1)..n /\ From + q = From' + p
    BY ONLY <1>0, <1>1, <1>3, p \in at'..Len(suffix'), at' = i, taken \in Nat
  <2>2. suffix'[p] = suffix[q]
    BY <1>1, <2>1
  <2> HIDE DEF q
  <2>3. suffix[q] = stream[From + q]
    BY <1>6, <2>1 DEF Unread, n
  <2> QED BY <2>1, <2>2, <2>3
<1>7. Len(suffix') <= taken' /\ Len(suffix') = Len(suffix) - (j - i + 1)
  BY <1>0, <1>1, <1>4 DEF n
<1> QED BY <1>1, <1>2, <1>4, <1>5, <1>6, <1>7

LEMMA ControlDoes ==
    ASSUME LoopType, taken \in Nat, Len(suffix) <= taken, Control
    PROVE  /\ LoopType' /\ Len(suffix') <= taken' /\ Pos' = Pos + 1
           /\ Kept' = Kept /\ (Unread(at + 1) => Unread(at)')
<1>0. /\ suffix' = Cut(suffix, at, at) /\ at' = at /\ buf' = buf
      /\ taken' = taken /\ stream' = stream /\ at <= Len(suffix)
  BY DEF Control, Finds, GoOn, inVars
<1>1. at \in 1..at /\ at \in at..Len(suffix)
  BY <1>0 DEF LoopType
<1>2. /\ suffix' \in Seq(Char) /\ at' \in 1..(Len(suffix') + 1) /\ Len(suffix') <= taken'
      /\ Pos' = Pos + (at - at + 1)
      /\ SubSeq(suffix', 1, at' - 1) = SubSeq(suffix, 1, at - 1)
      /\ Unread(at + 1) => Unread(at)'
  BY <1>0, <1>1, CutDoes
<1>3. at - at + 1 = 1
  BY <1>1
<1> QED BY <1>0, <1>2, <1>3 DEF LoopType, Kept

LEMMA BackspaceDoes ==
    ASSUME LoopType, taken \in Nat, Len(suffix) <= taken, Backspace
    PROVE  /\ LoopType' /\ Len(suffix') <= taken' /\ Pos' = Pos + 1
           /\ Kept' = IF Kept = <<>> THEN Kept ELSE Front(Kept)
           /\ Unread(at + 1) => Unread(at)'
<1>0. taken' = taken /\ stream' = stream /\ at <= Len(suffix)
  BY DEF Backspace, Finds, GoOn, inVars
<1>1. at \in Nat /\ at \in at..Len(suffix) /\ at \in 1..Len(suffix) /\ at - at + 1 = 1
  BY <1>0 DEF LoopType
<1>2. CASE at > 1
  <2>1. suffix' = Cut(suffix, at - 1, at) /\ at' = at - 1 /\ buf' = buf
    BY <1>2 DEF Backspace, GoOn
  <2>2. at - 1 \in 1..at /\ at - 1 \in 1..Len(suffix) /\ at - 1 \in Nat
    BY <1>1, <1>2
  <2>3. /\ suffix' \in Seq(Char) /\ at' \in 1..(Len(suffix') + 1) /\ Len(suffix') <= taken'
        /\ Pos' = Pos + (at - at + 1)
        /\ SubSeq(suffix', 1, at' - 1) = SubSeq(suffix, 1, at - 1 - 1)
        /\ Unread(at + 1) => Unread(at)'
    BY <1>0, <1>1, <2>1, <2>2, CutDoes
  <2>4. Kept = Append(buf \o SubSeq(suffix, 1, at - 1 - 1), suffix[at - 1])
    BY <2>2, PartNext DEF LoopType, Kept
  <2>5. buf \o SubSeq(suffix, 1, at - 1 - 1) \in Seq(Char) /\ suffix[at - 1] \in Char
    <3>1. 1 \in 1..(Len(suffix) + 1) /\ at - 1 - 1 \in (1 - 1)..Len(suffix)
      BY <2>2
    <3>2. SubSeq(suffix, 1, at - 1 - 1) \in Seq(Char)
      BY <3>1, Part DEF LoopType
    <3>3. suffix[at - 1] \in Char
      BY <2>2, ElementOfSeq DEF LoopType
    <3> QED BY <3>2, <3>3, ConcatProperties DEF LoopType
  <2>6. Kept # <<>> /\ Front(Kept) = buf \o SubSeq(suffix, 1, at - 1 - 1)
    BY <2>4, <2>5, FrontAppend
  <2> QED BY <1>1, <2>1, <2>3, <2>6 DEF LoopType, Kept
<1>3. CASE at = 1
  <2>1. /\ suffix' = Tail(suffix) /\ at' = 1
        /\ buf' = IF buf = <<>> THEN buf ELSE Front(buf)
    BY <1>3 DEF Backspace, GoOn
  <2>2. suffix' = Cut(suffix, 1, at)
    BY <1>1, <1>3, <2>1, CutHead DEF LoopType
  <2>3. 1 \in 1..at
    BY <1>3
  <2>4. /\ suffix' \in Seq(Char) /\ at' \in 1..(Len(suffix') + 1) /\ Len(suffix') <= taken'
        /\ Pos' = Pos + (at - at + 1)
        /\ Unread(at + 1) => Unread(at)'
    BY <1>0, <1>1, <2>1, <2>2, <2>3, CutDoes
  <2>5. buf' \in Seq(Char)
    BY <2>1, FrontIs DEF LoopType
  <2>6. Kept = buf
    BY <1>3, KeptType
  <2>7. Kept' = buf'
    <3>1. SubSeq(suffix', 1, at' - 1) = <<>>
      BY <2>1, SubSeqEmpty
    <3> QED BY <2>5, <3>1, ConcatEmptySeq DEF Kept
  <2> QED BY <1>1, <2>1, <2>4, <2>5, <2>6, <2>7 DEF LoopType
<1> QED BY <1>1, <1>2, <1>3

LEMMA ReturnInBufDoes ==
    ASSUME LoopType, taken \in Nat, Len(suffix) <= taken, ReturnInBuf
    PROVE  /\ LoopType' /\ Len(suffix') <= taken' /\ Pos' = Pos + 1
           /\ Kept' = SubSeq(Kept, 1, LastIndex(Kept, "LF") - 1)
           /\ Unread(at + 1) => Unread(at)'
<1> DEFINE t == SubSeq(suffix, 1, at - 1)
           n == LastIndex(buf, "LF")
<1>0. /\ suffix' = SubSeq(suffix, at + 1, Len(suffix)) /\ at' = 1
      /\ buf' = SubSeq(buf, 1, n - 1)
      /\ taken' = taken /\ stream' = stream /\ at <= Len(suffix)
      /\ LastIndex(t, "LF") = 0
  BY DEF ReturnInBuf, Finds, GoOn, inVars, LineStart
<1>1. /\ at \in Nat /\ at \in at..Len(suffix) /\ at \in 1..Len(suffix) /\ 1 \in 1..at
      /\ at - at + 1 = 1 /\ buf \in Seq(Char)
  BY <1>0 DEF LoopType
<1>2. suffix' = Cut(suffix, 1, at)
  BY <1>0, <1>1, CutHead DEF LoopType
<1>3. /\ suffix' \in Seq(Char) /\ at' \in 1..(Len(suffix') + 1) /\ Len(suffix') <= taken'
      /\ Pos' = Pos + (at - at + 1)
      /\ Unread(at + 1) => Unread(at)'
  BY <1>0, <1>1, <1>2, CutDoes
<1>4. buf' \in Seq(Char)
  BY <1>0, <1>1, BeforeLast
<1>5. Kept' = buf'
  <2>1. SubSeq(suffix', 1, at' - 1) = <<>>
    BY <1>0, SubSeqEmpty
  <2> QED BY <1>4, <2>1, ConcatEmptySeq DEF Kept
<1>6. t \in Seq(Char) /\ Kept = buf \o t
  BY KeptType DEF Kept
<1> HIDE DEF t
<1>7. LastIndex(Kept, "LF") = n
  BY <1>0, <1>1, <1>6, LastOfBoth
<1>8. SubSeq(Kept, 1, n - 1) = SubSeq(buf, 1, n - 1)
  <2>1. n \in 0..Len(buf)
    BY <1>1, LastIs
  <2> HIDE DEF n
  <2>2. CASE n = 0
    <3>1. n - 1 \in Int /\ n - 1 < 1
      BY <2>2
    <3>2. SubSeq(Kept, 1, n - 1) = <<>> /\ SubSeq(buf, 1, n - 1) = <<>>
      BY <3>1, SubSeqEmpty
    <3> QED BY <3>2
  <2>3. CASE n # 0
    <3>1. 1 \in 1..(Len(buf) + 1) /\ n - 1 \in (1 - 1)..Len(buf)
      BY <2>1, <2>3
    <3> QED BY <1>1, <1>6, <3>1, PartOfLonger
  <2> QED BY <2>2, <2>3
<1> QED BY <1>0, <1>1, <1>3, <1>4, <1>5, <1>7, <1>8 DEF LoopType

\* It is not on the first line of what is kept.
LEMMA ReturnInSuffixDoes ==
    ASSUME LoopType, taken \in Nat, Len(suffix) <= taken, ReturnInSuffix
    PROVE  /\ LoopType' /\ Len(suffix') <= taken' /\ Pos' = Pos + 1
           /\ LastIndex(Kept, "LF") > 0
           /\ Unread(at + 1) => Unread(at)'
<1> DEFINE t == SubSeq(suffix, 1, at - 1)
           n == LineStart
           from == IF n > 1 /\ suffix[n - 1] = "CR" THEN n - 1 ELSE n
<1>0. /\ suffix' = Cut(suffix, from, at) /\ at' = from
      /\ buf' = IF n = 1 /\ buf # <<>> /\ Last(buf) = "CR" THEN Front(buf) ELSE buf
      /\ taken' = taken /\ stream' = stream /\ at <= Len(suffix) /\ n > 0
      /\ n = LastIndex(t, "LF")
  BY DEF ReturnInSuffix, Finds, GoOn, inVars, LineStart
<1>1. /\ at \in Nat /\ at \in at..Len(suffix) /\ at \in 1..Len(suffix)
      /\ at - at + 1 = 1 /\ buf \in Seq(Char) /\ suffix \in Seq(Char)
      /\ Len(buf) \in Nat
  BY <1>0 DEF LoopType
<1>2. t \in Seq(Char) /\ Len(t) = at - 1 /\ Kept = buf \o t /\ Kept \in Seq(Char)
  BY KeptType DEF Kept
<1>3. n \in 1..(at - 1)
  <2>1. n \in 0..Len(t)
    BY <1>0, <1>2, LastIs
  <2> QED BY <1>0, <1>1, <1>2, <2>1
<1>4. from \in 1..at /\ from \in 1..Len(suffix) /\ n \in Nat
  BY <1>0, <1>1, <1>3
<1> HIDE DEF t, n, from
<1>5. /\ suffix' \in Seq(Char) /\ at' \in 1..(Len(suffix') + 1) /\ Len(suffix') <= taken'
      /\ Pos' = Pos + (at - at + 1)
      /\ SubSeq(suffix', 1, at' - 1) = SubSeq(suffix, 1, from - 1)
      /\ Unread(at + 1) => Unread(at)'
  BY <1>0, <1>1, <1>4, CutDoes
<1>6. buf' \in Seq(Char)
  BY <1>0, <1>1, FrontIs
<1>7. LastIndex(Kept, "LF") > 0
  <2>1. LastIndex(Kept, "LF") = Len(buf) + n
    BY <1>0, <1>1, <1>2, LastOfBoth
  <2> QED BY <1>0, <1>1, <1>4, <2>1
<1> QED BY <1>0, <1>1, <1>5, <1>6, <1>7 DEF LoopType

------------------------------------------------------------------------------
(* Escape sequences *)

\* The `m' after the digits is found, and nothing else.
LEMMA NumberIs ==
    ASSUME NEW s \in Seq(Char)
    PROVE  /\ PrefixNumberM(s) \in 0..Len(s)
           /\ \A n \in 2..Len(s) :
                s[n] = "m" /\ (\A j \in 1..(n - 1) : s[j] \in Digits) => PrefixNumberM(s) = n
           /\ Len(s) >= 1 /\ s[1] \notin Digits => PrefixNumberM(s) = 0
           /\ Len(s) >= 2 /\ s[2] \notin Digits \cup {"m"} => PrefixNumberM(s) = 0
<1> DEFINE ends == {i \in 2..Len(s) : s[i] = "m" /\ \A j \in 1..(i - 1) : s[j] \in Digits}
<1>0. Len(s) \in Nat
  OBVIOUS
<1>1. PrefixNumberM(s) = IF ends = {} THEN 0 ELSE CHOOSE i \in ends : TRUE
  BY DEF PrefixNumberM
<1>2. ASSUME NEW i \in ends
      PROVE  /\ i \in 2..Len(s) /\ s[i] = "m"
             /\ \A j \in 1..(i - 1) : s[j] \in Digits
  OBVIOUS
<1>3. ASSUME NEW n \in 2..Len(s), s[n] = "m", \A j \in 1..(n - 1) : s[j] \in Digits
      PROVE  n \in ends
  BY <1>3
<1> HIDE DEF ends
<1>4. PrefixNumberM(s) = 0 \/ PrefixNumberM(s) \in ends
  BY <1>1
<1>5. PrefixNumberM(s) \in 0..Len(s)
  BY <1>0, <1>2, <1>4
<1>6. ASSUME NEW n \in 2..Len(s), s[n] = "m", \A j \in 1..(n - 1) : s[j] \in Digits
      PROVE  PrefixNumberM(s) = n
  <2>1. n \in ends
    BY <1>3, <1>6
  <2>2. PrefixNumberM(s) \in ends
    BY <1>1, <2>1
  <2> DEFINE i == PrefixNumberM(s)
  <2>3. i \in 2..Len(s) /\ s[i] = "m" /\ \A j \in 1..(i - 1) : s[j] \in Digits
    BY <1>2, <2>2
  <2> HIDE DEF i
  <2>4. "m" \notin Digits
    BY DEF Digits
  <2>5. ~ (i \in 1..(n - 1)) /\ ~ (n \in 1..(i - 1))
    BY <1>6, <2>3, <2>4
  <2>6. i = n
    BY <2>3, <2>5
  <2> QED BY <2>6 DEF i
<1>7. ASSUME Len(s) >= 1, s[1] \notin Digits PROVE PrefixNumberM(s) = 0
  <2>1. ASSUME NEW i \in ends PROVE FALSE
    <3>1. i \in 2..Len(s) /\ \A j \in 1..(i - 1) : s[j] \in Digits
      BY <1>2
    <3>2. 1 \in 1..(i - 1)
      BY <3>1
    <3> QED BY <1>7, <3>1, <3>2
  <2> QED BY <1>4, <2>1
<1>8. ASSUME Len(s) >= 2, s[2] \notin Digits \cup {"m"} PROVE PrefixNumberM(s) = 0
  <2>1. ASSUME NEW i \in ends PROVE FALSE
    <3>1. i \in 2..Len(s) /\ s[i] = "m" /\ \A j \in 1..(i - 1) : s[j] \in Digits
      BY <1>2
    <3>2. i = 2 \/ 2 \in 1..(i - 1)
      BY <3>1
    <3> QED BY <1>8, <3>1, <3>2
  <2> QED BY <1>4, <2>1
<1> QED BY <1>5, <1>6, <1>7, <1>8

\* The first BEL ends a title.
LEMMA TitleIs ==
    ASSUME NEW s \in Seq(Char)
    PROVE  /\ PrefixTitle(s) \in 0..Len(s)
           /\ \A n \in 2..Len(s) :
                s[1] = ";" /\ s[n] = "BEL" /\ (\A j \in 1..(n - 1) : s[j] # "BEL")
                   => PrefixTitle(s) = n
<1> DEFINE bels == {i \in 1..Len(s) : s[i] = "BEL"}
<1>0. Len(s) \in Nat
  OBVIOUS
<1>1. PrefixTitle(s) = IF Len(s) >= 2 /\ s[1] = ";" /\ bels # {} THEN Min(bels) ELSE 0
  BY DEF PrefixTitle
<1>2. bels \in SUBSET Nat
  OBVIOUS
<1>3. \A i : i \in bels <=> i \in 1..Len(s) /\ s[i] = "BEL"
  OBVIOUS
<1> HIDE DEF bels
<1>4. bels # {} => Min(bels) \in bels /\ \A y \in bels : Min(bels) <= y
  BY <1>2, LeastOf
<1>5. PrefixTitle(s) \in 0..Len(s)
  <2>1. PrefixTitle(s) = 0 \/ PrefixTitle(s) \in bels
    BY <1>1, <1>4
  <2> QED BY <1>0, <1>3, <2>1
<1>6. ASSUME NEW n \in 2..Len(s), s[1] = ";", s[n] = "BEL", \A j \in 1..(n - 1) : s[j] # "BEL"
      PROVE  PrefixTitle(s) = n
  <2>0. n \in 1..Len(s) /\ Len(s) >= 2
    BY ONLY n \in 2..Len(s), <1>0
  <2>1. n \in bels
    BY <1>3, <1>6, <2>0
  <2>2. PrefixTitle(s) = Min(bels)
    BY <1>1, <1>6, <2>0, <2>1
  <2> DEFINE i == Min(bels)
  <2>3. i \in bels /\ i <= n
    BY <1>4, <2>1
  <2> HIDE DEF i
  <2>4. i \in 1..Len(s) /\ s[i] = "BEL"
    BY <1>3, <2>3
  <2>5. ~ (i \in 1..(n - 1))
    BY <1>6, <2>4
  <2>6. i = n
    BY <2>3, <2>4, <2>5
  <2> QED BY <2>2, <2>6 DEF i
<1> QED BY <1>5, <1>6

LEMMA EscapeSizeType ==
    ASSUME NEW s \in Seq(Char)
    PROVE  EscapeSize(s) \in 0..Len(s)
<1> DEFINE t == SubSeq(s, 3, Len(s))
           u == SubSeq(s, 4, Len(s))
           m == PrefixNumberM(t)
           title == PrefixTitle(u)
<1>0. Len(s) \in Nat
  OBVIOUS
<1>1. ASSUME 2 <= Len(s) PROVE m \in 0..(Len(s) - 2)
  <2>1. 3 \in 1..(Len(s) + 1) /\ Len(s) \in (3 - 1)..Len(s)
    BY <1>0, <1>1
  <2>2. t \in Seq(Char) /\ Len(t) = Len(s) - 3 + 1
    BY <2>1, Part
  <2> HIDE DEF t
  <2>3. m \in 0..Len(t)
    BY <2>2, NumberIs
  <2> QED BY <1>0, <2>2, <2>3
<1>2. ASSUME 3 <= Len(s) PROVE title \in 0..(Len(s) - 3)
  <2>1. 4 \in 1..(Len(s) + 1) /\ Len(s) \in (4 - 1)..Len(s)
    BY <1>0, <1>2
  <2>2. u \in Seq(Char) /\ Len(u) = Len(s) - 4 + 1
    BY <2>1, Part
  <2> HIDE DEF u
  <2>3. title \in 0..Len(u)
    BY <2>2, TitleIs
  <2> QED BY <1>0, <2>2, <2>3
<1> HIDE DEF m, title
<1>3. EscapeSize(s) =
        CASE (2 <= Len(s) /\ s[2] \in {"["}) /\ m > 0 -> 2 + m
          [] (2 <= Len(s) /\ s[2] \in {"["}) /\ (3 <= Len(s) /\ s[3] \in Moves) -> 3
          [] /\ 2 <= Len(s) /\ s[2] \in {"["}
             /\ 3 <= Len(s) /\ s[3] \in Tildes
             /\ 4 <= Len(s) /\ s[4] \in {"~"} -> 3
          [] /\ 2 <= Len(s) /\ s[2] \in {"]"}
             /\ 3 <= Len(s) /\ s[3] \in {"0"} /\ title > 0 -> 3 + title
          [] OTHER -> 0
  BY DEF EscapeSize, m, title
<1> QED BY <1>0, <1>1, <1>2, <1>3

\* All of a sequence that draws goes, but of a key's the tilde stays.
LEMMA EscapeSizeIs ==
    ASSUME NEW s \in Seq(Char), NEW item, Item(item), item[1] = "ESC", Len(item) <= Len(s),
           \A j \in 1..Len(item) : s[j] = item[j]
    PROVE  /\ IsDrawing(item) /\ ~ IsKey(item) => EscapeSize(s) = Len(item)
           /\ IsKey(item) => EscapeSize(s) = 3
<1> DEFINE t == SubSeq(s, 3, Len(s))
           u == SubSeq(s, 4, Len(s))
           m == PrefixNumberM(t)
           title == PrefixTitle(u)
           n == Len(item)
<1>0. /\ Len(s) \in Nat /\ n \in Nat /\ n <= Len(s)
      /\ \A j \in 1..n : s[j] = item[j]
  BY ItemIs
<1>1. ASSUME 3 <= n
      PROVE  /\ t \in Seq(Char) /\ Len(t) = Len(s) - 2
             /\ \A j \in 1..(Len(s) - 2) : t[j] = s[j + 2]
             /\ u \in Seq(Char) /\ Len(u) = Len(s) - 3
             /\ \A j \in 1..(Len(s) - 3) : u[j] = s[j + 3]
  <2>1. /\ 3 \in 1..(Len(s) + 1) /\ Len(s) \in (3 - 1)..Len(s)
        /\ 4 \in 1..(Len(s) + 1) /\ Len(s) \in (4 - 1)..Len(s)
    BY <1>0, <1>1
  <2>2. /\ t \in Seq(Char) /\ Len(t) = Len(s) - 3 + 1
        /\ \A j \in 1..(Len(s) - 3 + 1) : t[j] = s[3 + j - 1]
    BY <2>1, Part
  <2>3. /\ u \in Seq(Char) /\ Len(u) = Len(s) - 4 + 1
        /\ \A j \in 1..(Len(s) - 4 + 1) : u[j] = s[4 + j - 1]
    BY <2>1, Part
  <2> HIDE DEF t, u
  <2>4. Len(t) = Len(s) - 2 /\ \A j \in 1..(Len(s) - 2) : t[j] = s[j + 2]
    BY <1>0, <2>2
  <2>5. Len(u) = Len(s) - 3 /\ \A j \in 1..(Len(s) - 3) : u[j] = s[j + 3]
    BY <1>0, <2>3
  <2> QED BY <2>2, <2>3, <2>4, <2>5
<1>2. EscapeSize(s) =
        CASE (2 <= Len(s) /\ s[2] \in {"["}) /\ m > 0 -> 2 + m
          [] (2 <= Len(s) /\ s[2] \in {"["}) /\ (3 <= Len(s) /\ s[3] \in Moves) -> 3
          [] /\ 2 <= Len(s) /\ s[2] \in {"["}
             /\ 3 <= Len(s) /\ s[3] \in Tildes
             /\ 4 <= Len(s) /\ s[4] \in {"~"} -> 3
          [] /\ 2 <= Len(s) /\ s[2] \in {"]"}
             /\ 3 <= Len(s) /\ s[3] \in {"0"} /\ title > 0 -> 3 + title
          [] OTHER -> 0
  BY DEF EscapeSize, m, title
<1> HIDE DEF t, u, n
<1>3. ASSUME IsColour(item) PROVE EscapeSize(s) = n
  <2>1. /\ n > 3 /\ item[2] = "[" /\ item[n] = "m"
        /\ \A j \in 3..(n - 1) : item[j] \in Digits
    BY <1>3 DEF IsColour, Last, n
  <2>2. 2 \in 1..n /\ 3 <= n /\ n \in 1..n /\ n - 2 \in 2..(Len(s) - 2) /\ n - 2 + 2 = n
    BY <1>0, <2>1
  <2>3. t[n - 2] = "m"
    <3>1. n - 2 \in 1..(Len(s) - 2)
      BY <2>2
    <3> QED BY <1>0, <1>1, <2>1, <2>2, <3>1
  <2>4. ASSUME NEW j \in 1..(n - 2 - 1) PROVE t[j] \in Digits
    <3>1. j \in 1..(Len(s) - 2) /\ j + 2 \in 3..(n - 1) /\ j + 2 \in 1..n
      BY <1>0, <2>4
    <3> QED BY <1>0, <1>1, <2>1, <2>2, <3>1
  <2>5. m = n - 2
    BY <1>1, <2>2, <2>3, <2>4, NumberIs
  <2> HIDE DEF m
  <2>6. m > 0 /\ 2 <= Len(s) /\ s[2] \in {"["} /\ 2 + m = n
    BY <1>0, <2>1, <2>2, <2>5
  <2> HIDE DEF title
  <2>7. s[3] \notin Moves /\ s[4] \notin {"~"} /\ s[2] \notin {"]"}
    <3>1. 3 \in 3..(n - 1) /\ 3 \in 1..n /\ 4 \in 1..n /\ (4 = n \/ 4 \in 3..(n - 1))
      BY <1>0, <2>1
    <3>2. s[3] \in Digits /\ (s[4] = "m" \/ s[4] \in Digits)
      BY <1>0, <2>1, <3>1
    <3> QED BY <2>6, <3>2 DEF Digits, Moves
  <2>8. EscapeSize(s) = 2 + m
    BY ONLY <1>2, <2>6, <2>7
  <2> QED BY ONLY <2>6, <2>8
<1>4. ASSUME IsMove(item) PROVE EscapeSize(s) = n
  <2>1. n = 3 /\ item[2] = "[" /\ item[3] \in Moves
    BY <1>4 DEF IsMove, n
  <2>2. /\ 2 \in 1..n /\ 3 \in 1..n /\ 3 <= n /\ 1 \in 1..(Len(s) - 2) /\ 1 + 2 = 3
        /\ 2 <= Len(s) /\ 3 <= Len(s)
    BY <1>0, <2>1
  <2>3. s[2] = "[" /\ s[3] \in Moves /\ t[1] = s[3] /\ Len(t) >= 1 /\ t \in Seq(Char)
    BY <1>0, <1>1, <2>1, <2>2
  <2>4. t[1] \notin Digits
    BY <2>3 DEF Moves, Digits
  <2>5. m = 0
    BY <2>3, <2>4, NumberIs
  <2> HIDE DEF m, title
  <2> QED BY <1>2, <2>1, <2>2, <2>3, <2>5
<1>5. ASSUME IsKey(item) PROVE EscapeSize(s) = 3
  <2>1. n = 4 /\ item[2] = "[" /\ item[3] \in Tildes /\ item[4] = "~"
    BY <1>5 DEF IsKey, n
  <2>2. /\ 2 \in 1..n /\ 3 \in 1..n /\ 4 \in 1..n /\ 3 <= n /\ 2 \in 1..(Len(s) - 2) /\ 2 + 2 = 4
        /\ 2 <= Len(s) /\ 3 <= Len(s) /\ 4 <= Len(s)
    BY <1>0, <2>1
  <2>3. /\ s[2] = "[" /\ s[3] \in Tildes /\ s[4] = "~" /\ t[2] = s[4]
        /\ Len(t) >= 2 /\ t \in Seq(Char)
    BY <1>0, <1>1, <2>1, <2>2
  <2>4. t[2] \notin Digits \cup {"m"}
    BY <2>3 DEF Digits
  <2>5. m = 0
    BY <2>3, <2>4, NumberIs
  <2> HIDE DEF m, title
  <2> QED BY <1>2, <2>2, <2>3, <2>5
<1>6. ASSUME IsTitle(item) PROVE EscapeSize(s) = n
  <2>1. /\ n > 4 /\ item[2] = "]" /\ item[3] = "0" /\ item[4] = ";" /\ item[n] = "BEL"
        /\ \A j \in 5..(n - 1) : item[j] \in Text
    BY <1>6 DEF IsTitle, Last, n
  <2>2. /\ 2 \in 1..n /\ 3 \in 1..n /\ 4 \in 1..n /\ n \in 1..n /\ 3 <= n
        /\ n - 3 \in 2..(Len(s) - 3) /\ n - 3 + 3 = n /\ 1 \in 1..(Len(s) - 3) /\ 1 + 3 = 4
        /\ 2 <= Len(s) /\ 3 <= Len(s) /\ n - 3 \in 1..(Len(s) - 3)
    <3>1. n \in Nat /\ Len(s) \in Nat /\ n <= Len(s) /\ n > 4
      BY <1>0, <2>1
    <3> QED BY ONLY <3>1
  <2>3. /\ s[2] = "]" /\ s[3] = "0" /\ u[1] = ";" /\ u[n - 3] = "BEL"
        /\ Len(u) = Len(s) - 3 /\ u \in Seq(Char)
    BY <1>0, <1>1, <2>1, <2>2
  <2>4. ASSUME NEW j \in 1..(n - 3 - 1) PROVE u[j] # "BEL"
    <3>1. /\ j \in 1..(Len(s) - 3) /\ j + 3 \in 1..n /\ (j = 1 \/ j + 3 \in 5..(n - 1))
      BY <1>0, <2>4
    <3>2. u[j] = item[j + 3]
      BY <1>0, <1>1, <2>2, <3>1
    <3>3. "BEL" \notin Text
      BY ReadAssumption DEF Special, OtherControl
    <3> QED BY <2>1, <2>3, <3>1, <3>2, <3>3
  <2>5. title = n - 3
    BY <2>2, <2>3, <2>4, TitleIs
  <2> HIDE DEF m, title
  <2>6. title > 0 /\ 3 + title = n
    <3>1. n \in Nat /\ n > 4
      BY <1>0, <2>1
    <3> QED BY ONLY <2>5, <3>1
  <2> QED BY <1>2, <2>2, <2>3, <2>6
<1>7. IsDrawing(item) /\ ~ IsKey(item) => IsColour(item) \/ IsMove(item) \/ IsTitle(item)
  BY DEF IsDrawing, OtherControl
<1> QED BY <1>3, <1>4, <1>5, <1>6, <1>7 DEF n

LEMMA EscapeDoes ==
    ASSUME LoopType, taken \in Nat, Len(suffix) <= taken, Escape
    PROVE  LET size == EscapeSize(SubSeq(suffix, at, Len(suffix)))
           IN /\ LoopType' /\ Len(suffix') <= taken'
              /\ size > 0 => /\ Pos' = Pos + size /\ Kept' = Kept
                             /\ at' = at /\ Len(suffix') = Len(suffix) - size
                             /\ \A p \in at..Len(suffix') : suffix'[p] = suffix[p + size]
                             /\ Unread(at + size) => Unread(at)'
<1> DEFINE s == SubSeq(suffix, at, Len(suffix))
           size == EscapeSize(s)
<1>0. /\ taken' = taken /\ stream' = stream /\ buf' = buf /\ at <= Len(suffix)
      /\ IF size = 0 THEN suffix' = suffix /\ at' = at + 1
         ELSE suffix' = Cut(suffix, at, at + size - 1) /\ at' = at
  BY DEF Escape, Finds, GoOn, inVars
<1>1. /\ at \in Nat /\ Len(suffix) \in Nat /\ at \in 1..Len(suffix) /\ suffix \in Seq(Char)
      /\ at \in 1..(Len(suffix) + 1) /\ Len(suffix) \in (at - 1)..Len(suffix)
  BY <1>0 DEF LoopType
<1>2. s \in Seq(Char) /\ Len(s) = Len(suffix) - at + 1
  BY <1>1, Part
<1> HIDE DEF s
<1>3. size \in 0..Len(s)
  BY <1>2, EscapeSizeType
<1> HIDE DEF size
<1>4. CASE size = 0
  <2>1. LoopType'
    BY <1>0, <1>1, <1>4 DEF LoopType
  <2> QED BY <1>0, <1>4, <2>1 DEF size, s
<1>5. CASE size # 0
  <2> DEFINE j == at + size - 1
  <2>1. /\ at \in 1..at /\ j \in at..Len(suffix) /\ j - at + 1 = size /\ j + 1 = at + size
        /\ size > 0
    BY ONLY <1>1, <1>2, <1>3, <1>5
  <2>2. suffix' = Cut(suffix, at, j) /\ at' = at
    BY <1>0, <1>5
  <2> HIDE DEF j
  <2>3. /\ suffix' \in Seq(Char) /\ at' \in 1..(Len(suffix') + 1) /\ Len(suffix') <= taken'
        /\ Len(suffix') = Len(suffix) - (j - at + 1) /\ Pos' = Pos + (j - at + 1)
        /\ SubSeq(suffix', 1, at' - 1) = SubSeq(suffix, 1, at - 1)
        /\ \A p \in at..Len(suffix') : suffix'[p] = suffix[p + (j - at + 1)]
        /\ Unread(j + 1) => Unread(at)'
    BY <1>0, <2>1, <2>2, CutDoes
  <2>4. LoopType' /\ Kept' = Kept
    BY <1>0, <2>3 DEF LoopType, Kept
  <2>5. /\ Len(suffix') = Len(suffix) - size /\ Pos' = Pos + size
        /\ \A p \in at..Len(suffix') : suffix'[p] = suffix[p + size]
        /\ Unread(at + size) => Unread(at)'
    BY <2>1, <2>3
  <2> QED BY <2>2, <2>3, <2>4, <2>5 DEF size, s
<1> QED BY <1>4, <1>5

LEMMA CleanedDoes ==
    ASSUME LoopType, taken \in Nat, Len(suffix) <= taken, Cleaned
    PROVE  /\ LoopType' /\ Len(suffix') <= taken' /\ Kept' = Kept /\ buf' = Kept
           /\ Pos = taken /\ Pos' = taken /\ Unread(at)'
<1>0. /\ buf' = buf \o suffix /\ suffix' = <<>> /\ at' = 1
      /\ taken' = taken /\ stream' = stream /\ at > Len(suffix)
  BY DEF Cleaned, inVars
<1>1. /\ Len(suffix) \in Nat /\ at = Len(suffix) + 1 /\ suffix \in Seq(Char)
      /\ at - 1 = Len(suffix) /\ buf \in Seq(Char)
  BY <1>0 DEF LoopType
<1>2. Len(suffix') = 0 /\ suffix' \in Seq(Char)
  BY <1>0
<1>3. Kept = buf \o suffix
  BY <1>1, SubSeqFull DEF Kept
<1>4. buf' \in Seq(Char)
  BY <1>0, <1>1, ConcatProperties
<1>5. Kept' = buf'
  <2>1. SubSeq(suffix', 1, at' - 1) = <<>>
    BY <1>0, SubSeqEmpty
  <2> QED BY <1>4, <2>1, ConcatEmptySeq DEF Kept
<1>6. LoopType'
  BY <1>0, <1>2, <1>4 DEF LoopType
<1>7. Pos = taken /\ Pos' = taken
  BY <1>0, <1>1, <1>2 DEF Pos, From
<1>8. Unread(at)'
  BY <1>0, <1>2 DEF Unread
<1> QED BY <1>0, <1>2, <1>3, <1>5, <1>6, <1>7, <1>8

LEMMA NegotiateDoes ==
    ASSUME LoopType, taken \in Nat, Len(suffix) <= taken, at = 1, Negotiate
    PROVE  /\ LoopType' /\ Len(suffix') <= taken' /\ Len(suffix') = Len(suffix) - 3
           /\ Pos' = Pos + 3 /\ From' = From + 3 /\ Kept' = Kept
           /\ Unread(4) => Unread(1)'
<1>0. /\ suffix' = SubSeq(suffix, 4, Len(suffix)) /\ at' = 1 /\ buf' = buf
      /\ taken' = taken /\ stream' = stream /\ Len(suffix) >= 3
  BY DEF Negotiate, CommandAtHead, inVars
<1>1. /\ Len(suffix) \in Nat /\ suffix \in Seq(Char) /\ buf \in Seq(Char)
      /\ 4 \in 1..(Len(suffix) + 1) /\ Len(suffix) \in (4 - 1)..Len(suffix)
  BY <1>0 DEF LoopType
<1>2. /\ suffix' \in Seq(Char) /\ Len(suffix') = Len(suffix) - 4 + 1
      /\ \A p \in 1..(Len(suffix) - 4 + 1) : suffix'[p] = suffix[4 + p - 1]
  BY <1>0, <1>1, Part
<1>3. LoopType' /\ Len(suffix') = Len(suffix) - 3 /\ Len(suffix') <= taken'
  BY <1>0, <1>1, <1>2 DEF LoopType
<1>4. From' = From + 3 /\ Pos' = Pos + 3
  <2>1. /\ From = taken - Len(suffix) /\ From' = taken - Len(suffix')
        /\ Pos = From + 1 - 1 /\ Pos' = From' + 1 - 1
    BY <1>0 DEF From, Pos
  <2> QED BY ONLY <1>1, <1>3, <2>1, taken \in Nat
<1>5. Kept' = Kept
  <2>1. SubSeq(suffix', 1, at' - 1) = <<>> /\ SubSeq(suffix, 1, at - 1) = <<>>
    BY <1>0, SubSeqEmpty
  <2> QED BY <1>0, <2>1 DEF Kept
<1>6. ASSUME Unread(4) PROVE Unread(1)'
  <2> SUFFICES ASSUME NEW p \in 1..Len(suffix') PROVE suffix'[p] = stream'[From' + p]
    BY DEF Unread
  <2>1. p \in 1..(Len(suffix) - 4 + 1) /\ 4 + p - 1 = p + 3 /\ p + 3 \in 4..Len(suffix)
    BY <1>1, <1>2
  <2>2. suffix[p + 3] = stream[From + (p + 3)]
    BY <1>6, <2>1 DEF Unread
  <2>3. From + (p + 3) = From' + p
    BY <1>1, <1>4, <2>1 DEF From
  <2> QED BY <1>0, <1>2, <2>1, <2>2, <2>3
<1> QED BY <1>3, <1>4, <1>5, <1>6

\* What every iteration of the loop leaves alone, and that the last one ends it.
LEMMA CleanDoes ==
    ASSUME LoopType, taken \in Nat, Len(suffix) <= taken, Clean
    PROVE  /\ LoopType' /\ Len(suffix') <= taken' /\ pc = "clean"
           /\ UNCHANGED <<device, keep, stream, ref, filter, saved, taken, torn, hitNeg,
                          replies, failed>>
           /\ \/ pc' = "clean"
              \/ pc' = "match" /\ suffix' = <<>> /\ at' = 1
<1>1. CASE Ordinary
  BY <1>1, OrdinaryDoes DEF Ordinary, GoOn, inVars, outVars
<1>2. CASE LineEnd
  BY <1>2, LineEndDoes DEF LineEnd, Finds, GoOn, inVars, outVars
<1>3. CASE ReturnInBuf
  BY <1>3, ReturnInBufDoes DEF ReturnInBuf, Finds, GoOn, inVars, outVars
<1>4. CASE ReturnInSuffix
  <2>1. LoopType' /\ Len(suffix') <= taken'
    BY <1>4, ReturnInSuffixDoes
  <2> QED BY <1>4, <2>1 DEF ReturnInSuffix, Finds, GoOn, inVars, outVars
<1>5. CASE Backspace
  <2>1. LoopType' /\ Len(suffix') <= taken'
    BY <1>5, BackspaceDoes
  <2> QED BY <1>5, <2>1 DEF Backspace, Finds, GoOn, inVars, outVars
<1>6. CASE Escape
  <2>1. LoopType' /\ Len(suffix') <= taken'
    BY <1>6, EscapeDoes
  <2> QED BY <1>6, <2>1 DEF Escape, Finds, GoOn, inVars, outVars
<1>7. CASE Control
  BY <1>7, ControlDoes DEF Control, Finds, GoOn, inVars, outVars
<1>8. CASE Cleaned
  BY <1>8, CleanedDoes DEF Cleaned, inVars, outVars
<1> QED BY <1>1, <1>2, <1>3, <1>4, <1>5, <1>6, <1>7, <1>8 DEF Clean

------------------------------------------------------------------------------
(* Types *)

Reply == {"WONT", "DONT"} \X Char
DueRecord == [item : Seq(Char), place : Nat, text : Seq(Char), answers : Seq(Reply)]

TypeInv ==
    /\ device \in Devices /\ keep \in BOOLEAN /\ failed \in BOOLEAN /\ torn \in BOOLEAN
    /\ stream \in Seq(Char) /\ taken \in 0..Len(stream) /\ hitNeg \in BOOLEAN
    /\ pc \in {"match", "negotiate", "clean"}
    /\ LoopType /\ Len(suffix) <= taken
    /\ pc = "match" => suffix = <<>>
    /\ pc # "clean" => at = 1
    /\ replies \in Seq(Reply)
    /\ ref \in Seq(DueRecord) /\ Len(ref) \in 1..(MaxItems + 1)
    /\ ref[Len(ref)].place = Len(stream)

LEMMA AnswerType ==
    ASSUME NEW s \in Seq(Char), Len(s) >= 3
    PROVE  Answer(s) \in Reply
<1>1. 3 \in 1..Len(s)
  OBVIOUS
<1>2. s[3] \in Char
  BY <1>1, ElementOfSeq
<1>3. Refusal(s[2]) \in {"WONT", "DONT"}
  BY DEF Refusal
<1> QED BY <1>2, <1>3 DEF Answer, Reply

LEMMA ShownType ==
    ASSUME NEW whole \in BOOLEAN, NEW item, Item(item), NEW text \in Seq(Char)
    PROVE  Shown(whole, text, item) \in Seq(Char)
<1>0. item \in Seq(Char) /\ text \o item \in Seq(Char)
  BY ItemIs, ConcatProperties
<1>1. CASE IsCommand(item) \/ whole
  BY <1>0, <1>1, ShownKept
<1>2. CASE ~ IsCommand(item) /\ ~ whole
  <2> DEFINE crlf == text \o <<"CR", "LF">>
             line == SubSeq(text, 1, LastIndex(text, "LF"))
             cr == item = <<"CR">>
             bs == item = <<"BS">>
  <2>1. crlf \in Seq(Char)
    <3>1. "CR" \in Char /\ "LF" \in Char
      BY Zenon DEF Char, Special
    <3>2. <<"CR", "LF">> \in Seq(Char)
      BY <3>1
    <3> QED BY <3>2, ConcatProperties
  <2>2. line \in Seq(Char)
    <3> DEFINE n == LastIndex(text, "LF")
    <3>1. n \in 0..Len(text)
      BY LastIs
    <3> HIDE DEF n
    <3>2. 1 \in 1..(Len(text) + 1) /\ n \in (1 - 1)..Len(text)
      BY <3>1
    <3>3. SubSeq(text, 1, n) \in Seq(Char)
      BY <3>2, Part
    <3> QED BY <3>3 DEF n
  <2>3. text # <<>> => Front(text) \in Seq(Char)
    BY FrontIs
  <2>4. IsPlain(item) \/ IsLineEnd(item) \/ IsDrawing(item) \/ cr \/ bs
    BY <1>2 DEF Item
  <2>5. /\ IsPlain(item) => Shown(FALSE, text, item) = text \o item
        /\ IsLineEnd(item) => Shown(FALSE, text, item) = crlf
        /\ cr => Shown(FALSE, text, item) = line
        /\ bs => Shown(FALSE, text, item) = IF text = <<>> THEN text ELSE Front(text)
        /\ IsDrawing(item) => Shown(FALSE, text, item) = text
    BY ShownIs
  <2> HIDE DEF crlf, line, cr, bs
  <2>6. Shown(FALSE, text, item) \in Seq(Char)
    BY ONLY <1>0, <2>1, <2>2, <2>3, <2>4, <2>5, text \in Seq(Char)
  <2>7. whole = FALSE
    BY <1>2
  <2> QED BY <2>6, <2>7
<1> QED BY <1>1, <1>2

LEMMA DueType ==
    ASSUME NEW whole \in BOOLEAN, NEW item, Item(item), NEW due \in DueRecord
    PROVE  /\ Due(whole, due, item) \in DueRecord
           /\ Due(whole, due, item).item = item
           /\ Due(whole, due, item).place = due.place + Len(item)
           /\ Due(whole, due, item).text = Shown(whole, due.text, item)
           /\ Due(whole, due, item).answers = IF IsCommand(item)
                                       THEN Append(due.answers, Answer(item)) ELSE due.answers
<1>1. item \in Seq(Char) /\ Len(item) \in Nat /\ (IsCommand(item) => Len(item) = 3)
  BY ItemIs
<1>2. due.place \in Nat /\ due.text \in Seq(Char) /\ due.answers \in Seq(Reply)
  BY DEF DueRecord
<1>3. Shown(whole, due.text, item) \in Seq(Char)
  BY <1>2, ShownType
<1>4. IsCommand(item) => Append(due.answers, Answer(item)) \in Seq(Reply)
  <2>1. ASSUME IsCommand(item) PROVE Answer(item) \in Reply
    <3>1. Len(item) >= 3
      BY <1>1, <2>1
    <3> QED BY <1>1, <3>1, AnswerType
  <2> QED BY <1>2, <2>1, AppendProperties
<1>5. due.place + Len(item) \in Nat
  BY <1>1, <1>2
<1> QED BY <1>1, <1>2, <1>3, <1>4, <1>5 DEF Due, DueRecord

LEMMA TypeInit == Init => TypeInv
<1> SUFFICES ASSUME Init PROVE TypeInv
  OBVIOUS
<1> DEFINE start == [item |-> <<>>, place |-> 0, text |-> <<>>, answers |-> <<>>]
<1>1. start \in DueRecord /\ start.place = 0
  <2>1. <<>> \in Seq(Char) /\ <<>> \in Seq(Reply)
    OBVIOUS
  <2> QED BY <2>1 DEF DueRecord
<1>2. ref = <<start>>
  BY DEF Init
<1> HIDE DEF start
<1>3. ref \in Seq(DueRecord) /\ Len(ref) = 1 /\ ref[1].place = 0
  BY <1>1, <1>2
<1>4. Len(ref) \in 1..(MaxItems + 1)
  BY <1>3, ReadAssumption
<1>5. /\ device \in Devices /\ keep \in BOOLEAN /\ failed = FALSE /\ torn = FALSE
      /\ stream = <<>> /\ taken = 0 /\ hitNeg = FALSE /\ pc = "match"
      /\ suffix = <<>> /\ at = 1 /\ buf = <<>> /\ replies = <<>>
  BY DEF Init
<1>6. stream \in Seq(Char) /\ Len(stream) = 0 /\ Len(suffix) = 0 /\ replies \in Seq(Reply)
  BY <1>5
<1>7. LoopType
  BY <1>5, <1>6 DEF LoopType
<1>8. taken \in 0..Len(stream) /\ Len(suffix) <= taken /\ ref[Len(ref)].place = Len(stream)
  BY <1>3, <1>5, <1>6
<1>9. hitNeg \in BOOLEAN /\ failed \in BOOLEAN /\ torn \in BOOLEAN
  BY <1>5
<1> QED BY ONLY <1>3, <1>4, <1>5, <1>6, <1>7, <1>8, <1>9 DEF TypeInv

LEMMA TypeSend ==
    ASSUME TypeInv, NEW item \in device, Send(item)
    PROVE  /\ TypeInv' /\ Item(item) /\ item \in Seq(Char)
           /\ Len(stream') = Len(stream) + Len(item)
           /\ \A p \in 1..Len(stream) : stream'[p] = stream[p]
           /\ \A j \in 1..Len(item) : stream'[Len(stream) + j] = item[j]
           /\ Len(ref') = Len(ref) + 1
           /\ \A k \in 1..Len(ref) : ref'[k] = ref[k]
           /\ ref'[Len(ref')] = Due(keep, ref[Len(ref)], item)
<1>0. /\ Item(item) /\ item \in Seq(Char) /\ Len(item) \in Nat
  BY ReadAssumption, ItemIs DEF TypeInv
<1>1. /\ stream' = stream \o item /\ ref' = Append(ref, Due(keep, ref[Len(ref)], item))
      /\ Len(ref) <= MaxItems
      /\ UNCHANGED <<device, keep, taken, torn, pc, suffix, at, hitNeg, buf, replies, failed>>
  BY DEF Send, Last, loopVars
<1>2. /\ stream' \in Seq(Char) /\ Len(stream') = Len(stream) + Len(item)
      /\ \A p \in 1..(Len(stream) + Len(item)) :
            stream'[p] = IF p <= Len(stream) THEN stream[p] ELSE item[p - Len(stream)]
  BY <1>0, <1>1, ConcatProperties DEF TypeInv
<1>3. Len(stream) \in Nat /\ Len(ref) \in Nat /\ Len(ref) \in 1..Len(ref)
  BY DEF TypeInv
<1>4. ref[Len(ref)] \in DueRecord
  BY <1>3, ElementOfSeq DEF TypeInv
<1>5. /\ Due(keep, ref[Len(ref)], item) \in DueRecord
      /\ Due(keep, ref[Len(ref)], item).place = ref[Len(ref)].place + Len(item)
  <2>1. keep \in BOOLEAN
    BY DEF TypeInv
  <2> QED BY ONLY <1>0, <1>4, <2>1, DueType
<1>6. /\ ref' \in Seq(DueRecord) /\ Len(ref') = Len(ref) + 1
      /\ \A k \in 1..Len(ref) : ref'[k] = ref[k]
      /\ ref'[Len(ref) + 1] = Due(keep, ref[Len(ref)], item)
  BY <1>1, <1>5, AppendProperties DEF TypeInv
<1>7. Len(ref') \in 1..(MaxItems + 1) /\ ref'[Len(ref')].place = Len(stream')
  BY <1>1, <1>2, <1>3, <1>5, <1>6, ReadAssumption DEF TypeInv
<1>8. taken' \in 0..Len(stream')
  BY <1>0, <1>1, <1>2, <1>3 DEF TypeInv
<1>9. TypeInv'
  BY <1>1, <1>2, <1>6, <1>7, <1>8 DEF TypeInv, LoopType
<1>10. \A p \in 1..Len(stream) : stream'[p] = stream[p]
  BY <1>0, <1>2, <1>3
<1>11. \A j \in 1..Len(item) : stream'[Len(stream) + j] = item[j]
  <2> SUFFICES ASSUME NEW j \in 1..Len(item) PROVE stream'[Len(stream) + j] = item[j]
    OBVIOUS
  <2>1. /\ Len(stream) + j \in 1..(Len(stream) + Len(item)) /\ ~ (Len(stream) + j <= Len(stream))
        /\ Len(stream) + j - Len(stream) = j
    BY <1>0, <1>3
  <2> QED BY <1>2, <2>1
<1> QED BY <1>0, <1>2, <1>6, <1>9, <1>10, <1>11

LEMMA TypeRead ==
    ASSUME TypeInv, NEW n \in 1..(Len(stream) - taken), Read(n)
    PROVE  /\ TypeInv' /\ Len(suffix') = n
           /\ \A j \in 1..n : suffix'[j] = stream[taken + j]
<1>0. /\ suffix' = SubSeq(stream, taken + 1, taken + n) /\ taken' = taken + n
      /\ torn' = (torn \/ ~ Clear(n)) /\ hitNeg' = FALSE /\ pc' = "negotiate" /\ pc = "match"
      /\ UNCHANGED <<device, keep, stream, ref, at, buf, replies, failed>>
  BY DEF Read, inVars
<1>1. /\ Len(stream) \in Nat /\ taken \in Nat /\ n \in Nat /\ 1 <= n /\ taken + n <= Len(stream)
      /\ stream \in Seq(Char)
      /\ taken + 1 \in 1..(Len(stream) + 1) /\ taken + n \in (taken + 1 - 1)..Len(stream)
  BY DEF TypeInv
<1>2. suffix' \in Seq(Char) /\ Len(suffix') = n /\ \A j \in 1..n : suffix'[j] = stream[taken + j]
  <2> DEFINE a == taken + 1
             b == taken + n
  <2>1. stream \in Seq(Char) /\ a \in 1..(Len(stream) + 1) /\ b \in (a - 1)..Len(stream)
    BY <1>1
  <2>2. suffix' = SubSeq(stream, a, b)
    BY <1>0
  <2>3. b - a + 1 = n /\ \A j \in 1..n : a + j - 1 = taken + j
    BY <1>1
  <2> HIDE DEF a, b
  <2>4. /\ suffix' \in Seq(Char) /\ Len(suffix') = b - a + 1
        /\ \A j \in 1..(b - a + 1) : suffix'[j] = stream[a + j - 1]
    BY <2>1, <2>2, Part
  <2> QED BY <2>3, <2>4
<1>3. at = 1
  BY <1>0 DEF TypeInv
<1>4. LoopType' /\ Len(suffix') <= taken' /\ taken' \in 0..Len(stream')
  <2>1. Len(suffix') <= taken' /\ taken' \in 0..Len(stream')
    BY <1>0, <1>1, <1>2
  <2>2. suffix' \in Seq(Char) /\ at' \in 1..(Len(suffix') + 1)
    BY <1>0, <1>1, <1>2, <1>3
  <2>3. buf' \in Seq(Char)
    BY <1>0 DEF LoopType, TypeInv
  <2> QED BY <2>1, <2>2, <2>3 DEF LoopType
<1>5. torn' \in BOOLEAN
  BY <1>0
<1> QED BY <1>0, <1>2, <1>3, <1>4, <1>5 DEF TypeInv

LEMMA TypeStep == TypeInv /\ [Next]_vars => TypeInv'
<1> SUFFICES ASSUME TypeInv, [Next]_vars PROVE TypeInv'
  OBVIOUS
<1>0. taken \in Nat /\ LoopType /\ Len(suffix) <= taken
  BY DEF TypeInv
<1>1. ASSUME NEW item \in device, Send(item) PROVE TypeInv'
  BY <1>1, TypeSend
<1>2. ASSUME NEW n \in 1..(Len(stream) - taken), Read(n) PROVE TypeInv'
  BY <1>2, TypeRead
<1>3. CASE Negotiate
  <2>1. /\ UNCHANGED <<device, keep, stream, ref, taken, torn, pc, at, failed>>
        /\ replies' = Append(replies, Answer(suffix)) /\ hitNeg' = TRUE
        /\ pc = "negotiate" /\ Len(suffix) >= 3
    BY <1>3 DEF Negotiate, CommandAtHead, inVars
  <2>2. at = 1
    BY <2>1 DEF TypeInv
  <2>3. LoopType' /\ Len(suffix') <= taken'
    BY <1>0, <1>3, <2>2, NegotiateDoes
  <2>4. replies' \in Seq(Reply)
    <3>1. Answer(suffix) \in Reply
      BY <1>0, <2>1, AnswerType DEF LoopType
    <3> QED BY <2>1, <3>1, AppendProperties DEF TypeInv
  <2> QED BY <2>1, <2>2, <2>3, <2>4 DEF TypeInv
<1>4. CASE Negotiated
  <2>1. /\ UNCHANGED <<device, keep, stream, ref, taken, torn, hitNeg, replies>>
        /\ failed' = (suffix = <<>> /\ ~ hitNeg) /\ at' = 1
        /\ IF keep THEN pc' = "match" /\ buf' = buf \o suffix /\ suffix' = <<>>
           ELSE pc' = "clean" /\ buf' = buf /\ suffix' = suffix
    BY <1>4 DEF Negotiated, inVars
  <2>2. LoopType' /\ Len(suffix') <= taken'
    <3>1. CASE keep
      <4>1. buf' \in Seq(Char) /\ suffix' \in Seq(Char) /\ Len(suffix') = 0
        <5>1. buf \in Seq(Char) /\ suffix \in Seq(Char)
          BY <1>0 DEF LoopType
        <5>2. buf \o suffix \in Seq(Char)
          BY <5>1, ConcatProperties
        <5>3. buf' = buf \o suffix /\ suffix' = <<>>
          BY <2>1, <3>1
        <5> QED BY ONLY <5>2, <5>3
      <4> QED BY <1>0, <2>1, <4>1 DEF LoopType
    <3>2. CASE ~ keep
      BY <1>0, <2>1, <3>2 DEF LoopType
    <3> QED BY <3>1, <3>2
  <2>3. pc' \in {"match", "clean"} /\ (pc' = "match" => suffix' = <<>>)
    BY <2>1
  <2>4. failed' \in BOOLEAN
    BY <2>1
  <2> QED BY <2>1, <2>2, <2>3, <2>4 DEF TypeInv
<1>5. CASE Clean
  <2>1. /\ LoopType' /\ Len(suffix') <= taken'
        /\ UNCHANGED <<device, keep, stream, ref, taken, torn, hitNeg, replies, failed>>
        /\ \/ pc' = "clean"
           \/ pc' = "match" /\ suffix' = <<>> /\ at' = 1
    BY <1>0, <1>5, CleanDoes
  <2> QED BY <2>1 DEF TypeInv
<1>6. ASSUME NEW with, Save(with) PROVE TypeInv'
  BY <1>6 DEF TypeInv, Save, inVars, loopVars, LoopType
<1>7. CASE UNCHANGED vars
  BY <1>7 DEF TypeInv, vars, inVars, loopVars, LoopType
<1> QED BY <1>1, <1>2, <1>3, <1>4, <1>5, <1>6, <1>7 DEF Next

\* Every variable keeps its shape, whatever the reads: the place in a read is in it, or
\* just after it, after every escape sequence, return and backspace that is cut out, and
\* what is kept and answered are characters and refusals.
THEOREM TypeCorrect == Spec => []TypeOK
<1>1. TypeInv => TypeOK
  BY DEF TypeInv, TypeOK, LoopType, Reply, Last
<1> QED BY <1>1, TypeInit, TypeStep, PTL DEF Spec

------------------------------------------------------------------------------
(* The stream and the reference: what they say of each other *)

NoCommand(k, l) == \A m \in k..l : ~ IsCommand(ref[m].item)

\* Each item is one of the device's, is in the stream at its place, and what is due
\* after it follows from what was due before.
Made ==
    /\ ref[1].place = 0 /\ ref[1].text = <<>> /\ ref[1].answers = <<>>
    /\ \A k \in 2..Len(ref) :
         /\ ref[k].item \in device /\ ref[k] = Due(keep, ref[k - 1], ref[k].item)
         /\ \A j \in 1..Len(ref[k].item) : stream[ref[k - 1].place + j] = ref[k].item[j]
Ascending == \A k, l \in 1..Len(ref) : k < l => ref[k].place < ref[l].place
Covered == \A p \in 1..Len(stream) :
              \E k \in 2..Len(ref) : ref[k - 1].place < p /\ p <= ref[k].place
\* With control characters kept the text is the stream, commands apart.
KeptWhole == keep => \A k, l \in 1..Len(ref) : k <= l /\ NoCommand(k + 1, l) =>
                /\ ref[l].text = ref[k].text \o SubSeq(stream, ref[k].place + 1, ref[l].place)
                /\ ref[l].answers = ref[k].answers

StreamInv == Made /\ Ascending /\ Covered /\ KeptWhole

LEMMA StreamInit == Init => StreamInv
<1> SUFFICES ASSUME Init PROVE StreamInv
  OBVIOUS
<1> DEFINE start == [item |-> <<>>, place |-> 0, text |-> <<>>, answers |-> <<>>]
<1>1. start.place = 0 /\ start.text = <<>> /\ start.answers = <<>>
  OBVIOUS
<1>2. ref = <<start>> /\ stream = <<>>
  BY DEF Init
<1> HIDE DEF start
<1>3. Len(ref) = 1 /\ ref[1] = start /\ Len(stream) = 0
  BY <1>2
<1>4. \A k \in 1..Len(ref) : k = 1
  BY <1>3
<1>5. \A k \in 2..Len(ref) : FALSE
  BY <1>3
<1>6. Made
  BY <1>1, <1>3, <1>5 DEF Made
<1>7. Ascending
  BY <1>4 DEF Ascending
<1>8. Covered
  BY <1>3 DEF Covered
<1>9. KeptWhole
  <2>1. ASSUME NEW k \in 1..Len(ref), NEW l \in 1..Len(ref)
        PROVE  /\ ref[l].text = ref[k].text \o SubSeq(stream, ref[k].place + 1, ref[l].place)
               /\ ref[l].answers = ref[k].answers
    <3>1. k = 1 /\ l = 1
      BY <1>4
    <3>2. /\ ref[k].place = 0 /\ ref[l].place = 0
          /\ ref[k].text = <<>> /\ ref[l].text = <<>> /\ ref[l].answers = ref[k].answers
      BY <1>1, <1>3, <3>1
    <3>3. SubSeq(stream, 0 + 1, 0) = <<>>
      BY SubSeqEmpty
    <3>4. <<>> \o <<>> = <<>>
      <4>1. <<>> \in Seq(Char)
        OBVIOUS
      <4> QED BY <4>1, ConcatEmptySeq
    <3> QED BY <3>2, <3>3, <3>4
  <2> QED BY <2>1 DEF KeptWhole
<1> QED BY <1>6, <1>7, <1>8, <1>9 DEF StreamInv

LEMMA StreamSend ==
    ASSUME TypeInv, StreamInv, NEW item \in device, Send(item)
    PROVE  StreamInv'
<1> DEFINE n == Len(ref)
           last == ref[n]
<1>0. /\ TypeInv' /\ Item(item) /\ item \in Seq(Char)
      /\ Len(stream') = Len(stream) + Len(item)
      /\ \A p \in 1..Len(stream) : stream'[p] = stream[p]
      /\ \A j \in 1..Len(item) : stream'[Len(stream) + j] = item[j]
      /\ Len(ref') = n + 1
      /\ \A k \in 1..n : ref'[k] = ref[k]
      /\ ref'[Len(ref')] = Due(keep, last, item)
  BY TypeSend
<1>1. device' = device /\ keep' = keep /\ stream' = stream \o item
  BY DEF Send
<1>2. /\ n \in Nat /\ n >= 1 /\ Len(stream) \in Nat /\ last.place = Len(stream)
      /\ n \in 1..n /\ 1 \in 1..n /\ last \in DueRecord /\ keep \in BOOLEAN
      /\ stream \in Seq(Char) /\ device \in Devices
  <2>1. n \in Nat /\ n >= 1 /\ n \in 1..n /\ 1 \in 1..n
    BY DEF TypeInv
  <2> QED BY <2>1, ElementOfSeq DEF TypeInv
<1>3. /\ Len(item) \in Nat /\ Len(item) >= 1
  BY <1>0, ItemIs
<1>4. \A k \in 1..n : /\ ref[k] \in DueRecord /\ ref[k].place \in Nat
                      /\ ref[k].place <= Len(stream) /\ ref[k].text \in Seq(Char)
  <2> SUFFICES ASSUME NEW k \in 1..n
               PROVE  /\ ref[k] \in DueRecord /\ ref[k].place \in Nat
                      /\ ref[k].place <= Len(stream) /\ ref[k].text \in Seq(Char)
    OBVIOUS
  <2>1. ref[k] \in DueRecord
    BY ElementOfSeq DEF TypeInv
  <2>2. ref[k].place \in Nat /\ ref[k].text \in Seq(Char)
    BY <2>1 DEF DueRecord
  <2>3. k = n \/ ref[k].place < ref[n].place
    BY <1>2 DEF StreamInv, Ascending
  <2> QED BY <1>2, <2>1, <2>2, <2>3
<1> DEFINE new == ref'[n + 1]
<1>5. /\ new = Due(keep, last, item) /\ new.item = item
      /\ new.place = Len(stream) + Len(item) /\ new.text = Shown(keep, last.text, item)
      /\ new.answers = IF IsCommand(item) THEN Append(last.answers, Answer(item))
                       ELSE last.answers
  <2>1. new = Due(keep, last, item)
    BY <1>0, <1>2
  <2> HIDE DEF last, new
  <2>2. /\ Due(keep, last, item).item = item
        /\ Due(keep, last, item).place = last.place + Len(item)
        /\ Due(keep, last, item).text = Shown(keep, last.text, item)
        /\ Due(keep, last, item).answers = IF IsCommand(item)
              THEN Append(last.answers, Answer(item)) ELSE last.answers
    BY <1>0, <1>2, DueType
  <2> QED BY <1>2, <2>1, <2>2
<1>6. \A k \in 1..Len(ref') : k \in 1..n \/ k = n + 1
  BY <1>0, <1>2
<1> HIDE DEF n, last, new
<1>7. Made'
  <2>1. ref'[1] = ref[1]
    BY <1>0, <1>2
  <2>2. ASSUME NEW k \in 2..Len(ref')
        PROVE  /\ ref'[k].item \in device' /\ ref'[k] = Due(keep', ref'[k - 1], ref'[k].item)
               /\ \A j \in 1..Len(ref'[k].item) :
                     stream'[ref'[k - 1].place + j] = ref'[k].item[j]
    <3>1. CASE k \in 1..n
      <4>1. k \in 2..Len(ref) /\ k - 1 \in 1..n
        BY <1>2, <2>2, <3>1 DEF n
      <4>2. ref'[k] = ref[k] /\ ref'[k - 1] = ref[k - 1]
        BY <1>0, <3>1, <4>1
      <4>3. /\ ref[k].item \in device /\ ref[k] = Due(keep, ref[k - 1], ref[k].item)
            /\ \A j \in 1..Len(ref[k].item) : stream[ref[k - 1].place + j] = ref[k].item[j]
        BY <4>1 DEF StreamInv, Made
      <4>4. ASSUME NEW j \in 1..Len(ref[k].item)
            PROVE  ref[k - 1].place + j \in 1..Len(stream)
        <5>1. Item(ref[k].item)
          BY <1>2, <4>3, ReadAssumption
        <5>2. Len(ref[k].item) \in Nat
          BY <5>1, ItemIs
        <5>3. ref[k].place = ref[k - 1].place + Len(ref[k].item)
          BY <1>2, <1>4, <4>1, <4>3, <5>1, DueType
        <5>4. ref[k - 1].place \in Nat /\ ref[k].place <= Len(stream)
          BY <1>4, <3>1, <4>1
        <5> QED BY ONLY <1>2, <5>2, <5>3, <5>4, j \in 1..Len(ref[k].item), SMTT(30)
      <4> QED BY <1>0, <1>1, <4>2, <4>3, <4>4
    <3>2. CASE k = n + 1
      <4>1. k - 1 = n
        BY <1>2, <3>2
      <4>2. ref'[k] = new /\ ref'[k - 1] = last
        BY <1>0, <1>2, <3>2, <4>1 DEF new, last
      <4>3. /\ ref'[k].item = item /\ ref'[k] = Due(keep, last, item)
            /\ ref'[k - 1].place = Len(stream)
        BY <1>2, <1>5, <4>2
      <4>4. \A j \in 1..Len(item) : stream'[ref'[k - 1].place + j] = item[j]
        BY <1>0, <4>3
      <4> QED BY <1>1, <4>2, <4>3, <4>4
    <3>3. k \in 1..Len(ref')
      BY <1>0, <1>2, <2>2
    <3> QED BY <1>6, <3>1, <3>2, <3>3
  <2> QED BY <2>1, <2>2 DEF Made, StreamInv
<1>8. Ascending'
  <2> SUFFICES ASSUME NEW k \in 1..Len(ref'), NEW l \in 1..Len(ref'), k < l
               PROVE  ref'[k].place < ref'[l].place
    BY DEF Ascending
  <2>1. k \in 1..n
    BY <1>0, <1>2
  <2>2. CASE l \in 1..n
    BY <1>0, <2>1, <2>2 DEF StreamInv, Ascending, n
  <2>3. CASE l = n + 1
    <3>1. ref'[l] = new /\ ref'[k] = ref[k] /\ ref[k].place \in Nat /\ ref[k].place <= Len(stream)
      BY <1>0, <1>4, <2>1, <2>3 DEF new
    <3> QED BY <1>2, <1>3, <1>5, <3>1
  <2> QED BY <1>6, <2>2, <2>3
<1>9. Covered'
  <2> SUFFICES ASSUME NEW p \in 1..Len(stream')
               PROVE  \E k \in 2..Len(ref') : ref'[k - 1].place < p /\ p <= ref'[k].place
    BY DEF Covered
  <2>1. CASE p \in 1..Len(stream)
    <3>1. PICK k \in 2..Len(ref) : ref[k - 1].place < p /\ p <= ref[k].place
      BY <2>1 DEF StreamInv, Covered
    <3>2. k \in 2..Len(ref') /\ k \in 1..n /\ k - 1 \in 1..n
      BY <1>0, <1>2, <3>1 DEF n
    <3> QED BY <1>0, <3>1, <3>2
  <2>2. CASE p \notin 1..Len(stream)
    <3>1. Len(stream) < p /\ p <= Len(stream) + Len(item)
      BY <1>0, <1>2, <1>3, <2>2
    <3>2. n + 1 \in 2..Len(ref') /\ n + 1 - 1 = n
      BY <1>0, <1>2
    <3>3. ref'[n] = last
      BY <1>0, <1>2 DEF last
    <3> QED BY <1>2, <1>5, <3>1, <3>2, <3>3 DEF new
  <2> QED BY <2>1, <2>2
<1>10. KeptWhole'
  <2> SUFFICES ASSUME keep, NEW k \in 1..Len(ref'), NEW l \in 1..Len(ref'), k <= l,
                      \A m \in (k + 1)..l : ~ IsCommand(ref'[m].item)
               PROVE  /\ ref'[l].text = ref'[k].text
                                        \o SubSeq(stream', ref'[k].place + 1, ref'[l].place)
                      /\ ref'[l].answers = ref'[k].answers
    BY <1>1 DEF KeptWhole, NoCommand
  <2>1. ASSUME k \in 1..n, NEW i \in 1..n, k <= i, i <= l
        PROVE  /\ ref[i].text = ref[k].text \o SubSeq(stream, ref[k].place + 1, ref[i].place)
               /\ ref[i].answers = ref[k].answers
               /\ ref[k].place + 1 \in 1..(Len(stream) + 1)
               /\ ref[i].place \in (ref[k].place + 1 - 1)..Len(stream)
    <3>1. ASSUME NEW m \in (k + 1)..i PROVE ~ IsCommand(ref[m].item)
      <4>1. m \in (k + 1)..l /\ m \in 1..n
        BY <1>2, <2>1, <3>1
      <4>2. ~ IsCommand(ref'[m].item) /\ ref'[m] = ref[m]
        BY <1>0, <4>1
      <4> QED BY <4>2
    <3>2. NoCommand(k + 1, i)
      BY <3>1 DEF NoCommand
    <3>3. k = i \/ ref[k].place < ref[i].place
      BY <1>2, <2>1 DEF StreamInv, Ascending, n
    <3>4. ref[k].place \in Nat /\ ref[i].place \in Nat /\ ref[i].place <= Len(stream)
      BY <1>4, <2>1
    <3>5. /\ ref[i].text = ref[k].text \o SubSeq(stream, ref[k].place + 1, ref[i].place)
          /\ ref[i].answers = ref[k].answers
      BY <2>1, <3>2 DEF StreamInv, KeptWhole, n
    <3>6. ref[k].place <= ref[i].place
      BY <3>3, <3>4
    <3> QED BY ONLY <1>2, <3>4, <3>5, <3>6, SMTT(30)
  <2>2. CASE l \in 1..n
    <3>1. k \in 1..n /\ l <= l
      BY <1>2, <2>2
    <3>2. ref'[k] = ref[k] /\ ref'[l] = ref[l]
      BY <1>0, <2>2, <3>1
    <3>3. /\ ref[l].text = ref[k].text \o SubSeq(stream, ref[k].place + 1, ref[l].place)
          /\ ref[l].answers = ref[k].answers
          /\ ref[k].place + 1 \in 1..(Len(stream) + 1)
          /\ ref[l].place \in (ref[k].place + 1 - 1)..Len(stream)
      BY <2>1, <2>2, <3>1
    <3>4. SubSeq(stream', ref[k].place + 1, ref[l].place)
            = SubSeq(stream, ref[k].place + 1, ref[l].place)
      <4> DEFINE a == ref[k].place + 1
                 b == ref[l].place
      <4>1. a \in 1..(Len(stream) + 1) /\ b \in (a - 1)..Len(stream)
        BY <2>1, <2>2, <3>1, SMTT(30)
      <4> HIDE DEF a, b
      <4>2. SubSeq(stream \o item, a, b) = SubSeq(stream, a, b)
        BY <1>0, <1>2, <4>1, PartOfLonger
      <4> QED BY <1>1, <4>2 DEF a, b
    <3> QED BY <3>2, <3>3, <3>4
  <2>3. CASE l = n + 1 /\ k = n + 1
    <3>1. /\ new.place \in Nat /\ new.text \in Seq(Char)
      <4>1. new \in DueRecord
        BY <1>0, <1>2, <1>5, DueType
      <4> QED BY <4>1 DEF DueRecord
    <3>2. SubSeq(stream', new.place + 1, new.place) = <<>>
      BY <3>1, SubSeqEmpty
    <3>3. new.text \o <<>> = new.text
      BY <3>1, ConcatEmptySeq
    <3> QED BY <2>3, <3>2, <3>3 DEF new
  <2>4. CASE l = n + 1 /\ k \in 1..n
    <3>1. n \in 1..n /\ k <= n /\ n <= l /\ n + 1 \in (k + 1)..l
      BY <1>2, <2>4
    <3>2. /\ last.text = ref[k].text \o SubSeq(stream, ref[k].place + 1, Len(stream))
          /\ last.answers = ref[k].answers
          /\ ref[k].place + 1 \in 1..(Len(stream) + 1)
          /\ Len(stream) \in (ref[k].place + 1 - 1)..Len(stream)
      BY <1>2, <2>1, <2>4, <3>1 DEF last
    <3>3. ~ IsCommand(item)
      BY <1>5, <3>1 DEF new
    <3>4. new.text = last.text \o item /\ new.answers = last.answers
      BY <1>5, <3>3, ShownKept
    <3> DEFINE part == SubSeq(stream, ref[k].place + 1, Len(stream))
    <3>5. SubSeq(stream', ref[k].place + 1, new.place) = part \o item
      <4> DEFINE a == ref[k].place + 1
                 b == Len(stream)
      <4>1. a \in 1..(Len(stream) + 1) /\ b \in (a - 1)..Len(stream)
        BY <3>2
      <4> HIDE DEF a, b
      <4>2. SubSeq(stream \o item, a, Len(stream) + Len(item))
              = SubSeq(stream, a, Len(stream)) \o item
        BY <1>0, <1>2, <4>1, PartOfLonger
      <4> QED BY <1>1, <1>5, <4>2 DEF a
    <3>6. part \in Seq(Char) /\ ref[k].text \in Seq(Char)
      BY <1>2, <1>4, <2>4, <3>2, Part
    <3> HIDE DEF part
    <3>7. (ref[k].text \o part) \o item = ref[k].text \o (part \o item)
      <4> DEFINE text == ref[k].text
      <4>1. text \in Seq(Char)
        BY <3>6
      <4> HIDE DEF text
      <4>2. (text \o part) \o item = text \o (part \o item)
        <5>1. item \in Seq(Char) /\ part \in Seq(Char)
          BY <1>0, <3>6
        <5> QED BY ONLY <4>1, <5>1, SMTT(30)
      <4> QED BY <4>2 DEF text
    <3>8. ref'[k] = ref[k] /\ ref'[l] = new
      BY <1>0, <2>4 DEF new
    <3> QED BY <3>2, <3>4, <3>5, <3>7, <3>8 DEF part
  <2>5. k \in 1..n \/ (l = n + 1 /\ k = n + 1)
    <3>1. (k \in 1..n \/ k = n + 1) /\ (l \in 1..n \/ l = n + 1)
      BY <1>6
    <3>2. n \in Nat
      BY <1>2
    <3> QED BY ONLY <3>1, <3>2, k <= l
  <2> QED BY <1>6, <2>2, <2>3, <2>4, <2>5
<1> QED BY <1>7, <1>8, <1>9, <1>10 DEF StreamInv

LEMMA StreamStep == TypeInv /\ StreamInv /\ [Next]_vars => StreamInv'
<1> SUFFICES ASSUME TypeInv, StreamInv, [Next]_vars PROVE StreamInv'
  OBVIOUS
<1>1. ASSUME NEW item \in device, Send(item) PROVE StreamInv'
  BY <1>1, StreamSend
<1>2. ASSUME UNCHANGED <<device, keep, stream, ref>> PROVE StreamInv'
  BY <1>2 DEF StreamInv, Made, Ascending, Covered, KeptWhole, NoCommand
<1>3. ASSUME NEW n \in 1..(Len(stream) - taken), Read(n)
      PROVE  UNCHANGED <<device, keep, stream, ref>>
  BY <1>3 DEF Read, inVars
<1>4. ASSUME Negotiate \/ Negotiated PROVE UNCHANGED <<device, keep, stream, ref>>
  BY <1>4 DEF Negotiate, Negotiated, inVars
<1>5. ASSUME Clean PROVE UNCHANGED <<device, keep, stream, ref>>
  <2>1. taken \in Nat /\ LoopType /\ Len(suffix) <= taken
    BY DEF TypeInv
  <2> QED BY <1>5, <2>1, CleanDoes
<1>6. ASSUME NEW with, Save(with) PROVE UNCHANGED <<device, keep, stream, ref>>
  BY <1>6 DEF Save, inVars
<1>7. ASSUME UNCHANGED vars PROVE UNCHANGED <<device, keep, stream, ref>>
  BY <1>7 DEF vars, inVars
<1> QED BY <1>1, <1>2, <1>3, <1>4, <1>5, <1>6, <1>7 DEF Next

LEMMA Entry ==
    ASSUME TypeInv, StreamInv, NEW k \in 2..Len(ref)
    PROVE  /\ k \in 1..Len(ref) /\ k - 1 \in 1..Len(ref)
           /\ Item(ref[k].item) /\ ref[k].item \in device /\ Len(ref[k].item) \in Nat
           /\ ref[k - 1] \in DueRecord /\ ref[k - 1].place \in Nat
           /\ ref[k].place = ref[k - 1].place + Len(ref[k].item)
           /\ ref[k].text = Shown(keep, ref[k - 1].text, ref[k].item)
           /\ ref[k].answers = IF IsCommand(ref[k].item)
                               THEN Append(ref[k - 1].answers, Answer(ref[k].item))
                               ELSE ref[k - 1].answers
           /\ \A j \in 1..Len(ref[k].item) : stream[ref[k - 1].place + j] = ref[k].item[j]
<1>1. k \in 1..Len(ref) /\ k - 1 \in 1..Len(ref)
  BY DEF TypeInv
<1>2. ref[k - 1] \in DueRecord
  BY <1>1, ElementOfSeq DEF TypeInv
<1>3. /\ ref[k].item \in device /\ ref[k] = Due(keep, ref[k - 1], ref[k].item)
      /\ \A j \in 1..Len(ref[k].item) : stream[ref[k - 1].place + j] = ref[k].item[j]
  BY DEF StreamInv, Made
<1>4. Item(ref[k].item) /\ keep \in BOOLEAN
  BY <1>3, ReadAssumption DEF TypeInv
<1>5. Len(ref[k].item) \in Nat
  BY <1>4, ItemIs
<1> DEFINE item == ref[k].item
           due == ref[k - 1]
<1>6. item = ref[k].item /\ due = ref[k - 1]
  OBVIOUS
<1> HIDE DEF item, due
<1>7. /\ Due(keep, due, item).place = due.place + Len(item)
      /\ Due(keep, due, item).text = Shown(keep, due.text, item)
      /\ Due(keep, due, item).answers = IF IsCommand(item)
              THEN Append(due.answers, Answer(item)) ELSE due.answers
  BY <1>2, <1>4, <1>6, DueType
<1>8. ref[k - 1].place \in Nat
  BY <1>2 DEF DueRecord
<1>9. ref[k] = Due(keep, due, item)
  BY <1>3, <1>6
<1>10. /\ ref[k].place = due.place + Len(item)
       /\ ref[k].text = Shown(keep, due.text, item)
       /\ ref[k].answers = IF IsCommand(item)
              THEN Append(due.answers, Answer(item)) ELSE due.answers
  BY ONLY <1>7, <1>9
<1> QED BY <1>1, <1>2, <1>3, <1>4, <1>5, <1>8, <1>10 DEF item, due

------------------------------------------------------------------------------
(* The parts of a read, and what is saved *)

PlaceInv ==
    /\ pc = "negotiate" => Unread(1) /\ (suffix # <<>> \/ hitNeg)
    /\ pc = "clean" => ~ keep
    /\ ~ failed
    /\ saved # <<>> => pc = "match" /\ saved = Lines(buf, filter)

LEMMA PlaceInit == Init => PlaceInv
  BY DEF Init, PlaceInv

LEMMA PlaceStep == TypeInv /\ PlaceInv /\ [Next]_vars => PlaceInv'
<1> SUFFICES ASSUME TypeInv, PlaceInv, [Next]_vars PROVE PlaceInv'
  OBVIOUS
<1>0. taken \in Nat /\ LoopType /\ Len(suffix) <= taken
  BY DEF TypeInv
<1>1. ASSUME NEW item \in device, Send(item) PROVE PlaceInv'
  <2>1. pc' = "match" /\ failed' = failed /\ saved' = saved /\ saved = <<>>
    BY <1>1 DEF Send, loopVars, outVars
  <2> QED BY <2>1 DEF PlaceInv
<1>2. ASSUME NEW n \in 1..(Len(stream) - taken), Read(n) PROVE PlaceInv'
  <2>1. /\ pc' = "negotiate" /\ failed' = failed /\ saved' = saved /\ saved = <<>>
        /\ taken' = taken + n /\ stream' = stream
    BY <1>2 DEF Read, inVars, outVars
  <2>2. Len(suffix') = n /\ \A j \in 1..n : suffix'[j] = stream[taken + j]
    BY <1>2, TypeRead
  <2>3. n \in Nat /\ n >= 1
    BY <1>2 DEF TypeInv
  <2>4. From' = taken
    <3>1. From' = taken' - Len(suffix')
      BY DEF From
    <3> QED BY ONLY <1>0, <2>1, <2>2, <2>3, <3>1
  <2>5. Unread(1)'
    BY <2>1, <2>2, <2>4 DEF Unread
  <2>6. suffix' # <<>>
    BY <2>2, <2>3
  <2> QED BY <2>1, <2>5, <2>6 DEF PlaceInv
<1>3. CASE Negotiate
  <2>1. /\ pc = "negotiate" /\ pc' = pc /\ failed' = failed /\ saved' = saved
        /\ hitNeg' = TRUE /\ at = 1
    BY <1>3 DEF Negotiate, outVars, TypeInv
  <2>2. Unread(4)
    <3>1. \A j \in 4..Len(suffix) : j \in 1..Len(suffix)
      BY <1>0
    <3> QED BY <2>1, <3>1 DEF PlaceInv, Unread
  <2>3. Unread(1)'
    BY <1>0, <1>3, <2>1, <2>2, NegotiateDoes
  <2>4. saved = <<>> /\ ~ failed
    BY <2>1 DEF PlaceInv
  <2> QED BY <2>1, <2>3, <2>4 DEF PlaceInv
<1>4. CASE Negotiated
  <2>1. /\ pc = "negotiate" /\ failed' = (suffix = <<>> /\ ~ hitNeg)
        /\ saved' = saved /\ keep' = keep /\ (pc' = "match" \/ (pc' = "clean" /\ ~ keep))
    BY <1>4 DEF Negotiated, inVars, outVars
  <2>2. ~ failed' /\ saved = <<>>
    BY <2>1 DEF PlaceInv
  <2> QED BY <2>1, <2>2 DEF PlaceInv
<1>5. CASE Clean
  <2>1. /\ UNCHANGED <<keep, saved, failed>> /\ pc = "clean"
        /\ (pc' = "clean" \/ pc' = "match")
    BY <1>0, <1>5, CleanDoes
  <2>2. saved = <<>> /\ ~ failed /\ ~ keep
    BY <2>1 DEF PlaceInv
  <2> QED BY <2>1, <2>2 DEF PlaceInv
<1>6. ASSUME NEW with, Save(with) PROVE PlaceInv'
  <2>1. /\ pc = "match" /\ UNCHANGED <<pc, buf, failed>>
        /\ filter' = with /\ saved' = Lines(buf, with)
    BY <1>6 DEF Save, loopVars
  <2> QED BY <2>1 DEF PlaceInv
<1>7. CASE UNCHANGED vars
  BY <1>7 DEF PlaceInv, vars, inVars, loopVars, outVars, Unread, From
<1> QED BY <1>1, <1>2, <1>3, <1>4, <1>5, <1>6, <1>7 DEF Next

------------------------------------------------------------------------------
(* Answers *)

\* What the characters that telnetNegotiation is done with say.
Upto == IF pc = "negotiate" THEN From ELSE taken

AnswerInv ==
    \E of \in [1..Len(replies) -> 2..Len(ref)] :
       \A i \in 1..Len(replies) :
          /\ IsCommand(ref[of[i]].item) /\ replies[i] = Answer(ref[of[i]].item)
          /\ \A j \in 1..(i - 1) : of[j] < of[i]
          /\ ref[of[i]].place <= Upto

LEMMA UptoType ==
    ASSUME TypeInv
    PROVE  From \in Nat /\ From <= taken /\ Upto \in Nat /\ Upto <= taken
<1>1. taken \in Nat /\ Len(suffix) \in Nat /\ Len(suffix) <= taken
  BY DEF TypeInv, LoopType
<1>2. From = taken - Len(suffix)
  BY DEF From
<1>3. From \in Nat /\ From <= taken
  BY ONLY <1>1, <1>2
<1> QED BY <1>1, <1>3 DEF Upto

\* What was answered stays so while the device sends on.
LEMMA AnswerKept ==
    ASSUME TypeInv, AnswerInv, replies' = replies, Len(ref') \in Nat, Len(ref) <= Len(ref'),
           \A k \in 1..Len(ref) : ref'[k] = ref[k], Upto <= Upto', Upto' \in Nat
    PROVE  AnswerInv'
<1>1. PICK of \in [1..Len(replies) -> 2..Len(ref)] :
         \A i \in 1..Len(replies) :
            /\ IsCommand(ref[of[i]].item) /\ replies[i] = Answer(ref[of[i]].item)
            /\ \A j \in 1..(i - 1) : of[j] < of[i]
            /\ ref[of[i]].place <= Upto
  BY DEF AnswerInv
<1>2. of \in [1..Len(replies') -> 2..Len(ref')]
  <2>1. 2..Len(ref) \subseteq 2..Len(ref')
    BY DEF TypeInv
  <2> QED BY <1>1, <2>1
<1>3. ASSUME NEW i \in 1..Len(replies')
      PROVE  /\ IsCommand(ref'[of[i]].item) /\ replies'[i] = Answer(ref'[of[i]].item)
             /\ \A j \in 1..(i - 1) : of[j] < of[i]
             /\ ref'[of[i]].place <= Upto'
  <2>1. i \in 1..Len(replies) /\ of[i] \in 1..Len(ref)
    BY <1>1 DEF TypeInv
  <2>2. ref'[of[i]] = ref[of[i]]
    BY <2>1
  <2>3. ref[of[i]].place \in Nat
    <3>1. ref[of[i]] \in DueRecord
      BY <2>1, ElementOfSeq DEF TypeInv
    <3> QED BY <3>1 DEF DueRecord
  <2>4. ref[of[i]].place <= Upto'
    <3>1. ref[of[i]].place <= Upto /\ Upto \in Nat
      BY <1>1, <2>1, UptoType
    <3> QED BY ONLY <2>3, <3>1, Upto <= Upto', Upto' \in Nat
  <2> QED BY <1>1, <2>1, <2>2, <2>4
<1> QED BY <1>2, <1>3 DEF AnswerInv

\* What telnetNegotiation takes for a command is one, whatever the reads: nothing else
\* that a device sends holds an IAC.
LEMMA HeadIsCommand ==
    ASSUME TypeInv, StreamInv, pc = "negotiate", Unread(1), CommandAtHead
    PROVE  \E k \in 2..Len(ref) :
              /\ IsCommand(ref[k].item) /\ Answer(suffix) = Answer(ref[k].item)
              /\ ref[k - 1].place = From /\ ref[k].place = From + 3
<1>0. /\ taken \in Nat /\ Len(suffix) \in Nat /\ Len(suffix) <= taken /\ Len(suffix) >= 3
      /\ Len(stream) \in Nat /\ taken <= Len(stream) /\ suffix[1] = "IAC"
  BY DEF TypeInv, LoopType, CommandAtHead
<1>1. From = taken - Len(suffix)
  BY DEF From
<1>2. From + 1 \in 1..Len(stream) /\ From \in Nat
  BY ONLY <1>0, <1>1
<1>3. PICK k \in 2..Len(ref) : ref[k - 1].place < From + 1 /\ From + 1 <= ref[k].place
  BY <1>2 DEF StreamInv, Covered
<1> DEFINE item == ref[k].item
           before == ref[k - 1].place
           j == From + 1 - before
<1>4. /\ Item(item) /\ Len(item) \in Nat /\ before \in Nat
      /\ ref[k].place = before + Len(item)
      /\ \A i \in 1..Len(item) : stream[before + i] = item[i]
  BY Entry
<1>5. suffix[1] = stream[From + 1] /\ suffix[2] = stream[From + 2] /\ suffix[3] = stream[From + 3]
  <2>1. 1 \in 1..Len(suffix) /\ 2 \in 1..Len(suffix) /\ 3 \in 1..Len(suffix)
    BY <1>0
  <2> QED BY <2>1 DEF Unread
<1>6. before < From + 1 /\ From + 1 <= before + Len(item)
  BY <1>3, <1>4
<1> HIDE DEF item, before
<1>7. j \in 1..Len(item) /\ before + j = From + 1
  BY ONLY <1>2, <1>4, <1>6
<1> HIDE DEF j
<1>8. item[j] = "IAC"
  <2>1. stream[before + j] = item[j]
    BY <1>4, <1>7
  <2> QED BY <1>0, <1>5, <1>7, <2>1
<1>9. j = 1 /\ IsCommand(item) /\ Len(item) = 3
  BY <1>4, <1>7, <1>8, ItemIs
<1>10. before = From
  BY ONLY <1>2, <1>4, <1>7, <1>9
<1>11. item[2] = suffix[2] /\ item[3] = suffix[3]
  <2>1. 2 \in 1..Len(item) /\ 3 \in 1..Len(item)
    BY <1>9
  <2> QED BY <1>4, <1>5, <1>10, <2>1
<1>12. Answer(suffix) = Answer(item)
  BY <1>11 DEF Answer
<1>13. ref[k].place = From + 3
  BY <1>4, <1>9, <1>10
<1> QED BY <1>9, <1>10, <1>12, <1>13 DEF item, before

LEMMA AnswerInit == Init => AnswerInv
<1> SUFFICES ASSUME Init PROVE AnswerInv
  OBVIOUS
<1>1. Len(replies) = 0
  BY DEF Init
<1> DEFINE of == [i \in 1..Len(replies) |-> 2]
<1>2. of \in [1..Len(replies) -> 2..Len(ref)]
  BY <1>1
<1>3. \A i \in 1..Len(replies) : FALSE
  BY <1>1
<1> HIDE DEF of
<1> QED BY <1>2, <1>3 DEF AnswerInv

LEMMA AnswerNegotiate ==
    ASSUME TypeInv, StreamInv, PlaceInv, AnswerInv, Negotiate
    PROVE  AnswerInv'
<1>0. /\ pc = "negotiate" /\ pc' = pc /\ at = 1 /\ CommandAtHead /\ Unread(1)
      /\ replies' = Append(replies, Answer(suffix)) /\ ref' = ref
      /\ taken \in Nat /\ LoopType /\ Len(suffix) <= taken
  BY DEF Negotiate, TypeInv, PlaceInv, inVars
<1>1. PICK of \in [1..Len(replies) -> 2..Len(ref)] :
         \A i \in 1..Len(replies) :
            /\ IsCommand(ref[of[i]].item) /\ replies[i] = Answer(ref[of[i]].item)
            /\ \A j \in 1..(i - 1) : of[j] < of[i]
            /\ ref[of[i]].place <= Upto
  BY DEF AnswerInv
<1>2. PICK k \in 2..Len(ref) :
         /\ IsCommand(ref[k].item) /\ Answer(suffix) = Answer(ref[k].item)
         /\ ref[k - 1].place = From /\ ref[k].place = From + 3
  BY <1>0, HeadIsCommand
<1>3. Upto = From /\ Upto' = From + 3 /\ From \in Nat
  <2>1. From' = From + 3
    BY <1>0, NegotiateDoes
  <2> QED BY <1>0, <2>1, UptoType DEF Upto
<1>4. /\ Len(replies') = Len(replies) + 1 /\ Len(replies) \in Nat
      /\ \A i \in 1..Len(replies) : replies'[i] = replies[i]
      /\ replies'[Len(replies) + 1] = Answer(suffix)
  <2>1. Len(suffix) >= 3 /\ suffix \in Seq(Char)
    BY <1>0 DEF CommandAtHead, LoopType
  <2>2. Answer(suffix) \in Reply /\ replies \in Seq(Reply)
    BY <2>1, AnswerType DEF TypeInv
  <2> QED BY <1>0, <2>2, AppendProperties
<1>5. ASSUME NEW i \in 1..Len(replies) PROVE of[i] \in 2..Len(ref) /\ of[i] < k
  <2>1. of[i] \in 2..Len(ref) /\ ref[of[i]].place <= From
    BY <1>1, <1>3
  <2>2. ref[k].place = From + 3 /\ k \in 2..Len(ref)
    BY <1>2
  <2> DEFINE l == of[i]
  <2>3. l \in 1..Len(ref) /\ k \in 1..Len(ref) /\ l \in Int /\ k \in Int
    BY <2>1, <2>2 DEF TypeInv
  <2>4. k < l => ref[k].place < ref[l].place
    BY <2>3 DEF StreamInv, Ascending
  <2>5. k = l => ref[k].place = ref[l].place
    OBVIOUS
  <2>6. ref[l].place \in Nat
    <3>1. ref[l] \in DueRecord
      BY <2>3, ElementOfSeq DEF TypeInv
    <3> QED BY <3>1 DEF DueRecord
  <2>7. l < k
    BY ONLY <1>3, <2>1, <2>2, <2>3, <2>4, <2>5, <2>6
  <2> QED BY <2>1, <2>7
<1> DEFINE to == [i \in 1..Len(replies') |-> IF i = Len(replies) + 1 THEN k ELSE of[i]]
<1>6. /\ to \in [1..Len(replies') -> 2..Len(ref')]
      /\ to[Len(replies) + 1] = k
      /\ \A i \in 1..Len(replies) : to[i] = of[i]
  <2>1. \A i \in 1..Len(replies') : i \in 1..Len(replies) \/ i = Len(replies) + 1
    BY <1>4
  <2>2. \A i \in 1..Len(replies) : i \in 1..Len(replies') /\ i # Len(replies) + 1
    BY <1>4
  <2>3. Len(replies) + 1 \in 1..Len(replies')
    BY <1>4
  <2>4. \A i \in 1..Len(replies') : to[i] \in 2..Len(ref')
    BY <1>0, <1>2, <1>5, <2>1, <2>2
  <2> QED BY <2>2, <2>3, <2>4
<1> HIDE DEF to
<1>7. ASSUME NEW i \in 1..Len(replies')
      PROVE  /\ IsCommand(ref'[to[i]].item) /\ replies'[i] = Answer(ref'[to[i]].item)
             /\ \A j \in 1..(i - 1) : to[j] < to[i]
             /\ ref'[to[i]].place <= Upto'
  <2>0. \A j \in 1..(i - 1) : j \in 1..Len(replies)
    BY <1>4
  <2>1. CASE i \in 1..Len(replies)
    <3>1. to[i] = of[i] /\ \A j \in 1..(i - 1) : to[j] = of[j]
      BY <1>6, <2>0, <2>1
    <3>2. of[i] \in 1..Len(ref)
      BY <1>5, <2>1 DEF TypeInv
    <3>3. ref[of[i]].place \in Nat
      <4>1. ref[of[i]] \in DueRecord
        BY <3>2, ElementOfSeq DEF TypeInv
      <4> QED BY <4>1 DEF DueRecord
    <3>4. ref[of[i]].place <= From
      BY <1>1, <1>3, <2>1
    <3>5. ref[of[i]].place <= Upto'
      BY ONLY <1>3, <3>3, <3>4
    <3>6. replies'[i] = replies[i]
      BY <1>4, <2>1
    <3> QED BY <1>0, <1>1, <2>1, <3>1, <3>5, <3>6
  <2>2. CASE i = Len(replies) + 1
    <3>1. to[i] = k
      BY <1>6, <2>2
    <3>2. \A j \in 1..(i - 1) : to[j] < k
      BY <1>5, <1>6, <2>0
    <3>3. ref[k].place <= Upto'
      BY <1>2, <1>3
    <3>4. replies'[i] = Answer(ref[k].item)
      BY <1>2, <1>4, <2>2
    <3> QED BY <1>0, <1>2, <3>1, <3>2, <3>3, <3>4
  <2> QED BY <1>4, <2>1, <2>2
<1> QED BY <1>6, <1>7 DEF AnswerInv

LEMMA AnswerStep == TypeInv /\ StreamInv /\ PlaceInv /\ AnswerInv /\ [Next]_vars => AnswerInv'
<1> SUFFICES ASSUME TypeInv, StreamInv, PlaceInv, AnswerInv, [Next]_vars PROVE AnswerInv'
  OBVIOUS
<1>0. /\ taken \in Nat /\ LoopType /\ Len(suffix) <= taken
      /\ Upto \in Nat /\ Upto <= taken /\ Len(ref) \in Nat
  BY UptoType DEF TypeInv
<1>1. ASSUME NEW item \in device, Send(item) PROVE AnswerInv'
  <2>1. /\ pc = "match" /\ UNCHANGED <<pc, taken, replies>>
    BY <1>1 DEF Send, loopVars
  <2>2. Len(ref') = Len(ref) + 1 /\ \A k \in 1..Len(ref) : ref'[k] = ref[k]
    BY <1>1, TypeSend
  <2>3. Upto' = Upto
    BY <2>1 DEF Upto
  <2> QED BY <1>0, <2>1, <2>2, <2>3, AnswerKept
<1>2. ASSUME NEW n \in 1..(Len(stream) - taken), Read(n) PROVE AnswerInv'
  <2>1. /\ pc = "match" /\ pc' = "negotiate" /\ UNCHANGED <<ref, replies>> /\ taken' = taken + n
    BY <1>2 DEF Read, inVars
  <2>2. Len(suffix') = n /\ n \in Nat
    BY <1>2, TypeRead DEF TypeInv
  <2>3. Upto' = taken
    <3>1. From' = taken' - Len(suffix')
      BY DEF From
    <3>2. From' = taken
      BY ONLY <1>0, <2>1, <2>2, <3>1
    <3> QED BY <2>1, <3>2 DEF Upto
  <2> QED BY <1>0, <2>1, <2>3, AnswerKept
<1>3. CASE Negotiate
  BY <1>3, AnswerNegotiate
<1>4. CASE Negotiated
  <2>1. UNCHANGED <<ref, replies, taken>> /\ pc' # "negotiate"
    BY <1>4 DEF Negotiated, inVars
  <2> QED BY <1>0, <2>1, AnswerKept DEF Upto
<1>5. CASE Clean
  <2>1. UNCHANGED <<ref, replies, taken>> /\ pc' # "negotiate"
    BY <1>0, <1>5, CleanDoes
  <2> QED BY <1>0, <2>1, AnswerKept DEF Upto
<1>6. ASSUME NEW with, Save(with) PROVE AnswerInv'
  <2>1. UNCHANGED <<ref, replies, taken, pc>> /\ pc = "match"
    BY <1>6 DEF Save, inVars, loopVars
  <2> QED BY <1>0, <2>1, AnswerKept DEF Upto
<1>7. CASE UNCHANGED vars
  <2>1. UNCHANGED <<ref, replies, taken, pc, suffix>>
    BY <1>7 DEF vars, inVars, loopVars
  <2>2. Upto' = Upto
    BY <2>1 DEF Upto, From
  <2> QED BY <1>0, <2>1, <2>2, AnswerKept
<1> QED BY <1>1, <1>2, <1>3, <1>4, <1>5, <1>6, <1>7 DEF Next

------------------------------------------------------------------------------
(* What is kept, while no read was torn *)

\* The loop is just after an item, all of what was due before it is done, and nothing of
\* what comes after it; or before the last character of one, which stays.
AtItem(k) == Pos = ref[k].place /\ (Mastered(k) => Kept = ref[k].text) /\ Unread(at)
InItem(k) == /\ k > 1 /\ pc = "clean" /\ at <= Len(suffix) /\ Pos + 1 = ref[k].place
             /\ suffix[at] \in {"LF", "~"}
             /\ Mastered(k) => Append(Kept, suffix[at]) = ref[k].text
             /\ Unread(at + 1)
\* The read goes on to the end of item l, and it can be told what is what in it.
Between(k, l) == /\ k <= l /\ ref[l].place = taken /\ ~ Ambiguous(k + 1, l)
                 /\ replies = ref[k].answers
                 /\ pc = "clean" => NoCommand(k + 1, l)

ReadInv == ~ torn =>
    \E k, l \in 1..Len(ref) : Between(k, l) /\ (AtItem(k) \/ InItem(k))

\* It takes one item more to be mastered too.
LEMMA MasteredNext ==
    ASSUME NEW k \in Nat, k >= 1, Mastered(k + 1)
    PROVE  Mastered(k) /\ ~ Mistaken(ref[k].text, ref[k + 1].item)
<1>1. /\ \A j \in 2..k : j \in 2..(k + 1)
      /\ k + 1 \in 2..(k + 1) /\ k + 1 - 1 = k
  OBVIOUS
<1>2. \A j \in 2..(k + 1) : ~ Mistaken(ref[j - 1].text, ref[j].item)
  BY DEF Mastered
<1> QED BY <1>1, <1>2 DEF Mastered

\* Nothing is mistaken if all is kept.
LEMMA WholeMastered ==
    ASSUME keep, NEW k
    PROVE  Mastered(k)
BY DEF Mastered, Mistaken

\* What the device sends later does not change it.
LEMMA MasteredKept ==
    ASSUME NEW k \in 1..Len(ref), keep' = keep, Len(ref) \in Nat,
           \A i \in 1..Len(ref) : ref'[i] = ref[i]
    PROVE  Mastered(k)' = Mastered(k)
<1>1. \A j \in 2..k : j \in 1..Len(ref) /\ j - 1 \in 1..Len(ref)
  OBVIOUS
<1>2. \A j \in 2..k : ref'[j] = ref[j] /\ ref'[j - 1] = ref[j - 1]
  BY <1>1
<1> QED BY <1>2 DEF Mastered, Mistaken

\* What an item is shows in its first character, once commands are out.
LEMMA Kinds ==
    ASSUME NEW item, Item(item), ~ IsCommand(item)
    PROVE  /\ item[1] \notin {"CR", "BS", "ESC"} \cup OtherControl => IsPlain(item)
           /\ item[1] = "CR" => IsLineEnd(item) \/ item = <<"CR">>
           /\ item[1] = "BS" => item = <<"BS">>
           /\ item[1] = "ESC" => IsDrawing(item)
           /\ item[1] \in OtherControl => IsDrawing(item) /\ Len(item) = 1
<1> DEFINE cr == <<"CR">>
           bs == <<"BS">>
<1>1. cr[1] = "CR" /\ bs[1] = "BS"
  OBVIOUS
<1> HIDE DEF cr, bs
<1>2. \/ IsPlain(item) \/ IsLineEnd(item) \/ IsDrawing(item)
      \/ item = cr \/ item = bs
  BY DEF Item, cr, bs
<1>3. /\ IsPlain(item) => item[1] \in Text \cup {"LF"}
      /\ IsLineEnd(item) => item[1] = "CR"
      /\ IsDrawing(item) => item[1] = "ESC" \/ (item[1] \in OtherControl /\ Len(item) = 1)
  BY ItemIs
<1>4. \A c \in {"CR", "BS", "ESC"} : c \notin Text \cup {"LF"} \cup OtherControl
  BY ReadAssumption DEF Special, OtherControl
<1>5. \A c \in Text \cup {"LF"} : c \notin OtherControl
  BY ReadAssumption DEF Special, OtherControl
<1>6. item[1] \notin {"CR", "BS", "ESC"} \cup OtherControl => IsPlain(item)
  BY <1>1, <1>2, <1>3
<1>7. item[1] = "CR" => IsLineEnd(item) \/ item = cr
  BY <1>1, <1>2, <1>3, <1>4
<1>8. item[1] = "BS" => item = bs
  BY <1>1, <1>2, <1>3, <1>4
<1>9. item[1] = "ESC" => IsDrawing(item)
  BY <1>1, <1>2, <1>3, <1>4
<1>10. item[1] \in OtherControl => IsDrawing(item) /\ Len(item) = 1
  BY <1>1, <1>2, <1>3, <1>4, <1>5
<1> QED BY <1>6, <1>7, <1>8, <1>9, <1>10 DEF cr, bs

\* What is next to read is an item, and all of it is in suffix.
LEMMA NextItem ==
    ASSUME TypeInv, StreamInv, NEW k \in 1..Len(ref), NEW l \in 1..Len(ref), k <= l,
           ref[l].place = taken, AtItem(k), at <= Len(suffix)
    PROVE  /\ k + 1 \in 2..Len(ref) /\ k + 1 - 1 = k /\ k + 1 <= l
           /\ Len(ref[k + 1].item) \in Nat
           /\ ref[k + 1].place = Pos + Len(ref[k + 1].item) /\ Pos \in Nat
           /\ at + Len(ref[k + 1].item) - 1 <= Len(suffix)
           /\ \A j \in 1..Len(ref[k + 1].item) : suffix[at + j - 1] = ref[k + 1].item[j]
<1>0. /\ taken \in Nat /\ Len(suffix) \in Nat /\ Len(suffix) <= taken /\ at \in Nat /\ 1 <= at
      /\ Len(ref) \in Nat /\ k \in Nat /\ l \in Nat /\ at <= Len(suffix)
  BY DEF TypeInv, LoopType
<1>1. From = taken - Len(suffix) /\ Pos = From + at - 1 /\ Pos = ref[k].place
  BY DEF From, Pos, AtItem
<1>2. Pos \in Nat /\ Pos < taken
  BY ONLY <1>0, <1>1
<1>3. k # l
  BY <1>1, <1>2
<1>4. k + 1 \in 2..Len(ref) /\ k + 1 - 1 = k /\ k + 1 <= l /\ k + 1 \in 1..Len(ref)
  BY ONLY <1>0, <1>3, k \in 1..Len(ref), l \in 1..Len(ref), k <= l
<1> DEFINE item == ref[k + 1].item
<1>5. /\ Len(item) \in Nat /\ ref[k + 1].place = ref[k].place + Len(item)
      /\ \A j \in 1..Len(item) : stream[ref[k].place + j] = item[j]
  <2> DEFINE m == k + 1
  <2>1. m \in 2..Len(ref) /\ m - 1 = k
    BY <1>4
  <2> HIDE DEF m
  <2>2. /\ Len(ref[m].item) \in Nat
        /\ ref[m].place = ref[k].place + Len(ref[m].item)
        /\ \A j \in 1..Len(ref[m].item) : stream[ref[k].place + j] = ref[m].item[j]
    BY <2>1, Entry
  <2> QED BY <2>2 DEF m
<1>6. ref[k + 1].place <= taken
  <2>1. k + 1 = l \/ ref[k + 1].place < ref[l].place
    BY <1>0, <1>4 DEF StreamInv, Ascending
  <2>2. ref[k + 1].place \in Nat
    BY <1>1, <1>2, <1>5
  <2> QED BY <1>0, <2>1, <2>2
<1> HIDE DEF item
<1>7. at + Len(item) - 1 <= Len(suffix)
  BY ONLY <1>0, <1>1, <1>5, <1>6, SMTT(30)
<1>8. ASSUME NEW j \in 1..Len(item) PROVE suffix[at + j - 1] = item[j]
  <2> DEFINE p == at + j - 1
  <2>0. Len(item) \in Nat /\ j \in Nat /\ 1 <= j /\ j <= Len(item) /\ From \in Int
    BY <1>0, <1>1, <1>5
  <2>1. p \in at..Len(suffix) /\ From + p = ref[k].place + j
    <3> DEFINE n == Len(suffix)
               m == Len(item)
               o == ref[k].place
    <3>1. /\ n \in Nat /\ m \in Nat /\ at \in Nat /\ at + m - 1 <= n /\ o = From + at - 1
      BY <1>0, <1>1, <1>7, <2>0
    <3>2. 1 <= j /\ j <= m /\ j \in Nat
      BY <2>0
    <3> HIDE DEF n, m, o
    <3>3. p \in at..n /\ From + p = o + j
      BY ONLY <2>0, <3>1, <3>2
    <3> QED BY <3>3 DEF n, o
  <2> HIDE DEF p
  <2>2. suffix[p] = stream[From + p]
    BY <2>1 DEF AtItem, Unread
  <2> QED BY <1>5, <2>1, <2>2 DEF p
<1>9. ref[k + 1].place = Pos + Len(item)
  BY <1>1, <1>5
<1> QED BY <1>2, <1>4, <1>5, <1>7, <1>8, <1>9 DEF item

\* A CR that LF or NUL follows is half of an end of line.
LEMMA ReturnIs ==
    ASSUME TypeInv, StreamInv, NEW k \in 1..Len(ref), NEW l \in 1..Len(ref),
           Between(k, l), AtItem(k), at <= Len(suffix)
    PROVE  /\ IsLineEnd(ref[k + 1].item) => LineEnds
           /\ ref[k + 1].item = <<"CR">> => ~ LineEnds
<1> DEFINE item == ref[k + 1].item
           cr == <<"CR">>
<1>1. k <= l /\ ref[l].place = taken /\ ~ Ambiguous(k + 1, l)
  BY DEF Between
<1>2. /\ k + 1 \in 2..Len(ref) /\ k + 1 <= l /\ Len(item) \in Nat
      /\ ref[k + 1].place = Pos + Len(item) /\ Pos \in Nat
      /\ at + Len(item) - 1 <= Len(suffix)
      /\ \A j \in 1..Len(item) : suffix[at + j - 1] = item[j]
  BY <1>1, NextItem
<1>3. /\ taken \in Nat /\ Len(suffix) \in Nat /\ Len(suffix) <= taken /\ at \in Nat /\ 1 <= at
      /\ Len(ref) \in Nat /\ k \in Nat /\ l \in Nat
  BY DEF TypeInv, LoopType
<1>4. From = taken - Len(suffix) /\ Pos = From + at - 1
  BY DEF From, Pos
<1>5. Item(item)
  BY <1>2, Entry
<1>6. Len(cr) = 1
  OBVIOUS
<1> HIDE DEF item, cr
<1>7. ASSUME IsLineEnd(item) PROVE LineEnds
  <2>1. Len(item) = 2 /\ item[2] \in {"LF", "NUL"}
    BY <1>5, <1>7, ItemIs
  <2>2. 2 \in 1..Len(item) /\ at + 2 - 1 = at + 1 /\ at < Len(suffix)
    BY ONLY <1>2, <1>3, <2>1
  <2>3. suffix[at + 1] = item[2]
    BY <1>2, <2>2
  <2> QED BY <2>1, <2>2, <2>3 DEF LineEnds
<1>8. ASSUME item = cr, LineEnds PROVE FALSE
  <2>1. at < Len(suffix) /\ suffix[at + 1] \in {"NUL", "LF"}
    BY <1>8 DEF LineEnds
  <2>2. Len(item) = 1 /\ ref[k + 1].place = Pos + 1
    BY <1>2, <1>6, <1>8
  <2>3. Pos + 1 < taken
    BY ONLY <1>3, <1>4, <2>1
  <2>4. k + 1 # l
    BY <1>1, <1>2, <2>2, <2>3
  <2> DEFINE m == k + 2
  <2>5. /\ m \in 2..Len(ref) /\ m <= l /\ m - 1 = k + 1 /\ k + 1 \in (k + 1)..(l - 1)
    BY ONLY <1>2, <1>3, <2>4, l \in 1..Len(ref)
  <2>6. /\ Item(ref[m].item)
        /\ \A j \in 1..Len(ref[m].item) : stream[ref[m - 1].place + j] = ref[m].item[j]
    BY <2>5, Entry
  <2>7. 1 \in 1..Len(ref[m].item)
    BY <2>6, ItemIs
  <2>8. ref[m].item[1] = stream[Pos + 1 + 1]
    BY <2>2, <2>5, <2>6, <2>7
  <2>9. suffix[at + 1] = stream[Pos + 1 + 1]
    <3>1. at + 1 \in at..Len(suffix) /\ From + (at + 1) = Pos + 1 + 1
      BY ONLY <1>3, <1>4, <2>1
    <3> QED BY <3>1 DEF AtItem, Unread
  <2>10. k + 1 + 1 = m
    BY <1>3
  <2>11. ref[k + 1].item = <<"CR">> /\ ref[k + 1 + 1].item[1] \in {"LF", "NUL"}
    BY <1>8, <2>1, <2>8, <2>9, <2>10 DEF item, cr
  <2>12. Ambiguous(k + 1, l)
    BY <2>5, <2>11 DEF Ambiguous
  <2> QED BY <1>1, <2>12
<1> QED BY <1>7, <1>8 DEF item, cr

LEMMA BetweenKept ==
    ASSUME NEW k, NEW l, Between(k, l), pc = "clean",
           ref' = ref, taken' = taken, replies' = replies
    PROVE  Between(k, l)'
BY DEF Between, Ambiguous, NoCommand

LEMMA BetweenNext ==
    ASSUME TypeInv, StreamInv, NEW k \in 1..Len(ref), NEW l \in 1..Len(ref), k + 1 <= l,
           Between(k, l), pc = "clean", ref' = ref, taken' = taken, replies' = replies
    PROVE  Between(k + 1, l)'
<1> DEFINE m == k + 1
<1>0. m \in 2..Len(ref) /\ m - 1 = k /\ m \in (k + 1)..l /\ m <= l
  BY DEF TypeInv
<1>1. /\ ref[l].place = taken /\ replies = ref[k].answers
      /\ ~ Ambiguous(m, l) /\ NoCommand(m, l)
  BY DEF Between
<1> HIDE DEF m
<1>2. \A i \in (m + 1)..l : i \in m..l
  BY <1>0
<1>3. \A i \in (m + 1)..(l - 1) : i \in m..(l - 1)
  BY <1>0
<1>4. ~ Ambiguous(m + 1, l)
  BY <1>1, <1>2, <1>3 DEF Ambiguous
<1>5. ~ IsCommand(ref[m].item) /\ NoCommand(m + 1, l)
  <2>1. m \in m..l
    BY <1>0
  <2> QED BY <1>1, <1>2, <2>1 DEF NoCommand
<1>6. ref[m].answers = ref[m - 1].answers
  BY <1>0, <1>5, Entry
<1>7. Between(m, l)
  BY <1>0, <1>1, <1>4, <1>5, <1>6 DEF Between
<1>8. Between(m, l)'
  BY <1>7, BetweenKept
<1> QED BY <1>8 DEF m

\* A character more, or two.
LEMMA OneMore ==
    ASSUME NEW text \in Seq(Char), NEW c \in Char
    PROVE  text \o <<c>> = Append(text, c)
BY AppendIsConcat

LEMMA LineEndMore ==
    ASSUME NEW text \in Seq(Char)
    PROVE  text \o <<"CR", "LF">> = Append(Append(text, "CR"), "LF")
<1>1. "CR" \in Char /\ "LF" \in Char
  BY Zenon DEF Char, Special
<1> DEFINE a == <<"CR">>
           b == <<"LF">>
           ab == <<"CR", "LF">>
<1>2. a \in Seq(Char) /\ b \in Seq(Char) /\ a \o b = ab
  <2>1. /\ a \in Seq(Char) /\ b \in Seq(Char) /\ ab \in Seq(Char)
        /\ Len(a) = 1 /\ Len(b) = 1 /\ Len(ab) = 2
        /\ a[1] = "CR" /\ b[1] = "LF" /\ ab[1] = "CR" /\ ab[2] = "LF"
    BY <1>1
  <2> HIDE DEF a, b, ab
  <2>2. /\ a \o b \in Seq(Char) /\ Len(a \o b) = Len(a) + Len(b)
        /\ \A i \in 1..(Len(a) + Len(b)) :
              (a \o b)[i] = IF i <= Len(a) THEN a[i] ELSE b[i - Len(a)]
    BY <2>1, ConcatProperties
  <2>3. (a \o b)[1] = "CR" /\ (a \o b)[2] = "LF" /\ Len(a \o b) = 2
    BY <2>1, <2>2
  <2>4. \A i \in 1..Len(ab) : (a \o b)[i] = ab[i]
    <3>1. \A i \in 1..Len(ab) : i = 1 \/ i = 2
      BY <2>1
    <3> QED BY <2>1, <2>3, <3>1
  <2> QED BY <2>1, <2>2, <2>3, <2>4, SeqEqual
<1>3. text \o a = Append(text, "CR") /\ Append(text, "CR") \in Seq(Char)
  BY <1>1, AppendIsConcat, AppendProperties
<1>4. Append(text, "CR") \o b = Append(Append(text, "CR"), "LF")
  BY <1>1, <1>3, AppendIsConcat
<1> HIDE DEF a, b, ab
<1>5. (text \o a) \o b = text \o (a \o b)
  <2>1. a \in Seq(Char) /\ b \in Seq(Char)
    BY <1>2
  <2> QED BY ONLY <2>1, text \in Seq(Char)
<1>6. text \o ab = Append(Append(text, "CR"), "LF")
  BY <1>2, <1>3, <1>4, <1>5
<1> QED BY <1>6 DEF ab

\* A step of the loop at the head of an item: the item, and that what is due after it
\* has nothing of what came before but its text.
LEMMA AtHead ==
    ASSUME TypeInv, StreamInv, PlaceInv, NEW k \in 1..Len(ref), NEW l \in 1..Len(ref),
           Between(k, l), AtItem(k), pc = "clean", at <= Len(suffix)
    PROVE  /\ k + 1 \in 2..Len(ref) /\ k + 1 \in 1..Len(ref) /\ k + 1 <= l /\ k + 1 > 1
           /\ Item(ref[k + 1].item) /\ ~ IsCommand(ref[k + 1].item)
           /\ suffix[at] = ref[k + 1].item[1]
           /\ ref[k].text \in Seq(Char)
           /\ Mastered(k + 1) => Kept = ref[k].text /\ ~ Mistaken(ref[k].text, ref[k + 1].item)
           /\ ref[k + 1].text = Shown(FALSE, ref[k].text, ref[k + 1].item)
           /\ ref[k + 1].place = Pos + Len(ref[k + 1].item)
           /\ Len(ref[k + 1].item) \in Nat /\ Pos \in Nat /\ at \in Nat
           /\ at + Len(ref[k + 1].item) - 1 <= Len(suffix)
           /\ \A j \in 1..Len(ref[k + 1].item) : suffix[at + j - 1] = ref[k + 1].item[j]
           /\ \A i \in Nat : i >= at => Unread(i)
<1>1. k <= l /\ ref[l].place = taken /\ NoCommand(k + 1, l)
  BY DEF Between
<1>2. /\ k + 1 \in 2..Len(ref) /\ k + 1 - 1 = k /\ k + 1 <= l
      /\ Len(ref[k + 1].item) \in Nat
      /\ ref[k + 1].place = Pos + Len(ref[k + 1].item) /\ Pos \in Nat
      /\ at + Len(ref[k + 1].item) - 1 <= Len(suffix)
      /\ \A j \in 1..Len(ref[k + 1].item) : suffix[at + j - 1] = ref[k + 1].item[j]
  BY <1>1, NextItem
<1> DEFINE m == k + 1
<1>3. m \in 2..Len(ref) /\ m - 1 = k /\ m \in (k + 1)..l /\ m \in 1..Len(ref) /\ m > 1
  BY <1>2, SMTT(30) DEF TypeInv
<1> HIDE DEF m
<1>4. /\ Item(ref[m].item) /\ ref[m - 1] \in DueRecord
      /\ ref[m].text = Shown(keep, ref[m - 1].text, ref[m].item)
  BY <1>3, Entry
<1>5. ~ IsCommand(ref[m].item)
  BY <1>1, <1>3 DEF NoCommand
<1>6. ref[k].text \in Seq(Char)
  BY <1>3, <1>4 DEF DueRecord
<1>7. keep = FALSE
  BY DEF TypeInv, PlaceInv
<1>8. at \in Nat /\ Len(suffix) \in Nat
  BY DEF TypeInv, LoopType
<1>9. suffix[at] = ref[m].item[1]
  <2>1. 1 \in 1..Len(ref[m].item)
    BY <1>4, ItemIs
  <2>2. at + 1 - 1 = at
    BY <1>8
  <2> QED BY <1>2, <2>1, <2>2 DEF m
<1>10. ASSUME NEW i \in Nat, i >= at PROVE Unread(i)
  <2>1. \A j \in i..Len(suffix) : j \in at..Len(suffix)
    BY <1>8, <1>10
  <2> QED BY <2>1 DEF AtItem, Unread
<1>11. Mastered(k + 1) => Kept = ref[k].text /\ ~ Mistaken(ref[k].text, ref[k + 1].item)
  <2>1. k \in Nat /\ k >= 1
    BY <1>3
  <2> QED BY <2>1, MasteredNext DEF AtItem
<1> QED BY <1>2, <1>3, <1>4, <1>5, <1>6, <1>7, <1>8, <1>9, <1>10, <1>11 DEF m

\* One iteration of the loop, from the head of an item: what it does is what is due for
\* that item, and the loop is then after it, or before the last character of it.
LEMMA CleanItem ==
    ASSUME TypeInv, StreamInv, PlaceInv, NEW k \in 1..Len(ref), NEW l \in 1..Len(ref),
           Between(k, l), AtItem(k), pc = "clean", at <= Len(suffix), Clean
    PROVE  k + 1 \in 1..Len(ref) /\ k + 1 <= l /\ (AtItem(k + 1)' \/ InItem(k + 1)')
<1> DEFINE m == k + 1
           item == ref[m].item
           text == ref[k].text
           cr == <<"CR">>
           bs == <<"BS">>
<1>1. /\ m \in 2..Len(ref) /\ m \in 1..Len(ref) /\ m <= l /\ m > 1
      /\ Item(item) /\ ~ IsCommand(item) /\ suffix[at] = item[1]
      /\ text \in Seq(Char)
      /\ Mastered(m) => Kept = text /\ ~ Mistaken(text, item)
      /\ ref[m].text = Shown(FALSE, text, item)
      /\ ref[m].place = Pos + Len(item)
      /\ Len(item) \in Nat /\ Pos \in Nat /\ at \in Nat
      /\ at + Len(item) - 1 <= Len(suffix)
      /\ \A j \in 1..Len(item) : suffix[at + j - 1] = item[j]
      /\ \A i \in Nat : i >= at => Unread(i)
  BY AtHead
<1>2. taken \in Nat /\ LoopType /\ Len(suffix) <= taken /\ Len(suffix) \in Nat
  BY DEF TypeInv, LoopType
<1>3. ref' = ref /\ stream' = stream /\ taken' = taken /\ (pc' = "clean" \/ pc' = "match")
  BY <1>2, CleanDoes
<1>3a. keep' = keep /\ Len(ref) \in Nat
  <2>1. keep' = keep
    BY DEF Clean, Ordinary, LineEnd, ReturnInBuf, ReturnInSuffix, Backspace, Escape, Control,
           Cleaned, GoOn, inVars
  <2> QED BY <2>1 DEF TypeInv
<1>4. /\ item[1] \notin {"CR", "BS", "ESC"} \cup OtherControl => IsPlain(item)
      /\ item[1] = "CR" => IsLineEnd(item) \/ item = cr
      /\ item[1] = "BS" => item = bs
      /\ item[1] = "ESC" => IsDrawing(item)
      /\ item[1] \in OtherControl => IsDrawing(item) /\ Len(item) = 1
  BY <1>1, Kinds
<1> HIDE DEF m, item, text
<1>5a. /\ IsPlain(item) => Shown(FALSE, text, item) = text \o item
       /\ IsLineEnd(item) => Shown(FALSE, text, item) = text \o <<"CR", "LF">>
       /\ item = <<"CR">> =>
            Shown(FALSE, text, item) = SubSeq(text, 1, LastIndex(text, "LF"))
       /\ item = <<"BS">> =>
            Shown(FALSE, text, item) = IF text = <<>> THEN text ELSE Front(text)
       /\ IsDrawing(item) => Shown(FALSE, text, item) = text
  <2>1. Item(item)
    BY <1>1
  <2> QED BY ONLY <2>1, ShownIs
<1>5. /\ IsPlain(item) => ref[m].text = text \o item
      /\ IsLineEnd(item) => ref[m].text = text \o <<"CR", "LF">>
      /\ item = cr => ref[m].text = SubSeq(text, 1, LastIndex(text, "LF"))
      /\ item = bs => ref[m].text = IF text = <<>> THEN text ELSE Front(text)
      /\ IsDrawing(item) => ref[m].text = text
  <2>1. ref[m].text = Shown(FALSE, text, item)
    BY <1>1
  <2> QED BY ONLY <1>5a, <2>1
<1>6. Len(cr) = 1 /\ Len(bs) = 1
  OBVIOUS
<1>7. (IsLineEnd(item) => LineEnds) /\ (item = cr => ~ LineEnds)
  BY ReturnIs DEF item, m
<1>8. Unread(at) /\ Unread(at + 1)
  <2>1. /\ at \in Nat /\ at + 1 \in Nat /\ at >= at /\ at + 1 >= at
    BY <1>1
  <2>2. \A i \in Nat : i >= at => Unread(i)
    BY <1>1
  <2> QED BY ONLY <2>1, <2>2
<1> HIDE DEF cr, bs
<1>9. /\ Mastered(m)' = Mastered(m)
      /\ Mastered(m) => /\ Kept = text /\ ~ IsKey(item)
                        /\ item = cr => LastIndex(text, "LF") = 0
  <2>1. Mastered(m)' = Mastered(m)
    BY <1>1, <1>3, <1>3a, MasteredKept
  <2>2. keep = FALSE
    BY DEF TypeInv, PlaceInv
  <2>3. LastIndex(text, "LF") \in 0..Len(text) /\ Len(text) \in Nat
    BY <1>1, LastIs, SMTT(30)
  <2>4. Mastered(m) => ~ Mistaken(text, item)
    BY <1>1
  <2>5. ~ Mistaken(text, item) => ~ IsKey(item) /\ (item = cr => ~ (LastIndex(text, "LF") > 0))
    BY <2>2 DEF Mistaken, cr
  <2>6. ~ (LastIndex(text, "LF") > 0) => LastIndex(text, "LF") = 0
    BY <2>3
  <2> QED BY <1>1, <2>1, <2>4, <2>5, <2>6
<1>9a. ASSUME Pos' = ref[m].place, Mastered(m) => Kept' = ref[m].text, Unread(at)'
       PROVE AtItem(m)'
  BY <1>3, <1>9, <1>9a DEF AtItem
<1>10. CASE Ordinary
  <2>1. IsPlain(item)
    BY <1>1, <1>4, <1>10 DEF Ordinary
  <2>2. Len(item) = 1 /\ item \in Seq(Char)
    BY <1>1, <2>1, ItemIs
  <2>3. /\ Pos' = Pos + 1 /\ Kept' = Append(Kept, suffix[at]) /\ Unread(at)'
    BY <1>2, <1>8, <1>10, OrdinaryDoes
  <2>4. text \o item = Append(text, item[1])
    <3>1. item = <<item[1]>> /\ item[1] \in Char
      BY <2>2
    <3> DEFINE c == item[1]
    <3> HIDE DEF c
    <3>2. item = <<c>> /\ c \in Char
      BY <3>1 DEF c
    <3>3. text \o <<c>> = Append(text, c)
      BY <1>1, <3>2, OneMore
    <3> QED BY <3>2, <3>3 DEF c
  <2>5. Mastered(m) => Kept' = ref[m].text
    BY <1>5, <1>9, <1>1, <2>1, <2>3, <2>4
  <2>6. Pos' = ref[m].place
    BY <1>1, <2>2, <2>3
  <2> QED BY <1>1, <1>9a, <2>3, <2>5, <2>6 DEF m
<1>11. CASE LineEnd
  <2>1. item[1] = "CR" /\ LineEnds
    BY <1>1, <1>11 DEF LineEnd, Finds
  <2>2. IsLineEnd(item)
    BY <1>4, <1>7, <2>1
  <2>3. Len(item) = 2
    BY <1>1, <2>2, ItemIs
  <2>4. /\ Pos' = Pos + 1 /\ Kept' = Append(Kept, "CR")
        /\ at' <= Len(suffix') /\ suffix'[at'] = "LF" /\ Unread(at + 1)'
    BY <1>2, <1>8, <1>11, LineEndDoes
  <2>5. Mastered(m) => Append(Kept', "LF") = ref[m].text
    BY <1>1, <1>5, <1>9, <2>2, <2>4, LineEndMore
  <2>6. Pos' + 1 = ref[m].place
    BY <1>1, <2>3, <2>4
  <2>7. pc' = "clean"
    BY <1>11 DEF LineEnd, Finds, GoOn
  <2>8. InItem(m)'
    BY <1>1, <1>3, <1>9, <2>4, <2>5, <2>6, <2>7 DEF InItem
  <2> QED BY <1>1, <2>8 DEF m
<1>12. ASSUME item = cr PROVE Len(item) = 1
  BY <1>6, <1>12
<1>13. CASE ReturnInBuf \/ ReturnInSuffix
  <2>1. item[1] = "CR" /\ ~ LineEnds
    BY <1>1, <1>13 DEF ReturnInBuf, ReturnInSuffix, Finds
  <2>2. item = cr /\ Len(item) = 1
    BY <1>4, <1>7, <1>12, <2>1
  <2>3. Pos' = Pos + 1 /\ Unread(at)'
    <3>1. CASE ReturnInBuf
      BY <1>2, <1>8, <3>1, ReturnInBufDoes
    <3>2. CASE ReturnInSuffix
      BY <1>2, <1>8, <3>2, ReturnInSuffixDoes
    <3> QED BY <1>13, <3>1, <3>2
  <2>4. ASSUME Mastered(m) PROVE Kept' = ref[m].text
    <3>1. Kept = text /\ LastIndex(Kept, "LF") = 0
      BY <1>9, <2>2, <2>4
    <3>2. ~ ReturnInSuffix
      BY <1>2, <3>1, ReturnInSuffixDoes
    <3>3. Kept' = SubSeq(Kept, 1, LastIndex(Kept, "LF") - 1)
      BY <1>2, <1>13, <3>2, ReturnInBufDoes
    <3>4. SubSeq(Kept, 1, 0 - 1) = <<>> /\ SubSeq(text, 1, 0) = <<>>
      BY SubSeqEmpty
    <3>5. ref[m].text = SubSeq(text, 1, 0)
      BY <1>5, <2>2, <3>1
    <3> QED BY <3>1, <3>3, <3>4, <3>5
  <2>5. Pos' = ref[m].place
    BY <1>1, <2>2, <2>3
  <2> QED BY <1>1, <1>9a, <2>3, <2>4, <2>5 DEF m
<1>14. CASE Backspace
  <2>1. item[1] = "BS"
    BY <1>1, <1>14 DEF Backspace, Finds
  <2>2. item = bs /\ Len(item) = 1
    BY <1>4, <1>6, <2>1
  <2>3. /\ Pos' = Pos + 1 /\ Unread(at)'
        /\ Kept' = IF Kept = <<>> THEN Kept ELSE Front(Kept)
    BY <1>2, <1>8, <1>14, BackspaceDoes
  <2>4. Mastered(m) => Kept' = ref[m].text
    BY <1>1, <1>5, <1>9, <2>2, <2>3
  <2>5. Pos' = ref[m].place
    BY <1>1, <2>2, <2>3
  <2> QED BY <1>1, <1>9a, <2>3, <2>4, <2>5 DEF m
<1>15. CASE Escape
  <2> DEFINE s == SubSeq(suffix, at, Len(suffix))
             size == EscapeSize(s)
  <2>1. item[1] = "ESC"
    BY <1>1, <1>15 DEF Escape, Finds
  <2>2. at \in 1..(Len(suffix) + 1) /\ Len(suffix) \in (at - 1)..Len(suffix)
    BY <1>2 DEF LoopType
  <2>3. /\ s \in Seq(Char) /\ Len(s) = Len(suffix) - at + 1
        /\ \A p \in 1..(Len(suffix) - at + 1) : s[p] = suffix[at + p - 1]
    BY <1>2, <2>2, Part DEF LoopType
  <2>4. /\ LoopType' /\ Len(suffix') <= taken'
        /\ size > 0 => /\ Pos' = Pos + size /\ Kept' = Kept
                       /\ at' = at /\ Len(suffix') = Len(suffix) - size
                       /\ \A p \in at..Len(suffix') : suffix'[p] = suffix[p + size]
                       /\ Unread(at + size) => Unread(at)'
    BY <1>2, <1>15, EscapeDoes
  <2> HIDE DEF s
  <2>5. Len(item) <= Len(s)
    BY ONLY <1>1, <1>2, <2>3, SMTT(30)
  <2>6. ASSUME NEW j \in 1..Len(item) PROVE s[j] = item[j]
    <3>1. j \in 1..(Len(suffix) - at + 1)
      <4>1. /\ Len(item) \in Nat /\ at \in Nat /\ Len(suffix) \in Nat
            /\ at + Len(item) - 1 <= Len(suffix)
        BY <1>1, <1>2
      <4> QED BY ONLY <4>1, <2>6
    <3> QED BY <1>1, <2>3, <2>6, <3>1
  <2>7. /\ IsDrawing(item) /\ ~ IsKey(item) => size = Len(item)
        /\ IsKey(item) => size = 3
    BY <1>1, <2>1, <2>3, <2>5, <2>6, EscapeSizeIs
  <2>8. IsDrawing(item)
    BY <1>4, <2>1
  <2>9. size \in Nat /\ size > 0
    BY <1>1, <2>7, <2>8, ItemIs, SMTT(30)
  <2> HIDE DEF size
  <2>10. at + size \in Nat /\ at + size >= at
    BY <1>1, <2>9
  <2>11. /\ Pos' = Pos + size /\ Kept' = Kept /\ at' = at
         /\ Len(suffix') = Len(suffix) - size
         /\ \A p \in at..Len(suffix') : suffix'[p] = suffix[p + size]
    BY <2>4, <2>9
  <2>12. Unread(at)'
    BY <1>1, <2>4, <2>9, <2>10
  <2>13. CASE ~ IsKey(item)
    <3>1. Pos' = ref[m].place
      BY <1>1, <2>7, <2>8, <2>11, <2>13
    <3>2. Mastered(m) => Kept' = ref[m].text
      BY <1>1, <1>5, <1>9, <2>8, <2>11
    <3> QED BY <1>1, <1>9a, <2>12, <3>1, <3>2 DEF m
  <2>14. CASE IsKey(item)
    <3>1. Len(item) = 4 /\ size = 3 /\ item[4] = "~"
      BY <1>1, <2>7, <2>14, ItemIs DEF IsKey
    <3>2. at' <= Len(suffix') /\ at \in at..Len(suffix')
      BY ONLY <1>1, <1>2, <2>11, <3>1
    <3>3. suffix'[at'] = "~"
      <4>1. suffix'[at] = suffix[at + 3]
        BY <2>11, <3>1, <3>2
      <4>2. 4 \in 1..Len(item) /\ at + 4 - 1 = at + 3
        BY <1>1, <3>1
      <4>3. suffix[at + 3] = item[4]
        BY <1>1, <4>2
      <4> QED BY <2>11, <3>1, <4>1, <4>3
    <3>4. Pos' + 1 = ref[m].place
      BY <1>1, <2>11, <3>1
    <3>5. ~ Mastered(m)
      BY <1>9, <2>14
    <3>6. pc' = "clean"
      BY <1>15 DEF Escape, Finds, GoOn
    <3>7. Unread(at + 1)'
      <4>1. at' \in Nat /\ \A j \in (at' + 1)..Len(suffix') : j \in at'..Len(suffix')
        BY <1>1, <2>11
      <4> QED BY <2>12, <4>1 DEF Unread
    <3>8. InItem(m)'
      BY <1>1, <1>3, <1>9, <3>2, <3>3, <3>4, <3>5, <3>6, <3>7 DEF InItem
    <3> QED BY <1>1, <3>8 DEF m
  <2> QED BY <2>13, <2>14
<1>16. CASE Control
  <2>1. item[1] \in OtherControl
    BY <1>1, <1>16 DEF Control, Finds
  <2>2. IsDrawing(item) /\ Len(item) = 1
    BY <1>4, <2>1
  <2>3. Pos' = Pos + 1 /\ Kept' = Kept /\ Unread(at)'
    BY <1>2, <1>8, <1>16, ControlDoes
  <2>4. (Mastered(m) => Kept' = ref[m].text) /\ Pos' = ref[m].place
    BY <1>1, <1>5, <1>9, <2>2, <2>3
  <2> QED BY <1>1, <1>9a, <2>3, <2>4 DEF m
<1>17. CASE Cleaned
  BY <1>1, <1>2, <1>17 DEF Cleaned
<1> QED BY <1>10, <1>11, <1>13, <1>14, <1>15, <1>16, <1>17 DEF Clean

LEMMA ReadInit == Init => ReadInv
<1> SUFFICES ASSUME Init PROVE ReadInv
  OBVIOUS
<1> DEFINE start == [item |-> <<>>, place |-> 0, text |-> <<>>, answers |-> <<>>]
<1>1. /\ start.place = 0 /\ start.text = <<>> /\ start.answers = <<>>
  OBVIOUS
<1>2. /\ ref = <<start>> /\ taken = 0 /\ suffix = <<>> /\ at = 1 /\ buf = <<>>
      /\ pc = "match" /\ replies = <<>>
  BY DEF Init
<1> HIDE DEF start
<1>3. Len(ref) = 1 /\ ref[1] = start /\ 1 \in 1..Len(ref) /\ Len(suffix) = 0
  BY <1>2
<1>4. Between(1, 1)
  <2>1. ~ Ambiguous(1 + 1, 1)
    BY DEF Ambiguous
  <2> QED BY <1>1, <1>2, <1>3, <2>1 DEF Between
<1>5. AtItem(1)
  <2>1. Pos = 0
    <3>1. taken = 0 /\ Len(suffix) = 0 /\ From = taken - Len(suffix) /\ Pos = From + 1 - 1
      BY <1>2, <1>3 DEF Pos, From
    <3> QED BY ONLY <3>1
  <2>2. Kept = <<>>
    <3>1. LoopType
      BY <1>2, <1>3 DEF LoopType
    <3> QED BY <1>2, <3>1, KeptType
  <2>3. Unread(at)
    BY <1>2, <1>3 DEF Unread
  <2> QED BY <1>1, <1>3, <2>1, <2>2, <2>3 DEF AtItem
<1> QED BY <1>3, <1>4, <1>5 DEF ReadInv

\* Between two items that end at the same place there is nothing.
LEMMA SamePlace ==
    ASSUME TypeInv, StreamInv, NEW k \in 1..Len(ref), NEW l \in 1..Len(ref),
           ref[k].place = ref[l].place
    PROVE  k = l
<1>1. ref[k] \in DueRecord /\ ref[l] \in DueRecord
  BY ElementOfSeq DEF TypeInv
<1>2. ref[k].place \in Nat /\ ref[l].place \in Nat
  BY <1>1 DEF DueRecord
<1>3. ~ (k < l) /\ ~ (l < k)
  BY <1>2 DEF StreamInv, Ascending
<1> QED BY <1>3

LEMMA ReadSend ==
    ASSUME TypeInv, ReadInv, NEW item \in device, Send(item)
    PROVE  ReadInv'
<1> SUFFICES ASSUME ~ torn' PROVE \E k, l \in 1..Len(ref') : Between(k, l)' /\ AtItem(k)'
  BY DEF ReadInv
<1>1. /\ pc = "match" /\ UNCHANGED <<keep, taken, torn, pc, suffix, at, buf, replies>>
  BY DEF Send, loopVars
<1>2. PICK k \in 1..Len(ref), l \in 1..Len(ref) : Between(k, l) /\ (AtItem(k) \/ InItem(k))
  BY <1>1 DEF ReadInv
<1>3. AtItem(k)
  BY <1>1, <1>2 DEF InItem
<1>4. Len(ref') = Len(ref) + 1 /\ \A i \in 1..Len(ref) : ref'[i] = ref[i]
  BY TypeSend
<1>5. k \in 1..Len(ref') /\ l \in 1..Len(ref')
  BY <1>4 DEF TypeInv
<1>6. AtItem(k)'
  <2>1. suffix' = <<>>
    BY <1>1 DEF TypeInv
  <2>2. at' = 1
    BY <1>1 DEF TypeInv
  <2>3. Unread(at)'
    BY <2>1, <2>2 DEF Unread
  <2>4. Mastered(k)' = Mastered(k)
    <3>1. Len(ref) \in Nat
      BY DEF TypeInv
    <3> QED BY <1>1, <1>4, <3>1, MasteredKept
  <2> QED BY <1>1, <1>3, <1>4, <2>3, <2>4 DEF AtItem, Pos, From, Kept
<1>7. Between(k, l)'
  <2>1. k <= l /\ ref[l].place = taken /\ ~ Ambiguous(k + 1, l) /\ replies = ref[k].answers
    BY <1>2 DEF Between
  <2>2. \A i \in (k + 1)..l : i \in 1..Len(ref)
    OBVIOUS
  <2>3. \A i \in (k + 1)..(l - 1) : i \in 1..Len(ref) /\ i + 1 \in 1..Len(ref)
    OBVIOUS
  <2>4. \A i \in (k + 1)..l : ref'[i] = ref[i]
    BY <1>4, <2>2
  <2>5. \A i \in (k + 1)..(l - 1) : ref'[i] = ref[i] /\ ref'[i + 1] = ref[i + 1]
    BY <1>4, <2>3
  <2>6. ~ Ambiguous(k + 1, l)'
    BY <2>1, <2>4, <2>5 DEF Ambiguous
  <2> QED BY <1>1, <1>4, <2>1, <2>6 DEF Between
<1> QED BY <1>5, <1>6, <1>7

LEMMA ReadRead ==
    ASSUME TypeInv, StreamInv, ReadInv, NEW n \in 1..(Len(stream) - taken), Read(n)
    PROVE  ReadInv'
<1> SUFFICES ASSUME ~ torn' PROVE \E k, l \in 1..Len(ref') : Between(k, l)' /\ AtItem(k)'
  BY DEF ReadInv
<1>1. /\ pc = "match" /\ pc' = "negotiate" /\ taken' = taken + n /\ ~ torn /\ Clear(n)
      /\ UNCHANGED <<ref, keep, stream, at, buf, replies>> /\ at = 1 /\ suffix = <<>>
  BY DEF Read, inVars, TypeInv
<1>2. PICK i \in 1..Len(ref), j \in 1..Len(ref) : Between(i, j) /\ (AtItem(i) \/ InItem(i))
  BY <1>1 DEF ReadInv
<1>3. AtItem(i)
  BY <1>1, <1>2 DEF InItem
<1>4. PICK k \in 1..Len(ref), l \in 1..Len(ref) :
         ref[k].place = taken /\ ref[l].place = taken + n /\ ~ Ambiguous(k + 1, l)
  BY <1>1 DEF Clear
<1>5. taken \in Nat /\ n \in Nat /\ n >= 1
  BY DEF TypeInv
<1>6. Pos = taken
  <2>1. Len(suffix) = 0
    BY <1>1
  <2>2. From = taken - Len(suffix) /\ Pos = From + 1 - 1
    BY <1>1 DEF From, Pos
  <2> QED BY ONLY <1>5, <2>1, <2>2
<1>7. i = k
  BY <1>3, <1>4, <1>6, SamePlace DEF AtItem
<1>8. k <= l
  <2>1. ref[k].place < ref[l].place
    BY <1>4, <1>5
  <2>2. ref[k].place \in Nat /\ ref[l].place \in Nat
    BY <1>4, <1>5
  <2>3. ~ (l < k)
    BY <2>1, <2>2 DEF StreamInv, Ascending
  <2> QED BY <2>3
<1>9. Between(k, l)'
  <2>1. replies = ref[k].answers
    BY <1>2, <1>7 DEF Between
  <2>2. ~ Ambiguous(k + 1, l)'
    BY <1>1, <1>4 DEF Ambiguous
  <2> QED BY <1>1, <1>4, <1>8, <2>1, <2>2 DEF Between
<1>10. AtItem(k)'
  <2>1. Len(suffix') = n /\ \A p \in 1..n : suffix'[p] = stream[taken + p]
    BY TypeRead
  <2>2. From' = taken' - Len(suffix') /\ Pos' = From' + 1 - 1
    BY <1>1 DEF From, Pos
  <2>3. From' = taken /\ Pos' = taken
    BY ONLY <1>1, <1>5, <2>1, <2>2
  <2>4. Unread(at)'
    BY <1>1, <2>1, <2>3 DEF Unread
  <2>5. Kept' = Kept
    <3>1. SubSeq(suffix', 1, at' - 1) = <<>> /\ SubSeq(suffix, 1, at - 1) = <<>>
      BY <1>1, SubSeqEmpty
    <3> QED BY <1>1, <3>1 DEF Kept
  <2>6. Mastered(k)' => Kept' = ref[k].text
    BY <1>1, <1>3, <1>7, <2>5 DEF AtItem, Mastered, Mistaken
  <2> QED BY <1>1, <1>4, <2>3, <2>4, <2>6 DEF AtItem
<1> QED BY <1>1, <1>9, <1>10

LEMMA ReadNegotiate ==
    ASSUME TypeInv, StreamInv, PlaceInv, ReadInv, Negotiate
    PROVE  ReadInv'
<1> SUFFICES ASSUME ~ torn' PROVE \E k, l \in 1..Len(ref') : Between(k, l)' /\ AtItem(k)'
  BY DEF ReadInv
<1>1. /\ pc = "negotiate" /\ pc' = pc /\ at = 1 /\ at' = at /\ CommandAtHead /\ ~ torn
      /\ Unread(1) /\ replies' = Append(replies, Answer(suffix))
      /\ UNCHANGED <<ref, keep, stream, taken>>
      /\ taken \in Nat /\ LoopType /\ Len(suffix) <= taken /\ Len(suffix) \in Nat
  BY DEF Negotiate, inVars, TypeInv, PlaceInv, LoopType
<1>2. PICK k \in 1..Len(ref), l \in 1..Len(ref) : Between(k, l) /\ (AtItem(k) \/ InItem(k))
  BY <1>1 DEF ReadInv
<1>3. AtItem(k)
  BY <1>1, <1>2 DEF InItem
<1>4. PICK m \in 2..Len(ref) :
         /\ IsCommand(ref[m].item) /\ Answer(suffix) = Answer(ref[m].item)
         /\ ref[m - 1].place = From /\ ref[m].place = From + 3
  BY <1>1, HeadIsCommand
<1>5. m \in 1..Len(ref) /\ m - 1 \in 1..Len(ref) /\ m - 1 + 1 = m
  BY <1>4 DEF TypeInv
<1>6. From \in Nat /\ Pos = From
  BY <1>1, UptoType DEF Pos
<1>7. m - 1 = k
  BY <1>3, <1>4, <1>5, <1>6, SamePlace DEF AtItem
<1>8. /\ ref[l].place = taken /\ ~ Ambiguous(k + 1, l) /\ replies = ref[k].answers
  BY <1>2 DEF Between
<1>9. m <= l
  <2>1. Len(suffix) >= 3
    BY <1>1 DEF CommandAtHead
  <2>2. From = taken - Len(suffix)
    BY DEF From
  <2>3. ref[m].place <= ref[l].place
    BY ONLY <1>1, <1>4, <1>6, <1>8, <2>1, <2>2
  <2>4. ref[m].place \in Nat /\ ref[l].place \in Nat
    BY <1>1, <1>4, <1>6, <1>8
  <2>5. ~ (l < m)
    BY <1>5, <2>3, <2>4 DEF StreamInv, Ascending
  <2> QED BY <1>5, <2>5
<1>10. /\ Pos' = Pos + 3 /\ Kept' = Kept /\ Unread(1)'
  <2>1. Unread(4)
    <3>1. \A j \in 4..Len(suffix) : j \in 1..Len(suffix)
      BY <1>1
    <3> QED BY <1>1, <3>1 DEF Unread
  <2> QED BY <1>1, <2>1, NegotiateDoes
<1>11. /\ ref[m].text = Shown(keep, ref[k].text, ref[m].item)
       /\ ref[m].answers = Append(ref[k].answers, Answer(ref[m].item))
  BY <1>4, <1>7, Entry
<1>12. ref[m].text = ref[k].text
  BY <1>4, <1>11, ShownKept
<1>13. AtItem(m)'
  <2>1. Pos' = ref[m].place
    BY <1>4, <1>6, <1>10
  <2>2. Mastered(m) => Kept' = ref[m].text
    <3>1. k \in Nat /\ k >= 1 /\ m = k + 1
      BY <1>5, <1>7
    <3>2. Mastered(m) => Mastered(k)
      BY <3>1, MasteredNext
    <3> QED BY <1>3, <1>10, <1>12, <3>2 DEF AtItem
  <2>3. Mastered(m)' = Mastered(m)
    BY <1>1 DEF Mastered, Mistaken
  <2> QED BY <1>1, <1>10, <2>1, <2>2, <2>3 DEF AtItem
<1>14. Between(m, l)'
  <2>1. \A i \in (m + 1)..l : i \in (k + 1)..l
    BY <1>5, <1>7
  <2>2. \A i \in (m + 1)..(l - 1) : i \in (k + 1)..(l - 1)
    BY <1>5, <1>7
  <2>3. ~ Ambiguous(m + 1, l)'
    BY <1>1, <1>8, <2>1, <2>2 DEF Ambiguous
  <2>4. replies' = ref[m].answers
    BY <1>1, <1>4, <1>8, <1>11
  <2> QED BY <1>1, <1>8, <1>9, <2>3, <2>4 DEF Between
<1> QED BY <1>1, <1>5, <1>13, <1>14

\* What telnetNegotiation leaves has no command in it, if it can be told what is what.
LEMMA NoneLeft ==
    ASSUME TypeInv, StreamInv, NEW k \in 1..Len(ref), NEW l \in 1..Len(ref), k <= l,
           ref[l].place = taken, ~ Ambiguous(k + 1, l), AtItem(k), at = 1, ~ CommandAtHead
    PROVE  NoCommand(k + 1, l)
<1> SUFFICES ASSUME NEW i \in (k + 1)..l, IsCommand(ref[i].item) PROVE FALSE
  BY DEF NoCommand
<1>0. k \in Nat /\ l \in Nat /\ i \in Nat /\ k + 1 <= i /\ i <= l /\ Len(suffix) \in Nat
  BY DEF TypeInv, LoopType
<1>1. at <= Len(suffix)
  <2> SUFFICES ASSUME Len(suffix) = 0 PROVE FALSE
    BY <1>0
  <2>1. taken \in Nat /\ From = taken - Len(suffix) /\ Pos = From + 1 - 1
    BY DEF TypeInv, From, Pos
  <2>2. Pos = taken
    BY ONLY <2>1, Len(suffix) = 0
  <2>3. k = l
    BY <2>2, SamePlace DEF AtItem
  <2> QED BY <1>0, <2>3
<1> DEFINE m == k + 1
<1>2. /\ m \in 2..Len(ref) /\ m <= l /\ Len(ref[m].item) \in Nat
      /\ at + Len(ref[m].item) - 1 <= Len(suffix)
      /\ \A j \in 1..Len(ref[m].item) : suffix[at + j - 1] = ref[m].item[j]
  BY <1>1, NextItem
<1>3. m \in m..l /\ i \in m..l /\ m <= i
  BY <1>0, <1>2
<1> HIDE DEF m
<1>4. IsCommand(ref[m].item)
  <2> SUFFICES ASSUME ~ IsCommand(ref[m].item) PROVE FALSE
    OBVIOUS
  <2>1. m # i
    OBVIOUS
  <2>2. m < i
    BY <1>2, <1>3, <2>1
  <2>3. Ambiguous(m, l)
    BY <1>3, <2>2 DEF Ambiguous
  <2> QED BY <2>3 DEF m
<1>5. /\ Len(ref[m].item) = 3 /\ ref[m].item[1] = "IAC" /\ ref[m].item[2] \in Commands
  BY <1>4 DEF IsCommand
<1>6. suffix[1] = ref[m].item[1] /\ suffix[2] = ref[m].item[2]
  <2>1. 1 \in 1..Len(ref[m].item) /\ 2 \in 1..Len(ref[m].item)
    BY <1>5
  <2>2. at + 1 - 1 = 1 /\ at + 2 - 1 = 2
    OBVIOUS
  <2> QED BY <1>2, <2>1, <2>2
<1>7. Len(suffix) >= 3
  BY <1>0, <1>2, <1>5
<1> QED BY <1>5, <1>6, <1>7 DEF CommandAtHead

\* With control characters kept the rest of the read is kept as it is.
LEMMA ReadWhole ==
    ASSUME TypeInv, StreamInv, keep, NEW k \in 1..Len(ref), NEW l \in 1..Len(ref),
           Between(k, l), AtItem(k), NoCommand(k + 1, l), at = 1, Negotiated
    PROVE  Between(l, l)' /\ AtItem(l)'
<1>1. /\ k <= l /\ ref[l].place = taken /\ replies = ref[k].answers
      /\ pc' = "match" /\ buf' = buf \o suffix /\ suffix' = <<>> /\ at' = 1
      /\ UNCHANGED <<ref, stream, taken, replies>>
  BY DEF Between, Negotiated, inVars
<1>2. /\ taken \in Nat /\ Len(suffix) \in Nat /\ Len(suffix) <= taken /\ taken <= Len(stream)
      /\ LoopType /\ stream \in Seq(Char) /\ Len(stream) \in Nat /\ suffix \in Seq(Char)
      /\ l \in Nat
  BY DEF TypeInv, LoopType
<1>3. Kept = ref[k].text /\ Kept = buf /\ Pos = ref[k].place
  BY <1>2, KeptType, WholeMastered DEF AtItem
<1>4. From = ref[k].place /\ From = taken - Len(suffix)
  <2>1. From = taken - Len(suffix) /\ Pos = From + 1 - 1
    BY DEF From, Pos
  <2> QED BY ONLY <1>2, <1>3, <2>1
<1>5. suffix = SubSeq(stream, From + 1, taken)
  <2> DEFINE s == SubSeq(stream, From + 1, taken)
             i == From + 1
  <2>1. From \in Nat /\ i \in 1..(Len(stream) + 1) /\ taken \in (i - 1)..Len(stream)
    BY ONLY <1>2, <1>4
  <2>2. /\ s \in Seq(Char) /\ Len(s) = taken - i + 1
        /\ \A p \in 1..(taken - i + 1) : s[p] = stream[i + p - 1]
    BY <1>2, <2>1, Part
  <2>3. taken - i + 1 = Len(suffix)
    BY ONLY <1>2, <1>4, <2>1
  <2> HIDE DEF s
  <2>4. ASSUME NEW p \in 1..Len(suffix) PROVE suffix[p] = s[p]
    <3>1. i + p - 1 = From + p
      BY <2>1
    <3>2. s[p] = stream[From + p]
      BY <2>2, <2>3, <3>1
    <3>3. suffix[p] = stream[From + p]
      BY DEF AtItem, Unread
    <3> QED BY <3>2, <3>3
  <2>5. suffix = s
    BY <1>2, <2>2, <2>3, <2>4, SeqEqual
  <2> QED BY <2>5 DEF s
<1>6. /\ ref[l].text = ref[k].text \o SubSeq(stream, ref[k].place + 1, ref[l].place)
      /\ ref[l].answers = ref[k].answers
  BY <1>1 DEF StreamInv, KeptWhole
<1>7. buf' = ref[l].text
  BY <1>1, <1>3, <1>4, <1>5, <1>6
<1>8. AtItem(l)'
  <2>1. Len(suffix') = 0
    BY <1>1
  <2>2. From' = taken' - Len(suffix') /\ Pos' = From' + 1 - 1
    BY <1>1 DEF From, Pos
  <2>3. Pos' = ref[l].place
    BY ONLY <1>1, <1>2, <2>1, <2>2
  <2>4. Unread(at)'
    BY <1>1, <2>1 DEF Unread
  <2>5. Kept' = buf'
    <3>1. LoopType'
      BY TypeStep DEF Next, TypeInv
    <3>2. SubSeq(suffix', 1, at' - 1) = <<>>
      BY <1>1, SubSeqEmpty
    <3> QED BY <3>1, <3>2, ConcatEmptySeq DEF Kept, LoopType
  <2> QED BY <1>1, <1>7, <2>3, <2>4, <2>5 DEF AtItem
<1>9. Between(l, l)'
  <2>1. ~ Ambiguous(l + 1, l)'
    <3>1. \A i \in (l + 1)..l : FALSE
      BY <1>2
    <3>2. \A i \in (l + 1)..(l - 1) : FALSE
      BY <1>2
    <3> QED BY <3>1, <3>2 DEF Ambiguous
  <2> QED BY <1>1, <1>2, <1>6, <2>1 DEF Between
<1> QED BY <1>8, <1>9

LEMMA ReadNegotiated ==
    ASSUME TypeInv, StreamInv, PlaceInv, ReadInv, Negotiated
    PROVE  ReadInv'
<1> SUFFICES ASSUME ~ torn' PROVE \E k, l \in 1..Len(ref') : Between(k, l)' /\ AtItem(k)'
  BY DEF ReadInv
<1>1. /\ pc = "negotiate" /\ at = 1 /\ at' = 1 /\ ~ CommandAtHead /\ ~ torn
      /\ UNCHANGED <<ref, keep, stream, taken, replies>>
  BY DEF Negotiated, inVars, TypeInv
<1>2. PICK k \in 1..Len(ref), l \in 1..Len(ref) : Between(k, l) /\ (AtItem(k) \/ InItem(k))
  BY <1>1 DEF ReadInv
<1>3. AtItem(k)
  BY <1>1, <1>2 DEF InItem
<1>4. NoCommand(k + 1, l)
  BY <1>1, <1>2, <1>3, NoneLeft DEF Between
<1>5. CASE keep
  <2>1. Between(l, l)' /\ AtItem(l)'
    BY <1>1, <1>2, <1>3, <1>4, <1>5, ReadWhole
  <2> QED BY <1>1, <2>1
<1>6. CASE ~ keep
  <2>1. UNCHANGED <<buf, suffix>>
    BY <1>6 DEF Negotiated
  <2>2. AtItem(k)'
    BY <1>1, <1>3, <2>1 DEF AtItem, Pos, From, Kept, Unread, Mastered, Mistaken
  <2>3. Between(k, l)'
    BY <1>1, <1>2, <1>4 DEF Between, Ambiguous, NoCommand
  <2> QED BY <1>1, <2>2, <2>3
<1> QED BY <1>5, <1>6

LEMMA ReadClean ==
    ASSUME TypeInv, StreamInv, PlaceInv, ReadInv, Clean
    PROVE  ReadInv'
<1> SUFFICES ASSUME ~ torn'
             PROVE  \E k, l \in 1..Len(ref') : Between(k, l)' /\ (AtItem(k)' \/ InItem(k)')
  BY DEF ReadInv
<1>0. taken \in Nat /\ LoopType /\ Len(suffix) <= taken /\ at \in Nat /\ Len(suffix) \in Nat
  BY DEF TypeInv, LoopType
<1>1. pc = "clean"
  BY DEF Clean, Ordinary, LineEnd, ReturnInBuf, ReturnInSuffix, Backspace, Escape, Control,
         Cleaned, Finds
<1>2. /\ torn' = torn /\ ref' = ref /\ taken' = taken /\ replies' = replies
      /\ stream' = stream /\ \A k : Mastered(k)' = Mastered(k)
  <2>1. UNCHANGED <<torn, ref, keep, taken, replies, stream>>
    BY DEF Clean, Ordinary, LineEnd, ReturnInBuf, ReturnInSuffix, Backspace, Escape, Control,
           Cleaned, GoOn, inVars
  <2> QED BY <2>1 DEF Mastered, Mistaken
<1>3. PICK k \in 1..Len(ref), l \in 1..Len(ref) : Between(k, l) /\ (AtItem(k) \/ InItem(k))
  BY <1>2 DEF ReadInv
<1>4. Between(k, l)'
  BY <1>1, <1>2, <1>3, BetweenKept
<1>5. CASE InItem(k)
  <2>1. at <= Len(suffix) /\ suffix[at] \in {"LF", "~"} /\ Pos + 1 = ref[k].place
        /\ (Mastered(k) => Append(Kept, suffix[at]) = ref[k].text) /\ Unread(at + 1)
    BY <1>5 DEF InItem
  <2>2. suffix[at] \notin {"CR", "BS", "ESC"} \cup OtherControl
    BY <2>1 DEF OtherControl
  <2>3. Ordinary
    BY <1>0, <2>1, <2>2
       DEF Clean, LineEnd, ReturnInBuf, ReturnInSuffix, Backspace, Escape, Control, Cleaned, Finds
  <2>4. Pos' = Pos + 1 /\ Kept' = Append(Kept, suffix[at]) /\ Unread(at)'
    BY <1>0, <2>1, <2>3, OrdinaryDoes
  <2>5. AtItem(k)'
    BY <1>2, <2>1, <2>4 DEF AtItem
  <2> QED BY <1>2, <1>4, <2>5
<1>6. CASE AtItem(k) /\ at > Len(suffix)
  <2>1. Cleaned
    BY <1>0, <1>6
       DEF Clean, Ordinary, LineEnd, ReturnInBuf, ReturnInSuffix, Backspace, Escape, Control, Finds
  <2>2. Pos' = Pos /\ Kept' = Kept /\ Unread(at)'
    BY <1>0, <2>1, CleanedDoes
  <2>3. AtItem(k)'
    BY <1>2, <1>6, <2>2 DEF AtItem
  <2> QED BY <1>2, <1>4, <2>3
<1>7. CASE AtItem(k) /\ at <= Len(suffix)
  <2>1. k + 1 <= l /\ (AtItem(k + 1)' \/ InItem(k + 1)')
    BY <1>1, <1>3, <1>7, CleanItem
  <2>2. Between(k + 1, l)'
    BY <1>1, <1>2, <1>3, <2>1, BetweenNext
  <2>3. k + 1 \in 1..Len(ref')
    BY <1>2, <2>1 DEF TypeInv
  <2> QED BY <1>2, <2>1, <2>2, <2>3
<1> QED BY <1>0, <1>3, <1>5, <1>6, <1>7

LEMMA ReadStep ==
    TypeInv /\ StreamInv /\ PlaceInv /\ ReadInv /\ [Next]_vars => ReadInv'
<1> SUFFICES ASSUME TypeInv, StreamInv, PlaceInv, ReadInv, [Next]_vars PROVE ReadInv'
  OBVIOUS
<1>1. ASSUME UNCHANGED <<ref, keep, stream, taken, torn, pc, suffix, at, buf, replies>>
      PROVE  ReadInv'
  <2>0. \A k : Mastered(k)' <=> Mastered(k)
    BY <1>1 DEF Mastered, Mistaken
  <2>1. \A k, l : Between(k, l)' <=> Between(k, l)
    BY <1>1 DEF Between, Ambiguous, NoCommand
  <2>2. \A k : AtItem(k)' <=> AtItem(k)
    BY <1>1, <2>0 DEF AtItem, Pos, From, Kept, Unread
  <2>3. \A k : InItem(k)' <=> InItem(k)
    BY <1>1, <2>0 DEF InItem, Pos, From, Kept, Unread
  <2> QED BY <1>1, <2>1, <2>2, <2>3 DEF ReadInv
<1>2. ASSUME NEW with, Save(with) PROVE ReadInv'
  BY <1>1, <1>2 DEF Save, inVars, loopVars
<1>3. CASE UNCHANGED vars
  BY <1>1, <1>3 DEF vars, inVars, loopVars
<1> QED BY <1>2, <1>3, ReadSend, ReadRead, ReadNegotiate, ReadNegotiated, ReadClean DEF Next

------------------------------------------------------------------------------
(* The properties *)

Inv == TypeInv /\ StreamInv /\ PlaceInv /\ AnswerInv /\ ReadInv

LEMMA InvHolds == Spec => []Inv
<1>1. Init => Inv
  BY TypeInit, StreamInit, PlaceInit, AnswerInit, ReadInit DEF Inv
<1>2. Inv /\ [Next]_vars => Inv'
  BY TypeStep, StreamStep, PlaceStep, AnswerStep, ReadStep DEF Inv
<1> QED BY <1>1, <1>2, PTL DEF Spec

\* When match has read all of it, what is due is what it has.
LEMMA WhenRead ==
    ASSUME Inv, pc = "match", ~ torn
    PROVE  \E k \in 1..Len(ref) :
              /\ SoFar(ref[k]) /\ (Mastered(k) => buf = ref[k].text)
              /\ replies = ref[k].answers
<1>1. PICK k \in 1..Len(ref), l \in 1..Len(ref) : Between(k, l) /\ (AtItem(k) \/ InItem(k))
  BY DEF Inv, ReadInv
<1>2. AtItem(k)
  BY <1>1 DEF InItem
<1>3. /\ suffix = <<>> /\ at = 1 /\ LoopType /\ taken \in Nat
  BY DEF Inv, TypeInv
<1>4. Kept = buf
  BY <1>3, KeptType
<1>5. Pos = taken
  <2>1. Len(suffix) = 0
    BY <1>3
  <2>2. From = taken - Len(suffix) /\ Pos = From + 1 - 1
    BY <1>3 DEF From, Pos
  <2> QED BY ONLY <1>3, <2>1, <2>2
<1> QED BY <1>1, <1>2, <1>4, <1>5 DEF SoFar, Between, AtItem

\* What match keeps of a device's output, in whatever reads it came, is what its items
\* show on a screen: no escape sequence, return or backspace of them is left or takes back
\* more or less than it should, if no read cut an item in two and there was none of the
\* two kinds of item that removeControlChars mistakes: a key's sequence, and a CR on a
\* line after the first.
THEOREM KeepsWhatIsShown == Spec => []KeptAsShown
<1>1. Inv => KeptAsShown
  BY WhenRead DEF KeptAsShown
<1> QED BY <1>1, InvHolds, PTL

\* telnetNegotiation refuses each command once, in order, and nothing that is not one;
\* it does not take a read of commands only for the end of the dialogue.
THEOREM AnswersOnce == Spec => []Answered
<1>1. ASSUME Inv PROVE Answered
  <2>1. ~ failed
    BY <1>1 DEF Inv, PlaceInv
  <2>2. pc = "match" /\ ~ torn =>
          \E k \in 1..Len(ref) : SoFar(ref[k]) /\ replies = ref[k].answers
    BY <1>1, WhenRead
  <2>3. PICK of \in [1..Len(replies) -> 2..Len(ref)] :
           \A i \in 1..Len(replies) :
              /\ IsCommand(ref[of[i]].item) /\ replies[i] = Answer(ref[of[i]].item)
              /\ \A j \in 1..(i - 1) : of[j] < of[i]
    BY <1>1 DEF Inv, AnswerInv
  <2>4. 2..Len(ref) \subseteq 1..Len(ref)
    BY <1>1 DEF Inv, TypeInv
  <2>5. of \in [1..Len(replies) -> 1..Len(ref)]
    BY <2>3, <2>4
  <2> QED BY <2>1, <2>2, <2>3, <2>5 DEF Answered
<1> QED BY <1>1, InvHolds, PTL

\* saveCommit empties the lines of an IOS XR configuration that show a volatile text at
\* their start, and saves the others as they show, under the same line number; again but
\* for the two kinds of item that removeControlChars mistakes.
THEOREM VolatileLinesDropped == Spec => []VolatileDropped
<1>1. ASSUME Inv, saved # <<>>, filter = "iosxr", ~ torn
      PROVE  \E k \in 1..Len(ref) :
                LET lines == Split(ref[k].text)
                    volatile(n) == lines[n] # <<>> /\ lines[n][1] = "clock"
                IN /\ SoFar(ref[k])
                   /\ Mastered(k) =>
                        saved = [n \in 1..Len(lines) |->
                                   IF volatile(n) THEN <<"LF">> ELSE lines[n] \o <<"LF">>]
  <2>1. pc = "match" /\ saved = Lines(buf, "iosxr")
    BY <1>1 DEF Inv, PlaceInv
  <2>2. PICK k \in 1..Len(ref) : SoFar(ref[k]) /\ (Mastered(k) => buf = ref[k].text)
    BY <1>1, <2>1, WhenRead
  <2> DEFINE lines == Split(ref[k].text)
             lf == <<"LF">>
  <2>3. Mastered(k) =>
           saved = [n \in 1..Len(lines) |-> Filtered(lines[n], n, "iosxr") \o lf]
    BY <2>1, <2>2 DEF Lines
  <2>4. <<>> \o lf = lf
    BY ConcatEmptySeq
  <2> HIDE DEF lines, lf
  <2>5. \A n \in 1..Len(lines) :
           Filtered(lines[n], n, "iosxr") \o lf =
             IF lines[n] # <<>> /\ lines[n][1] = "clock" THEN lf ELSE lines[n] \o lf
    BY <2>4 DEF Filtered
  <2>6. Mastered(k) =>
           saved = [n \in 1..Len(lines) |->
                      IF lines[n] # <<>> /\ lines[n][1] = "clock" THEN lf ELSE lines[n] \o lf]
    BY <2>3, <2>5
  <2> QED BY <2>2, <2>6 DEF lines, lf
<1>2. Inv => VolatileDropped
  BY <1>1 DEF VolatileDropped
<1> QED BY <1>2, InvHolds, PTL
==============================================================================
