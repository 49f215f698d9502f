--------------------------- MODULE SelectionProofs ---------------------------
(***************************************************************************)
(* What Kept returns, for every sequence and every set of positions, and   *)
(* the lemmas about sequences that the proofs of the components share.     *)
(***************************************************************************)
EXTENDS Selection, Integers, SequencesExt, SequenceTheorems, WellFoundedInduction, TLAPS

(* Sequences.                                                              *)

LEMMA SequenceDomain ==
    ASSUME NEW A, NEW s \in Seq(A)
    PROVE  /\ Len(s) \in Nat /\ DOMAIN s = 1..Len(s)
           /\ \A k \in DOMAIN s : s[k] \in A
           /\ s # <<>> <=> Len(s) # 0
           /\ s # <<>> <=> 1 \in DOMAIN s
<1>1. Len(s) \in Nat /\ DOMAIN s = 1..Len(s)
  BY LenProperties
<1>2. s # <<>> <=> Len(s) # 0
  BY EmptySeq
<1> QED
  BY <1>1, <1>2, ElementOfSeq

LEMMA SequenceAppended ==
    ASSUME NEW A, NEW s \in Seq(A), NEW e \in A
    PROVE  /\ Append(s, e) \in Seq(A)
           /\ Len(Append(s, e)) = Len(s) + 1
           /\ DOMAIN Append(s, e) = 1..(Len(s) + 1)
           /\ \A k \in DOMAIN s : Append(s, e)[k] = s[k]
           /\ Append(s, e)[Len(s) + 1] = e
  BY SequenceDomain, AppendProperties, LenProperties

LEMMA SequenceTail ==
    ASSUME NEW A, NEW s \in Seq(A), s # <<>>
    PROVE  /\ Head(s) = s[1] /\ Head(s) \in A
           /\ 1 \in DOMAIN s
           /\ Tail(s) \in Seq(A)
           /\ DOMAIN Tail(s) = 1..(Len(s) - 1)
           /\ \A k \in DOMAIN Tail(s) : k + 1 \in DOMAIN s /\ Tail(s)[k] = s[k + 1]
           /\ \A k \in DOMAIN s : k # 1 => k - 1 \in DOMAIN Tail(s) /\ Tail(s)[k - 1] = s[k]
<1>1. Len(s) \in Nat /\ Len(s) # 0 /\ DOMAIN s = 1..Len(s)
  BY SequenceDomain
<1>2. /\ Head(s) \in A /\ Tail(s) \in Seq(A) /\ Len(Tail(s)) = Len(s) - 1
      /\ \A k \in 1..Len(Tail(s)) : Tail(s)[k] = s[k + 1]
  BY HeadTailProperties
<1>3. DOMAIN Tail(s) = 1..(Len(s) - 1)
  BY <1>2, LenProperties
<1>4. Head(s) = s[1]
  BY <1>1
<1> QED
  BY <1>1, <1>2, <1>3, <1>4

LEMMA SequencePrepended ==
    ASSUME NEW A, NEW s \in Seq(A), NEW e \in A
    PROVE  /\ <<e>> \o s \in Seq(A)
           /\ Len(<<e>> \o s) = Len(s) + 1
           /\ DOMAIN (<<e>> \o s) = 1..(Len(s) + 1)
           /\ (<<e>> \o s)[1] = e
           /\ \A k \in DOMAIN s : (<<e>> \o s)[k + 1] = s[k]
<1>1. Len(s) \in Nat /\ DOMAIN s = 1..Len(s)
  BY SequenceDomain
<1>2. <<e>> \in Seq(A) /\ Len(<<e>>) = 1 /\ <<e>>[1] = e
  OBVIOUS
<1>3. /\ <<e>> \o s \in Seq(A) /\ Len(<<e>> \o s) = Len(s) + 1
      /\ \A i \in 1..(1 + Len(s)) :
            (<<e>> \o s)[i] = IF i <= 1 THEN <<e>>[i] ELSE s[i - 1]
  BY <1>1, <1>2, ConcatProperties
<1>4. DOMAIN (<<e>> \o s) = 1..(Len(s) + 1)
  BY <1>3, LenProperties
<1>5. \A k \in DOMAIN s : k + 1 \in 1..(1 + Len(s)) /\ ~(k + 1 <= 1) /\ (k + 1) - 1 = k
  BY <1>1
<1> QED
  BY <1>1, <1>2, <1>3, <1>4, <1>5

-----------------------------------------------------------------------------
(* Induction.                                                              *)

\* Induction over the natural numbers, for a set instead of a predicate: the
\* predicate of NatInduction is an operator.
LEMMA SetInduction ==
    ASSUME NEW S \in SUBSET Nat, 0 \in S, \A n \in S : n + 1 \in S
    PROVE  S = Nat
<1> DEFINE R == OpToRel(<, Nat)
           T == Nat \ S
<1>1. IsWellFoundedOn(R, Nat)
  BY NatLessThanWellFounded
<1>2. SUFFICES ASSUME T # {} PROVE FALSE
  OBVIOUS
<1>3. T \subseteq Nat
  OBVIOUS
<1> HIDE DEF R
<1>4. PICK x \in T : \A y \in T : <<y, x>> \notin R
  BY <1>1, <1>2, <1>3, WFMin
<1>5. x - 1 \in Nat /\ x - 1 < x
  OBVIOUS
<1>6. <<x - 1, x>> \in R
  BY <1>3, <1>5 DEF R, OpToRel
<1>7. x - 1 \in S
  BY <1>4, <1>5, <1>6
<1> QED
  BY <1>5, <1>7

\* A set of numbers has a least one.
LEMMA LeastOf ==
    ASSUME NEW S \in SUBSET Nat, S # {}
    PROVE  /\ (CHOOSE i \in S : \A j \in S : i <= j) \in S
           /\ \A j \in S : (CHOOSE i \in S : \A k \in S : i <= k) <= j
<1> DEFINE R == OpToRel(<, Nat)
<1>1. IsWellFoundedOn(R, Nat)
  BY NatLessThanWellFounded
<1> HIDE DEF R
<1>2. PICK x \in S : \A y \in S : <<y, x>> \notin R
  BY <1>1, WFMin
<1>3. \A j \in S : x <= j
  <2> SUFFICES ASSUME NEW j \in S PROVE x <= j
    OBVIOUS
  <2>1. x \in Nat /\ j \in Nat
    OBVIOUS
  <2>2. <<j, x>> \notin R
    BY <1>2
  <2>3. ~(j < x)
    BY <2>1, <2>2 DEF R, OpToRel
  <2> QED
    BY <2>1, <2>3
<1> QED
  BY <1>3

\* The first n elements.
LEMMA SequencePrefix ==
    ASSUME NEW A, NEW s \in Seq(A), NEW n \in Int, 0 <= n, n <= Len(s)
    PROVE  /\ SubSeq(s, 1, n) \in Seq(A)
           /\ Len(SubSeq(s, 1, n)) = n
           /\ \A k \in 1..n : SubSeq(s, 1, n)[k] = s[k]
<1>1. Len(s) \in Nat /\ \A k \in 1..n : s[k] \in A
  BY SequenceDomain
<1> QED
  BY <1>1, SubSeqProperties

\* The elements from the m-th on.
LEMMA SequenceSuffix ==
    ASSUME NEW A, NEW s \in Seq(A), NEW m \in Int, 1 <= m, m <= Len(s) + 1
    PROVE  /\ SubSeq(s, m, Len(s)) \in Seq(A)
           /\ Len(SubSeq(s, m, Len(s))) = Len(s) - m + 1
           /\ \A k \in 1..Len(s) - m + 1 : SubSeq(s, m, Len(s))[k] = s[m + k - 1]
<1>1. Len(s) \in Nat /\ \A k \in m..Len(s) : s[k] \in A
  BY SequenceDomain
<1> QED
  BY <1>1, SubSeqProperties

\* t is a followed by b.
Joined(t, a, b) ==
    /\ Len(t) = Len(a) + Len(b)
    /\ \A k \in 1..Len(a) : t[k] = a[k]
    /\ \A k \in 1..Len(b) : t[k + Len(a)] = b[k]
LEMMA SequenceJoined ==
    ASSUME NEW A, NEW a \in Seq(A), NEW b \in Seq(A)
    PROVE  a \o b \in Seq(A) /\ Joined(a \o b, a, b)
<1>1. /\ a \o b \in Seq(A)
      /\ Len(a \o b) = Len(a) + Len(b)
      /\ \A i \in 1..Len(a) + Len(b) : (a \o b)[i] = IF i <= Len(a) THEN a[i] ELSE b[i - Len(a)]
  BY ConcatProperties
<1>2. Len(a) \in Nat /\ Len(b) \in Nat
  BY SequenceDomain
<1>3. ASSUME NEW k \in 1..Len(a) PROVE (a \o b)[k] = a[k]
  <2>1. k \in 1..Len(a) + Len(b) /\ k <= Len(a)
    BY <1>2
  <2> QED
    BY <1>1, <2>1
<1>4. ASSUME NEW k \in 1..Len(b) PROVE (a \o b)[k + Len(a)] = b[k]
  <2>1. /\ k + Len(a) \in 1..Len(a) + Len(b) /\ ~(k + Len(a) <= Len(a))
        /\ k + Len(a) - Len(a) = k
    BY <1>2
  <2> QED
    BY <1>1, <2>1
<1> QED
  BY <1>1, <1>3, <1>4 DEF Joined

\* Taking out what is after position i and before position j.
Cut(t, s, i, j) ==
    /\ Len(t) = Len(s) - (j - i - 1)
    /\ \A k \in 1..i : t[k] = s[k]
    /\ \A k \in i + 1..Len(t) : t[k] = s[k + (j - i - 1)]

LEMMA SequenceCut ==
    ASSUME NEW A, NEW s \in Seq(A), NEW i \in Int, NEW j \in Int,
           0 <= i, i < j, j <= Len(s) + 1
    PROVE  LET t == SubSeq(s, 1, i) \o SubSeq(s, j, Len(s)) IN t \in Seq(A) /\ Cut(t, s, i, j)
<1> DEFINE a == SubSeq(s, 1, i)
           b == SubSeq(s, j, Len(s))
           t == a \o b
<1>1. Len(s) \in Nat
  BY SequenceDomain
<1>2. a \in Seq(A) /\ Len(a) = i /\ \A k \in 1..i : a[k] = s[k]
  BY <1>1, SequencePrefix
<1>3. /\ b \in Seq(A) /\ Len(b) = Len(s) - j + 1
      /\ \A k \in 1..Len(s) - j + 1 : b[k] = s[j + k - 1]
  BY <1>1, SequenceSuffix
<1> HIDE DEF a, b
<1>5. t \in Seq(A) /\ Joined(t, a, b)
  BY <1>2, <1>3, SequenceJoined, Zenon
<1> HIDE DEF t
<1>6. Len(t) = Len(s) - (j - i - 1)
  <2>1. Len(t) = Len(a) + Len(b)
    BY <1>5 DEF Joined
  <2> QED
    BY <1>1, <1>2, <1>3, <2>1
<1>7. ASSUME NEW k \in 1..i PROVE t[k] = s[k]
  BY <1>2, <1>5 DEF Joined
<1>8. ASSUME NEW k \in i + 1..Len(t) PROVE t[k] = s[k + (j - i - 1)]
  <2>1. k - i \in 1..Len(b) /\ (k - i) + Len(a) = k
    BY <1>1, <1>2, <1>3, <1>6
  <2>2. t[k] = b[k - i]
    BY <1>5, <2>1 DEF Joined
  <2>3. b[k - i] = s[j + (k - i) - 1]
    BY <1>3, <2>1
  <2>4. j + (k - i) - 1 = k + (j - i - 1)
    BY <1>1
  <2> QED
    BY <2>2, <2>3, <2>4
<1> QED
  BY <1>5, <1>6, <1>7, <1>8 DEF Cut, t, a, b

\* t is s with the elements of m put in after position i.
Spliced(t, s, i, m) ==
    /\ Len(t) = Len(s) + Len(m)
    /\ \A k \in 1..i : t[k] = s[k]
    /\ \A k \in i + 1..i + Len(m) : t[k] = m[k - i]
    /\ \A k \in i + Len(m) + 1..Len(t) : t[k] = s[k - Len(m)]

LEMMA SequenceSpliced ==
    ASSUME NEW A, NEW s \in Seq(A), NEW m \in Seq(A), NEW i \in 0..Len(s)
    PROVE  LET t == SubSeq(s, 1, i) \o m \o SubSeq(s, i + 1, Len(s))
           IN  t \in Seq(A) /\ Spliced(t, s, i, m)
<1> DEFINE a == SubSeq(s, 1, i)
           b == SubSeq(s, i + 1, Len(s))
           d == a \o m
           t == d \o b
<1>1. Len(s) \in Nat /\ Len(m) \in Nat /\ i \in Nat
  BY SequenceDomain
<1>2. a \in Seq(A) /\ Len(a) = i /\ \A k \in 1..i : a[k] = s[k]
  BY <1>1, SequencePrefix
<1>3. /\ b \in Seq(A) /\ Len(b) = Len(s) - i
      /\ \A k \in 1..Len(s) - i : b[k] = s[i + k]
  <2>1. /\ b \in Seq(A) /\ Len(b) = Len(s) - (i + 1) + 1
        /\ \A k \in 1..Len(s) - (i + 1) + 1 : b[k] = s[(i + 1) + k - 1]
    BY <1>1, SequenceSuffix, SMTT(40)
  <2>2. Len(s) - (i + 1) + 1 = Len(s) - i
    BY <1>1
  <2>3. ASSUME NEW k \in 1..Len(s) - i PROVE b[k] = s[i + k]
    <3>1. (i + 1) + k - 1 = i + k
      BY <1>1
    <3> QED
      BY <2>1, <2>2, <3>1
  <2> QED
    BY <2>1, <2>2, <2>3
<1> HIDE DEF a, b
<1>4. d \in Seq(A) /\ Joined(d, a, m)
  BY <1>2, SequenceJoined, Zenon
<1> HIDE DEF d
<1>5. t \in Seq(A) /\ Joined(t, d, b)
  BY <1>3, <1>4, SequenceJoined, Zenon
<1> HIDE DEF t
<1>6. Len(d) = i + Len(m) /\ Len(t) = Len(s) + Len(m)
  BY <1>1, <1>2, <1>3, <1>4, <1>5 DEF Joined
<1>7. ASSUME NEW k \in 1..i PROVE t[k] = s[k]
  BY <1>1, <1>2, <1>4, <1>5, <1>6 DEF Joined
<1>8. ASSUME NEW k \in i + 1..i + Len(m) PROVE t[k] = m[k - i]
  <2>1. k \in 1..Len(d) /\ k - i \in 1..Len(m) /\ (k - i) + Len(a) = k
    BY <1>1, <1>2, <1>6
  <2>2. t[k] = d[k]
    BY <1>5, <2>1 DEF Joined
  <2> QED
    BY <1>4, <2>1, <2>2 DEF Joined
<1>9. ASSUME NEW k \in i + Len(m) + 1..Len(t) PROVE t[k] = s[k - Len(m)]
  <2>1. PICK j \in 1..Len(b) : j = k - Len(d)
    BY <1>1, <1>3, <1>6
  <2>2. j + Len(d) = k /\ i + j = k - Len(m)
    BY <1>1, <1>6, <2>1
  <2>3. t[k] = b[j]
    BY <1>5, <2>2 DEF Joined
  <2> QED
    BY <1>3, <2>2, <2>3
<1> QED
  BY <1>5, <1>6, <1>7, <1>8, <1>9 DEF Spliced, t, d, a, b

\* t is s without its k-th element.
OneLess(t, s, k) ==
    /\ Len(t) = Len(s) - 1
    /\ \A m \in 1..Len(s) - 1 : t[m] = s[IF m < k THEN m ELSE m + 1]

LEMMA ElementRemoved ==
    ASSUME NEW A, NEW s \in Seq(A), NEW k \in 1..Len(s), NEW t, t = RemoveAt(s, k)
    PROVE  t \in Seq(A) /\ OneLess(t, s, k)
<1>2. Len(s) \in Nat /\ k \in Nat
  BY SequenceDomain
<1>3. t = SubSeq(s, 1, k - 1) \o SubSeq(s, k + 1, Len(s))
  BY DEF RemoveAt
<1>4. t \in Seq(A) /\ Cut(t, s, k - 1, k + 1)
  BY <1>2, <1>3, SequenceCut
<1>5. Len(t) = Len(s) - 1
  BY <1>2, <1>4 DEF Cut
<1>6. ASSUME NEW m \in 1..Len(s) - 1 PROVE t[m] = s[IF m < k THEN m ELSE m + 1]
  <2>1. CASE m < k
    <3>1. m \in 1..k - 1
      BY <1>2, <2>1
    <3> QED
      BY <1>4, <2>1, <3>1 DEF Cut
  <2>2. CASE ~(m < k)
    <3>1. m \in (k - 1) + 1..Len(t) /\ m + ((k + 1) - (k - 1) - 1) = m + 1
      BY <1>2, <1>5, <2>2
    <3> QED
      BY <1>4, <2>2, <3>1 DEF Cut
  <2> QED
    BY <2>1, <2>2
<1> QED
  BY <1>4, <1>5, <1>6 DEF OneLess

\* t is s with e put at k.
OneMore(t, s, k, e) ==
    /\ Len(t) = Len(s) + 1
    /\ \A m \in 1..Len(s) + 1 :
          t[m] = IF m < k THEN s[m] ELSE IF m = k THEN e ELSE s[m - 1]

LEMMA ElementInserted ==
    ASSUME NEW A, NEW s \in Seq(A), NEW k \in 1..Len(s) + 1, NEW e \in A,
           NEW t, t = InsertAt(s, k, e)
    PROVE  t \in Seq(A) /\ OneMore(t, s, k, e)
<1>2. Len(s) \in Nat /\ k \in Nat /\ k - 1 \in 0..Len(s) /\ (k - 1) + 1 = k
  BY SequenceDomain
<1>3. t = SubSeq(s, 1, k - 1) \o <<e>> \o SubSeq(s, (k - 1) + 1, Len(s))
  BY <1>2 DEF InsertAt
<1>4. <<e>> \in Seq(A) /\ Len(<<e>>) = 1 /\ <<e>>[1] = e
  OBVIOUS
<1>5. t \in Seq(A) /\ Spliced(t, s, k - 1, <<e>>)
  BY <1>2, <1>3, <1>4, SequenceSpliced
<1>6. Len(t) = Len(s) + 1
  BY <1>4, <1>5 DEF Spliced
<1>7. ASSUME NEW m \in 1..Len(s) + 1
      PROVE  t[m] = IF m < k THEN s[m] ELSE IF m = k THEN e ELSE s[m - 1]
  <2>1. CASE m < k
    <3>1. m \in 1..k - 1
      BY <1>2, <2>1
    <3> QED
      BY <1>5, <2>1, <3>1 DEF Spliced
  <2>2. CASE m = k
    <3>1. m \in (k - 1) + 1..(k - 1) + Len(<<e>>) /\ m - (k - 1) = 1
      BY <1>2, <1>4, <2>2
    <3>2. t[m] = <<e>>[m - (k - 1)]
      BY <1>5, <3>1 DEF Spliced
    <3> QED
      BY <1>2, <1>4, <2>2, <3>1, <3>2
  <2>3. CASE m > k
    <3>1. m \in (k - 1) + Len(<<e>>) + 1..Len(t) /\ m - Len(<<e>>) = m - 1
      BY <1>2, <1>4, <1>6, <2>3
    <3>2. t[m] = s[m - Len(<<e>>)]
      BY <1>5, <3>1 DEF Spliced
    <3> QED
      BY <1>2, <2>3, <3>1, <3>2
  <2> QED
    BY <1>2, <2>1, <2>2, <2>3
<1> QED
  BY <1>5, <1>6, <1>7 DEF OneMore

\* t has the elements of s, each once: the m-th is the one that was at h[m].
Rearranged(t, s, h) ==
    /\ Len(t) = Len(s)
    /\ h \in [1..Len(s) -> 1..Len(s)]
    /\ \A m, o \in 1..Len(s) : h[m] = h[o] => m = o
    /\ \A o \in 1..Len(s) : \E m \in 1..Len(s) : h[m] = o
    /\ \A m \in 1..Len(s) : t[m] = s[h[m]]

\* t is s with the element at from put at to; what is before both stays.
Moved(t, s, from, to) ==
    \E h : /\ Rearranged(t, s, h) /\ h[to] = from
           /\ \A m \in 1..Len(s) : m < to /\ m < from => h[m] = m

LEMMA ElementMoved ==
    ASSUME NEW A, NEW s \in Seq(A), NEW from \in 1..Len(s), NEW to \in 1..Len(s),
           NEW t, t = InsertAt(RemoveAt(s, from), to, s[from])
    PROVE  t \in Seq(A) /\ Moved(t, s, from, to)
<1>1. PICK n : n = Len(s)
  OBVIOUS
<1>2. PICK r : r = RemoveAt(s, from)
  OBVIOUS
<1>0. PICK e : e = s[from]
  OBVIOUS
<1>3. t = InsertAt(r, to, e)
  BY <1>0, <1>2
<1>4. n \in Nat /\ from \in 1..n /\ to \in 1..n /\ e \in A
  BY <1>0, <1>1, SequenceDomain
<1>5. /\ r \in Seq(A) /\ Len(r) = n - 1
      /\ \A m \in 1..n - 1 : r[m] = s[IF m < from THEN m ELSE m + 1]
  BY <1>1, <1>2, ElementRemoved DEF OneLess
<1>6. to \in 1..Len(r) + 1
  BY <1>4, <1>5
<1>7. /\ t \in Seq(A) /\ Len(t) = n
      /\ \A m \in 1..n : t[m] = IF m < to THEN r[m] ELSE IF m = to THEN e ELSE r[m - 1]
  <2>1. t \in Seq(A) /\ OneMore(t, r, to, e)
    BY <1>3, <1>4, <1>5, <1>6, ElementInserted
  <2>2. Len(r) + 1 = n
    BY <1>4, <1>5
  <2> QED
    BY <2>1, <2>2 DEF OneMore
<1> DEFINE h == [m \in 1..n |->
                    IF m = to THEN from
                    ELSE IF from <= to
                         THEN IF m < from \/ m > to THEN m ELSE m + 1
                         ELSE IF m < to \/ m > from THEN m ELSE m - 1]
           back == [o \in 1..n |->
                    IF o = from THEN to
                    ELSE IF from <= to
                         THEN IF o < from \/ o > to THEN o ELSE o - 1
                         ELSE IF o < to \/ o > from THEN o ELSE o + 1]
<1>8. h \in [1..n -> 1..n]
  BY <1>4
<1>9. ASSUME NEW m \in 1..n PROVE back[h[m]] = m
  BY <1>4
<1>10. ASSUME NEW o \in 1..n PROVE back[o] \in 1..n /\ h[back[o]] = o
  BY <1>4
<1>11. ASSUME NEW m \in 1..n PROVE t[m] = s[h[m]]
  <2>1. CASE m < to
    <3>1. m \in 1..n - 1
      BY <1>4, <2>1
    <3>2. h[m] = IF m < from THEN m ELSE m + 1
      BY <1>4, <2>1
    <3> QED
      BY <1>5, <1>7, <2>1, <3>1, <3>2
  <2>2. CASE m = to
    BY <1>0, <1>4, <1>7, <2>2
  <2>3. CASE m > to
    <3>1. m - 1 \in 1..n - 1 /\ (m - 1) + 1 = m
      BY <1>4, <2>3
    <3>2. h[m] = IF m - 1 < from THEN m - 1 ELSE (m - 1) + 1
      BY <1>4, <2>3
    <3>3. t[m] = r[m - 1]
      BY <1>4, <1>7, <2>3
    <3> QED
      BY <1>5, <3>1, <3>2, <3>3
  <2> QED
    BY <1>4, <2>1, <2>2, <2>3
<1>12. h[to] = from /\ \A m \in 1..n : m < to /\ m < from => h[m] = m
  BY <1>4
<1> HIDE DEF h, back
<1>13. Rearranged(t, s, h)
  <2>1. \A m, o \in 1..n : h[m] = h[o] => m = o
    BY <1>9
  <2>2. \A o \in 1..n : \E m \in 1..n : h[m] = o
    BY <1>10
  <2> QED
    BY <1>1, <1>7, <1>8, <1>11, <2>1, <2>2 DEF Rearranged
<1> QED
  BY <1>1, <1>7, <1>12, <1>13 DEF Moved

-----------------------------------------------------------------------------
(* Loops.                                                                  *)

\* f[i] is what n steps from a have reached after i of them.
Runs(f, S, n, a, step) ==
    /\ f \in [0..n -> S]
    /\ \A i \in 0..n : f[i] = IF i = 0 THEN a ELSE step[i][f[i - 1]]

LEMMA LoopRuns ==
    ASSUME NEW S, NEW n \in Nat, NEW a \in S, NEW step \in [1..n -> [S -> S]]
    PROVE  \E f : Runs(f, S, n, a, step)
<1> DEFINE Run(f, m) == \A i \in 0..m : f[i] = IF i = 0 THEN a ELSE step[i][f[i - 1]]
           T == {m \in Nat : m <= n => \E f \in [0..m -> S] : Run(f, m)}
<1>1. 0 \in T
  <2>1. [i \in 0..0 |-> a] \in [0..0 -> S] /\ Run([i \in 0..0 |-> a], 0)
    OBVIOUS
  <2> QED
    BY <2>1
<1>2. ASSUME NEW m \in T PROVE m + 1 \in T
  <2> SUFFICES ASSUME m + 1 <= n PROVE \E f \in [0..m + 1 -> S] : Run(f, m + 1)
    OBVIOUS
  <2>1. m \in Nat /\ m <= n
    OBVIOUS
  <2>2. PICK f \in [0..m -> S] : Run(f, m)
    BY <2>1
  <2> DEFINE g == [i \in 0..m + 1 |-> IF i = m + 1 THEN step[i][f[m]] ELSE f[i]]
  <2>3. m + 1 \in 1..n /\ m \in 0..m /\ (m + 1) - 1 = m
    BY <2>1
  <2>4. step[m + 1][f[m]] \in S
    BY <2>2, <2>3
  <2>5. \A i \in 0..m : g[i] = f[i]
    BY <2>1
  <2>6. g[m + 1] = step[m + 1][f[m]]
    BY <2>1
  <2>7. g \in [0..m + 1 -> S]
    BY <2>1, <2>2, <2>4
  <2> HIDE DEF g
  <2>8. ASSUME NEW i \in 0..m + 1 PROVE g[i] = IF i = 0 THEN a ELSE step[i][g[i - 1]]
    <3>1. CASE i = m + 1
      <4>1. i # 0 /\ g[i - 1] = f[m]
        BY <2>1, <2>3, <2>5, <3>1
      <4> QED
        BY <2>6, <3>1, <4>1
    <3>2. CASE i \in 0..m
      <4>1. i # 0 => i - 1 \in 0..m
        BY <2>1, <3>2
      <4>2. f[i] = IF i = 0 THEN a ELSE step[i][f[i - 1]]
        BY <2>2, <3>2
      <4> QED
        BY <2>5, <3>2, <4>1, <4>2
    <3> QED
      BY <2>1, <3>1, <3>2
  <2> QED
    BY <2>7, <2>8
<1>3. T \subseteq Nat
  OBVIOUS
<1> HIDE DEF T
<1>4. n \in T
  BY <1>1, <1>2, <1>3, SetInduction
<1> QED
  BY <1>4 DEF T, Runs

\* Rounds that each lead from the good values of one to those of the next.
LEMMA LoopStays ==
    ASSUME NEW n \in Nat, NEW f, NEW G, f[0] \in G[0],
           \A i \in 1..n : f[i - 1] \in G[i - 1] => f[i] \in G[i]
    PROVE  \A i \in 0..n : f[i] \in G[i]
<1> DEFINE T == {m \in Nat : m <= n => f[m] \in G[m]}
<1>1. 0 \in T
  OBVIOUS
<1>2. ASSUME NEW m \in T PROVE m + 1 \in T
  <2>1. m + 1 <= n => m + 1 \in 1..n /\ (m + 1) - 1 = m /\ m <= n
    OBVIOUS
  <2> QED
    BY <2>1
<1>3. T \subseteq Nat
  OBVIOUS
<1> HIDE DEF T
<1>4. T = Nat
  BY <1>1, <1>2, <1>3, SetInduction
<1> QED
  BY <1>4 DEF T

\* f[i] is what the first i of n rounds make of start.
Rounds(f, n, start, step) ==
    \A i \in 0..n : f[i] = IF i = 0 THEN start ELSE step[i][f[i - 1]]

LEMMA RoundsAt ==
    ASSUME NEW n \in Nat, NEW f, NEW start, NEW step, Rounds(f, n, start, step)
    PROVE  f[0] = start /\ \A i \in 1..n : f[i] = step[i][f[i - 1]]
<1>1. 0 \in 0..n /\ \A i \in 1..n : i \in 0..n /\ i # 0
  OBVIOUS
<1> QED
  BY <1>1, Zenon DEF Rounds

\* There is a loop of rounds which are only known to make sense of good values:
\* G[i] are the good ones after i rounds.
LEMMA GoodLoopRuns ==
    ASSUME NEW n \in Nat, NEW G, NEW start \in G[0], NEW step,
           \A i \in 1..n : step[i] \in [G[i - 1] -> G[i]]
    PROVE  \E f : f = [i \in 0..n |-> f[i]] /\ Rounds(f, n, start, step)
<1> DEFINE Run(f, m) == /\ \A i \in 0..m : f[i] = IF i = 0 THEN start ELSE step[i][f[i - 1]]
                        /\ f[m] \in G[m]
           T == {m \in Nat : m <= n => \E f : Run(f, m)}
<1>1. 0 \in T
  <2>1. Run([i \in 0..0 |-> start], 0)
    OBVIOUS
  <2> QED
    BY <2>1
<1>2. ASSUME NEW m \in T PROVE m + 1 \in T
  <2> SUFFICES ASSUME m + 1 <= n PROVE \E f : Run(f, m + 1)
    OBVIOUS
  <2>1. m \in Nat /\ m <= n
    OBVIOUS
  <2>2. PICK f : Run(f, m)
    BY <2>1
  <2> DEFINE g == [i \in 0..m + 1 |-> IF i = m + 1 THEN step[i][f[m]] ELSE f[i]]
  <2>3. m + 1 \in 1..n /\ m \in 0..m /\ (m + 1) - 1 = m
    BY <2>1
  <2>4. step[m + 1][f[m]] \in G[m + 1]
    BY <2>2, <2>3
  <2>5. \A i \in 0..m : g[i] = f[i]
    BY <2>1
  <2>6. g[m + 1] = step[m + 1][f[m]]
    BY <2>1
  <2> HIDE DEF g
  <2>7. ASSUME NEW i \in 0..m + 1 PROVE g[i] = IF i = 0 THEN start ELSE step[i][g[i - 1]]
    <3>1. CASE i = m + 1
      <4>1. i # 0 /\ g[i - 1] = f[m]
        BY <2>1, <2>3, <2>5, <3>1
      <4> QED
        BY <2>6, <3>1, <4>1
    <3>2. CASE i \in 0..m
      <4>1. i # 0 => i - 1 \in 0..m
        BY <2>1, <3>2
      <4>2. f[i] = IF i = 0 THEN start ELSE step[i][f[i - 1]]
        BY <2>2, <3>2
      <4> QED
        BY <2>5, <3>2, <4>1, <4>2
    <3> QED
      BY <2>1, <3>1, <3>2
  <2> QED
    BY <2>4, <2>6, <2>7
<1>3. T \subseteq Nat
  OBVIOUS
<1> HIDE DEF T
<1>4. n \in T
  BY <1>1, <1>2, <1>3, SetInduction
<1>5. PICK f : Run(f, n)
  BY <1>4 DEF T
<1> DEFINE g == [i \in 0..n |-> f[i]]
<1>6. ASSUME NEW i \in 0..n PROVE g[i] = IF i = 0 THEN start ELSE step[i][g[i - 1]]
  <2>1. i # 0 => i - 1 \in 0..n
    OBVIOUS
  <2> QED
    BY <1>5, <2>1
<1>7. g = [i \in 0..n |-> g[i]]
  OBVIOUS
<1> HIDE DEF g
<1>8. Rounds(g, n, start, step)
  BY <1>6 DEF Rounds
<1> QED
  BY <1>7, <1>8

-----------------------------------------------------------------------------
(* Kept.                                                                   *)

\* The loop of Kept: f[i] is what it has after i elements.
Loops(f, s, K, n) ==
    f = [i \in 0..n |->
            IF i = 0 THEN <<>>
            ELSE IF i \in K THEN Append(f[i - 1], s[i]) ELSE f[i - 1]]

\* The loop can be run to any length.
LEMMA LoopExists ==
    ASSUME NEW s, NEW K, NEW n \in Nat
    PROVE  \E f : Loops(f, s, K, n)
<1> DEFINE S == {m \in Nat : \E f : Loops(f, s, K, m)}
<1>1. 0 \in S
  <2>1. Loops([i \in 0..0 |-> <<>>], s, K, 0)
    BY DEF Loops
  <2> QED
    BY <2>1
<1>2. ASSUME NEW m \in S PROVE m + 1 \in S
  <2>1. PICK f : Loops(f, s, K, m)
    OBVIOUS
  <2> DEFINE g == [i \in 0..(m + 1) |->
                      IF i = m + 1
                      THEN IF i \in K THEN Append(f[m], s[i]) ELSE f[m]
                      ELSE f[i]]
  <2>2. \A i \in 0..m : g[i] = f[i]
    OBVIOUS
  <2>3. ASSUME NEW i \in 0..(m + 1)
        PROVE  g[i] = IF i = 0 THEN <<>>
                      ELSE IF i \in K THEN Append(g[i - 1], s[i]) ELSE g[i - 1]
    <3>1. CASE i = m + 1
      BY <2>2, <3>1
    <3>2. CASE i \in 0..m
      <4>1. f[i] = IF i = 0 THEN <<>>
                   ELSE IF i \in K THEN Append(f[i - 1], s[i]) ELSE f[i - 1]
        BY <2>1, <3>2 DEF Loops
      <4>2. i # 0 => g[i - 1] = f[i - 1]
        BY <2>2, <3>2
      <4> QED
        BY <2>2, <3>2, <4>1, <4>2
    <3> QED
      BY <3>1, <3>2
  <2> HIDE DEF g
  <2>4. Loops([i \in 0..(m + 1) |-> g[i]], s, K, m + 1)
    BY <2>3 DEF Loops
  <2> QED
    BY <2>4
<1> HIDE DEF S
<1>3. S = Nat
  <2>1. S \subseteq Nat
    BY DEF S
  <2> QED
    BY <1>1, <1>2, <2>1, SetInduction
<1> QED
  BY <1>3 DEF S

\* r is what is left of s when only the positions in K are kept; g says where each
\* element comes from.
Selects(g, r, s, K) ==
    /\ g \in [DOMAIN r -> DOMAIN s \cap K]
    /\ \A j, k \in DOMAIN r : j < k => g[j] < g[k]
    /\ \A i \in DOMAIN s \cap K : \E k \in DOMAIN r : g[k] = i
    /\ \A k \in DOMAIN r : r[k] = s[g[k]]

\* Kept keeps exactly the elements at the positions in K, each once and in order.
LEMMA KeptSelects ==
    ASSUME NEW A, NEW s \in Seq(A), NEW K
    PROVE  Kept(s, K) \in Seq(A) /\ \E g : Selects(g, Kept(s, K), s, K)
<1> DEFINE n == Len(s)
           up == CHOOSE f : Loops(f, s, K, n)
<1>1. n \in Nat /\ DOMAIN s = 1..n
  BY LenProperties
<1>2. Kept(s, K) = up[n]
  BY Zenon DEF Kept, Loops
<1>3. Loops(up, s, K, n)
  BY <1>1, LoopExists
<1> HIDE DEF up, n
<1> DEFINE Prefix(i) == {k \in DOMAIN s : k <= i}
           Selected(i) == \E g : Selects(g, up[i], s, K \cap Prefix(i))
           Done(i) == i <= n => up[i] \in Seq(A) /\ Selected(i)
           S == {i \in Nat : Done(i)}
<1> HIDE DEF Prefix, Selected
<1>4. 0 \in S
  <2>1. up[0] = <<>>
    BY <1>1, <1>3 DEF Loops
  <2>2. Selects(<<>>, <<>>, s, K \cap Prefix(0))
    BY <1>1 DEF Selects, Prefix
  <2>3. Selected(0)
    BY <2>1, <2>2 DEF Selected
  <2>4. up[0] \in Seq(A)
    BY <2>1, EmptySeq
  <2> QED
    BY <2>3, <2>4
<1>5. ASSUME NEW i \in S PROVE i + 1 \in S
  <2> SUFFICES ASSUME i + 1 <= n
               PROVE  up[i + 1] \in Seq(A) /\ Selected(i + 1)
    OBVIOUS
  <2>0. i \in Nat /\ i <= n /\ up[i] \in Seq(A) /\ Selected(i)
    BY <1>1
  <2>1. up[i + 1] = IF i + 1 \in K THEN Append(up[i], s[i + 1]) ELSE up[i]
    <3>1. i + 1 \in 0..n /\ i + 1 # 0 /\ (i + 1) - 1 = i
      BY <1>1, <2>0
    <3> QED
      BY <1>3, <3>1 DEF Loops
  <2>2. PICK g : Selects(g, up[i], s, K \cap Prefix(i))
    BY <2>0 DEF Selected
  <2>3. up[i] \in Seq(A) /\ s[i + 1] \in A /\ i + 1 \in DOMAIN s
    BY <1>1, <2>0, ElementOfSeq
  <2>4. CASE i + 1 \notin K
    <3>1. K \cap Prefix(i + 1) = K \cap Prefix(i)
      BY <1>1, <2>0, <2>4 DEF Prefix
    <3> QED
      BY <2>1, <2>2, <2>3, <2>4, <3>1 DEF Selected
  <2>5. CASE i + 1 \in K
    <3> DEFINE r == up[i]
               m == Len(r)
               t == Append(r, s[i + 1])
               h == [k \in 1..(m + 1) |-> IF k = m + 1 THEN i + 1 ELSE g[k]]
    <3>1. m \in Nat /\ DOMAIN r = 1..m
      BY <2>3, LenProperties
    <3>2. /\ t \in Seq(A) /\ DOMAIN t = 1..(m + 1)
          /\ \A k \in 1..m : t[k] = r[k]
          /\ t[m + 1] = s[i + 1]
      BY <2>3, <3>1, AppendProperties
    <3> HIDE DEF r, m, t
    <3>3. /\ g \in [1..m -> DOMAIN s \cap (K \cap Prefix(i))]
          /\ \A j, k \in 1..m : j < k => g[j] < g[k]
          /\ \A j \in DOMAIN s \cap (K \cap Prefix(i)) : \E k \in 1..m : g[k] = j
          /\ \A k \in 1..m : r[k] = s[g[k]]
      BY <2>2, <3>1 DEF Selects, r
    <3>4. h \in [1..(m + 1) -> DOMAIN s \cap (K \cap Prefix(i + 1))]
      BY <1>1, <2>0, <2>3, <2>5, <3>1, <3>3 DEF Prefix
    <3>5. \A j, k \in 1..(m + 1) : j < k => h[j] < h[k]
      <4>1. \A k \in 1..m : g[k] \in Nat /\ g[k] <= i
        BY <1>1, <2>0, <3>3 DEF Prefix
      <4> SUFFICES ASSUME NEW j \in 1..(m + 1), NEW k \in 1..(m + 1), j < k
                   PROVE  h[j] < h[k]
        OBVIOUS
      <4>2. j \in 1..m /\ h[j] = g[j]
        BY <3>1
      <4>3. CASE k = m + 1
        BY <2>0, <4>1, <4>2, <4>3
      <4>4. CASE k # m + 1
        BY <3>1, <3>3, <4>2, <4>4
      <4> QED
        BY <4>3, <4>4
    <3>6. ASSUME NEW j \in DOMAIN s \cap (K \cap Prefix(i + 1))
          PROVE  \E k \in 1..(m + 1) : h[k] = j
      <4>1. CASE j = i + 1
        <5>1. m + 1 \in 1..(m + 1) /\ h[m + 1] = j
          BY <3>1, <4>1
        <5> QED
          BY <5>1
      <4>2. CASE j # i + 1
        <5>1. j \in DOMAIN s \cap (K \cap Prefix(i))
          BY <1>1, <2>0, <4>2 DEF Prefix
        <5>2. PICK k \in 1..m : g[k] = j
          BY <3>3, <5>1
        <5>3. k \in 1..(m + 1) /\ h[k] = j
          BY <3>1, <5>2
        <5> QED
          BY <5>3
      <4> QED
        BY <4>1, <4>2
    <3>7. \A k \in 1..(m + 1) : t[k] = s[h[k]]
      BY <3>1, <3>2, <3>3
    <3>8. Selects(h, t, s, K \cap Prefix(i + 1))
      BY <3>2, <3>4, <3>5, <3>6, <3>7 DEF Selects
    <3> QED
      BY <2>1, <2>5, <3>2, <3>8 DEF t, r, Selected
  <2> QED
    BY <2>4, <2>5
<1> HIDE DEF S
<1>6. S = Nat
  <2>1. S \subseteq Nat
    BY DEF S
  <2> QED
    BY <1>4, <1>5, <2>1, SetInduction
<1>7. up[n] \in Seq(A) /\ \E g : Selects(g, up[n], s, K \cap Prefix(n))
  <2>1. n \in Nat /\ Done(n)
    BY <1>1, <1>6 DEF S
  <2>2. n <= n
    BY <1>1
  <2> QED
    BY <2>1, <2>2 DEF Selected
<1>8. ASSUME NEW g, Selects(g, up[n], s, K \cap Prefix(n))
      PROVE  Selects(g, up[n], s, K)
  <2>1. DOMAIN s \cap (K \cap Prefix(n)) = DOMAIN s \cap K
    BY <1>1 DEF Prefix
  <2> QED
    BY <1>8, <2>1 DEF Selects
<1> QED
  BY <1>2, <1>7, <1>8

\* Two ways to select the same agree on the k-th, if they do on those before.
LEMMA SelectsAlike ==
    ASSUME NEW A, NEW s \in Seq(A), NEW K, NEW r \in Seq(A), NEW t \in Seq(A), NEW g, NEW h,
           Selects(g, r, s, K), Selects(h, t, s, K),
           NEW k \in DOMAIN r, k \in DOMAIN t, \A j \in 1..k - 1 : g[j] = h[j]
    PROVE  ~(g[k] < h[k])
<1>1. /\ DOMAIN r = 1..Len(r) /\ Len(r) \in Nat /\ DOMAIN t = 1..Len(t) /\ Len(t) \in Nat
      /\ DOMAIN s = 1..Len(s) /\ Len(s) \in Nat
  BY SequenceDomain
<1>2. /\ \A j \in DOMAIN r : g[j] \in DOMAIN s \cap K
      /\ \A j \in DOMAIN t : h[j] \in DOMAIN s \cap K
  BY DEF Selects
<1>3. SUFFICES ASSUME g[k] < h[k] PROVE FALSE
  OBVIOUS
<1>4. PICK m \in DOMAIN t : h[m] = g[k]
  BY <1>2 DEF Selects
<1>5. CASE m < k
  <2>1. g[m] = h[m] /\ m \in DOMAIN r
    BY <1>1, <1>5
  <2>2. g[m] < g[k]
    BY <1>5, <2>1 DEF Selects
  <2> QED
    BY <1>1, <1>2, <1>4, <2>1, <2>2
<1>6. CASE m = k
  BY <1>1, <1>2, <1>3, <1>4, <1>6
<1>7. CASE k < m
  <2>1. h[k] < h[m]
    BY <1>7 DEF Selects
  <2> QED
    BY <1>1, <1>2, <1>3, <1>4, <2>1
<1> QED
  BY <1>1, <1>5, <1>6, <1>7

LEMMA SelectsAll ==
    ASSUME NEW A, NEW s \in Seq(A), NEW K, NEW r \in Seq(A), NEW t \in Seq(A), NEW g, NEW h,
           Selects(g, r, s, K), Selects(h, t, s, K),
           \A k \in DOMAIN r : k \in DOMAIN t => g[k] = h[k]
    PROVE  ~(Len(r) < Len(t))
<1>1. /\ DOMAIN r = 1..Len(r) /\ Len(r) \in Nat /\ DOMAIN t = 1..Len(t) /\ Len(t) \in Nat
      /\ DOMAIN s = 1..Len(s) /\ Len(s) \in Nat
  BY SequenceDomain
<1>2. SUFFICES ASSUME Len(r) < Len(t) PROVE FALSE
  OBVIOUS
<1>3. PICK o : o = Len(r) + 1
  OBVIOUS
<1>4. o \in DOMAIN t
  BY <1>1, <1>2, <1>3
<1>5. h[o] \in DOMAIN s \cap K
  BY <1>4 DEF Selects
<1>6. PICK m \in DOMAIN r : g[m] = h[o]
  BY <1>5 DEF Selects
<1>7. m < o /\ m \in DOMAIN t
  BY <1>1, <1>2, <1>3
<1>8. h[m] < h[o] /\ h[m] = h[o]
  BY <1>4, <1>6, <1>7 DEF Selects
<1> QED
  BY <1>1, <1>5, <1>8

\* What is selected determines the sequence.
LEMMA SelectsOneSequence ==
    ASSUME NEW A, NEW s \in Seq(A), NEW K, NEW r \in Seq(A), NEW t \in Seq(A), NEW g, NEW h,
           Selects(g, r, s, K), Selects(h, t, s, K)
    PROVE  r = t
<1>1. /\ DOMAIN r = 1..Len(r) /\ Len(r) \in Nat /\ DOMAIN t = 1..Len(t) /\ Len(t) \in Nat
      /\ DOMAIN s = 1..Len(s) /\ Len(s) \in Nat
  BY SequenceDomain
<1>2. /\ \A j \in DOMAIN r : g[j] \in Nat
      /\ \A j \in DOMAIN t : h[j] \in Nat
  BY <1>1 DEF Selects
<1> DEFINE T == {k \in Nat : k \in DOMAIN r /\ k \in DOMAIN t /\ g[k] # h[k]}
<1>3. T = {}
  <2> SUFFICES ASSUME T # {} PROVE FALSE
    OBVIOUS
  <2>1. T \in SUBSET Nat
    OBVIOUS
  <2>2. PICK k \in T : \A j \in T : k <= j
    BY <2>1, LeastOf
  <2>3. k \in DOMAIN r /\ k \in DOMAIN t /\ k \in Nat
    OBVIOUS
  <2>4. \A j \in 1..k - 1 : g[j] = h[j]
    <3> SUFFICES ASSUME NEW j \in 1..k - 1, g[j] # h[j] PROVE FALSE
      OBVIOUS
    <3>1. j \in T
      BY <1>1, <2>3
    <3> QED
      BY <2>2, <2>3, <3>1
  <2>5. ~(g[k] < h[k]) /\ ~(h[k] < g[k])
    <3>1. \A j \in 1..k - 1 : h[j] = g[j]
      BY <2>4
    <3> QED
      BY <2>3, <2>4, <3>1, SelectsAlike
  <2> QED
    BY <1>2, <2>3, <2>5
<1>4. \A k \in DOMAIN r : k \in DOMAIN t => g[k] = h[k]
  BY <1>1, <1>3
<1> HIDE DEF T
<1>5. Len(r) = Len(t)
  <2>1. \A k \in DOMAIN t : k \in DOMAIN r => h[k] = g[k]
    BY <1>4
  <2>2. ~(Len(r) < Len(t))
    BY <1>4, SelectsAll
  <2>3. ~(Len(t) < Len(r))
    BY <2>1, SelectsAll
  <2>4. Len(r) \in Nat /\ Len(t) \in Nat
    BY <1>1
  <2> QED
    BY <2>2, <2>3, <2>4
<1>6. ASSUME NEW k \in 1..Len(r) PROVE r[k] = t[k]
  <2>1. k \in DOMAIN r /\ k \in DOMAIN t
    BY <1>1, <1>5
  <2>2. r[k] = s[g[k]] /\ t[k] = s[h[k]]
    BY <2>1 DEF Selects
  <2> QED
    BY <1>4, <2>1, <2>2
<1> QED
  BY <1>5, <1>6, SeqEqual

NoneTwice(s) == \A i, j \in DOMAIN s : s[i] = s[j] => i = j

\* r has what s has at the positions in K, and in the order of s.
Picks(r, s, K) ==
    /\ \A k \in DOMAIN r : \E i \in DOMAIN s : i \in K /\ r[k] = s[i]
    /\ \A i \in DOMAIN s : i \in K => \E k \in DOMAIN r : r[k] = s[i]
    /\ \A k, m \in DOMAIN r, i, j \in DOMAIN s : r[k] = s[i] /\ r[m] = s[j] /\ k < m => i < j

LEMMA KeptPicks ==
    ASSUME NEW A, NEW s \in Seq(A), NoneTwice(s), NEW K
    PROVE  Kept(s, K) \in Seq(A) /\ Picks(Kept(s, K), s, K)
<1>1. PICK r : r = Kept(s, K)
  OBVIOUS
<1>2. r \in Seq(A) /\ \E g : Selects(g, r, s, K)
  BY <1>1, KeptSelects
<1>3. PICK g : Selects(g, r, s, K)
  BY <1>2
<1>4. ASSUME NEW k \in DOMAIN r, NEW i \in DOMAIN s, r[k] = s[i] PROVE i = g[k]
  <2>1. g[k] \in DOMAIN s /\ r[k] = s[g[k]]
    BY <1>3 DEF Selects
  <2> QED
    BY <1>4, <2>1 DEF NoneTwice
<1>5. ASSUME NEW k \in DOMAIN r, NEW m \in DOMAIN r, NEW i \in DOMAIN s, NEW j \in DOMAIN s,
             r[k] = s[i], r[m] = s[j], k < m
      PROVE  i < j
  <2>1. i = g[k] /\ j = g[m]
    BY <1>4, <1>5
  <2> QED
    BY <1>3, <1>5, <2>1 DEF Selects
<1>6. \A k \in DOMAIN r : \E i \in DOMAIN s : i \in K /\ r[k] = s[i]
  BY <1>3 DEF Selects
<1>7. \A i \in DOMAIN s : i \in K => \E k \in DOMAIN r : r[k] = s[i]
  BY <1>3 DEF Selects
<1> QED
  BY <1>1, <1>2, <1>5, <1>6, <1>7 DEF Picks

\* What is picked is there once.
LEMMA PicksNoneTwice ==
    ASSUME NEW A, NEW s \in Seq(A), NEW K, NEW r \in Seq(A), Picks(r, s, K)
    PROVE  NoneTwice(r)
<1>1. DOMAIN r = 1..Len(r) /\ Len(r) \in Nat /\ DOMAIN s = 1..Len(s) /\ Len(s) \in Nat
  BY SequenceDomain
<1>2. ASSUME NEW k \in DOMAIN r, NEW m \in DOMAIN r, r[k] = r[m], k < m PROVE FALSE
  <2>1. PICK i \in DOMAIN s : r[k] = s[i]
    BY DEF Picks
  <2>2. i < i
    BY <1>2, <2>1 DEF Picks
  <2> QED
    BY <1>1, <2>2
<1> QED
  BY <1>1, <1>2 DEF NoneTwice

LEMMA PicksIsKept ==
    ASSUME NEW A, NEW s \in Seq(A), NoneTwice(s), NEW K, NEW r \in Seq(A), Picks(r, s, K)
    PROVE  r = Kept(s, K)
<1> DEFINE g == [k \in DOMAIN r |-> CHOOSE i \in DOMAIN s : i \in K /\ r[k] = s[i]]
<1>1. \A k \in DOMAIN r : g[k] \in DOMAIN s \cap K /\ r[k] = s[g[k]]
  BY DEF Picks
<1>2. g \in [DOMAIN r -> DOMAIN s \cap K]
  BY <1>1
<1> HIDE DEF g
<1>3. \A k, m \in DOMAIN r : k < m => g[k] < g[m]
  BY <1>1 DEF Picks
<1>4. ASSUME NEW i \in DOMAIN s \cap K PROVE \E k \in DOMAIN r : g[k] = i
  <2>1. PICK k \in DOMAIN r : r[k] = s[i]
    BY DEF Picks
  <2> QED
    BY <1>1, <2>1 DEF NoneTwice
<1>5. Selects(g, r, s, K)
  BY <1>1, <1>2, <1>3, <1>4 DEF Selects
<1>6. Kept(s, K) \in Seq(A) /\ \E h : Selects(h, Kept(s, K), s, K)
  BY KeptSelects
<1>7. PICK t : t = Kept(s, K)
  OBVIOUS
<1>8. PICK h : Selects(h, t, s, K)
  BY <1>6, <1>7
<1> QED
  BY <1>5, <1>6, <1>7, <1>8, SelectsOneSequence

\* t is s with the element at from put at to, before it: the others keep their order.
Pulled(t, s, from, to) ==
    /\ Len(t) = Len(s)
    /\ \A m \in 1..Len(s) :
          t[m] = IF m < to THEN s[m] ELSE IF m = to THEN s[from]
                 ELSE IF m <= from THEN s[m - 1] ELSE s[m]

LEMMA ElementPulled ==
    ASSUME NEW A, NEW s \in Seq(A), NEW from \in 1..Len(s), NEW to \in 1..from,
           NEW t, t = InsertAt(RemoveAt(s, from), to, s[from])
    PROVE  t \in Seq(A) /\ Pulled(t, s, from, to)
<1>1. PICK n : n = Len(s)
  OBVIOUS
<1>2. PICK r : r = RemoveAt(s, from)
  OBVIOUS
<1>3. PICK e : e = s[from]
  OBVIOUS
<1>4. n \in Nat /\ from \in 1..n /\ to \in 1..from /\ e \in A
  BY <1>1, <1>3, SequenceDomain
<1>5. r \in Seq(A) /\ OneLess(r, s, from)
  BY <1>2, ElementRemoved
<1>6. to \in 1..Len(r) + 1 /\ Len(r) + 1 = n
  BY <1>1, <1>4, <1>5 DEF OneLess
<1>7. t \in Seq(A) /\ OneMore(t, r, to, e)
  BY <1>2, <1>3, <1>4, <1>5, <1>6, ElementInserted
<1>8. ASSUME NEW m \in 1..n
      PROVE  t[m] = IF m < to THEN s[m] ELSE IF m = to THEN e
                    ELSE IF m <= from THEN s[m - 1] ELSE s[m]
  <2>1. t[m] = IF m < to THEN r[m] ELSE IF m = to THEN e ELSE r[m - 1]
    BY <1>6, <1>7 DEF OneMore
  <2>2. \A o \in 1..n - 1 : r[o] = s[IF o < from THEN o ELSE o + 1]
    BY <1>1, <1>5 DEF OneLess
  <2>3. CASE m < to
    <3>1. m \in 1..n - 1 /\ m < from
      BY <1>4, <2>3
    <3> QED
      BY <2>1, <2>2, <2>3, <3>1
  <2>4. CASE m = to
    BY <1>4, <2>1, <2>4
  <2>5. CASE to < m /\ m <= from
    <3>1. m - 1 \in 1..n - 1 /\ m - 1 < from
      BY <1>4, <2>5
    <3>2. r[m - 1] = s[m - 1]
      BY <2>2, <3>1
    <3> QED
      BY <1>4, <2>1, <2>5, <3>2
  <2>6. CASE from < m
    <3>1. m - 1 \in 1..n - 1 /\ ~(m - 1 < from) /\ (m - 1) + 1 = m
      BY <1>4, <2>6
    <3>2. r[m - 1] = s[m]
      BY <2>2, <3>1
    <3> QED
      BY <1>4, <2>1, <2>6, <3>2
  <2> QED
    BY <1>4, <2>3, <2>4, <2>5, <2>6
<1>9. Len(t) = n
  BY <1>6, <1>7 DEF OneMore
<1> QED
  BY <1>1, <1>3, <1>7, <1>8, <1>9 DEF Pulled

=============================================================================
