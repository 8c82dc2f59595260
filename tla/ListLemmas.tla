----------------------------- MODULE ListLemmas -----------------------------
(***************************************************************************)
(* The kernel's linked lists (list.h) are modelled as sequences without    *)
(* repetition.  These lemmas say what listAdd (Cons), listAddTail (Append) *)
(* and taking the head off (Tail) do to the set of listed elements.        *)
(***************************************************************************)
EXTENDS Integers, Sequences, KernelList, SequenceTheorems, FiniteSetTheorems, TLAPS

\* The elements of a sequence belong to the set it is over.
LEMMA ToSetType ==
  ASSUME NEW S, NEW s \in Seq(S)
  PROVE  ToSet(s) \subseteq S
BY DEF ToSet

\* listAdd() of an element that is not listed.
LEMMA ConsList ==
  ASSUME NEW S, NEW s \in Seq(S), NEW x \in S
  PROVE  /\ Cons(x, s) \in Seq(S)
         /\ Cons(x, s) # <<>>
         /\ Head(Cons(x, s)) = x
         /\ ToSet(Cons(x, s)) = {x} \cup ToSet(s)
         /\ IsInjective(s) /\ x \notin ToSet(s) => IsInjective(Cons(x, s))
<1> DEFINE c == Cons(x, s)
<1>1. /\ c \in Seq(S)
      /\ Len(c) = Len(s) + 1
      /\ c[1] = x
      /\ \A i \in 1..Len(s) : c[i + 1] = s[i]
      /\ \A i \in 2..Len(c) : i - 1 \in 1..Len(s) /\ c[i] = s[i - 1]
  BY DEF Cons
<1>2. DOMAIN c = 1..(Len(s) + 1) /\ DOMAIN s = 1..Len(s) /\ Len(s) \in Nat
  BY <1>1
<1> HIDE DEF c
<1>3. ToSet(c) = {x} \cup ToSet(s)
  <2>1. ASSUME NEW y \in ToSet(c) PROVE y \in {x} \cup ToSet(s)
    <3>1. PICK i \in 1..(Len(s) + 1) : y = c[i]
      BY <2>1, <1>2 DEF ToSet
    <3>2. CASE i = 1
      BY <3>1, <3>2, <1>1
    <3>3. CASE i # 1
      <4>1. i - 1 \in 1..Len(s) /\ c[i] = s[i - 1]
        BY <3>1, <3>3, <1>1, <1>2
      <4>2. QED BY <4>1, <3>1, <1>2 DEF ToSet
    <3>4. QED BY <3>2, <3>3
  <2>2. x \in ToSet(c)
    BY <1>1, <1>2 DEF ToSet
  <2>3. ASSUME NEW y \in ToSet(s) PROVE y \in ToSet(c)
    <3>1. PICK i \in 1..Len(s) : y = s[i]
      BY <2>3, <1>2 DEF ToSet
    <3>2. i + 1 \in DOMAIN c /\ c[i + 1] = y
      BY <3>1, <1>1, <1>2
    <3>3. QED BY <3>2 DEF ToSet
  <2>4. QED BY <2>1, <2>2, <2>3
<1>4. ASSUME IsInjective(s), x \notin ToSet(s)
      PROVE  IsInjective(c)
  <2>1. ASSUME NEW i \in DOMAIN c, NEW j \in DOMAIN c, c[i] = c[j]
        PROVE  i = j
    <3>1. \A k \in 1..Len(s) : s[k] # x
      BY <1>4, <1>2 DEF ToSet
    <3>2. CASE i = 1 \/ j = 1
      BY <3>1, <3>2, <2>1, <1>1, <1>2
    <3>3. CASE i # 1 /\ j # 1
      <4>1. /\ i - 1 \in DOMAIN s /\ c[i] = s[i - 1]
            /\ j - 1 \in DOMAIN s /\ c[j] = s[j - 1]
        BY <3>3, <2>1, <1>1, <1>2
      <4>2. i - 1 = j - 1
        BY <4>1, <2>1, <1>4 DEF IsInjective
      <4>3. QED BY <4>2, <2>1, <1>2
    <3>4. QED BY <3>2, <3>3
  <2>2. QED BY <2>1 DEF IsInjective
<1>5. c # <<>> /\ Head(c) = x
  BY <1>1, <1>2
<1>6. QED BY <1>1, <1>3, <1>4, <1>5 DEF c

\* listAddTail() of an element that is not listed.
LEMMA AppendList ==
  ASSUME NEW S, NEW s \in Seq(S), NEW x \in S
  PROVE  /\ Append(s, x) \in Seq(S)
         /\ ToSet(Append(s, x)) = ToSet(s) \cup {x}
         /\ IsInjective(s) /\ x \notin ToSet(s) => IsInjective(Append(s, x))
<1> DEFINE c == Append(s, x)
<1>1. /\ c \in Seq(S)
      /\ Len(c) = Len(s) + 1
      /\ c[Len(s) + 1] = x
      /\ \A i \in 1..Len(s) : c[i] = s[i]
      /\ DOMAIN c = 1..(Len(s) + 1) /\ DOMAIN s = 1..Len(s) /\ Len(s) \in Nat
  OBVIOUS
<1> HIDE DEF c
<1>2. ToSet(c) = ToSet(s) \cup {x}
  BY <1>1 DEF ToSet
<1>3. ASSUME IsInjective(s), x \notin ToSet(s)
      PROVE  IsInjective(c)
  <2>1. \A k \in 1..Len(s) : s[k] # x
    BY <1>3, <1>1 DEF ToSet
  <2>2. QED BY <2>1, <1>1, <1>3 DEF IsInjective
<1>4. QED BY <1>1, <1>2, <1>3 DEF c

\* listDelete() of the first element.
LEMMA TailList ==
  ASSUME NEW S, NEW s \in Seq(S), s # <<>>, IsInjective(s)
  PROVE  /\ Head(s) \in S /\ Head(s) \in ToSet(s)
         /\ Tail(s) \in Seq(S)
         /\ ToSet(Tail(s)) = ToSet(s) \ {Head(s)}
         /\ IsInjective(Tail(s))
<1> DEFINE c == Tail(s)
<1>1. /\ c \in Seq(S)
      /\ Len(s) \in Nat /\ Len(s) >= 1
      /\ Len(c) = Len(s) - 1
      /\ Head(s) = s[1] /\ s[1] \in S
      /\ \A i \in 1..Len(c) : c[i] = s[i + 1]
      /\ DOMAIN c = 1..Len(c) /\ DOMAIN s = 1..Len(s)
  OBVIOUS
<1> HIDE DEF c
<1>2. ASSUME NEW i \in 2..Len(s) PROVE i - 1 \in 1..Len(c) /\ c[i - 1] = s[i]
  BY <1>1
<1>3. Head(s) \in ToSet(s)
  BY <1>1 DEF ToSet
<1>4. ToSet(c) = ToSet(s) \ {s[1]}
  <2>1. ASSUME NEW y \in ToSet(c) PROVE y \in ToSet(s) \ {s[1]}
    <3>1. PICK i \in 1..Len(c) : y = c[i]
      BY <2>1, <1>1 DEF ToSet
    <3>2. i + 1 \in DOMAIN s /\ y = s[i + 1] /\ i + 1 # 1 /\ 1 \in DOMAIN s
      BY <3>1, <1>1
    <3>3. QED BY <3>2 DEF ToSet, IsInjective
  <2>2. ASSUME NEW y \in ToSet(s), y # s[1] PROVE y \in ToSet(c)
    <3>1. PICK i \in 1..Len(s) : y = s[i]
      BY <2>2, <1>1 DEF ToSet
    <3>2. i \in 2..Len(s)
      BY <3>1, <2>2, <1>1
    <3>3. QED BY <3>1, <3>2, <1>2, <1>1 DEF ToSet
  <2>3. QED BY <2>1, <2>2
<1>5. IsInjective(c)
  <2>1. ASSUME NEW i \in DOMAIN c, NEW j \in DOMAIN c, c[i] = c[j]
        PROVE  i = j
    <3>1. i + 1 \in DOMAIN s /\ j + 1 \in DOMAIN s /\ s[i + 1] = s[j + 1]
      BY <2>1, <1>1
    <3>2. i + 1 = j + 1
      BY <3>1 DEF IsInjective
    <3>3. QED BY <3>2, <2>1, <1>1
  <2>2. QED BY <2>1 DEF IsInjective
<1>6. QED BY <1>1, <1>3, <1>4, <1>5 DEF c

\* The empty list.
LEMMA EmptyList ==
  /\ \A S : <<>> \in Seq(S)
  /\ ToSet(<<>>) = {}
  /\ IsInjective(<<>>)
BY DEF ToSet, IsInjective

\* listDelete() of a listed element, wherever it stands.
LEMMA DeleteList ==
  ASSUME NEW S, NEW s \in Seq(S), NEW e, IsInjective(s)
  PROVE  /\ ListDelete(s, e) \in Seq(S)
         /\ ToSet(ListDelete(s, e)) = ToSet(s) \ {e}
         /\ IsInjective(ListDelete(s, e))
<1>1. CASE e \notin ToSet(s)
  BY <1>1 DEF ListDelete
<1>2. CASE e \in ToSet(s)
  <2> DEFINE k == CHOOSE i \in DOMAIN s : s[i] = e
             c == RemoveAt(s, k)
  <2>1. k \in 1..Len(s) /\ s[k] = e /\ DOMAIN s = 1..Len(s) /\ Len(s) \in Nat
    BY <1>2 DEF ToSet
  <2> HIDE DEF k
  <2>2. /\ c \in Seq(S)
        /\ Len(c) = Len(s) - 1
        /\ \A i \in 1..Len(c) : c[i] = IF i < k THEN s[i] ELSE s[i + 1]
    <3> DEFINE l == SubSeq(s, 1, k - 1)
               r == SubSeq(s, k + 1, Len(s))
    <3>1. /\ l \in Seq(S) /\ Len(l) = k - 1
          /\ \A i \in 1..(k - 1) : l[i] = s[i]
      BY <2>1
    <3>2. /\ r \in Seq(S) /\ Len(r) = Len(s) - k
          /\ \A i \in 1..(Len(s) - k) : r[i] = s[k + i]
      <4>1. k + 1 \in Int /\ Len(s) \in Int
        BY <2>1
      <4>2. \A i \in (k + 1)..Len(s) : s[i] \in S
        BY <2>1
      <4>3. /\ r \in Seq(S)
            /\ Len(r) = IF k + 1 <= Len(s) THEN Len(s) - (k + 1) + 1 ELSE 0
            /\ \A i \in 1..(Len(s) - (k + 1) + 1) : r[i] = s[k + 1 + i - 1]
        BY <4>1, <4>2, SubSeqProperties
      <4> HIDE DEF r
      <4>4. Len(r) = Len(s) - k
        <5>1. Len(r) = IF k + 1 <= Len(s) THEN Len(s) - (k + 1) + 1 ELSE 0
          BY <4>3
        <5>2. k \in Int /\ Len(s) \in Int /\ k <= Len(s)
          BY <2>1
        <5>3. QED BY <5>1, <5>2
      <4>5. ASSUME NEW i \in 1..(Len(s) - k) PROVE r[i] = s[k + i]
        <5>1. i \in 1..(Len(s) - (k + 1) + 1) /\ k + 1 + i - 1 = k + i
          BY <2>1
        <5>2. QED BY <4>3, <5>1
      <4>6. QED BY <4>3, <4>4, <4>5
    <3> HIDE DEF l, r
    <3>3. /\ l \o r \in Seq(S)
          /\ Len(l \o r) = Len(s) - 1
          /\ \A i \in 1..(Len(l) + Len(r)) :
               (l \o r)[i] = IF i <= Len(l) THEN l[i] ELSE r[i - Len(l)]
      <4>1. /\ l \o r \in Seq(S)
            /\ Len(l \o r) = Len(l) + Len(r)
            /\ \A i \in 1..(Len(l) + Len(r)) :
                 (l \o r)[i] = IF i <= Len(l) THEN l[i] ELSE r[i - Len(l)]
        BY <3>1, <3>2, ConcatProperties
      <4>2. QED BY <4>1, <3>1, <3>2, <2>1
    <3>4. ASSUME NEW i \in 1..(Len(s) - 1)
          PROVE  (l \o r)[i] = IF i < k THEN s[i] ELSE s[i + 1]
      <4>1. (l \o r)[i] = IF i <= Len(l) THEN l[i] ELSE r[i - Len(l)]
        BY <2>1, <3>1, <3>2, <3>3, <3>4
      <4>2. CASE i < k
        BY <4>1, <4>2, <2>1, <3>1, <3>4
      <4>3. CASE ~(i < k)
        <5>1. i - (k - 1) \in 1..(Len(s) - k) /\ k + (i - (k - 1)) = i + 1
          BY <4>3, <2>1, <3>4
        <5>2. QED BY <4>1, <4>3, <5>1, <3>1, <3>2, <2>1
      <4>4. QED BY <4>2, <4>3
    <3>5. QED BY <3>3, <3>4, <2>1 DEF RemoveAt, l, r
  <2> HIDE DEF c
  <2>3. DOMAIN c = 1..(Len(s) - 1)
    BY <2>1, <2>2
  <2>4. ToSet(c) = ToSet(s) \ {e}
    <3>1. ASSUME NEW y \in ToSet(c) PROVE y \in ToSet(s) \ {e}
      <4>1. PICK i \in 1..(Len(s) - 1) : y = c[i]
        BY <3>1, <2>3 DEF ToSet
      <4>2. PICK j \in 1..Len(s) : j # k /\ y = s[j]
        BY <4>1, <2>1, <2>2
      <4>3. QED BY <4>2, <2>1 DEF ToSet, IsInjective
    <3>2. ASSUME NEW y \in ToSet(s), y # e PROVE y \in ToSet(c)
      <4>1. PICK j \in 1..Len(s) : y = s[j]
        BY <3>2, <2>1 DEF ToSet
      <4>2. j # k
        BY <4>1, <3>2, <2>1
      <4>3. CASE j < k
        <5>1. j \in 1..(Len(s) - 1) /\ c[j] = y
          BY <4>1, <4>3, <2>1, <2>2
        <5>2. QED BY <5>1, <2>3 DEF ToSet
      <4>4. CASE j > k
        <5>1. j - 1 \in 1..(Len(s) - 1) /\ c[j - 1] = y
          BY <4>1, <4>4, <2>1, <2>2
        <5>2. QED BY <5>1, <2>3 DEF ToSet
      <4>5. QED BY <4>2, <4>3, <4>4, <4>1, <2>1
    <3>3. QED BY <3>1, <3>2
  <2>5. IsInjective(c)
    <3>1. ASSUME NEW i \in DOMAIN c, NEW j \in DOMAIN c, c[i] = c[j]
          PROVE  i = j
      <4> DEFINE m(h) == IF h < k THEN h ELSE h + 1
      <4>1. m(i) \in DOMAIN s /\ m(j) \in DOMAIN s /\ s[m(i)] = s[m(j)]
        BY <3>1, <2>1, <2>2, <2>3
      <4>2. m(i) = m(j)
        BY <4>1 DEF IsInjective
      <4>3. QED BY <4>2, <3>1, <2>1, <2>3
    <3>2. QED BY <3>1 DEF IsInjective
  <2>6. ListDelete(s, e) = c
    BY <1>2 DEF ListDelete, c, k
  <2>7. QED BY <2>2, <2>4, <2>5, <2>6
<1>3. QED BY <1>1, <1>2

\* Taking the last element off.
LEMMA FrontList ==
  ASSUME NEW S, NEW s \in Seq(S), s # <<>>, IsInjective(s)
  PROVE  /\ Last(s) \in S /\ Last(s) \in ToSet(s)
         /\ Front(s) \in Seq(S) /\ Len(Front(s)) = Len(s) - 1
         /\ ToSet(Front(s)) = ToSet(s) \ {Last(s)}
         /\ IsInjective(Front(s))
<1> DEFINE c == Front(s)
           n == Len(s)
<1>1. n \in Nat /\ n >= 1 /\ DOMAIN s = 1..n /\ Last(s) = s[n] /\ s[n] \in S
  BY DEF Last
<1>2. c \in Seq(S) /\ Len(c) = n - 1 /\ \A i \in 1..(n - 1) : c[i] = s[i]
  <2>1. \A i \in 1..(n - 1) : s[i] \in S
    BY <1>1
  <2>2. /\ SubSeq(s, 1, n - 1) \in Seq(S)
        /\ Len(SubSeq(s, 1, n - 1)) = IF 1 <= n - 1 THEN n - 1 - 1 + 1 ELSE 0
        /\ \A i \in 1..(n - 1 - 1 + 1) : SubSeq(s, 1, n - 1)[i] = s[1 + i - 1]
    BY <1>1, <2>1, SubSeqProperties
  <2> QED
    BY <1>1, <2>2 DEF Front
<1>3. DOMAIN c = 1..(n - 1)
  BY <1>1, <1>2
<1> HIDE DEF c, n
<1>4. Last(s) \in ToSet(s)
  BY <1>1 DEF ToSet
<1>5. ToSet(c) = ToSet(s) \ {s[n]}
  <2>1. ASSUME NEW y \in ToSet(c) PROVE y \in ToSet(s) \ {s[n]}
    <3>1. PICK i \in 1..(n - 1) : y = s[i]
      BY <1>2, <1>3 DEF ToSet
    <3>2. i \in DOMAIN s /\ n \in DOMAIN s /\ i # n
      BY <1>1
    <3> QED
      BY <3>1, <3>2 DEF ToSet, IsInjective
  <2>2. ASSUME NEW y \in ToSet(s), y # s[n] PROVE y \in ToSet(c)
    <3>1. PICK i \in 1..n : y = s[i]
      BY <1>1 DEF ToSet
    <3>2. i \in 1..(n - 1)
      BY <1>1, <2>2, <3>1
    <3> QED
      BY <1>2, <1>3, <3>1, <3>2 DEF ToSet
  <2> QED
    BY <2>1, <2>2
<1>6. IsInjective(c)
  BY <1>1, <1>2, <1>3 DEF IsInjective
<1> QED
  BY <1>1, <1>2, <1>4, <1>5, <1>6 DEF c, n

\* Two lists, one after the other.
LEMMA ConcatList ==
  ASSUME NEW S, NEW s \in Seq(S), NEW t \in Seq(S)
  PROVE  /\ s \o t \in Seq(S) /\ Len(s \o t) = Len(s) + Len(t)
         /\ ToSet(s \o t) = ToSet(s) \cup ToSet(t)
         /\ IsInjective(s) /\ IsInjective(t) /\ ToSet(s) \cap ToSet(t) = {} => IsInjective(s \o t)
<1> DEFINE c == s \o t
           m == Len(s)
           n == Len(t)
<1>1. m \in Nat /\ n \in Nat /\ DOMAIN s = 1..m /\ DOMAIN t = 1..n
  OBVIOUS
<1>2. /\ c \in Seq(S) /\ Len(c) = m + n
      /\ \A i \in 1..(m + n) : c[i] = IF i <= m THEN s[i] ELSE t[i - m]
  BY ConcatProperties
<1>3. DOMAIN c = 1..(m + n)
  BY <1>1, <1>2
<1> HIDE DEF c, m, n
<1>4. \A i \in 1..m : i \in 1..(m + n) /\ c[i] = s[i]
  BY <1>1, <1>2
<1>5. \A i \in 1..n : m + i \in 1..(m + n) /\ c[m + i] = t[i]
  BY <1>1, <1>2
<1>6. \A i \in 1..(m + n) : (i \in 1..m /\ c[i] = s[i]) \/ (i - m \in 1..n /\ c[i] = t[i - m])
  BY <1>1, <1>2
<1>7. ToSet(c) = ToSet(s) \cup ToSet(t)
  <2>1. ASSUME NEW y \in ToSet(c) PROVE y \in ToSet(s) \cup ToSet(t)
    BY <1>1, <1>3, <1>6 DEF ToSet
  <2>2. ASSUME NEW y \in ToSet(s) PROVE y \in ToSet(c)
    BY <1>1, <1>3, <1>4 DEF ToSet
  <2>3. ASSUME NEW y \in ToSet(t) PROVE y \in ToSet(c)
    <3>1. PICK i \in 1..n : y = t[i]
      BY <1>1 DEF ToSet
    <3>2. m + i \in DOMAIN c /\ c[m + i] = y
      BY <1>3, <1>5, <3>1
    <3> QED
      BY <3>2 DEF ToSet
  <2> QED
    BY <2>1, <2>2, <2>3
<1>8. ASSUME IsInjective(s), IsInjective(t), ToSet(s) \cap ToSet(t) = {}
      PROVE  IsInjective(c)
  <2>1. ASSUME NEW i \in 1..(m + n), NEW j \in 1..(m + n), c[i] = c[j] PROVE i = j
    <3>1. CASE i \in 1..m /\ j \in 1..m
      BY <1>1, <1>4, <1>8, <2>1, <3>1 DEF IsInjective
    <3>2. CASE i - m \in 1..n /\ j - m \in 1..n
      <4>1. t[i - m] = t[j - m]
        BY <1>1, <1>2, <2>1, <3>2
      <4>2. i - m = j - m
        BY <1>1, <1>8, <3>2, <4>1 DEF IsInjective
      <4> QED
        BY <1>1, <4>2
    <3>3. ASSUME NEW k \in 1..m, NEW l \in 1..n PROVE s[k] # t[l]
      BY <1>1, <1>8 DEF ToSet
    <3>4. CASE i \in 1..m /\ j - m \in 1..n
      <4>1. c[i] = s[i] /\ c[j] = t[j - m]
        BY <1>1, <1>2, <3>4
      <4> QED
        BY <2>1, <3>3, <3>4, <4>1
    <3>5. CASE i - m \in 1..n /\ j \in 1..m
      <4>1. c[j] = s[j] /\ c[i] = t[i - m]
        BY <1>1, <1>2, <3>5
      <4> QED
        BY <2>1, <3>3, <3>5, <4>1
    <3> QED
      BY <1>6, <3>1, <3>2, <3>4, <3>5
  <2> QED
    BY <1>3, <2>1 DEF IsInjective
<1> QED
  BY <1>2, <1>7, <1>8 DEF c, m, n

\* The first n elements and the others.
LEMMA SplitList ==
  ASSUME NEW S, NEW s \in Seq(S), IsInjective(s), NEW n \in 0..Len(s)
  PROVE  /\ SubSeq(s, 1, n) \in Seq(S) /\ Len(SubSeq(s, 1, n)) = n
         /\ SubSeq(s, n + 1, Len(s)) \in Seq(S)
         /\ Len(SubSeq(s, n + 1, Len(s))) = Len(s) - n
         /\ IsInjective(SubSeq(s, 1, n)) /\ IsInjective(SubSeq(s, n + 1, Len(s)))
         /\ ToSet(SubSeq(s, n + 1, Len(s))) = ToSet(s) \ ToSet(SubSeq(s, 1, n))
         /\ ToSet(SubSeq(s, 1, n)) \subseteq ToSet(s)
<1> DEFINE l == SubSeq(s, 1, n)
           r == SubSeq(s, n + 1, Len(s))
           k == Len(s)
<1>1. k \in Nat /\ n \in Nat /\ n <= k /\ DOMAIN s = 1..k /\ \A i \in 1..k : s[i] \in S
  OBVIOUS
<1>2. l \in Seq(S) /\ Len(l) = n /\ \A i \in 1..n : l[i] = s[i]
  <2>1. /\ l \in Seq(S) /\ Len(l) = IF 1 <= n THEN n - 1 + 1 ELSE 0
        /\ \A i \in 1..(n - 1 + 1) : l[i] = s[1 + i - 1]
    <3>1. \A i \in 1..n : s[i] \in S
      BY <1>1
    <3> QED
      BY <1>1, <3>1, SubSeqProperties
  <2> QED
    BY <1>1, <2>1
<1>3. r \in Seq(S) /\ Len(r) = k - n /\ \A i \in 1..(k - n) : r[i] = s[n + i]
  <2>1. /\ r \in Seq(S) /\ Len(r) = IF n + 1 <= k THEN k - (n + 1) + 1 ELSE 0
        /\ \A i \in 1..(k - (n + 1) + 1) : r[i] = s[n + 1 + i - 1]
    <3>1. \A i \in (n + 1)..k : s[i] \in S
      BY <1>1
    <3>2. n + 1 \in Int /\ k \in Int
      BY <1>1
    <3> QED
      BY <3>1, <3>2, SubSeqProperties
  <2> HIDE DEF r
  <2>2. Len(r) = k - n
    <3>1. Len(r) = IF n + 1 <= k THEN k - (n + 1) + 1 ELSE 0
      BY <2>1
    <3>2. k \in Int /\ n \in Int /\ n <= k
      BY <1>1
    <3> HIDE DEF k
    <3> QED
      BY <3>1, <3>2
  <2>3. ASSUME NEW i \in 1..(k - n) PROVE r[i] = s[n + i]
    <3>1. i \in 1..(k - (n + 1) + 1) /\ n + 1 + i - 1 = n + i
      BY <1>1
    <3> QED
      BY <2>1, <3>1
  <2> QED
    BY <2>1, <2>2, <2>3
<1> HIDE DEF l, r, k
<1>4. DOMAIN l = 1..n /\ DOMAIN r = 1..(k - n)
  BY <1>2, <1>3, LenProperties
<1>5. \A i \in 1..n : i \in DOMAIN s
  BY <1>1
<1>6. \A i \in 1..(k - n) : n + i \in DOMAIN s /\ ~(n + i \in 1..n)
  BY <1>1
<1>7. IsInjective(l)
  BY <1>2, <1>4, <1>5 DEF IsInjective
<1>8. IsInjective(r)
  <2>1. ASSUME NEW i \in 1..(k - n), NEW j \in 1..(k - n), r[i] = r[j] PROVE i = j
    <3>1. n + i = n + j
      BY <1>3, <1>6, <2>1 DEF IsInjective
    <3> QED
      BY <1>1, <3>1
  <2> QED
    BY <1>4, <2>1 DEF IsInjective
<1>9. ToSet(l) \subseteq ToSet(s)
  BY <1>2, <1>4, <1>5 DEF ToSet
<1>10. ToSet(r) = ToSet(s) \ ToSet(l)
  <2>1. ASSUME NEW y \in ToSet(r) PROVE y \in ToSet(s) \ ToSet(l)
    <3>1. PICK i \in 1..(k - n) : y = s[n + i]
      BY <1>3, <1>4 DEF ToSet
    <3>2. \A j \in 1..n : s[j] # y
      BY <1>5, <1>6, <3>1 DEF IsInjective
    <3> QED
      BY <1>2, <1>4, <1>6, <3>1, <3>2 DEF ToSet
  <2>2. ASSUME NEW y \in ToSet(s), y \notin ToSet(l) PROVE y \in ToSet(r)
    <3>1. PICK i \in 1..k : y = s[i]
      BY <1>1 DEF ToSet
    <3>2. ~(i \in 1..n)
      BY <1>2, <1>4, <2>2, <3>1 DEF ToSet
    <3>3. i - n \in 1..(k - n) /\ n + (i - n) = i
      BY <1>1, <3>2
    <3>4. i - n \in DOMAIN r /\ r[i - n] = y
      BY <1>3, <1>4, <3>1, <3>3
    <3> QED
      BY <3>4 DEF ToSet
  <2> QED
    BY <2>1, <2>2
<1> QED
  BY <1>2, <1>3, <1>7, <1>8, <1>9, <1>10 DEF l, r, k

-----------------------------------------------------------------------------
(* Who stands before whom.                                                 *)

\* A list without repetition is in one order.
LEMMA ListOrder ==
  ASSUME NEW S, NEW s \in Seq(S)
  PROVE  /\ \A x, y : Precedes(x, y, s) => x \in ToSet(s) /\ y \in ToSet(s)
         /\ \A x, y \in ToSet(s) : x = y \/ Precedes(x, y, s) \/ Precedes(y, x, s)
         /\ IsInjective(s) =>
              /\ \A x, y : Precedes(x, y, s) => ~Precedes(y, x, s)
              /\ \A x, y, z : Precedes(x, y, s) /\ Precedes(y, z, s) => Precedes(x, z, s)
<1>1. DOMAIN s = 1..Len(s) /\ Len(s) \in Nat
  OBVIOUS
<1>2. ASSUME NEW x, NEW y, Precedes(x, y, s) PROVE x \in ToSet(s) /\ y \in ToSet(s)
  BY <1>2 DEF Precedes, ToSet
<1>3. ASSUME NEW x \in ToSet(s), NEW y \in ToSet(s), x # y
      PROVE  Precedes(x, y, s) \/ Precedes(y, x, s)
  <2>1. PICK k \in 1..Len(s), l \in 1..Len(s) : x = s[k] /\ y = s[l]
    BY <1>1, <1>3 DEF ToSet
  <2>2. k < l \/ l < k
    BY <1>1, <1>3, <2>1
  <2> QED
    BY <1>1, <2>1, <2>2 DEF Precedes
<1>4. ASSUME IsInjective(s), NEW x, NEW y, Precedes(x, y, s), Precedes(y, x, s) PROVE FALSE
  <2>1. PICK k \in 1..Len(s), l \in 1..Len(s) : k < l /\ s[k] = x /\ s[l] = y
    BY <1>1, <1>4 DEF Precedes
  <2>2. PICK m \in 1..Len(s), n \in 1..Len(s) : m < n /\ s[m] = y /\ s[n] = x
    BY <1>1, <1>4 DEF Precedes
  <2>3. k = n /\ l = m
    BY <1>1, <1>4, <2>1, <2>2 DEF IsInjective
  <2> QED
    BY <1>1, <2>1, <2>2, <2>3
<1>5. ASSUME IsInjective(s), NEW x, NEW y, NEW z, Precedes(x, y, s), Precedes(y, z, s)
      PROVE  Precedes(x, z, s)
  <2>1. PICK k \in 1..Len(s), l \in 1..Len(s) : k < l /\ s[k] = x /\ s[l] = y
    BY <1>1, <1>5 DEF Precedes
  <2>2. PICK m \in 1..Len(s), n \in 1..Len(s) : m < n /\ s[m] = y /\ s[n] = z
    BY <1>1, <1>5 DEF Precedes
  <2>3. l = m
    BY <1>1, <1>5, <2>1, <2>2 DEF IsInjective
  <2>4. k < n
    BY <1>1, <2>1, <2>2, <2>3
  <2> QED
    BY <1>1, <2>1, <2>2, <2>4 DEF Precedes
<1> QED
  BY <1>2, <1>3, <1>4, <1>5

\* c is s with x as the n-th element.
Grown(s, c, x, n) ==
  /\ ToSet(c) = ToSet(s) \cup {x}
  /\ IsInjective(s) /\ x \notin ToSet(s) => IsInjective(c)
  /\ \A y, z : Precedes(y, z, c) <=>
       \/ Precedes(y, z, s)
       \/ z = x /\ \E k \in 1..Len(s) : k < n /\ s[k] = y
       \/ y = x /\ \E k \in 1..Len(s) : k >= n /\ s[k] = z

LEMMA OneMore ==
  ASSUME NEW S, NEW s \in Seq(S), NEW c \in Seq(S), NEW x, NEW n \in 1..Len(c),
         Len(c) = Len(s) + 1, c[n] = x,
         \A i \in 1..Len(s) : (i < n => c[i] = s[i]) /\ (i >= n => c[i + 1] = s[i])
  PROVE  Grown(s, c, x, n)
<1> DEFINE N == Len(s)
           to(i) == IF i < n THEN i ELSE i + 1
           from(i) == IF i < n THEN i ELSE i - 1
<1>1. N \in Nat /\ DOMAIN s = 1..N /\ DOMAIN c = 1..(N + 1) /\ n \in 1..(N + 1)
  OBVIOUS
<1>2. ASSUME NEW i \in 1..N
      PROVE  to(i) \in 1..(N + 1) /\ to(i) # n /\ c[to(i)] = s[i] /\ from(to(i)) = i
  BY <1>1
<1>3. ASSUME NEW i \in 1..(N + 1), i # n
      PROVE  from(i) \in 1..N /\ c[i] = s[from(i)] /\ to(from(i)) = i
  <2>1. from(i) \in 1..N /\ to(from(i)) = i
    BY <1>1, <1>3
  <2> HIDE DEF to, from
  <2>2. c[to(from(i))] = s[from(i)]
    BY <1>2, <2>1
  <2> QED
    BY <2>1, <2>2
<1>4. \A i, j \in 1..N : i < j <=> to(i) < to(j)
  BY <1>1
<1>5. \A i \in 1..N : (to(i) < n <=> i < n) /\ (n < to(i) <=> i >= n)
  BY <1>1
<1> HIDE DEF N, to, from
<1>6. ToSet(c) = ToSet(s) \cup {x}
  <2>1. ASSUME NEW y \in ToSet(c), y # x PROVE y \in ToSet(s)
    <3>1. PICK i \in 1..(N + 1) : y = c[i]
      BY <1>1, <2>1 DEF ToSet
    <3>2. i # n
      BY <2>1, <3>1
    <3>3. from(i) \in 1..N /\ y = s[from(i)]
      BY <1>3, <3>1, <3>2
    <3> QED
      BY <1>1, <3>3 DEF ToSet
  <2>2. ASSUME NEW y \in ToSet(s) PROVE y \in ToSet(c)
    <3>1. PICK i \in 1..N : y = s[i]
      BY <1>1, <2>2 DEF ToSet
    <3>2. to(i) \in 1..(N + 1) /\ y = c[to(i)]
      BY <1>2, <3>1
    <3> QED
      BY <1>1, <3>2 DEF ToSet
  <2>3. x \in ToSet(c)
    BY <1>1 DEF ToSet
  <2> QED
    BY <2>1, <2>2, <2>3
<1>7. ASSUME IsInjective(s), x \notin ToSet(s) PROVE IsInjective(c)
  <2>1. \A i \in 1..N : s[i] # x
    BY <1>1, <1>7 DEF ToSet
  <2>2. ASSUME NEW i \in 1..(N + 1), NEW j \in 1..(N + 1), c[i] = c[j] PROVE i = j
    <3>1. CASE i = n \/ j = n
      BY <1>3, <2>1, <2>2, <3>1
    <3>2. CASE i # n /\ j # n
      <4>1. from(i) = from(j)
        BY <1>1, <1>3, <1>7, <2>2, <3>2 DEF IsInjective
      <4> QED
        BY <1>3, <3>2, <4>1
    <3> QED
      BY <3>1, <3>2
  <2> QED
    BY <1>1, <2>2 DEF IsInjective
<1>8. ASSUME NEW y, NEW z, Precedes(y, z, c)
      PROVE  \/ Precedes(y, z, s)
             \/ z = x /\ \E k \in 1..N : k < n /\ s[k] = y
             \/ y = x /\ \E k \in 1..N : k >= n /\ s[k] = z
  <2>1. PICK k \in 1..(N + 1), l \in 1..(N + 1) : k < l /\ c[k] = y /\ c[l] = z
    BY <1>1, <1>8 DEF Precedes
  <2>2. CASE k = n
    <3>1. l # n
      BY <1>1, <2>1, <2>2
    <3>2. from(l) \in 1..N /\ s[from(l)] = z /\ from(l) >= n
      BY <1>3, <1>5, <2>1, <2>2, <3>1
    <3> QED
      BY <2>1, <2>2, <3>2
  <2>3. CASE l = n
    <3>1. k # n
      BY <1>1, <2>1, <2>3
    <3>2. from(k) \in 1..N /\ s[from(k)] = y /\ from(k) < n
      BY <1>3, <1>5, <2>1, <2>3, <3>1
    <3> QED
      BY <2>1, <2>3, <3>2
  <2>4. CASE k # n /\ l # n
    <3>1. /\ from(k) \in 1..N /\ s[from(k)] = y /\ from(l) \in 1..N /\ s[from(l)] = z
          /\ from(k) < from(l)
      BY <1>3, <1>4, <2>1, <2>4
    <3> QED
      BY <1>1, <3>1 DEF Precedes
  <2> QED
    BY <2>2, <2>3, <2>4
<1>9. ASSUME NEW y, NEW z, Precedes(y, z, s) PROVE Precedes(y, z, c)
  <2>1. PICK k \in 1..N, l \in 1..N : k < l /\ s[k] = y /\ s[l] = z
    BY <1>1, <1>9 DEF Precedes
  <2> QED
    BY <1>1, <1>2, <1>4, <2>1 DEF Precedes
<1>10. ASSUME NEW y, NEW k \in 1..N, k < n, s[k] = y PROVE Precedes(y, x, c)
  BY <1>1, <1>2, <1>5, <1>10 DEF Precedes
<1>11. ASSUME NEW z, NEW k \in 1..N, k >= n, s[k] = z PROVE Precedes(x, z, c)
  BY <1>1, <1>2, <1>5, <1>11 DEF Precedes
<1> QED
  BY <1>6, <1>7, <1>8, <1>9, <1>10, <1>11 DEF N, Grown

\* listAdd() puts an element before all, listAddTail() behind all.
LEMMA ConsOrder ==
  ASSUME NEW S, NEW s \in Seq(S), NEW x \in S
  PROVE  \A y, z : Precedes(y, z, Cons(x, s)) <=>
           Precedes(y, z, s) \/ (y = x /\ z \in ToSet(s))
<1> DEFINE c == Cons(x, s)
<1>1. c \in Seq(S) /\ Len(c) = Len(s) + 1 /\ c[1] = x /\ \A i \in 1..Len(s) : c[i + 1] = s[i]
  BY DEF Cons
<1> HIDE DEF c
<1>2. Grown(s, c, x, 1)
  <2>1. 1 \in 1..Len(c) /\ \A i \in 1..Len(s) : (i < 1 => c[i] = s[i]) /\ (i >= 1 => c[i + 1] = s[i])
    BY <1>1
  <2> QED
    BY <1>1, <2>1, OneMore
<1>3. \A z : z \in ToSet(s) <=> \E k \in 1..Len(s) : k >= 1 /\ s[k] = z
  BY DEF ToSet
<1>4. \A k \in 1..Len(s) : ~(k < 1)
  OBVIOUS
<1> QED
  BY <1>2, <1>3, <1>4 DEF c, Grown

LEMMA AppendOrder ==
  ASSUME NEW S, NEW s \in Seq(S), NEW x \in S
  PROVE  \A y, z : Precedes(y, z, Append(s, x)) <=>
           Precedes(y, z, s) \/ (z = x /\ y \in ToSet(s))
<1> DEFINE c == Append(s, x)
           n == Len(s) + 1
<1>1. c \in Seq(S) /\ Len(c) = Len(s) + 1 /\ c[n] = x /\ \A i \in 1..Len(s) : c[i] = s[i]
  OBVIOUS
<1> HIDE DEF c
<1>2. Grown(s, c, x, n)
  <2>1. n \in 1..Len(c) /\ \A i \in 1..Len(s) : (i < n => c[i] = s[i]) /\ (i >= n => c[i + 1] = s[i])
    BY <1>1
  <2> QED
    BY <1>1, <2>1, OneMore
<1>3. \A y : y \in ToSet(s) <=> \E k \in 1..Len(s) : k < n /\ s[k] = y
  BY DEF ToSet
<1>4. \A k \in 1..Len(s) : ~(k >= n)
  OBVIOUS
<1> QED
  BY <1>2, <1>3, <1>4 DEF c, Grown

\* listAddTail() with the n-th element of the list as its head.
LEMMA InsertOne ==
  ASSUME NEW S, NEW s \in Seq(S), NEW x \in S, NEW n \in 1..Len(s)
  PROVE  InsertAt(s, n, x) \in Seq(S) /\ Grown(s, InsertAt(s, n, x), x, n)
<1> DEFINE N == Len(s)
           l == SubSeq(s, 1, n - 1)
           r == SubSeq(s, n, N)
           c == InsertAt(s, n, x)
<1>1. N \in Nat /\ n \in Nat /\ n >= 1 /\ n <= N /\ DOMAIN s = 1..N /\ \A i \in 1..N : s[i] \in S
  OBVIOUS
<1>2. l \in Seq(S) /\ Len(l) = n - 1 /\ \A i \in 1..(n - 1) : l[i] = s[i]
  <2>1. \A i \in 1..(n - 1) : s[i] \in S
    BY <1>1
  <2>2. /\ l \in Seq(S) /\ Len(l) = IF 1 <= n - 1 THEN n - 1 - 1 + 1 ELSE 0
        /\ \A i \in 1..(n - 1 - 1 + 1) : l[i] = s[1 + i - 1]
    BY <1>1, <2>1, SubSeqProperties
  <2> QED
    BY <1>1, <2>2
<1>3. r \in Seq(S) /\ Len(r) = N - n + 1 /\ \A i \in 1..(N - n + 1) : r[i] = s[n + i - 1]
  <2>1. \A i \in n..N : s[i] \in S
    BY <1>1
  <2>2. n \in Int /\ N \in Int
    BY <1>1
  <2>3. /\ r \in Seq(S) /\ Len(r) = IF n <= N THEN N - n + 1 ELSE 0
        /\ \A i \in 1..(N - n + 1) : r[i] = s[n + i - 1]
    BY <2>1, <2>2, SubSeqProperties
  <2> QED
    BY <1>1, <2>3
<1> DEFINE lx == l \o <<x>>
<1>4. c = lx \o r
  BY DEF InsertAt
<1> HIDE DEF l, r, c
<1>5. lx \in Seq(S) /\ Len(lx) = n /\ lx[n] = x /\ \A i \in 1..(n - 1) : lx[i] = s[i]
  <2>1. <<x>> \in Seq(S) /\ Len(<<x>>) = 1 /\ <<x>>[1] = x
    OBVIOUS
  <2>2. /\ lx \in Seq(S) /\ Len(lx) = Len(l) + 1
        /\ \A i \in 1..(Len(l) + 1) : lx[i] = IF i <= Len(l) THEN l[i] ELSE <<x>>[i - Len(l)]
    BY <1>2, <2>1, ConcatProperties
  <2> QED
    BY <1>1, <1>2, <2>1, <2>2
<1> HIDE DEF lx
<1>6. /\ c \in Seq(S) /\ Len(c) = N + 1
      /\ \A i \in 1..(N + 1) : c[i] = IF i <= n THEN lx[i] ELSE r[i - n]
  <2>1. /\ lx \o r \in Seq(S) /\ Len(lx \o r) = Len(lx) + Len(r)
        /\ \A i \in 1..(Len(lx) + Len(r)) :
             (lx \o r)[i] = IF i <= Len(lx) THEN lx[i] ELSE r[i - Len(lx)]
    BY <1>3, <1>5, ConcatProperties
  <2>2. Len(lx) + Len(r) = N + 1 /\ Len(lx) = n
    BY <1>1, <1>3, <1>5
  <2> QED
    BY <1>4, <2>1, <2>2
<1>7. c[n] = x
  BY <1>1, <1>5, <1>6
<1>8. ASSUME NEW i \in 1..N, i < n PROVE c[i] = s[i]
  <2>1. i \in 1..(n - 1) /\ i \in 1..(N + 1) /\ i <= n
    BY <1>1, <1>8
  <2> QED
    BY <1>5, <1>6, <2>1
<1>9. ASSUME NEW i \in 1..N, i >= n PROVE c[i + 1] = s[i]
  <2>1. i + 1 \in 1..(N + 1) /\ ~(i + 1 <= n) /\ i + 1 - n \in 1..(N - n + 1) /\ n + (i + 1 - n) - 1 = i
    BY <1>1, <1>9
  <2>2. c[i + 1] = r[i + 1 - n]
    BY <1>6, <2>1
  <2>3. r[i + 1 - n] = s[n + (i + 1 - n) - 1]
    BY <1>3, <2>1
  <2> QED
    BY <2>1, <2>2, <2>3
<1>10. c \in Seq(S) /\ n \in 1..Len(c) /\ Len(c) = Len(s) + 1
  BY <1>1, <1>6 DEF N
<1>11. \A i \in 1..Len(s) : (i < n => c[i] = s[i]) /\ (i >= n => c[i + 1] = s[i])
  BY <1>8, <1>9 DEF N
<1>12. Grown(s, c, x, n)
  BY <1>7, <1>10, <1>11, OneMore
<1> QED
  BY <1>10, <1>12 DEF c

\* It puts x before that element.
LEMMA InsertOrder ==
  ASSUME NEW S, NEW s \in Seq(S), NEW x \in S, NEW n \in 1..Len(s),
         IsInjective(s), x \notin ToSet(s)
  PROVE  /\ InsertAt(s, n, x) \in Seq(S)
         /\ ToSet(InsertAt(s, n, x)) = ToSet(s) \cup {x}
         /\ IsInjective(InsertAt(s, n, x))
         /\ \A y, z : x \notin {y, z} => (Precedes(y, z, InsertAt(s, n, x)) <=> Precedes(y, z, s))
         /\ \A y \in S : Precedes(y, x, InsertAt(s, n, x)) <=> Precedes(y, s[n], s)
<1> DEFINE N == Len(s)
           c == InsertAt(s, n, x)
<1>1. N \in Nat /\ n \in 1..N /\ DOMAIN s = 1..N
  OBVIOUS
<1>2. c \in Seq(S) /\ Grown(s, c, x, n)
  BY InsertOne
<1> HIDE DEF c
<1>5. \A y : (\E k \in 1..N : k < n /\ s[k] = y) <=> Precedes(y, s[n], s)
  <2>1. ASSUME NEW y, NEW k \in 1..N, k < n, s[k] = y PROVE Precedes(y, s[n], s)
    BY <1>1, <2>1 DEF Precedes
  <2>2. ASSUME NEW y, Precedes(y, s[n], s) PROVE \E k \in 1..N : k < n /\ s[k] = y
    BY <1>1, <2>2 DEF Precedes, IsInjective
  <2> QED
    BY <2>1, <2>2
<1>6. \A k \in 1..N : s[k] # x
  BY <1>1 DEF ToSet
<1>7. \A y, z : Precedes(y, z, s) => y # x /\ z # x
  BY ListOrder
<1> QED
  BY <1>2, <1>5, <1>6, <1>7 DEF c, Grown

\* The first n elements are those before the next one.
LEMMA SplitOrder ==
  ASSUME NEW S, NEW s \in Seq(S), IsInjective(s), NEW n \in Nat, n < Len(s)
  PROVE  /\ SubSeq(s, n + 1, Len(s)) # <<>>
         /\ Head(SubSeq(s, n + 1, Len(s))) = s[n + 1]
         /\ ToSet(SubSeq(s, 1, n)) = {x \in ToSet(s) : Precedes(x, s[n + 1], s)}
<1> DEFINE N == Len(s)
           l == SubSeq(s, 1, n)
           r == SubSeq(s, n + 1, N)
<1>1. N \in Nat /\ n + 1 \in 1..N /\ DOMAIN s = 1..N /\ \A i \in 1..N : s[i] \in S
  OBVIOUS
<1>2. DOMAIN l = 1..n /\ \A i \in 1..n : l[i] = s[i]
  <2>1. /\ l \in Seq(S) /\ Len(l) = IF 1 <= n THEN n - 1 + 1 ELSE 0
        /\ \A i \in 1..(n - 1 + 1) : l[i] = s[1 + i - 1]
    <3>1. \A i \in 1..n : s[i] \in S
      BY <1>1
    <3> QED
      BY <1>1, <3>1, SubSeqProperties
  <2> HIDE DEF l
  <2>2. Len(l) = n
    BY <1>1, <2>1
  <2> QED
    BY <1>1, <2>1, <2>2
<1>3. r # <<>> /\ Head(r) = s[n + 1]
  <2>1. /\ r \in Seq(S) /\ Len(r) = IF n + 1 <= N THEN N - (n + 1) + 1 ELSE 0
        /\ \A i \in 1..(N - (n + 1) + 1) : r[i] = s[n + 1 + i - 1]
    <3>1. \A i \in (n + 1)..N : s[i] \in S
      BY <1>1
    <3>2. n + 1 \in Int /\ N \in Int
      BY <1>1
    <3> QED
      BY <3>1, <3>2, SubSeqProperties
  <2> HIDE DEF r
  <2>2. Len(r) = N - n /\ 1 \in 1..(N - (n + 1) + 1) /\ n + 1 + 1 - 1 = n + 1 /\ N - n > 0
    <3> HIDE DEF N
    <3> QED
      BY <1>1, <2>1
  <2>3. r[1] = s[n + 1]
    BY <2>1, <2>2
  <2>4. r # <<>>
    BY <2>1, <2>2
  <2> QED
    BY <2>1, <2>3, <2>4
<1> HIDE DEF l, r
<1>4. ASSUME NEW x \in ToSet(l) PROVE x \in ToSet(s) /\ Precedes(x, s[n + 1], s)
  <2>1. PICK i \in 1..n : x = s[i]
    BY <1>2 DEF ToSet
  <2>2. i \in DOMAIN s /\ i < n + 1 /\ n + 1 \in DOMAIN s
    BY <1>1
  <2> QED
    BY <2>1, <2>2 DEF ToSet, Precedes
<1>5. ASSUME NEW x, Precedes(x, s[n + 1], s) PROVE x \in ToSet(l)
  <2>1. PICK i \in 1..N, j \in 1..N : i < j /\ s[i] = x /\ s[j] = s[n + 1]
    BY <1>1, <1>5 DEF Precedes
  <2>2. j = n + 1
    BY <1>1, <2>1 DEF IsInjective
  <2>3. i \in 1..n
    BY <1>1, <2>1, <2>2
  <2> QED
    BY <1>2, <2>1, <2>3 DEF ToSet
<1> QED
  BY <1>3, <1>4, <1>5 DEF l, r, N

\* The place of an element among those of K.
LEMMA Ranks ==
  ASSUME NEW K, K \subseteq Nat, IsFiniteSet(K)
  PROVE  LET rank(k) == Cardinality({j \in K : j <= k})
         IN /\ Cardinality(K) \in Nat
            /\ \A k \in K : rank(k) \in 1..Cardinality(K)
            /\ \A k, l \in K : k < l => rank(k) < rank(l)
            /\ \A i \in 1..Cardinality(K) : \E k \in K : rank(k) = i
<1> DEFINE upTo(k) == {j \in K : j <= k}
           rank(k) == Cardinality(upTo(k))
           m == Cardinality(K)
<1>1. m \in Nat
  BY FS_CardinalityType
<1>2. ASSUME NEW k PROVE IsFiniteSet(upTo(k)) /\ rank(k) <= m /\ rank(k) \in Nat
  <2>1. upTo(k) \in SUBSET K
    OBVIOUS
  <2> HIDE DEF upTo
  <2> QED
    BY <2>1, FS_Subset, FS_CardinalityType
<1>3. ASSUME NEW k \in K PROVE rank(k) \in 1..m
  <2>1. k \in upTo(k)
    OBVIOUS
  <2> HIDE DEF upTo
  <2>2. rank(k) # 0
    BY <1>2, <2>1, FS_EmptySet
  <2> QED
    BY <1>1, <1>2, <2>2
<1>4. ASSUME NEW k \in K, NEW l \in K, k < l PROVE rank(k) < rank(l)
  <2>1. l \notin upTo(k) /\ upTo(k) \cup {l} \in SUBSET upTo(l)
    <3>1. k \in Nat /\ l \in Nat /\ \A j \in K : j \in Nat
      OBVIOUS
    <3>2. l \notin upTo(k) /\ l \in upTo(l)
      BY <1>4, <3>1
    <3>3. \A j \in upTo(k) : j \in upTo(l)
      BY <1>4, <3>1
    <3> HIDE DEF upTo
    <3> QED
      BY <3>2, <3>3
  <2> HIDE DEF upTo
  <2>2. Cardinality(upTo(k) \cup {l}) = rank(k) + 1
    BY <1>2, <2>1, FS_AddElement
  <2>3. Cardinality(upTo(k) \cup {l}) <= rank(l)
    BY <1>2, <2>1, FS_Subset
  <2>4. rank(k) \in Nat /\ rank(l) \in Nat
    BY <1>2
  <2> QED
    BY <2>2, <2>3, <2>4
<1> DEFINE f == [k \in K |-> rank(k)]
<1> HIDE DEF upTo
<1>5. f \in Surjection(K, 1..m)
  <2>1. f \in Injection(K, 1..m)
    <3>1. f \in [K -> 1..m]
      BY <1>3
    <3>2. ASSUME NEW k \in K, NEW l \in K, f[k] = f[l] PROVE k = l
      <4>1. rank(k) = rank(l) /\ rank(k) \in Nat
        BY <1>2, <3>2
      <4>2. ~(k < l) /\ ~(l < k)
        BY <1>4, <4>1
      <4> QED
        BY <4>2
    <3> QED
      BY <3>1, <3>2 DEF Injection, IsInjective
  <2>2. IsFiniteSet(1..m) /\ Cardinality(1..m) = m
    BY <1>1, FS_Interval
  <2> HIDE DEF f
  <2> QED
    BY <2>1, <2>2, FS_Injection
<1>6. ASSUME NEW i \in 1..m PROVE \E k \in K : rank(k) = i
  <2>1. \E k \in K : f[k] = i
    BY <1>5 DEF Surjection
  <2> QED
    BY <2>1
<1> QED
  BY <1>1, <1>3, <1>4, <1>6 DEF upTo

\* Deleting the elements of S leaves the others, in their order.
LEMMA WithoutList ==
  ASSUME NEW T, NEW s \in Seq(T), NEW S
  PROVE  /\ Without(s, S) \in Seq(T)
         /\ ToSet(Without(s, S)) = ToSet(s) \ S
         /\ IsInjective(s) => IsInjective(Without(s, S))
         /\ \A x, y : Precedes(x, y, Without(s, S)) <=>
                        Precedes(x, y, s) /\ x \notin S /\ y \notin S
<1> DEFINE K == {k \in DOMAIN s : s[k] \notin S}
           rank(k) == Cardinality({j \in K : j <= k})
           m == Cardinality(K)
           at(i) == CHOOSE k \in K : rank(k) = i
           w == Without(s, S)
<1>1. DOMAIN s = 1..Len(s) /\ Len(s) \in Nat /\ \A i \in 1..Len(s) : s[i] \in T
  OBVIOUS
<1>2. K \subseteq Nat /\ IsFiniteSet(K)
  <2>1. K \in SUBSET (1..Len(s)) /\ IsFiniteSet(1..Len(s))
    BY <1>1, FS_Interval
  <2> QED
    BY <1>1, <2>1, FS_Subset
<1>3. \A k \in K : k \in Nat /\ k \in 1..Len(s) /\ s[k] \notin S
  BY <1>1
<1>4. \A k \in 1..Len(s) : s[k] \notin S => k \in K
  BY <1>1
<1>5. w = [i \in 1..m |-> s[at(i)]]
  BY DEF Without
<1> HIDE DEF K, w
<1>6. /\ m \in Nat
      /\ \A k \in K : rank(k) \in 1..m
      /\ \A k, l \in K : k < l => rank(k) < rank(l)
      /\ \A i \in 1..m : \E k \in K : rank(k) = i
  BY <1>2, Ranks
<1>7. \A i \in 1..m : at(i) \in K /\ rank(at(i)) = i
  BY <1>6
<1> HIDE DEF rank, at, m
<1>8. \A i, j \in 1..m : i < j => at(i) < at(j)
  <2>1. ASSUME NEW i \in 1..m, NEW j \in 1..m, i < j PROVE at(i) < at(j)
    <3>1. at(i) \in Nat /\ at(j) \in Nat /\ at(i) # at(j)
      BY <1>3, <1>7, <2>1
    <3>2. ~(at(j) < at(i))
      BY <1>6, <1>7, <2>1
    <3> QED
      BY <3>1, <3>2
  <2> QED
    BY <2>1
<1>9. ASSUME NEW k \in K PROVE rank(k) \in 1..m /\ at(rank(k)) = k
  <2>1. rank(k) \in 1..m /\ at(rank(k)) \in K /\ rank(at(rank(k))) = rank(k)
    BY <1>6, <1>7
  <2>2. rank(k) \in Nat /\ k \in Nat /\ at(rank(k)) \in Nat
    BY <1>3, <1>6, <2>1
  <2>3. ~(k < at(rank(k))) /\ ~(at(rank(k)) < k)
    BY <1>6, <2>1, <2>2
  <2> QED
    BY <2>1, <2>2, <2>3
<1>10. DOMAIN w = 1..m /\ \A i \in 1..m : at(i) \in 1..Len(s) /\ w[i] = s[at(i)] /\ w[i] \notin S
  BY <1>3, <1>5, <1>7
<1>11. w \in Seq(T)
  BY <1>1, <1>5, <1>6, <1>10
<1>12. ToSet(w) = ToSet(s) \ S
  <2>1. ASSUME NEW x \in ToSet(w) PROVE x \in ToSet(s) \ S
    BY <1>1, <1>10 DEF ToSet
  <2>2. ASSUME NEW x \in ToSet(s), x \notin S PROVE x \in ToSet(w)
    <3>1. PICK k \in 1..Len(s) : x = s[k]
      BY <1>1 DEF ToSet
    <3>2. k \in K
      BY <1>4, <2>2, <3>1
    <3>3. rank(k) \in 1..m /\ w[rank(k)] = x
      BY <1>9, <1>10, <3>1, <3>2
    <3> QED
      BY <1>10, <3>3 DEF ToSet
  <2> QED
    BY <2>1, <2>2
<1>13. ASSUME IsInjective(s) PROVE IsInjective(w)
  <2>1. ASSUME NEW i \in 1..m, NEW j \in 1..m, w[i] = w[j] PROVE i = j
    <3>1. at(i) = at(j)
      BY <1>1, <1>10, <1>13, <2>1 DEF IsInjective
    <3> QED
      BY <1>7, <3>1
  <2> QED
    BY <1>10, <2>1 DEF IsInjective
<1>14. ASSUME NEW x, NEW y, Precedes(x, y, w) PROVE Precedes(x, y, s) /\ x \notin S /\ y \notin S
  <2>1. PICK i \in 1..m, j \in 1..m : i < j /\ w[i] = x /\ w[j] = y
    BY <1>10, <1>14 DEF Precedes
  <2> QED
    BY <1>1, <1>8, <1>10, <2>1 DEF Precedes
<1>15. ASSUME NEW x, NEW y, Precedes(x, y, s), x \notin S, y \notin S PROVE Precedes(x, y, w)
  <2>1. PICK k \in 1..Len(s), l \in 1..Len(s) : k < l /\ s[k] = x /\ s[l] = y
    BY <1>1, <1>15 DEF Precedes
  <2>2. k \in K /\ l \in K
    BY <1>4, <1>15, <2>1
  <2>3. rank(k) \in 1..m /\ rank(l) \in 1..m /\ rank(k) < rank(l)
    BY <1>6, <2>1, <2>2
  <2>4. w[rank(k)] = x /\ w[rank(l)] = y
    BY <1>9, <1>10, <2>1, <2>2
  <2> QED
    BY <1>10, <2>3, <2>4 DEF Precedes
<1> QED
  BY <1>11, <1>12, <1>13, <1>14, <1>15 DEF w

=============================================================================
