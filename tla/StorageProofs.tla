----------------------------- MODULE StorageProofs -----------------------------
(***************************************************************************)
(* What holds of the two stores of the kernel: the pages of the buddy      *)
(* system, and the drives behind the page cache.                           *)
(*                                                                         *)
(* The buddy system, for any number of pages, of orders and of tasks,      *)
(* whichever pages are usable: the blocks are apart and no page is lost,   *)
(* no two free buddies are left unmerged, and who is refused a block could *)
(* not have been served.  Sizes are powers of two.  All that the proofs    *)
(* need of them is that each is twice the one before, which makes of two   *)
(* blocks with a page in common one a part of the other.                   *)
(*                                                                         *)
(* The drives, for any number of tasks, drives of either kind and files:   *)
(* a drive works for the task that has its channel, and what a read        *)
(* reports is true, but for the reads that the model marks as doubtful.    *)
(***************************************************************************)
EXTENDS Buddy, Disk, ListLemmas, FiniteSetTheorems, WellFoundedInduction

-----------------------------------------------------------------------------
(* Numbers.                                                                *)

\* The numbers below another are well-founded: a set of them has a least one.
Below(R) == \A x, y \in Nat : <<x, y>> \in R <=> x < y

LEMMA LeastIn ==
  ASSUME NEW S, S \subseteq Nat, S # {}
  PROVE  \E x \in S : \A y \in S : x <= y
<1>1. \E R : IsWellFoundedOn(R, Nat) /\ Below(R)
  <2> DEFINE Q == OpToRel(<, Nat)
  <2>1. IsWellFoundedOn(Q, Nat)
    BY NatLessThanWellFounded
  <2>2. \A x, y \in Nat : <<x, y>> \in Q <=> x < y
    BY DEF OpToRel
  <2> QED
    BY <2>1, <2>2 DEF Below
<1>2. PICK R : IsWellFoundedOn(R, Nat) /\ Below(R)
  BY <1>1
<1>3. IsWellFoundedOn(R, Nat)
  BY <1>2
<1>4. \E x \in S : \A y \in S : ~ (<<y, x>> \in R)
  BY <1>3, WFMin
<1>5. PICK x \in S : \A y \in S : ~ (<<y, x>> \in R)
  BY <1>4
<1>6. ASSUME NEW y \in S PROVE x <= y
  <2>1. x \in Nat /\ y \in Nat
    OBVIOUS
  <2>2. ~(y < x)
    BY <1>2, <1>5, <2>1 DEF Below
  <2> QED
    BY <2>1, <2>2
<1> QED
  BY <1>6

\* Multiples.
LEMMA Multiple ==
  ASSUME NEW s \in Nat \ {0}, NEW k \in Nat
  PROVE  k * s \in Nat /\ (k * s) % s = 0 /\ (k * s) \div s = k
OBVIOUS

LEMMA Quotient ==
  ASSUME NEW s \in Nat \ {0}, NEW p \in Nat, p % s = 0
  PROVE  p \div s \in Nat /\ p = (p \div s) * s
<1>1. p = ((p \div s) * s) + (p % s)
  OBVIOUS
<1>2. p \div s \in Nat
  OBVIOUS
<1> QED
  BY <1>1, <1>2

\* Two multiples that are not the same are apart.
LEMMA Apart ==
  ASSUME NEW s \in Nat \ {0}, NEW a \in Nat, NEW b \in Nat, a * s < b * s
  PROVE  a * s + s <= b * s
<1>1. a < b
  OBVIOUS
<1> QED
  BY <1>1

-----------------------------------------------------------------------------
(* Blocks.                                                                 *)

\* What the definition of Size says of a function.
Doubling(f, n) == \A o \in 0..n : f[o] = IF o = 0 THEN 1 ELSE 2 * f[o - 1]

LEMMA DoublingExists ==
  ASSUME NEW n \in Nat
  PROVE  \E f \in [0..n -> Nat] : Doubling(f, n)
<1> DEFINE Fails == {m \in Nat : ~ \E f \in [0..m -> Nat] : Doubling(f, m)}
<1>1. SUFFICES ASSUME n \in Fails PROVE FALSE
  OBVIOUS
<1>2. PICK m \in Fails : \A k \in Fails : m <= k
  BY <1>1, LeastIn
<1>3. m \in Nat /\ ~ \E f \in [0..m -> Nat] : Doubling(f, m)
  OBVIOUS
<1>4. CASE m = 0
  <2> DEFINE g == [o \in 0..0 |-> 1]
  <2>1. g \in [0..0 -> Nat] /\ Doubling(g, 0)
    BY DEF Doubling
  <2> QED
    BY <1>3, <1>4, <2>1
<1>5. CASE m # 0
  <2>1. m - 1 \in Nat /\ m - 1 \notin Fails
    <3>1. m - 1 \in Nat /\ ~(m <= m - 1)
      BY <1>3, <1>5
    <3>2. \A k \in Fails : m <= k
      BY <1>2
    <3> HIDE DEF Fails
    <3> QED
      BY <3>1, <3>2
  <2>2. PICK f \in [0..m - 1 -> Nat] : Doubling(f, m - 1)
    BY <2>1
  <2> DEFINE g == [o \in 0..m |-> IF o = m THEN 2 * f[m - 1] ELSE f[o]]
  <2>3. g \in [0..m -> Nat]
    BY <2>1
  <2>4. ASSUME NEW o \in 0..m PROVE g[o] = IF o = 0 THEN 1 ELSE 2 * g[o - 1]
    <3>1. CASE o = m
      BY <1>3, <1>5, <2>1, <3>1
    <3>2. CASE o # m
      <4>1. o \in 0..m - 1 /\ (o # 0 => o - 1 \in 0..m - 1)
        BY <1>3, <3>2
      <4>2. f[o] = IF o = 0 THEN 1 ELSE 2 * f[o - 1]
        BY <2>2, <4>1 DEF Doubling
      <4> QED
        BY <1>3, <3>2, <4>1, <4>2
    <3> QED
      BY <3>1, <3>2
  <2>5. Doubling(g, m)
    BY <2>4 DEF Doubling
  <2> HIDE DEF g
  <2> QED
    BY <1>3, <2>3, <2>5
<1> QED
  BY <1>4, <1>5

LEMMA SizeDoubles == Size \in [Order -> Nat] /\ Doubling(Size, Top)
<1> DEFINE Body(f) == [o \in Order |-> IF o = 0 THEN 1 ELSE 2 * f[o - 1]]
<1>1. PICK f \in [Order -> Nat] : Doubling(f, Top)
  BY DoublingExists, BuddyAssumption DEF Order
<1>2. f = Body(f)
  BY <1>1 DEF Doubling, Order
<1>3. Size = CHOOSE g : g = Body(g)
  BY DEF Size
<1> HIDE DEF Body
<1>4. Size = Body(Size)
  BY <1>2, <1>3
<1>5. DOMAIN Size = Order /\ \A o \in Order : Size[o] = IF o = 0 THEN 1 ELSE 2 * Size[o - 1]
  BY <1>4 DEF Body
<1>6. Doubling(Size, Top)
  BY <1>5 DEF Doubling, Order
<1>7. \A o \in Order : Size[o] = f[o]
  <2> DEFINE Differ == {o \in Order : Size[o] # f[o]}
  <2>1. SUFFICES ASSUME Differ # {} PROVE FALSE
    OBVIOUS
  <2>2. Differ \subseteq Nat
    BY BuddyAssumption DEF Order
  <2>3. PICK m \in Differ : \A k \in Differ : m <= k
    BY <2>1, <2>2, LeastIn
  <2>4. m \in Order /\ Size[m] # f[m] /\ m \in Nat
    BY <2>2
  <2>5. m # 0
    BY <1>1, <1>6, <2>4 DEF Doubling, Order
  <2>6. m - 1 \in Order /\ m - 1 \notin Differ
    BY <2>3, <2>4, <2>5, BuddyAssumption DEF Order
  <2>7. Size[m - 1] = f[m - 1]
    BY <2>6
  <2> QED
    BY <1>1, <1>6, <2>4, <2>5, <2>7 DEF Doubling, Order
<1>8. Size = [o \in Order |-> Size[o]]
  BY <1>4 DEF Body
<1> QED
  BY <1>5, <1>6, <1>7, <1>8

LEMMA SizeFacts ==
  /\ \A o \in Order : o \in Nat /\ Size[o] \in Nat \ {0}
  /\ \A o \in Order : o # 0 => o - 1 \in Order /\ Size[o] = 2 * Size[o - 1]
  /\ \A o \in Order : o < Top => o + 1 \in Order /\ Size[o + 1] = 2 * Size[o]
<1>1. \A o \in Order : o \in Nat /\ Size[o] \in Nat /\ (o # 0 => o - 1 \in Order)
  BY SizeDoubles, BuddyAssumption DEF Order
<1>2. \A o \in Order : Size[o] = IF o = 0 THEN 1 ELSE 2 * Size[o - 1]
  BY SizeDoubles DEF Doubling, Order
<1>3. \A o \in Order : Size[o] # 0
  <2> DEFINE Zero == {o \in Order : Size[o] = 0}
  <2>1. SUFFICES ASSUME Zero # {} PROVE FALSE
    OBVIOUS
  <2>2. Zero \subseteq Nat
    BY <1>1
  <2>3. PICK m \in Zero : \A k \in Zero : m <= k
    BY <2>1, <2>2, LeastIn
  <2>4. m \in Order /\ Size[m] = 0 /\ m \in Nat
    BY <2>2
  <2>5. m # 0
    BY <1>2, <2>4
  <2>6. m - 1 \in Order /\ m - 1 \notin Zero
    BY <1>1, <2>3, <2>4, <2>5
  <2> QED
    BY <1>1, <1>2, <2>4, <2>5, <2>6
<1>4. \A o \in Order : o < Top => o + 1 \in Order /\ o + 1 # 0 /\ (o + 1) - 1 = o
  BY BuddyAssumption DEF Order
<1> QED
  BY <1>1, <1>2, <1>3, <1>4

\* A block is made of whole blocks of every order below its own.
LEMMA SizeDivides ==
  ASSUME NEW o \in Order, NEW q \in Order, o <= q
  PROVE  \E m \in Nat \ {0} : Size[q] = m * Size[o]
<1> DEFINE Fails == {r \in Order : o <= r /\ ~ \E m \in Nat \ {0} : Size[r] = m * Size[o]}
<1>1. SUFFICES ASSUME Fails # {} PROVE FALSE
  OBVIOUS
<1>2. Fails \subseteq Nat
  BY SizeFacts
<1>3. PICK r \in Fails : \A k \in Fails : r <= k
  BY <1>1, <1>2, LeastIn
<1>4. r \in Order /\ o <= r /\ r \in Nat /\ o \in Nat
  BY SizeFacts
<1>5. r # o
  <2>1. Size[o] = 1 * Size[o]
    BY SizeFacts
  <2> QED
    BY <2>1
<1>6. r # 0 /\ o <= r - 1 /\ r - 1 \in Order
  BY <1>4, <1>5, SizeFacts
<1>7. r - 1 \notin Fails
  BY <1>3, <1>4
<1>8. PICK m \in Nat \ {0} : Size[r - 1] = m * Size[o]
  BY <1>6, <1>7
<1>9. Size[r] = (2 * m) * Size[o]
  <2>1. Size[r] = 2 * Size[r - 1] /\ Size[o] \in Nat
    BY <1>4, <1>6, SizeFacts
  <2> QED
    BY <1>8, <2>1
<1> QED
  BY <1>9

LEMMA SizeGrows ==
  ASSUME NEW o \in Order, NEW q \in Order, o <= q
  PROVE  Size[o] <= Size[q]
<1>1. PICK m \in Nat \ {0} : Size[q] = m * Size[o]
  BY SizeDivides
<1>2. Size[o] \in Nat /\ 1 * Size[o] <= m * Size[o]
  BY SizeFacts
<1> QED
  BY <1>1, <1>2

LEMMA AlignedMultiple ==
  ASSUME NEW p \in Nat, NEW o \in Order
  PROVE  Aligned(p, o) <=> \E k \in Nat : p = k * Size[o]
<1>1. Size[o] \in Nat \ {0}
  BY SizeFacts
<1>2. ASSUME Aligned(p, o) PROVE \E k \in Nat : p = k * Size[o]
  <2>1. p % Size[o] = 0
    BY <1>2 DEF Aligned
  <2>2. p \div Size[o] \in Nat /\ p = (p \div Size[o]) * Size[o]
    BY <1>1, <2>1, Quotient
  <2> QED
    BY <2>2
<1>3. ASSUME NEW k \in Nat, p = k * Size[o] PROVE Aligned(p, o)
  <2>1. (k * Size[o]) % Size[o] = 0
    BY <1>1, Multiple
  <2> QED
    BY <1>3, <2>1 DEF Aligned
<1> QED
  BY <1>2, <1>3

\* A multiple of a block's size is one of every smaller block's size, and so is
\* the page after the block.
LEMMA AlignedBelow ==
  ASSUME NEW p \in Nat, NEW o \in Order, NEW q \in Order, o <= q, Aligned(p, q)
  PROVE  Aligned(p, o) /\ Aligned(p + Size[q], o) /\ p + Size[q] \in Nat
<1>1. PICK m \in Nat \ {0} : Size[q] = m * Size[o]
  BY SizeDivides
<1>2. PICK k \in Nat : p = k * Size[q]
  BY AlignedMultiple
<1>3. Size[o] \in Nat
  BY SizeFacts
<1>4. p = (k * m) * Size[o] /\ p + Size[q] = (k * m + m) * Size[o]
  BY <1>1, <1>2, <1>3
<1>5. k * m \in Nat /\ k * m + m \in Nat
  OBVIOUS
<1>6. p + Size[q] \in Nat
  BY SizeFacts
<1> QED
  BY <1>4, <1>5, <1>6, AlignedMultiple

LEMMA AlignedApart ==
  ASSUME NEW p \in Nat, NEW r \in Nat, NEW o \in Order, Aligned(p, o), Aligned(r, o), p < r
  PROVE  p + Size[o] <= r
<1>1. PICK a \in Nat : p = a * Size[o]
  BY AlignedMultiple
<1>2. PICK b \in Nat : r = b * Size[o]
  BY AlignedMultiple
<1>3. Size[o] \in Nat \ {0} /\ a * Size[o] < b * Size[o]
  BY <1>1, <1>2, SizeFacts
<1>4. a * Size[o] + Size[o] <= b * Size[o]
  BY <1>3, Apart
<1> QED
  BY <1>1, <1>2, <1>4

\* Two blocks with a page in common: the smaller one is inside the other.
LEMMA Nested ==
  ASSUME NEW p \in Nat, NEW o \in Order, Aligned(p, o),
         NEW h \in Nat, NEW q \in Order, Aligned(h, q), o <= q,
         NEW x, x \in BlockPages(p, o), x \in BlockPages(h, q)
  PROVE  /\ h <= p /\ p + Size[o] <= h + Size[q]
         /\ BlockPages(p, o) \subseteq BlockPages(h, q)
<1>1. Aligned(h, o) /\ Aligned(h + Size[q], o) /\ h + Size[q] \in Nat
  BY AlignedBelow
<1>2. Size[o] \in Nat \ {0} /\ Size[q] \in Nat \ {0}
  BY SizeFacts
<1>3. x \in Int /\ p <= x /\ x < p + Size[o] /\ h <= x /\ x < h + Size[q]
  BY <1>2 DEF BlockPages
<1>4. h <= p
  <2>1. SUFFICES ASSUME p < h PROVE FALSE
    OBVIOUS
  <2>2. p + Size[o] <= h
    BY <1>1, <2>1, AlignedApart
  <2> QED
    BY <1>2, <1>3, <2>2
<1>5. p < h + Size[q]
  BY <1>1, <1>3
<1>6. p + Size[o] <= h + Size[q]
  BY <1>1, <1>5, AlignedApart
<1> QED
  BY <1>1, <1>2, <1>4, <1>6 DEF BlockPages

\* ... and two of the same order are the same.
LEMMA SameBlock ==
  ASSUME NEW p \in Nat, NEW h \in Nat, NEW o \in Order, Aligned(p, o), Aligned(h, o),
         NEW x, x \in BlockPages(p, o), x \in BlockPages(h, o)
  PROVE  p = h
<1>1. o <= o /\ Size[o] \in Nat
  BY SizeFacts
<1>2. h <= p
  BY <1>1, Nested
<1>3. p <= h
  BY <1>1, Nested
<1> QED
  BY <1>2, <1>3

LEMMA OwnPage ==
  ASSUME NEW p \in Nat, NEW o \in Order
  PROVE  p \in BlockPages(p, o) /\ BlockPages(p, o) \subseteq Nat
BY SizeFacts DEF BlockPages

LEMMA PagesExist ==
  ASSUME NEW p \in PageIndex, NEW o \in Order, Aligned(p, o)
  PROVE  BlockPages(p, o) \subseteq PageIndex
<1>1. Top \in Order /\ o <= Top /\ PageCount \in Nat /\ Aligned(PageCount, Top)
  BY BuddyAssumption DEF Order
<1>2. Aligned(PageCount, o)
  BY <1>1, AlignedBelow
<1>3. p \in Nat /\ p < PageCount
  BY <1>1 DEF PageIndex
<1>4. p + Size[o] <= PageCount
  BY <1>1, <1>2, <1>3, AlignedApart
<1> QED
  BY <1>1, <1>3, <1>4, SizeFacts DEF BlockPages, PageIndex

\* The two halves of a block.
LEMMA Halves ==
  ASSUME NEW p \in Nat, NEW o \in Order, o < Top
  PROVE  /\ o + 1 \in Order /\ p + Size[o] \in Nat
         /\ BlockPages(p, o + 1) = BlockPages(p, o) \cup BlockPages(p + Size[o], o)
         /\ BlockPages(p, o) \cap BlockPages(p + Size[o], o) = {}
         /\ Aligned(p, o + 1) => Aligned(p, o) /\ Aligned(p + Size[o], o)
<1>1. Size[o] \in Nat \ {0} /\ o + 1 \in Order /\ Size[o + 1] = 2 * Size[o] /\ o \in Nat
  BY SizeFacts
<1>2. ASSUME Aligned(p, o + 1) PROVE Aligned(p, o) /\ Aligned(p + Size[o], o)
  <2>1. Aligned(p, o)
    BY <1>1, <1>2, AlignedBelow
  <2>2. PICK k \in Nat : p = k * Size[o]
    BY <2>1, AlignedMultiple
  <2>3. p + Size[o] = (k + 1) * Size[o]
    BY <1>1, <2>2
  <2> QED
    BY <1>1, <2>1, <2>3, AlignedMultiple
<1> QED
  BY <1>1, <1>2 DEF BlockPages

LEMMA BuddyFacts ==
  ASSUME NEW p \in Nat, NEW o \in Order, o < Top, Aligned(p, o)
  PROVE  /\ BuddyOf(p, o) \in Nat /\ Aligned(BuddyOf(p, o), o)
         /\ BuddyOf(p, o) # p /\ BuddyOf(BuddyOf(p, o), o) = p
         /\ LET m == IF BuddyOf(p, o) < p THEN BuddyOf(p, o) ELSE p IN
              /\ Aligned(m, o + 1)
              /\ BlockPages(m, o + 1) = BlockPages(p, o) \cup BlockPages(BuddyOf(p, o), o)
<1> DEFINE s == Size[o]
           k == p \div s
           b == BuddyOf(p, o)
<1>1. s \in Nat \ {0} /\ o + 1 \in Order /\ Size[o + 1] = 2 * s
  BY SizeFacts
<1>2. p % s = 0
  BY DEF Aligned
<1>3. k \in Nat /\ p = k * s
  BY <1>1, <1>2, Quotient
<1>4. CASE k % 2 = 0
  <2>1. b = p + s
    BY <1>4 DEF BuddyOf
  <2>2. b = (k + 1) * s /\ k + 1 \in Nat
    <3> HIDE DEF s, k, b
    <3> QED
      BY <1>1, <1>3, <2>1
  <2>3. b \div s = k + 1
    <3> HIDE DEF s, k, b
    <3> QED
      BY <1>1, <2>2, Multiple
  <2>4. (k + 1) % 2 # 0
    BY <1>3, <1>4
  <2>5. BuddyOf(b, o) = b - s
    BY <2>3, <2>4 DEF BuddyOf
  <2>6. PICK j \in Nat : k = j * 2
    <3> HIDE DEF k
    <3>1. k \div 2 \in Nat /\ k = (k \div 2) * 2
      BY <1>3, <1>4, Quotient
    <3> QED
      BY <3>1
  <2>7. p = j * (2 * s)
    BY <1>1, <1>3, <2>6
  <2>8. Aligned(p, o + 1)
    BY <1>1, <2>7, AlignedMultiple
  <2>9. Aligned(b, o) /\ b \in Nat
    BY <1>1, <1>3, <2>1, <2>2, AlignedMultiple
  <2>10. ~(b < p) /\ b # p /\ b - s = p
    BY <1>1, <2>1
  <2>11. BlockPages(p, o + 1) = BlockPages(p, o) \cup BlockPages(b, o)
    BY <2>1, Halves
  <2> QED
    BY <2>5, <2>8, <2>9, <2>10, <2>11
<1>5. CASE k % 2 # 0
  <2>1. b = p - s
    BY <1>5 DEF BuddyOf
  <2>2. k # 0
    BY <1>5
  <2>3. b = (k - 1) * s /\ k - 1 \in Nat
    BY <1>1, <1>3, <2>1, <2>2
  <2>4. b \div s = k - 1
    <3> HIDE DEF s, k, b
    <3> QED
      BY <1>1, <2>3, Multiple
  <2>5. (k - 1) % 2 = 0
    BY <1>3, <1>5
  <2>6. BuddyOf(b, o) = b + s
    BY <2>4, <2>5 DEF BuddyOf
  <2>7. PICK j \in Nat : k - 1 = j * 2
    <3> HIDE DEF k
    <3>1. (k - 1) \div 2 \in Nat /\ k - 1 = ((k - 1) \div 2) * 2
      BY <2>3, <2>5, Quotient
    <3> QED
      BY <3>1
  <2>8. b = j * (2 * s)
    BY <1>1, <2>3, <2>7
  <2>9. b \in Nat /\ Aligned(b, o)
    <3> HIDE DEF b
    <3>1. b \in Nat
      BY <1>1, <2>3
    <3> QED
      BY <3>1, <2>3, AlignedMultiple
  <2>10. Aligned(b, o + 1)
    BY <1>1, <2>8, <2>9, AlignedMultiple
  <2>11. b < p /\ b + s = p
    BY <1>1, <2>1, <2>9
  <2>12. BlockPages(b, o + 1) = BlockPages(b, o) \cup BlockPages(p, o)
    BY <2>9, <2>11, Halves
  <2> QED
    BY <2>6, <2>9, <2>10, <2>11, <2>12
<1> QED
  BY <1>4, <1>5

\* A block that is inside a larger one is there together with its buddy.
LEMMA BuddyInside ==
  ASSUME NEW p \in Nat, NEW o \in Order, Aligned(p, o),
         NEW h \in Nat, NEW q \in Order, Aligned(h, q), o < q,
         p \in BlockPages(h, q)
  PROVE  /\ o < Top
         /\ BlockPages(p, o) \subseteq BlockPages(h, q)
         /\ BlockPages(BuddyOf(p, o), o) \subseteq BlockPages(h, q)
<1> DEFINE b == BuddyOf(p, o)
           m == IF b < p THEN b ELSE p
<1>1. o < Top /\ o + 1 \in Order /\ o + 1 <= q /\ o \in Nat /\ q \in Nat
  BY SizeFacts, BuddyAssumption DEF Order
<1>2. /\ b \in Nat /\ Aligned(m, o + 1)
      /\ BlockPages(m, o + 1) = BlockPages(p, o) \cup BlockPages(b, o)
  BY <1>1, BuddyFacts
<1>3. m \in Nat
  BY <1>2
<1>4. p \in BlockPages(m, o + 1)
  BY <1>2, OwnPage
<1> HIDE DEF m
<1>5. BlockPages(m, o + 1) \subseteq BlockPages(h, q)
  BY <1>1, <1>2, <1>3, <1>4, Nested
<1> QED
  BY <1>1, <1>2, <1>5

-----------------------------------------------------------------------------
(* The inductive invariant.                                                *)

Active(t) == doing[t].pc \notin {"idle", "refused"}
Cutting(t) == doing[t].pc \in {"taken", "split", "put"}
Alone(t) == \A u \in Caller : u # t => ~Active(u)

\* A call ends before another one begins.
OneCall == \A t, u \in Caller : Active(t) /\ Active(u) => t = u

\* What a call has in hand is a block; one that looks has passed the lists
\* where nothing suits; and one that splits has just listed the upper half.
CallSound(t) ==
  LET c == doing[t] IN
  /\ c.pc = "look" =>
       c.order <= c.at /\ \A o \in c.order..c.at - 1 : \A p \in ToSet(list[o]) : ~Suits(p, c.low)
  /\ Cutting(t) => c.order <= c.at /\ Aligned(c.page, c.at)
  /\ c.pc = "put" => c.at < Top /\ c.page + Size[c.at] \in ToSet(list[c.at])
  /\ c.pc = "merge" => Aligned(c.index, c.at) /\ c.page \in BlockPages(c.index, c.at)
CallsSound == \A t \in Caller : CallSound(t)

HeldAligned == \A b \in held : Aligned(b[1], b[2])

\* The pages with a count are those that were never freed, and the first ones
\* of blocks in use.
Counts(t) == doing[t].pc \in {"split", "put"}
Heads == {b[1] : b \in held} \cup {doing[t].page : t \in {u \in Caller : Counts(u)}}
CountsFree == \A p \in PageIndex : count[p] = 0 <=> p \in Usable \ Heads

\* A listed block looks free, unless it is the upper half just listed.
Marked(p, o) == flag[p] /\ blockOrder[p] = o
Putting(t, p) == doing[t].pc = "put" /\ p = doing[t].page + Size[doing[t].at]
FreeMarked ==
  \A o \in Order : \A p \in ToSet(list[o]) : Marked(p, o) \/ \E t \in Caller : Putting(t, p)

BuddyInv ==
  /\ BuddyTypeOK /\ OneCall /\ CallsSound
  /\ Partitioned /\ Coalesced
  /\ HeldAligned /\ CountsFree /\ FreeMarked

-----------------------------------------------------------------------------
(* Calls.                                                                  *)

CallState == {NoCall} \cup AllocCall \cup FreeCall

LEMMA CallKinds ==
  ASSUME NEW c \in CallState
  PROVE  /\ c.pc \in {"idle", "look", "taken", "split", "put", "refused", "merge"}
         /\ c.pc = "idle" <=> c = NoCall
         /\ c.pc \in {"look", "taken", "split", "put", "refused"} <=> c \in AllocCall
         /\ c.pc = "merge" <=> c \in FreeCall
BY DEF CallState, NoCall, AllocCall, FreeCall

LEMMA DoingGoes ==
  ASSUME NEW t \in Caller, NEW c \in CallState, doing \in [Caller -> CallState], Goes(t, c)
  PROVE  /\ doing' \in [Caller -> CallState]
         /\ doing'[t] = c /\ \A u \in Caller : u # t => doing'[u] = doing[u]
BY DEF Goes

LEMMA TypeFacts ==
  ASSUME BuddyTypeOK
  PROVE  /\ doing \in [Caller -> CallState]
         /\ list \in [Order -> Seq(PageIndex)]
         /\ \A o \in Order : IsInjective(list[o]) /\ ToSet(list[o]) \subseteq PageIndex
         /\ \A o \in Order : \A p \in ToSet(list[o]) : Aligned(p, o)
BY ToSetType DEF BuddyTypeOK, CallState

LEMMA NumberFacts ==
  /\ Order \subseteq Nat /\ Top \in Order /\ 0 \in Order /\ \A o \in Order : o <= Top
  /\ PageIndex \subseteq Nat /\ Usable \subseteq PageIndex /\ 0 \in PageIndex
BY BuddyAssumption DEF Order, PageIndex

\* What the calls leave of the blocks they cut or merge.
Rests == UNION {Rest(t) : t \in Caller}

\* Who does nothing has nothing in hand.
InactiveHasNothing ==
  \A t \in Caller : ~Active(t) => Cut(t) = {} /\ Rest(t) = {} /\ CallSound(t) /\ ~Counts(t)
LEMMA InactiveHolds == InactiveHasNothing /\ InactiveHasNothing'
<1>1. InactiveHasNothing
  BY DEF InactiveHasNothing, Active, Cut, Rest, CallSound, Cutting, Counts
<1> QED
  BY <1>1, PTL

AloneHasAll ==
  \A t \in Caller : Alone(t) =>
    /\ InUse = held \cup Cut(t) /\ Rests = Rest(t)
    /\ Heads = {b[1] : b \in held} \cup (IF Counts(t) THEN {doing[t].page} ELSE {})
    /\ CallsSound <=> CallSound(t)
    /\ OneCall
    /\ (\A u \in Caller : Cut(u) \cap held = {}) <=> Cut(t) \cap held = {}
LEMMA AloneHolds == AloneHasAll /\ AloneHasAll'
<1>1. AloneHasAll
  <2>1. SUFFICES ASSUME NEW t \in Caller, Alone(t)
                 PROVE  /\ InUse = held \cup Cut(t) /\ Rests = Rest(t)
                        /\ Heads = {b[1] : b \in held} \cup (IF Counts(t) THEN {doing[t].page} ELSE {})
                        /\ CallsSound <=> CallSound(t)
                        /\ OneCall
                        /\ (\A u \in Caller : Cut(u) \cap held = {}) <=> Cut(t) \cap held = {}
    BY DEF AloneHasAll
  <2>2. \A u \in Caller : u # t => Cut(u) = {} /\ Rest(u) = {} /\ CallSound(u) /\ ~Counts(u)
    BY <2>1, InactiveHolds DEF Alone, InactiveHasNothing
  <2>3. InUse = held \cup Cut(t) /\ Rests = Rest(t)
    BY <2>2 DEF InUse, Rests
  <2>4. Heads = {b[1] : b \in held} \cup (IF Counts(t) THEN {doing[t].page} ELSE {})
    BY <2>2 DEF Heads
  <2>5. CallsSound <=> CallSound(t)
    BY <2>2 DEF CallsSound
  <2>6. OneCall
    BY <2>1 DEF OneCall, Alone
  <2>7. (\A u \in Caller : Cut(u) \cap held = {}) <=> Cut(t) \cap held = {}
    BY <2>2
  <2> QED
    BY <2>3, <2>4, <2>5, <2>6, <2>7
<1> QED
  BY <1>1, PTL

-----------------------------------------------------------------------------
(* Partitions of the usable pages.                                         *)

Part(B, R) ==
  /\ Disjoint(B) /\ R \cap PagesOf(B) = {} /\ R \cup PagesOf(B) = Usable
Own(b) == BlockPages(b[1], b[2])

LEMMA PartAdd ==
  ASSUME NEW B, NEW R, NEW c, Part(B, R), Own(c) \subseteq R
  PROVE  Part(B \cup {c}, R \ Own(c)) /\ (Own(c) # {} => c \notin B)
<1>1. PagesOf(B \cup {c}) = PagesOf(B) \cup Own(c)
  BY DEF PagesOf, Own
<1>2. \A b \in B : Own(b) \subseteq PagesOf(B)
  BY DEF PagesOf, Own
<1>3. Disjoint(B \cup {c})
  BY <1>2 DEF Disjoint, Part, Own
<1> QED
  BY <1>1, <1>2, <1>3 DEF Part

LEMMA PartRemove ==
  ASSUME NEW B, NEW R, NEW c \in B, Part(B, R)
  PROVE  Part(B \ {c}, R \cup Own(c)) /\ Own(c) \subseteq Usable /\ Own(c) \cap R = {}
<1>1. PagesOf(B) = PagesOf(B \ {c}) \cup Own(c)
  BY DEF PagesOf, Own
<1>2. PagesOf(B \ {c}) \cap Own(c) = {}
  BY DEF PagesOf, Own, Disjoint, Part
<1>3. Disjoint(B \ {c})
  BY DEF Disjoint, Part
<1> QED
  BY <1>1, <1>2, <1>3 DEF Part

Separate == ListedBlocks \cap InUse = {} /\ \A t \in Caller : Cut(t) \cap held = {}
PartitionedMeans == Partitioned <=> Separate /\ Part(ListedBlocks \cup InUse, Rests)
LEMMA PartitionedHolds == PartitionedMeans /\ PartitionedMeans'
<1>1. PartitionedMeans
  BY DEF PartitionedMeans, Partitioned, Separate, Part, Rests
<1> QED
  BY <1>1, PTL

\* A step that moves no block.
LEMMA PartitionStays ==
  ASSUME Partitioned, UNCHANGED <<list, held>>,
         \A u \in Caller : Cut(u)' = Cut(u) /\ Rest(u)' = Rest(u)
  PROVE  Partitioned'
<1>1. ListedBlocks' = ListedBlocks /\ InUse' = InUse /\ Rests' = Rests /\ Separate' = Separate
  BY DEF ListedBlocks, InUse, Rests, Separate
<1> QED
  BY <1>1, PartitionedHolds DEF PartitionedMeans, Part, PagesOf, Disjoint

-----------------------------------------------------------------------------
(* What a step does to the lists and to the calls.                         *)

LEMMA Listed ==
  \A p : \A o \in Order : <<p, o>> \in ListedBlocks <=> p \in ToSet(list[o])
BY DEF ListedBlocks

ListsSound ==
  /\ list \in [Order -> Seq(PageIndex)]
  /\ \A o \in Order : IsInjective(list[o]) /\ \A p \in ToSet(list[o]) : Aligned(p, o)

Removes(o, p) == list' = [list EXCEPT ![o] = ListDelete(@, p)]
Appends(o, p) == list' = [list EXCEPT ![o] = Append(@, p)]

LEMMA ListRemoves ==
  ASSUME BuddyTypeOK, NEW o \in Order, NEW p, Removes(o, p)
  PROVE  /\ ListsSound'
         /\ \A q \in Order : ToSet(list'[q]) = ToSet(list[q]) \ (IF q = o THEN {p} ELSE {})
         /\ ListedBlocks' = ListedBlocks \ {<<p, o>>}
<1>1. /\ list \in [Order -> Seq(PageIndex)] /\ IsInjective(list[o])
      /\ \A q \in Order : IsInjective(list[q]) /\ \A r \in ToSet(list[q]) : Aligned(r, q)
  BY DEF BuddyTypeOK
<1>2. /\ ListDelete(list[o], p) \in Seq(PageIndex)
      /\ ToSet(ListDelete(list[o], p)) = ToSet(list[o]) \ {p}
      /\ IsInjective(ListDelete(list[o], p))
  BY <1>1, DeleteList
<1>3. list' \in [Order -> Seq(PageIndex)]
  BY <1>1, <1>2 DEF Removes
<1>4. \A q \in Order : list'[q] = IF q = o THEN ListDelete(list[o], p) ELSE list[q]
  BY <1>1 DEF Removes
<1>5. \A q \in Order : ToSet(list'[q]) = ToSet(list[q]) \ (IF q = o THEN {p} ELSE {})
  BY <1>2, <1>4
<1>6. ListsSound'
  BY <1>1, <1>2, <1>3, <1>4 DEF ListsSound
<1>7. ListedBlocks' = ListedBlocks \ {<<p, o>>}
  BY <1>5 DEF ListedBlocks
<1> QED
  BY <1>5, <1>6, <1>7

LEMMA ListAppends ==
  ASSUME BuddyTypeOK, NEW o \in Order, NEW p \in PageIndex, Aligned(p, o),
         p \notin ToSet(list[o]), Appends(o, p)
  PROVE  /\ ListsSound'
         /\ \A q \in Order : ToSet(list'[q]) = ToSet(list[q]) \cup (IF q = o THEN {p} ELSE {})
         /\ ListedBlocks' = ListedBlocks \cup {<<p, o>>}
<1>1. /\ list \in [Order -> Seq(PageIndex)] /\ IsInjective(list[o])
      /\ \A q \in Order : IsInjective(list[q]) /\ \A r \in ToSet(list[q]) : Aligned(r, q)
  BY DEF BuddyTypeOK
<1>2. /\ Append(list[o], p) \in Seq(PageIndex)
      /\ ToSet(Append(list[o], p)) = ToSet(list[o]) \cup {p}
      /\ IsInjective(Append(list[o], p))
  BY <1>1, AppendList
<1>3. list' \in [Order -> Seq(PageIndex)]
  BY <1>1, <1>2 DEF Appends
<1>4. \A q \in Order : list'[q] = IF q = o THEN Append(list[o], p) ELSE list[q]
  BY <1>1 DEF Appends
<1>5. \A q \in Order : ToSet(list'[q]) = ToSet(list[q]) \cup (IF q = o THEN {p} ELSE {})
  BY <1>2, <1>4
<1>6. ListsSound'
  BY <1>1, <1>2, <1>3, <1>4 DEF ListsSound
<1>7. ListedBlocks' = ListedBlocks \cup {<<p, o>>}
  <2>1. \A x : x \in ListedBlocks <=> \E q \in Order : \E r \in ToSet(list[q]) : x = <<r, q>>
    BY DEF ListedBlocks
  <2>2. \A x : x \in ListedBlocks' <=> \E q \in Order : \E r \in ToSet(list'[q]) : x = <<r, q>>
    BY DEF ListedBlocks
  <2>3. ASSUME NEW x \in ListedBlocks' PROVE x \in ListedBlocks \cup {<<p, o>>}
    <3>1. PICK q \in Order : \E r \in ToSet(list'[q]) : x = <<r, q>>
      BY <2>2, <2>3
    <3>2. PICK r \in ToSet(list'[q]) : x = <<r, q>>
      BY <3>1
    <3>3. r \in ToSet(list[q]) \/ (q = o /\ r = p)
      BY <1>5, <3>2
    <3> QED
      BY <2>1, <3>2, <3>3
  <2>4. ASSUME NEW x \in ListedBlocks PROVE x \in ListedBlocks'
    <3>1. PICK q \in Order : \E r \in ToSet(list[q]) : x = <<r, q>>
      BY <2>1, <2>4
    <3> QED
      BY <1>5, <2>2, <3>1
  <2>5. <<p, o>> \in ListedBlocks'
    BY <1>5, <2>2
  <2> QED
    BY <2>3, <2>4, <2>5
<1> QED
  BY <1>5, <1>6, <1>7

LEMMA TypeStays ==
  ASSUME ListsSound', doing' \in [Caller -> CallState],
         count' \in [PageIndex -> 0..MaxCount], flag' \in [PageIndex -> BOOLEAN],
         blockOrder' \in [PageIndex -> Order], held' \in SUBSET (PageIndex \X Order)
  PROVE  BuddyTypeOK'
BY DEF BuddyTypeOK, ListsSound, CallState

LEMMA ListsStay ==
  ASSUME BuddyTypeOK, UNCHANGED list
  PROVE  ListsSound' /\ ListedBlocks' = ListedBlocks
BY DEF BuddyTypeOK, ListsSound, ListedBlocks

LEMMA OthersStay ==
  ASSUME BuddyTypeOK, NEW t \in Caller, NEW c \in CallState, Goes(t, c)
  PROVE  /\ doing' \in [Caller -> CallState] /\ doing'[t] = c
         /\ \A u \in Caller : u # t =>
              /\ doing'[u] = doing[u] /\ (Active(u)' <=> Active(u))
              /\ Cut(u)' = Cut(u) /\ Rest(u)' = Rest(u) /\ (Counts(u)' <=> Counts(u))
              /\ \A p : (Putting(u, p)' <=> Putting(u, p))
         /\ (Alone(t)' <=> Alone(t))
<1>1. doing \in [Caller -> CallState]
  BY TypeFacts
<1>2. /\ doing' \in [Caller -> CallState]
      /\ doing'[t] = c /\ \A u \in Caller : u # t => doing'[u] = doing[u]
  BY <1>1, DoingGoes
<1>3. ASSUME NEW u \in Caller, u # t
      PROVE  /\ (Active(u)' <=> Active(u))
             /\ Cut(u)' = Cut(u) /\ Rest(u)' = Rest(u) /\ (Counts(u)' <=> Counts(u))
             /\ \A p : (Putting(u, p)' <=> Putting(u, p))
  BY <1>2, <1>3 DEF Active, Cut, Rest, Counts, Putting
<1>4. (Alone(t)' <=> Alone(t))
  BY <1>3 DEF Alone
<1> QED
  BY <1>2, <1>3, <1>4

\* The task of a call that is under way is alone.
LEMMA ActiveAlone ==
  ASSUME OneCall, NEW t \in Caller, Active(t)
  PROVE  Alone(t)
BY DEF OneCall, Alone

LEMMA BeginsAlone ==
  ASSUME NEW t \in Caller, Begins(t)
  PROVE  Alone(t) /\ ~Active(t) /\ doing[t] = NoCall
BY DEF Begins, Alone, Active, NoCall

\* A step of a call that touches no page and no block.
LEMMA QuietInv ==
  ASSUME BuddyInv, NEW t \in Caller, NEW c \in CallState, Goes(t, c),
         UNCHANGED <<list, count, flag, blockOrder, held>>,
         ~Cutting(t), ~Cutting(t)', doing[t].pc # "merge", c.pc # "merge",
         CallSound(t)', OneCall'
  PROVE  BuddyInv'
<1>1. /\ BuddyTypeOK /\ CallsSound /\ Partitioned /\ Coalesced /\ HeldAligned
      /\ CountsFree /\ FreeMarked
  BY DEF BuddyInv
<1>2. /\ doing' \in [Caller -> CallState] /\ doing'[t] = c
      /\ \A u \in Caller : u # t =>
           /\ doing'[u] = doing[u]
           /\ Cut(u)' = Cut(u) /\ Rest(u)' = Rest(u) /\ (Counts(u)' <=> Counts(u))
           /\ \A p : (Putting(u, p)' <=> Putting(u, p))
  BY <1>1, OthersStay
<1>3. /\ Cut(t) = {} /\ Cut(t)' = {} /\ Rest(t) = {} /\ Rest(t)' = {}
      /\ ~Counts(t) /\ ~Counts(t)'
      /\ \A p : ~Putting(t, p) /\ ~Putting(t, p)'
  BY <1>2 DEF Cutting, Cut, Rest, Counts, Putting
<1>4. BuddyTypeOK'
  <2>1. /\ count' \in [PageIndex -> 0..MaxCount] /\ flag' \in [PageIndex -> BOOLEAN]
        /\ blockOrder' \in [PageIndex -> Order] /\ held' \in SUBSET (PageIndex \X Order)
    BY <1>1 DEF BuddyTypeOK
  <2> QED
    BY <1>1, <1>2, <2>1, ListsStay, TypeStays
<1>5. CallsSound'
  <2>1. ASSUME NEW u \in Caller, u # t PROVE CallSound(u)'
    <3>1. CallSound(u)
      BY <1>1 DEF CallsSound
    <3> QED
      BY <1>2, <2>1, <3>1 DEF CallSound, Cutting
  <2> QED
    BY <2>1 DEF CallsSound
<1>6. Partitioned'
  <2>1. \A u \in Caller : Cut(u)' = Cut(u) /\ Rest(u)' = Rest(u)
    BY <1>2, <1>3
  <2> QED
    BY <1>1, <2>1, PartitionStays
<1>7. Coalesced' /\ HeldAligned'
  BY <1>1 DEF Coalesced, HeldAligned
<1>8. CountsFree'
  <2>1. {u \in Caller : Counts(u)}' = {u \in Caller : Counts(u)}
    BY <1>2, <1>3
  <2>2. \A u \in Caller : Counts(u) => doing'[u] = doing[u]
    BY <1>2, <1>3
  <2>3. Heads' = Heads
    BY <2>1, <2>2 DEF Heads
  <2> QED
    BY <1>1, <2>3 DEF CountsFree
<1>9. FreeMarked'
  <2>1. \A u \in Caller : \A p : (Putting(u, p)' <=> Putting(u, p))
    BY <1>2, <1>3
  <2> QED
    BY <1>1, <2>1 DEF FreeMarked, Marked
<1> QED
  BY <1>4, <1>5, <1>6, <1>7, <1>8, <1>9 DEF BuddyInv

LEMMA AllocPagesInv ==
  ASSUME BuddyInv, NEW t \in Caller, NEW o \in Order, NEW low \in BOOLEAN, AllocPages(t, o, low)
  PROVE  BuddyInv'
<1> DEFINE c == [pc |-> "look", order |-> o, low |-> low, at |-> o, page |-> 0]
<1>1. Begins(t) /\ Goes(t, c) /\ UNCHANGED <<list, count, flag, blockOrder, held>>
  BY DEF AllocPages
<1>2. c \in CallState /\ c.pc = "look" /\ c.order = o /\ c.at = o
  BY NumberFacts DEF CallState, AllocCall
<1>3. BuddyTypeOK
  BY DEF BuddyInv
<1> HIDE DEF c
<1>4. doing'[t] = c /\ (Alone(t)' <=> Alone(t))
  BY <1>1, <1>2, <1>3, OthersStay
<1>5. Alone(t) /\ doing[t] = NoCall
  BY <1>1, BeginsAlone
<1>6. OneCall'
  BY <1>4, <1>5, AloneHolds DEF AloneHasAll
<1>7. CallSound(t)'
  BY <1>2, <1>4, NumberFacts DEF CallSound, Cutting
<1>8. ~Cutting(t) /\ ~Cutting(t)' /\ doing[t].pc # "merge"
  BY <1>2, <1>4, <1>5 DEF Cutting, NoCall
<1> QED
  BY <1>1, <1>2, <1>6, <1>7, <1>8, QuietInv

LEMMA AllocFailsInv ==
  ASSUME BuddyInv, NEW t \in Caller, AllocFails(t)
  PROVE  BuddyInv'
<1>1. doing[t].pc = "refused" /\ Goes(t, NoCall) /\ UNCHANGED <<list, count, flag, blockOrder, held>>
  BY DEF AllocFails
<1>2. NoCall \in CallState /\ NoCall.pc = "idle"
  BY DEF CallState, NoCall
<1>3. BuddyTypeOK /\ OneCall
  BY DEF BuddyInv
<1>4. doing'[t] = NoCall /\ \A u \in Caller : u # t => (Active(u)' <=> Active(u))
  BY <1>1, <1>2, <1>3, OthersStay
<1>5. ~Active(t) /\ ~Active(t)'
  BY <1>1, <1>2, <1>4 DEF Active
<1>6. OneCall'
  BY <1>3, <1>4, <1>5 DEF OneCall
<1>7. CallSound(t)' /\ ~Cutting(t) /\ ~Cutting(t)'
  BY <1>1, <1>2, <1>4 DEF CallSound, Cutting
<1> QED
  BY <1>1, <1>2, <1>6, <1>7, QuietInv

LEMMA InsideSame ==
  ASSUME NEW p \in Nat, NEW o \in Order, NEW q \in Order, o <= q
  PROVE  BlockPages(p, o) \subseteq BlockPages(p, q)
BY SizeGrows, SizeFacts DEF BlockPages

\* A call that has nothing in hand: all pages are in blocks.
LEMMA NothingInHand ==
  ASSUME NEW t \in Caller, Alone(t), Cut(t) = {}, Rest(t) = {}, Partitioned
  PROVE  /\ InUse = held /\ Rests = {} /\ ListedBlocks \cap held = {}
         /\ Part(ListedBlocks \cup held, {})
<1>1. InUse = held \cup Cut(t) /\ Rests = Rest(t)
  BY AloneHolds DEF AloneHasAll
<1>2. Separate /\ Part(ListedBlocks \cup InUse, Rests)
  BY PartitionedHolds DEF PartitionedMeans
<1>3. InUse = held /\ Rests = {}
  BY <1>1
<1> QED
  BY <1>2, <1>3 DEF Separate

LEMMA LookFacts ==
  ASSUME BuddyInv, NEW t \in Caller, doing[t].pc = "look"
  PROVE  /\ doing[t] \in AllocCall
         /\ doing[t].at \in Order /\ doing[t].order \in Order /\ doing[t].order <= doing[t].at
         /\ Alone(t) /\ Cut(t) = {} /\ Rest(t) = {}
         /\ InUse = held /\ Rests = {} /\ ListedBlocks \cap held = {}
         /\ Part(ListedBlocks \cup held, {})
<1>1. BuddyTypeOK /\ OneCall /\ CallSound(t) /\ Partitioned
  BY DEF BuddyInv, CallsSound
<1>2. doing[t] \in AllocCall
  BY <1>1, TypeFacts, CallKinds
<1>3. doing[t].at \in Order /\ doing[t].order \in Order /\ doing[t].order <= doing[t].at
  BY <1>1, <1>2 DEF AllocCall, CallSound
<1>4. Alone(t)
  BY <1>1, ActiveAlone DEF Active
<1>5. Cut(t) = {} /\ Rest(t) = {}
  BY DEF Cut, Rest
<1> QED
  BY <1>1, <1>2, <1>3, <1>4, <1>5, NothingInHand

\* allocPages() has found a block: it is cut to the size asked for.
Takes(t, p) ==
  LET c == doing[t] IN
  /\ p \in PageIndex /\ <<p, c.at>> \in ListedBlocks /\ Suits(p, c.low)
  /\ Removes(c.at, p)
  /\ Goes(t, [c EXCEPT !.pc = "taken", !.page = p])
  /\ UNCHANGED <<count, flag, blockOrder, held>>

LEMMA LookTakes ==
  ASSUME BuddyInv, NEW t \in Caller, doing[t].pc = "look", TakeFirst(t),
         UNCHANGED <<count, flag, blockOrder, held>>
  PROVE  \E p \in PageIndex : Takes(t, p)
<1> DEFINE c == doing[t]
           l == list[c.at]
<1>1. BuddyTypeOK /\ c.at \in Order
  BY LookFacts DEF BuddyInv
<1>2. PICK k \in DOMAIN l :
        /\ Suits(l[k], c.low)
        /\ list' = [list EXCEPT ![c.at] = ListDelete(@, l[k])]
        /\ Goes(t, [c EXCEPT !.pc = "taken", !.page = l[k]])
  BY DEF TakeFirst
<1>3. l[k] \in ToSet(l) /\ l[k] \in PageIndex
  BY <1>1, TypeFacts DEF ToSet
<1>4. <<l[k], c.at>> \in ListedBlocks
  BY <1>1, <1>3, Listed
<1> QED
  BY <1>2, <1>3, <1>4 DEF Takes, Removes

LEMMA TakesEffect ==
  ASSUME BuddyInv, NEW t \in Caller, doing[t].pc = "look", NEW p \in PageIndex, Takes(t, p)
  PROVE  LET c == doing[t] IN
         /\ ListsSound' /\ \A q \in Order : ToSet(list'[q]) \subseteq ToSet(list[q])
         /\ doing' \in [Caller -> CallState]
         /\ doing'[t] \in AllocCall /\ doing'[t].pc = "taken" /\ doing'[t].page = p
         /\ doing'[t].at = c.at /\ doing'[t].order = c.order /\ Alone(t)'
         /\ Aligned(p, c.at)
         /\ BlockPages(p, c.order) \subseteq BlockPages(p, c.at)
         /\ BlockPages(p, c.at) \subseteq PagesOf(ListedBlocks)
         /\ ListedBlocks' = ListedBlocks \ {<<p, c.at>>}
         /\ InUse' = held \cup {<<p, c.order>>}
         /\ Cut(t)' = {<<p, c.order>>}
         /\ Rests' = BlockPages(p, c.at) \ BlockPages(p, c.order)
<1> DEFINE c == doing[t]
           d == [c EXCEPT !.pc = "taken", !.page = p]
<1>1. /\ c \in AllocCall /\ c.at \in Order /\ c.order \in Order /\ c.order <= c.at /\ Alone(t)
  BY LookFacts
<1>2. /\ <<p, c.at>> \in ListedBlocks /\ Removes(c.at, p)
      /\ Goes(t, d) /\ UNCHANGED <<count, flag, blockOrder, held>>
  BY DEF Takes
<1>3. BuddyTypeOK
  BY DEF BuddyInv
<1>4. d \in AllocCall /\ d.pc = "taken" /\ d.page = p /\ d.at = c.at /\ d.order = c.order
  BY <1>1 DEF AllocCall
<1>5. d \in CallState
  BY <1>4 DEF CallState
<1> HIDE DEF d
<1>6. doing' \in [Caller -> CallState] /\ doing'[t] = d /\ Alone(t)'
  BY <1>1, <1>2, <1>3, <1>5, OthersStay
<1>7. /\ ListsSound' /\ ListedBlocks' = ListedBlocks \ {<<p, c.at>>}
      /\ \A q \in Order : ToSet(list'[q]) = ToSet(list[q]) \ (IF q = c.at THEN {p} ELSE {})
  BY <1>1, <1>2, <1>3, ListRemoves
<1>8. \A q \in Order : ToSet(list'[q]) \subseteq ToSet(list[q])
  BY <1>7
<1>9. Cut(t)' = {<<p, c.order>>} /\ Rest(t)' = BlockPages(p, c.at) \ BlockPages(p, c.order)
  BY <1>4, <1>6 DEF Cut, Rest
<1>10. InUse' = held \cup {<<p, c.order>>} /\ Rests' = BlockPages(p, c.at) \ BlockPages(p, c.order)
  BY <1>2, <1>6, <1>9, AloneHolds DEF AloneHasAll
<1>11. BlockPages(p, c.order) \subseteq BlockPages(p, c.at)
  BY <1>1, NumberFacts, InsideSame
<1>12. Aligned(p, c.at)
  BY <1>1, <1>2, <1>3, Listed, TypeFacts
<1>13. BlockPages(p, c.at) \subseteq PagesOf(ListedBlocks)
  BY <1>2 DEF PagesOf
<1> QED
  BY <1>4, <1>6, <1>7, <1>8, <1>9, <1>10, <1>11, <1>12, <1>13

LEMMA TakesInv ==
  ASSUME BuddyInv, NEW t \in Caller, doing[t].pc = "look", NEW p \in PageIndex, Takes(t, p)
  PROVE  BuddyInv'
<1> DEFINE o == doing[t].order
           q == doing[t].at
<1>1. /\ BuddyTypeOK /\ CallsSound /\ Coalesced /\ HeldAligned /\ CountsFree /\ FreeMarked
  BY DEF BuddyInv
<1>2. /\ q \in Order /\ o \in Order /\ o <= q /\ Alone(t) /\ Cut(t) = {} /\ Rest(t) = {}
      /\ InUse = held /\ Rests = {} /\ ListedBlocks \cap held = {}
      /\ Part(ListedBlocks \cup held, {})
  BY LookFacts
<1>3. UNCHANGED <<count, flag, blockOrder, held>> /\ <<p, q>> \in ListedBlocks
  BY DEF Takes
<1>4. /\ ListsSound' /\ \A r \in Order : ToSet(list'[r]) \subseteq ToSet(list[r])
      /\ doing' \in [Caller -> CallState]
      /\ doing'[t].pc = "taken" /\ doing'[t].page = p
      /\ doing'[t].at = q /\ doing'[t].order = o /\ Alone(t)'
  BY TakesEffect
<1>5. /\ Aligned(p, q) /\ BlockPages(p, o) \subseteq BlockPages(p, q)
      /\ ListedBlocks' = ListedBlocks \ {<<p, q>>}
      /\ InUse' = held \cup {<<p, o>>} /\ Cut(t)' = {<<p, o>>}
      /\ Rests' = BlockPages(p, q) \ BlockPages(p, o)
  BY TakesEffect
<1> HIDE DEF o, q
<1>6. BuddyTypeOK'
  <2>1. /\ count' \in [PageIndex -> 0..MaxCount] /\ flag' \in [PageIndex -> BOOLEAN]
        /\ blockOrder' \in [PageIndex -> Order] /\ held' \in SUBSET (PageIndex \X Order)
    BY <1>1, <1>3 DEF BuddyTypeOK
  <2> QED
    BY <1>4, <2>1, TypeStays
<1>7. OneCall' /\ CallsSound'
  <2>1. CallSound(t)'
    BY <1>2, <1>4, <1>5 DEF CallSound, Cutting
  <2> QED
    BY <1>4, <2>1, AloneHolds DEF AloneHasAll
<1>8. Partitioned'
  <2> DEFINE B == ListedBlocks \cup held
             b == <<p, q>>
             d == <<p, o>>
  <2>1. Part(B \ {b}, {} \cup Own(b))
    BY <1>2, <1>3, PartRemove
  <2>2. Own(b) = BlockPages(p, q) /\ Own(d) = BlockPages(p, o)
    BY DEF Own
  <2>3. Own(d) # {}
    BY <1>2, <2>2, NumberFacts, OwnPage
  <2>4. Own(d) \subseteq {} \cup Own(b)
    BY <1>5, <2>2
  <2> HIDE DEF B, b, d
  <2>5. Part((B \ {b}) \cup {d}, ({} \cup Own(b)) \ Own(d)) /\ d \notin B \ {b}
    BY <2>1, <2>3, <2>4, PartAdd
  <2>6. b \notin held
    BY <1>2, <1>3 DEF b
  <2>7. (ListedBlocks \cup InUse)' = (B \ {b}) \cup {d}
    <3>1. (ListedBlocks \cup InUse)' = (ListedBlocks \ {b}) \cup (held \cup {d})
      BY <1>5 DEF b, d
    <3> QED
      BY <2>6, <3>1 DEF B
  <2>8. Rests' = ({} \cup Own(b)) \ Own(d)
    BY <1>5, <2>2
  <2>9. d \notin held
    BY <2>5, <2>6 DEF B
  <2>10. (ListedBlocks \cap InUse)' = {}
    <3>1. (ListedBlocks \cap InUse)' = (ListedBlocks \ {b}) \cap (held \cup {d})
      BY <1>5 DEF b, d
    <3> QED
      BY <1>2, <2>5, <3>1 DEF B
  <2>11. (\A u \in Caller : Cut(u) \cap held = {})'
    <3>1. Cut(t)' \cap held' = {}
      BY <1>3, <1>5, <2>9 DEF d
    <3> QED
      BY <1>4, <3>1, AloneHolds DEF AloneHasAll
  <2>12. Separate'
    BY <2>10, <2>11 DEF Separate
  <2>13. Part(ListedBlocks \cup InUse, Rests)'
    BY <2>5, <2>7, <2>8 DEF Part, PagesOf, Disjoint
  <2> QED
    BY <2>12, <2>13, PartitionedHolds DEF PartitionedMeans
<1>9. Coalesced'
  BY <1>1, <1>4, NumberFacts DEF Coalesced, Order
<1>10. HeldAligned'
  BY <1>1, <1>3 DEF HeldAligned
<1>11. CountsFree'
  <2>1. ~Counts(t) /\ ~Counts(t)'
    BY <1>4 DEF Counts
  <2>2. Heads' = Heads
    BY <1>2, <1>3, <1>4, <2>1, AloneHolds DEF AloneHasAll
  <2> QED
    BY <1>1, <1>3, <2>2 DEF CountsFree
<1>12. FreeMarked'
  <2>1. \A u \in Caller : \A x : ~Putting(u, x)
    BY <1>2 DEF Putting, Alone, Active
  <2> QED
    BY <1>1, <1>3, <1>4, <2>1 DEF FreeMarked, Marked
<1> QED
  BY <1>6, <1>7, <1>8, <1>9, <1>10, <1>11, <1>12 DEF BuddyInv

\* Nothing in the list suits.
Passes(t) ==
  LET c == doing[t] IN
  /\ NoneSuits(t)
  /\ Goes(t, IF c.at < Top THEN [c EXCEPT !.at = @ + 1] ELSE [c EXCEPT !.pc = "refused"])
  /\ UNCHANGED <<list, count, flag, blockOrder, held>>

LEMMA LookSplits ==
  ASSUME BuddyInv, NEW t \in Caller, Look(t)
  PROVE  doing[t].pc = "look" /\ ((\E p \in PageIndex : Takes(t, p)) \/ Passes(t))
<1>1. doing[t].pc = "look" /\ UNCHANGED <<count, flag, blockOrder, held>>
  BY DEF Look
<1>2. CASE TakeFirst(t)
  BY <1>1, <1>2, LookTakes
<1>3. CASE ~TakeFirst(t)
  BY <1>1, <1>3 DEF Look, Passes
<1> QED
  BY <1>1, <1>2, <1>3

\* The lists that a call has looked through have nothing that suits.
LEMMA PassedLists ==
  ASSUME BuddyInv, NEW t \in Caller, doing[t].pc = "look", Passes(t)
  PROVE  \A o \in doing[t].order .. doing[t].at : \A p \in ToSet(list[o]) : ~Suits(p, doing[t].low)
<1>1. CallSound(t)
  BY DEF BuddyInv, CallsSound
<1>2. doing[t].at \in Nat /\ doing[t].order \in Nat
  BY LookFacts, NumberFacts
<1>3. \A p \in ToSet(list[doing[t].at]) : ~Suits(p, doing[t].low)
  BY DEF Passes, NoneSuits
<1> QED
  BY <1>1, <1>2, <1>3 DEF CallSound

LEMMA PassesInv ==
  ASSUME BuddyInv, NEW t \in Caller, doing[t].pc = "look", Passes(t)
  PROVE  BuddyInv'
<1> DEFINE c == doing[t]
           d == IF c.at < Top THEN [c EXCEPT !.at = @ + 1] ELSE [c EXCEPT !.pc = "refused"]
<1>1. c \in AllocCall /\ c.at \in Order /\ c.order \in Order /\ c.order <= c.at /\ Alone(t)
  BY LookFacts
<1>2. Goes(t, d) /\ UNCHANGED <<list, count, flag, blockOrder, held>>
  BY DEF Passes
<1>3. BuddyTypeOK
  BY DEF BuddyInv
<1>4. /\ d \in AllocCall
      /\ (d.pc = "look" /\ d.at = c.at + 1 /\ d.order = c.order /\ d.low = c.low) \/ d.pc = "refused"
  <2>1. CASE c.at < Top
    <3>1. c.at + 1 \in Order
      BY <1>1, <2>1, SizeFacts
    <3>2. d = [c EXCEPT !.at = c.at + 1]
      BY <2>1
    <3>3. c.pc = "look"
      OBVIOUS
    <3> HIDE DEF d, c
    <3> QED
      BY <1>1, <3>1, <3>2, <3>3 DEF AllocCall
  <2>2. CASE ~(c.at < Top)
    <3>1. d = [c EXCEPT !.pc = "refused"]
      BY <2>2
    <3> HIDE DEF d, c
    <3> QED
      BY <1>1, <3>1 DEF AllocCall
  <2> QED
    BY <2>1, <2>2
<1>5. d \in CallState /\ d.pc # "merge"
  BY <1>4 DEF CallState
<1>6. \A o \in c.order .. c.at : \A p \in ToSet(list[o]) : ~Suits(p, c.low)
  BY PassedLists
<1> HIDE DEF d
<1>7. doing'[t] = d /\ Alone(t)'
  BY <1>1, <1>2, <1>3, <1>5, OthersStay
<1>8. OneCall'
  BY <1>7, AloneHolds DEF AloneHasAll
<1>9. CallSound(t)'
  <2>1. CASE d.pc = "refused"
    BY <1>7, <2>1 DEF CallSound, Cutting
  <2>2. CASE d.pc = "look" /\ d.at = c.at + 1 /\ d.order = c.order /\ d.low = c.low
    <3>1. c.order \in Nat /\ c.at \in Nat
      BY <1>1, NumberFacts
    <3>2. c.order <= c.at + 1 /\ (c.at + 1) - 1 = c.at
      BY <1>1, <3>1
    <3> QED
      BY <1>2, <1>6, <1>7, <2>2, <3>2 DEF CallSound, Cutting
  <2> QED
    BY <1>4, <2>1, <2>2
<1>10. ~Cutting(t) /\ ~Cutting(t)'
  BY <1>4, <1>7 DEF Cutting
<1> QED
  BY <1>2, <1>5, <1>8, <1>9, <1>10, QuietInv

LEMMA LookInv ==
  ASSUME BuddyInv, NEW t \in Caller, Look(t)
  PROVE  BuddyInv'
<1>1. CASE \E p \in PageIndex : Takes(t, p)
  <2>1. PICK p \in PageIndex : Takes(t, p)
    BY <1>1
  <2> QED
    BY <2>1, LookSplits, TakesInv
<1> QED
  BY <1>1, LookSplits, PassesInv

\* A call that has a block in hand.
LEMMA CuttingFacts ==
  ASSUME BuddyInv, NEW t \in Caller, Cutting(t)
  PROVE  LET c == doing[t] IN
         /\ c \in AllocCall /\ c.page \in PageIndex
         /\ c.at \in Order /\ c.order \in Order /\ c.order <= c.at /\ Alone(t)
         /\ Aligned(c.page, c.at) /\ Aligned(c.page, c.order)
         /\ BlockPages(c.page, c.order) \subseteq BlockPages(c.page, c.at)
         /\ c.page \in BlockPages(c.page, c.order)
         /\ Cut(t) = {<<c.page, c.order>>} /\ InUse = held \cup {<<c.page, c.order>>}
         /\ Rest(t) = BlockPages(c.page, c.at) \ BlockPages(c.page, c.order) /\ Rests = Rest(t)
         /\ ListedBlocks \cap InUse = {} /\ <<c.page, c.order>> \notin held
         /\ Part(ListedBlocks \cup InUse, Rests)
<1> DEFINE c == doing[t]
<1>1. BuddyTypeOK /\ OneCall /\ CallSound(t) /\ Partitioned
  BY DEF BuddyInv, CallsSound
<1>2. c \in AllocCall
  BY <1>1, TypeFacts, CallKinds DEF Cutting
<1>3. c.at \in Order /\ c.order \in Order /\ c.page \in PageIndex
  BY <1>2 DEF AllocCall
<1>4. c.order <= c.at /\ Aligned(c.page, c.at)
  BY <1>1 DEF CallSound
<1>5. Alone(t)
  BY <1>1, ActiveAlone DEF Active, Cutting
<1>6. /\ Aligned(c.page, c.order) /\ BlockPages(c.page, c.order) \subseteq BlockPages(c.page, c.at)
      /\ c.page \in BlockPages(c.page, c.order)
  BY <1>3, <1>4, NumberFacts, AlignedBelow, InsideSame, OwnPage
<1>7. Cut(t) = {<<c.page, c.order>>} /\ Rest(t) = BlockPages(c.page, c.at) \ BlockPages(c.page, c.order)
  BY DEF Cut, Rest, Cutting
<1>8. InUse = held \cup Cut(t) /\ Rests = Rest(t)
  BY <1>5, AloneHolds DEF AloneHasAll
<1>9. Separate /\ Part(ListedBlocks \cup InUse, Rests)
  BY <1>1, PartitionedHolds DEF PartitionedMeans
<1>10. ListedBlocks \cap InUse = {} /\ <<c.page, c.order>> \notin held
  BY <1>7, <1>9 DEF Separate
<1> QED
  BY <1>2, <1>3, <1>4, <1>5, <1>6, <1>7, <1>8, <1>9, <1>10

\* The first page of a block belongs to no other block.
LEMMA PageOfOne ==
  ASSUME NEW B, NEW R, Part(B, R), NEW b \in B, NEW x \in Own(b)
  PROVE  x \notin R /\ \A c \in B : x \in Own(c) => c = b
BY DEF Part, Disjoint, Own, PagesOf

LEMMA PartOthers ==
  ASSUME NEW B, NEW R, NEW C, Part(B \cup C, R), NEW c \in C, B \cap C = {}
  PROVE  Own(c) \cap PagesOf(B) = {}
<1>1. SUFFICES ASSUME NEW x \in Own(c), x \in PagesOf(B) PROVE FALSE
  OBVIOUS
<1>2. PICK b \in B : x \in Own(b)
  BY <1>1 DEF PagesOf, Own
<1>3. b \in B \cup C /\ c \in B \cup C /\ b # c
  OBVIOUS
<1> QED
  BY <1>2, <1>3, PageOfOne

LEMMA ListedOwn ==
  ASSUME BuddyTypeOK, NEW o \in Order, NEW p \in ToSet(list[o])
  PROVE  <<p, o>> \in ListedBlocks /\ p \in Own(<<p, o>>) /\ p \in PageIndex /\ Aligned(p, o)
<1>1. p \in PageIndex /\ Aligned(p, o)
  BY TypeFacts
<1> QED
  BY <1>1, Listed, NumberFacts, OwnPage DEF Own

LEMMA HeldOwn ==
  ASSUME BuddyTypeOK, NEW b \in held
  PROVE  b[1] \in Own(b) /\ b[1] \in PageIndex /\ b[2] \in Order
<1>1. b[1] \in PageIndex /\ b[2] \in Order
  BY DEF BuddyTypeOK
<1> QED
  BY <1>1, NumberFacts, OwnPage DEF Own

\* While a block is taken off its list and its count is raised, nothing moves.
LEMMA TakenInv ==
  ASSUME BuddyInv, NEW t \in Caller, Taken(t)
  PROVE  BuddyInv'
<1> DEFINE c == doing[t]
           p == c.page
           d == [c EXCEPT !.pc = "split"]
<1>1. /\ BuddyTypeOK /\ CallsSound /\ Partitioned /\ Coalesced /\ HeldAligned /\ CountsFree /\ FreeMarked
  BY DEF BuddyInv
<1>2. /\ c.pc = "taken" /\ count' = [count EXCEPT ![p] = @ + 1]
      /\ flag' = [flag EXCEPT ![p] = FALSE] /\ blockOrder' = [blockOrder EXCEPT ![p] = 0]
      /\ Goes(t, d) /\ UNCHANGED <<list, held>>
  BY DEF Taken
<1>3. Cutting(t)
  BY <1>2 DEF Cutting
<1>4. /\ c \in AllocCall /\ p \in PageIndex
      /\ c.at \in Order /\ c.order \in Order /\ c.order <= c.at /\ Alone(t)
      /\ Aligned(p, c.at) /\ p \in BlockPages(p, c.order)
      /\ InUse = held \cup {<<p, c.order>>}
      /\ ListedBlocks \cap InUse = {} /\ <<p, c.order>> \notin held
      /\ Part(ListedBlocks \cup InUse, Rests)
  BY <1>3, CuttingFacts
<1>5. d \in AllocCall /\ d.pc = "split" /\ d.page = p /\ d.at = c.at /\ d.order = c.order
  BY <1>4 DEF AllocCall
<1>6. d \in CallState
  BY <1>5 DEF CallState
<1> HIDE DEF d
<1>7. /\ doing' \in [Caller -> CallState] /\ doing'[t] = d /\ Alone(t)'
      /\ \A u \in Caller : u # t => Cut(u)' = Cut(u) /\ Rest(u)' = Rest(u)
  BY <1>1, <1>2, <1>4, <1>6, OthersStay
<1>8. Cut(t)' = Cut(t) /\ Rest(t)' = Rest(t)
  BY <1>2, <1>5, <1>7 DEF Cut, Rest
\* The block taken shares no page with the others.
<1>9. /\ \A o \in Order : p \notin ToSet(list[o])
      /\ \A b \in held : b[1] # p
      /\ p \in Usable
  <2> DEFINE x == <<p, c.order>>
  <2>1. x \in ListedBlocks \cup InUse /\ p \in Own(x)
    BY <1>4 DEF Own
  <2> HIDE DEF x
  <2>2. \A b \in ListedBlocks \cup InUse : p \in Own(b) => b = x
    BY <1>4, <2>1, PageOfOne
  <2>3. ASSUME NEW o \in Order, p \in ToSet(list[o]) PROVE FALSE
    <3>1. <<p, o>> \in ListedBlocks /\ p \in Own(<<p, o>>)
      BY <1>1, <2>3, ListedOwn
    <3>2. <<p, o>> = x
      BY <2>2, <3>1
    <3> QED
      BY <1>4, <3>1, <3>2 DEF x
  <2>4. ASSUME NEW b \in held, b[1] = p PROVE FALSE
    <3>1. p \in Own(b) /\ b \in InUse
      BY <1>1, <1>4, <2>4, HeldOwn
    <3>2. b = x
      BY <2>2, <3>1
    <3> QED
      BY <1>4, <3>2 DEF x
  <2>5. p \in Usable
    BY <1>4, <2>1 DEF Part, PagesOf, Own
  <2> QED
    BY <2>3, <2>4, <2>5
<1>10. ~Counts(t) /\ Counts(t)' /\ doing'[t].page = p
  BY <1>2, <1>5, <1>7 DEF Counts
<1>11. Heads = {b[1] : b \in held} /\ Heads' = {b[1] : b \in held} \cup {p}
  <2>1. Heads = {b[1] : b \in held} \cup {} /\ Heads' = {b[1] : b \in held'} \cup {p}
    BY <1>4, <1>7, <1>10, AloneHolds DEF AloneHasAll
  <2> QED
    BY <1>2, <2>1
<1>12. count[p] = 0
  BY <1>1, <1>4, <1>9, <1>11 DEF CountsFree
<1>13. BuddyTypeOK'
  <2>1. /\ count \in [PageIndex -> 0..MaxCount] /\ flag \in [PageIndex -> BOOLEAN]
        /\ blockOrder \in [PageIndex -> Order] /\ held \in SUBSET (PageIndex \X Order)
    BY <1>1 DEF BuddyTypeOK
  <2>2. count[p] + 1 \in 0..MaxCount
    BY <1>12, BuddyAssumption
  <2>3. /\ count' \in [PageIndex -> 0..MaxCount] /\ flag' \in [PageIndex -> BOOLEAN]
        /\ blockOrder' \in [PageIndex -> Order] /\ held' \in SUBSET (PageIndex \X Order)
    BY <1>2, <2>1, <2>2, NumberFacts
  <2> QED
    BY <1>1, <1>2, <1>7, <2>3, ListsStay, TypeStays
<1>14. OneCall' /\ CallsSound'
  <2>1. CallSound(t)'
    BY <1>4, <1>5, <1>7 DEF CallSound, Cutting
  <2> QED
    BY <1>7, <2>1, AloneHolds DEF AloneHasAll
<1>15. Partitioned'
  <2>1. \A u \in Caller : Cut(u)' = Cut(u) /\ Rest(u)' = Rest(u)
    BY <1>7, <1>8
  <2> QED
    BY <1>1, <1>2, <2>1, PartitionStays
<1>16. Coalesced' /\ HeldAligned'
  BY <1>1, <1>2 DEF Coalesced, HeldAligned
<1>17. CountsFree'
  <2>1. \A x \in PageIndex : count'[x] = IF x = p THEN count[p] + 1 ELSE count[x]
    BY <1>1, <1>2 DEF BuddyTypeOK
  <2> QED
    BY <1>1, <1>9, <1>11, <1>12, <2>1 DEF CountsFree
<1>18. FreeMarked'
  <2>1. \A u \in Caller : \A x : ~Putting(u, x)
    BY <1>2, <1>4 DEF Putting, Alone, Active
  <2>2. \A x \in PageIndex : x # p => flag'[x] = flag[x] /\ blockOrder'[x] = blockOrder[x]
    BY <1>1, <1>2 DEF BuddyTypeOK
  <2>3. \A o \in Order : \A x \in ToSet(list[o]) : x \in PageIndex /\ x # p
    BY <1>1, <1>9, TypeFacts
  <2> QED
    BY <1>1, <1>2, <2>1, <2>2, <2>3 DEF FreeMarked, Marked
<1> QED
  BY <1>13, <1>14, <1>15, <1>16, <1>17, <1>18 DEF BuddyInv

\* The upper half of what is left goes to its list.
LEMMA SplitEffect ==
  ASSUME BuddyInv, NEW t \in Caller, Split(t)
  PROVE  LET c == doing[t]
             o == c.at - 1
             p == c.page + Size[o]
         IN /\ c.pc = "split" /\ Cutting(t) /\ UNCHANGED <<count, flag, blockOrder, held>>
            /\ o \in Order /\ o < Top /\ c.order <= o /\ p \in PageIndex
            /\ Aligned(c.page, o) /\ Aligned(p, o)
            /\ <<p, o>> \notin ListedBlocks \cup InUse
            /\ BlockPages(p, o) \subseteq Rests
            /\ BlockPages(c.page, o) \cap PagesOf(ListedBlocks) = {}
            /\ ListsSound' /\ ListedBlocks' = ListedBlocks \cup {<<p, o>>}
            /\ \A q \in Order : ToSet(list'[q]) = ToSet(list[q]) \cup (IF q = o THEN {p} ELSE {})
            /\ doing' \in [Caller -> CallState]
            /\ doing'[t].pc = "put" /\ doing'[t].page = c.page
            /\ doing'[t].at = o /\ doing'[t].order = c.order /\ Alone(t)'
            /\ Cut(t)' = Cut(t) /\ InUse' = InUse
            /\ Rests' = Rests \ BlockPages(p, o)
<1> DEFINE c == doing[t]
           o == c.at - 1
           p == c.page + Size[o]
           d == [c EXCEPT !.pc = "put", !.at = @ - 1]
<1>1. /\ c.pc = "split" /\ c.at > c.order /\ list' = [list EXCEPT ![o] = Append(@, p)]
      /\ Goes(t, d) /\ UNCHANGED <<count, flag, blockOrder, held>>
  BY DEF Split
<1>2. Cutting(t)
  BY <1>1 DEF Cutting
<1>3. /\ c \in AllocCall /\ c.page \in PageIndex
      /\ c.at \in Order /\ c.order \in Order /\ c.order <= c.at /\ Alone(t)
      /\ Aligned(c.page, c.at)
      /\ Cut(t) = {<<c.page, c.order>>} /\ InUse = held \cup {<<c.page, c.order>>}
      /\ Rest(t) = BlockPages(c.page, c.at) \ BlockPages(c.page, c.order) /\ Rests = Rest(t)
      /\ Part(ListedBlocks \cup InUse, Rests)
  BY <1>2, CuttingFacts
<1>4. BuddyTypeOK
  BY DEF BuddyInv
<1>5. o \in Order /\ c.order <= o /\ o < Top /\ o + 1 = c.at
  <2>1. c.at \in Nat /\ c.order \in Nat /\ c.at <= Top /\ Top \in Nat
    BY <1>3, NumberFacts
  <2>2. c.at # 0 /\ c.order <= o /\ o < Top /\ o + 1 = c.at
    BY <1>1, <2>1
  <2> QED
    BY <1>3, <2>2, SizeFacts
<1> HIDE DEF c, o
<1>6. /\ p \in Nat /\ BlockPages(c.page, c.at) = BlockPages(c.page, o) \cup BlockPages(p, o)
      /\ BlockPages(c.page, o) \cap BlockPages(p, o) = {}
      /\ Aligned(c.page, o) /\ Aligned(p, o)
  <2>1. c.page \in Nat
    BY <1>3, NumberFacts
  <2>2. /\ c.page + Size[o] \in Nat
        /\ BlockPages(c.page, o + 1) = BlockPages(c.page, o) \cup BlockPages(c.page + Size[o], o)
        /\ BlockPages(c.page, o) \cap BlockPages(c.page + Size[o], o) = {}
        /\ Aligned(c.page, o + 1) => Aligned(c.page, o) /\ Aligned(c.page + Size[o], o)
    BY <1>5, <2>1, Halves
  <2> QED
    BY <1>3, <1>5, <2>2
<1> HIDE DEF p, d
<1>7. BlockPages(c.page, c.order) \subseteq BlockPages(c.page, o)
  BY <1>3, <1>5, NumberFacts, InsideSame
<1>8. BlockPages(p, o) \subseteq Rests /\ p \in BlockPages(p, o)
  BY <1>3, <1>5, <1>6, <1>7, OwnPage
<1>9. <<p, o>> \notin ListedBlocks \cup InUse /\ p \in PageIndex
  <2>1. ASSUME <<p, o>> \in ListedBlocks \cup InUse PROVE FALSE
    <3>1. p \in Own(<<p, o>>)
      BY <1>8 DEF Own
    <3>2. p \notin Rests
      BY <1>3, <2>1, <3>1, PageOfOne
    <3> QED
      BY <1>8, <3>2
  <2>2. p \in Usable
    BY <1>3, <1>8 DEF Part
  <2> QED
    BY <2>1, <2>2, NumberFacts
<1>10. p \notin ToSet(list[o])
  BY <1>5, <1>9, Listed
<1>11. /\ ListsSound' /\ ListedBlocks' = ListedBlocks \cup {<<p, o>>}
       /\ \A q \in Order : ToSet(list'[q]) = ToSet(list[q]) \cup (IF q = o THEN {p} ELSE {})
  <2>1. Appends(o, p)
    BY <1>1 DEF Appends
  <2> QED
    BY <2>1, <1>4, <1>5, <1>6, <1>9, <1>10, ListAppends
<1>12. BlockPages(c.page, o) \cap PagesOf(ListedBlocks) = {}
  <2>1. BlockPages(c.page, o) \subseteq Rests \cup Own(<<c.page, c.order>>)
    BY <1>3, <1>6 DEF Own
  <2>2. ListedBlocks \cap InUse = {}
    BY <1>2, CuttingFacts
  <2>3. <<c.page, c.order>> \in InUse
    BY <1>3
  <2>4. Own(<<c.page, c.order>>) \cap PagesOf(ListedBlocks) = {}
    BY <1>3, <2>2, <2>3, PartOthers
  <2>5. Rests \cap PagesOf(ListedBlocks) = {}
    BY <1>3 DEF Part, PagesOf
  <2> QED
    BY <2>1, <2>4, <2>5
<1>13. d \in AllocCall /\ d.pc = "put" /\ d.page = c.page /\ d.at = o /\ d.order = c.order
  <2>1. d = [c EXCEPT !.pc = "put", !.at = o]
    BY DEF d, o, c
  <2> QED
    BY <1>3, <1>5, <2>1 DEF AllocCall
<1>14. d \in CallState
  BY <1>13 DEF CallState
<1>15. doing' \in [Caller -> CallState] /\ doing'[t] = d /\ Alone(t)'
  BY <1>1, <1>3, <1>4, <1>14, OthersStay
<1>16. /\ Cut(t)' = {<<c.page, c.order>>}
       /\ Rest(t)' = BlockPages(c.page, o) \ BlockPages(c.page, c.order)
  BY <1>13, <1>15 DEF Cut, Rest
<1>17. InUse' = held' \cup Cut(t)' /\ Rests' = Rest(t)'
  BY <1>15, AloneHolds DEF AloneHasAll
<1>18. InUse' = InUse /\ Cut(t)' = Cut(t)
  BY <1>1, <1>3, <1>16, <1>17
<1>19. Rests' = Rests \ BlockPages(p, o)
  BY <1>3, <1>6, <1>7, <1>16, <1>17
<1> QED
  BY <1>1, <1>2, <1>5, <1>6, <1>8, <1>9, <1>11, <1>12, <1>13, <1>15, <1>18, <1>19, <1>3 DEF c, o, p

\* The buddy of the lower half is the upper one.
LEMMA UpperBuddy ==
  ASSUME NEW p \in Nat, NEW o \in Order, o < Top, Aligned(p, o + 1)
  PROVE  BuddyOf(p, o) = p + Size[o] /\ BuddyOf(p + Size[o], o) = p
<1> DEFINE b == BuddyOf(p, o)
<1>1. o + 1 \in Order /\ Size[o + 1] = 2 * Size[o] /\ Size[o] \in Nat \ {0} /\ o \in Nat /\ o <= o + 1
  BY SizeFacts
<1>2. Aligned(p, o)
  BY <1>1, AlignedBelow
<1>3. /\ b \in Nat /\ b # p /\ BuddyOf(b, o) = p
      /\ Aligned(IF b < p THEN b ELSE p, o + 1)
  BY <1>2, BuddyFacts
<1>4. b = p + Size[o] \/ b = p - Size[o]
  BY DEF BuddyOf
<1> HIDE DEF b
<1>5. b # p - Size[o]
  <2>1. SUFFICES ASSUME b = p - Size[o] PROVE FALSE
    OBVIOUS
  <2>2. b < p /\ Aligned(b, o + 1)
    BY <1>1, <1>3, <2>1
  <2>3. b + Size[o + 1] <= p
    BY <1>1, <1>3, <2>2, AlignedApart
  <2> QED
    BY <1>1, <2>1, <2>3
<1> QED
  BY <1>3, <1>4, <1>5 DEF b

LEMMA SplitInv ==
  ASSUME BuddyInv, NEW t \in Caller, Split(t)
  PROVE  BuddyInv'
<1> DEFINE c == doing[t]
           o == c.at - 1
           p == c.page + Size[o]
<1>1. /\ BuddyTypeOK /\ CallsSound /\ Coalesced /\ HeldAligned /\ CountsFree /\ FreeMarked
  BY DEF BuddyInv
<1>2. /\ c.pc = "split" /\ Cutting(t) /\ UNCHANGED <<count, flag, blockOrder, held>>
      /\ o \in Order /\ o < Top /\ c.order <= o /\ p \in PageIndex
      /\ Aligned(c.page, o) /\ Aligned(p, o)
      /\ <<p, o>> \notin ListedBlocks \cup InUse
      /\ BlockPages(p, o) \subseteq Rests
      /\ BlockPages(c.page, o) \cap PagesOf(ListedBlocks) = {}
  BY SplitEffect
<1>3. /\ ListsSound' /\ ListedBlocks' = ListedBlocks \cup {<<p, o>>}
      /\ \A q \in Order : ToSet(list'[q]) = ToSet(list[q]) \cup (IF q = o THEN {p} ELSE {})
  BY SplitEffect
<1>4. /\ doing' \in [Caller -> CallState]
      /\ doing'[t].pc = "put" /\ doing'[t].page = c.page
      /\ doing'[t].at = o /\ doing'[t].order = c.order /\ Alone(t)'
      /\ Cut(t)' = Cut(t) /\ InUse' = InUse
      /\ Rests' = Rests \ BlockPages(p, o)
  BY SplitEffect
<1>5. /\ c.page \in PageIndex /\ c.at \in Order /\ c.order \in Order /\ Alone(t)
      /\ Aligned(c.page, c.at) /\ ListedBlocks \cap InUse = {} /\ <<c.page, c.order>> \notin held
      /\ Cut(t) = {<<c.page, c.order>>}
      /\ Part(ListedBlocks \cup InUse, Rests)
  BY <1>2, CuttingFacts
<1>6. c.page \in Nat /\ o + 1 = c.at /\ p = c.page + Size[o]
  <2>1. c.page \in Nat /\ c.at \in Nat
    BY <1>5, NumberFacts
  <2>2. o + 1 = c.at
    <3> HIDE DEF c
    <3> QED
      BY <2>1
  <2> QED
    BY <2>1, <2>2
<1>7. BuddyOf(p, o) = c.page
  BY <1>2, <1>5, <1>6, UpperBuddy
<1> HIDE DEF c, o, p
<1>8. BuddyTypeOK'
  <2>1. /\ count' \in [PageIndex -> 0..MaxCount] /\ flag' \in [PageIndex -> BOOLEAN]
        /\ blockOrder' \in [PageIndex -> Order] /\ held' \in SUBSET (PageIndex \X Order)
    BY <1>1, <1>2 DEF BuddyTypeOK
  <2> QED
    BY <1>3, <1>4, <2>1, TypeStays
<1>9. OneCall' /\ CallsSound'
  <2>1. p \in ToSet(list'[o])
    BY <1>2, <1>3
  <2>2. CallSound(t)'
    BY <1>2, <1>4, <1>6, <2>1 DEF CallSound, Cutting
  <2> QED
    BY <1>4, <2>2, AloneHolds DEF AloneHasAll
<1>10. Partitioned'
  <2> DEFINE B == ListedBlocks \cup InUse
             d == <<p, o>>
  <2>1. Own(d) \subseteq Rests
    BY <1>2 DEF Own
  <2>2. Rests' = Rests \ Own(d)
    BY <1>4 DEF Own
  <2> HIDE DEF d
  <2>3. Part(B \cup {d}, Rests \ Own(d))
    BY <1>5, <2>1, PartAdd
  <2>4. (ListedBlocks \cup InUse)' = B \cup {d}
    BY <1>3, <1>4 DEF d
  <2> HIDE DEF B
  <2>5. Part(ListedBlocks \cup InUse, Rests)'
    BY <2>2, <2>3, <2>4 DEF Part, PagesOf, Disjoint
  <2>6. (ListedBlocks \cap InUse)' = {}
    BY <1>2, <1>3, <1>4, <1>5
  <2>7. Cut(t)' \cap held' = {}
    BY <1>2, <1>4, <1>5
  <2>8. Separate'
    BY <1>4, <2>6, <2>7, AloneHolds DEF AloneHasAll, Separate
  <2> QED
    BY <2>5, <2>8, PartitionedHolds DEF PartitionedMeans
<1>11. Coalesced'
  <2>1. c.page \notin ToSet(list[o]) /\ c.page # p
    <3>1. c.page \in BlockPages(c.page, o)
      BY <1>2, <1>6, OwnPage
    <3>2. c.page \notin ToSet(list[o])
      <4>1. SUFFICES ASSUME c.page \in ToSet(list[o]) PROVE FALSE
        OBVIOUS
      <4>2. <<c.page, o>> \in ListedBlocks
        BY <1>2, <4>1, Listed
      <4>3. c.page \in PagesOf(ListedBlocks)
        BY <3>1, <4>2 DEF PagesOf
      <4> QED
        BY <1>2, <3>1, <4>3
    <3>3. c.page # p
      BY <1>2, <1>6, SizeFacts
    <3> QED
      BY <3>2, <3>3
  <2>2. ASSUME NEW q \in 0..Top - 1, NEW x \in ToSet(list'[q]) PROVE BuddyOf(x, q) \notin ToSet(list'[q])
    <3>1. q \in Order /\ q < Top
      BY BuddyAssumption DEF Order
    <3>2. CASE q # o
      BY <1>1, <1>3, <2>2, <3>1, <3>2 DEF Coalesced
    <3>3. CASE q = o /\ x = p
      BY <1>3, <1>7, <2>1, <3>1, <3>3
    <3>4. CASE q = o /\ x # p
      <4>1. x \in ToSet(list[o]) /\ x \in Nat /\ Aligned(x, o)
        BY <1>1, <1>2, <1>3, <2>2, <3>4, TypeFacts, NumberFacts
      <4>2. BuddyOf(x, o) \notin ToSet(list[o])
        BY <1>1, <3>4, <4>1 DEF Coalesced
      <4>3. BuddyOf(x, o) # p
        <5>1. BuddyOf(BuddyOf(x, o), o) = x
          BY <1>2, <4>1, BuddyFacts
        <5> QED
          BY <1>7, <2>1, <4>1, <5>1
      <4> QED
        BY <1>3, <3>1, <3>4, <4>2, <4>3
    <3> QED
      BY <3>2, <3>3, <3>4
  <2> QED
    BY <2>2 DEF Coalesced
<1>12. HeldAligned'
  BY <1>1, <1>2 DEF HeldAligned
<1>13. CountsFree'
  <2>1. Counts(t) /\ Counts(t)' /\ doing'[t].page = doing[t].page
    BY <1>2, <1>4 DEF Counts, c
  <2>2. Heads' = Heads
    BY <1>2, <1>4, <1>5, <2>1, AloneHolds DEF AloneHasAll
  <2> QED
    BY <1>1, <1>2, <2>2 DEF CountsFree
<1>14. FreeMarked'
  <2>1. \A u \in Caller : \A x : ~Putting(u, x)
    BY <1>2, <1>5 DEF Putting, Alone, Active, c
  <2>2. ASSUME NEW x, x = p PROVE Putting(t, x)'
    BY <1>4, <1>6, <2>2 DEF Putting
  <2>3. ASSUME NEW q \in Order, NEW x \in ToSet(list'[q])
        PROVE  Marked(x, q)' \/ \E u \in Caller : Putting(u, x)'
    <3>1. CASE x \in ToSet(list[q])
      <4>1. Marked(x, q)
        BY <1>1, <2>1, <3>1 DEF FreeMarked
      <4> QED
        BY <1>2, <4>1 DEF Marked
    <3>2. CASE x \notin ToSet(list[q])
      <4>1. x = p
        BY <1>3, <2>3, <3>2
      <4> QED
        BY <2>2, <4>1
    <3> QED
      BY <3>1, <3>2
  <2> QED
    BY <2>3 DEF FreeMarked
<1> QED
  BY <1>8, <1>9, <1>10, <1>11, <1>12, <1>13, <1>14 DEF BuddyInv

LEMMA PutUpperInv ==
  ASSUME BuddyInv, NEW t \in Caller, PutUpper(t)
  PROVE  BuddyInv'
<1> DEFINE c == doing[t]
           b == c.page + Size[c.at]
           d == [c EXCEPT !.pc = "split"]
<1>1. /\ BuddyTypeOK /\ CallsSound /\ Partitioned /\ Coalesced /\ HeldAligned /\ CountsFree /\ FreeMarked
  BY DEF BuddyInv
<1>2. /\ c.pc = "put" /\ flag' = [flag EXCEPT ![b] = TRUE] /\ blockOrder' = [blockOrder EXCEPT ![b] = c.at]
      /\ Goes(t, d) /\ UNCHANGED <<list, count, held>>
  BY DEF PutUpper
<1>3. Cutting(t)
  BY <1>2 DEF Cutting
<1>4. /\ c \in AllocCall /\ c.page \in PageIndex
      /\ c.at \in Order /\ c.order \in Order /\ c.order <= c.at /\ Alone(t)
      /\ Aligned(c.page, c.at)
      /\ Part(ListedBlocks \cup InUse, Rests)
  BY <1>3, CuttingFacts
<1>5. b \in ToSet(list[c.at]) /\ b \in PageIndex
  <2>1. b \in ToSet(list[c.at])
    BY <1>1, <1>2 DEF CallsSound, CallSound
  <2> QED
    BY <1>1, <1>4, <2>1, ListedOwn
<1>6. d \in AllocCall /\ d.pc = "split" /\ d.page = c.page /\ d.at = c.at /\ d.order = c.order
  BY <1>4 DEF AllocCall
<1>7. d \in CallState
  BY <1>6 DEF CallState
<1> HIDE DEF d
<1>8. /\ doing' \in [Caller -> CallState] /\ doing'[t] = d /\ Alone(t)'
      /\ \A u \in Caller : u # t => Cut(u)' = Cut(u) /\ Rest(u)' = Rest(u)
  BY <1>1, <1>2, <1>4, <1>7, OthersStay
<1>9. Cut(t)' = Cut(t) /\ Rest(t)' = Rest(t)
  BY <1>2, <1>6, <1>8 DEF Cut, Rest
<1>10. BuddyTypeOK'
  <2>1. /\ count \in [PageIndex -> 0..MaxCount] /\ flag \in [PageIndex -> BOOLEAN]
        /\ blockOrder \in [PageIndex -> Order] /\ held \in SUBSET (PageIndex \X Order)
    BY <1>1 DEF BuddyTypeOK
  <2>2. /\ count' \in [PageIndex -> 0..MaxCount] /\ flag' \in [PageIndex -> BOOLEAN]
        /\ blockOrder' \in [PageIndex -> Order] /\ held' \in SUBSET (PageIndex \X Order)
    BY <1>2, <1>4, <2>1
  <2> QED
    BY <1>1, <1>2, <1>8, <2>2, ListsStay, TypeStays
<1>11. OneCall' /\ CallsSound'
  <2>1. CallSound(t)'
    BY <1>4, <1>6, <1>8 DEF CallSound, Cutting
  <2> QED
    BY <1>8, <2>1, AloneHolds DEF AloneHasAll
<1>12. Partitioned'
  <2>1. \A u \in Caller : Cut(u)' = Cut(u) /\ Rest(u)' = Rest(u)
    BY <1>8, <1>9
  <2> QED
    BY <1>1, <1>2, <2>1, PartitionStays
<1>13. Coalesced' /\ HeldAligned'
  BY <1>1, <1>2 DEF Coalesced, HeldAligned
<1>14. CountsFree'
  <2>1. Counts(t) /\ Counts(t)' /\ doing'[t].page = doing[t].page
    BY <1>2, <1>6, <1>8 DEF Counts
  <2>2. Heads' = Heads
    BY <1>2, <1>4, <1>8, <2>1, AloneHolds DEF AloneHasAll
  <2> QED
    BY <1>1, <1>2, <2>2 DEF CountsFree
<1>15. FreeMarked'
  <2>1. \A u \in Caller : \A x : Putting(u, x) => x = b
    BY <1>4 DEF Putting, Alone, Active
  <2>2. /\ \A x \in PageIndex : x # b => flag'[x] = flag[x] /\ blockOrder'[x] = blockOrder[x]
        /\ flag'[b] = TRUE /\ blockOrder'[b] = c.at
    BY <1>1, <1>2, <1>5 DEF BuddyTypeOK
  <2>3. ASSUME NEW q \in Order, NEW x \in ToSet(list[q]) PROVE Marked(x, q)'
    <3>1. <<x, q>> \in ListedBlocks /\ x \in Own(<<x, q>>) /\ x \in PageIndex
      BY <1>1, <2>3, ListedOwn
    <3>2. CASE x = b
      <4>1. <<b, c.at>> \in ListedBlocks /\ b \in Own(<<b, c.at>>)
        BY <1>1, <1>4, <1>5, ListedOwn
      <4>2. <<x, q>> = <<b, c.at>>
        BY <1>4, <3>1, <3>2, <4>1, PageOfOne
      <4>3. q = c.at
        BY <4>2
      <4> QED
        BY <2>2, <3>2, <4>3 DEF Marked
    <3>3. CASE x # b
      <4>1. Marked(x, q)
        BY <1>1, <2>1, <3>3 DEF FreeMarked
      <4> QED
        BY <2>2, <3>1, <3>3, <4>1 DEF Marked
    <3> QED
      BY <3>2, <3>3
  <2> QED
    BY <1>2, <2>3 DEF FreeMarked
<1> QED
  BY <1>10, <1>11, <1>12, <1>13, <1>14, <1>15 DEF BuddyInv

LEMMA AllocReturnsEffect ==
  ASSUME BuddyInv, NEW t \in Caller, AllocReturns(t)
  PROVE  LET c == doing[t] IN
         /\ Cutting(t) /\ Counts(t) /\ UNCHANGED <<list, count, flag, blockOrder>>
         /\ held' = held \cup {<<c.page, c.order>>}
         /\ doing' \in [Caller -> CallState] /\ doing'[t] = NoCall /\ Alone(t)'
         /\ Cut(t)' = {} /\ InUse' = InUse /\ Rests = {} /\ Rests' = {}
         /\ ListedBlocks' = ListedBlocks
<1> DEFINE c == doing[t]
<1>1. /\ c.pc = "split" /\ c.at = c.order /\ held' = held \cup {<<c.page, c.order>>}
      /\ Goes(t, NoCall) /\ UNCHANGED <<list, count, flag, blockOrder>>
  BY DEF AllocReturns
<1>2. Cutting(t) /\ Counts(t)
  BY <1>1 DEF Cutting, Counts
<1>3. /\ Alone(t) /\ InUse = held \cup {<<c.page, c.order>>}
      /\ Rest(t) = BlockPages(c.page, c.at) \ BlockPages(c.page, c.order) /\ Rests = Rest(t)
  BY <1>2, CuttingFacts
<1>4. NoCall \in CallState /\ NoCall.pc = "idle" /\ BuddyTypeOK
  BY DEF CallState, NoCall, BuddyInv
<1>5. doing' \in [Caller -> CallState] /\ doing'[t] = NoCall /\ Alone(t)'
  BY <1>1, <1>3, <1>4, OthersStay
<1>6. Cut(t)' = {} /\ Rest(t)' = {}
  BY <1>4, <1>5 DEF Cut, Rest
<1>7. InUse' = held' \cup Cut(t)' /\ Rests' = Rest(t)'
  BY <1>5, AloneHolds DEF AloneHasAll
<1>8. InUse' = InUse /\ Rests = {} /\ Rests' = {}
  BY <1>1, <1>3, <1>6, <1>7
<1>9. ListedBlocks' = ListedBlocks
  BY <1>1, <1>4, ListsStay
<1> QED
  BY <1>1, <1>2, <1>5, <1>6, <1>8, <1>9

LEMMA AllocReturnsInv ==
  ASSUME BuddyInv, NEW t \in Caller, AllocReturns(t)
  PROVE  BuddyInv'
<1> DEFINE c == doing[t]
<1>1. /\ BuddyTypeOK /\ CallsSound /\ Partitioned /\ Coalesced /\ HeldAligned /\ CountsFree /\ FreeMarked
  BY DEF BuddyInv
<1>2. /\ Cutting(t) /\ Counts(t) /\ UNCHANGED <<list, count, flag, blockOrder>>
      /\ held' = held \cup {<<c.page, c.order>>}
      /\ doing' \in [Caller -> CallState] /\ doing'[t] = NoCall /\ Alone(t)'
      /\ Cut(t)' = {} /\ InUse' = InUse /\ Rests = {} /\ Rests' = {}
      /\ ListedBlocks' = ListedBlocks
  BY AllocReturnsEffect
<1>3. /\ c.page \in PageIndex /\ c.order \in Order /\ Alone(t) /\ Aligned(c.page, c.order)
      /\ ListedBlocks \cap InUse = {} /\ Part(ListedBlocks \cup InUse, Rests)
  BY <1>2, CuttingFacts
<1>4. c.pc = "split"
  BY DEF AllocReturns
<1> HIDE DEF c
<1>5. BuddyTypeOK'
  <2>1. /\ count' \in [PageIndex -> 0..MaxCount] /\ flag' \in [PageIndex -> BOOLEAN]
        /\ blockOrder' \in [PageIndex -> Order] /\ held' \in SUBSET (PageIndex \X Order)
    BY <1>1, <1>2, <1>3 DEF BuddyTypeOK
  <2> QED
    BY <1>1, <1>2, <2>1, ListsStay, TypeStays
<1>6. OneCall' /\ CallsSound'
  <2>1. CallSound(t)'
    BY <1>2 DEF CallSound, Cutting, NoCall
  <2> QED
    BY <1>2, <2>1, AloneHolds DEF AloneHasAll
<1>7. Partitioned'
  <2>1. Part(ListedBlocks \cup InUse, Rests)'
    BY <1>2, <1>3 DEF Part, PagesOf, Disjoint
  <2>2. (ListedBlocks \cap InUse)' = {} /\ Cut(t)' \cap held' = {}
    BY <1>2, <1>3
  <2>3. Separate'
    BY <1>2, <2>2, AloneHolds DEF AloneHasAll, Separate
  <2> QED
    BY <2>1, <2>3, PartitionedHolds DEF PartitionedMeans
<1>8. Coalesced'
  BY <1>1, <1>2 DEF Coalesced
<1>9. HeldAligned'
  BY <1>1, <1>2, <1>3 DEF HeldAligned
<1>10. CountsFree'
  <2>1. ~Counts(t)'
    BY <1>2 DEF Counts, NoCall
  <2>2. Heads = {b[1] : b \in held} \cup {c.page} /\ Heads' = {b[1] : b \in held'} \cup {}
    BY <1>2, <1>3, <2>1, AloneHolds DEF AloneHasAll, c
  <2>3. {b[1] : b \in held'} = {b[1] : b \in held} \cup {c.page}
    <3> DEFINE d == <<c.page, c.order>>
    <3>1. d[1] = c.page /\ held' = held \cup {d}
      BY <1>2
    <3> HIDE DEF d
    <3>2. {b[1] : b \in held \cup {d}} = {b[1] : b \in held} \cup {d[1]}
      OBVIOUS
    <3> QED
      BY <3>1, <3>2
  <2> QED
    BY <1>1, <1>2, <2>2, <2>3 DEF CountsFree
<1>11. FreeMarked'
  <2>1. \A u \in Caller : \A x : ~Putting(u, x)
    BY <1>3, <1>4 DEF Putting, Alone, Active, c
  <2> QED
    BY <1>1, <1>2, <2>1 DEF FreeMarked, Marked
<1> QED
  BY <1>5, <1>6, <1>7, <1>8, <1>9, <1>10, <1>11 DEF BuddyInv

LEMMA ReferencePageInv ==
  ASSUME BuddyInv, NEW b \in held, ReferencePage(b)
  PROVE  BuddyInv'
<1>1. /\ BuddyTypeOK /\ OneCall /\ CallsSound /\ Partitioned /\ Coalesced /\ HeldAligned
      /\ CountsFree /\ FreeMarked
  BY DEF BuddyInv
<1>2. /\ count[b[1]] \in 1..MaxCount - 1 /\ count' = [count EXCEPT ![b[1]] = @ + 1]
      /\ UNCHANGED <<list, flag, blockOrder, held, doing>>
  BY DEF ReferencePage
<1>3. b[1] \in PageIndex
  BY <1>1, HeldOwn
<1>4. BuddyTypeOK'
  <2>1. count \in [PageIndex -> 0..MaxCount]
    BY <1>1 DEF BuddyTypeOK
  <2>2. count[b[1]] + 1 \in 0..MaxCount
    BY <1>2, BuddyAssumption
  <2>3. count' \in [PageIndex -> 0..MaxCount]
    BY <1>2, <2>1, <2>2
  <2> QED
    BY <1>1, <1>2, <2>3 DEF BuddyTypeOK
<1>5. OneCall' /\ CallsSound'
  BY <1>1, <1>2 DEF OneCall, CallsSound, CallSound, Cutting, Active
<1>6. Partitioned'
  <2>1. \A u \in Caller : Cut(u)' = Cut(u) /\ Rest(u)' = Rest(u)
    BY <1>2 DEF Cut, Rest
  <2> QED
    BY <1>1, <1>2, <2>1, PartitionStays
<1>7. Coalesced' /\ HeldAligned' /\ FreeMarked'
  BY <1>1, <1>2 DEF Coalesced, HeldAligned, FreeMarked, Marked, Putting
<1>8. CountsFree'
  <2>1. Heads' = Heads
    BY <1>2 DEF Heads, Counts
  <2>2. \A x \in PageIndex : count'[x] = IF x = b[1] THEN count[x] + 1 ELSE count[x]
    BY <1>1, <1>2 DEF BuddyTypeOK
  <2>3. \A x \in PageIndex : count'[x] = 0 <=> count[x] = 0
    BY <1>2, <2>2
  <2> QED
    BY <1>1, <2>1, <2>3 DEF CountsFree
<1> QED
  BY <1>4, <1>5, <1>6, <1>7, <1>8 DEF BuddyInv

-----------------------------------------------------------------------------
(* Freeing.                                                                *)

LEMMA BeginsFacts ==
  ASSUME BuddyInv, NEW t \in Caller, Begins(t)
  PROVE  /\ Alone(t) /\ doing[t] = NoCall /\ \A u \in Caller : \A x : ~Putting(u, x)
         /\ InUse = held /\ Rests = {} /\ ListedBlocks \cap held = {}
         /\ Part(ListedBlocks \cup held, {})
         /\ Heads = {b[1] : b \in held}
<1>1. Alone(t) /\ doing[t] = NoCall /\ Partitioned
  BY BeginsAlone DEF BuddyInv
<1>2. Cut(t) = {} /\ Rest(t) = {} /\ ~Counts(t)
  BY <1>1 DEF Cut, Rest, Counts, NoCall
<1>3. Heads = {b[1] : b \in held} \cup {}
  BY <1>1, <1>2, AloneHolds DEF AloneHasAll
<1>4. \A u \in Caller : \A x : ~Putting(u, x)
  BY DEF Begins, Putting
<1> QED
  BY <1>1, <1>2, <1>3, <1>4, NothingInHand

\* Heads of blocks in use are the pages of no other one.
LEMMA HeadsDiffer ==
  ASSUME BuddyTypeOK, NEW B, NEW R, Part(B \cup held, R), NEW b \in held
  PROVE  \A c \in held : c[1] = b[1] => c = b
<1>1. SUFFICES ASSUME NEW c \in held, c[1] = b[1] PROVE c = b
  OBVIOUS
<1>2. b[1] \in Own(b) /\ c[1] \in Own(c)
  BY HeldOwn
<1>3. b \in B \cup held /\ c \in B \cup held /\ b[1] \in Own(c)
  BY <1>1, <1>2
<1> QED
  BY <1>2, <1>3, PageOfOne

\* Not the last reference.
Drops(b) ==
  /\ b \in held /\ count[b[1]] > 1 /\ count' = [count EXCEPT ![b[1]] = @ - 1]
  /\ UNCHANGED <<list, flag, blockOrder, held, doing>>

\* The last one.
Freed(b) == [pc |-> "merge", page |-> b[1], index |-> b[1], at |-> b[2]]
FreesLast(t, b) ==
  /\ Begins(t) /\ b \in held /\ count[b[1]] = 1 /\ count' = [count EXCEPT ![b[1]] = 0]
  /\ held' = held \ {b} /\ Goes(t, Freed(b))
  /\ UNCHANGED <<list, flag, blockOrder>>

LEMMA HeldCounted ==
  ASSUME BuddyInv, NEW b \in held
  PROVE  count[b[1]] \in Nat \ {0}
<1>1. BuddyTypeOK /\ CountsFree
  BY DEF BuddyInv
<1>2. b[1] \in PageIndex /\ b[1] \in Heads
  BY <1>1, HeldOwn DEF Heads
<1> QED
  BY <1>1, <1>2, BuddyAssumption DEF BuddyTypeOK, CountsFree

LEMMA FreePagesSplits ==
  ASSUME BuddyInv, NEW t \in Caller, NEW b \in held, FreePages(t, b)
  PROVE  Drops(b) \/ FreesLast(t, b)
<1>1. count[b[1]] \in Nat \ {0} /\ b[1] \in PageIndex /\ BuddyTypeOK
  BY HeldCounted, HeldOwn DEF BuddyInv
<1>2. CASE count[b[1]] > 1
  BY <1>2 DEF FreePages, Drops
<1>3. CASE ~(count[b[1]] > 1)
  <2>1. count[b[1]] = 1 /\ count[b[1]] - 1 = 0
    BY <1>1, <1>3
  <2>2. Begins(t) /\ held' = held \ {b} /\ Goes(t, Freed(b)) /\ UNCHANGED <<list, flag, blockOrder>>
    BY <1>3 DEF FreePages, Freed
  <2>3. count' = [count EXCEPT ![b[1]] = 0]
    BY <2>1 DEF FreePages
  <2> QED
    BY <2>1, <2>2, <2>3 DEF FreesLast
<1> QED
  BY <1>2, <1>3

LEMMA DropsInv ==
  ASSUME BuddyInv, NEW b \in held, Drops(b)
  PROVE  BuddyInv'
<1>1. /\ BuddyTypeOK /\ OneCall /\ CallsSound /\ Partitioned /\ Coalesced /\ HeldAligned
      /\ CountsFree /\ FreeMarked
  BY DEF BuddyInv
<1>2. /\ count[b[1]] > 1 /\ count' = [count EXCEPT ![b[1]] = @ - 1]
      /\ UNCHANGED <<list, flag, blockOrder, held, doing>>
  BY DEF Drops
<1>3. b[1] \in PageIndex
  BY <1>1, HeldOwn
<1>4. BuddyTypeOK'
  <2>1. count \in [PageIndex -> 0..MaxCount]
    BY <1>1 DEF BuddyTypeOK
  <2>2. count[b[1]] - 1 \in 0..MaxCount
    BY <1>2, <1>3, <2>1, BuddyAssumption
  <2>3. count' \in [PageIndex -> 0..MaxCount]
    BY <1>2, <2>1, <2>2
  <2> QED
    BY <1>1, <1>2, <2>3 DEF BuddyTypeOK
<1>5. OneCall' /\ CallsSound'
  BY <1>1, <1>2 DEF OneCall, CallsSound, CallSound, Cutting, Active
<1>6. Partitioned'
  <2>1. \A u \in Caller : Cut(u)' = Cut(u) /\ Rest(u)' = Rest(u)
    BY <1>2 DEF Cut, Rest
  <2> QED
    BY <1>1, <1>2, <2>1, PartitionStays
<1>7. Coalesced' /\ HeldAligned' /\ FreeMarked'
  BY <1>1, <1>2 DEF Coalesced, HeldAligned, FreeMarked, Marked, Putting
<1>8. CountsFree'
  <2>1. Heads' = Heads
    BY <1>2 DEF Heads, Counts
  <2>2. \A x \in PageIndex : count'[x] = IF x = b[1] THEN count[x] - 1 ELSE count[x]
    BY <1>1, <1>2 DEF BuddyTypeOK
  <2>3. count[b[1]] \in Nat \ {0}
    BY HeldCounted
  <2>4. \A x \in PageIndex : count'[x] = 0 <=> count[x] = 0
    BY <1>2, <2>2, <2>3
  <2> QED
    BY <1>1, <2>1, <2>4 DEF CountsFree
<1> QED
  BY <1>4, <1>5, <1>6, <1>7, <1>8 DEF BuddyInv

LEMMA FreesLastEffect ==
  ASSUME BuddyInv, NEW t \in Caller, NEW b \in held, FreesLast(t, b)
  PROVE  /\ doing' \in [Caller -> CallState] /\ doing'[t] = Freed(b) /\ Alone(t)'
         /\ InUse = held /\ InUse' = held \ {b} /\ Cut(t)' = {}
         /\ Rests = {} /\ Rests' = Own(b)
         /\ ListedBlocks' = ListedBlocks
<1>1. Begins(t) /\ held' = held \ {b} /\ Goes(t, Freed(b)) /\ UNCHANGED list
  BY DEF FreesLast
<1>2. Alone(t) /\ InUse = held /\ Rests = {}
  BY <1>1, BeginsFacts
<1>3. BuddyTypeOK /\ b[1] \in PageIndex /\ b[2] \in Order
  BY HeldOwn DEF BuddyInv
<1>4. Freed(b) \in CallState
  BY <1>3 DEF Freed, CallState, FreeCall
<1>5. doing' \in [Caller -> CallState] /\ doing'[t] = Freed(b) /\ Alone(t)'
  BY <1>1, <1>2, <1>3, <1>4, OthersStay
<1>6. Cut(t)' = {} /\ Rest(t)' = Own(b)
  BY <1>5 DEF Cut, Rest, Own, Freed
<1>7. InUse' = held' \cup Cut(t)' /\ Rests' = Rest(t)'
  BY <1>5, AloneHolds DEF AloneHasAll
<1>8. ListedBlocks' = ListedBlocks
  BY <1>1, <1>3, ListsStay
<1> QED
  BY <1>1, <1>2, <1>5, <1>6, <1>7, <1>8

LEMMA FreesLastInv ==
  ASSUME BuddyInv, NEW t \in Caller, NEW b \in held, FreesLast(t, b)
  PROVE  BuddyInv'
<1>1. /\ BuddyTypeOK /\ CallsSound /\ Coalesced /\ HeldAligned /\ CountsFree /\ FreeMarked
  BY DEF BuddyInv
<1>2. /\ Begins(t) /\ count' = [count EXCEPT ![b[1]] = 0] /\ held' = held \ {b}
      /\ UNCHANGED <<list, flag, blockOrder>>
  BY DEF FreesLast
<1>3. /\ doing' \in [Caller -> CallState] /\ doing'[t] = Freed(b) /\ Alone(t)'
      /\ InUse = held /\ InUse' = held \ {b} /\ Cut(t)' = {}
      /\ Rests = {} /\ Rests' = Own(b)
      /\ ListedBlocks' = ListedBlocks
  BY FreesLastEffect
<1>4. /\ Alone(t) /\ \A u \in Caller : \A x : ~Putting(u, x)
      /\ ListedBlocks \cap held = {} /\ Part(ListedBlocks \cup held, {})
      /\ Heads = {h[1] : h \in held}
  BY <1>2, BeginsFacts
<1>5. b[1] \in PageIndex /\ b[2] \in Order /\ b[1] \in Own(b) /\ Aligned(b[1], b[2])
  BY <1>1, HeldOwn DEF HeldAligned
<1>6. BuddyTypeOK'
  <2>1. /\ count \in [PageIndex -> 0..MaxCount] /\ flag \in [PageIndex -> BOOLEAN]
        /\ blockOrder \in [PageIndex -> Order] /\ held \in SUBSET (PageIndex \X Order)
    BY <1>1 DEF BuddyTypeOK
  <2>2. 0 \in 0..MaxCount
    BY BuddyAssumption
  <2>3. /\ count' \in [PageIndex -> 0..MaxCount] /\ flag' \in [PageIndex -> BOOLEAN]
        /\ blockOrder' \in [PageIndex -> Order] /\ held' \in SUBSET (PageIndex \X Order)
    BY <1>2, <2>1, <2>2
  <2> QED
    BY <1>1, <1>2, <1>3, <2>3, ListsStay, TypeStays
<1>7. OneCall' /\ CallsSound'
  <2>1. CallSound(t)'
    BY <1>3, <1>5 DEF CallSound, Cutting, Freed, Own
  <2> QED
    BY <1>3, <2>1, AloneHolds DEF AloneHasAll
<1>8. Partitioned'
  <2> DEFINE B == ListedBlocks \cup held
  <2>1. Part(B \ {b}, {} \cup Own(b))
    BY <1>4, PartRemove
  <2>2. (ListedBlocks \cup InUse)' = B \ {b}
    BY <1>3, <1>4
  <2> HIDE DEF B
  <2>3. Rests' = {} \cup Own(b)
    BY <1>3
  <2>4. Part(ListedBlocks \cup InUse, Rests)'
    BY <2>1, <2>2, <2>3 DEF Part, PagesOf, Disjoint
  <2>5. (ListedBlocks \cap InUse)' = {} /\ Cut(t)' \cap held' = {}
    BY <1>3, <1>4
  <2>6. Separate'
    BY <1>3, <2>5, AloneHolds DEF AloneHasAll, Separate
  <2> QED
    BY <2>4, <2>6, PartitionedHolds DEF PartitionedMeans
<1>9. Coalesced' /\ HeldAligned'
  BY <1>1, <1>2 DEF Coalesced, HeldAligned
<1>10. CountsFree'
  <2>1. ~Counts(t)'
    BY <1>3 DEF Counts, Freed
  <2>2. Heads' = {h[1] : h \in held'} \cup {}
    BY <1>3, <2>1, AloneHolds DEF AloneHasAll
  <2>3. \A h \in held : h[1] = b[1] => h = b
    BY <1>1, <1>4, HeadsDiffer
  <2>4. Heads' = Heads \ {b[1]}
    BY <1>2, <1>4, <2>2, <2>3
  <2>5. \A x \in PageIndex : count'[x] = IF x = b[1] THEN 0 ELSE count[x]
    BY <1>1, <1>2 DEF BuddyTypeOK
  <2>6. b[1] \in Usable
    <3>1. Own(b) \subseteq Usable
      BY <1>4, PartRemove
    <3> QED
      BY <1>5, <3>1
  <2> QED
    BY <1>1, <2>4, <2>5, <2>6 DEF CountsFree
<1>11. FreeMarked'
  BY <1>1, <1>2, <1>4 DEF FreeMarked, Marked
<1> QED
  BY <1>6, <1>7, <1>8, <1>9, <1>10, <1>11 DEF BuddyInv

LEMMA FreePagesInv ==
  ASSUME BuddyInv, NEW t \in Caller, NEW b \in held, FreePages(t, b)
  PROVE  BuddyInv'
BY FreePagesSplits, DropsInv, FreesLastInv

-----------------------------------------------------------------------------
(* Merging.                                                                *)

LEMMA MergeFacts ==
  ASSUME BuddyInv, NEW t \in Caller, doing[t].pc = "merge"
  PROVE  LET c == doing[t] IN
         /\ c \in FreeCall /\ c.page \in PageIndex /\ c.index \in PageIndex /\ c.at \in Order
         /\ Alone(t) /\ Aligned(c.index, c.at) /\ c.page \in BlockPages(c.index, c.at)
         /\ c.index \in BlockPages(c.index, c.at)
         /\ Cut(t) = {} /\ InUse = held /\ Rests = BlockPages(c.index, c.at)
         /\ ListedBlocks \cap held = {} /\ Part(ListedBlocks \cup held, Rests)
         /\ Heads = {b[1] : b \in held}
         /\ \A u \in Caller : \A x : ~Putting(u, x)
<1> DEFINE c == doing[t]
<1>1. BuddyTypeOK /\ OneCall /\ CallSound(t) /\ Partitioned
  BY DEF BuddyInv, CallsSound
<1>2. c \in FreeCall
  BY <1>1, TypeFacts, CallKinds
<1>3. c.page \in PageIndex /\ c.index \in PageIndex /\ c.at \in Order
  BY <1>2 DEF FreeCall
<1>4. Aligned(c.index, c.at) /\ c.page \in BlockPages(c.index, c.at)
  BY <1>1 DEF CallSound
<1>5. Alone(t)
  BY <1>1, ActiveAlone DEF Active
<1>6. c.index \in BlockPages(c.index, c.at)
  BY <1>3, NumberFacts, OwnPage
<1>7. Cut(t) = {} /\ Rest(t) = BlockPages(c.index, c.at) /\ ~Counts(t)
  BY DEF Cut, Rest, Counts
<1>8. InUse = held \cup Cut(t) /\ Rests = Rest(t) /\ Heads = {b[1] : b \in held} \cup {}
  BY <1>5, <1>7, AloneHolds DEF AloneHasAll
<1>9. InUse = held
  BY <1>7, <1>8
<1>10. ListedBlocks \cap held = {} /\ Part(ListedBlocks \cup held, Rests)
  BY <1>1, <1>9, PartitionedHolds DEF PartitionedMeans, Separate
<1>11. \A u \in Caller : \A x : ~Putting(u, x)
  BY <1>5 DEF Alone, Active, Putting
<1> QED
  BY <1>2, <1>3, <1>4, <1>5, <1>6, <1>7, <1>8, <1>9, <1>10, <1>11

\* The buddy of the block that is freed is a page there is.
LEMMA BuddyExists ==
  ASSUME NEW p \in PageIndex, NEW o \in Order, o < Top, Aligned(p, o)
  PROVE  BuddyOf(p, o) \in PageIndex
<1> DEFINE b == BuddyOf(p, o)
           m == IF b < p THEN b ELSE p
<1>1. /\ b \in Nat /\ Aligned(m, o + 1) /\ o + 1 \in Order /\ p \in Nat
      /\ BlockPages(m, o + 1) = BlockPages(p, o) \cup BlockPages(b, o)
  BY BuddyFacts, SizeFacts, NumberFacts
<1>2. CASE b < p
  <2>1. p < PageCount /\ PageCount \in Nat
    BY BuddyAssumption DEF PageIndex
  <2>2. b \in PageIndex
    <3> HIDE DEF b
    <3> QED
      BY <1>1, <1>2, <2>1 DEF PageIndex
  <2> QED
    BY <2>2
<1>3. CASE ~(b < p)
  <2>1. BlockPages(p, o + 1) \subseteq PageIndex
    BY <1>1, <1>3, PagesExist
  <2>2. b \in BlockPages(b, o)
    BY <1>1, OwnPage
  <2> QED
    BY <1>1, <1>3, <2>1, <2>2
<1> QED
  BY <1>2, <1>3

\* pageIsBuddy() is right: what looks like the buddy is a free block, of that
\* order, in its list.
LEMMA BuddyListed ==
  ASSUME BuddyInv, NEW t \in Caller, doing[t].pc = "merge", doing[t].at < Top,
         PageIsBuddy(BuddyOf(doing[t].index, doing[t].at), doing[t].at)
  PROVE  BuddyOf(doing[t].index, doing[t].at) \in ToSet(list[doing[t].at])
<1> DEFINE i == doing[t].index
           o == doing[t].at
           b == BuddyOf(i, o)
<1>1. BuddyTypeOK /\ HeldAligned /\ CountsFree /\ FreeMarked
  BY DEF BuddyInv
<1>2. /\ i \in PageIndex /\ o \in Order /\ Aligned(i, o) /\ i \in BlockPages(i, o)
      /\ Rests = BlockPages(i, o) /\ Part(ListedBlocks \cup held, Rests)
      /\ Heads = {h[1] : h \in held} /\ \A u \in Caller : \A x : ~Putting(u, x)
  BY MergeFacts
<1>3. o < Top /\ count[b] = 0 /\ flag[b] /\ blockOrder[b] = o
  BY DEF PageIsBuddy
<1> HIDE DEF i, o
<1>4. b \in PageIndex
  BY <1>2, <1>3, BuddyExists
<1>5. i \in Nat /\ b \in Nat /\ o \in Nat
  BY <1>2, <1>4, NumberFacts
<1>6. Aligned(b, o) /\ b # i /\ BuddyOf(b, o) = i
  BY <1>2, <1>3, <1>5, BuddyFacts
<1> HIDE DEF b
<1>7. b \in Usable /\ b \notin Heads
  BY <1>1, <1>3, <1>4 DEF CountsFree
<1>8. b \in BlockPages(b, o)
  BY <1>2, <1>5, OwnPage
<1>9. b \notin Rests
  BY <1>2, <1>5, <1>6, <1>8, SameBlock
<1>10. b \in PagesOf(ListedBlocks \cup held)
  BY <1>2, <1>7, <1>9 DEF Part
<1>11. PICK x \in ListedBlocks \cup held : b \in Own(x)
  BY <1>10 DEF PagesOf, Own
<1>12. PICK h, q : x = <<h, q>> /\ h \in PageIndex /\ q \in Order /\ Aligned(h, q)
  <2>1. CASE x \in held
    <3>1. x \in PageIndex \X Order /\ Aligned(x[1], x[2])
      BY <1>1, <2>1 DEF BuddyTypeOK, HeldAligned
    <3>2. x = <<x[1], x[2]>> /\ x[1] \in PageIndex /\ x[2] \in Order
      BY <3>1
    <3> QED
      BY <3>1, <3>2
  <2>2. CASE x \in ListedBlocks
    <3>1. PICK q \in Order : \E h \in ToSet(list[q]) : x = <<h, q>>
      BY <2>2 DEF ListedBlocks
    <3>2. PICK h \in ToSet(list[q]) : x = <<h, q>>
      BY <3>1
    <3>3. h \in PageIndex /\ Aligned(h, q)
      BY <1>1, ListedOwn
    <3> QED
      BY <3>2, <3>3
  <2> QED
    BY <1>11, <2>1, <2>2
<1>13. h \in Nat /\ q \in Nat /\ b \in BlockPages(h, q)
  BY <1>11, <1>12, NumberFacts DEF Own
<1>14. ~(o < q)
  <2>1. SUFFICES ASSUME o < q PROVE FALSE
    OBVIOUS
  <2>2. BlockPages(i, o) \subseteq BlockPages(h, q)
    BY <1>2, <1>5, <1>6, <1>12, <1>13, <2>1, BuddyInside
  <2>3. i \in Own(x)
    BY <1>2, <1>12, <2>2 DEF Own
  <2>4. i \notin Rests
    BY <1>2, <1>11, <2>3, PageOfOne
  <2> QED
    BY <1>2, <2>4
<1>15. h = b
  <2>1. q <= o
    BY <1>5, <1>13, <1>14
  <2>2. b <= h
    BY <1>2, <1>5, <1>6, <1>8, <1>12, <1>13, <2>1, Nested
  <2>3. h <= b
    BY <1>12, <1>13, SizeFacts DEF BlockPages
  <2> QED
    BY <1>5, <1>13, <2>2, <2>3
<1>16. x \notin held
  BY <1>2, <1>7, <1>12, <1>15
<1>17. b \in ToSet(list[q])
  BY <1>11, <1>12, <1>15, <1>16, Listed
<1>18. Marked(b, q)
  BY <1>1, <1>2, <1>12, <1>17 DEF FreeMarked
<1>19. q = o
  BY <1>3, <1>18 DEF Marked
<1> QED
  BY <1>17, <1>19 DEF b, i, o

LEMMA MergeEffect ==
  ASSUME BuddyInv, NEW t \in Caller, Merge(t)
  PROVE  LET c == doing[t]
             b == BuddyOf(c.index, c.at)
             m == IF b < c.index THEN b ELSE c.index
         IN /\ c.pc = "merge" /\ UNCHANGED <<count, held>>
            /\ flag' = [flag EXCEPT ![c.page] = FALSE]
            /\ blockOrder' = [blockOrder EXCEPT ![c.page] = 0]
            /\ <<b, c.at>> \in ListedBlocks
            /\ ListsSound' /\ ListedBlocks' = ListedBlocks \ {<<b, c.at>>}
            /\ \A q \in Order : ToSet(list'[q]) \subseteq ToSet(list[q])
            /\ doing' \in [Caller -> CallState]
            /\ doing'[t].pc = "merge" /\ doing'[t].page = c.page
            /\ doing'[t].index = m /\ doing'[t].at = c.at + 1 /\ Alone(t)'
            /\ Aligned(m, c.at + 1) /\ c.at + 1 \in Order
            /\ BlockPages(m, c.at + 1) = BlockPages(c.index, c.at) \cup BlockPages(b, c.at)
            /\ Cut(t)' = {} /\ InUse' = InUse
            /\ Rests' = Rests \cup BlockPages(b, c.at)
<1> DEFINE c == doing[t]
           b == BuddyOf(c.index, c.at)
           m == IF b < c.index THEN b ELSE c.index
           d == [c EXCEPT !.index = m, !.at = c.at + 1]
<1>1. /\ c.pc = "merge" /\ c.at < Top /\ PageIsBuddy(b, c.at)
      /\ flag' = [flag EXCEPT ![c.page] = FALSE]
      /\ blockOrder' = [blockOrder EXCEPT ![c.page] = 0]
      /\ Removes(c.at, b) /\ Goes(t, d) /\ UNCHANGED <<count, held>>
  BY DEF Merge, Removes
<1>2. BuddyTypeOK
  BY DEF BuddyInv
<1>3. /\ c \in FreeCall /\ c.page \in PageIndex /\ c.index \in PageIndex /\ c.at \in Order
      /\ Alone(t) /\ Aligned(c.index, c.at)
      /\ Cut(t) = {} /\ InUse = held /\ Rests = BlockPages(c.index, c.at)
  BY <1>1, MergeFacts
<1>4. b \in ToSet(list[c.at]) /\ b \in PageIndex /\ c.at + 1 \in Order
  BY <1>1, <1>2, <1>3, BuddyListed, ListedOwn, SizeFacts
<1>5. <<b, c.at>> \in ListedBlocks
  BY <1>3, <1>4, Listed
<1>6. /\ Aligned(m, c.at + 1)
      /\ BlockPages(m, c.at + 1) = BlockPages(c.index, c.at) \cup BlockPages(b, c.at)
  BY <1>1, <1>3, NumberFacts, BuddyFacts
<1> HIDE DEF b
<1>7. m \in PageIndex
  BY <1>3, <1>4
<1> HIDE DEF m, c
<1>8. d \in FreeCall /\ d.pc = "merge" /\ d.page = c.page /\ d.index = m /\ d.at = c.at + 1
  BY <1>1, <1>3, <1>4, <1>7 DEF FreeCall
<1> HIDE DEF d
<1>9. d \in CallState
  BY <1>8 DEF CallState
<1>10. doing' \in [Caller -> CallState] /\ doing'[t] = d /\ Alone(t)'
  BY <1>1, <1>2, <1>3, <1>9, OthersStay
<1>11. /\ ListsSound' /\ ListedBlocks' = ListedBlocks \ {<<b, c.at>>}
       /\ \A q \in Order : ToSet(list'[q]) = ToSet(list[q]) \ (IF q = c.at THEN {b} ELSE {})
  BY <1>1, <1>2, <1>3, ListRemoves
<1>12. \A q \in Order : ToSet(list'[q]) \subseteq ToSet(list[q])
  BY <1>11
<1>13. Cut(t)' = {} /\ Rest(t)' = BlockPages(m, c.at + 1)
  BY <1>8, <1>10 DEF Cut, Rest
<1>14. InUse' = held' \cup Cut(t)' /\ Rests' = Rest(t)'
  BY <1>10, AloneHolds DEF AloneHasAll
<1>15. InUse' = InUse /\ Rests' = Rests \cup BlockPages(b, c.at)
  BY <1>1, <1>3, <1>6, <1>13, <1>14
<1> QED
  BY <1>1, <1>4, <1>5, <1>6, <1>8, <1>10, <1>11, <1>12, <1>13, <1>15 DEF c, b, m

LEMMA MergeInv ==
  ASSUME BuddyInv, NEW t \in Caller, Merge(t)
  PROVE  BuddyInv'
<1> DEFINE c == doing[t]
           b == BuddyOf(c.index, c.at)
           m == IF b < c.index THEN b ELSE c.index
<1>1. /\ BuddyTypeOK /\ CallsSound /\ Coalesced /\ HeldAligned /\ CountsFree /\ FreeMarked
  BY DEF BuddyInv
<1>2. /\ c.pc = "merge" /\ UNCHANGED <<count, held>>
      /\ flag' = [flag EXCEPT ![c.page] = FALSE]
      /\ blockOrder' = [blockOrder EXCEPT ![c.page] = 0]
      /\ <<b, c.at>> \in ListedBlocks
  BY MergeEffect
<1>3. /\ ListsSound' /\ ListedBlocks' = ListedBlocks \ {<<b, c.at>>}
      /\ \A q \in Order : ToSet(list'[q]) \subseteq ToSet(list[q])
      /\ doing' \in [Caller -> CallState]
      /\ doing'[t].pc = "merge" /\ doing'[t].page = c.page
      /\ doing'[t].index = m /\ doing'[t].at = c.at + 1 /\ Alone(t)'
  BY MergeEffect
<1>4. /\ Aligned(m, c.at + 1)
      /\ BlockPages(m, c.at + 1) = BlockPages(c.index, c.at) \cup BlockPages(b, c.at)
      /\ Cut(t)' = {} /\ InUse' = InUse
      /\ Rests' = Rests \cup BlockPages(b, c.at)
  BY MergeEffect
<1>5. /\ c.page \in PageIndex /\ c.at \in Order
      /\ Alone(t) /\ c.page \in BlockPages(c.index, c.at)
      /\ InUse = held /\ Rests = BlockPages(c.index, c.at)
      /\ ListedBlocks \cap held = {} /\ Part(ListedBlocks \cup held, Rests)
      /\ Heads = {h[1] : h \in held}
      /\ \A u \in Caller : \A x : ~Putting(u, x)
  BY <1>2, MergeFacts
<1> HIDE DEF c, b, m
<1>6. BuddyTypeOK'
  <2>1. /\ count \in [PageIndex -> 0..MaxCount] /\ flag \in [PageIndex -> BOOLEAN]
        /\ blockOrder \in [PageIndex -> Order] /\ held \in SUBSET (PageIndex \X Order)
    BY <1>1 DEF BuddyTypeOK
  <2>2. /\ count' \in [PageIndex -> 0..MaxCount] /\ flag' \in [PageIndex -> BOOLEAN]
        /\ blockOrder' \in [PageIndex -> Order] /\ held' \in SUBSET (PageIndex \X Order)
    BY <1>2, <2>1, NumberFacts
  <2> QED
    BY <1>3, <2>2, TypeStays
<1>7. OneCall' /\ CallsSound'
  <2>1. CallSound(t)'
    BY <1>3, <1>4, <1>5 DEF CallSound, Cutting
  <2> QED
    BY <1>3, <2>1, AloneHolds DEF AloneHasAll
<1>8. Partitioned'
  <2> DEFINE B == ListedBlocks \cup held
             d == <<b, c.at>>
  <2>1. d \in B
    BY <1>2
  <2>2. Rests' = Rests \cup Own(d)
    BY <1>4 DEF Own
  <2> HIDE DEF d
  <2>3. Part(B \ {d}, Rests \cup Own(d))
    BY <1>5, <2>1, PartRemove
  <2>4. (ListedBlocks \cup InUse)' = B \ {d}
    <3>1. d \notin held
      BY <1>2, <1>5 DEF d
    <3> QED
      BY <1>3, <1>4, <1>5, <3>1 DEF d
  <2> HIDE DEF B
  <2>5. Part(ListedBlocks \cup InUse, Rests)'
    BY <2>2, <2>3, <2>4 DEF Part, PagesOf, Disjoint
  <2>6. (ListedBlocks \cap InUse)' = {} /\ Cut(t)' \cap held' = {}
    BY <1>3, <1>4, <1>5
  <2>7. Separate'
    BY <1>3, <2>6, AloneHolds DEF AloneHasAll, Separate
  <2> QED
    BY <2>5, <2>7, PartitionedHolds DEF PartitionedMeans
<1>9. Coalesced'
  BY <1>1, <1>3, NumberFacts DEF Coalesced, Order
<1>10. HeldAligned'
  BY <1>1, <1>2 DEF HeldAligned
<1>11. CountsFree'
  <2>1. ~Counts(t)'
    BY <1>3 DEF Counts
  <2>2. Heads' = {h[1] : h \in held'} \cup {}
    BY <1>3, <2>1, AloneHolds DEF AloneHasAll
  <2>3. Heads' = Heads
    BY <1>2, <1>5, <2>2
  <2> QED
    BY <1>1, <1>2, <2>3 DEF CountsFree
<1>12. FreeMarked'
  <2>1. ASSUME NEW q \in Order, NEW x \in ToSet(list'[q]) PROVE Marked(x, q)'
    <3>1. x \in ToSet(list[q])
      BY <1>3, <2>1
    <3>2. Marked(x, q)
      BY <1>1, <1>5, <3>1 DEF FreeMarked
    <3>3. <<x, q>> \in ListedBlocks \cup held /\ x \in Own(<<x, q>>) /\ x \in PageIndex
      BY <1>1, <3>1, ListedOwn
    <3>4. x \notin Rests
      BY <1>5, <3>3, PageOfOne
    <3>5. x # c.page
      BY <1>5, <3>4
    <3>6. flag'[x] = flag[x] /\ blockOrder'[x] = blockOrder[x]
      BY <1>1, <1>2, <3>3, <3>5 DEF BuddyTypeOK
    <3> QED
      BY <3>2, <3>6 DEF Marked
  <2> QED
    BY <2>1 DEF FreeMarked
<1> QED
  BY <1>6, <1>7, <1>8, <1>9, <1>10, <1>11, <1>12 DEF BuddyInv

LEMMA FreeReturnsEffect ==
  ASSUME BuddyInv, NEW t \in Caller, FreeReturns(t)
  PROVE  LET c == doing[t] IN
         /\ c.pc = "merge" /\ UNCHANGED held
         /\ ~(c.at < Top /\ PageIsBuddy(BuddyOf(c.index, c.at), c.at))
         /\ flag' = [flag EXCEPT ![c.index] = TRUE]
         /\ blockOrder' = [blockOrder EXCEPT ![c.index] = c.at]
         /\ count' = [count EXCEPT ![c.index] = 0]
         /\ c.index \notin ToSet(list[c.at])
         /\ <<c.index, c.at>> \notin ListedBlocks \cup held
         /\ ListsSound' /\ ListedBlocks' = ListedBlocks \cup {<<c.index, c.at>>}
         /\ \A q \in Order : ToSet(list'[q]) = ToSet(list[q]) \cup (IF q = c.at THEN {c.index} ELSE {})
         /\ doing' \in [Caller -> CallState] /\ doing'[t] = NoCall /\ Alone(t)'
         /\ Cut(t)' = {} /\ InUse' = InUse /\ Rests' = {}
<1> DEFINE c == doing[t]
<1>1. /\ c.pc = "merge" /\ ~(c.at < Top /\ PageIsBuddy(BuddyOf(c.index, c.at), c.at))
      /\ flag' = [flag EXCEPT ![c.index] = TRUE]
      /\ blockOrder' = [blockOrder EXCEPT ![c.index] = c.at]
      /\ count' = [count EXCEPT ![c.index] = 0]
      /\ Appends(c.at, c.index) /\ Goes(t, NoCall) /\ UNCHANGED held
  BY DEF FreeReturns, Appends
<1>2. BuddyTypeOK /\ NoCall \in CallState /\ NoCall.pc = "idle"
  BY DEF BuddyInv, CallState, NoCall
<1>3. /\ c.index \in PageIndex /\ c.at \in Order /\ Alone(t) /\ Aligned(c.index, c.at)
      /\ c.index \in BlockPages(c.index, c.at)
      /\ InUse = held /\ Rests = BlockPages(c.index, c.at) /\ Part(ListedBlocks \cup held, Rests)
  BY <1>1, MergeFacts
<1> HIDE DEF c
<1>4. <<c.index, c.at>> \notin ListedBlocks \cup held
  <2>1. SUFFICES ASSUME <<c.index, c.at>> \in ListedBlocks \cup held PROVE FALSE
    OBVIOUS
  <2>2. c.index \in Own(<<c.index, c.at>>)
    BY <1>3 DEF Own
  <2> QED
    BY <1>3, <2>1, <2>2, PageOfOne
<1>5. c.index \notin ToSet(list[c.at])
  BY <1>3, <1>4, Listed
<1>6. /\ ListsSound' /\ ListedBlocks' = ListedBlocks \cup {<<c.index, c.at>>}
      /\ \A q \in Order : ToSet(list'[q]) = ToSet(list[q]) \cup (IF q = c.at THEN {c.index} ELSE {})
  BY <1>1, <1>2, <1>3, <1>5, ListAppends
<1>7. doing' \in [Caller -> CallState] /\ doing'[t] = NoCall /\ Alone(t)'
  BY <1>1, <1>2, <1>3, OthersStay
<1>8. Cut(t)' = {} /\ Rest(t)' = {}
  BY <1>2, <1>7 DEF Cut, Rest
<1>9. InUse' = held' \cup Cut(t)' /\ Rests' = Rest(t)'
  BY <1>7, AloneHolds DEF AloneHasAll
<1>10. InUse' = InUse /\ Rests' = {}
  BY <1>1, <1>3, <1>8, <1>9
<1> QED
  BY <1>1, <1>4, <1>5, <1>6, <1>7, <1>8, <1>10 DEF c

LEMMA FreeReturnsInv ==
  ASSUME BuddyInv, NEW t \in Caller, FreeReturns(t)
  PROVE  BuddyInv'
<1> DEFINE c == doing[t]
           i == c.index
           o == c.at
<1>1. /\ BuddyTypeOK /\ CallsSound /\ Coalesced /\ HeldAligned /\ CountsFree /\ FreeMarked
  BY DEF BuddyInv
<1>2. /\ c.pc = "merge" /\ UNCHANGED held
      /\ ~(o < Top /\ PageIsBuddy(BuddyOf(i, o), o))
      /\ flag' = [flag EXCEPT ![i] = TRUE]
      /\ blockOrder' = [blockOrder EXCEPT ![i] = o]
      /\ count' = [count EXCEPT ![i] = 0]
      /\ i \notin ToSet(list[o]) /\ <<i, o>> \notin ListedBlocks \cup held
  BY FreeReturnsEffect
<1>3. /\ ListsSound' /\ ListedBlocks' = ListedBlocks \cup {<<i, o>>}
      /\ \A q \in Order : ToSet(list'[q]) = ToSet(list[q]) \cup (IF q = o THEN {i} ELSE {})
      /\ doing' \in [Caller -> CallState] /\ doing'[t] = NoCall /\ Alone(t)'
      /\ Cut(t)' = {} /\ InUse' = InUse /\ Rests' = {}
  BY FreeReturnsEffect
<1>4. /\ i \in PageIndex /\ o \in Order /\ Alone(t) /\ Aligned(i, o) /\ i \in BlockPages(i, o)
      /\ InUse = held /\ Rests = BlockPages(i, o)
      /\ ListedBlocks \cap held = {} /\ Part(ListedBlocks \cup held, Rests)
      /\ Heads = {h[1] : h \in held}
      /\ \A u \in Caller : \A x : ~Putting(u, x)
  BY <1>2, MergeFacts
<1> HIDE DEF c, i, o
\* Its first page is free, and no other listed block's.
<1>5. /\ i \in Usable \ Heads
      /\ \A q \in Order : i \notin ToSet(list[q])
  <2>1. i \in Usable
    BY <1>4 DEF Part
  <2>2. ASSUME NEW h \in held, h[1] = i PROVE FALSE
    <3>1. h \in ListedBlocks \cup held /\ i \in Own(h)
      BY <1>1, <2>2, HeldOwn
    <3> QED
      BY <1>4, <3>1, PageOfOne
  <2>3. ASSUME NEW q \in Order, i \in ToSet(list[q]) PROVE FALSE
    <3>1. <<i, q>> \in ListedBlocks \cup held /\ i \in Own(<<i, q>>)
      BY <1>1, <2>3, ListedOwn
    <3> QED
      BY <1>4, <3>1, PageOfOne
  <2> QED
    BY <1>4, <2>1, <2>2, <2>3
<1>6. count[i] = 0
  BY <1>1, <1>4, <1>5 DEF CountsFree
<1>7. BuddyTypeOK'
  <2>1. /\ count \in [PageIndex -> 0..MaxCount] /\ flag \in [PageIndex -> BOOLEAN]
        /\ blockOrder \in [PageIndex -> Order] /\ held \in SUBSET (PageIndex \X Order)
    BY <1>1 DEF BuddyTypeOK
  <2>2. 0 \in 0..MaxCount
    BY BuddyAssumption
  <2>3. /\ count' \in [PageIndex -> 0..MaxCount] /\ flag' \in [PageIndex -> BOOLEAN]
        /\ blockOrder' \in [PageIndex -> Order] /\ held' \in SUBSET (PageIndex \X Order)
    BY <1>2, <1>4, <2>1, <2>2
  <2> QED
    BY <1>3, <2>3, TypeStays
<1>8. OneCall' /\ CallsSound'
  <2>1. CallSound(t)'
    BY <1>3 DEF CallSound, Cutting, NoCall
  <2> QED
    BY <1>3, <2>1, AloneHolds DEF AloneHasAll
<1>9. Partitioned'
  <2> DEFINE B == ListedBlocks \cup held
             d == <<i, o>>
  <2>1. Own(d) = BlockPages(i, o)
    BY DEF Own
  <2> HIDE DEF d
  <2>2. Part(B \cup {d}, Rests \ Own(d))
    BY <1>4, <2>1, PartAdd
  <2>3. (ListedBlocks \cup InUse)' = B \cup {d}
    BY <1>3, <1>4 DEF d
  <2>4. Rests' = Rests \ Own(d)
    BY <1>3, <1>4, <2>1
  <2> HIDE DEF B
  <2>5. Part(ListedBlocks \cup InUse, Rests)'
    BY <2>2, <2>3, <2>4 DEF Part, PagesOf, Disjoint
  <2>6. (ListedBlocks \cap InUse)' = {} /\ Cut(t)' \cap held' = {}
    BY <1>2, <1>3, <1>4
  <2>7. Separate'
    BY <1>3, <2>6, AloneHolds DEF AloneHasAll, Separate
  <2> QED
    BY <2>5, <2>7, PartitionedHolds DEF PartitionedMeans
\* The loop ended because the buddy is not in the list.
<1>10. o < Top => BuddyOf(i, o) \notin ToSet(list[o])
  <2>1. SUFFICES ASSUME o < Top, BuddyOf(i, o) \in ToSet(list[o]) PROVE FALSE
    OBVIOUS
  <2>2. PICK b : b = BuddyOf(i, o)
    OBVIOUS
  <2>3. b \in ToSet(list[o]) /\ b \in PageIndex
    BY <1>1, <1>4, <2>1, <2>2, ListedOwn
  <2>4. Marked(b, o)
    BY <1>1, <1>4, <2>3 DEF FreeMarked
  <2>5. <<b, o>> \in ListedBlocks /\ b \in Own(<<b, o>>)
    BY <1>1, <1>4, <2>3, ListedOwn
  <2>6. b \in Usable
    BY <1>4, <2>5 DEF Part, PagesOf, Own
  <2>7. b \notin Heads
    <3>1. ASSUME NEW h \in held, h[1] = b PROVE FALSE
      <4>1. b \in Own(h)
        BY <1>1, <3>1, HeldOwn
      <4>2. h = <<b, o>>
        BY <1>4, <2>5, <4>1, PageOfOne
      <4> QED
        BY <1>4, <2>5, <3>1, <4>2
    <3> QED
      BY <1>4, <3>1
  <2>8. count[b] = 0
    BY <1>1, <2>3, <2>6, <2>7 DEF CountsFree
  <2>9. PageIsBuddy(b, o)
    BY <2>4, <2>8 DEF PageIsBuddy, Marked
  <2> QED
    BY <1>2, <2>1, <2>2, <2>9
<1>11. Coalesced'
  <2>1. ASSUME NEW q \in 0..Top - 1, NEW x \in ToSet(list'[q]) PROVE BuddyOf(x, q) \notin ToSet(list'[q])
    <3>1. q \in Order /\ q < Top
      BY BuddyAssumption DEF Order
    <3>2. CASE q # o
      BY <1>1, <1>3, <2>1, <3>1, <3>2 DEF Coalesced
    <3>3. CASE q = o /\ x = i
      <4>1. BuddyOf(i, o) # i
        BY <1>4, <3>1, <3>3, NumberFacts, BuddyFacts
      <4> QED
        BY <1>3, <1>10, <3>1, <3>3, <4>1
    <3>4. CASE q = o /\ x # i
      <4>1. x \in ToSet(list[o]) /\ x \in Nat /\ Aligned(x, o)
        BY <1>1, <1>3, <1>4, <2>1, <3>4, TypeFacts, NumberFacts
      <4>2. BuddyOf(x, o) \notin ToSet(list[o])
        BY <1>1, <3>4, <4>1 DEF Coalesced
      <4>3. BuddyOf(x, o) # i
        <5>1. BuddyOf(BuddyOf(x, o), o) = x
          BY <1>4, <3>1, <3>4, <4>1, BuddyFacts
        <5> QED
          BY <1>10, <3>1, <3>4, <4>1, <5>1
      <4> QED
        BY <1>3, <3>1, <3>4, <4>2, <4>3
    <3> QED
      BY <3>2, <3>3, <3>4
  <2> QED
    BY <2>1 DEF Coalesced
<1>12. HeldAligned'
  BY <1>1, <1>2 DEF HeldAligned
<1>13. CountsFree'
  <2>1. ~Counts(t)'
    BY <1>3 DEF Counts, NoCall
  <2>2. Heads' = {h[1] : h \in held'} \cup {}
    BY <1>3, <2>1, AloneHolds DEF AloneHasAll
  <2>3. Heads' = Heads
    BY <1>2, <1>4, <2>2
  <2>4. \A x \in PageIndex : count'[x] = count[x]
    BY <1>1, <1>2, <1>4, <1>6 DEF BuddyTypeOK
  <2> QED
    BY <1>1, <2>3, <2>4 DEF CountsFree
<1>14. FreeMarked'
  <2>1. ASSUME NEW q \in Order, NEW x \in ToSet(list'[q]) PROVE Marked(x, q)'
    <3>1. CASE x = i
      <4>1. q = o
        BY <1>3, <1>5, <2>1, <3>1
      <4>2. flag'[i] = TRUE /\ blockOrder'[i] = o
        BY <1>1, <1>2, <1>4 DEF BuddyTypeOK
      <4> QED
        BY <3>1, <4>1, <4>2 DEF Marked
    <3>2. CASE x # i
      <4>1. x \in ToSet(list[q])
        BY <1>3, <2>1, <3>2
      <4>2. Marked(x, q) /\ x \in PageIndex
        BY <1>1, <1>4, <4>1, ListedOwn DEF FreeMarked
      <4>3. flag'[x] = flag[x] /\ blockOrder'[x] = blockOrder[x]
        BY <1>1, <1>2, <3>2, <4>2 DEF BuddyTypeOK
      <4> QED
        BY <4>2, <4>3 DEF Marked
    <3> QED
      BY <3>1, <3>2
  <2> QED
    BY <2>1 DEF FreeMarked
<1> QED
  BY <1>7, <1>8, <1>9, <1>11, <1>12, <1>13, <1>14 DEF BuddyInv

-----------------------------------------------------------------------------
(* The invariant holds.                                                    *)

LEMMA BuddyInitInv == BuddyInit => BuddyInv
<1> SUFFICES ASSUME BuddyInit PROVE BuddyInv
  OBVIOUS
<1>1. /\ list = [o \in Order |-> <<>>] /\ count = [p \in PageIndex |-> 1]
      /\ flag = [p \in PageIndex |-> FALSE] /\ blockOrder = [p \in PageIndex |-> 0]
      /\ held = Usable \X {0} /\ doing = [t \in Caller |-> NoCall]
  BY DEF BuddyInit
<1>2. \A o \in Order : list[o] = <<>> /\ ToSet(list[o]) = {} /\ list[o] \in Seq(PageIndex) /\ IsInjective(list[o])
  BY <1>1, EmptyList
<1>3. list \in [Order -> Seq(PageIndex)]
  BY <1>1, <1>2
<1>4. BuddyTypeOK
  <2>1. /\ count \in [PageIndex -> 0..MaxCount] /\ flag \in [PageIndex -> BOOLEAN]
        /\ blockOrder \in [PageIndex -> Order] /\ held \in SUBSET (PageIndex \X Order)
        /\ doing \in [Caller -> {NoCall} \cup AllocCall \cup FreeCall]
    BY <1>1, NumberFacts, BuddyAssumption
  <2> QED
    BY <1>2, <1>3, <2>1 DEF BuddyTypeOK
<1>5. \A t \in Caller : ~Active(t) /\ ~Counts(t) /\ Cut(t) = {} /\ Rest(t) = {} /\ CallSound(t)
  BY <1>1 DEF Active, Counts, Cut, Rest, CallSound, Cutting, NoCall
<1>6. OneCall /\ CallsSound
  BY <1>5 DEF OneCall, CallsSound
<1>7. ListedBlocks = {} /\ InUse = held /\ Rests = {}
  <2>1. ListedBlocks = {}
    BY <1>2 DEF ListedBlocks
  <2>2. InUse = held /\ Rests = {}
    BY <1>5 DEF InUse, Rests
  <2> QED
    BY <2>1, <2>2
<1>8. 0 \in Order /\ Size[0] = 1
  BY SizeDoubles, NumberFacts DEF Doubling
<1>9. \A p \in Usable : BlockPages(p, 0) = {p} /\ Aligned(p, 0)
  <2>1. SUFFICES ASSUME NEW p \in Usable PROVE BlockPages(p, 0) = {p} /\ Aligned(p, 0)
    OBVIOUS
  <2>2. p \in Nat
    BY NumberFacts
  <2>3. p .. p + 1 - 1 = {p} /\ p % 1 = 0
    BY <2>2
  <2> QED
    BY <1>8, <2>3 DEF BlockPages, Aligned
<1>10. Partitioned
  <2>1. \A b \in held : b[1] \in Usable /\ b[2] = 0 /\ b = <<b[1], 0>> /\ BlockPages(b[1], b[2]) = {b[1]}
    BY <1>1, <1>9
  <2>2. Disjoint(held)
    BY <2>1 DEF Disjoint
  <2>3. PagesOf(held) = Usable
    <3>1. ASSUME NEW p \in Usable PROVE p \in PagesOf(held)
      <4>1. <<p, 0>> \in held /\ p \in BlockPages(<<p, 0>>[1], <<p, 0>>[2])
        BY <1>1, <1>9
      <4> QED
        BY <4>1 DEF PagesOf
    <3>2. ASSUME NEW x \in PagesOf(held) PROVE x \in Usable
      <4>1. PICK b \in held : x \in BlockPages(b[1], b[2])
        BY DEF PagesOf
      <4> QED
        BY <2>1, <4>1
    <3> QED
      BY <3>1, <3>2
  <2>4. Part(ListedBlocks \cup InUse, Rests)
    BY <1>7, <2>2, <2>3 DEF Part
  <2>5. Separate
    BY <1>5, <1>7 DEF Separate
  <2> QED
    BY <2>4, <2>5, PartitionedHolds DEF PartitionedMeans
<1>11. Coalesced /\ FreeMarked
  <2>1. 0..Top - 1 \subseteq Order
    BY BuddyAssumption DEF Order
  <2>2. Coalesced
    BY <1>2, <2>1 DEF Coalesced
  <2>3. FreeMarked
    BY <1>2 DEF FreeMarked
  <2> QED
    BY <2>2, <2>3
<1>12. HeldAligned
  BY <1>1, <1>9 DEF HeldAligned
<1>13. CountsFree
  <2>1. ASSUME NEW p \in Usable PROVE p \in Heads
    <3>1. <<p, 0>> \in held /\ <<p, 0>>[1] = p
      BY <1>1
    <3> QED
      BY <3>1 DEF Heads
  <2>2. \A p \in PageIndex : count[p] # 0
    BY <1>1
  <2> QED
    BY <2>1, <2>2 DEF CountsFree
<1> QED
  BY <1>4, <1>6, <1>10, <1>11, <1>12, <1>13 DEF BuddyInv

LEMMA BuddyStepInv == BuddyInv /\ [BuddyNext]_buddyVars => BuddyInv'
<1> SUFFICES ASSUME BuddyInv, [BuddyNext]_buddyVars PROVE BuddyInv'
  OBVIOUS
<1>1. CASE UNCHANGED buddyVars
  <2>1. UNCHANGED <<list, count, flag, blockOrder, held, doing>>
    BY <1>1 DEF buddyVars
  <2>2. UNCHANGED <<BuddyTypeOK, OneCall, CallsSound, Coalesced, HeldAligned, CountsFree, FreeMarked>>
    BY <2>1 DEF BuddyTypeOK, OneCall, CallsSound, CallSound, Cutting, Active, Coalesced,
                HeldAligned, CountsFree, Heads, Counts, FreeMarked, Marked, Putting
  <2>3. Partitioned'
    <3>1. \A u \in Caller : Cut(u)' = Cut(u) /\ Rest(u)' = Rest(u)
      BY <2>1 DEF Cut, Rest
    <3> QED
      BY <2>1, <3>1, PartitionStays DEF BuddyInv
  <2> QED
    BY <2>2, <2>3 DEF BuddyInv
<1>2. ASSUME NEW t \in Caller, NEW o \in Order, NEW low \in BOOLEAN, AllocPages(t, o, low)
      PROVE  BuddyInv'
  BY <1>2, AllocPagesInv
<1>3. ASSUME NEW t \in Caller, Look(t) PROVE BuddyInv'
  BY <1>3, LookInv
<1>4. ASSUME NEW t \in Caller, AllocFails(t) PROVE BuddyInv'
  BY <1>4, AllocFailsInv
<1>5. ASSUME NEW t \in Caller, Taken(t) PROVE BuddyInv'
  BY <1>5, TakenInv
<1>6. ASSUME NEW t \in Caller, Split(t) PROVE BuddyInv'
  BY <1>6, SplitInv
<1>7. ASSUME NEW t \in Caller, PutUpper(t) PROVE BuddyInv'
  BY <1>7, PutUpperInv
<1>8. ASSUME NEW t \in Caller, AllocReturns(t) PROVE BuddyInv'
  BY <1>8, AllocReturnsInv
<1>9. ASSUME NEW t \in Caller, NEW b \in held, FreePages(t, b) PROVE BuddyInv'
  BY <1>9, FreePagesInv
<1>10. ASSUME NEW b \in held, ReferencePage(b) PROVE BuddyInv'
  BY <1>10, ReferencePageInv
<1>11. ASSUME NEW t \in Caller, Merge(t) PROVE BuddyInv'
  BY <1>11, MergeInv
<1>12. ASSUME NEW t \in Caller, FreeReturns(t) PROVE BuddyInv'
  BY <1>12, FreeReturnsInv
<1> QED
  BY <1>1, <1>2, <1>3, <1>4, <1>5, <1>6, <1>7, <1>8, <1>9, <1>10, <1>11, <1>12 DEF BuddyNext

LEMMA BuddyInvHolds == BuddySpec => []BuddyInv
BY BuddyInitInv, BuddyStepInv, PTL DEF BuddySpec

\* The blocks that are free, in use and on their way are apart and make up the
\* usable pages, whatever is asked for and freed, and no two free buddies are
\* left unmerged.
THEOREM BuddyPartitions == BuddySpec => []PagesPartitioned
<1>1. BuddyInv => PagesPartitioned
  BY DEF BuddyInv, PagesPartitioned
<1> QED
  BY <1>1, BuddyInvHolds, PTL

-----------------------------------------------------------------------------
(* The buddy system implements the page allocator.                         *)

\* What the page allocator sees.
FreeNow == PagesOf(ListedBlocks) \cup Rests
RefusedTo(t) ==
  IF doing[t].pc = "refused" THEN <<doing[t].order, doing[t].low>> ELSE <<>>
RefusedNow == [t \in Caller |-> RefusedTo(t)]

AllocatorSees ==
  A!vars = <<FreeNow, InUse, RefusedNow>>
LEMMA AllocatorState ==
  /\ AllocatorSees
  /\ \A p, o : A!Pages(p, o) = BlockPages(p, o)
BY DEF AllocatorSees, A!vars, A!Pages, BlockPages, FreeNow, Rests, RefusedNow, RefusedTo

\* Free is what is in no block that is in use.
FreeMeans == Partitioned => FreeNow = Usable \ PagesOf(InUse)
LEMMA FreeHolds == FreeMeans /\ FreeMeans'
<1>1. FreeMeans
  <2>1. SUFFICES ASSUME Partitioned PROVE FreeNow = Usable \ PagesOf(InUse)
    BY DEF FreeMeans
  <2>2. Separate /\ Part(ListedBlocks \cup InUse, Rests)
    BY <2>1, PartitionedHolds DEF PartitionedMeans
  <2>3. PagesOf(ListedBlocks \cup InUse) = PagesOf(ListedBlocks) \cup PagesOf(InUse)
    BY DEF PagesOf
  <2>4. PagesOf(ListedBlocks) \cap PagesOf(InUse) = {}
    <3>1. SUFFICES ASSUME NEW x \in PagesOf(ListedBlocks), x \in PagesOf(InUse) PROVE FALSE
      OBVIOUS
    <3>2. PICK b \in ListedBlocks : x \in BlockPages(b[1], b[2])
      BY <3>1 DEF PagesOf
    <3>3. PICK c \in InUse : x \in BlockPages(c[1], c[2])
      BY <3>1 DEF PagesOf
    <3>4. b # c
      BY <2>2 DEF Separate
    <3> QED
      BY <2>2, <3>2, <3>3, <3>4 DEF Part, Disjoint
  <2> QED
    BY <2>2, <2>3, <2>4 DEF Part, FreeNow
<1> QED
  BY <1>1, PTL

\* What a task is refused only that task changes.
LEMMA RefusedStays ==
  ASSUME BuddyTypeOK, NEW t \in Caller, NEW c \in CallState, Goes(t, c)
  PROVE  RefusedNow' = [RefusedNow EXCEPT ![t] =
                          IF c.pc = "refused" THEN <<c.order, c.low>> ELSE <<>>]
<1>1. doing'[t] = c /\ \A u \in Caller : u # t => doing'[u] = doing[u]
  BY OthersStay
<1>2. \A u \in Caller : RefusedNow'[u] = IF u = t THEN (IF c.pc = "refused" THEN <<c.order, c.low>> ELSE <<>>)
                                                  ELSE RefusedNow[u]
  BY <1>1 DEF RefusedNow, RefusedTo
<1> QED
  BY <1>2 DEF RefusedNow

\* A step that the page allocator does not see: what is in use stays.
LEMMA NothingSeen ==
  ASSUME BuddyInv, BuddyInv', InUse' = InUse,
         NEW t \in Caller, NEW c \in CallState, Goes(t, c),
         doing[t].pc # "refused", c.pc # "refused"
  PROVE  UNCHANGED A!vars
<1>1. BuddyTypeOK /\ Partitioned /\ Partitioned'
  BY DEF BuddyInv
<1>2. FreeNow' = FreeNow
  BY <1>1, FreeHolds DEF FreeMeans, PagesOf
<1>3. RefusedNow[t] = <<>>
  BY DEF RefusedNow, RefusedTo
<1>4. RefusedNow' = [RefusedNow EXCEPT ![t] = <<>>]
  BY <1>1, RefusedStays
<1>5. RefusedNow' = RefusedNow
  BY <1>3, <1>4 DEF RefusedNow
<1>6. AllocatorSees /\ AllocatorSees'
  BY AllocatorState, PTL
<1> QED
  BY <1>2, <1>5, <1>6 DEF AllocatorSees

LEMMA SameCutSeen ==
  ASSUME BuddyInv, BuddyInv', NEW t \in Caller, Cutting(t), UNCHANGED held,
         Goes(t, [doing[t] EXCEPT !.pc = "split"])
  PROVE  UNCHANGED A!vars
<1> DEFINE c == [doing[t] EXCEPT !.pc = "split"]
<1>1. BuddyTypeOK /\ doing[t] \in AllocCall
  BY CuttingFacts DEF BuddyInv
<1>2. c \in CallState /\ c.pc = "split" /\ c.page = doing[t].page /\ c.order = doing[t].order
  BY <1>1 DEF AllocCall, CallState
<1>3. Goes(t, c)
  OBVIOUS
<1> HIDE DEF c
<1>4. doing'[t] = c /\ \A u \in Caller : u # t => Cut(u)' = Cut(u)
  BY <1>1, <1>2, <1>3, OthersStay
<1>5. Cut(t)' = Cut(t)
  BY <1>2, <1>4 DEF Cut, Cutting
<1>6. InUse' = InUse
  BY <1>4, <1>5 DEF InUse
<1>7. doing[t].pc # "refused"
  BY DEF Cutting
<1> QED
  BY <1>2, <1>3, <1>6, <1>7, NothingSeen

\* Why the buddies are merged: when no free block of an order or above suits,
\* no aligned stretch of pages of that order is free.  Its pages would be in
\* smaller free blocks, and the smallest of them would lie there beside its
\* buddy, unmerged.
FreeBlock(b) ==
  /\ b \in ListedBlocks /\ b = <<b[1], b[2]>> /\ b[1] \in Nat /\ b[2] \in Order
  /\ b[1] \in ToSet(list[b[2]]) /\ Aligned(b[1], b[2])
LEMMA FreeBlocks ==
  ASSUME BuddyTypeOK, NEW b \in ListedBlocks
  PROVE  FreeBlock(b)
<1>1. PICK o \in Order : \E p \in ToSet(list[o]) : b = <<p, o>>
  BY DEF ListedBlocks
<1>2. PICK p \in ToSet(list[o]) : b = <<p, o>>
  BY <1>1
<1>3. p \in PageIndex /\ Aligned(p, o)
  BY ListedOwn
<1> QED
  BY <1>2, <1>3, NumberFacts DEF FreeBlock

LEMMA NoneFits ==
  ASSUME BuddyInv, NEW o \in Order, NEW low \in BOOLEAN,
         \A q \in o .. Top : \A h \in ToSet(list[q]) : ~Suits(h, low),
         NEW p \in PageIndex, Aligned(p, o), Suits(p, low)
  PROVE  ~(BlockPages(p, o) \subseteq PagesOf(ListedBlocks))
<1>1. SUFFICES ASSUME BlockPages(p, o) \subseteq PagesOf(ListedBlocks) PROVE FALSE
  OBVIOUS
<1>2. BuddyTypeOK /\ Coalesced /\ Partitioned
  BY DEF BuddyInv
<1>3. Disjoint(ListedBlocks)
  BY <1>2, PartitionedHolds DEF PartitionedMeans, Part, Disjoint
<1>4. p \in Nat /\ o \in Nat
  BY NumberFacts
\* The free blocks there are inside.
<1> DEFINE Inside(b) == b \in ListedBlocks /\ b[2] < o /\ Own(b) \subseteq BlockPages(p, o)
<1>5. ASSUME NEW b \in ListedBlocks, NEW x \in Own(b), x \in BlockPages(p, o)
      PROVE  Inside(b)
  <2>1. FreeBlock(b)
    BY <1>2, FreeBlocks
  <2>2. b[1] \in Nat /\ b[2] \in Order /\ b[2] \in Nat /\ Aligned(b[1], b[2])
        /\ x \in BlockPages(b[1], b[2])
    BY <1>5, <2>1, NumberFacts DEF FreeBlock, Own
  <2>3. b[2] < o
    <3>1. SUFFICES ASSUME o <= b[2] PROVE FALSE
      BY <1>4, <2>2
    <3>2. b[1] <= p
      BY <1>4, <1>5, <2>2, <3>1, Nested
    <3>3. Suits(b[1], low)
      BY <1>4, <2>2, <3>2, BuddyAssumption DEF Suits
    <3>4. b[2] \in o .. Top
      BY <2>2, <3>1, NumberFacts, BuddyAssumption, <1>4
    <3> QED
      BY <2>1, <3>3, <3>4 DEF FreeBlock
  <2>4. BlockPages(b[1], b[2]) \subseteq BlockPages(p, o)
    BY <1>4, <1>5, <2>2, <2>3, Nested
  <2> QED
    BY <2>3, <2>4 DEF Own
<1>6. \A x \in BlockPages(p, o) : \E b \in ListedBlocks : x \in Own(b)
  BY <1>1 DEF PagesOf, Own
<1> DEFINE Orders == {b[2] : b \in {e \in ListedBlocks : Inside(e)}}
<1>7. Orders \subseteq Nat
  <2>1. ASSUME NEW b \in ListedBlocks PROVE b[2] \in Nat
    BY <1>2, FreeBlocks, NumberFacts DEF FreeBlock
  <2> QED
    BY <2>1
<1>8. Orders # {}
  <2>1. p \in BlockPages(p, o)
    BY <1>4, OwnPage
  <2>2. PICK b \in ListedBlocks : p \in Own(b)
    BY <1>6, <2>1
  <2>3. Inside(b)
    BY <1>5, <2>1, <2>2
  <2> QED
    BY <2>3
<1>9. PICK least \in Orders : \A q \in Orders : least <= q
  <2> HIDE DEF Orders
  <2> QED
    BY <1>7, <1>8, LeastIn
<1>10. PICK b \in ListedBlocks : Inside(b) /\ b[2] = least
  BY <1>9
<1>11. \A d \in ListedBlocks : Inside(d) => b[2] <= d[2]
  BY <1>9, <1>10
<1> DEFINE h == b[1]
           q == b[2]
           g == BuddyOf(h, q)
<1>12. FreeBlock(b)
  BY <1>2, FreeBlocks
<1>13. h \in Nat /\ q \in Order /\ q \in Nat /\ Aligned(h, q) /\ h \in ToSet(list[q]) /\ b = <<h, q>>
  BY <1>12, NumberFacts DEF FreeBlock
<1>14. q < o /\ h \in Own(b) /\ h \in BlockPages(p, o)
  BY <1>10, <1>13, OwnPage DEF Own
<1>15. q < Top /\ BlockPages(g, q) \subseteq BlockPages(p, o)
  BY <1>4, <1>13, <1>14, BuddyInside
<1>16. g \in Nat /\ Aligned(g, q) /\ BuddyOf(g, q) = h
  BY <1>13, <1>15, BuddyFacts
<1> HIDE DEF g
<1>17. g \in BlockPages(g, q) /\ g \in BlockPages(p, o)
  BY <1>13, <1>15, <1>16, OwnPage
<1>18. PICK d \in ListedBlocks : g \in Own(d)
  BY <1>6, <1>17
<1>19. Inside(d) /\ q <= d[2]
  BY <1>5, <1>11, <1>17, <1>18
<1>20. FreeBlock(d)
  BY <1>2, FreeBlocks
<1>21. d[1] \in Nat /\ d[2] \in Order /\ d[2] \in Nat /\ Aligned(d[1], d[2]) /\ d[1] \in ToSet(list[d[2]])
       /\ g \in BlockPages(d[1], d[2])
  BY <1>18, <1>20, NumberFacts DEF FreeBlock, Own
<1>22. CASE d[2] = q
  <2>1. d[1] = g
    BY <1>13, <1>16, <1>17, <1>21, <1>22, SameBlock
  <2>2. g \in ToSet(list[q])
    BY <1>21, <1>22, <2>1
  <2>3. q \in 0..Top - 1
    BY <1>13, <1>15, BuddyAssumption
  <2> QED
    BY <1>2, <1>13, <2>2, <2>3 DEF Coalesced, g
<1>23. CASE q < d[2]
  <2>1. BlockPages(BuddyOf(g, q), q) \subseteq BlockPages(d[1], d[2])
    BY <1>13, <1>16, <1>21, <1>23, BuddyInside
  <2>2. h \in BlockPages(h, q) /\ h \in BlockPages(d[1], d[2])
    BY <1>13, <1>16, <2>1, OwnPage
  <2>3. b # d
    BY <1>13, <1>21, <1>23
  <2> QED
    BY <1>3, <2>2, <2>3 DEF Disjoint
<1> QED
  BY <1>13, <1>19, <1>21, <1>22, <1>23

\* The steps the page allocator sees.
LEMMA TakesAllocates ==
  ASSUME BuddyInv, BuddyInv', NEW t \in Caller, doing[t].pc = "look",
         NEW p \in PageIndex, Takes(t, p)
  PROVE  A!Next
<1> DEFINE o == doing[t].order
           q == doing[t].at
           low == doing[t].low
           c == [doing[t] EXCEPT !.pc = "taken", !.page = p]
<1>1. BuddyTypeOK /\ Partitioned /\ Partitioned'
  BY DEF BuddyInv
<1>2. /\ doing[t] \in AllocCall /\ q \in Order /\ o \in Order /\ o <= q
      /\ InUse = held /\ Rests = {}
  BY LookFacts
<1>3. Suits(p, low) /\ Goes(t, c) /\ UNCHANGED held
  BY DEF Takes
<1>4. /\ Aligned(p, q) /\ BlockPages(p, o) \subseteq BlockPages(p, q)
      /\ BlockPages(p, q) \subseteq PagesOf(ListedBlocks)
      /\ InUse' = held \cup {<<p, o>>}
  BY TakesEffect
<1>5. c \in CallState /\ c.pc = "taken" /\ low \in BOOLEAN
  BY <1>2 DEF AllocCall, CallState
<1> HIDE DEF c, o, q, low
<1>6. Aligned(p, o) /\ BlockPages(p, o) \subseteq PageIndex
  BY <1>2, <1>4, NumberFacts, AlignedBelow, PagesExist
<1>7. p \in A!Blocks(o, low)
  BY <1>3, <1>6, AllocatorState DEF A!Blocks, Aligned, Suits
<1>8. BlockPages(p, o) \subseteq FreeNow
  BY <1>4 DEF FreeNow
<1>9. FreeNow' = FreeNow \ BlockPages(p, o)
  <2>1. PagesOf(held \cup {<<p, o>>}) = PagesOf(held) \cup BlockPages(p, o)
    <3> DEFINE b == <<p, o>>
    <3>1. b[1] = p /\ b[2] = o
      OBVIOUS
    <3> HIDE DEF b
    <3>2. PagesOf(held \cup {b}) = PagesOf(held) \cup BlockPages(b[1], b[2])
      BY DEF PagesOf
    <3> QED
      BY <3>1, <3>2 DEF b
  <2>2. FreeNow = Usable \ PagesOf(held)
    BY <1>1, <1>2, FreeHolds DEF FreeMeans
  <2>3. FreeNow' = Usable \ PagesOf(held \cup {<<p, o>>})
    BY <1>1, <1>4, FreeHolds DEF FreeMeans, PagesOf
  <2> QED
    BY <2>1, <2>2, <2>3
<1>10. RefusedNow' = RefusedNow
  <2>1. RefusedNow' = [RefusedNow EXCEPT ![t] = <<>>]
    BY <1>1, <1>3, <1>5, RefusedStays
  <2>2. RefusedNow[t] = <<>>
    BY DEF RefusedNow, RefusedTo
  <2> QED
    BY <2>1, <2>2 DEF RefusedNow
<1>11. A!Alloc(o, low)
  <2>1. AllocatorSees /\ AllocatorSees'
    BY AllocatorState, PTL
  <2>2. A!vars = <<FreeNow, InUse, RefusedNow>> /\ A!vars' = <<FreeNow', InUse', RefusedNow'>>
    BY <2>1 DEF AllocatorSees
  <2> QED
    BY <1>2, <1>4, <1>7, <1>8, <1>9, <1>10, <2>2, AllocatorState DEF A!Alloc, A!vars
<1> QED
  BY <1>2, <1>5, <1>11 DEF A!Next

LEMMA PassesKeep ==
  ASSUME BuddyInv, NEW t \in Caller, doing[t].pc = "look", Passes(t)
  PROVE  InUse' = InUse
<1> DEFINE c == IF doing[t].at < Top THEN [doing[t] EXCEPT !.at = @ + 1]
                                     ELSE [doing[t] EXCEPT !.pc = "refused"]
<1>1. doing \in [Caller -> CallState] /\ doing[t] \in AllocCall
  BY LookFacts, TypeFacts DEF BuddyInv
<1>2. Goes(t, c) /\ UNCHANGED held
  BY DEF Passes
<1>3. doing'[t] = c /\ \A u \in Caller : u # t => doing'[u] = doing[u]
  BY <1>1, <1>2 DEF Goes
<1>4. c.pc \in {"look", "refused"}
  BY <1>1 DEF AllocCall
<1> HIDE DEF c
<1>5. Cut(t) = {} /\ Cut(t)' = {}
  BY <1>3, <1>4 DEF Cut
<1>6. \A u \in Caller : u # t => Cut(u)' = Cut(u)
  BY <1>3 DEF Cut
<1> QED
  BY <1>2, <1>5, <1>6 DEF InUse

LEMMA RefuseIsStep ==
  ASSUME NEW t \in Caller, NEW o \in Order, NEW low \in BOOLEAN, A!Refuse(t, o, low)
  PROVE  A!Next
BY DEF A!Next

LEMMA PassesRefuses ==
  ASSUME BuddyInv, BuddyInv', NEW t \in Caller, doing[t].pc = "look", Passes(t)
  PROVE  A!Next \/ UNCHANGED A!vars
<1> DEFINE c == [doing[t] EXCEPT !.pc = "refused"]
<1>1. BuddyTypeOK /\ Partitioned /\ Partitioned'
  BY DEF BuddyInv
<1>2. /\ doing[t] \in AllocCall /\ doing[t].at \in Order /\ doing[t].order \in Order
      /\ Rests = {}
  BY LookFacts
<1>3. PICK o \in Order, low \in BOOLEAN : o = doing[t].order /\ low = doing[t].low
  BY <1>2 DEF AllocCall
<1>4. InUse' = InUse
  BY PassesKeep
<1>5. CASE doing[t].at < Top
  <2> DEFINE d == [doing[t] EXCEPT !.at = @ + 1]
  <2>1. Goes(t, d)
    BY <1>5 DEF Passes
  <2>2. doing[t].at + 1 \in Order
    BY <1>2, <1>5, SizeFacts
  <2>3. d \in CallState /\ d.pc = "look"
    BY <1>2, <2>2 DEF AllocCall, CallState
  <2> HIDE DEF d
  <2> QED
    BY <1>4, <2>1, <2>3, NothingSeen
<1>6. CASE ~(doing[t].at < Top)
  <2>1. Goes(t, c)
    BY <1>6 DEF Passes
  <2>2. c \in CallState /\ c.pc = "refused" /\ c.order = o /\ c.low = low
    BY <1>2, <1>3 DEF AllocCall, CallState
  <2>3. doing[t].at = Top
    BY <1>2, <1>6, NumberFacts, BuddyAssumption DEF Order
  <2>4. \A q \in o .. Top : \A h \in ToSet(list[q]) : ~Suits(h, low)
    BY <1>3, <2>3, PassedLists
  <2> HIDE DEF c
  <2>5. ASSUME NEW p \in A!Blocks(o, low) PROVE ~(A!Pages(p, o) \subseteq FreeNow)
    <3>1. p \in PageIndex /\ Aligned(p, o) /\ Suits(p, low)
      BY DEF A!Blocks, Aligned, Suits
    <3>2. ~(BlockPages(p, o) \subseteq PagesOf(ListedBlocks))
      BY <1>2, <2>2, <2>4, <3>1, NoneFits
    <3> QED
      BY <1>2, <3>2, AllocatorState DEF FreeNow
  <2>6. RefusedNow' = [RefusedNow EXCEPT ![t] = <<o, low>>]
    BY <1>1, <2>1, <2>2, RefusedStays
  <2>7. FreeNow' = FreeNow
    BY <1>1, <1>4, FreeHolds DEF FreeMeans, PagesOf
  <2>8. A!Refuse(t, o, low)
    <3>1. AllocatorSees /\ AllocatorSees'
      BY AllocatorState, PTL
    <3>2. A!vars = <<FreeNow, InUse, RefusedNow>> /\ A!vars' = <<FreeNow', InUse', RefusedNow'>>
      BY <3>1 DEF AllocatorSees
    <3> QED
      BY <1>4, <2>5, <2>6, <2>7, <3>2 DEF A!Refuse, A!vars
  <2> QED
    BY <2>8, RefuseIsStep
<1> QED
  BY <1>5, <1>6

LEMMA FailsGoesOn ==
  ASSUME BuddyInv, BuddyInv', NEW t \in Caller, AllocFails(t)
  PROVE  A!Next
<1>1. BuddyTypeOK /\ Partitioned /\ Partitioned'
  BY DEF BuddyInv
<1>2. doing[t].pc = "refused" /\ Goes(t, NoCall) /\ UNCHANGED <<list, held>>
  BY DEF AllocFails
<1>3. NoCall \in CallState /\ NoCall.pc = "idle"
  BY DEF NoCall, CallState
<1>4. InUse' = InUse
  <2>1. doing'[t] = NoCall /\ \A u \in Caller : u # t => Cut(u)' = Cut(u)
    BY <1>1, <1>2, <1>3, OthersStay
  <2>2. Cut(t) = {} /\ Cut(t)' = {}
    BY <1>2, <1>3, <2>1 DEF Cut
  <2> QED
    BY <1>2, <2>1, <2>2 DEF InUse
<1>5. FreeNow' = FreeNow
  BY <1>1, <1>4, FreeHolds DEF FreeMeans, PagesOf
<1>6. RefusedNow' = [RefusedNow EXCEPT ![t] = <<>>]
  BY <1>1, <1>2, <1>3, RefusedStays
<1>7. A!GoOn(t)
  <2>1. AllocatorSees /\ AllocatorSees'
    BY AllocatorState, PTL
  <2>2. A!vars = <<FreeNow, InUse, RefusedNow>> /\ A!vars' = <<FreeNow', InUse', RefusedNow'>>
    BY <2>1 DEF AllocatorSees
  <2> QED
    BY <1>4, <1>5, <1>6, <2>2 DEF A!GoOn, A!vars
<1> QED
  BY <1>7 DEF A!Next

LEMMA LastFrees ==
  ASSUME BuddyInv, BuddyInv', NEW t \in Caller, NEW b \in held, FreesLast(t, b)
  PROVE  A!Next
<1>1. BuddyTypeOK
  BY DEF BuddyInv
<1>2. /\ InUse = held /\ InUse' = held \ {b}
      /\ Rests = {} /\ Rests' = Own(b) /\ ListedBlocks' = ListedBlocks
  BY FreesLastEffect
<1>3. Goes(t, Freed(b)) /\ doing[t].pc = "idle"
  BY DEF FreesLast, Begins, NoCall
<1>4. Freed(b) \in CallState /\ Freed(b).pc = "merge"
  BY <1>1, HeldOwn DEF Freed, CallState, FreeCall
<1>5. FreeNow' = FreeNow \cup BlockPages(b[1], b[2])
  BY <1>2 DEF FreeNow, PagesOf, Own
<1>6. RefusedNow' = RefusedNow
  <2>1. RefusedNow' = [RefusedNow EXCEPT ![t] = <<>>]
    BY <1>1, <1>3, <1>4, RefusedStays
  <2>2. RefusedNow[t] = <<>>
    BY <1>3 DEF RefusedNow, RefusedTo
  <2> QED
    BY <2>1, <2>2 DEF RefusedNow
<1>7. A!Free(b)
  <2>1. AllocatorSees /\ AllocatorSees'
    BY AllocatorState, PTL
  <2>2. A!vars = <<FreeNow, InUse, RefusedNow>> /\ A!vars' = <<FreeNow', InUse', RefusedNow'>>
    BY <2>1 DEF AllocatorSees
  <2> QED
    BY <1>2, <1>5, <1>6, <2>2, AllocatorState DEF A!Free, A!vars
<1> QED
  BY <1>2, <1>7 DEF A!Next

\* A step that only counts.
LEMMA OnlyCounts ==
  ASSUME UNCHANGED <<list, held, doing>>
  PROVE  UNCHANGED A!vars
<1>1. UNCHANGED <<ListedBlocks, InUse>> /\ \A t \in Caller : Rest(t)' = Rest(t)
  BY DEF ListedBlocks, InUse, Cut, Rest
<1>2. UNCHANGED <<FreeNow, RefusedNow>>
  BY <1>1 DEF FreeNow, Rests, RefusedNow, RefusedTo, PagesOf
<1>3. AllocatorSees /\ AllocatorSees'
  BY AllocatorState, PTL
<1> QED
  BY <1>1, <1>2, <1>3 DEF AllocatorSees

LEMMA BuddyStepRefines == BuddyInv /\ BuddyInv' /\ [BuddyNext]_buddyVars => [A!Next]_(A!vars)
<1> SUFFICES ASSUME BuddyInv, BuddyInv', [BuddyNext]_buddyVars
             PROVE  A!Next \/ UNCHANGED A!vars
  OBVIOUS
<1>1. BuddyTypeOK
  BY DEF BuddyInv
<1>2. CASE UNCHANGED buddyVars
  BY <1>2, OnlyCounts DEF buddyVars
<1>3. ASSUME NEW t \in Caller, NEW o \in Order, NEW low \in BOOLEAN, AllocPages(t, o, low)
      PROVE  UNCHANGED A!vars
  <2> DEFINE c == [pc |-> "look", order |-> o, low |-> low, at |-> o, page |-> 0]
  <2>1. Begins(t) /\ Goes(t, c) /\ UNCHANGED held
    BY <1>3 DEF AllocPages
  <2>2. c \in CallState /\ c.pc = "look"
    BY NumberFacts DEF CallState, AllocCall
  <2> HIDE DEF c
  <2>3. doing[t].pc = "idle"
    BY <2>1 DEF Begins, NoCall
  <2>4. doing'[t] = c /\ \A u \in Caller : u # t => Cut(u)' = Cut(u)
    BY <1>1, <2>1, <2>2, OthersStay
  <2>5. Cut(t) = {} /\ Cut(t)' = {}
    BY <2>2, <2>3, <2>4 DEF Cut
  <2>6. InUse' = InUse
    BY <2>1, <2>4, <2>5 DEF InUse
  <2> QED
    BY <2>1, <2>2, <2>3, <2>6, NothingSeen
<1>4. ASSUME NEW t \in Caller, Look(t) PROVE A!Next \/ UNCHANGED A!vars
  <2>1. doing[t].pc = "look" /\ ((\E p \in PageIndex : Takes(t, p)) \/ Passes(t))
    BY <1>4, LookSplits
  <2>2. ASSUME NEW p \in PageIndex, Takes(t, p) PROVE A!Next
    BY <2>1, <2>2, TakesAllocates
  <2>3. ASSUME Passes(t) PROVE A!Next \/ UNCHANGED A!vars
    BY <2>1, <2>3, PassesRefuses
  <2> QED
    BY <2>1, <2>2, <2>3
<1>5. ASSUME NEW t \in Caller, AllocFails(t) PROVE A!Next
  BY <1>5, FailsGoesOn
<1>6. ASSUME NEW t \in Caller, Taken(t) PROVE UNCHANGED A!vars
  <2>1. doing[t].pc = "taken" /\ Goes(t, [doing[t] EXCEPT !.pc = "split"]) /\ UNCHANGED held
    BY <1>6 DEF Taken
  <2> QED
    BY <2>1, SameCutSeen DEF Cutting
<1>7. ASSUME NEW t \in Caller, Split(t) PROVE UNCHANGED A!vars
  <2> DEFINE c == [doing[t] EXCEPT !.pc = "put", !.at = @ - 1]
  <2>1. doing[t].pc = "split" /\ Goes(t, c)
    BY <1>7 DEF Split
  <2>2. InUse' = InUse /\ doing' \in [Caller -> CallState] /\ doing'[t].pc = "put"
    BY <1>7, SplitEffect
  <2>3. doing'[t] = c
    BY <1>1, <2>1, TypeFacts DEF Goes
  <2>4. c \in CallState /\ c.pc = "put"
    BY <2>2, <2>3
  <2> HIDE DEF c
  <2> QED
    BY <2>1, <2>2, <2>4, NothingSeen
<1>8. ASSUME NEW t \in Caller, PutUpper(t) PROVE UNCHANGED A!vars
  <2>1. doing[t].pc = "put" /\ Goes(t, [doing[t] EXCEPT !.pc = "split"]) /\ UNCHANGED held
    BY <1>8 DEF PutUpper
  <2> QED
    BY <2>1, SameCutSeen DEF Cutting
<1>9. ASSUME NEW t \in Caller, AllocReturns(t) PROVE UNCHANGED A!vars
  <2>1. doing[t].pc = "split" /\ Goes(t, NoCall)
    BY <1>9 DEF AllocReturns
  <2>2. InUse' = InUse
    BY <1>9, AllocReturnsEffect
  <2>3. NoCall \in CallState /\ NoCall.pc = "idle"
    BY DEF CallState, NoCall
  <2> QED
    BY <2>1, <2>2, <2>3, NothingSeen
<1>10. ASSUME NEW t \in Caller, NEW b \in held, FreePages(t, b) PROVE A!Next \/ UNCHANGED A!vars
  <2>1. CASE Drops(b)
    BY <2>1, OnlyCounts DEF Drops
  <2>2. CASE FreesLast(t, b)
    BY <2>2, LastFrees
  <2> QED
    BY <1>10, <2>1, <2>2, FreePagesSplits
<1>11. ASSUME NEW b \in held, ReferencePage(b) PROVE UNCHANGED A!vars
  BY <1>11, OnlyCounts DEF ReferencePage
<1>12. ASSUME NEW t \in Caller, Merge(t) PROVE UNCHANGED A!vars
  <2> DEFINE b == BuddyOf(doing[t].index, doing[t].at)
             c == [doing[t] EXCEPT !.index = IF b < @ THEN b ELSE @, !.at = @ + 1]
  <2>1. doing[t].pc = "merge" /\ Goes(t, c)
    BY <1>12 DEF Merge
  <2>2. InUse' = InUse /\ doing' \in [Caller -> CallState] /\ doing'[t].pc = "merge"
    BY <1>12, MergeEffect
  <2>3. doing'[t] = c
    BY <1>1, <2>1, TypeFacts DEF Goes
  <2>4. c \in CallState /\ c.pc = "merge"
    BY <2>2, <2>3
  <2> HIDE DEF c
  <2> QED
    BY <2>1, <2>2, <2>4, NothingSeen
<1>13. ASSUME NEW t \in Caller, FreeReturns(t) PROVE UNCHANGED A!vars
  <2>1. doing[t].pc = "merge" /\ Goes(t, NoCall)
    BY <1>13 DEF FreeReturns
  <2>2. InUse' = InUse
    BY <1>13, FreeReturnsEffect
  <2>3. NoCall \in CallState /\ NoCall.pc = "idle"
    BY DEF CallState, NoCall
  <2> QED
    BY <2>1, <2>2, <2>3, NothingSeen
<1> QED
  BY <1>2, <1>3, <1>4, <1>5, <1>6, <1>7, <1>8, <1>9, <1>10, <1>11, <1>12, <1>13 DEF BuddyNext

LEMMA BuddyInitRefines == BuddyInit => A!Init
<1> SUFFICES ASSUME BuddyInit PROVE A!Init
  OBVIOUS
<1>1. /\ list = [o \in Order |-> <<>>] /\ held = Usable \X {0}
      /\ doing = [t \in Caller |-> NoCall]
  BY DEF BuddyInit
<1>2. \A o \in Order : ToSet(list[o]) = {}
  BY <1>1, EmptyList
<1>3. \A t \in Caller : doing[t].pc = "idle" /\ Cut(t) = {} /\ Rest(t) = {} /\ RefusedTo(t) = <<>>
  BY <1>1 DEF NoCall, Cut, Rest, RefusedTo
<1>4. ListedBlocks = {} /\ Rests = {} /\ InUse = held
  <2>1. ListedBlocks = {}
    BY <1>2 DEF ListedBlocks
  <2> QED
    BY <1>3, <2>1 DEF Rests, InUse
<1>5. FreeNow = {}
  BY <1>4 DEF FreeNow, PagesOf
<1>6. RefusedNow = [t \in Caller |-> <<>>]
  BY <1>3 DEF RefusedNow
<1>7. InUse \in SUBSET (PageIndex \X {0})
  BY <1>1, <1>4, NumberFacts
<1>8. A!vars = <<FreeNow, InUse, RefusedNow>>
  BY AllocatorState DEF AllocatorSees
<1> QED
  BY <1>5, <1>6, <1>7, <1>8 DEF A!Init, A!vars

\* For its callers the buddy system is the page allocator: the block they get
\* was wholly free and is theirs until they free it, and they are refused only
\* when no block of the size they ask for is free, however it was cut up.
THEOREM BuddyImplementsPageAllocator == BuddySpec => ImplementsPageAllocator
<1>1. BuddyInit => A!Init
  BY BuddyInitRefines
<1>2. BuddyInv /\ BuddyInv' /\ [BuddyNext]_buddyVars => [A!Next]_(A!vars)
  BY BuddyStepRefines
<1> QED
  BY <1>1, <1>2, BuddyInvHolds, PTL DEF BuddySpec, ImplementsPageAllocator, A!Spec

-----------------------------------------------------------------------------
(* Disks: the inductive invariant.                                         *)

FileJobs == {"read", "readdir", "lookup"}
BootJobs == {"identify", "probe", "mount"}

\* Where a task has the channel of its drive, where it is about a command, and
\* where it has a drive at all.
Critical == {"setup", "ready", "arm", "issue", "wait", "drq", "again", "read",
             "wait2", "up"}
Working == Critical \cup {"down", "check", "done"}
Engaged == Working \cup {"identify", "identified", "lock", "page", "leave"}

\* Where an interrupt is for the task.
Armed == {"issue", "wait", "read", "wait2"}

DiskTypes ==
  /\ kind \in [Port -> {"ahci", "ide"}] /\ dma \in [Port -> BOOLEAN]
  /\ untried \subseteq Port /\ parts \subseteq Port /\ root \in Port \cup {NoPort}
  /\ irqData \in [Channel -> Task \cup {NoTask, Stale}]
  /\ raised \in [Port -> BOOLEAN] /\ moved \in [Port -> BOOLEAN]
  /\ answer \in [Task -> {"none", "good", "bad"}] /\ pc \in [Task -> Places]
  /\ ret \in [Task -> BOOLEAN] /\ doubtful \in [Task -> BOOLEAN]
  /\ have \in [Task -> Nat] /\ early \in Task \cup {NoTask} /\ over \in BOOLEAN

\* What the functions are, and the fields of their records.
HasFields(r, names) == r = [f \in names |-> r[f]]
SemRecords ==
  /\ sem = [l \in Channel \cup Inode |-> sem[l]]
  /\ \A l \in Channel \cup Inode : HasFields(sem[l], {"holder", "queue"})
DriveRecords ==
  /\ drive = [p \in Port |-> drive[p]]
  /\ \A p \in Port : HasFields(drive[p], {"phase", "by", "sector", "ok"})
JobRecords ==
  /\ job = [t \in Task |-> job[t]]
  /\ \A t \in Task : HasFields(job[t], {"for", "port", "inode", "todo"})
DiskRecords ==
  /\ buffer = [t \in Task |-> buffer[t]]
  /\ SemRecords /\ DriveRecords /\ JobRecords
  /\ \A p \in Port : /\ drive[p].phase \in {"idle", "busy", "drq", "failed", "ending"}
                     /\ drive[p].by \in Task \cup {NoTask} /\ drive[p].ok \in BOOLEAN

\* What the place of a task says of its job and its drive.
JobSound(t) ==
  /\ pc[t] \in Engaged => PortOf(t) \in Port
  /\ pc[t] \in Working => job[t].for \in FileJobs \cup BootJobs
  /\ pc[t] \in Working \cup {"identify"} => have[t] > 0
  /\ pc[t] \in {"identify", "setup", "ready"} => OfKind(t, "ide")
  /\ pc[t] \in {"drq", "again", "read", "wait2"} => OfKind(t, "ide") /\ ~dma[PortOf(t)]
  /\ pc[t] \in {"identified", "check"} => OfKind(t, "ahci")
  /\ pc[t] \in Working /\ job[t].for = "identify" =>
       pc[t] \in {"arm", "issue", "wait"} /\ OfKind(t, "ahci")
  /\ pc[t] \in {"lock", "page", "leave"} => job[t].for \in FileJobs
  /\ pc[t] \in Engaged /\ job[t].for \in FileJobs => job[t].inode \in Inode

\* While a task boots the others are not there.
Booting(t) ==
  \/ pc[t] \in {"boot", "identify", "identified", "sync"}
  \/ pc[t] \in Working /\ job[t].for \in BootJobs
BootsAlone == \A t, u \in Task : Booting(t) /\ u # t => pc[u] = "new"

\* A channel is held by the task that uses it; while booting there is no need.
ChannelsHeld ==
  \A t \in Task : pc[t] \in Critical /\ job[t].for # "identify" =>
    sem[ChannelOf(PortOf(t))].holder = t

\* The data of an interrupt is that of the task the channel works for.
IrqDataSound ==
  /\ \A t \in Task : pc[t] \in Armed => irqData[ChannelOf(PortOf(t))] = t
  /\ \A c \in Channel : irqData[c] \in Task =>
       pc[irqData[c]] \in Armed /\ ChannelOf(PortOf(irqData[c])) = c

\* Who was early has reported when it goes on to another drive.
EarlySound ==
  \A t \in Task : early = t =>
    pc[t] # "new" /\ (pc[t] \in {"boot", "sync"} => over)

\* Until a wait ends early a drive that works, or has raised its bit, has a
\* task that waits for the answer.
WaitsFor(t, p) == PortOf(t) = p /\ answer[t] = "none"
Prompt(p) ==
  /\ drive[p].phase = "busy" => 
       pc[drive[p].by] = "wait" /\ WaitsFor(drive[p].by, p) /\ ~raised[p]
  /\ drive[p].phase = "ending" =>
       (\E t \in Task : pc[t] = "wait2" /\ WaitsFor(t, p)) /\ ~raised[p]
  /\ raised[p] => \E t \in Task :
       /\ pc[t] \in {"wait", "wait2"} /\ WaitsFor(t, p)
       /\ pc[t] = "wait" /\ ByDma(t) /\ drive[p].ok => buffer[t] = Wanted(t)
AnswerSound(t) ==
  /\ pc[t] \in {"issue", "read"} => answer[t] = "none"
  /\ pc[t] = "wait" /\ OfKind(t, "ide") /\ ByDma(t) /\ answer[t] = "good" =>
       buffer[t] = Wanted(t)
InterruptsPrompt ==
  early = NoTask => (\A p \in Port : Prompt(p)) /\ (\A t \in Task : AnswerSound(t))

\* A drive that works does so for a task that waits, or for one that did not.
BusySound(p) ==
  drive[p].phase = "busy" =>
    /\ drive[p].by \in Task
    /\ \/ /\ pc[drive[p].by] = "wait" /\ PortOf(drive[p].by) = p
          /\ drive[p].sector = Wanted(drive[p].by)
       \/ /\ early # NoTask /\ kind[p] = "ide"
          /\ pc[drive[p].by] \in Engaged => PortOf(drive[p].by) = p

\* Without DMA what the drive offers is what the task wants.
OffersWanted(t) ==
  /\ pc[t] \in {"wait", "drq"} /\ ~ByDma(t) /\ drive[PortOf(t)].phase # "idle" =>
       drive[PortOf(t)].sector = Wanted(t)
  /\ pc[t] \in {"again", "read"} => drive[PortOf(t)].sector = Wanted(t)

\* What prdbc says of the command of a task.
MovedSound(t) ==
  /\ pc[t] = "issue" /\ OfKind(t, "ahci") => ~moved[PortOf(t)]
  /\ pc[t] \in {"wait", "up"} /\ OfKind(t, "ahci") /\ moved[PortOf(t)] =>
       buffer[t] = Wanted(t)
  /\ pc[t] = "check" /\ ~doubtful[t] =>
       /\ moved[PortOf(t)] => buffer[t] = Wanted(t)
       /\ \A u \in Task : pc[u] \in {"issue", "wait"} => PortOf(u) # PortOf(t)

\* A report of success is true, and the drive writes no more.
ReportSound(t) ==
  ret[t] /\ ~doubtful[t] =>
    /\ pc[t] = "done" => buffer[t] = Wanted(t)
    /\ pc[t] \in {"wait2", "up", "done"} /\ OfKind(t, "ide") =>
         /\ buffer[t] = Wanted(t)
         /\ ByDma(t) /\ drive[PortOf(t)].phase = "busy" => drive[PortOf(t)].by # t

DiskInv ==
  /\ DiskTypes /\ DiskRecords
  /\ BootsAlone /\ ChannelsHeld /\ IrqDataSound /\ EarlySound /\ InterruptsPrompt
  /\ \A t \in Task : JobSound(t) /\ OffersWanted(t) /\ MovedSound(t) /\ ReportSound(t)
  /\ \A p \in Port : BusySound(p)

-----------------------------------------------------------------------------
(* What the invariant says of two tasks.                                   *)

LEMMA EngagedPort ==
  ASSUME DiskInv, NEW t \in Task, pc[t] \in Engaged
  PROVE  PortOf(t) \in Port
BY DEF DiskInv, JobSound

\* A channel works for one task at a time.
LEMMA OneInChannel ==
  ASSUME DiskInv, NEW t \in Task, NEW u \in Task, pc[t] \in Critical, pc[u] \in Critical,
         ChannelOf(PortOf(t)) = ChannelOf(PortOf(u))
  PROVE  t = u
<1>1. ASSUME NEW v \in Task, pc[v] \in Critical, job[v].for = "identify"
      PROVE  \A w \in Task : w # v => pc[w] = "new"
  BY <1>1 DEF DiskInv, BootsAlone, Booting, BootJobs, Working
<1>2. "new" \notin Critical
  BY DEF Critical
<1>3. QED BY <1>1, <1>2 DEF DiskInv, ChannelsHeld

\* The same of a drive.
LEMMA OneAtDrive ==
  ASSUME DiskInv
  PROVE  /\ \A u \in Task : pc[u] \in Engaged => PortOf(u) \in Port
         /\ \A t, u \in Task :
              pc[t] \in Critical /\ pc[u] \in Critical /\ PortOf(t) = PortOf(u) => t = u
         /\ \A p \in Port : drive[p].phase = "busy" => drive[p].by \in Task
<1>1. \A t, u \in Task : PortOf(t) = PortOf(u) => ChannelOf(PortOf(t)) = ChannelOf(PortOf(u))
  OBVIOUS
<1>2. \A t, u \in Task :
        pc[t] \in Critical /\ pc[u] \in Critical /\ PortOf(t) = PortOf(u) => t = u
  BY <1>1, OneInChannel
<1>3. QED BY <1>2, EngagedPort DEF DiskInv, BusySound

-----------------------------------------------------------------------------
(* What a task does to its own place leaves the others theirs.             *)

Others(t) ==
  \A u \in Task : u # t =>
    /\ pc'[u] = pc[u] /\ job'[u] = job[u] /\ have'[u] = have[u]
    /\ ret'[u] = ret[u] /\ buffer'[u] = buffer[u] /\ (doubtful[u] => doubtful'[u])

\* Whether a drive has DMA is found out while its task is alone.
DmaKept(t) == dma' = dma \/ \A u \in Task : u # t => pc[u] = "new"

SemKept(t) ==
  \A l \in Channel : sem[l].holder \in Task /\ sem[l].holder # t => sem'[l].holder = sem[l].holder

OwnPlace(t) ==
  /\ JobSound(t)' /\ pc[t] # "new" /\ pc'[t] # "new"
  /\ Booting(t)' => Booting(t)
  /\ (pc[t] \in Critical /\ job[t].for # "identify" => sem[ChannelOf(PortOf(t))].holder = t)'
  /\ early' = early \/ (early' = t /\ pc'[t] \notin {"boot", "sync"})
  /\ pc'[t] \in {"boot", "sync"} /\ ~over' => early # t
  /\ over => over'

\* A step of t at a place of its own leaves who has what.
LEMMA ShapeKept ==
  ASSUME DiskInv, NEW t \in Task, Others(t), kind' = kind, DmaKept(t), SemKept(t), OwnPlace(t)
  PROVE  /\ (\A u \in Task : JobSound(u))'
         /\ BootsAlone' /\ ChannelsHeld' /\ EarlySound'
<1>1. ASSUME NEW u \in Task, u # t
      PROVE  /\ pc'[u] = pc[u] /\ job'[u] = job[u] /\ have'[u] = have[u]
             /\ PortOf(u)' = PortOf(u) /\ ChannelOf(PortOf(u))' = ChannelOf(PortOf(u))
             /\ \A k : OfKind(u, k)' <=> OfKind(u, k)
             /\ Booting(u)' <=> Booting(u)
  BY <1>1 DEF Others, PortOf, ChannelOf, OfKind, Booting
<1>2. ASSUME NEW u \in Task PROVE JobSound(u)'
  <2>1. CASE u = t
    BY <2>1 DEF OwnPlace
  <2>2. CASE u # t
    BY <1>1, <2>2 DEF DmaKept, DiskInv, JobSound, Engaged, Working, Critical
  <2>3. QED BY <2>1, <2>2
<1>3. BootsAlone'
  <2>1. ASSUME NEW v \in Task, NEW u \in Task, Booting(v)', u # v PROVE pc'[u] = "new"
    <3>1. CASE v = t
      BY <3>1, <2>1, <1>1 DEF OwnPlace, DiskInv, BootsAlone
    <3>2. CASE v # t
      BY <3>2, <2>1, <1>1 DEF OwnPlace, DiskInv, BootsAlone
    <3>3. QED BY <3>1, <3>2
  <2>2. QED BY <2>1 DEF BootsAlone
<1>4. ChannelsHeld'
  <2>1. ASSUME NEW u \in Task, u # t, pc[u] \in Critical, job[u].for # "identify"
        PROVE  sem'[ChannelOf(PortOf(u))].holder = u
    <3>1. PortOf(u) \in Port /\ ChannelOf(PortOf(u)) \in Channel
      BY <2>1, EngagedPort DEF Engaged, Working, ChannelOf, Channel
    <3>2. QED BY <3>1, <2>1 DEF DiskInv, ChannelsHeld, SemKept
  <2>2. QED BY <2>1, <1>1 DEF OwnPlace, ChannelsHeld
<1>5. EarlySound'
  BY <1>1 DEF OwnPlace, DiskInv, EarlySound
<1>6. QED BY <1>2, <1>3, <1>4, <1>5

\* A task without a command leaves the data of the interrupts alone.
LEMMA IrqKept ==
  ASSUME DiskInv, NEW t \in Task, Others(t), kind' = kind, irqData' = irqData,
         pc[t] \notin Armed, pc'[t] \notin Armed
  PROVE  IrqDataSound'
<1>1. ASSUME NEW u \in Task, u # t
      PROVE  pc'[u] = pc[u] /\ ChannelOf(PortOf(u))' = ChannelOf(PortOf(u))
  BY <1>1 DEF Others, PortOf, ChannelOf
<1>2. QED BY <1>1 DEF DiskInv, IrqDataSound, Channel

\* A step of a task that neither is nor will be in the hands of a drive.
OwnWork(t) ==
  /\ UNCHANGED <<drive, answer, early, irqData, kind>>
  /\ \A p \in Port : (raised'[p] => raised[p]) /\ (moved'[p] => moved[p])
  /\ pc[t] \notin Armed /\ pc'[t] \notin Armed
  /\ pc'[t] \in Engaged => (PortOf(t)' = PortOf(t) /\ pc[t] \in Engaged) \/ early = NoTask
  /\ OffersWanted(t)' /\ MovedSound(t)' /\ ReportSound(t)'

\* So it does no harm.
LEMMA OwnStep ==
  ASSUME DiskInv, NEW t \in Task, Others(t), DmaKept(t), SemKept(t), OwnPlace(t), OwnWork(t),
         DiskTypes', DiskRecords'
  PROVE  DiskInv'
<1>1. ASSUME NEW u \in Task, u # t
      PROVE  /\ pc'[u] = pc[u] /\ PortOf(u)' = PortOf(u) /\ Wanted(u)' = Wanted(u)
             /\ buffer'[u] = buffer[u] /\ ret'[u] = ret[u] /\ (doubtful[u] => doubtful'[u])
             /\ \A k : OfKind(u, k)' <=> OfKind(u, k)
             /\ pc[u] # "new" => (ByDma(u)' <=> ByDma(u))
  BY <1>1 DEF Others, DmaKept, OwnWork, PortOf, OfKind, ByDma, Wanted
<1>2. /\ drive' = drive /\ answer' = answer /\ early' = early /\ kind' = kind
      /\ irqData' = irqData
  BY DEF OwnWork
<1>3. /\ (\A u \in Task : JobSound(u))' /\ BootsAlone' /\ ChannelsHeld' /\ EarlySound'
      /\ IrqDataSound'
  BY <1>2, ShapeKept, IrqKept DEF OwnWork
<1>4. ASSUME early' = NoTask, NEW p \in Port PROVE Prompt(p)'
  <2>1. Prompt(p)
    BY <1>2, <1>4 DEF DiskInv, InterruptsPrompt
  <2>2. drive[p].phase = "busy" => drive[p].by \in Task
    BY OneAtDrive
  <2>3. QED BY <2>1, <2>2, <1>1, <1>2 DEF Prompt, WaitsFor, OwnWork, Armed
<1>5. ASSUME early' = NoTask, NEW u \in Task PROVE AnswerSound(u)'
  <2>1. AnswerSound(u)
    BY <1>2, <1>5 DEF DiskInv, InterruptsPrompt
  <2>2. QED BY <2>1, <1>1, <1>2 DEF AnswerSound, OwnWork, Armed
<1>6. ASSUME NEW p \in Port PROVE BusySound(p)'
  <2>1. BusySound(p)
    BY DEF DiskInv
  <2>2. ASSUME drive[p].phase = "busy", drive[p].by # t PROVE BusySound(p)'
    BY <2>1, <2>2, <1>1, <1>2 DEF BusySound
  <2>3. ASSUME drive[p].phase = "busy", drive[p].by = t PROVE BusySound(p)'
    BY <2>1, <2>3, <1>2 DEF BusySound, OwnWork, Armed
  <2>4. QED BY <2>2, <2>3, <1>2 DEF BusySound
<1>7. ASSUME NEW u \in Task PROVE OffersWanted(u)' /\ MovedSound(u)' /\ ReportSound(u)'
  <2>1. CASE u = t
    BY <2>1 DEF OwnWork
  <2>2. CASE u # t
    <3>1. OffersWanted(u) /\ MovedSound(u) /\ ReportSound(u)
      BY DEF DiskInv
    <3>2. pc[u] \in Engaged => PortOf(u) \in Port
      BY EngagedPort
    <3>3. OffersWanted(u)'
      BY <3>1, <1>1, <1>2, <2>2 DEF OffersWanted
    <3>4. MovedSound(u)'
      <4>1. \A v \in Task : pc'[v] \in {"issue", "wait"} => pc[v] = pc'[v] /\ PortOf(v)' = PortOf(v)
        BY <1>1 DEF OwnWork, Armed
      <4>2. QED BY <4>1, <3>1, <3>2, <1>1, <1>2, <2>2 DEF MovedSound, OwnWork, Engaged, Working, Critical
    <3>5. ReportSound(u)'
      BY <3>1, <1>1, <1>2, <2>2 DEF ReportSound
    <3>6. QED BY <3>3, <3>4, <3>5
  <2>3. QED BY <2>1, <2>2
<1>8. QED BY <1>3, <1>4, <1>5, <1>6, <1>7 DEF DiskInv, InterruptsPrompt

-----------------------------------------------------------------------------
(* Semaphores.                                                             *)

\* A semaphore that is taken stays its holder's.
LEMMA DownKeeps ==
  ASSUME SemRecords, NEW t \in Task, NEW l \in Channel \cup Inode, NEW there, Down(t, l, there)
  PROVE  /\ SemRecords' /\ SemKept(t)
         /\ \/ pc' = [pc EXCEPT ![t] = there] /\ sem'[l].holder = t
            \/ pc' = pc /\ \A k \in Channel \cup Inode : sem'[k].holder = sem[k].holder
<1> DEFINE q1 == SelectSeq(sem[l].queue, LAMBDA u : u # t)
           q2 == IF t \in ToSet(sem[l].queue) THEN sem[l].queue ELSE Cons(t, sem[l].queue)
<1>1. \/ /\ sem[l].holder = NoTask /\ sem' = [sem EXCEPT ![l] = [holder |-> t, queue |-> q1]]
         /\ pc' = [pc EXCEPT ![t] = there]
      \/ sem' = [sem EXCEPT ![l].queue = q2] /\ pc' = pc
  BY DEF Down, Goto
<1> HIDE DEF q1, q2
<1>2. CASE /\ sem[l].holder = NoTask /\ sem' = [sem EXCEPT ![l] = [holder |-> t, queue |-> q1]]
           /\ pc' = [pc EXCEPT ![t] = there]
  BY <1>2, DiskAssumption DEF SemRecords, HasFields, SemKept
<1>3. CASE sem' = [sem EXCEPT ![l].queue = q2] /\ pc' = pc
  BY <1>3 DEF SemRecords, HasFields, SemKept
<1>4. QED BY <1>1, <1>2, <1>3

\* It is given back by its holder.
LEMMA UpKeeps ==
  ASSUME SemRecords, NEW t \in Task, NEW l \in Channel \cup Inode, NEW there, Up(t, l, there),
         l \in Channel => sem[l].holder = t
  PROVE  SemRecords' /\ SemKept(t) /\ pc' = [pc EXCEPT ![t] = there]
<1>1. sem' = [sem EXCEPT ![l].holder = NoTask] /\ pc' = [pc EXCEPT ![t] = there]
  BY DEF Up, Goto
<1>2. QED BY <1>1 DEF SemRecords, HasFields, SemKept

-----------------------------------------------------------------------------
(* Jobs, and the pages a task holds.                                       *)

JobFields == {"for", "port", "inode", "todo"}

LEMMA GiveKeeps ==
  ASSUME JobRecords, NEW t \in Task, NEW j, HasFields(j, JobFields), Give(t, j)
  PROVE  /\ JobRecords' /\ job'[t] = j
         /\ \A u \in Task : u # t => job'[u] = job[u]
BY DEF JobRecords, JobFields, HasFields, Give

\* A new job, and none.
LEMMA NewJob ==
  ASSUME NEW for, NEW p, NEW i, NEW todo
  PROVE  LET j == Job(for, p, i, todo) IN
         /\ HasFields(j, JobFields)
         /\ j.for = for /\ j.port = p /\ j.inode = i /\ j.todo = todo
BY DEF Job, HasFields, JobFields

LEMMA NoJobFields == HasFields(NoJob, JobFields) /\ NoJob.port = NoPort /\ NoJob.for = "none"
BY DEF NoJob, HasFields, JobFields

\* What a task holds, and what it has to report.
Holdings ==
  /\ have \in [Task -> Nat] /\ ret \in [Task -> BOOLEAN] /\ doubtful \in [Task -> BOOLEAN]
  /\ buffer = [u \in Task |-> buffer[u]]
OthersHold(t) ==
  \A u \in Task : u # t => /\ have'[u] = have[u] /\ ret'[u] = ret[u]
                           /\ buffer'[u] = buffer[u] /\ doubtful'[u] = doubtful[u]

LEMMA TakeKeeps ==
  ASSUME Holdings, NEW t \in Task, NEW n \in {1, 2}, Take(t, n)
  PROVE  Holdings' /\ OthersHold(t) /\ have'[t] > 0 /\ ret'[t] = FALSE
BY DEF Holdings, OthersHold, Take

LEMMA ReleaseKeeps ==
  ASSUME Holdings, NEW t \in Task, Release(t), over \in BOOLEAN
  PROVE  /\ Holdings' /\ OthersHold(t) /\ ret'[t] = FALSE
         /\ over' \in BOOLEAN /\ (over => over') /\ (~over' => early # t)
BY DEF Holdings, OthersHold, Release

\* The next page of the same file, or the end of the call.
StaysWith(t) ==
  /\ job'[t].for = job[t].for /\ job'[t].port = job[t].port /\ job'[t].inode = job[t].inode

LEMMA AdvanceKeeps ==
  ASSUME JobRecords, pc \in [Task -> Places], NEW t \in Task, Advance(t)
  PROVE  /\ JobRecords' /\ pc' \in [Task -> Places]
         /\ \A u \in Task : u # t => job'[u] = job[u] /\ pc'[u] = pc[u]
         /\ pc'[t] = "out" \/ (pc'[t] \in {"page", "leave"} /\ StaysWith(t))
<1> DEFINE rest == Tail(job[t].todo)
           end == IF job[t].for = "lookup" THEN "out" ELSE "leave"
<1>1. \/ Give(t, [job[t] EXCEPT !.todo = rest]) /\ Goto(t, "page")
      \/ Give(t, IF end = "out" THEN NoJob ELSE [job[t] EXCEPT !.todo = <<>>]) /\ Goto(t, end)
  BY DEF Advance
<1> HIDE DEF rest
<1>2. \A there \in {"page", "out", "leave"} : Goto(t, there) =>
        /\ pc' \in [Task -> Places] /\ pc'[t] = there
        /\ \A u \in Task : u # t => pc'[u] = pc[u]
  BY DEF Goto, Places
<1>3. \A x : Give(t, [job[t] EXCEPT !.todo = x]) =>
        JobRecords' /\ StaysWith(t) /\ \A u \in Task : u # t => job'[u] = job[u]
  BY DEF Give, JobRecords, HasFields, StaysWith
<1>4. Give(t, NoJob) => JobRecords' /\ \A u \in Task : u # t => job'[u] = job[u]
  BY NoJobFields, GiveKeeps
<1>5. CASE Give(t, [job[t] EXCEPT !.todo = rest]) /\ Goto(t, "page")
  BY <1>2, <1>3, <1>5
<1>6. CASE Give(t, IF end = "out" THEN NoJob ELSE [job[t] EXCEPT !.todo = <<>>]) /\ Goto(t, end)
  <2>1. CASE end = "out"
    BY <1>2, <1>4, <1>6, <2>1
  <2>2. CASE end = "leave"
    BY <1>2, <1>3, <1>6, <2>2
  <2>3. QED BY <2>1, <2>2
<1>7. QED BY <1>1, <1>5, <1>6

LEMMA ChannelHeld ==
  ASSUME DiskInv, NEW t \in Task, pc[t] \in Critical, job[t].for # "identify"
  PROVE  sem[ChannelOf(PortOf(t))].holder = t
BY DEF DiskInv, ChannelsHeld

-----------------------------------------------------------------------------
(* Steps of a task that no drive works for.                               *)

LEMMA EnableKeeps ==
  ASSUME DiskInv, NEW t \in Task, Enable(t), ~over
  PROVE  DiskInv'
<1>1. /\ DiskTypes /\ DiskRecords /\ JobSound(t) /\ BootsAlone /\ EarlySound
      /\ Holdings /\ JobRecords
  BY DEF DiskInv, DiskTypes, DiskRecords, Holdings
<1>3. /\ Holdings' /\ JobRecords' /\ OthersHold(t) /\ pc' \in [Task -> Places]
      /\ \A u \in Task : u # t => job'[u] = job[u] /\ pc'[u] = pc[u]
      /\ untried' \subseteq Port
      /\ UNCHANGED <<kind, dma, parts, root, irqData, raised, drive, moved, answer, early, sem, over>>
      /\ \/ \E p \in Port :
              /\ job'[t].for = "identify" /\ job'[t].port = p /\ have'[t] > 0
              /\ pc'[t] = IF kind[p] = "ahci" THEN "arm" ELSE "identify"
         \/ pc'[t] = "sync"
  <2>1. CASE untried = {} /\ Goto(t, "sync") /\ UNCHANGED <<untried, job, have, buffer, ret, doubtful>>
    BY <1>1, <2>1 DEF Enable, Holdings, JobRecords, HasFields, OthersHold, Goto, DiskTypes, Places, setupVars, cacheVars, lineVars, endVars
  <2>2. CASE untried # {} \/ pc' # [pc EXCEPT ![t] = "sync"]
    <3>1. PICK p \in untried :
            /\ untried' = untried \ {p} /\ Give(t, Job("identify", p, NoInode, <<0>>))
            /\ Goto(t, IF kind[p] = "ahci" THEN "arm" ELSE "identify") /\ Take(t, 1)
      BY <2>2 DEF Enable, Goto
    <3>2. /\ JobRecords' /\ job'[t].for = "identify" /\ job'[t].port = p
          /\ \A u \in Task : u # t => job'[u] = job[u]
      BY <1>1, <3>1, GiveKeeps, NewJob
    <3>3. QED BY <1>1, <3>1, <3>2, TakeKeeps DEF Enable, Goto, DiskTypes, Places, setupVars, cacheVars, lineVars, endVars
  <2>3. QED BY <2>1, <2>2 DEF Enable, Goto
<1>4. DiskTypes'
  BY <1>1, <1>3 DEF DiskTypes, Holdings
<1>5. DiskRecords'
  BY <1>1, <1>3 DEF DiskRecords, SemRecords, DriveRecords, Channel, Holdings
<1>6. Others(t) /\ DmaKept(t) /\ SemKept(t)
  BY <1>1, <1>3 DEF Others, OthersHold, DmaKept, SemKept, BootsAlone, Booting, Enable
<1>7. OwnPlace(t)
  BY <1>1, <1>3 DEF DiskTypes, OwnPlace, JobSound, BootsAlone, EarlySound, Booting, Engaged, Working, Critical,
     BootJobs, FileJobs, PortOf, OfKind, ChannelOf, StaysWith, Enable
<1>8. OwnWork(t)
  BY <1>1, <1>3 DEF DiskTypes, OwnWork, Armed, JobSound, OffersWanted, MovedSound, ReportSound, BootsAlone,
     EarlySound, Booting, Engaged, Working, Critical, PortOf, OfKind, StaysWith, Enable
<1>9. QED BY <1>4, <1>5, <1>6, <1>7, <1>8, OwnStep

LEMMA AhciIdentifiedKeeps ==
  ASSUME DiskInv, NEW t \in Task, AhciIdentified(t), ~over
  PROVE  DiskInv'
<1>1. DiskTypes /\ DiskRecords /\ JobSound(t) /\ BootsAlone /\ EarlySound
  BY DEF DiskInv
<1>p. PortOf(t) \in Port
  BY EngagedPort DEF Engaged, Working, Critical, AhciIdentified
<1>2. DiskTypes'
  BY <1>1, <1>p DEF DiskTypes, Places, Channel, PortOf, AhciIdentified, Release, Goto, setupVars, cacheVars, lineVars, endVars
<1>3. DiskRecords'
  BY <1>1, <1>p DEF DiskTypes, DiskRecords, SemRecords, JobRecords, DriveRecords, HasFields, Channel, AhciIdentified, Release, Goto, setupVars, cacheVars, lineVars, endVars
<1>4. Others(t) /\ DmaKept(t) /\ SemKept(t)
  BY <1>1 DEF DiskTypes, DiskRecords, JobRecords, Others, DmaKept, SemKept, BootsAlone, Booting, AhciIdentified, Release, Goto, setupVars, cacheVars, lineVars, endVars
<1>5. OwnPlace(t)
  BY <1>1, <1>p DEF DiskTypes, DiskRecords, JobRecords, HasFields, OwnPlace, JobSound, BootsAlone, EarlySound, Booting, Engaged, Working, Critical, BootJobs, FileJobs, PortOf, OfKind, ChannelOf, AhciIdentified, Release, Goto, setupVars, cacheVars, lineVars, endVars
<1>6. OwnWork(t)
  BY <1>1, <1>p DEF DiskTypes, DiskRecords, JobRecords, HasFields, OwnWork, Armed, JobSound, OffersWanted, MovedSound, ReportSound, BootsAlone, EarlySound, Booting, Engaged, Working, Critical, ByDma, PortOf, OfKind, AhciIdentified, Release, Goto, setupVars, cacheVars, lineVars, endVars
<1>7. QED BY <1>2, <1>3, <1>4, <1>5, <1>6, OwnStep

LEMMA IdeIdentifiedKeeps ==
  ASSUME DiskInv, NEW t \in Task, IdeIdentified(t), ~over
  PROVE  DiskInv'
<1>1. /\ DiskTypes /\ DiskRecords /\ JobSound(t) /\ BootsAlone /\ EarlySound
      /\ Holdings /\ JobRecords
  BY DEF DiskInv, DiskTypes, DiskRecords, Holdings
<1>2. PortOf(t) \in Port
  BY EngagedPort DEF Engaged, Working, Critical, IdeIdentified
<1>3. /\ Holdings' /\ JobRecords' /\ OthersHold(t) /\ pc' \in [Task -> Places]
      /\ \A u \in Task : u # t => job'[u] = job[u] /\ pc'[u] = pc[u]
      /\ dma' \in [Port -> BOOLEAN] /\ parts' \subseteq Port /\ over' \in BOOLEAN
      /\ UNCHANGED <<kind, untried, root, irqData, raised, drive, moved, answer, early, sem>>
      /\ job'[t].port = job[t].port /\ (over => over')
      /\ \/ pc'[t] = "boot" /\ (~over' => early # t)
         \/ pc'[t] = "down" /\ job'[t].for = "probe" /\ have'[t] = have[t]
  <2>1. CASE Release(t) /\ Goto(t, "boot") /\ UNCHANGED <<dma, job>>
             /\ (parts' = parts \/ parts' = parts \cup {PortOf(t)})
    BY <1>1, <1>2, <2>1, ReleaseKeeps DEF IdeIdentified, JobRecords, HasFields, Goto, DiskTypes, Places, setupVars, cacheVars, lineVars, endVars
  <2>2. CASE /\ dma' = [dma EXCEPT ![PortOf(t)] = TRUE] /\ Give(t, [job[t] EXCEPT !.for = "probe"])
             /\ Goto(t, "down") /\ UNCHANGED <<parts, have, buffer, ret, doubtful, over>>
    <3>1. /\ JobRecords' /\ job'[t].for = "probe" /\ job'[t].port = job[t].port
          /\ \A u \in Task : u # t => job'[u] = job[u]
      BY <1>1, <2>2 DEF Give, JobRecords, HasFields
    <3>2. QED BY <1>1, <1>2, <2>2, <3>1 DEF IdeIdentified, Holdings, OthersHold, Goto, DiskTypes, Places, setupVars, cacheVars, lineVars, endVars
  <2>3. QED BY <2>1, <2>2 DEF IdeIdentified
<1>4. DiskTypes'
  BY <1>1, <1>2, <1>3 DEF DiskTypes, Holdings
<1>5. DiskRecords'
  BY <1>1, <1>3 DEF DiskRecords, SemRecords, DriveRecords, Channel, Holdings
<1>6. Others(t) /\ DmaKept(t) /\ SemKept(t)
  BY <1>1, <1>3 DEF Others, OthersHold, DmaKept, SemKept, BootsAlone, Booting, IdeIdentified
<1>7. OwnPlace(t)
  BY <1>1, <1>2, <1>3 DEF DiskTypes, OwnPlace, JobSound, BootsAlone, EarlySound, Booting, Engaged, Working, Critical,
     BootJobs, FileJobs, PortOf, OfKind, ChannelOf, StaysWith, IdeIdentified
<1>8. OwnWork(t)
  BY <1>1, <1>2, <1>3 DEF DiskTypes, OwnWork, Armed, JobSound, OffersWanted, MovedSound, ReportSound, BootsAlone,
     EarlySound, Booting, Engaged, Working, Critical, PortOf, OfKind, StaysWith, IdeIdentified
<1>9. QED BY <1>4, <1>5, <1>6, <1>7, <1>8, OwnStep

LEMMA ProbedKeeps ==
  ASSUME DiskInv, NEW t \in Task, Probed(t), ~over
  PROVE  DiskInv'
<1>1. /\ DiskTypes /\ DiskRecords /\ JobSound(t) /\ BootsAlone /\ EarlySound
      /\ Holdings /\ JobRecords
  BY DEF DiskInv, DiskTypes, DiskRecords, Holdings
<1>2. PortOf(t) \in Port
  BY EngagedPort DEF Engaged, Working, Critical, Probed
<1>3. /\ Holdings' /\ JobRecords' /\ OthersHold(t) /\ pc' \in [Task -> Places]
      /\ \A u \in Task : u # t => job'[u] = job[u] /\ pc'[u] = pc[u]
      /\ dma' \in [Port -> BOOLEAN] /\ parts' \subseteq Port /\ over' \in BOOLEAN
      /\ UNCHANGED <<kind, untried, root, irqData, raised, drive, moved, answer, early, sem>>
      /\ (over => over') /\ pc'[t] = "boot" /\ (~over' => early # t)
      /\ \A u \in Task : u # t => pc[u] = "new"
  <2>1. (ret[t] /\ buffer[t] # Junk) \in BOOLEAN
    BY <1>1 DEF DiskTypes
  <2>2. \A u \in Task : u # t => pc[u] = "new"
    BY <1>1 DEF Probed, BootsAlone, Booting, BootJobs, Working
  <2>3. QED BY <1>1, <1>2, <2>1, <2>2, ReleaseKeeps DEF Probed, JobRecords, HasFields, Goto, DiskTypes, Places, setupVars, cacheVars, lineVars, endVars
<1>4. DiskTypes'
  BY <1>1, <1>2, <1>3 DEF DiskTypes, Holdings
<1>5. DiskRecords'
  BY <1>1, <1>3 DEF DiskRecords, SemRecords, DriveRecords, Channel, Holdings
<1>6. Others(t) /\ DmaKept(t) /\ SemKept(t)
  BY <1>1, <1>3 DEF Others, OthersHold, DmaKept, SemKept, BootsAlone, Booting, Probed
<1>7. OwnPlace(t)
  BY <1>1, <1>2, <1>3 DEF DiskTypes, OwnPlace, JobSound, BootsAlone, EarlySound, Booting, Engaged, Working, Critical,
     BootJobs, FileJobs, PortOf, OfKind, ChannelOf, StaysWith, Probed
<1>8. OwnWork(t)
  BY <1>1, <1>2, <1>3 DEF DiskTypes, OwnWork, Armed, JobSound, OffersWanted, MovedSound, ReportSound, BootsAlone,
     EarlySound, Booting, Engaged, Working, Critical, PortOf, OfKind, StaysWith, Probed
<1>9. QED BY <1>4, <1>5, <1>6, <1>7, <1>8, OwnStep

LEMMA SyncKeeps ==
  ASSUME DiskInv, NEW t \in Task, Sync(t), ~over
  PROVE  DiskInv'
<1>1. /\ DiskTypes /\ DiskRecords /\ JobSound(t) /\ BootsAlone /\ EarlySound
      /\ Holdings /\ JobRecords
  BY DEF DiskInv, DiskTypes, DiskRecords, Holdings
<1>3. /\ Holdings' /\ JobRecords' /\ OthersHold(t) /\ pc' \in [Task -> Places]
      /\ \A u \in Task : u # t => job'[u] = job[u] /\ pc'[u] = pc[u]
      /\ parts' \subseteq Port
      /\ UNCHANGED <<kind, dma, untried, root, irqData, raised, drive, moved, answer, early, sem, over>>
      /\ \/ pc'[t] = "down" /\ job'[t].for = "mount" /\ job'[t].port \in Port /\ have'[t] > 0
         \/ pc'[t] = "spawn"
  <2>1. CASE parts = {} /\ Goto(t, "spawn")
    BY <1>1, <2>1 DEF Sync, Holdings, JobRecords, HasFields, OthersHold, Goto, DiskTypes, Places, setupVars, cacheVars, lineVars, endVars
  <2>2. CASE ~(parts = {} /\ Goto(t, "spawn"))
    <3>1. PICK p \in parts :
            /\ parts' = parts \ {p} /\ Give(t, Job("mount", p, NoInode, Volume))
            /\ Goto(t, "down") /\ Take(t, 1)
      BY <2>2 DEF Sync
    <3>2. /\ JobRecords' /\ job'[t].for = "mount" /\ job'[t].port = p
          /\ \A u \in Task : u # t => job'[u] = job[u]
      BY <1>1, <3>1, GiveKeeps, NewJob
    <3>3. QED BY <1>1, <3>1, <3>2, TakeKeeps DEF Sync, Goto, DiskTypes, Places, setupVars, cacheVars, lineVars, endVars
  <2>3. QED BY <2>1, <2>2
<1>4. DiskTypes'
  BY <1>1, <1>3 DEF DiskTypes, Holdings
<1>5. DiskRecords'
  BY <1>1, <1>3 DEF DiskRecords, SemRecords, DriveRecords, Channel, Holdings
<1>6. Others(t) /\ DmaKept(t) /\ SemKept(t)
  BY <1>1, <1>3 DEF Others, OthersHold, DmaKept, SemKept, BootsAlone, Booting, Sync
<1>7. OwnPlace(t)
  BY <1>1, <1>3 DEF DiskTypes, OwnPlace, JobSound, BootsAlone, EarlySound, Booting, Engaged, Working, Critical,
     BootJobs, FileJobs, PortOf, OfKind, ChannelOf, StaysWith, Sync
<1>8. OwnWork(t)
  BY <1>1, <1>3 DEF DiskTypes, OwnWork, Armed, JobSound, OffersWanted, MovedSound, ReportSound, BootsAlone,
     EarlySound, Booting, Engaged, Working, Critical, PortOf, OfKind, StaysWith, Sync
<1>9. QED BY <1>4, <1>5, <1>6, <1>7, <1>8, OwnStep

LEMMA MountKeeps ==
  ASSUME DiskInv, NEW t \in Task, Mount(t), ~over
  PROVE  DiskInv'
<1>1. /\ DiskTypes /\ DiskRecords /\ JobSound(t) /\ BootsAlone /\ EarlySound
      /\ Holdings /\ JobRecords
  BY DEF DiskInv, DiskTypes, DiskRecords, Holdings
<1>2. PortOf(t) \in Port
  BY EngagedPort DEF Engaged, Working, Critical, Mount
<1>3. /\ Holdings' /\ JobRecords' /\ OthersHold(t) /\ pc' \in [Task -> Places]
      /\ \A u \in Task : u # t => job'[u] = job[u] /\ pc'[u] = pc[u]
      /\ root' \in Port \cup {NoPort} /\ over' \in BOOLEAN
      /\ UNCHANGED <<kind, dma, untried, parts, irqData, raised, drive, moved, answer, early, sem>>
      /\ job'[t].port = job[t].port /\ job'[t].for = job[t].for /\ (over => over')
      /\ \/ pc'[t] \in {"sync", "spawn"} /\ (~over' => early # t)
         \/ pc'[t] = "down" /\ have'[t] = have[t]
  <2>1. CASE Release(t) /\ UNCHANGED job /\ (Goto(t, "sync") \/ Goto(t, "spawn"))
             /\ (root' = root \/ root' = PortOf(t))
    <3>1. PICK there \in {"sync", "spawn"} : pc' = [pc EXCEPT ![t] = there]
      BY <2>1 DEF Goto
    <3>2. /\ Holdings' /\ OthersHold(t) /\ over' \in BOOLEAN
          /\ (over => over') /\ (~over' => early # t)
      BY <1>1, <2>1, ReleaseKeeps DEF DiskTypes
    <3>3. /\ pc' \in [Task -> Places] /\ pc'[t] \in {"sync", "spawn"}
          /\ \A u \in Task : u # t => pc'[u] = pc[u]
      BY <1>1, <3>1 DEF DiskTypes, Places
    <3>4. QED BY <1>1, <1>2, <2>1, <3>2, <3>3 DEF Mount, DiskTypes, JobRecords, HasFields, setupVars, lineVars, endVars
  <2>2. CASE /\ Give(t, [job[t] EXCEPT !.todo = Tail(@)]) /\ buffer' = [buffer EXCEPT ![t] = Junk]
             /\ Goto(t, "down") /\ UNCHANGED <<root, have, ret, doubtful, over>>
    <3>1. /\ JobRecords' /\ job'[t].for = job[t].for /\ job'[t].port = job[t].port
          /\ \A u \in Task : u # t => job'[u] = job[u]
      BY <1>1, <2>2 DEF Give, JobRecords, HasFields
    <3>2. QED BY <1>1, <1>2, <2>2, <3>1 DEF Mount, Holdings, OthersHold, Goto, DiskTypes, Places, setupVars, cacheVars, lineVars, endVars
  <2>3. QED BY <2>1, <2>2 DEF Mount
<1>4. DiskTypes'
  BY <1>1, <1>2, <1>3 DEF DiskTypes, Holdings
<1>5. DiskRecords'
  BY <1>1, <1>3 DEF DiskRecords, SemRecords, DriveRecords, Channel, Holdings
<1>6. Others(t) /\ DmaKept(t) /\ SemKept(t)
  BY <1>1, <1>3 DEF Others, OthersHold, DmaKept, SemKept, BootsAlone, Booting, Mount
<1>7. OwnPlace(t)
  BY <1>1, <1>2, <1>3 DEF DiskTypes, OwnPlace, JobSound, BootsAlone, EarlySound, Booting, Engaged, Working, Critical,
     BootJobs, FileJobs, PortOf, OfKind, ChannelOf, StaysWith, Mount
<1>8. OwnWork(t)
  BY <1>1, <1>2, <1>3 DEF DiskTypes, OwnWork, Armed, JobSound, OffersWanted, MovedSound, ReportSound, BootsAlone,
     EarlySound, Booting, Engaged, Working, Critical, PortOf, OfKind, StaysWith, Mount
<1>9. QED BY <1>4, <1>5, <1>6, <1>7, <1>8, OwnStep

LEMMA AskKeeps ==
  ASSUME DiskInv, NEW t \in Task, Ask(t), ~over
  PROVE  DiskInv'
<1>1. /\ DiskTypes /\ DiskRecords /\ JobSound(t) /\ BootsAlone /\ EarlySound
      /\ Holdings /\ JobRecords
  BY DEF DiskInv, DiskTypes, DiskRecords, Holdings
<1>3. /\ Holdings' /\ JobRecords' /\ OthersHold(t) /\ pc' \in [Task -> Places]
      /\ \A u \in Task : u # t => job'[u] = job[u] /\ pc'[u] = pc[u]
      /\ UNCHANGED <<kind, dma, untried, parts, root, irqData, raised, drive, moved, answer, early, sem, over>>
      /\ pc'[t] \in {"page", "lock"} /\ early = NoTask
      /\ job'[t].for \in FileJobs /\ job'[t].port \in Port /\ job'[t].inode \in Inode
  <2>1. PICK r \in Request :
          /\ Give(t, Job(r.for, root, r.inode, r.todo))
          /\ Goto(t, IF r.for = "lookup" THEN "page" ELSE "lock")
    BY DEF Ask
  <2>2. r.for \in FileJobs /\ r.inode \in Inode
    BY <2>1, DiskAssumption DEF FileJobs
  <2>3. /\ JobRecords' /\ \A u \in Task : u # t => job'[u] = job[u]
        /\ job'[t].for = r.for /\ job'[t].port = root /\ job'[t].inode = r.inode
    BY <1>1, <2>1, GiveKeeps, NewJob
  <2>4. QED BY <1>1, <2>1, <2>2, <2>3 DEF Ask, Holdings, OthersHold, cacheVars, Goto, DiskTypes, Places, setupVars, cacheVars, lineVars, endVars
<1>4. DiskTypes'
  BY <1>1, <1>3 DEF DiskTypes, Holdings
<1>5. DiskRecords'
  BY <1>1, <1>3 DEF DiskRecords, SemRecords, DriveRecords, Channel, Holdings
<1>6. Others(t) /\ DmaKept(t) /\ SemKept(t)
  BY <1>1, <1>3 DEF Others, OthersHold, DmaKept, SemKept, BootsAlone, Booting, Ask
<1>7. OwnPlace(t)
  BY <1>1, <1>3 DEF DiskTypes, OwnPlace, JobSound, BootsAlone, EarlySound, Booting, Engaged, Working, Critical,
     BootJobs, FileJobs, PortOf, OfKind, ChannelOf, StaysWith, Ask
<1>8. OwnWork(t)
  BY <1>1, <1>3 DEF DiskTypes, OwnWork, Armed, JobSound, OffersWanted, MovedSound, ReportSound, BootsAlone,
     EarlySound, Booting, Engaged, Working, Critical, PortOf, OfKind, StaysWith, Ask
<1>9. QED BY <1>4, <1>5, <1>6, <1>7, <1>8, OwnStep

LEMMA GetPageKeeps ==
  ASSUME DiskInv, NEW t \in Task, GetPage(t), ~over
  PROVE  DiskInv'
<1>1. /\ DiskTypes /\ DiskRecords /\ JobSound(t) /\ BootsAlone /\ EarlySound
      /\ Holdings /\ JobRecords
  BY DEF DiskInv, DiskTypes, DiskRecords, Holdings
<1>2. PortOf(t) \in Port
  BY EngagedPort DEF Engaged, Working, Critical, GetPage
<1>3. /\ Holdings' /\ JobRecords' /\ OthersHold(t) /\ pc' \in [Task -> Places]
      /\ \A u \in Task : u # t => job'[u] = job[u] /\ pc'[u] = pc[u]
      /\ over' \in BOOLEAN
      /\ UNCHANGED <<kind, dma, untried, parts, root, irqData, raised, drive, moved, answer, early, sem>>
      /\ over => over'
      /\ \/ pc'[t] \in {"out", "halt"}
         \/ pc'[t] \in {"page", "leave"} /\ StaysWith(t)
         \/ pc'[t] = "down" /\ StaysWith(t) /\ have'[t] > 0
  <2>1. UNCHANGED <<kind, dma, untried, parts, root, irqData, raised, drive, moved, answer, early, sem>>
    BY DEF GetPage, setupVars, lineVars
  <2>2. CASE Advance(t) /\ UNCHANGED <<have, buffer, ret, doubtful, over>>
    BY <1>1, <2>1, <2>2, AdvanceKeeps DEF DiskTypes, Holdings, OthersHold
  <2>3. CASE Take(t, 2) /\ Goto(t, "down") /\ UNCHANGED <<job, over>>
    BY <1>1, <2>1, <2>3, TakeKeeps DEF DiskTypes, Goto, Places, StaysWith, JobRecords, HasFields
  <2>4. CASE /\ Give(t, IF job[t].for = "read" THEN [job[t] EXCEPT !.todo = <<>>] ELSE NoJob)
             /\ Goto(t, CASE job[t].for = "read"                -> "leave"
                          [] job[t].for = "readdir" /\ First(t) -> "halt"
                          [] OTHER                              -> "out")
             /\ over' = (over \/ job[t].for = "readdir")
             /\ UNCHANGED <<have, buffer, ret, doubtful>>
    <3>1. over' \in BOOLEAN /\ (over => over')
      BY <1>1, <2>4 DEF DiskTypes
    <3>2. CASE job[t].for = "read"
      <4>1. Give(t, [job[t] EXCEPT !.todo = <<>>]) /\ Goto(t, "leave")
        BY <2>4, <3>2
      <4>2. JobRecords' /\ StaysWith(t) /\ \A u \in Task : u # t => job'[u] = job[u]
        BY <1>1, <4>1 DEF Give, JobRecords, HasFields, StaysWith
      <4>3. QED BY <1>1, <2>1, <2>4, <3>1, <4>1, <4>2 DEF DiskTypes, Goto, Places, Holdings, OthersHold
    <3>3. CASE job[t].for # "read"
      <4>1. Give(t, NoJob) /\ (Goto(t, "halt") \/ Goto(t, "out"))
        BY <2>4, <3>3
      <4>2. JobRecords' /\ \A u \in Task : u # t => job'[u] = job[u]
        BY <1>1, <4>1, GiveKeeps, NoJobFields
      <4>3. QED BY <1>1, <2>1, <2>4, <3>1, <4>1, <4>2 DEF DiskTypes, Goto, Places, Holdings, OthersHold
    <3>4. QED BY <3>2, <3>3
  <2>5. QED BY <2>2, <2>3, <2>4 DEF GetPage
<1>4. DiskTypes'
  BY <1>1, <1>2, <1>3 DEF DiskTypes, Holdings
<1>5. DiskRecords'
  BY <1>1, <1>3 DEF DiskRecords, SemRecords, DriveRecords, Channel, Holdings
<1>6. Others(t) /\ DmaKept(t) /\ SemKept(t)
  BY <1>1, <1>3 DEF Others, OthersHold, DmaKept, SemKept, BootsAlone, Booting, GetPage
<1>7. OwnPlace(t)
  BY <1>1, <1>2, <1>3 DEF DiskTypes, OwnPlace, JobSound, BootsAlone, EarlySound, Booting, Engaged, Working, Critical,
     BootJobs, FileJobs, PortOf, OfKind, ChannelOf, StaysWith, GetPage
<1>8. OwnWork(t)
  BY <1>1, <1>2, <1>3 DEF DiskTypes, OwnWork, Armed, JobSound, OffersWanted, MovedSound, ReportSound, BootsAlone,
     EarlySound, Booting, Engaged, Working, Critical, PortOf, OfKind, StaysWith, GetPage
<1>9. QED BY <1>4, <1>5, <1>6, <1>7, <1>8, OwnStep

LEMMA UsePageKeeps ==
  ASSUME DiskInv, NEW t \in Task, UsePage(t), ~over
  PROVE  DiskInv'
<1>1. /\ DiskTypes /\ DiskRecords /\ JobSound(t) /\ BootsAlone /\ EarlySound
      /\ Holdings /\ JobRecords
  BY DEF DiskInv, DiskTypes, DiskRecords, Holdings
<1>2. PortOf(t) \in Port
  BY EngagedPort DEF Engaged, Working, Critical, UsePage
<1>3. /\ Holdings' /\ JobRecords' /\ OthersHold(t) /\ pc' \in [Task -> Places]
      /\ \A u \in Task : u # t => job'[u] = job[u] /\ pc'[u] = pc[u]
      /\ over' \in BOOLEAN
      /\ UNCHANGED <<kind, dma, untried, parts, root, irqData, raised, drive, moved, answer, early, sem>>
      /\ over => over'
      /\ pc'[t] = "out" \/ (pc'[t] \in {"page", "leave"} /\ StaysWith(t))
  <2>1. UNCHANGED <<kind, dma, untried, parts, root, irqData, raised, drive, moved, answer, early, sem>>
    BY DEF UsePage, setupVars, lineVars
  <2>2. QED BY <1>1, <2>1, AdvanceKeeps, ReleaseKeeps DEF UsePage, DiskTypes
<1>4. DiskTypes'
  BY <1>1, <1>2, <1>3 DEF DiskTypes, Holdings
<1>5. DiskRecords'
  BY <1>1, <1>3 DEF DiskRecords, SemRecords, DriveRecords, Channel, Holdings
<1>6. Others(t) /\ DmaKept(t) /\ SemKept(t)
  BY <1>1, <1>3 DEF Others, OthersHold, DmaKept, SemKept, BootsAlone, Booting, UsePage
<1>7. OwnPlace(t)
  BY <1>1, <1>2, <1>3 DEF DiskTypes, OwnPlace, JobSound, BootsAlone, EarlySound, Booting, Engaged, Working, Critical,
     BootJobs, FileJobs, PortOf, OfKind, ChannelOf, StaysWith, UsePage
<1>8. OwnWork(t)
  BY <1>1, <1>2, <1>3 DEF DiskTypes, OwnWork, Armed, JobSound, OffersWanted, MovedSound, ReportSound, BootsAlone,
     EarlySound, Booting, Engaged, Working, Critical, PortOf, OfKind, StaysWith, UsePage
<1>9. QED BY <1>4, <1>5, <1>6, <1>7, <1>8, OwnStep

LEMMA SetupKeeps ==
  ASSUME DiskInv, NEW t \in Task, Setup(t), ~over
  PROVE  DiskInv'
<1>1. /\ DiskTypes /\ DiskRecords /\ JobSound(t) /\ JobRecords /\ BootsAlone /\ EarlySound
  BY DEF DiskInv, DiskRecords
<1>2. PortOf(t) \in Port
  BY EngagedPort DEF Engaged, Working, Critical, Setup
<1>3. /\ UNCHANGED <<kind, dma, untried, parts, root, irqData, drive, answer, early, sem, over, job, have, buffer, doubtful, moved, ret>>
      /\ pc' \in [Task -> Places] /\ \A u \in Task : u # t => pc'[u] = pc[u]
      /\ pc'[t] = "ready" /\ raised' \in [Port -> BOOLEAN]
      /\ \A p \in Port : raised'[p] => raised[p]
  BY <1>1, <1>2 DEF Setup, Goto, DiskTypes, Places, setupVars, cacheVars, lineVars, endVars
<1>4. DiskTypes'
  BY <1>1, <1>3 DEF DiskTypes
<1>5. DiskRecords'
  BY <1>1, <1>3 DEF DiskRecords, SemRecords, DriveRecords, JobRecords, Channel
<1>6. Others(t) /\ DmaKept(t) /\ SemKept(t)
  BY <1>3 DEF Others, DmaKept, SemKept
<1>7. OwnPlace(t)
  BY <1>1, <1>2, <1>3, ChannelHeld DEF OwnPlace, JobSound, EarlySound, Booting, Engaged, Working, Critical,
     PortOf, OfKind, ChannelOf, Setup
<1>8. OwnWork(t)
  BY <1>1, <1>2, <1>3 DEF DiskTypes, OwnWork, Armed, JobSound, OffersWanted, MovedSound, ReportSound,
     Engaged, Working, Critical, ByDma, PortOf, OfKind, Wanted, Setup
<1>9. QED BY <1>4, <1>5, <1>6, <1>7, <1>8, OwnStep

LEMMA ReadyKeeps ==
  ASSUME DiskInv, NEW t \in Task, Ready(t), ~over
  PROVE  DiskInv'
<1>1. /\ DiskTypes /\ DiskRecords /\ JobSound(t) /\ JobRecords /\ BootsAlone /\ EarlySound
  BY DEF DiskInv, DiskRecords
<1>2. PortOf(t) \in Port
  BY EngagedPort DEF Engaged, Working, Critical, Ready
<1>3. /\ UNCHANGED <<kind, dma, untried, parts, root, irqData, drive, answer, early, sem, over, job, have, buffer, doubtful, moved, raised>>
      /\ pc' \in [Task -> Places] /\ \A u \in Task : u # t => pc'[u] = pc[u]
      /\ ret' \in [Task -> BOOLEAN] /\ \A u \in Task : u # t => ret'[u] = ret[u]
      /\ \/ pc'[t] \in {"ready", "arm"} /\ ret'[t] = ret[t]
         \/ pc'[t] = "up" /\ ret'[t] = FALSE
  BY <1>1 DEF Ready, Poll, Goto, DiskTypes, Places, setupVars, cacheVars, lineVars, endVars
<1>4. DiskTypes'
  BY <1>1, <1>3 DEF DiskTypes
<1>5. DiskRecords'
  BY <1>1, <1>3 DEF DiskRecords, SemRecords, DriveRecords, JobRecords, Channel
<1>6. Others(t) /\ DmaKept(t) /\ SemKept(t)
  BY <1>3 DEF Others, DmaKept, SemKept
<1>7. OwnPlace(t)
  BY <1>1, <1>2, <1>3, ChannelHeld DEF OwnPlace, JobSound, EarlySound, Booting, Engaged, Working, Critical,
     PortOf, OfKind, ChannelOf, Ready
<1>8. OwnWork(t)
  BY <1>1, <1>2, <1>3 DEF DiskTypes, OwnWork, Armed, JobSound, OffersWanted, MovedSound, ReportSound,
     Engaged, Working, Critical, ByDma, PortOf, OfKind, Wanted, Ready
<1>9. QED BY <1>4, <1>5, <1>6, <1>7, <1>8, OwnStep

LEMMA DataReadyKeeps ==
  ASSUME DiskInv, NEW t \in Task, DataReady(t), ~over
  PROVE  DiskInv'
<1>1. /\ DiskTypes /\ DiskRecords /\ JobSound(t) /\ JobRecords /\ BootsAlone /\ EarlySound
  BY DEF DiskInv, DiskRecords
<1>2. PortOf(t) \in Port
  BY EngagedPort DEF Engaged, Working, Critical, DataReady
<1>3. /\ UNCHANGED <<kind, dma, untried, parts, root, irqData, drive, answer, early, sem, over, job, have, buffer, doubtful, moved, raised>>
      /\ pc' \in [Task -> Places] /\ \A u \in Task : u # t => pc'[u] = pc[u]
      /\ ret' \in [Task -> BOOLEAN] /\ \A u \in Task : u # t => ret'[u] = ret[u]
      /\ \/ pc'[t] = "drq" /\ ret'[t] = ret[t]
         \/ /\ ret'[t] = FALSE
            /\ pc'[t] = "up" \/ (pc'[t] = "again" /\ drive[PortOf(t)].phase = "drq")
  BY <1>1 DEF DataReady, Poll, Goto, DiskTypes, Places, setupVars, cacheVars, lineVars, endVars
<1>3a. OffersWanted(t) /\ MovedSound(t)
  BY DEF DiskInv
<1>4. DiskTypes'
  BY <1>1, <1>3 DEF DiskTypes
<1>5. DiskRecords'
  BY <1>1, <1>3 DEF DiskRecords, SemRecords, DriveRecords, JobRecords, Channel
<1>6. Others(t) /\ DmaKept(t) /\ SemKept(t)
  BY <1>3 DEF Others, DmaKept, SemKept
<1>7. OwnPlace(t)
  BY <1>1, <1>2, <1>3, ChannelHeld DEF OwnPlace, JobSound, EarlySound, Booting, Engaged, Working, Critical,
     PortOf, OfKind, ChannelOf, DataReady
<1>8. OwnWork(t)
  BY <1>1, <1>2, <1>3, <1>3a DEF DiskTypes, OwnWork, Armed, JobSound, OffersWanted, MovedSound, ReportSound,
     Engaged, Working, Critical, ByDma, PortOf, OfKind, Wanted, DataReady
<1>9. QED BY <1>4, <1>5, <1>6, <1>7, <1>8, OwnStep

LEMMA CheckKeeps ==
  ASSUME DiskInv, NEW t \in Task, Check(t), ~over
  PROVE  DiskInv'
<1>1. /\ DiskTypes /\ DiskRecords /\ JobSound(t) /\ JobRecords /\ BootsAlone /\ EarlySound
  BY DEF DiskInv, DiskRecords
<1>2. PortOf(t) \in Port
  BY EngagedPort DEF Engaged, Working, Critical, Check
<1>3. /\ UNCHANGED <<kind, dma, untried, parts, root, irqData, drive, answer, early, sem, over, job, have, buffer, doubtful, raised>>
      /\ pc' \in [Task -> Places] /\ \A u \in Task : u # t => pc'[u] = pc[u]
      /\ pc'[t] = "done" /\ ret' \in [Task -> BOOLEAN] /\ ret'[t] = moved[PortOf(t)]
      /\ \A u \in Task : u # t => ret'[u] = ret[u]
      /\ moved' \in [Port -> BOOLEAN] /\ \A p \in Port : moved'[p] => moved[p]
  BY <1>1, <1>2 DEF Check, Goto, DiskTypes, Places, setupVars, cacheVars, lineVars, endVars
<1>3a. OffersWanted(t) /\ MovedSound(t)
  BY DEF DiskInv
<1>4. DiskTypes'
  BY <1>1, <1>3 DEF DiskTypes
<1>5. DiskRecords'
  BY <1>1, <1>3 DEF DiskRecords, SemRecords, DriveRecords, JobRecords, Channel
<1>6. Others(t) /\ DmaKept(t) /\ SemKept(t)
  BY <1>3 DEF Others, DmaKept, SemKept
<1>7. OwnPlace(t)
  BY <1>1, <1>2, <1>3, ChannelHeld DEF OwnPlace, JobSound, EarlySound, Booting, Engaged, Working, Critical,
     PortOf, OfKind, ChannelOf, Check
<1>8. OwnWork(t)
  BY <1>1, <1>2, <1>3, <1>3a DEF DiskTypes, OwnWork, Armed, JobSound, OffersWanted, MovedSound, ReportSound,
     Engaged, Working, Critical, ByDma, PortOf, OfKind, Wanted, Check
<1>9. QED BY <1>4, <1>5, <1>6, <1>7, <1>8, OwnStep

LEMMA TakeChannelKeeps ==
  ASSUME DiskInv, NEW t \in Task, TakeChannel(t), ~over
  PROVE  DiskInv'
<1> DEFINE l == ChannelOf(PortOf(t))
           there == IF OfKind(t, "ahci") THEN "arm" ELSE "setup"
<1>1. /\ DiskTypes /\ DiskRecords /\ JobSound(t) /\ JobRecords /\ SemRecords /\ EarlySound
  BY DEF DiskInv, DiskRecords
<1>2. PortOf(t) \in Port /\ l \in Channel
  BY EngagedPort DEF Engaged, Working, Critical, TakeChannel, ChannelOf, Channel
<1>3. /\ UNCHANGED <<kind, dma, untried, parts, root, irqData, drive, answer, early, over, job, have,
                     buffer, ret, doubtful, moved, raised>>
      /\ pc[t] = "down" /\ there \in {"arm", "setup"}
  BY DEF TakeChannel, setupVars, cacheVars, lineVars, endVars
<1>4. /\ SemRecords' /\ SemKept(t)
      /\ \/ pc' = [pc EXCEPT ![t] = there] /\ sem'[l].holder = t
         \/ pc' = pc
  BY <1>1, <1>2, DownKeeps DEF TakeChannel
<1>5. /\ pc' \in [Task -> Places] /\ \A u \in Task : u # t => pc'[u] = pc[u]
      /\ \/ pc'[t] = there /\ sem'[l].holder = t
         \/ pc'[t] = "down"
  BY <1>1, <1>3, <1>4 DEF DiskTypes, Places
<1>6. DiskTypes'
  BY <1>1, <1>3, <1>5 DEF DiskTypes
<1>7. DiskRecords'
  BY <1>1, <1>3, <1>4 DEF DiskRecords, DriveRecords, JobRecords
<1>8. Others(t) /\ DmaKept(t) /\ SemKept(t)
  BY <1>3, <1>4, <1>5 DEF Others, DmaKept
<1>9. OwnPlace(t)
  BY <1>1, <1>2, <1>3, <1>5 DEF DiskTypes, OwnPlace, JobSound, EarlySound, Booting, Engaged, Working,
     Critical, PortOf, OfKind, ChannelOf
<1>10. OwnWork(t)
  BY <1>1, <1>2, <1>3, <1>5 DEF OwnWork, Armed, OffersWanted, MovedSound, ReportSound, Engaged, Working,
     Critical, PortOf
<1>11. QED BY <1>6, <1>7, <1>8, <1>9, <1>10, OwnStep

LEMMA TakeInodeKeeps ==
  ASSUME DiskInv, NEW t \in Task, TakeInode(t), ~over
  PROVE  DiskInv'
<1>1. /\ DiskTypes /\ DiskRecords /\ JobSound(t) /\ JobRecords /\ SemRecords /\ EarlySound
  BY DEF DiskInv, DiskRecords
<1>2. PortOf(t) \in Port /\ job[t].inode \in Inode
  BY <1>1, EngagedPort DEF JobSound, Engaged, Working, Critical, TakeInode
<1>3. /\ UNCHANGED <<kind, dma, untried, parts, root, irqData, drive, answer, early, over, job, have,
                     buffer, ret, doubtful, moved, raised>>
      /\ pc[t] = "lock"
  BY DEF TakeInode, setupVars, cacheVars, lineVars, endVars
<1>4. /\ SemRecords' /\ SemKept(t)
      /\ pc' = [pc EXCEPT ![t] = "page"] \/ pc' = pc
  BY <1>1, <1>2, DownKeeps DEF TakeInode
<1>5. /\ pc' \in [Task -> Places] /\ pc'[t] \in {"page", "lock"}
      /\ \A u \in Task : u # t => pc'[u] = pc[u]
  BY <1>1, <1>3, <1>4 DEF DiskTypes, Places
<1>6. DiskTypes'
  BY <1>1, <1>3, <1>5 DEF DiskTypes
<1>7. DiskRecords'
  BY <1>1, <1>3, <1>4 DEF DiskRecords, DriveRecords, JobRecords
<1>8. Others(t) /\ DmaKept(t) /\ SemKept(t)
  BY <1>3, <1>4, <1>5 DEF Others, DmaKept
<1>9. OwnPlace(t)
  BY <1>1, <1>2, <1>3, <1>5 DEF OwnPlace, JobSound, EarlySound, Booting, Engaged, Working, Critical, PortOf
<1>10. OwnWork(t)
  BY <1>1, <1>2, <1>3, <1>5 DEF OwnWork, Armed, OffersWanted, MovedSound, ReportSound, Engaged, Working,
     Critical, PortOf
<1>11. QED BY <1>6, <1>7, <1>8, <1>9, <1>10, OwnStep

LEMMA GiveChannelKeeps ==
  ASSUME DiskInv, NEW t \in Task, GiveChannel(t), ~over
  PROVE  DiskInv'
<1> DEFINE l == ChannelOf(PortOf(t))
           there == IF OfKind(t, "ahci") THEN "check" ELSE "done"
<1>1. /\ DiskTypes /\ DiskRecords /\ JobSound(t) /\ JobRecords /\ SemRecords /\ EarlySound
      /\ MovedSound(t) /\ ReportSound(t)
  BY DEF DiskInv, DiskRecords
<1>2. PortOf(t) \in Port /\ l \in Channel
  BY EngagedPort DEF Engaged, Working, Critical, GiveChannel, ChannelOf, Channel
<1>3. /\ UNCHANGED <<kind, dma, untried, parts, root, irqData, drive, answer, early, over, job, have,
                     buffer, ret, doubtful, moved, raised>>
      /\ pc[t] = "up" /\ there \in {"check", "done"}
  BY DEF GiveChannel, setupVars, cacheVars, lineVars, endVars
<1>4. sem[l].holder = t
  BY <1>1, <1>3, ChannelHeld DEF JobSound, Working, Critical
<1>5. SemRecords' /\ SemKept(t) /\ pc' = [pc EXCEPT ![t] = there]
  BY <1>1, <1>2, <1>4, UpKeeps DEF GiveChannel
<1>6. /\ pc' \in [Task -> Places] /\ pc'[t] = there
      /\ \A u \in Task : u # t => pc'[u] = pc[u]
  BY <1>1, <1>3, <1>5 DEF DiskTypes, Places
<1>7. \A u \in Task : pc[u] \in Critical /\ u # t => PortOf(u) # PortOf(t)
  BY <1>3, OneAtDrive DEF Critical
<1>8. DiskTypes'
  BY <1>1, <1>3, <1>6 DEF DiskTypes
<1>9. DiskRecords'
  BY <1>1, <1>3, <1>5 DEF DiskRecords, DriveRecords, JobRecords
<1>10. Others(t) /\ DmaKept(t) /\ SemKept(t)
  BY <1>3, <1>5, <1>6 DEF Others, DmaKept
<1>11. OwnPlace(t)
  BY <1>1, <1>2, <1>3, <1>6 DEF DiskTypes, OwnPlace, JobSound, EarlySound, Booting, Engaged, Working,
     Critical, PortOf, OfKind
<1>12. MovedSound(t)'
  BY <1>1, <1>3, <1>6, <1>7 DEF MovedSound, PortOf, OfKind, Wanted, Critical
<1>13. ReportSound(t)'
  BY <1>1, <1>2, <1>3, <1>6 DEF DiskTypes, ReportSound, PortOf, OfKind, ByDma, Wanted
<1>14. OwnWork(t)
  BY <1>1, <1>2, <1>3, <1>6, <1>12, <1>13 DEF OwnWork, Armed, OffersWanted, Engaged, Working, Critical, PortOf
<1>15. QED BY <1>8, <1>9, <1>10, <1>11, <1>14, OwnStep

LEMMA GiveInodeKeeps ==
  ASSUME DiskInv, NEW t \in Task, GiveInode(t), ~over
  PROVE  DiskInv'
<1>1. /\ DiskTypes /\ DiskRecords /\ JobSound(t) /\ JobRecords /\ SemRecords /\ EarlySound
  BY DEF DiskInv, DiskRecords
<1>2. job[t].inode \in Inode /\ job[t].inode \notin Channel
  BY <1>1, DiskAssumption DEF JobSound, Engaged, GiveInode, Channel
<1>3. /\ UNCHANGED <<kind, dma, untried, parts, root, irqData, drive, answer, early, over, have,
                     buffer, ret, doubtful, moved, raised>>
      /\ pc[t] = "leave"
  BY DEF GiveInode, setupVars, cacheVars, lineVars, endVars
<1>4. SemRecords' /\ SemKept(t) /\ pc' = [pc EXCEPT ![t] = "out"]
  BY <1>1, <1>2, UpKeeps DEF GiveInode
<1>5. /\ pc' \in [Task -> Places] /\ pc'[t] = "out"
      /\ \A u \in Task : u # t => pc'[u] = pc[u]
  BY <1>1, <1>3, <1>4 DEF DiskTypes, Places
<1>6. JobRecords' /\ \A u \in Task : u # t => job'[u] = job[u]
  BY <1>1, GiveKeeps, NoJobFields DEF GiveInode
<1>7. DiskTypes'
  BY <1>1, <1>3, <1>5 DEF DiskTypes
<1>8. DiskRecords'
  BY <1>1, <1>3, <1>4, <1>6 DEF DiskRecords, DriveRecords
<1>9. Others(t) /\ DmaKept(t) /\ SemKept(t)
  BY <1>3, <1>4, <1>5, <1>6 DEF Others, DmaKept
<1>10. OwnPlace(t)
  BY <1>1, <1>3, <1>5 DEF OwnPlace, JobSound, EarlySound, Booting, Engaged, Working, Critical
<1>11. OwnWork(t)
  BY <1>1, <1>3, <1>5 DEF OwnWork, Armed, OffersWanted, MovedSound, ReportSound, Engaged, Working, Critical
<1>12. QED BY <1>7, <1>8, <1>9, <1>10, <1>11, OwnStep

-----------------------------------------------------------------------------
(* A task with a drive.                                                    *)

\* What t does to its drive the drives of the others do not see.
AtOwnDrive(t) ==
  /\ UNCHANGED <<kind, dma, job>> /\ pc[t] \in Critical
  /\ \A p \in Port : /\ p # PortOf(t) => drive'[p] = drive[p]
                     /\ moved'[p] => moved[p]
  /\ LET d == drive'[PortOf(t)]
         was == drive[PortOf(t)]
     IN d.phase = "busy" => d.by = t \/ (was.phase = "busy" /\ d.by = was.by)
  /\ pc'[t] \in {"issue", "wait"} /\ pc[t] \notin {"issue", "wait"} =>
       \A u \in Overtaken(t) : doubtful'[u]

LEMMA OthersAtDrives ==
  ASSUME DiskInv, NEW t \in Task, Others(t), AtOwnDrive(t), NEW u \in Task, u # t
  PROVE  OffersWanted(u)' /\ MovedSound(u)' /\ ReportSound(u)'
<1>1. /\ pc'[u] = pc[u] /\ PortOf(u)' = PortOf(u) /\ Wanted(u)' = Wanted(u)
      /\ buffer'[u] = buffer[u] /\ ret'[u] = ret[u] /\ (doubtful[u] => doubtful'[u])
      /\ \A k : OfKind(u, k)' <=> OfKind(u, k)
      /\ ByDma(u)' <=> ByDma(u)
  BY DEF Others, AtOwnDrive, PortOf, OfKind, ByDma, Wanted
<1>2. /\ OffersWanted(u) /\ MovedSound(u) /\ ReportSound(u)
      /\ pc[u] \in Engaged => PortOf(u) \in Port
      /\ pc[u] \in Critical => PortOf(u) # PortOf(t)
  BY OneAtDrive DEF DiskInv, AtOwnDrive
<1>3. OffersWanted(u)'
  BY <1>1, <1>2 DEF OffersWanted, AtOwnDrive, Engaged, Working, Critical
<1>4. MovedSound(u)'
  <2>1. ASSUME pc[u] = "check", ~doubtful'[u], NEW v \in Task, pc'[v] \in {"issue", "wait"}
        PROVE  PortOf(v)' # PortOf(u)
    <3>1. ~doubtful[u] /\ PortOf(v)' = PortOf(v)
      BY <1>1, <2>1 DEF AtOwnDrive, PortOf
    <3>2. CASE pc[v] \in {"issue", "wait"}
      BY <1>2, <2>1, <3>1, <3>2 DEF MovedSound
    <3>3. CASE pc[v] \notin {"issue", "wait"}
      <4>1. v = t
        BY <2>1, <3>3 DEF Others
      <4>2. u \notin Overtaken(t)
        BY <2>1, <3>3, <4>1 DEF AtOwnDrive
      <4>3. QED BY <2>1, <3>1, <4>1, <4>2 DEF Overtaken
    <3>4. QED BY <3>2, <3>3
  <2>2. pc[u] = "check" => PortOf(u) \in Port
    BY <1>2 DEF Engaged, Working
  <2>3. pc[u] \in {"issue", "wait", "up"} => PortOf(u) \in Port
    BY <1>2 DEF Engaged, Working, Critical
  <2>4. QED BY <1>1, <1>2, <2>1, <2>2, <2>3 DEF MovedSound, AtOwnDrive
<1>5. ReportSound(u)'
  BY <1>1, <1>2 DEF ReportSound, AtOwnDrive, Engaged, Working, Critical
<1>6. QED BY <1>3, <1>4, <1>5

\* The channel stays the task's.
LEMMA PlaceAtDrive ==
  ASSUME DiskInv, NEW t \in Task, UNCHANGED <<kind, dma, job, sem, have, over>>,
         pc[t] \in Critical, pc'[t] \in Critical \cup {"identified"},
         pc'[t] \in {"setup", "ready"} => OfKind(t, "ide"),
         pc'[t] \in {"drq", "again", "read", "wait2"} => OfKind(t, "ide") /\ ~dma[PortOf(t)],
         pc'[t] = "identified" => OfKind(t, "ahci") /\ job[t].for = "identify",
         job[t].for = "identify" => pc'[t] \in {"identified", "issue", "wait"},
         early' = early \/ early' = t
  PROVE  OwnPlace(t)
<1>1. JobSound(t) /\ EarlySound /\ PortOf(t) \in Port
  BY EngagedPort DEF DiskInv, Engaged, Working
<1>2. JobSound(t)'
  BY <1>1 DEF JobSound, Engaged, Working, Critical, OfKind, PortOf, FileJobs, BootJobs
<1>3. Booting(t)' => Booting(t)
  BY <1>1 DEF Booting, JobSound, Working, Critical, OfKind, PortOf, FileJobs, BootJobs
<1>4. (pc[t] \in Critical /\ job[t].for # "identify" => sem[ChannelOf(PortOf(t))].holder = t)'
  BY ChannelHeld DEF PortOf, ChannelOf
<1>5. QED BY <1>1, <1>2, <1>3, <1>4 DEF OwnPlace, Critical

\* The drive was idle: it works for t now.
LEMMA IssueKeeps ==
  ASSUME DiskInv, NEW t \in Task, Issue(t), ~over
  PROVE  DiskInv'
<1> DEFINE p == PortOf(t)
<1>1. /\ DiskTypes /\ DiskRecords /\ JobSound(t) /\ IrqDataSound /\ MovedSound(t)
      /\ \A q \in Port : BusySound(q)
  BY DEF DiskInv
<1>2. /\ UNCHANGED <<kind, dma, untried, parts, root, irqData, raised, moved, answer, buffer, ret,
                     doubtful, early, over, have, job, sem>>
      /\ pc' = [pc EXCEPT ![t] = "wait"] /\ pc[t] = "issue"
      /\ drive' = [drive EXCEPT ![p] =
                     [phase |-> "busy", by |-> t, sector |-> Wanted(t), ok |-> FALSE]]
  BY DEF Issue, Goto, setupVars, cacheVars, endVars
<1>3. /\ p \in Port
      /\ \A u \in Task : pc[u] \in Critical /\ u # t => PortOf(u) # p
      /\ \A q \in Port : drive[q].phase = "busy" => drive[q].by \in Task
  BY <1>2, OneAtDrive DEF Engaged, Working, Critical
<1>4. /\ pc' \in [Task -> Places] /\ pc'[t] = "wait" /\ \A u \in Task : u # t => pc'[u] = pc[u]
      /\ drive'[p].phase = "busy" /\ drive'[p].by = t /\ drive'[p].sector = Wanted(t)
      /\ drive'[p].ok = FALSE /\ \A q \in Port : q # p => drive'[q] = drive[q]
  BY <1>1, <1>2, <1>3 DEF DiskTypes, Places, DiskRecords, DriveRecords
<1>5. /\ \A u \in Task : PortOf(u)' = PortOf(u) /\ Wanted(u)' = Wanted(u) /\ ByDma(u)' = ByDma(u)
      /\ \A u \in Task, k \in {"ide", "ahci"} : OfKind(u, k)' = OfKind(u, k)
  BY <1>2 DEF PortOf, Wanted, ByDma, OfKind
<1>6. DiskTypes'
  BY <1>1, <1>2, <1>4 DEF DiskTypes
<1>7. DiskRecords'
  BY <1>1, <1>2, <1>3 DEF DiskRecords, SemRecords, JobRecords, DriveRecords, HasFields, Channel
<1>8. Others(t) /\ AtOwnDrive(t) /\ DmaKept(t) /\ SemKept(t)
  BY <1>2, <1>4 DEF Others, AtOwnDrive, DmaKept, SemKept, Critical
<1>9. OwnPlace(t)
  BY <1>1, <1>2, <1>4, PlaceAtDrive DEF JobSound, Working, Critical
<1>10. /\ (\A u \in Task : JobSound(u))' /\ BootsAlone' /\ ChannelsHeld' /\ EarlySound'
  BY <1>2, <1>8, <1>9, ShapeKept
<1>11. IrqDataSound'
  BY <1>1, <1>2, <1>4 DEF IrqDataSound, Armed, Channel, ChannelOf, PortOf
<1>12. ASSUME early' = NoTask
       PROVE  (\A q \in Port : Prompt(q)') /\ (\A u \in Task : AnswerSound(u)')
  <2>1. (\A q \in Port : Prompt(q)) /\ (\A u \in Task : AnswerSound(u))
    BY <1>2, <1>12 DEF DiskInv, InterruptsPrompt
  <2>2. ASSUME NEW q \in Port PROVE Prompt(q)'
    BY <2>1, <1>2, <1>3, <1>4, <1>5 DEF Prompt, WaitsFor, AnswerSound, Critical
  <2>3. ASSUME NEW u \in Task PROVE AnswerSound(u)'
    BY <2>1, <1>2, <1>4, <1>5 DEF AnswerSound
  <2>4. QED BY <2>2, <2>3
<1>13. ASSUME NEW q \in Port PROVE BusySound(q)'
  BY <1>1, <1>2, <1>3, <1>4, <1>5 DEF BusySound, Engaged, Working, Critical
<1>14. OffersWanted(t)' /\ MovedSound(t)' /\ ReportSound(t)'
  BY <1>1, <1>2, <1>4, <1>5 DEF OffersWanted, MovedSound, ReportSound
<1>15. QED BY <1>6, <1>7, <1>8, <1>10, <1>11, <1>12, <1>13, <1>14, OthersAtDrives DEF DiskInv, InterruptsPrompt

\* What t takes from the drive is what t wants.
LEMMA ReadDataKeeps ==
  ASSUME DiskInv, NEW t \in Task, ReadData(t), ~over
  PROVE  DiskInv'
<1> DEFINE p == PortOf(t)
<1>1. /\ DiskTypes /\ DiskRecords /\ JobSound(t) /\ IrqDataSound /\ OffersWanted(t)
      /\ \A q \in Port : BusySound(q)
  BY DEF DiskInv
<1>2. /\ UNCHANGED <<kind, dma, untried, parts, root, irqData, raised, moved, answer,
                     doubtful, early, over, have, job, sem>>
      /\ pc' = [pc EXCEPT ![t] = "wait2"] /\ pc[t] = "read"
      /\ drive' = [drive EXCEPT ![p].phase = "ending"]
  BY DEF ReadData, Goto, setupVars, cacheVars, endVars
<1>3. /\ p \in Port /\ OfKind(t, "ide") /\ ~dma[p]
      /\ \A u \in Task : pc[u] \in Critical /\ u # t => PortOf(u) # p
      /\ \A q \in Port : drive[q].phase = "busy" => drive[q].by \in Task
  BY <1>1, <1>2, OneAtDrive DEF JobSound, Engaged, Working, Critical
<1>4. /\ pc' \in [Task -> Places] /\ pc'[t] = "wait2" /\ \A u \in Task : u # t => pc'[u] = pc[u]
      /\ drive'[p].phase = "ending" /\ \A q \in Port : q # p => drive'[q] = drive[q]
  BY <1>1, <1>2, <1>3 DEF DiskTypes, Places, DiskRecords, DriveRecords, HasFields
<1>5. /\ \A u \in Task : PortOf(u)' = PortOf(u) /\ Wanted(u)' = Wanted(u) /\ ByDma(u)' = ByDma(u)
      /\ \A u \in Task, k \in {"ide", "ahci"} : OfKind(u, k)' = OfKind(u, k)
  BY <1>2 DEF PortOf, Wanted, ByDma, OfKind
<1>6. /\ ret' \in [Task -> BOOLEAN] /\ buffer' = [u \in Task |-> buffer'[u]]
      /\ \A u \in Task : u # t => ret'[u] = ret[u] /\ buffer'[u] = buffer[u]
      /\ ret'[t] => buffer'[t] = Wanted(t)
  <2>1. PICK all \in BOOLEAN :
          /\ ret' = [ret EXCEPT ![t] = all]
          /\ buffer' = [buffer EXCEPT ![t] = IF all THEN drive[p].sector ELSE @]
    BY DEF ReadData
  <2>2. QED BY <1>1, <1>2, <2>1 DEF DiskTypes, DiskRecords, OffersWanted
<1>7. DiskTypes'
  BY <1>1, <1>2, <1>4, <1>6 DEF DiskTypes
<1>8. DiskRecords'
  <2>1. /\ DriveRecords'
        /\ \A q \in Port : /\ drive'[q].phase \in {"idle", "busy", "drq", "failed", "ending"}
                           /\ drive'[q].by = drive[q].by /\ drive'[q].ok = drive[q].ok
    BY <1>1, <1>2, <1>3 DEF DiskRecords, DriveRecords, HasFields
  <2>2. QED BY <1>1, <1>2, <1>6, <2>1 DEF DiskRecords, SemRecords, JobRecords, Channel
<1>9. Others(t) /\ AtOwnDrive(t) /\ DmaKept(t) /\ SemKept(t)
  BY <1>2, <1>4, <1>6 DEF Others, AtOwnDrive, DmaKept, SemKept, Critical
<1>10. OwnPlace(t)
  BY <1>1, <1>2, <1>3, <1>4, PlaceAtDrive DEF JobSound, Working, Critical
<1>11. /\ (\A u \in Task : JobSound(u))' /\ BootsAlone' /\ ChannelsHeld' /\ EarlySound'
  BY <1>2, <1>9, <1>10, ShapeKept
<1>12. IrqDataSound'
  BY <1>1, <1>2, <1>4 DEF IrqDataSound, Armed, Channel, ChannelOf, PortOf
<1>13. ASSUME early' = NoTask
       PROVE  (\A q \in Port : Prompt(q)') /\ (\A u \in Task : AnswerSound(u)')
  <2>1. (\A q \in Port : Prompt(q)) /\ (\A u \in Task : AnswerSound(u))
    BY <1>2, <1>13 DEF DiskInv, InterruptsPrompt
  <2>2. ~raised[p] /\ answer[t] = "none"
    BY <2>1, <1>2, <1>3 DEF Prompt, WaitsFor, AnswerSound, Critical
  <2>3. ASSUME NEW q \in Port PROVE Prompt(q)'
    <3>1. CASE q = p
      BY <3>1, <2>2, <1>2, <1>4, <1>5 DEF Prompt, WaitsFor
    <3>2. CASE q # p
      <4>1. \A u \in Task : WaitsFor(u, q)' <=> WaitsFor(u, q)
        BY <1>2, <1>5 DEF WaitsFor
      <4>2. Prompt(q) /\ drive'[q] = drive[q] /\ raised' = raised
        BY <2>1, <1>2, <1>4, <3>2
      <4>3. \A u \in Task : WaitsFor(u, q) => u # t
        BY <3>2 DEF WaitsFor
      <4>4. QED BY <4>1, <4>2, <4>3, <1>3, <1>4, <1>5, <1>6 DEF Prompt
    <3>3. QED BY <3>1, <3>2
  <2>4. ASSUME NEW u \in Task PROVE AnswerSound(u)'
    BY <2>1, <1>2, <1>4, <1>5, <1>6 DEF AnswerSound
  <2>5. QED BY <2>3, <2>4
<1>14. ASSUME NEW q \in Port PROVE BusySound(q)'
  BY <1>1, <1>2, <1>3, <1>4, <1>5 DEF BusySound, Engaged, Working, Critical
<1>15. OffersWanted(t)' /\ MovedSound(t)' /\ ReportSound(t)'
  BY <1>2, <1>3, <1>4, <1>5, <1>6 DEF OffersWanted, MovedSound, ReportSound
<1>16. QED BY <1>7, <1>8, <1>9, <1>11, <1>12, <1>13, <1>14, <1>15, OthersAtDrives
  DEF DiskInv, InterruptsPrompt

\* A task leaves itself to the interrupt of its channel.
LEMMA ArmedIrq ==
  ASSUME DiskInv, NEW t \in Task, pc[t] \in Critical \ Armed, pc' = [pc EXCEPT ![t] = pc'[t]],
         pc'[t] \in Armed, UNCHANGED <<kind, job>>,
         irqData' = [irqData EXCEPT ![ChannelOf(PortOf(t))] = t]
  PROVE  IrqDataSound'
<1> DEFINE l == ChannelOf(PortOf(t))
<1>1. l \in Channel
  BY EngagedPort DEF Engaged, Working, ChannelOf, Channel
<1>2. \A u \in Task : pc[u] \in Armed => ChannelOf(PortOf(u)) # l
  BY OneInChannel DEF Armed, Critical
<1>3. DiskTypes /\ IrqDataSound
  BY DEF DiskInv
<1>4. /\ irqData'[l] = t /\ \A c \in Channel : c # l => irqData'[c] = irqData[c]
      /\ \A u \in Task : u # t => pc'[u] = pc[u]
      /\ \A u \in Task : ChannelOf(PortOf(u))' = ChannelOf(PortOf(u))
  BY <1>1, <1>3 DEF DiskTypes, ChannelOf, PortOf
<1>5. \A u \in Task : pc[u] \in Armed => ChannelOf(PortOf(u)) \in Channel
  BY EngagedPort DEF Engaged, Working, Critical, Armed, ChannelOf, Channel
<1> HIDE DEF l
<1>6. ASSUME NEW u \in Task, pc'[u] \in Armed PROVE irqData'[ChannelOf(PortOf(u))] = u
  <2>1. CASE u = t
    BY <2>1, <1>4 DEF l
  <2>2. CASE u # t
    BY <2>2, <1>2, <1>3, <1>4, <1>5, <1>6 DEF IrqDataSound
  <2>3. QED BY <2>1, <2>2
<1>7. ASSUME NEW c \in Channel, irqData'[c] \in Task
      PROVE  pc'[irqData'[c]] \in Armed /\ ChannelOf(PortOf(irqData'[c])) = c
  <2>1. CASE c = l
    BY <2>1, <1>4 DEF l
  <2>2. CASE c # l
    <3>1. irqData'[c] = irqData[c] /\ irqData[c] \in Task
      BY <1>4, <1>7, <2>2
    <3>2. pc[irqData[c]] \in Armed /\ ChannelOf(PortOf(irqData[c])) = c
      BY <1>3, <3>1 DEF IrqDataSound
    <3>3. irqData[c] # t
      BY <3>2
    <3>4. /\ pc'[irqData[c]] = pc[irqData[c]]
          /\ ChannelOf(PortOf(irqData[c]))' = ChannelOf(PortOf(irqData[c]))
      BY <1>4, <3>1, <3>3
    <3>5. QED BY <3>1, <3>2, <3>4
  <2>3. QED BY <2>1, <2>2
<1>8. \A u \in Task : pc'[u] \in Armed => irqData'[ChannelOf(PortOf(u))'] = u
  BY <1>4, <1>6
<1>9. ASSUME NEW c \in Channel, NEW u \in Task, irqData'[c] = u
      PROVE  pc'[u] \in Armed /\ ChannelOf(PortOf(u))' = c
  BY <1>4, <1>7, <1>9
<1>10. QED BY <1>8, <1>9 DEF IrqDataSound, Channel

\* It takes itself back.
LEMMA UnarmedIrq ==
  ASSUME DiskInv, NEW t \in Task, pc[t] \in Armed, pc' = [pc EXCEPT ![t] = pc'[t]],
         pc'[t] \notin Armed, UNCHANGED <<kind, job>>, NEW x \in {NoTask, Stale},
         irqData' = [irqData EXCEPT ![ChannelOf(PortOf(t))] = x]
  PROVE  IrqDataSound'
<1> DEFINE l == ChannelOf(PortOf(t))
<1>1. l \in Channel
  BY EngagedPort DEF Engaged, Working, Critical, Armed, ChannelOf, Channel
<1>2. \A u \in Task : pc[u] \in Armed /\ u # t => ChannelOf(PortOf(u)) # l
  BY OneInChannel DEF Armed, Critical
<1>3. DiskTypes /\ IrqDataSound
  BY DEF DiskInv
<1>4. /\ irqData'[l] = x /\ \A c \in Channel : c # l => irqData'[c] = irqData[c]
      /\ \A u \in Task : u # t => pc'[u] = pc[u]
      /\ \A u \in Task : ChannelOf(PortOf(u))' = ChannelOf(PortOf(u))
  BY <1>1, <1>3 DEF DiskTypes, ChannelOf, PortOf
<1>5. \A u \in Task : pc[u] \in Armed => ChannelOf(PortOf(u)) \in Channel
  BY EngagedPort DEF Engaged, Working, Critical, Armed, ChannelOf, Channel
<1>6. x \notin Task
  BY DiskAssumption
<1> HIDE DEF l
<1>7. ASSUME NEW u \in Task, pc'[u] \in Armed PROVE irqData'[ChannelOf(PortOf(u))] = u
  BY <1>2, <1>3, <1>4, <1>5, <1>7 DEF IrqDataSound
<1>8. ASSUME NEW c \in Channel, irqData'[c] \in Task
      PROVE  pc'[irqData'[c]] \in Armed /\ ChannelOf(PortOf(irqData'[c])) = c
  <2>1. c # l /\ irqData'[c] = irqData[c] /\ irqData[c] \in Task
    BY <1>4, <1>6, <1>8
  <2>2. pc[irqData[c]] \in Armed /\ ChannelOf(PortOf(irqData[c])) = c
    BY <1>3, <2>1 DEF IrqDataSound
  <2>3. irqData[c] # t
    BY <2>1, <2>2 DEF l
  <2>4. QED BY <1>4, <2>1, <2>2, <2>3
<1>9. QED BY <1>4, <1>7, <1>8 DEF IrqDataSound, Channel

\* A drive without a task that waits for it is quiet.
LEMMA DriveQuiet ==
  ASSUME DiskInv, NEW t \in Task, pc[t] \in Critical \ {"wait", "wait2"}, early = NoTask
  PROVE  LET p == PortOf(t) IN drive[p].phase \notin {"busy", "ending"} /\ ~raised[p]
<1>1. Prompt(PortOf(t))
  BY EngagedPort DEF DiskInv, InterruptsPrompt, Engaged, Working
<1>2. \A u \in Task : pc[u] \in Critical /\ PortOf(u) = PortOf(t) => u = t
  BY OneAtDrive
<1>3. drive[PortOf(t)].phase = "busy" => drive[PortOf(t)].by \in Task
  BY EngagedPort, OneAtDrive DEF Engaged, Working
<1>4. QED BY <1>1, <1>2, <1>3 DEF Prompt, WaitsFor, Critical

\* A step of a task that has its channel and will have it, which leaves the
\* drives alone, and comes to a wait.
ArmsItself(t) ==
  /\ UNCHANGED <<kind, dma, irq, raised, drive, ret, early, buffer, over, job, have, sem>>
  /\ UNCHANGED <<untried, parts, root>>
  /\ pc' = [pc EXCEPT ![t] = pc'[t]] /\ answer' = [answer EXCEPT ![t] = "none"]
  /\ irqData' = [irqData EXCEPT ![ChannelOf(PortOf(t))] = t]
  /\ \/ pc[t] = "arm" /\ pc'[t] = "issue"
     \/ pc[t] = "again" /\ pc'[t] = "read"

LEMMA ArmsItselfKeeps ==
  ASSUME DiskInv, NEW t \in Task, ArmsItself(t), DiskTypes', Others(t), AtOwnDrive(t),
         OffersWanted(t)', MovedSound(t)', ReportSound(t)'
  PROVE  DiskInv'
<1> DEFINE p == PortOf(t)
<1>1. /\ DiskTypes /\ DiskRecords /\ JobSound(t)
      /\ \A q \in Port : BusySound(q)
  BY DEF DiskInv
<1>2. /\ UNCHANGED <<kind, dma, untried, parts, root, raised, drive, buffer, ret, early, over, have, job, sem>>
      /\ pc[t] \in Critical \ Armed /\ pc'[t] \in Armed /\ pc'[t] \in {"issue", "read"}
      /\ \A u \in Task : u # t => pc'[u] = pc[u] /\ answer'[u] = answer[u]
      /\ answer'[t] = "none"
  BY <1>1 DEF ArmsItself, Critical, Armed, DiskTypes
<1>3. /\ \A u \in Task : PortOf(u)' = PortOf(u) /\ Wanted(u)' = Wanted(u) /\ ByDma(u)' = ByDma(u)
      /\ \A u \in Task, k \in {"ide", "ahci"} : OfKind(u, k)' = OfKind(u, k)
  BY <1>2 DEF PortOf, Wanted, ByDma, OfKind
<1>4. p \in Port /\ \A u \in Task : pc[u] \in Critical /\ u # t => PortOf(u) # p
  BY <1>2, OneAtDrive DEF Engaged, Working
<1>5. DiskRecords'
  BY <1>1, <1>2 DEF DiskRecords, SemRecords, JobRecords, DriveRecords, HasFields, Channel
<1>6. DmaKept(t) /\ SemKept(t)
  BY <1>2 DEF DmaKept, SemKept
<1>7. OwnPlace(t)
  BY <1>1, <1>2, PlaceAtDrive DEF ArmsItself, JobSound, Working, Critical
<1>8. /\ (\A u \in Task : JobSound(u))' /\ BootsAlone' /\ ChannelsHeld' /\ EarlySound'
  BY <1>2, <1>6, <1>7, ShapeKept
<1>9. IrqDataSound'
  BY <1>2, ArmedIrq DEF ArmsItself
<1>10. ASSUME early' = NoTask
       PROVE  (\A q \in Port : Prompt(q)') /\ (\A u \in Task : AnswerSound(u)')
  <2>1. (\A q \in Port : Prompt(q)) /\ (\A u \in Task : AnswerSound(u))
    BY <1>2, <1>10 DEF DiskInv, InterruptsPrompt
  <2>2. drive[p].phase \notin {"busy", "ending"} /\ ~raised[p]
    BY <1>2, <1>10, DriveQuiet DEF Armed
  <2>3. ASSUME NEW q \in Port PROVE Prompt(q)'
    <3>1. CASE q = p
      BY <3>1, <2>2, <1>2 DEF Prompt
    <3>2. CASE q # p
      <4>1. \A u \in Task : WaitsFor(u, q)' <=> WaitsFor(u, q)
        BY <1>2, <1>3, <3>2 DEF WaitsFor
      <4>2. \A u \in Task : WaitsFor(u, q) => u # t
        BY <3>2 DEF WaitsFor
      <4>3. drive[q].phase = "busy" => drive[q].by \in Task
        BY OneAtDrive
      <4>4. QED BY <2>1, <4>1, <4>2, <4>3, <1>2, <1>3 DEF Prompt
    <3>3. QED BY <3>1, <3>2
  <2>4. ASSUME NEW u \in Task PROVE AnswerSound(u)'
    BY <2>1, <1>2, <1>3 DEF AnswerSound
  <2>5. QED BY <2>3, <2>4
<1>11. ASSUME NEW q \in Port PROVE BusySound(q)'
  BY <1>1, <1>2, <1>3 DEF BusySound, Engaged, Working, Critical, Armed
<1>12. QED BY <1>5, <1>8, <1>9, <1>10, <1>11, OthersAtDrives DEF DiskInv, InterruptsPrompt

LEMMA ArmKeeps ==
  ASSUME DiskInv, NEW t \in Task, Arm(t), ~over
  PROVE  DiskInv'
<1>1. /\ DiskTypes /\ OffersWanted(t) /\ MovedSound(t) /\ ReportSound(t)
  BY DEF DiskInv
<1>2. ArmsItself(t)
  <2>1. /\ UNCHANGED <<kind, dma, irq, raised, drive, ret, early, buffer, over, job, have, sem>>
        /\ UNCHANGED <<untried, parts, root>> /\ pc[t] = "arm" /\ pc' = [pc EXCEPT ![t] = "issue"]
        /\ answer' = [answer EXCEPT ![t] = "none"]
        /\ irqData' = [irqData EXCEPT ![ChannelOf(PortOf(t))] = t]
    BY DEF Arm, Goto, setupVars, cacheVars, lineVars
  <2>2. pc' = [pc EXCEPT ![t] = pc'[t]] /\ pc'[t] = "issue"
    BY <1>1, <2>1 DEF DiskTypes
  <2>3. QED BY <2>1, <2>2 DEF ArmsItself
<1>3. PortOf(t) \in Port
  BY EngagedPort DEF Engaged, Working, Critical, Arm
<1>4. ChannelOf(PortOf(t)) \in Channel
  BY <1>3 DEF ChannelOf, Channel
<1>5. /\ moved' \in [Port -> BOOLEAN] /\ moved'[PortOf(t)] = FALSE
      /\ \A q \in Port : moved'[q] => moved[q]
      /\ doubtful' \in [Task -> BOOLEAN]
      /\ \A u \in Task : u # t => (doubtful[u] => doubtful'[u]) /\ (u \in Overtaken(t) => doubtful'[u])
      /\ pc' \in [Task -> Places] /\ pc'[t] = "issue" /\ \A u \in Task : u # t => pc'[u] = pc[u]
  <2>1. /\ moved' = [moved EXCEPT ![PortOf(t)] = FALSE]
        /\ doubtful' = [u \in Task |-> u # t /\ (doubtful[u] \/ u \in Overtaken(t))]
        /\ pc' = [pc EXCEPT ![t] = "issue"]
    BY DEF Arm, Goto
  <2>2. doubtful \in [Task -> BOOLEAN] /\ moved \in [Port -> BOOLEAN] /\ pc \in [Task -> Places]
    BY <1>1 DEF DiskTypes
  <2>3. \A u \in Task : doubtful'[u] = (u # t /\ (doubtful[u] \/ u \in Overtaken(t)))
    BY <2>1
  <2>4. doubtful' \in [Task -> BOOLEAN]
    BY <2>1
  <2>5. QED BY <2>1, <2>2, <2>3, <2>4, <1>3 DEF Places
<1>6. DiskTypes'
  BY <1>1, <1>2, <1>4, <1>5 DEF DiskTypes, ArmsItself
<1>7. Others(t)
  BY <1>2, <1>5 DEF Others, ArmsItself
<1>8. AtOwnDrive(t)
  BY <1>2, <1>5 DEF AtOwnDrive, ArmsItself, Critical, Overtaken
<1>9. OffersWanted(t)' /\ MovedSound(t)' /\ ReportSound(t)'
  BY <1>2, <1>5 DEF OffersWanted, MovedSound, ReportSound, ArmsItself, PortOf
<1>10. QED BY <1>2, <1>6, <1>7, <1>8, <1>9, ArmsItselfKeeps

LEMMA ArmAgainKeeps ==
  ASSUME DiskInv, NEW t \in Task, ArmAgain(t), ~over
  PROVE  DiskInv'
<1>1. /\ DiskTypes /\ OffersWanted(t) /\ MovedSound(t) /\ ReportSound(t) /\ JobSound(t)
  BY DEF DiskInv
<1>2. ArmsItself(t) /\ pc[t] = "again" /\ UNCHANGED <<moved, doubtful>>
  BY <1>1 DEF ArmAgain, ArmsItself, Goto, DiskTypes, setupVars, cacheVars, lineVars, endVars
<1>3. PortOf(t) \in Port
  BY EngagedPort DEF Engaged, Working, Critical, ArmAgain
<1>4. ChannelOf(PortOf(t)) \in Channel
  BY <1>3 DEF ChannelOf, Channel
<1>5. pc' \in [Task -> Places] /\ pc'[t] = "read" /\ \A u \in Task : u # t => pc'[u] = pc[u]
  BY <1>1 DEF ArmAgain, Goto, DiskTypes, Places
<1>6. DiskTypes'
  BY <1>1, <1>2, <1>4, <1>5 DEF DiskTypes, ArmsItself
<1>7. Others(t)
  BY <1>2, <1>5 DEF Others, ArmsItself
<1>8. AtOwnDrive(t)
  BY <1>2, <1>5 DEF AtOwnDrive, ArmsItself, Critical
<1>9. OffersWanted(t)' /\ MovedSound(t)' /\ ReportSound(t)'
  BY <1>1, <1>2, <1>5 DEF OffersWanted, MovedSound, ReportSound, ArmsItself, PortOf, Wanted
<1>10. QED BY <1>2, <1>6, <1>7, <1>8, <1>9, ArmsItselfKeeps

\* A wait of t has ended.
EndsItsWait(t) ==
  /\ UNCHANGED <<kind, dma, untried, parts, root, raised, moved, buffer, over, job, have, sem>>
  /\ pc' = [pc EXCEPT ![t] = pc'[t]] /\ answer' = [answer EXCEPT ![t] = "none"]
  /\ pc[t] \in {"wait", "wait2"} /\ pc'[t] \in {"identified", "drq", "up"}
  /\ early' = IF early = NoTask /\ answer[t] = "none" THEN t ELSE early
  /\ \E x \in {NoTask, Stale} : irqData' = [irqData EXCEPT ![ChannelOf(PortOf(t))] = x]
  /\ \/ drive'[PortOf(t)] = drive[PortOf(t)] /\ OfKind(t, "ide")
     \/ drive'[PortOf(t)].phase = "idle"

\* It ended at the interrupt, or early.
LEMMA EndOfWait ==
  ASSUME DiskInv, NEW t \in Task, EndsItsWait(t), early' = NoTask
  PROVE  LET p == PortOf(t) IN
         /\ early = NoTask /\ answer[t] # "none"
         /\ drive[p].phase \notin {"busy", "ending"} /\ ~raised[p]
<1>1. early = NoTask /\ answer[t] # "none"
  BY DiskAssumption DEF EndsItsWait
<1>2. Prompt(PortOf(t))
  BY <1>1, EngagedPort DEF EndsItsWait, DiskInv, InterruptsPrompt, Engaged, Working, Critical
<1>3. \A u \in Task : pc[u] \in Critical /\ PortOf(u) = PortOf(t) => u = t
  BY OneAtDrive DEF EndsItsWait, Critical
<1>4. drive[PortOf(t)].phase = "busy" => drive[PortOf(t)].by \in Task
  BY EngagedPort, OneAtDrive DEF EndsItsWait, Engaged, Working, Critical
<1>5. QED BY <1>1, <1>2, <1>3, <1>4 DEF Prompt, WaitsFor, Critical

LEMMA EndsItsWaitKeeps ==
  ASSUME DiskInv, NEW t \in Task, EndsItsWait(t), DiskTypes', DiskRecords', Others(t),
         AtOwnDrive(t), OwnPlace(t), OffersWanted(t)', MovedSound(t)', ReportSound(t)'
  PROVE  DiskInv'
<1> DEFINE p == PortOf(t)
<1>1. /\ DiskTypes /\ DiskRecords /\ \A q \in Port : BusySound(q)
  BY DEF DiskInv
<1>2. /\ UNCHANGED <<kind, dma, raised, moved, buffer, over, job, have, sem>>
      /\ pc[t] \in Armed /\ pc[t] \in Critical /\ pc'[t] \notin Armed
      /\ pc'[t] \in Engaged /\ pc'[t] \notin {"issue", "wait", "read", "wait2"}
      /\ \A u \in Task : u # t => pc'[u] = pc[u] /\ answer'[u] = answer[u]
      /\ early' = IF early = NoTask /\ answer[t] = "none" THEN t ELSE early
      /\ early # NoTask => early' # NoTask
  BY <1>1 DEF EndsItsWait, Critical, Armed, Engaged, Working, DiskTypes
<1>3. /\ \A u \in Task : PortOf(u)' = PortOf(u) /\ Wanted(u)' = Wanted(u) /\ ByDma(u)' = ByDma(u)
      /\ \A u \in Task, k \in {"ide", "ahci"} : OfKind(u, k)' = OfKind(u, k)
  BY <1>2 DEF PortOf, Wanted, ByDma, OfKind
<1>4. /\ p \in Port /\ \A u \in Task : pc[u] \in Critical /\ u # t => PortOf(u) # p
      /\ \A q \in Port : drive[q].phase = "busy" => drive[q].by \in Task
      /\ \A q \in Port : q # p => drive'[q] = drive[q]
      /\ (drive'[p] = drive[p] /\ kind[p] = "ide") \/ drive'[p].phase = "idle"
  BY <1>2, OneAtDrive DEF OfKind,  Engaged, Working, AtOwnDrive, EndsItsWait
<1>5. DmaKept(t) /\ SemKept(t)
  BY <1>2 DEF DmaKept, SemKept
<1>6. /\ (\A u \in Task : JobSound(u))' /\ BootsAlone' /\ ChannelsHeld' /\ EarlySound'
  BY <1>2, <1>5, ShapeKept
<1>7. IrqDataSound'
  BY <1>2, UnarmedIrq DEF EndsItsWait
<1>8. ASSUME early' = NoTask
       PROVE  (\A q \in Port : Prompt(q)') /\ (\A u \in Task : AnswerSound(u)')
  <2>1. early = NoTask /\ drive[p].phase \notin {"busy", "ending"} /\ ~raised[p]
    BY <1>8, EndOfWait
  <2>2. (\A q \in Port : Prompt(q)) /\ (\A u \in Task : AnswerSound(u))
    BY <2>1 DEF DiskInv, InterruptsPrompt
  <2>3. ASSUME NEW q \in Port PROVE Prompt(q)'
    <3>1. CASE q = p
      BY <3>1, <2>1, <1>2, <1>4 DEF Prompt
    <3>2. CASE q # p
      <4>1. \A u \in Task : WaitsFor(u, q) => u # t
        BY <3>2 DEF WaitsFor
      <4>2. \A u \in Task : u # t => (WaitsFor(u, q)' <=> WaitsFor(u, q))
        BY <1>2, <1>3 DEF WaitsFor
      <4>3. Prompt(q) /\ drive'[q] = drive[q] /\ raised' = raised /\ buffer' = buffer
        BY <1>2, <1>4, <2>2, <3>2
      <4>4. QED BY <4>1, <4>2, <4>3, <1>2, <1>3, <1>4 DEF Prompt
    <3>3. QED BY <3>1, <3>2
  <2>4. ASSUME NEW u \in Task PROVE AnswerSound(u)'
    BY <2>2, <1>2, <1>3 DEF AnswerSound
  <2>5. QED BY <2>3, <2>4
<1>9. ASSUME NEW q \in Port PROVE BusySound(q)'
  <2>1. CASE q = p
    <3>1. ASSUME drive'[p].phase = "busy" PROVE early' # NoTask
      BY <3>1, <1>4, EndOfWait
    <3>2. QED BY <2>1, <3>1, <1>1, <1>2, <1>3, <1>4 DEF BusySound, Critical
  <2>2. CASE q # p
    BY <1>1, <1>2, <1>3, <1>4, <2>2 DEF BusySound, Engaged, Working, Critical, Armed
  <2>3. QED BY <2>1, <2>2
<1>10. QED BY <1>6, <1>7, <1>8, <1>9, OthersAtDrives DEF DiskInv, InterruptsPrompt

LEMMA ClearKeeps ==
  ASSUME DiskInv, NEW t \in Task, Clear(t), ~over
  PROVE  DiskInv'
<1> DEFINE p == PortOf(t)
           there == CASE job[t].for = "identify" -> "identified"
                      [] ~ByDma(t)               -> "drq"
                      [] OTHER                   -> "up"
<1>1. /\ DiskTypes /\ DiskRecords /\ OffersWanted(t) /\ MovedSound(t) /\ JobSound(t)
  BY DEF DiskInv
<1>2. /\ UNCHANGED <<kind, dma, untried, parts, root, raised, sem, moved, buffer, over, job, have>>
      /\ pc[t] = "wait" /\ pc' = [pc EXCEPT ![t] = there]
      /\ irqData' = [irqData EXCEPT ![ChannelOf(p)] = NoTask]
      /\ drive' = [drive EXCEPT ![p] = IF OfKind(t, "ahci") \/ @.phase = "idle" THEN Quiet ELSE @]
      /\ ret' = [ret EXCEPT ![t] = answer[t] # "bad"]
      /\ answer' = [answer EXCEPT ![t] = "none"]
      /\ early' = IF early = NoTask /\ answer[t] = "none" THEN t ELSE early
      /\ doubtful' = [doubtful EXCEPT ![t] = @ \/ (early' # NoTask /\ OfKind(t, "ide") /\ ByDma(t))]
  BY DEF Clear, Goto, setupVars, cacheVars
<1>3. p \in Port /\ ChannelOf(p) \in Channel /\ (OfKind(t, "ahci") \/ OfKind(t, "ide"))
  BY <1>1, <1>2, EngagedPort DEF Engaged, Working, Critical, ChannelOf, Channel, OfKind, DiskTypes
<1>4. /\ job[t].for = "identify" => there = "identified" /\ OfKind(t, "ahci")
      /\ job[t].for # "identify" /\ ~ByDma(t) => there = "drq"
      /\ job[t].for # "identify" /\ ByDma(t) => there = "up"
  <2>1. job[t].for = "identify" => OfKind(t, "ahci") /\ ByDma(t)
    BY <1>1, <1>2 DEF JobSound, Working, Critical, ByDma
  <2>2. CASE job[t].for = "identify"
    <3>1. ~ ~ByDma(t)
      BY <2>1, <2>2
    <3>2. there = "identified"
      BY <2>2, <3>1
    <3>3. QED BY <2>1, <2>2, <3>2
  <2>3. CASE job[t].for # "identify"
    BY <2>3
  <2>4. QED BY <2>2, <2>3
<1> HIDE DEF there
<1>5. /\ pc' \in [Task -> Places] /\ pc'[t] = there /\ there \in {"identified", "drq", "up"}
      /\ \A u \in Task : u # t => pc'[u] = pc[u]
  BY <1>1, <1>2, <1>4 DEF DiskTypes, Places
<1>6. /\ ret' \in [Task -> BOOLEAN] /\ doubtful' \in [Task -> BOOLEAN]
      /\ ret'[t] = (answer[t] # "bad")
      /\ doubtful[t] \/ (early' # NoTask /\ OfKind(t, "ide") /\ ByDma(t)) => doubtful'[t]
      /\ \A u \in Task : u # t => ret'[u] = ret[u] /\ doubtful'[u] = doubtful[u]
  BY <1>1, <1>2 DEF DiskTypes
<1>7. /\ \A q \in Port : q # p => drive'[q] = drive[q]
      /\ \/ drive'[p] = drive[p] /\ OfKind(t, "ide")
         \/ drive'[p] = Quiet
  BY <1>1, <1>2, <1>3 DEF DiskRecords, DriveRecords
<1>8. DiskTypes'
  BY <1>1, <1>2, <1>3, <1>5, <1>6 DEF DiskTypes
<1>9. DiskRecords'
  <2>1. DriveRecords' /\ \A q \in Port : drive'[q] = drive[q] \/ drive'[q] = Quiet
    BY <1>1, <1>2, <1>3, <1>7 DEF DiskRecords, DriveRecords, HasFields, Quiet
  <2>2. Quiet.phase = "idle" /\ Quiet.by = NoTask /\ Quiet.ok = FALSE
    BY DEF Quiet
  <2>3. QED BY <1>1, <1>2, <2>1, <2>2 DEF DiskRecords, SemRecords, JobRecords, Channel
<1>10. Others(t)
  BY <1>2, <1>5, <1>6 DEF Others
<1>11. Quiet.phase = "idle"
  BY DEF Quiet
<1>12. AtOwnDrive(t)
  BY <1>2, <1>5, <1>7, <1>11 DEF AtOwnDrive, Critical
<1>13. OwnPlace(t)
  <2>1. early' = early \/ early' = t
    BY <1>2
  <2>2. there = "drq" => OfKind(t, "ide") /\ ~dma[p]
    BY <1>3, <1>4 DEF ByDma
  <2>3. QED BY <1>2, <1>4, <1>5, <2>1, <2>2, PlaceAtDrive DEF Critical
<1>14. EndsItsWait(t)
  BY <1>2, <1>5, <1>7, <1>11 DEF EndsItsWait
<1>15. /\ Wanted(t)' = Wanted(t) /\ PortOf(t)' = p /\ ByDma(t)' = ByDma(t)
       /\ OfKind(t, "ide")' = OfKind(t, "ide") /\ OfKind(t, "ahci")' = OfKind(t, "ahci")
  BY <1>2 DEF Wanted, PortOf, ByDma, OfKind
<1>16. OffersWanted(t)'
  BY <1>1, <1>2, <1>4, <1>5, <1>7, <1>11, <1>15 DEF OffersWanted
<1>17. MovedSound(t)'
  BY <1>1, <1>2, <1>4, <1>5, <1>15 DEF MovedSound
<1>18. ReportSound(t)'
  <2>1. ASSUME ret'[t], ~doubtful'[t], there = "up", OfKind(t, "ide")
        PROVE  buffer[t] = Wanted(t) /\ drive[p].phase # "busy"
    <3>1. ByDma(t) /\ early' = NoTask /\ answer[t] # "bad"
      BY <1>4, <1>6, <2>1
    <3>2. early = NoTask /\ answer[t] # "none" /\ drive[p].phase # "busy"
      BY <1>14, <3>1, EndOfWait
    <3>3. answer[t] = "good"
      BY <1>1, <3>1, <3>2 DEF DiskTypes
    <3>4. QED BY <1>2, <2>1, <3>1, <3>2, <3>3 DEF DiskInv, InterruptsPrompt, AnswerSound
  <2>2. QED BY <2>1, <1>2, <1>4, <1>5, <1>7, <1>11, <1>15 DEF ReportSound
<1>19. QED BY <1>8, <1>9, <1>10, <1>12, <1>13, <1>14, <1>16, <1>17, <1>18, EndsItsWaitKeeps

LEMMA LeaveStaleKeeps ==
  ASSUME DiskInv, NEW t \in Task, LeaveStale(t), ~over
  PROVE  DiskInv'
<1> DEFINE p == PortOf(t)
<1>1. /\ DiskTypes /\ DiskRecords /\ OffersWanted(t) /\ MovedSound(t) /\ JobSound(t) /\ ReportSound(t)
  BY DEF DiskInv
<1>2. /\ UNCHANGED <<kind, dma, untried, parts, root, raised, sem, moved, buffer, over, job, have,
                     ret, doubtful, drive>>
      /\ pc[t] = "wait2" /\ pc' = [pc EXCEPT ![t] = "up"]
      /\ irqData' = [irqData EXCEPT ![ChannelOf(p)] = Stale]
      /\ answer' = [answer EXCEPT ![t] = "none"]
      /\ early' = IF early = NoTask /\ answer[t] = "none" THEN t ELSE early
  BY DEF LeaveStale, Goto, setupVars, cacheVars, lineVars
<1>3. p \in Port /\ ChannelOf(p) \in Channel
  BY <1>2, EngagedPort DEF Engaged, Working, Critical, ChannelOf, Channel
<1>4. /\ OfKind(t, "ide") /\ ~dma[p] /\ ~OfKind(t, "ahci") /\ job[t].for # "identify"
  BY <1>1, <1>2 DEF JobSound, OfKind, Working, Critical
<1>5. /\ pc' \in [Task -> Places] /\ pc'[t] = "up" /\ \A u \in Task : u # t => pc'[u] = pc[u]
  BY <1>1, <1>2 DEF DiskTypes, Places
<1>6. DiskTypes'
  BY <1>1, <1>2, <1>3, <1>5 DEF DiskTypes
<1>7. DiskRecords'
  BY <1>1, <1>2 DEF DiskRecords, SemRecords, DriveRecords, JobRecords, Channel
<1>8. Others(t)
  BY <1>2, <1>5 DEF Others
<1>9. AtOwnDrive(t)
  BY <1>2, <1>5 DEF AtOwnDrive, Critical
<1>10. OwnPlace(t)
  <2>1. early' = early \/ early' = t
    BY <1>2
  <2>2. QED BY <1>2, <1>4, <1>5, <2>1, PlaceAtDrive DEF Critical
<1>11. EndsItsWait(t)
  BY <1>2, <1>4, <1>5 DEF EndsItsWait
<1>12. /\ Wanted(t)' = Wanted(t) /\ PortOf(t)' = p /\ ByDma(t)' = ByDma(t)
       /\ OfKind(t, "ide")' = OfKind(t, "ide") /\ OfKind(t, "ahci")' = OfKind(t, "ahci")
  BY <1>2 DEF Wanted, PortOf, ByDma, OfKind
<1>13. OffersWanted(t)' /\ MovedSound(t)'
  BY <1>4, <1>5, <1>12 DEF OffersWanted, MovedSound
<1>14. ReportSound(t)'
  BY <1>1, <1>2, <1>4, <1>5, <1>12 DEF ReportSound, ByDma
<1>15. QED BY <1>6, <1>7, <1>8, <1>9, <1>10, <1>11, <1>13, <1>14, EndsItsWaitKeeps

-----------------------------------------------------------------------------
(* Steps of the drives, of the interrupts and of the scheduler.            *)

\* All that the invariant speaks of.
placeVars == <<kind, dma, untried, parts, root, have, job, sem, irqData, early, ret, doubtful, pc>>
seenVars == <<placeVars, raised, drive, moved, answer, buffer, over>>

LEMMA SeenKeeps ==
  ASSUME DiskInv, UNCHANGED seenVars
  PROVE  DiskInv'
<1>1. /\ DiskTypes /\ DiskRecords
      /\ (\A u \in Task : JobSound(u)) /\ BootsAlone /\ ChannelsHeld /\ EarlySound /\ IrqDataSound
      /\ \A u \in Task : OffersWanted(u) /\ MovedSound(u) /\ ReportSound(u)
      /\ (\A q \in Port : BusySound(q)) /\ InterruptsPrompt
  BY DEF DiskInv
<1>2. DiskTypes'
  BY <1>1 DEF seenVars, placeVars, DiskTypes, Channel
<1>3. DiskRecords'
  BY <1>1 DEF seenVars, placeVars, DiskRecords, SemRecords, DriveRecords, JobRecords, HasFields, Channel
<1>4. (\A u \in Task : JobSound(u))'
  BY <1>1 DEF seenVars, placeVars, JobSound, OfKind, PortOf
<1>5. BootsAlone' /\ EarlySound'
  BY <1>1 DEF seenVars, placeVars, BootsAlone, Booting, EarlySound
<1>6. ChannelsHeld' /\ IrqDataSound'
  BY <1>1 DEF seenVars, placeVars, ChannelsHeld, IrqDataSound, ChannelOf, PortOf, Channel
<1>7. (\A u \in Task : OffersWanted(u) /\ MovedSound(u) /\ ReportSound(u))'
  BY <1>1 DEF seenVars, placeVars, OffersWanted, MovedSound, ReportSound, PortOf, OfKind, ByDma, Wanted
<1>8. (\A q \in Port : BusySound(q))'
  BY <1>1 DEF seenVars, placeVars, BusySound, PortOf, Wanted
<1>9. InterruptsPrompt'
  BY <1>1 DEF seenVars, placeVars, InterruptsPrompt, Prompt, AnswerSound, WaitsFor, PortOf, OfKind, ByDma, Wanted
<1>10. QED BY <1>2, <1>3, <1>4, <1>5, <1>6, <1>7, <1>8, <1>9 DEF DiskInv

\* Where the tasks are does not change.
LEMMA PlacesKeep ==
  ASSUME DiskInv, UNCHANGED placeVars, over => over', over' \in BOOLEAN
  PROVE  /\ (\A u \in Task : JobSound(u))'
         /\ BootsAlone' /\ ChannelsHeld' /\ EarlySound' /\ IrqDataSound'
         /\ \A u \in Task : PortOf(u)' = PortOf(u) /\ Wanted(u)' = Wanted(u) /\ ByDma(u)' = ByDma(u)
         /\ \A u \in Task, k \in {"ide", "ahci"} : OfKind(u, k)' = OfKind(u, k)
<1>1. /\ (\A u \in Task : JobSound(u)) /\ BootsAlone /\ ChannelsHeld /\ EarlySound /\ IrqDataSound
  BY DEF DiskInv
<1>2. \A u \in Task : PortOf(u)' = PortOf(u) /\ Wanted(u)' = Wanted(u) /\ ByDma(u)' = ByDma(u)
  BY DEF placeVars, PortOf, Wanted, ByDma, OfKind
<1>3. \A u \in Task, k \in {"ide", "ahci"} : OfKind(u, k)' = OfKind(u, k)
  BY DEF placeVars, PortOf, OfKind
<1>4. (\A u \in Task : JobSound(u))'
  BY <1>1 DEF placeVars, JobSound, OfKind, PortOf
<1>5. BootsAlone' /\ EarlySound'
  BY <1>1 DEF placeVars, BootsAlone, Booting, EarlySound
<1>6. ChannelsHeld' /\ IrqDataSound'
  BY <1>1 DEF placeVars, ChannelsHeld, IrqDataSound, ChannelOf, PortOf, Channel
<1>7. QED BY <1>2, <1>3, <1>4, <1>5, <1>6

\* A task that is created or woken has no drive yet.
LEMMA SpawnKeeps ==
  ASSUME DiskInv, NEW t \in Task, Spawn(t), ~over
  PROVE  DiskInv'
<1>1. UNCHANGED <<kind, dma, untried, parts, root, have, job, sem, irqData, early, ret, doubtful,
                  raised, drive, moved, answer, buffer, over>>
      /\ pc[t] = "spawn"
  BY DEF Spawn, setupVars, cacheVars, lineVars, endVars
<1>2. CASE UNCHANGED pc
  BY <1>1, <1>2, SeenKeeps DEF seenVars, placeVars
<1>3. ASSUME NEW n \in Task, pc[n] \in {"new", "spawn"}, pc' = [pc EXCEPT ![n] = "out"]
      PROVE  DiskInv'
  <2>1. /\ DiskTypes /\ DiskRecords /\ BootsAlone /\ ChannelsHeld /\ IrqDataSound /\ EarlySound
        /\ \A u \in Task : JobSound(u) /\ OffersWanted(u) /\ MovedSound(u) /\ ReportSound(u)
        /\ \A q \in Port : BusySound(q)
    BY DEF DiskInv
  <2>2. /\ pc' \in [Task -> Places] /\ pc'[n] = "out" /\ \A u \in Task : u # n => pc'[u] = pc[u]
        /\ pc'[n] \notin Engaged \cup Armed \cup {"boot", "sync", "wait", "wait2"}
        /\ pc[n] \notin Engaged \cup Armed \cup {"boot", "sync", "wait", "wait2"}
    BY <1>3, <2>1 DEF DiskTypes, Places, Engaged, Working, Critical, Armed
  <2>3. /\ \A u \in Task : PortOf(u)' = PortOf(u) /\ Wanted(u)' = Wanted(u) /\ ByDma(u)' = ByDma(u)
        /\ \A u \in Task, k \in {"ide", "ahci"} : OfKind(u, k)' = OfKind(u, k)
        /\ \A u \in Task : ChannelOf(PortOf(u))' = ChannelOf(PortOf(u))
    BY <1>1 DEF PortOf, Wanted, ByDma, OfKind, ChannelOf
  <2>4. DiskTypes'
    BY <1>1, <2>1, <2>2 DEF DiskTypes
  <2>5. DiskRecords'
    BY <1>1, <2>1 DEF DiskRecords, SemRecords, DriveRecords, JobRecords, Channel
  <2>6. ASSUME NEW u \in Task PROVE JobSound(u)'
    BY <1>1, <2>1, <2>2, <2>3 DEF JobSound, Engaged, Working, Critical
  <2>7. BootsAlone'
    <3>1. ASSUME NEW u \in Task, Booting(u) PROVE FALSE
      <4>1. u = t
        BY <1>1, <2>1, <3>1 DEF BootsAlone
      <4>2. QED BY <1>1, <3>1, <4>1 DEF Booting, Working, Critical
    <3>2. ASSUME NEW u \in Task, Booting(u)' PROVE Booting(u)
      BY <1>1, <2>2, <3>2 DEF Booting, Engaged, Working
    <3>3. QED BY <3>1, <3>2 DEF BootsAlone
  <2>8. ChannelsHeld'
    BY <1>1, <2>1, <2>2, <2>3 DEF ChannelsHeld, Engaged, Working
  <2>9. IrqDataSound'
    BY <1>1, <2>1, <2>2, <2>3 DEF IrqDataSound, Channel
  <2>10. EarlySound'
    BY <1>1, <2>1, <2>2 DEF EarlySound
  <2>11. ASSUME early' = NoTask PROVE (\A q \in Port : Prompt(q)') /\ (\A u \in Task : AnswerSound(u)')
    <3>1. (\A q \in Port : Prompt(q)) /\ (\A u \in Task : AnswerSound(u))
      BY <1>1, <2>11 DEF DiskInv, InterruptsPrompt
    <3>2. \A q \in Port : drive[q].phase = "busy" => drive[q].by \in Task
      BY OneAtDrive
    <3>3. ASSUME NEW q \in Port PROVE Prompt(q)'
      BY <1>1, <2>2, <2>3, <3>1, <3>2 DEF Prompt, WaitsFor
    <3>4. ASSUME NEW u \in Task PROVE AnswerSound(u)'
      BY <1>1, <2>2, <2>3, <3>1 DEF AnswerSound, Armed
    <3>5. QED BY <3>3, <3>4
  <2>12. ASSUME NEW q \in Port PROVE BusySound(q)'
    BY <1>1, <2>1, <2>2, <2>3 DEF BusySound, Engaged
  <2>13. ASSUME NEW u \in Task PROVE OffersWanted(u)' /\ MovedSound(u)' /\ ReportSound(u)'
    BY <1>1, <2>1, <2>2, <2>3 DEF OffersWanted, MovedSound, ReportSound, Engaged, Working, Critical
  <2>14. QED BY <2>4, <2>5, <2>6, <2>7, <2>8, <2>9, <2>10, <2>11, <2>12, <2>13 DEF DiskInv, InterruptsPrompt
<1>4. QED BY <1>1, <1>2, <1>3 DEF Spawn, Goto

\* By DMA the drive writes into the buffer of a task that waits, or that has left.
LEMMA CompleteKeeps ==
  ASSUME DiskInv, NEW p \in Port, NEW ok \in BOOLEAN, Complete(p, ok)
  PROVE  DiskInv'
<1> DEFINE w == drive[p].by
<1>1. /\ DiskTypes /\ DiskRecords /\ BusySound(p)
      /\ \A u \in Task : JobSound(u) /\ OffersWanted(u) /\ MovedSound(u) /\ ReportSound(u)
      /\ \A q \in Port : BusySound(q)
  BY DEF DiskInv
<1>2. /\ UNCHANGED <<placeVars, answer, over>> /\ drive[p].phase = "busy"
      /\ kind[p] = "ahci" \/ dma[p]
      /\ drive' = [drive EXCEPT ![p].phase = "idle", ![p].ok = ok]
      /\ buffer' = [buffer EXCEPT ![w] = IF ok THEN drive[p].sector ELSE @]
      /\ moved' = [moved EXCEPT ![p] = ok] /\ raised' = [raised EXCEPT ![p] = TRUE]
  BY DEF Complete, placeVars, setupVars, cacheVars, endVars
<1>3. w \in Task
  BY <1>2, OneAtDrive
<1>4. /\ drive'[p].phase = "idle" /\ drive'[p].ok = ok /\ drive'[p].by = w
      /\ drive'[p].sector = drive[p].sector
      /\ \A q \in Port : q # p => drive'[q] = drive[q] /\ raised'[q] = raised[q] /\ moved'[q] = moved[q]
      /\ moved'[p] = ok /\ raised'[p] = TRUE /\ (ok => buffer'[w] = drive[p].sector)
      /\ \A u \in Task : u # w => buffer'[u] = buffer[u]
  <2>1. /\ drive = [q \in Port |-> drive[q]] /\ HasFields(drive[p], {"phase", "by", "sector", "ok"})
        /\ buffer = [u \in Task |-> buffer[u]] /\ moved \in [Port -> BOOLEAN] /\ raised \in [Port -> BOOLEAN]
    BY <1>1 DEF DiskTypes, DiskRecords, DriveRecords
  <2>2. drive'[p] = [drive[p] EXCEPT !.phase = "idle", !.ok = ok]
    BY <1>2, <2>1
  <2>3. /\ drive'[p].phase = "idle" /\ drive'[p].ok = ok /\ drive'[p].by = w
        /\ drive'[p].sector = drive[p].sector
    BY <2>1, <2>2 DEF HasFields
  <2>4. \A q \in Port : q # p => drive'[q] = drive[q]
    BY <1>2, <2>1
  <2>5. /\ \A q \in Port : q # p => raised'[q] = raised[q] /\ moved'[q] = moved[q]
        /\ moved'[p] = ok /\ raised'[p] = TRUE
    BY <1>2, <2>1
  <2>6. (ok => buffer'[w] = drive[p].sector) /\ \A u \in Task : u # w => buffer'[u] = buffer[u]
    BY <1>2, <1>3, <2>1
  <2>7. QED BY <2>3, <2>4, <2>5, <2>6
<1>5. DiskTypes'
  BY <1>1, <1>2 DEF DiskTypes, placeVars
<1>6. DiskRecords'
  <2>1. DriveRecords'
    BY <1>1, <1>2, <1>4 DEF DiskRecords, DriveRecords, HasFields
  <2>2. \A q \in Port : /\ drive'[q].phase \in {"idle", "busy", "drq", "failed", "ending"}
                        /\ drive'[q].by \in Task \cup {NoTask} /\ drive'[q].ok \in BOOLEAN
    BY <1>1, <1>3, <1>4 DEF DiskRecords
  <2>3. buffer' = [u \in Task |-> buffer'[u]]
    BY <1>1, <1>2 DEF DiskRecords
  <2>4. QED BY <1>1, <1>2, <2>1, <2>2, <2>3 DEF DiskRecords, SemRecords, JobRecords, Channel, placeVars
<1>7. over' \in BOOLEAN
  BY <1>1, <1>2 DEF DiskTypes
<1>8. /\ (\A u \in Task : JobSound(u))' /\ BootsAlone' /\ ChannelsHeld' /\ EarlySound' /\ IrqDataSound'
      /\ \A u \in Task : PortOf(u)' = PortOf(u) /\ Wanted(u)' = Wanted(u) /\ ByDma(u)' = ByDma(u)
      /\ \A u \in Task, k \in {"ide", "ahci"} : OfKind(u, k)' = OfKind(u, k)
  BY <1>2, <1>7, PlacesKeep
<1>9. pc' = pc /\ early' = early /\ ret' = ret /\ doubtful' = doubtful /\ answer' = answer /\ kind' = kind
  BY <1>2 DEF placeVars
<1>10. pc[w] \in Engaged => PortOf(w) = p
  BY <1>1, <1>2 DEF BusySound, Engaged, Working, Critical
<1>11. \A u, v \in Task :
         pc[u] \in Critical /\ pc[v] \in Critical /\ PortOf(u) = PortOf(v) => u = v
  BY OneAtDrive
<1>12. ASSUME early' = NoTask
       PROVE  (\A q \in Port : Prompt(q)') /\ (\A u \in Task : AnswerSound(u)')
  <2>1. (\A q \in Port : Prompt(q)) /\ (\A u \in Task : AnswerSound(u))
    BY <1>9, <1>12 DEF DiskInv, InterruptsPrompt
  <2>2. /\ pc[w] = "wait" /\ WaitsFor(w, p) /\ drive[p].sector = Wanted(w)
    BY <1>1, <1>2, <1>9, <1>12, <2>1 DEF BusySound, Prompt
  <2>3. ASSUME NEW q \in Port PROVE Prompt(q)'
    <3>1. CASE q = p
      <4>1. /\ pc'[w] = "wait" /\ WaitsFor(w, p)' /\ (ok => buffer'[w] = Wanted(w)')
        BY <1>3, <1>4, <1>8, <1>9, <2>2 DEF WaitsFor
      <4>2. QED BY <1>3, <1>4, <3>1, <4>1 DEF Prompt
    <3>2. CASE q # p
      <4>1. \A u \in Task : WaitsFor(u, q) => u # w
        BY <2>2, <3>2 DEF WaitsFor
      <4>2. \A u \in Task : WaitsFor(u, q)' <=> WaitsFor(u, q)
        BY <1>8, <1>9 DEF WaitsFor
      <4>3. /\ Prompt(q) /\ drive'[q] = drive[q] /\ raised'[q] = raised[q]
            /\ drive[q].phase = "busy" => drive[q].by \in Task
        BY <1>4, <2>1, <3>2, OneAtDrive
      <4>4. QED BY <1>4, <1>8, <1>9, <4>1, <4>2, <4>3 DEF Prompt
    <3>3. QED BY <3>1, <3>2
  <2>4. ASSUME NEW u \in Task PROVE AnswerSound(u)'
    BY <1>4, <1>8, <1>9, <2>1, <2>2 DEF AnswerSound, WaitsFor
  <2>5. QED BY <2>3, <2>4
<1>13. ASSUME NEW q \in Port PROVE BusySound(q)'
  BY <1>1, <1>4, <1>8, <1>9 DEF BusySound
<1>14. ASSUME NEW u \in Task PROVE OffersWanted(u)'
  <2>1. PortOf(u) = p => OffersWanted(u)'
    BY <1>1, <1>4, <1>8, <1>9 DEF OffersWanted
  <2>2. pc[u] \in Engaged => PortOf(u) \in Port
    BY EngagedPort
  <2>3. PortOf(u) # p => OffersWanted(u)'
    BY <1>1, <1>4, <1>8, <1>9, <2>2 DEF OffersWanted, Engaged, Working, Critical
  <2>4. QED BY <2>1, <2>3
<1>15. ASSUME NEW u \in Task PROVE MovedSound(u)'
  <2>1. CASE PortOf(u) = p /\ kind[p] = "ahci"
    <3>1. pc[w] = "wait" /\ PortOf(w) = p /\ drive[p].sector = Wanted(w)
      BY <1>1, <1>2, <2>1 DEF BusySound
    <3>2. pc[u] \in Critical => u = w
      BY <1>3, <1>11, <2>1, <3>1 DEF Critical
    <3>3. QED BY <1>1, <1>3, <1>4, <1>8, <1>9, <2>1, <3>1, <3>2 DEF MovedSound, Critical
  <2>2. CASE PortOf(u) = p /\ kind[p] # "ahci"
    BY <1>1, <1>8, <1>9, <2>2 DEF MovedSound, JobSound, OfKind
  <2>3. CASE PortOf(u) # p
    <3>1. pc[u] \in Engaged => PortOf(u) \in Port /\ buffer'[u] = buffer[u]
      BY <1>4, <1>10, <2>3, EngagedPort
    <3>2. pc[u] \in {"issue", "wait", "up", "check"} => moved'[PortOf(u)] = moved[PortOf(u)] /\ buffer'[u] = buffer[u]
      BY <1>4, <2>3, <3>1 DEF Engaged, Working, Critical
    <3>3. QED BY <1>1, <1>8, <1>9, <3>2 DEF MovedSound
  <2>4. QED BY <2>1, <2>2, <2>3
<1>16. ASSUME NEW u \in Task PROVE ReportSound(u)'
  <2>1. CASE u # w
    <3>1. pc[u] \in Engaged /\ drive'[PortOf(u)].phase = "busy" => drive'[PortOf(u)] = drive[PortOf(u)]
      BY <1>4, EngagedPort
    <3>2. QED BY <1>1, <1>4, <1>8, <1>9, <2>1, <3>1 DEF ReportSound, Engaged, Working, Critical
  <2>2. CASE u = w
    <3>1. ASSUME ret[u], ~doubtful[u], pc[u] \in {"wait2", "up", "done"} PROVE FALSE
      <4>1. PortOf(u) = p
        BY <1>10, <2>2, <3>1 DEF Engaged, Working, Critical
      <4>2. OfKind(u, "ide") /\ ByDma(u)
        BY <1>1, <1>2, <2>2, <3>1, <4>1 DEF BusySound, OfKind, ByDma
      <4>3. QED BY <1>1, <1>2, <2>2, <3>1, <4>1, <4>2 DEF ReportSound
    <3>2. QED BY <1>9, <3>1 DEF ReportSound
  <2>3. QED BY <2>1, <2>2
<1>17. QED BY <1>5, <1>6, <1>8, <1>12, <1>13, <1>14, <1>15, <1>16 DEF DiskInv, InterruptsPrompt

\* Without DMA the drive has the data, or the end of them.
LEMMA PresentKeeps ==
  ASSUME DiskInv, NEW p \in Port, Present(p)
  PROVE  DiskInv'
<1>1. /\ DiskTypes /\ DiskRecords
      /\ \A u \in Task : JobSound(u) /\ OffersWanted(u) /\ MovedSound(u) /\ ReportSound(u)
      /\ \A q \in Port : BusySound(q)
  BY DEF DiskInv
<1>2. /\ UNCHANGED <<placeVars, moved, answer, buffer, over>> /\ raised' = [raised EXCEPT ![p] = TRUE]
      /\ \/ drive[p].phase = "busy" /\ kind[p] = "ide" /\ ~dma[p]
         \/ drive[p].phase = "ending"
      /\ \E ph \in {"drq", "failed", "idle"} :
           drive' = [drive EXCEPT ![p].phase = ph] /\ (drive[p].phase = "ending" => ph = "idle")
  BY DEF Present, placeVars, setupVars, cacheVars, endVars
<1>3. /\ drive'[p].phase \in {"drq", "failed", "idle"} /\ drive'[p].by = drive[p].by
      /\ drive'[p].sector = drive[p].sector /\ drive'[p].ok = drive[p].ok
      /\ drive[p].phase = "ending" => drive'[p].phase = "idle"
      /\ \A q \in Port : q # p => drive'[q] = drive[q] /\ raised'[q] = raised[q]
      /\ raised'[p] = TRUE
  BY <1>1, <1>2 DEF DiskTypes, DiskRecords, DriveRecords, HasFields
<1>4. DiskTypes'
  BY <1>1, <1>2 DEF DiskTypes, placeVars
<1>5. DiskRecords'
  <2>1. DriveRecords'
    BY <1>1, <1>2 DEF DiskRecords, DriveRecords, HasFields
  <2>2. \A q \in Port : /\ drive'[q].phase \in {"idle", "busy", "drq", "failed", "ending"}
                        /\ drive'[q].by \in Task \cup {NoTask} /\ drive'[q].ok \in BOOLEAN
    BY <1>1, <1>3 DEF DiskRecords
  <2>3. QED BY <1>1, <1>2, <2>1, <2>2 DEF DiskRecords, SemRecords, JobRecords, Channel, placeVars
<1>6. over' \in BOOLEAN
  BY <1>1, <1>2 DEF DiskTypes
<1>7. /\ (\A u \in Task : JobSound(u))' /\ BootsAlone' /\ ChannelsHeld' /\ EarlySound' /\ IrqDataSound'
      /\ \A u \in Task : PortOf(u)' = PortOf(u) /\ Wanted(u)' = Wanted(u) /\ ByDma(u)' = ByDma(u)
      /\ \A u \in Task, k \in {"ide", "ahci"} : OfKind(u, k)' = OfKind(u, k)
  BY <1>2, <1>6, PlacesKeep
<1>8. /\ UNCHANGED <<pc, early, ret, doubtful, answer, kind, dma, moved, buffer>>
  BY <1>2 DEF placeVars
<1>9. ASSUME early' = NoTask
      PROVE  (\A q \in Port : Prompt(q)') /\ (\A u \in Task : AnswerSound(u)')
  <2>1. (\A q \in Port : Prompt(q)) /\ (\A u \in Task : AnswerSound(u))
    BY <1>8, <1>9 DEF DiskInv, InterruptsPrompt
  <2>2. \E u \in Task : /\ pc[u] \in {"wait", "wait2"} /\ WaitsFor(u, p)
                        /\ pc[u] = "wait" => ~ByDma(u)
    <3>1. CASE drive[p].phase = "busy" /\ kind[p] = "ide" /\ ~dma[p]
      <4>1. drive[p].by \in Task
        BY <3>1, OneAtDrive
      <4>2. QED BY <2>1, <3>1, <4>1 DEF Prompt, WaitsFor, ByDma, OfKind
    <3>2. CASE drive[p].phase = "ending"
      BY <2>1, <3>2 DEF Prompt
    <3>3. QED BY <1>2, <3>1, <3>2
  <2>3. \A u \in Task, q \in Port : WaitsFor(u, q)' <=> WaitsFor(u, q)
    BY <1>7, <1>8 DEF WaitsFor
  <2>4. ASSUME NEW q \in Port PROVE Prompt(q)'
    <3>1. CASE q = p
      BY <1>3, <1>7, <1>8, <2>2, <2>3, <3>1 DEF Prompt
    <3>2. CASE q # p
      <4>1. /\ Prompt(q) /\ drive'[q] = drive[q] /\ raised'[q] = raised[q]
            /\ drive[q].phase = "busy" => drive[q].by \in Task
        BY <1>3, <2>1, <3>2, OneAtDrive
      <4>2. QED BY <1>7, <1>8, <2>3, <4>1 DEF Prompt
    <3>3. QED BY <3>1, <3>2
  <2>5. ASSUME NEW u \in Task PROVE AnswerSound(u)'
    BY <1>7, <1>8, <2>1 DEF AnswerSound
  <2>6. QED BY <2>4, <2>5
<1>10. ASSUME NEW q \in Port PROVE BusySound(q)'
  BY <1>1, <1>3, <1>7, <1>8 DEF BusySound
<1>11. ASSUME NEW u \in Task PROVE OffersWanted(u)' /\ MovedSound(u)' /\ ReportSound(u)'
  <2>1. pc[u] \in Engaged => PortOf(u) \in Port
    BY EngagedPort
  <2>2. pc[u] \in Engaged =>
          /\ drive'[PortOf(u)].phase # "idle" => drive[PortOf(u)].phase # "idle"
          /\ drive'[PortOf(u)].phase = "busy" => drive[PortOf(u)].phase = "busy"
          /\ drive'[PortOf(u)].sector = drive[PortOf(u)].sector
          /\ drive'[PortOf(u)].by = drive[PortOf(u)].by
    BY <1>2, <1>3, <2>1
  <2>3. OffersWanted(u)'
    BY <1>1, <1>7, <1>8, <2>2 DEF OffersWanted, Engaged, Working, Critical
  <2>4. MovedSound(u)'
    BY <1>1, <1>7, <1>8 DEF MovedSound
  <2>5. ReportSound(u)'
    BY <1>1, <1>7, <1>8, <2>2 DEF ReportSound, Engaged, Working, Critical
  <2>6. QED BY <2>3, <2>4, <2>5
<1>12. QED BY <1>4, <1>5, <1>7, <1>9, <1>10, <1>11 DEF DiskInv, InterruptsPrompt

\* The handler leaves the answer to the task whose command was in p.
LEMMA NotifyKeeps ==
  ASSUME DiskInv, NEW p \in Port, NEW w \in Task, pc[w] \in Armed, PortOf(w) = p,
         Notify(w, p), UNCHANGED <<placeVars, drive, moved, buffer, over>>
  PROVE  DiskInv'
<1>1. /\ DiskTypes /\ DiskRecords
      /\ \A u \in Task : OffersWanted(u) /\ MovedSound(u) /\ ReportSound(u)
      /\ \A q \in Port : BusySound(q)
  BY DEF DiskInv
<1>2. /\ raised' = [raised EXCEPT ![p] = FALSE]
      /\ ~raised[p] => answer' = answer
      /\ raised[p] => answer' = [answer EXCEPT ![w] = IF drive[p].ok \/ kind[p] = "ahci"
                                                      THEN "good" ELSE "bad"]
  BY DEF Notify
<1>3. /\ raised'[p] = FALSE /\ \A q \in Port : q # p => raised'[q] = raised[q]
      /\ \A u \in Task : u # w => answer'[u] = answer[u]
      /\ raised[p] => answer'[w] = IF drive[p].ok \/ kind[p] = "ahci" THEN "good" ELSE "bad"
  BY <1>1, <1>2 DEF DiskTypes
<1>4. DiskTypes'
  BY <1>1, <1>2 DEF DiskTypes, placeVars
<1>5. DiskRecords'
  BY <1>1 DEF DiskRecords, SemRecords, DriveRecords, JobRecords, Channel, placeVars
<1>6. over' \in BOOLEAN
  BY <1>1 DEF DiskTypes
<1>7. /\ (\A u \in Task : JobSound(u))' /\ BootsAlone' /\ ChannelsHeld' /\ EarlySound' /\ IrqDataSound'
      /\ \A u \in Task : PortOf(u)' = PortOf(u) /\ Wanted(u)' = Wanted(u) /\ ByDma(u)' = ByDma(u)
      /\ \A u \in Task, k \in {"ide", "ahci"} : OfKind(u, k)' = OfKind(u, k)
  BY <1>6, PlacesKeep
<1>8. /\ UNCHANGED <<pc, early, ret, doubtful, kind, dma, moved, buffer, drive>>
  BY DEF placeVars
<1>9. \A u \in Task : pc[u] \in Critical /\ PortOf(u) = p => u = w
  BY OneAtDrive DEF Armed, Critical
<1>10. ASSUME early' = NoTask
       PROVE  (\A q \in Port : Prompt(q)') /\ (\A u \in Task : AnswerSound(u)')
  <2>1. (\A q \in Port : Prompt(q)) /\ (\A u \in Task : AnswerSound(u))
    BY <1>8, <1>10 DEF DiskInv, InterruptsPrompt
  <2>2. raised[p] =>
          /\ pc[w] \in {"wait", "wait2"} /\ drive[p].phase \notin {"busy", "ending"}
          /\ pc[w] = "wait" /\ ByDma(w) /\ drive[p].ok => buffer[w] = Wanted(w)
    <3>1. Prompt(p)
      BY <2>1
    <3>2. \A u \in Task : pc[u] \in {"wait", "wait2"} /\ WaitsFor(u, p) => u = w
      BY <1>9 DEF WaitsFor, Critical
    <3>3. QED BY <3>1, <3>2 DEF Prompt
  <2>3. ASSUME NEW q \in Port PROVE Prompt(q)'
    <3>1. CASE q = p
      <4>1. CASE raised[p]
        BY <1>3, <1>8, <2>2, <3>1, <4>1 DEF Prompt
      <4>2. CASE ~raised[p]
        <5>1. answer' = answer /\ raised'[p] = FALSE
          BY <1>2, <1>3, <4>2
        <5>2. \A u \in Task : WaitsFor(u, p)' <=> WaitsFor(u, p)
          BY <1>7, <5>1 DEF WaitsFor
        <5>3. Prompt(p) /\ (drive[p].phase = "busy" => drive[p].by \in Task)
          BY <2>1, OneAtDrive
        <5>4. QED BY <1>8, <3>1, <5>1, <5>2, <5>3 DEF Prompt
      <4>3. QED BY <4>1, <4>2
    <3>2. CASE q # p
      <4>1. \A u \in Task : WaitsFor(u, q) => u # w
        BY <3>2 DEF WaitsFor
      <4>2. \A u \in Task : u # w => (WaitsFor(u, q)' <=> WaitsFor(u, q))
        BY <1>3, <1>7 DEF WaitsFor
      <4>3. /\ Prompt(q) /\ raised'[q] = raised[q]
            /\ drive[q].phase = "busy" => drive[q].by \in Task
        BY <1>3, <2>1, <3>2, OneAtDrive
      <4>4. QED BY <1>7, <1>8, <4>1, <4>2, <4>3 DEF Prompt
    <3>3. QED BY <3>1, <3>2
  <2>4. ASSUME NEW u \in Task PROVE AnswerSound(u)'
    <3>1. CASE u # w \/ ~raised[p]
      <4>1. answer'[u] = answer[u]
        BY <1>2, <1>3, <3>1
      <4>2. QED BY <1>7, <1>8, <2>1, <4>1 DEF AnswerSound
    <3>2. CASE u = w /\ raised[p]
      <4>1. OfKind(w, "ide") /\ answer'[w] = "good" => drive[p].ok
        BY <1>3, <3>2 DEF OfKind
      <4>2. QED BY <1>7, <1>8, <2>2, <3>2, <4>1 DEF AnswerSound
    <3>3. QED BY <3>1, <3>2
  <2>5. QED BY <2>3, <2>4
<1>11. ASSUME NEW q \in Port PROVE BusySound(q)'
  BY <1>1, <1>7, <1>8 DEF BusySound
<1>12. ASSUME NEW u \in Task PROVE OffersWanted(u)' /\ MovedSound(u)' /\ ReportSound(u)'
  BY <1>1, <1>7, <1>8 DEF OffersWanted, MovedSound, ReportSound
<1>13. QED BY <1>4, <1>5, <1>7, <1>10, <1>11, <1>12 DEF DiskInv, InterruptsPrompt

\* It takes a bit down, and nobody is told.
LEMMA BitDownKeeps ==
  ASSUME DiskInv, raised' \in [Port -> BOOLEAN], \A q \in Port : raised'[q] => raised[q],
         over => over', over' \in BOOLEAN,
         UNCHANGED <<placeVars, drive, moved, answer, buffer>>
  PROVE  DiskInv'
<1>1. /\ DiskTypes /\ DiskRecords
      /\ \A u \in Task : OffersWanted(u) /\ MovedSound(u) /\ ReportSound(u)
      /\ \A q \in Port : BusySound(q)
  BY DEF DiskInv
<1>2. DiskTypes'
  BY <1>1 DEF DiskTypes, placeVars
<1>3. DiskRecords'
  BY <1>1 DEF DiskRecords, SemRecords, DriveRecords, JobRecords, Channel, placeVars
<1>4. /\ (\A u \in Task : JobSound(u))' /\ BootsAlone' /\ ChannelsHeld' /\ EarlySound' /\ IrqDataSound'
      /\ \A u \in Task : PortOf(u)' = PortOf(u) /\ Wanted(u)' = Wanted(u) /\ ByDma(u)' = ByDma(u)
      /\ \A u \in Task, k \in {"ide", "ahci"} : OfKind(u, k)' = OfKind(u, k)
  BY PlacesKeep
<1>5. /\ UNCHANGED <<pc, early, ret, doubtful, kind, dma, moved, buffer, drive, answer>>
  BY DEF placeVars
<1>6. ASSUME early' = NoTask
      PROVE  (\A q \in Port : Prompt(q)') /\ (\A u \in Task : AnswerSound(u)')
  <2>1. (\A q \in Port : Prompt(q)) /\ (\A u \in Task : AnswerSound(u))
    BY <1>5, <1>6 DEF DiskInv, InterruptsPrompt
  <2>2. \A u \in Task, q \in Port : WaitsFor(u, q)' <=> WaitsFor(u, q)
    BY <1>4, <1>5 DEF WaitsFor
  <2>3. ASSUME NEW q \in Port PROVE Prompt(q)'
    <3>1. Prompt(q) /\ (drive[q].phase = "busy" => drive[q].by \in Task)
      BY <2>1, OneAtDrive
    <3>2. QED BY <1>4, <1>5, <2>2, <3>1 DEF Prompt
  <2>4. ASSUME NEW u \in Task PROVE AnswerSound(u)'
    BY <1>4, <1>5, <2>1 DEF AnswerSound
  <2>5. QED BY <2>3, <2>4
<1>7. ASSUME NEW q \in Port PROVE BusySound(q)'
  BY <1>1, <1>4, <1>5 DEF BusySound
<1>8. ASSUME NEW u \in Task PROVE OffersWanted(u)' /\ MovedSound(u)' /\ ReportSound(u)'
  BY <1>1, <1>4, <1>5 DEF OffersWanted, MovedSound, ReportSound
<1>9. QED BY <1>2, <1>3, <1>4, <1>6, <1>7, <1>8 DEF DiskInv, InterruptsPrompt

LEMMA AhciIRQKeeps ==
  ASSUME DiskInv, AhciIRQ
  PROVE  DiskInv'
<1> DEFINE w == irqData["ahci"]
<1>1. DiskTypes /\ IrqDataSound
  BY DEF DiskInv
<1>2. UNCHANGED <<placeVars, drive, moved, buffer, over>>
  BY DEF AhciIRQ, placeVars, setupVars, cacheVars, endVars
<1>3. CASE w = NoTask
  BY <1>2, <1>3, SeenKeeps DEF AhciIRQ, seenVars
<1>4. CASE w \in Task
  <2>1. pc[w] \in Armed /\ PortOf(w) \in Port
    BY <1>1, <1>4, EngagedPort DEF IrqDataSound, Channel, Armed, Engaged, Working, Critical
  <2>2. Notify(w, PortOf(w))
    BY <1>4, DiskAssumption DEF AhciIRQ
  <2>3. QED BY <1>2, <1>4, <2>1, <2>2, NotifyKeeps
<1>5. CASE w = Stale
  <2>1. Notify(Stale, PortOf(Stale))
    BY <1>5, DiskAssumption DEF AhciIRQ
  <2>2. /\ raised' \in [Port -> BOOLEAN] /\ \A q \in Port : raised'[q] => raised[q]
        /\ answer' = answer
    <3>1. raised \in [Port -> BOOLEAN] /\ answer \in [Task -> {"none", "good", "bad"}] /\ Stale \notin Task
      BY <1>1, DiskAssumption DEF DiskTypes
    <3>2. raised' = [raised EXCEPT ![PortOf(Stale)] = FALSE]
      BY <2>1 DEF Notify
    <3>3. answer' = answer \/ \E x : answer' = [answer EXCEPT ![Stale] = x]
      BY <2>1 DEF Notify
    <3>4. QED BY <3>1, <3>2, <3>3
  <2>3. over' \in BOOLEAN /\ over' = over
    BY <1>1, <1>2 DEF DiskTypes
  <2>4. QED BY <1>2, <2>2, <2>3, BitDownKeeps
<1>6. w \in Task \cup {NoTask, Stale}
  BY <1>1 DEF DiskTypes, Channel
<1>7. QED BY <1>3, <1>4, <1>5, <1>6

LEMMA IdeIRQKeeps ==
  ASSUME DiskInv, NEW p \in Port, IdeIRQ(p)
  PROVE  DiskInv'
<1> DEFINE w == irqData[p]
<1>1. DiskTypes /\ IrqDataSound
  BY DEF DiskInv
<1>2. UNCHANGED <<placeVars, drive, moved, buffer>>
  BY DEF IdeIRQ, placeVars, setupVars, cacheVars, endVars
<1>3. CASE w \in Task
  <2>1. pc[w] \in Armed /\ ChannelOf(PortOf(w)) = p
    BY <1>1, <1>3 DEF IrqDataSound, Channel
  <2>2. PortOf(w) = p
    BY <2>1, DiskAssumption DEF ChannelOf
  <2>3. Notify(w, p) /\ over' = over
    BY <1>3 DEF IdeIRQ
  <2>4. QED BY <1>2, <1>3, <2>1, <2>2, <2>3, NotifyKeeps
<1>4. CASE w \notin Task
  <2>1. /\ raised' = [raised EXCEPT ![p] = FALSE] /\ answer' = answer
        /\ over' = (over \/ (w = Stale /\ raised[p]))
    BY <1>4 DEF IdeIRQ
  <2>2. /\ raised' \in [Port -> BOOLEAN] /\ \A q \in Port : raised'[q] => raised[q]
        /\ (over => over') /\ over' \in BOOLEAN
    BY <1>1, <2>1 DEF DiskTypes
  <2>3. QED BY <1>2, <2>1, <2>2, BitDownKeeps
<1>5. QED BY <1>3, <1>4

-----------------------------------------------------------------------------
(* The theorems.                                                           *)

LEMMA StepKeeps ==
  ASSUME DiskInv, NEW t \in Task, Step(t), ~over
  PROVE  DiskInv'
<1>1. CASE Enable(t) \/ AhciIdentified(t) \/ IdeIdentified(t) \/ Probed(t) \/ Sync(t) \/ Mount(t)
           \/ Spawn(t)
  BY <1>1, EnableKeeps, AhciIdentifiedKeeps, IdeIdentifiedKeeps, ProbedKeeps, SyncKeeps, MountKeeps,
     SpawnKeeps
<1>2. CASE Ask(t) \/ TakeInode(t) \/ GetPage(t) \/ UsePage(t) \/ GiveInode(t)
  BY <1>2, AskKeeps, TakeInodeKeeps, GetPageKeeps, UsePageKeeps, GiveInodeKeeps
<1>3. CASE TakeChannel(t) \/ Setup(t) \/ Ready(t) \/ Arm(t) \/ Issue(t) \/ Clear(t)
  BY <1>3, TakeChannelKeeps, SetupKeeps, ReadyKeeps, ArmKeeps, IssueKeeps, ClearKeeps
<1>4. CASE DataReady(t) \/ ArmAgain(t) \/ ReadData(t) \/ LeaveStale(t) \/ GiveChannel(t) \/ Check(t)
  BY <1>4, DataReadyKeeps, ArmAgainKeeps, ReadDataKeeps, LeaveStaleKeeps, GiveChannelKeeps, CheckKeeps
<1>5. QED BY <1>1, <1>2, <1>3, <1>4 DEF Step

\* Nobody has a drive, and one task boots.
LEMMA DiskInitSound ==
  ASSUME DiskInit
  PROVE  DiskInv
<1>1. PICK kinit \in Task : state = [t \in Tasks |-> IF t \in {kinit, Idle} THEN "Running" ELSE "None"]
  BY DEF DiskInit, Init
<1>2. /\ pc \in [Task -> {"new", "boot"}]
      /\ \A t \in Task : t # kinit => pc[t] = "new"
  <2>1. \A t \in Task : pc[t] = IF state[t] = "None" THEN "new" ELSE "boot"
    BY DEF DiskInit
  <2>2. pc = [t \in Task |-> IF state[t] = "None" THEN "new" ELSE "boot"]
    BY DEF DiskInit
  <2>3. \A t \in Task : t # kinit => state[t] = "None"
    BY <1>1, RunQueueAssumption DEF Tasks
  <2>4. QED BY <2>1, <2>2, <2>3
<1>3. DiskTypes
  <2>1. pc \in [Task -> Places]
    BY <1>2 DEF Places
  <2>2. QED BY <2>1 DEF DiskInit, DiskTypes
<1>4. DiskRecords
  BY DEF DiskInit, DiskRecords, SemRecords, DriveRecords, JobRecords, HasFields, Quiet, NoJob
<1>5. \A t \in Task : pc[t] \in {"new", "boot"} /\ pc[t] \notin Engaged \cup Armed \cup Working \cup Critical
  BY <1>2 DEF Engaged, Working, Critical, Armed
<1>6. \A t \in Task : JobSound(t)
  BY <1>5 DEF JobSound
<1>7. BootsAlone
  BY <1>2, <1>5 DEF BootsAlone, Booting
<1>8. ChannelsHeld /\ IrqDataSound /\ EarlySound
  BY <1>5, DiskAssumption DEF ChannelsHeld, IrqDataSound, EarlySound, DiskInit
<1>9. \A p \in Port : drive[p].phase = "idle" /\ ~raised[p]
  BY DEF DiskInit, Quiet
<1>10. InterruptsPrompt /\ \A p \in Port : BusySound(p)
  BY <1>5, <1>9 DEF InterruptsPrompt, Prompt, AnswerSound, BusySound
<1>11. \A t \in Task : OffersWanted(t) /\ MovedSound(t) /\ ReportSound(t)
  BY <1>5 DEF OffersWanted, MovedSound, ReportSound
<1>12. QED BY <1>3, <1>4, <1>6, <1>7, <1>8, <1>10, <1>11 DEF DiskInv

\* Whoever has a channel is alone in it and has left itself to its interrupt; a
\* drive works for a task that waits; and what the tasks report is sound.
THEOREM DiskInvariant == DiskSpec => []DiskInv
<1>1. DiskInit => DiskInv
  BY DiskInitSound
<1>2. DiskInv /\ [DiskNext]_diskVars => DiskInv'
  <2> SUFFICES ASSUME DiskInv, [DiskNext]_diskVars PROVE DiskInv'
    OBVIOUS
  <2>1. CASE ~over /\ \E t \in Task : Step(t)
    BY <2>1, StepKeeps
  <2>2. CASE ~over /\ \E p \in Port : Device(p)
    BY <2>2, PresentKeeps, CompleteKeeps DEF Device
  <2>3. CASE ~over /\ Interrupt
    BY <2>3, AhciIRQKeeps, IdeIRQKeeps DEF Interrupt
  <2>4. CASE Schedule
    BY <2>4, SeenKeeps DEF Schedule, seenVars, placeVars, setupVars, cacheVars, lineVars, endVars
  <2>5. CASE Tick
    BY <2>5, SeenKeeps DEF Tick, ioVars, seenVars, placeVars, setupVars, cacheVars, lineVars, endVars
  <2>6. CASE UNCHANGED diskVars
    BY <2>6, SeenKeeps DEF diskVars, ioVars, seenVars, placeVars, setupVars, cacheVars, lineVars, endVars
  <2>7. QED BY <2>1, <2>2, <2>3, <2>4, <2>5, <2>6 DEF DiskNext
<1>3. QED BY <1>1, <1>2, PTL DEF DiskSpec

LEMMA DriveServes == DiskInv => DriveServesHolder
<1> SUFFICES ASSUME DiskInv, NEW p \in Port, drive[p].phase = "busy", early = NoTask
    PROVE  /\ pc[drive[p].by] = "wait" /\ irqData[ChannelOf(p)] = drive[p].by
           /\ have[drive[p].by] > 0
           /\ \A t \in Task : pc[t] = "wait" /\ ChannelOf(PortOf(t)) = ChannelOf(p) => t = drive[p].by
  BY DEF DriveServesHolder
<1> DEFINE u == drive[p].by
<1>1. u \in Task /\ pc[u] = "wait" /\ PortOf(u) = p
  BY OneAtDrive DEF DiskInv, InterruptsPrompt, Prompt, WaitsFor
<1>2. irqData[ChannelOf(p)] = u
  BY <1>1 DEF DiskInv, IrqDataSound, Armed
<1>3. have[u] > 0
  BY <1>1 DEF DiskInv, JobSound, Working, Critical
<1>4. \A t \in Task : pc[t] = "wait" /\ ChannelOf(PortOf(t)) = ChannelOf(p) => t = u
  BY <1>1, OneInChannel DEF Critical
<1>5. QED BY <1>1, <1>2, <1>3, <1>4

\* Until a wait ends early a drive works for the task that has its channel, into a
\* buffer that the task still has, and no other task waits for that channel
\* (ahciSendCommandATAPI(), ideSendCommandATAPI()).
THEOREM DrivesServeHolders == DiskSpec => []DriveServesHolder
BY DiskInvariant, DriveServes, PTL

\* A read that reports success has its sector in the buffer, but for the AHCI read
\* that looks at a header which another task has cleared (ahci.c:215) and the IDE
\* read by DMA after a wait that something else has ended.
THEOREM ReadsAreExact == DiskSpec => []ReadsExact
<1>1. DiskInv => ReadsExact
  BY DEF DiskInv, ReadsExact, ReportSound
<1>2. QED BY <1>1, DiskInvariant, PTL

=============================================================================
