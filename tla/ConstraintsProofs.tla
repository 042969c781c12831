------------------------- MODULE ConstraintsProofs -------------------------
(***************************************************************************)
(* Lemmas about the consistency check and utils.split that the proofs of   *)
(* the algorithms rest on; what a loop over a list finds; and what each    *)
(* labeler answers and hands on to a child, which is what the HS-dag       *)
(* relies on.                                                              *)
(***************************************************************************)
EXTENDS Labelers, SequenceTheorems, WellFoundedInduction, TLAPS

\* Dropping constraints keeps a set consistent.
LEMMA Antimonotone ==
    ASSUME NEW kb, NEW S, NEW T, S \subseteq T, Consistent(kb, T)
    PROVE  Consistent(kb, S)
BY DEF Consistent

\* A task's list and background are made of constraints.
LEMMA TaskTypes ==
    ASSUME NEW Constraint, NEW t \in TaskOf(Constraint)
    PROVE  /\ t.kb \in SUBSET SUBSET Constraint
           /\ {} \notin t.kb
           /\ t.c \in Seq(Constraint)
           /\ t.b \in SUBSET Constraint
           /\ SetC(t) \in SUBSET Constraint
BY DEF TaskOf, SetC, Range

\* split cuts the list s over D after its h-th element.
HalvedAt(D, s, h) ==
    /\ 1 <= h /\ h < Len(s)
    /\ FirstHalf(s) \in Seq(D) /\ Len(FirstHalf(s)) = h
    /\ \A i \in 1 .. h : FirstHalf(s)[i] = s[i]
    /\ SecondHalf(s) \in Seq(D) /\ Len(SecondHalf(s)) = Len(s) - h
    /\ \A i \in 1 .. Len(s) - h : SecondHalf(s)[i] = s[h + i]

\* split cuts a list of two or more elements somewhere inside it (utils.py:6-14).
LEMMA HalvesElements ==
    ASSUME NEW D, NEW s \in Seq(D), s # <<>>, Len(s) # 1
    PROVE  \E h \in Nat : HalvedAt(D, s, h)
<1> DEFINE n == Len(s)
           h == n \div 2
<1>1. n \in Nat /\ n >= 2 /\ DOMAIN s = 1 .. n
  OBVIOUS
<1>2. h \in Nat /\ 1 <= h /\ h < n
  BY <1>1
<1> HIDE DEF h
<1>3. /\ SubSeq(s, 1, h) \in Seq(D)
      /\ Len(SubSeq(s, 1, h)) = h
      /\ \A i \in 1 .. h : SubSeq(s, 1, h)[i] = s[i]
  <2>1. \A i \in 1 .. h : s[i] \in D
    BY <1>1, <1>2, ElementOfSeq
  <2>2. h - 1 + 1 = h /\ \A i \in 1 .. h : 1 + i - 1 = i
    BY <1>2
  <2> QED BY <2>1, <2>2, <1>2, SubSeqProperties
<1>4. /\ SubSeq(s, h + 1, n) \in Seq(D)
      /\ Len(SubSeq(s, h + 1, n)) = n - h
      /\ \A i \in 1 .. n - h : SubSeq(s, h + 1, n)[i] = s[h + i]
  <2>1. \A i \in h + 1 .. n : s[i] \in D
    BY <1>1, <1>2, ElementOfSeq
  <2>2. /\ h + 1 \in Int /\ n \in Int /\ h + 1 <= n
        /\ n - (h + 1) + 1 = n - h
        /\ \A i \in 1 .. n - h : h + 1 + i - 1 = h + i
    BY <1>1, <1>2
  <2> QED BY <2>1, <2>2, SubSeqProperties
<1>5. FirstHalf(s) = SubSeq(s, 1, h) /\ SecondHalf(s) = SubSeq(s, h + 1, n)
  BY DEF FirstHalf, SecondHalf, h
<1> QED BY <1>2, <1>3, <1>4, <1>5 DEF HalvedAt

\* The halves of a list hold its elements at their places: an element of the first
\* half comes after the elements it comes after in the list; one of the second half
\* comes after the whole first half too.
LEMMA HalvesInPlace ==
    ASSUME NEW D, NEW s \in Seq(D), s # <<>>, Len(s) # 1, NEW n \in DOMAIN s
    PROVE  \/ /\ n \in DOMAIN FirstHalf(s)
              /\ FirstHalf(s)[n] = s[n]
              /\ Earlier(FirstHalf(s), n) \subseteq Earlier(s, n)
           \/ \E m \in DOMAIN SecondHalf(s) :
                 /\ SecondHalf(s)[m] = s[n]
                 /\ Earlier(SecondHalf(s), m) \subseteq Earlier(s, n)
                 /\ Range(FirstHalf(s)) \subseteq Earlier(s, n)
<1>0. PICK h \in Nat : HalvedAt(D, s, h)
  BY HalvesElements, Zenon
<1>1. /\ 1 <= h /\ h < Len(s)
      /\ FirstHalf(s) \in Seq(D) /\ Len(FirstHalf(s)) = h
      /\ \A i \in 1 .. h : FirstHalf(s)[i] = s[i]
      /\ SecondHalf(s) \in Seq(D) /\ Len(SecondHalf(s)) = Len(s) - h
      /\ \A i \in 1 .. Len(s) - h : SecondHalf(s)[i] = s[h + i]
  BY <1>0 DEF HalvedAt
<1>2. PICK k \in Nat : Len(s) = k
  BY LenProperties
<1>3. /\ DOMAIN s = 1 .. k
      /\ DOMAIN FirstHalf(s) = 1 .. h
      /\ DOMAIN SecondHalf(s) = 1 .. k - h
  BY <1>1, <1>2, LenProperties
<1>4. CASE n <= h
  <2>1. n \in 1 .. h /\ 1 .. n - 1 \subseteq 1 .. h
    BY <1>3, <1>4
  <2>2. Earlier(FirstHalf(s), n) \subseteq Earlier(s, n)
    BY <2>1, <1>1 DEF Earlier
  <2> QED BY <2>1, <2>2, <1>1, <1>3
<1>5. CASE n > h
  <2> DEFINE m == n - h
  <2>0. n \in 1 .. k /\ h < n /\ 1 <= h
    BY <1>1, <1>3, <1>5
  <2>1. /\ m \in 1 .. k - h /\ h + m = n
        /\ \A i \in 1 .. m - 1 : i \in 1 .. k - h /\ h + i \in 1 .. n - 1
        /\ 1 .. h \subseteq 1 .. n - 1
    BY <2>0
  <2> HIDE DEF m
  <2>2. SecondHalf(s)[m] = s[n]
    BY <2>1, <1>1, <1>2
  <2>3. ASSUME NEW x \in Earlier(SecondHalf(s), m)
        PROVE  x \in Earlier(s, n)
    <3>1. PICK i \in 1 .. m - 1 : x = SecondHalf(s)[i]
      BY DEF Earlier
    <3>2. x = s[h + i] /\ h + i \in 1 .. n - 1
      BY <3>1, <2>1, <1>1, <1>2
    <3> QED BY <3>2 DEF Earlier
  <2>4. ASSUME NEW x \in Range(FirstHalf(s))
        PROVE  x \in Earlier(s, n)
    <3>1. PICK i \in 1 .. h : x = FirstHalf(s)[i]
      BY <1>3 DEF Range
    <3>2. x = s[i] /\ i \in 1 .. n - 1
      BY <3>1, <2>1, <1>1
    <3> QED BY <3>2 DEF Earlier
  <2> QED BY <2>1, <2>2, <2>3, <2>4, <1>3
<1> QED BY <1>1, <1>3, <1>4, <1>5

\* split cuts a list of two or more elements into two non-empty lists with the
\* same elements between them (utils.py:6-14).
LEMMA SplitProperties ==
    ASSUME NEW D, NEW s \in Seq(D), s # <<>>, Len(s) # 1
    PROVE  /\ FirstHalf(s) \in Seq(D) /\ FirstHalf(s) # <<>>
           /\ SecondHalf(s) \in Seq(D) /\ SecondHalf(s) # <<>>
           /\ Range(FirstHalf(s)) \cup Range(SecondHalf(s)) = Range(s)
<1>0. PICK h \in Nat : HalvedAt(D, s, h)
  BY HalvesElements, Zenon
<1>1. /\ 1 <= h /\ h < Len(s)
      /\ FirstHalf(s) \in Seq(D) /\ Len(FirstHalf(s)) = h
      /\ \A i \in 1 .. h : FirstHalf(s)[i] = s[i]
      /\ SecondHalf(s) \in Seq(D) /\ Len(SecondHalf(s)) = Len(s) - h
      /\ \A i \in 1 .. Len(s) - h : SecondHalf(s)[i] = s[h + i]
  BY <1>0 DEF HalvedAt
<1>2. PICK k \in Nat : Len(s) = k
  BY LenProperties
<1>3. /\ DOMAIN s = 1 .. k
      /\ DOMAIN FirstHalf(s) = 1 .. h
      /\ DOMAIN SecondHalf(s) = 1 .. k - h
  BY <1>1, <1>2, LenProperties
<1>4. Range(s) \subseteq Range(FirstHalf(s)) \cup Range(SecondHalf(s))
  <2>1. ASSUME NEW n \in DOMAIN s
        PROVE  s[n] \in Range(FirstHalf(s)) \cup Range(SecondHalf(s))
    BY <2>1, HalvesInPlace DEF Range
  <2> QED BY <2>1 DEF Range
<1>5. Range(FirstHalf(s)) \subseteq Range(s)
  <2>1. 1 .. h \subseteq 1 .. k
    BY <1>1, <1>2
  <2> QED BY <2>1, <1>1, <1>3 DEF Range
<1>6. Range(SecondHalf(s)) \subseteq Range(s)
  <2>1. \A i \in 1 .. k - h : h + i \in 1 .. k
    BY <1>1, <1>2
  <2>2. \A i \in 1 .. k - h : SecondHalf(s)[i] = s[h + i]
    BY <1>1, <1>2
  <2> QED BY <2>1, <2>2, <1>3 DEF Range
<1>7. FirstHalf(s) # <<>> /\ SecondHalf(s) # <<>>
  <2>1. Len(<<>>) = 0
    BY EmptySeq
  <2>2. h # 0 /\ k - h # 0
    BY <1>1, <1>2
  <2> QED BY <2>1, <2>2, <1>1, <1>2, Zenon
<1> QED BY <1>1, <1>4, <1>5, <1>6, <1>7

\* The halves of a list without repetition have none and share no element.
LEMMA InjectiveHalves ==
    ASSUME NEW D, NEW s \in Seq(D), s # <<>>, Len(s) # 1, IsInjective(s)
    PROVE  /\ IsInjective(FirstHalf(s))
           /\ IsInjective(SecondHalf(s))
           /\ Range(FirstHalf(s)) \cap Range(SecondHalf(s)) = {}
<1>0. PICK h \in Nat : HalvedAt(D, s, h)
  BY HalvesElements, Zenon
<1>1. PICK k \in Nat : Len(s) = k
  BY LenProperties
<1>2. /\ h < k
      /\ DOMAIN s = 1 .. k
      /\ DOMAIN FirstHalf(s) = 1 .. h
      /\ DOMAIN SecondHalf(s) = 1 .. k - h
      /\ \A i \in 1 .. h : FirstHalf(s)[i] = s[i]
      /\ \A i \in 1 .. k - h : SecondHalf(s)[i] = s[h + i]
  BY <1>0, <1>1, LenProperties DEF HalvedAt
<1>3. /\ \A i \in 1 .. h : i \in 1 .. k
      /\ \A i \in 1 .. k - h : h + i \in 1 .. k
      /\ \A i, j \in 1 .. k - h : h + i = h + j => i = j
      /\ \A i \in 1 .. h, j \in 1 .. k - h : i # h + j
  BY <1>2
<1>4. IsInjective(FirstHalf(s))
  BY <1>2, <1>3 DEF IsInjective
<1>5. IsInjective(SecondHalf(s))
  <2>1. ASSUME NEW i \in 1 .. k - h, NEW j \in 1 .. k - h,
               SecondHalf(s)[i] = SecondHalf(s)[j]
        PROVE  i = j
    <3>1. s[h + i] = s[h + j]
      BY <2>1, <1>2
    <3>2. h + i = h + j
      BY <3>1, <1>2, <1>3 DEF IsInjective
    <3> QED BY <3>2, <1>3
  <2> QED BY <2>1, <1>2 DEF IsInjective
<1>6. ASSUME NEW x \in Range(FirstHalf(s)), x \in Range(SecondHalf(s))
      PROVE  FALSE
  <2>1. PICK i \in 1 .. h : x = FirstHalf(s)[i]
    BY <1>2 DEF Range
  <2>2. PICK j \in 1 .. k - h : x = SecondHalf(s)[j]
    BY <1>2, <1>6 DEF Range
  <2>3. s[i] = s[h + j]
    BY <2>1, <2>2, <1>2
  <2> QED BY <2>3, <1>2, <1>3 DEF IsInjective
<1> QED BY <1>4, <1>5, <1>6

\* The last element of a list is that of its second half.
LEMMA LastOfHalves ==
    ASSUME NEW D, NEW s \in Seq(D), s # <<>>, Len(s) # 1
    PROVE  Last(SecondHalf(s)) = Last(s)
<1>0. PICK h \in Nat : HalvedAt(D, s, h)
  BY HalvesElements, Zenon
<1>1. PICK k \in Nat : Len(s) = k
  BY LenProperties
<1>2. /\ h < k
      /\ Len(SecondHalf(s)) = k - h
      /\ \A i \in 1 .. k - h : SecondHalf(s)[i] = s[h + i]
  BY <1>0, <1>1 DEF HalvedAt
<1>3. k - h \in 1 .. k - h /\ h + (k - h) = k
  BY <1>2
<1> QED BY <1>1, <1>2, <1>3 DEF Last

\* A list is empty exactly when it has no elements, and a list of one element
\* holds nothing else.
LEMMA RangeProperties ==
    ASSUME NEW D, NEW s \in Seq(D)
    PROVE  /\ Range(s) \in SUBSET D
           /\ s # <<>> <=> Range(s) # {}
           /\ Len(s) = 1 => \A x \in Range(s) : Range(s) = {x}
           /\ Len(s) = 1 => Range(s) = {Last(s)}
<1>1. Range(s) = {s[i] : i \in 1 .. Len(s)} /\ Range(s) \in SUBSET D
  BY RangeEquality, RangeOfSeq
<1>2. s # <<>> <=> Len(s) \in Nat \ {0}
  BY EmptySeq
<1>3. Len(s) \in Nat
  BY LenProperties
<1>4. s # <<>> => s[1] \in Range(s)
  <2>1. s # <<>> => 1 \in 1 .. Len(s)
    BY <1>2
  <2> QED BY <2>1, <1>1
<1>5. Range(s) # {} => Len(s) # 0
  BY <1>1, <1>3
<1>6. Len(s) = 1 => 1 .. Len(s) = {1}
  OBVIOUS
<1>7. Len(s) = 1 => Range(s) = {Last(s)}
  BY <1>1, <1>6 DEF Last
<1> QED BY <1>1, <1>2, <1>3, <1>4, <1>5, <1>6, <1>7

\* The halves of any list are lists.
LEMMA HalvesAreLists ==
    ASSUME NEW D, NEW s \in Seq(D)
    PROVE  FirstHalf(s) \in Seq(D) /\ SecondHalf(s) \in Seq(D)
<1> DEFINE h == Len(s) \div 2
<1>1. Len(s) \in Nat /\ h \in Nat /\ h <= Len(s)
  BY LenProperties
<1>2. /\ \A i \in 1 .. h : s[i] \in D
      /\ \A i \in h + 1 .. Len(s) : s[i] \in D
  BY <1>1, ElementOfSeq
<1> QED BY <1>1, <1>2, SubSeqProperties DEF FirstHalf, SecondHalf

\* Popping a non-empty call stack keeps every frame but the last.
LEMMA PopProperties ==
    ASSUME NEW D, NEW s \in Seq(D), s # <<>>
    PROVE  /\ SubSeq(s, 1, Len(s) - 1) \in Seq(D)
           /\ Len(SubSeq(s, 1, Len(s) - 1)) = Len(s) - 1
           /\ \A i \in 1 .. Len(s) - 1 : SubSeq(s, 1, Len(s) - 1)[i] = s[i]
<1>1. PICK n \in Nat \ {0} : Len(s) = n
  BY EmptySeq
<1>2. \A i \in 1 .. n - 1 : s[i] \in D
  <2>1. 1 .. n - 1 \subseteq 1 .. n
    OBVIOUS
  <2> QED BY <1>1, <2>1, ElementOfSeq
<1>3. /\ n - 1 \in Int
      /\ (n - 1) - 1 + 1 = n - 1
      /\ 1 <= n - 1 \/ n - 1 = 0
      /\ \A i \in Int : 1 + i - 1 = i
      /\ 1 .. n - 1 \subseteq Int
  OBVIOUS
<1>4. /\ SubSeq(s, 1, n - 1) \in Seq(D)
      /\ Len(SubSeq(s, 1, n - 1)) = IF 1 <= n - 1 THEN (n - 1) - 1 + 1 ELSE 0
      /\ \A i \in 1 .. (n - 1) - 1 + 1 : SubSeq(s, 1, n - 1)[i] = s[1 + i - 1]
  BY <1>2, <1>3, SubSeqProperties
<1> QED BY <1>1, <1>3, <1>4

----------------------------------------------------------------------------
\* A non-empty set of naturals has a least element.
LEMMA LeastElement ==
    ASSUME NEW P \in SUBSET Nat, P # {}
    PROVE  \E n \in P : \A m \in P : n <= m
<1> DEFINE R == OpToRel(<, Nat)
<1>1. IsWellFoundedOn(R, Nat)
  BY NatLessThanWellFounded, Zenon
<1>2. R = {ss \in Nat \X Nat : ss[1] < ss[2]}
  BY DEF OpToRel
<1> HIDE DEF R
<1>3. PICK n \in P : \A m \in P : ~(<<m, n>> \in R)
  BY <1>1, WFMin
<1>4. \A m \in P : ~(m < n)
  BY <1>2, <1>3
<1>5. n \in Nat /\ \A m \in P : m \in Nat
  OBVIOUS
<1> QED BY <1>4, <1>5

\* X and Y differ at the n-th place of c and agree on what comes before it.
DifferFirstAt(c, X, Y, n) ==
    /\ ~(c[n] \in X <=> c[n] \in Y)
    /\ Earlier(c, n) \cap X = Earlier(c, n) \cap Y
    /\ Earlier(c, n) \ X = Earlier(c, n) \ Y

\* Two different sets of a list's elements differ at a first place of the list, and
\* agree on what comes before it.
LEMMA FirstDifference ==
    ASSUME NEW D, NEW c \in Seq(D),
           NEW X \in SUBSET Range(c), NEW Y \in SUBSET Range(c), X # Y
    PROVE  \E n \in DOMAIN c : DifferFirstAt(c, X, Y, n)
<1> DEFINE P == {n \in DOMAIN c : ~(c[n] \in X <=> c[n] \in Y)}
<1>1. PICK k \in Nat : DOMAIN c = 1 .. k
  BY LenProperties
<1>2. P \in SUBSET Nat
  BY <1>1
<1>3. P # {}
  <2>1. PICK x \in Range(c) : ~(x \in X <=> x \in Y)
    OBVIOUS
  <2>2. PICK n \in DOMAIN c : x = c[n]
    BY DEF Range
  <2> QED BY <2>1, <2>2
<1>4. PICK n \in P : \A m \in P : n <= m
  BY <1>2, <1>3, LeastElement
<1>5. \A m \in 1 .. n - 1 : c[m] \in X <=> c[m] \in Y
  <2>1. ASSUME NEW m \in 1 .. n - 1
        PROVE  c[m] \in X <=> c[m] \in Y
    <3>1. m \in DOMAIN c /\ ~(n <= m)
      BY <1>1, <1>4
    <3> QED BY <3>1, <1>4
  <2> QED BY <2>1
<1>6. \A y \in Earlier(c, n) : y \in X <=> y \in Y
  BY <1>5 DEF Earlier
<1> QED BY <1>4, <1>6 DEF DifferFirstAt

\* A scan of a list keeps one set, the one PreferredSubset names.
LEMMA ScanDecides ==
    ASSUME NEW D, NEW t, t.c \in Seq(D),
           NEW X \in SUBSET SetC(t), KeptByScan(t.kb, t.b, t.c, X)
    PROVE  PreferredSubset(t) = X
<1>1. ASSUME NEW Y \in SUBSET SetC(t), KeptByScan(t.kb, t.b, t.c, Y), X # Y
      PROVE  FALSE
  <2>0. X \in SUBSET Range(t.c) /\ Y \in SUBSET Range(t.c)
    BY DEF SetC
  <2>1. PICK n \in DOMAIN t.c : DifferFirstAt(t.c, X, Y, n)
    BY <2>0, <1>1, FirstDifference
  <2> QED BY <2>1, <1>1 DEF KeptByScan, DifferFirstAt
<1> QED BY <1>1 DEF PreferredSubset

\* A scan of a list leaves one set, the one PreferredConflict names when the
\* background is consistent.
LEMMA ScanDecidesConflict ==
    ASSUME NEW D, NEW t, t.c \in Seq(D), Consistent(t.kb, t.b),
           NEW X \in SUBSET SetC(t), LeftByScan(t.kb, t.b, t.c, X)
    PROVE  PreferredConflict(t) = X
<1>1. ASSUME NEW Y \in SUBSET SetC(t), LeftByScan(t.kb, t.b, t.c, Y), X # Y
      PROVE  FALSE
  <2>0. X \in SUBSET Range(t.c) /\ Y \in SUBSET Range(t.c)
    BY DEF SetC
  <2>1. PICK n \in DOMAIN t.c : DifferFirstAt(t.c, X, Y, n)
    BY <2>0, <1>1, FirstDifference
  <2> QED BY <2>1, <1>1 DEF LeftByScan, DifferFirstAt
<1> QED BY <1>1 DEF PreferredConflict

----------------------------------------------------------------------------
(* What a loop over a list finds.                                          *)

\* A set that has 0, and with each number below n the next, has all of them up to n.
LEMMA UpTo ==
    ASSUME NEW n \in Nat, NEW P, 0 \in P, \A m \in 0 .. n : m < n /\ m \in P => m + 1 \in P
    PROVE  0 .. n \subseteq P
<1> DEFINE Q == {m \in 0 .. n : m \notin P}
<1>1. ASSUME Q # {}
      PROVE  FALSE
  <2>1. Q \in SUBSET Nat
    OBVIOUS
  <2>2. PICK k \in Q : \A m \in Q : k <= m
    BY <1>1, <2>1, LeastElement
  <2>3. k \in 0 .. n /\ k # 0
    BY <2>2
  <2>4. k - 1 \in 0 .. n /\ k - 1 < n /\ (k - 1) + 1 = k /\ ~(k <= k - 1)
    BY <2>3
  <2>5. k - 1 \in P
    BY <2>2, <2>4
  <2>6. k \in P
    BY <2>4, <2>5
  <2> QED BY <2>2, <2>6
<1> QED BY <1>1

\* The elements before a place of a list, and those up to it.
LEMMA EarlierProperties ==
    ASSUME NEW D, NEW s \in Seq(D)
    PROVE  /\ Earlier(s, 1) = {}
           /\ Earlier(s, Len(s) + 1) = Range(s)
           /\ \A n \in DOMAIN s : Earlier(s, n + 1) = Earlier(s, n) \cup {s[n]}
           /\ IsInjective(s) => \A n \in DOMAIN s : s[n] \notin Earlier(s, n)
<1>1. PICK k \in Nat : Len(s) = k
  BY LenProperties
<1>2. DOMAIN s = 1 .. k
  BY <1>1, LenProperties
<1>3. Earlier(s, 1) = {}
  BY DEF Earlier
<1>4. Earlier(s, k + 1) = Range(s)
  <2>1. 1 .. (k + 1) - 1 = 1 .. k
    OBVIOUS
  <2> QED BY <1>2, <2>1 DEF Earlier, Range
<1>5. ASSUME NEW n \in DOMAIN s
      PROVE  Earlier(s, n + 1) = Earlier(s, n) \cup {s[n]}
  <2>1. 1 .. (n + 1) - 1 = (1 .. n - 1) \cup {n}
    BY <1>2
  <2> QED BY <2>1 DEF Earlier
<1>6. ASSUME IsInjective(s), NEW n \in DOMAIN s
      PROVE  s[n] \notin Earlier(s, n)
  <2>1. \A m \in 1 .. n - 1 : m \in DOMAIN s /\ m # n
    BY <1>2
  <2> QED BY <2>1, <1>6 DEF Earlier, IsInjective
<1> QED BY <1>1, <1>3, <1>4, <1>5, <1>6

\* A loop over a list without repetition that decides of each element by what it
\* decided of those before it, as K says, decides of all of them.
LEMMA LoopDecides ==
    ASSUME NEW D, NEW s \in Seq(D), IsInjective(s), NEW K
    PROVE  \E X \in SUBSET Range(s) :
               \A n \in DOMAIN s : s[n] \in X <=> <<n, Earlier(s, n) \cap X>> \in K
<1>1. PICK k \in Nat : Len(s) = k
  BY LenProperties
<1>2. DOMAIN s = 1 .. k
  BY <1>1, LenProperties
<1> DEFINE Decided(X, m) ==
             /\ X \in SUBSET Range(s)
             /\ \A n \in 1 .. m : s[n] \in X <=> <<n, Earlier(s, n) \cap X>> \in K
           P == {m \in 0 .. k : \E X : Decided(X, m)}
<1>3. 0 \in P
  <2>1. Decided({}, 0) /\ 0 \in 0 .. k
    OBVIOUS
  <2> HIDE DEF Decided
  <2> QED BY <2>1
<1>4. ASSUME NEW m \in 0 .. k, m < k, m \in P
      PROVE  m + 1 \in P
  <2>0. m + 1 \in 1 .. k /\ m + 1 \in 0 .. k /\ m \in Nat
    BY <1>4
  <2>1. PICK X : Decided(X, m)
    BY <1>4
  <2> DEFINE x == s[m + 1]
             Y == IF <<m + 1, Earlier(s, m + 1) \cap X>> \in K THEN X \cup {x} ELSE X \ {x}
  <2>2. x \in Range(s) /\ (x \in Y <=> <<m + 1, Earlier(s, m + 1) \cap X>> \in K)
    BY <1>2, <2>0 DEF Range
  <2>3. X \in SUBSET Range(s) /\ Y \in SUBSET Range(s) /\ \A y : y # x => (y \in Y <=> y \in X)
    BY <2>1, <2>2
  <2>4. ASSUME NEW n \in 1 .. m + 1
        PROVE  Earlier(s, n) \cap Y = Earlier(s, n) \cap X
    <3>1. x \notin Earlier(s, n)
      <4>1. \A i \in 1 .. n - 1 : i \in DOMAIN s /\ i # m + 1
        BY <1>2, <2>0
      <4>2. m + 1 \in DOMAIN s
        BY <1>2, <2>0
      <4> QED BY <4>1, <4>2 DEF Earlier, IsInjective
    <3> HIDE DEF Y
    <3> QED BY <3>1, <2>3
  <2>5. ASSUME NEW n \in 1 .. m
        PROVE  s[n] \in Y <=> s[n] \in X
    <3>1. n \in DOMAIN s /\ m + 1 \in DOMAIN s /\ n # m + 1
      BY <1>2, <2>0
    <3>2. s[n] # x
      BY <3>1 DEF IsInjective
    <3> HIDE DEF Y, x
    <3> QED BY <3>2, <2>3
  <2>6. ASSUME NEW n \in 1 .. m + 1
        PROVE  s[n] \in Y <=> <<n, Earlier(s, n) \cap Y>> \in K
    <3>1. n \in 1 .. m \/ n = m + 1
      BY <2>0
    <3> HIDE DEF Y
    <3> QED BY <3>1, <2>1, <2>2, <2>4, <2>5
  <2>7. Decided(Y, m + 1)
    <3> HIDE DEF Y
    <3> QED BY <2>3, <2>6
  <2> HIDE DEF Decided, Y
  <2> QED BY <2>0, <2>7
<1>5. 0 .. k \subseteq P
  <2> HIDE DEF P
  <2> QED BY <1>3, <1>4, UpTo
<1>6. PICK X : Decided(X, k)
  <2>1. k \in 0 .. k
    OBVIOUS
  <2> QED BY <2>1, <1>5
<1> QED BY <1>2, <1>6

\* What a scan keeps is consistent with the background, if the background is, and
\* with nothing else of the list.
LEMMA KeptIsMaximal ==
    ASSUME NEW D, NEW c \in Seq(D), NEW kb, NEW b, Consistent(kb, b),
           NEW X \in SUBSET Range(c), KeptByScan(kb, b, c, X)
    PROVE  /\ Consistent(kb, b \cup X)
           /\ \A x \in Range(c) \ X : ~Consistent(kb, b \cup X \cup {x})
<1>1. PICK k \in Nat : Len(c) = k /\ DOMAIN c = 1 .. k
  BY LenProperties
<1> DEFINE P == {n \in 0 .. k : Consistent(kb, b \cup (Earlier(c, n + 1) \cap X))}
<1>2. 0 \in P
  <2>1. b \cup (Earlier(c, 1) \cap X) = b /\ 0 + 1 = 1 /\ 0 \in 0 .. k
    BY EarlierProperties
  <2> QED BY <2>1
<1>3. ASSUME NEW n \in 0 .. k, n < k, n \in P
      PROVE  n + 1 \in P
  <2>1. n + 1 \in DOMAIN c /\ n + 1 \in 0 .. k
    BY <1>1, <1>3
  <2> DEFINE m == n + 1
  <2>2. Earlier(c, m + 1) = Earlier(c, m) \cup {c[m]}
    BY <2>1, EarlierProperties
  <2>3. Consistent(kb, b \cup (Earlier(c, m) \cap X))
    BY <1>3
  <2>4. c[m] \in X <=> Consistent(kb, b \cup (Earlier(c, m) \cap X) \cup {c[m]})
    BY <2>1 DEF KeptByScan
  <2> HIDE DEF m
  <2>5. CASE c[m] \in X
    <3>1. b \cup (Earlier(c, m + 1) \cap X) = b \cup (Earlier(c, m) \cap X) \cup {c[m]}
      BY <2>2, <2>5
    <3>2. Consistent(kb, b \cup (Earlier(c, m + 1) \cap X))
      BY <2>4, <2>5, <3>1
    <3> QED BY <3>2, <2>1 DEF m
  <2>6. CASE c[m] \notin X
    <3>1. Earlier(c, m + 1) \cap X = Earlier(c, m) \cap X
      BY <2>2, <2>6
    <3>2. Consistent(kb, b \cup (Earlier(c, m + 1) \cap X))
      BY <2>3, <3>1
    <3> QED BY <3>2, <2>1 DEF m
  <2> QED BY <2>5, <2>6
<1>4. Consistent(kb, b \cup X)
  <2>1. k \in 0 .. k /\ 0 .. k \subseteq P
    <3> HIDE DEF P
    <3> QED BY <1>2, <1>3, UpTo
  <2>2. Earlier(c, k + 1) \cap X = X
    BY <1>1, EarlierProperties
  <2> QED BY <2>1, <2>2
<1>5. ASSUME NEW x \in Range(c) \ X
      PROVE  ~Consistent(kb, b \cup X \cup {x})
  <2>1. PICK n \in DOMAIN c : x = c[n]
    BY DEF Range
  <2>2. ~Consistent(kb, b \cup (Earlier(c, n) \cap X) \cup {x})
    BY <2>1, <1>5 DEF KeptByScan
  <2>3. b \cup (Earlier(c, n) \cap X) \cup {x} \subseteq b \cup X \cup {x}
    OBVIOUS
  <2> QED BY <2>2, <2>3, Antimonotone
<1> QED BY <1>4, <1>5

\* What a scan leaves contradicts the background, if the list does, and no less of it
\* does.
LEMMA LeftIsMinimal ==
    ASSUME NEW D, NEW c \in Seq(D), NEW kb, NEW b, ~Consistent(kb, b \cup Range(c)),
           NEW X \in SUBSET Range(c), LeftByScan(kb, b, c, X)
    PROVE  /\ ~Consistent(kb, b \cup X)
           /\ \A x \in X : Consistent(kb, b \cup (X \ {x}))
<1>1. PICK k \in Nat : Len(c) = k /\ DOMAIN c = 1 .. k
  BY LenProperties
<1> DEFINE P == {n \in 0 .. k : ~Consistent(kb, b \cup (Range(c) \ (Earlier(c, n + 1) \ X)))}
<1>2. 0 \in P
  <2>1. Range(c) \ (Earlier(c, 1) \ X) = Range(c) /\ 0 + 1 = 1 /\ 0 \in 0 .. k
    BY EarlierProperties
  <2> QED BY <2>1
<1>3. ASSUME NEW n \in 0 .. k, n < k, n \in P
      PROVE  n + 1 \in P
  <2>1. n + 1 \in DOMAIN c /\ n + 1 \in 0 .. k
    BY <1>1, <1>3
  <2> DEFINE m == n + 1
  <2>2. Earlier(c, m + 1) = Earlier(c, m) \cup {c[m]}
    BY <2>1, EarlierProperties
  <2>3. ~Consistent(kb, b \cup (Range(c) \ (Earlier(c, m) \ X)))
    BY <1>3
  <2>4. c[m] \in X <=>
            Consistent(kb, b \cup ((Range(c) \ (Earlier(c, m) \ X)) \ {c[m]}))
    BY <2>1 DEF LeftByScan
  <2> HIDE DEF m
  <2>5. CASE c[m] \in X
    <3>1. Earlier(c, m + 1) \ X = Earlier(c, m) \ X
      BY <2>2, <2>5
    <3>2. ~Consistent(kb, b \cup (Range(c) \ (Earlier(c, m + 1) \ X)))
      BY <2>3, <3>1
    <3> QED BY <3>2, <2>1 DEF m
  <2>6. CASE c[m] \notin X
    <3>1. Range(c) \ (Earlier(c, m + 1) \ X) = (Range(c) \ (Earlier(c, m) \ X)) \ {c[m]}
      BY <2>2, <2>6
    <3>2. ~Consistent(kb, b \cup (Range(c) \ (Earlier(c, m + 1) \ X)))
      BY <2>4, <2>6, <3>1
    <3> QED BY <3>2, <2>1 DEF m
  <2> QED BY <2>5, <2>6
<1>4. ~Consistent(kb, b \cup X)
  <2>1. k \in 0 .. k /\ 0 .. k \subseteq P
    <3> HIDE DEF P
    <3> QED BY <1>2, <1>3, UpTo
  <2>2. Range(c) \ (Earlier(c, k + 1) \ X) = X
    BY <1>1, EarlierProperties
  <2> QED BY <2>1, <2>2
<1>5. ASSUME NEW x \in X
      PROVE  Consistent(kb, b \cup (X \ {x}))
  <2>1. PICK n \in DOMAIN c : x = c[n]
    BY DEF Range
  <2>2. Consistent(kb, b \cup ((Range(c) \ (Earlier(c, n) \ X)) \ {x}))
    BY <2>1, <1>5 DEF LeftByScan
  <2>3. b \cup (X \ {x}) \subseteq b \cup ((Range(c) \ (Earlier(c, n) \ X)) \ {x})
    OBVIOUS
  <2> QED BY <2>2, <2>3, Antimonotone
<1> QED BY <1>4, <1>5

\* A list without repetition has the set PreferredSubset names: it is consistent with
\* the background, if the background is, and with nothing else of the list.
LEMMA PreferredSubsetIsMaximal ==
    ASSUME NEW D, NEW t, t.c \in Seq(D), IsInjective(t.c)
    PROVE  /\ PreferredSubset(t) \in SUBSET SetC(t)
           /\ KeptByScan(t.kb, t.b, t.c, PreferredSubset(t))
           /\ Consistent(t.kb, t.b) =>
                /\ Consistent(t.kb, t.b \cup PreferredSubset(t))
                /\ \A x \in SetC(t) \ PreferredSubset(t) :
                      ~Consistent(t.kb, t.b \cup PreferredSubset(t) \cup {x})
<1> DEFINE K == {q \in (DOMAIN t.c) \X (SUBSET Range(t.c)) :
                    Consistent(t.kb, t.b \cup q[2] \cup {t.c[q[1]]})}
<1>1. PICK X \in SUBSET Range(t.c) :
          \A n \in DOMAIN t.c : t.c[n] \in X <=> <<n, Earlier(t.c, n) \cap X>> \in K
  <2> HIDE DEF K
  <2> QED BY LoopDecides
<1>2. ASSUME NEW n \in DOMAIN t.c
      PROVE  t.c[n] \in X <=>
                 Consistent(t.kb, t.b \cup (Earlier(t.c, n) \cap X) \cup {t.c[n]})
  <2>1. Earlier(t.c, n) \cap X \in SUBSET Range(t.c)
    OBVIOUS
  <2>2. <<n, Earlier(t.c, n) \cap X>> \in K <=>
            Consistent(t.kb, t.b \cup (Earlier(t.c, n) \cap X) \cup {t.c[n]})
    BY <2>1
  <2> QED BY <2>2, <1>1
<1>3. KeptByScan(t.kb, t.b, t.c, X) /\ X \in SUBSET SetC(t)
  BY <1>2 DEF KeptByScan, SetC
<1>4. PreferredSubset(t) = X
  BY <1>3, ScanDecides
<1> QED BY <1>3, <1>4, KeptIsMaximal, Zenon DEF SetC

\* A list without repetition that contradicts the background has the conflict
\* PreferredConflict names, and no less of it is one, if the background is consistent.
LEMMA PreferredConflictIsMinimal ==
    ASSUME NEW D, NEW t, t.c \in Seq(D), IsInjective(t.c), t.c # <<>>,
           ~Consistent(t.kb, t.b \cup SetC(t))
    PROVE  LET K == PreferredConflict(t) IN
           /\ K \in SUBSET SetC(t) /\ K # {}
           /\ ~Consistent(t.kb, t.b \cup K)
           /\ Consistent(t.kb, t.b) => \A x \in K : Consistent(t.kb, t.b \cup (K \ {x}))
<1>1. CASE ~Consistent(t.kb, t.b)
  <2>1. PreferredConflict(t) = {Last(t.c)}
    BY <1>1 DEF PreferredConflict
  <2>2. Last(t.c) \in SetC(t)
    <3>1. Len(t.c) \in Nat \ {0} /\ DOMAIN t.c = 1 .. Len(t.c)
      BY EmptySeq, LenProperties
    <3>2. Len(t.c) \in DOMAIN t.c
      BY <3>1
    <3> QED BY <3>2 DEF Last, SetC, Range
  <2>3. ~Consistent(t.kb, t.b \cup {Last(t.c)})
    <3>1. t.b \subseteq t.b \cup {Last(t.c)}
      OBVIOUS
    <3> QED BY <3>1, <1>1, Antimonotone
  <2> QED BY <2>1, <2>2, <2>3, <1>1
<1>2. CASE Consistent(t.kb, t.b)
  <2> DEFINE J == {q \in (DOMAIN t.c) \X (SUBSET Range(t.c)) :
                     Consistent(t.kb, t.b \cup
                         ((Range(t.c) \ (Earlier(t.c, q[1]) \ q[2])) \ {t.c[q[1]]}))}
  <2>1. PICK X \in SUBSET Range(t.c) :
            \A n \in DOMAIN t.c : t.c[n] \in X <=> <<n, Earlier(t.c, n) \cap X>> \in J
    <3> HIDE DEF J
    <3> QED BY LoopDecides
  <2>2. ASSUME NEW n \in DOMAIN t.c
        PROVE  t.c[n] \in X <=>
                 Consistent(t.kb, t.b \cup
                     ((Range(t.c) \ (Earlier(t.c, n) \ X)) \ {t.c[n]}))
    <3>1. /\ Earlier(t.c, n) \cap X \in SUBSET Range(t.c)
          /\ Earlier(t.c, n) \ (Earlier(t.c, n) \cap X) = Earlier(t.c, n) \ X
      OBVIOUS
    <3>2. <<n, Earlier(t.c, n) \cap X>> \in J <=>
              Consistent(t.kb, t.b \cup
                  ((Range(t.c) \ (Earlier(t.c, n) \ X)) \ {t.c[n]}))
      BY <3>1
    <3> QED BY <3>2, <2>1
  <2>3. LeftByScan(t.kb, t.b, t.c, X) /\ X \in SUBSET SetC(t)
    BY <2>2 DEF LeftByScan, SetC
  <2>4. PreferredConflict(t) = X
    BY <2>3, <1>2, ScanDecidesConflict
  <2>5. /\ ~Consistent(t.kb, t.b \cup X)
        /\ \A x \in X : Consistent(t.kb, t.b \cup (X \ {x}))
    BY <2>3, LeftIsMinimal, Zenon DEF SetC
  <2>6. X # {}
    <3>1. X = {} => t.b \cup X = t.b
      OBVIOUS
    <3> QED BY <3>1, <2>5, <1>2
  <2> QED BY <2>3, <2>4, <2>5, <2>6
<1> QED BY <1>1, <1>2

----------------------------------------------------------------------------
(* Lists the labelers make.                                                *)

\* The step of the loop of Where.
Among(s, S, f, n) ==
    IF n = 0 THEN <<>>
    ELSE IF s[n] \in S THEN Append(f[n - 1], s[n])
    ELSE f[n - 1]

\* A loop over a list that keeps those of its elements that are in S goes through.
LEMMA AmongExists ==
    ASSUME NEW k \in Nat, NEW s, NEW S
    PROVE  \E f : f = [n \in 0 .. k |-> Among(s, S, f, n)]
<1> DEFINE P == {m \in 0 .. k : \E f : f = [n \in 0 .. m |-> Among(s, S, f, n)]}
<1>1. 0 \in P
  <2> DEFINE f == [n \in 0 .. 0 |-> <<>>]
  <2>1. \A n \in 0 .. 0 : Among(s, S, f, n) = <<>>
    BY DEF Among
  <2>2. f = [n \in 0 .. 0 |-> Among(s, S, f, n)]
    BY <2>1
  <2>3. 0 \in 0 .. k
    OBVIOUS
  <2> HIDE DEF f
  <2> QED BY <2>2, <2>3
<1>2. ASSUME NEW m \in 0 .. k, m < k, m \in P
      PROVE  m + 1 \in P
  <2>1. PICK f : f = [n \in 0 .. m |-> Among(s, S, f, n)]
    BY <1>2
  <2> DEFINE g == [n \in 0 .. m + 1 |-> IF n = m + 1 THEN Among(s, S, f, n) ELSE f[n]]
  <2>2. \A n \in 0 .. m : g[n] = f[n]
    OBVIOUS
  <2>3. g[m + 1] = Among(s, S, f, m + 1)
    OBVIOUS
  <2>4. g = [n \in 0 .. m + 1 |-> g[n]]
    OBVIOUS
  <2> HIDE DEF g
  <2>5. ASSUME NEW n \in 0 .. m + 1
        PROVE  g[n] = Among(s, S, g, n)
    <3>1. n = 0 \/ n - 1 \in 0 .. m
      OBVIOUS
    <3>2. Among(s, S, g, n) = Among(s, S, f, n)
      BY <3>1, <2>2 DEF Among
    <3>3. n \in 0 .. m => f[n] = Among(s, S, f, n)
      BY <2>1
    <3>4. n \in 0 .. m \/ n = m + 1
      OBVIOUS
    <3> QED BY <3>2, <3>3, <3>4, <2>2, <2>3
  <2>6. g = [n \in 0 .. m + 1 |-> Among(s, S, g, n)]
    BY <2>4, <2>5
  <2>7. m + 1 \in 0 .. k
    BY <1>2
  <2> QED BY <2>6, <2>7
<1>3. k \in 0 .. k /\ 0 .. k \subseteq P
  <2> HIDE DEF P
  <2> QED BY <1>1, <1>2, UpTo
<1> QED BY <1>3

\* A sequence without repetition gets one more element.
LEMMA InjectiveAppend ==
    ASSUME NEW D, NEW s \in Seq(D), IsInjective(s), NEW x \in D, x \notin Range(s)
    PROVE  IsInjective(Append(s, x))
<1>1. PICK k \in Nat : Len(s) = k /\ DOMAIN s = 1 .. k
  BY LenProperties
<1>2. /\ DOMAIN Append(s, x) = 1 .. k + 1
      /\ \A i \in 1 .. k : Append(s, x)[i] = s[i]
      /\ Append(s, x)[k + 1] = x
  BY <1>1, AppendProperties, LenProperties
<1>3. \A i \in 1 .. k : s[i] # x
  BY <1>1 DEF Range
<1>4. \A i \in 1 .. k + 1 : i \in 1 .. k \/ i = k + 1
  BY <1>1
<1> QED BY <1>1, <1>2, <1>3, <1>4 DEF IsInjective

\* The elements of a list with one more.
LEMMA RangeAppend ==
    ASSUME NEW D, NEW s \in Seq(D), NEW x \in D
    PROVE  Range(Append(s, x)) = Range(s) \cup {x}
<1>1. PICK k \in Nat : Len(s) = k /\ DOMAIN s = 1 .. k
  BY LenProperties
<1>2. /\ DOMAIN Append(s, x) = 1 .. k + 1
      /\ \A i \in 1 .. k : Append(s, x)[i] = s[i]
      /\ Append(s, x)[k + 1] = x
  BY <1>1, AppendProperties, LenProperties
<1>3. 1 .. k + 1 = (1 .. k) \cup {k + 1}
  BY <1>1
<1> QED BY <1>1, <1>2, <1>3 DEF Range

\* The elements of a list that are in S: all of those, and in a list without repetition
\* each once.
LEMMA WhereProperties ==
    ASSUME NEW D, NEW s \in Seq(D), NEW S
    PROVE  /\ Where(s, S) \in Seq(D)
           /\ Range(Where(s, S)) = Range(s) \cap S
           /\ IsInjective(s) => IsInjective(Where(s, S))
<1>1. PICK k \in Nat : Len(s) = k /\ DOMAIN s = 1 .. k
  BY LenProperties
<1> DEFINE f == CHOOSE g : g = [n \in 0 .. Len(s) |-> Among(s, S, g, n)]
<1>2. Where(s, S) = f[Len(s)]
  BY DEF Where, Among
<1>3. f = [n \in 0 .. k |-> Among(s, S, f, n)]
  BY <1>1, AmongExists
<1> HIDE DEF f
<1> DEFINE Right(n) ==
             /\ f[n] \in Seq(D)
             /\ Range(f[n]) = Earlier(s, n + 1) \cap S
             /\ IsInjective(s) => IsInjective(f[n])
           P == {n \in 0 .. k : Right(n)}
<1>4. 0 \in P
  <2>1. f[0] = <<>> /\ 0 \in 0 .. k
    BY <1>3 DEF Among
  <2>2. <<>> \in Seq(D) /\ Range(<<>>) = {} /\ IsInjective(<<>>)
    BY DEF Range, IsInjective
  <2>3. Earlier(s, 0 + 1) = {}
    BY EarlierProperties
  <2> QED BY <2>1, <2>2, <2>3
<1>5. ASSUME NEW n \in 0 .. k, n < k, n \in P
      PROVE  n + 1 \in P
  <2> DEFINE m == n + 1
  <2>1. m \in DOMAIN s /\ m \in 0 .. k /\ m # 0 /\ m - 1 = n
    BY <1>1, <1>5
  <2>2. f[n] \in Seq(D) /\ Range(f[n]) = Earlier(s, m) \cap S
        /\ (IsInjective(s) => IsInjective(f[n]))
    BY <1>5
  <2>3. Earlier(s, m + 1) = Earlier(s, m) \cup {s[m]}
    BY <2>1, EarlierProperties
  <2>4. s[m] \in D
    BY <2>1, <1>1, ElementOfSeq
  <2>5. IsInjective(s) => s[m] \notin Earlier(s, m)
    BY <2>1, EarlierProperties
  <2> HIDE DEF m
  <2>6. f[m] = IF s[m] \in S THEN Append(f[n], s[m]) ELSE f[n]
    BY <1>3, <2>1 DEF Among
  <2>7. CASE s[m] \in S
    <3>1. f[m] = Append(f[n], s[m])
      BY <2>6, <2>7
    <3>2. Append(f[n], s[m]) \in Seq(D)
      BY <2>2, <2>4, AppendProperties
    <3>3. Range(f[m]) = Earlier(s, m + 1) \cap S
      BY <3>1, <2>2, <2>3, <2>4, <2>7, RangeAppend
    <3>4. IsInjective(s) => IsInjective(f[m])
      <4>1. IsInjective(s) => s[m] \notin Range(f[n])
        BY <2>2, <2>5
      <4> QED BY <4>1, <3>1, <2>2, <2>4, InjectiveAppend
    <3>5. Right(m)
      BY <3>1, <3>2, <3>3, <3>4
    <3> HIDE DEF Right
    <3> QED BY <3>5, <2>1 DEF m
  <2>8. CASE s[m] \notin S
    <3>1. f[m] = f[n] /\ Earlier(s, m + 1) \cap S = Earlier(s, m) \cap S
      BY <2>3, <2>6, <2>8
    <3>2. Right(m)
      BY <3>1, <2>2
    <3> HIDE DEF Right
    <3> QED BY <3>2, <2>1 DEF m
  <2> QED BY <2>7, <2>8
<1>6. Right(k)
  <2>1. k \in 0 .. k /\ 0 .. k \subseteq P
    <3> HIDE DEF P
    <3> QED BY <1>4, <1>5, UpTo
  <2> HIDE DEF Right
  <2> QED BY <2>1
<1>7. Earlier(s, k + 1) = Range(s)
  BY <1>1, EarlierProperties
<1> QED BY <1>1, <1>2, <1>6, <1>7

\* A list has a first place whose element is in S, if it has one.
LEMMA FirstProperties ==
    ASSUME NEW D, NEW s \in Seq(D), NEW S, Range(s) \cap S # {}
    PROVE  /\ First(s, S) \in 1 .. Len(s)
           /\ s[First(s, S)] \in S
           /\ \A j \in 1 .. Len(s) : s[j] \in S => First(s, S) <= j
<1>1. PICK k \in Nat : Len(s) = k /\ DOMAIN s = 1 .. k
  BY LenProperties
<1> DEFINE P == {i \in 1 .. k : s[i] \in S}
<1>2. P # {} /\ P \in SUBSET Nat
  BY <1>1 DEF Range
<1>3. PICK n \in P : \A m \in P : n <= m
  <2> HIDE DEF P
  <2> QED BY <1>2, LeastElement
<1>4. \A j \in 1 .. n - 1 : s[j] \notin S
  <2>1. \A j \in 1 .. n - 1 : j \in 1 .. k /\ ~(n <= j)
    BY <1>3
  <2> QED BY <2>1, <1>3
<1> DEFINE i == First(s, S)
<1>5. i \in DOMAIN s /\ s[i] \in S /\ \A j \in 1 .. i - 1 : s[j] \notin S
  <2>1. n \in DOMAIN s /\ s[n] \in S
    BY <1>1, <1>3
  <2> QED BY <2>1, <1>4 DEF First
<1> HIDE DEF i
<1>6. ASSUME NEW j \in 1 .. k, s[j] \in S
      PROVE  i <= j
  <2>1. ~(j \in 1 .. i - 1)
    BY <1>5, <1>6
  <2> QED BY <2>1, <1>1, <1>5
<1> QED BY <1>1, <1>5, <1>6 DEF i

\* A list turned round has the same elements.
LEMMA ReverseProperties ==
    ASSUME NEW D, NEW s \in Seq(D)
    PROVE  Reverse(s) \in Seq(D) /\ Range(Reverse(s)) = Range(s)
<1>1. PICK k \in Nat : Len(s) = k /\ DOMAIN s = 1 .. k /\ s \in [1 .. k -> D]
  BY LenProperties
<1>2. Reverse(s) = [i \in 1 .. k |-> s[(k - i) + 1]]
  BY <1>1 DEF Reverse
<1>3. \A i \in 1 .. k : (k - i) + 1 \in 1 .. k /\ (k - ((k - i) + 1)) + 1 = i
  BY <1>1
<1>4. Reverse(s) \in [1 .. k -> D]
  BY <1>1, <1>2, <1>3
<1>5. Reverse(s) \in Seq(D)
  BY <1>1, <1>4, SeqDef
<1>6. DOMAIN Reverse(s) = 1 .. k /\ \A i \in 1 .. k : Reverse(s)[i] = s[(k - i) + 1]
  BY <1>2
<1>7. \A i \in 1 .. k : s[i] = Reverse(s)[(k - i) + 1]
  BY <1>3, <1>6
<1>8. Range(Reverse(s)) \subseteq Range(s)
  BY <1>1, <1>3, <1>6 DEF Range
<1>9. Range(s) \subseteq Range(Reverse(s))
  BY <1>1, <1>3, <1>6, <1>7 DEF Range
<1> QED BY <1>5, <1>8, <1>9

----------------------------------------------------------------------------
(* What the labelers answer.                                               *)

\* The parts of parameters.
LEMMA ParametersTypes ==
    ASSUME NEW Literal, NEW p \in Parameters(Literal)
    PROVE  /\ p.labeler \in {"FastDiag", "QuickXPlain", "QuickXPlainWithTestCases", "KBDiag"}
           /\ p.kb \in SUBSET SUBSET Literal /\ {} \notin p.kb
           /\ p.c \in Seq(Literal) /\ SetC(p) \in SUBSET Literal
           /\ p.b \in SUBSET Literal
           /\ p.tc \in Seq(Literal) /\ Range(p.tc) \in SUBSET Literal
           /\ p.neg \in SUBSET Literal
           /\ p.labeler = "KBDiag" => p.tcp \in Seq(Literal)
           /\ p.labeler # "KBDiag" => p.at \in Literal \cup {NoTestCase}
<1>1. p.c \in Seq(Literal) /\ p.tc \in Seq(Literal)
  BY DEF Parameters
<1>2. SetC(p) \in SUBSET Literal /\ Range(p.tc) \in SUBSET Literal
  BY <1>1, RangeOfSeq DEF SetC
<1> QED BY <1>1, <1>2 DEF Parameters

\* A test case that fails keeps failing with more constraints.
LEMMA FailingMore ==
    ASSUME NEW p, NEW S, NEW T, S \subseteq T
    PROVE  FailingWith(p, S) \subseteq FailingWith(p, T)
<1>1. \A t : S \cup {t} \subseteq T \cup {t}
  OBVIOUS
<1> QED BY <1>1, Antimonotone DEF FailingWith

\* FastDiag finds a diagnosis exactly when the background is consistent and the
\* constraints are not, and a minimal one.
LEMMA FastDiagAnswers ==
    ASSUME NEW Literal, NEW p \in Parameters(Literal), IsInjective(p.c)
    PROVE  LET L == Range(FastDiagLabel(p))
               C == SetC(p)
           IN
           /\ FastDiagLabel(p) # <<>> <=>
                 Consistent(p.kb, p.b) /\ ~Consistent(p.kb, p.b \cup C)
           /\ FastDiagLabel(p) # <<>> =>
                 /\ FastDiagLabel(p) \in Seq(C)
                 /\ Consistent(p.kb, p.b \cup (C \ L))
                 /\ \A x \in L : ~Consistent(p.kb, p.b \cup (C \ (L \ {x})))
<1> DEFINE t == TaskWith(p, p.b)
           X == PreferredSubset(t)
           C == SetC(p)
           L == Range(FastDiagLabel(p))
<1>1. p.c \in Seq(Literal) /\ {} \notin p.kb
  BY ParametersTypes
<1>2. t.c = p.c /\ t.kb = p.kb /\ t.b = p.b /\ SetC(t) = C
  BY DEF TaskWith, SetC
<1>3. /\ X \in SUBSET C
      /\ Consistent(p.kb, p.b) =>
            /\ Consistent(p.kb, p.b \cup X)
            /\ \A x \in C \ X : ~Consistent(p.kb, p.b \cup X \cup {x})
  <2> HIDE DEF t
  <2> QED BY <1>1, <1>2, PreferredSubsetIsMaximal
<1> HIDE DEF X
<1>4. Consistent(p.kb, p.b) /\ ~Consistent(p.kb, p.b \cup C) => Len(p.c) >= 1
  <2>1. C = {} => p.b \cup C = p.b
    OBVIOUS
  <2>2. p.c # <<>> => Len(p.c) >= 1
    <3>1. p.c # <<>> => Len(p.c) \in Nat \ {0}
      BY <1>1, EmptySeq
    <3> QED BY <3>1
  <2>3. p.c = <<>> => C = {}
    BY <1>1, RangeProperties DEF SetC
  <2> QED BY <2>1, <2>2, <2>3, Zenon
<1>5. p.b = {} => Consistent(p.kb, p.b)
  BY <1>1 DEF Consistent
<1>6. FastDiagLabel(p) = IF Consistent(p.kb, p.b) /\ ~Consistent(p.kb, p.b \cup C)
                         THEN Where(p.c, C \ X) ELSE <<>>
  BY <1>4, <1>5, Zenon DEF FastDiagLabel, X
<1>7. p.c \in Seq(C)
  BY <1>1, SeqOfRange DEF SetC
<1>8. Where(p.c, C \ X) \in Seq(C) /\ Range(Where(p.c, C \ X)) = C \ X
  <2>1. C \cap (C \ X) = C \ X
    OBVIOUS
  <2> QED BY <1>7, <2>1, WhereProperties DEF SetC
<1>9. ASSUME Consistent(p.kb, p.b), ~Consistent(p.kb, p.b \cup C)
      PROVE  /\ FastDiagLabel(p) # <<>>
             /\ FastDiagLabel(p) \in Seq(C)
             /\ Consistent(p.kb, p.b \cup (C \ L))
             /\ \A x \in L : ~Consistent(p.kb, p.b \cup (C \ (L \ {x})))
  <2>1. FastDiagLabel(p) \in Seq(C) /\ L = C \ X
    BY <1>6, <1>8, <1>9
  <2>2. C \ L = X
    BY <2>1, <1>3
  <2>3. L # {}
    <3>1. L = {} => p.b \cup X = p.b \cup C
      BY <2>2, <1>3
    <3> QED BY <3>1, <1>3, <1>9
  <2>4. \A x \in L : p.b \cup (C \ (L \ {x})) = p.b \cup X \cup {x}
    BY <2>1, <2>2
  <2>5. FastDiagLabel(p) # <<>>
    <3>1. Range(<<>>) = {}
      BY DEF Range
    <3> HIDE DEF L
    <3> QED BY <3>1, <2>3 DEF L
  <2> QED BY <2>1, <2>2, <2>4, <2>5, <1>3, <1>9
<1> QED BY <1>6, <1>9, Zenon

\* QuickXPlain finds a conflict exactly when the constraints, if any, contradict the
\* background, and a minimal one on a consistent background.
LEMMA QuickXPlainAnswers ==
    ASSUME NEW Literal, NEW c \in Seq(Literal), IsInjective(c), c # <<>>, NEW kb, NEW b,
           ~Consistent(kb, b \cup Range(c))
    PROVE  LET l == Reverse(Where(c, PreferredConflict([kb |-> kb, c |-> c, b |-> b])))
               L == Range(l)
           IN
           /\ l \in Seq(Range(c)) /\ l # <<>>
           /\ ~Consistent(kb, b \cup L)
           /\ Consistent(kb, b) => \A x \in L : Consistent(kb, b \cup (L \ {x}))
<1> DEFINE t == [kb |-> kb, c |-> c, b |-> b]
           K == PreferredConflict(t)
           w == Where(c, K)
           l == Reverse(w)
<1>1. t.c = c /\ t.kb = kb /\ t.b = b /\ SetC(t) = Range(c)
  BY DEF SetC
<1> HIDE DEF t
<1>2. /\ K \in SUBSET Range(c) /\ K # {}
      /\ ~Consistent(kb, b \cup K)
      /\ Consistent(kb, b) => \A x \in K : Consistent(kb, b \cup (K \ {x}))
  BY <1>1, PreferredConflictIsMinimal
<1> HIDE DEF K
<1>3. w \in Seq(Range(c)) /\ Range(w) = K
  <2>1. c \in Seq(Range(c))
    BY SeqOfRange
  <2>2. Range(c) \cap K = K
    BY <1>2
  <2> QED BY <2>1, <2>2, WhereProperties
<1> HIDE DEF w
<1>4. l \in Seq(Range(c)) /\ Range(l) = K
  BY <1>3, ReverseProperties
<1>5. l # <<>>
  BY <1>2, <1>4, RangeProperties
<1> QED BY <1>2, <1>4, <1>5 DEF w, K, t

\* QuickXPlainWithTestCases selects a test case exactly when the constraints, if any,
\* contradict one, and none contradicts the negated ones alone: the first they do.
LEMMA FailingTestCaseIsFirst ==
    ASSUME NEW Literal, NoTestCase \notin Literal, NEW p \in Parameters(Literal)
    PROVE  LET failing == FailingWith(p, p.b \cup p.neg \cup SetC(p))
               i == First(p.tc, failing)
           IN
           /\ FailingTestCase(p) # NoTestCase <=>
                 /\ p.c # <<>>
                 /\ p.neg = {} \/ FailingWith(p, p.neg) = {}
                 /\ failing # {}
           /\ FailingTestCase(p) # NoTestCase =>
                 /\ i \in 1 .. Len(p.tc)
                 /\ FailingTestCase(p) = p.tc[i]
                 /\ FailingTestCase(p) \in failing
                 /\ \A j \in 1 .. Len(p.tc) : p.tc[j] \in failing => i <= j
<1> DEFINE failing == FailingWith(p, p.b \cup p.neg \cup SetC(p))
           i == First(p.tc, failing)
           none == \/ p.c = <<>>
                   \/ p.neg # {} /\ FailingWith(p, p.neg) # {}
                   \/ failing = {}
<1>1. p.tc \in Seq(Literal) /\ Range(p.tc) \in SUBSET Literal
  BY ParametersTypes
<1>2. FailingTestCase(p) = IF none THEN NoTestCase ELSE p.tc[i]
  BY DEF FailingTestCase
<1>3. failing \subseteq Range(p.tc)
  BY DEF FailingWith
<1> HIDE DEF failing
<1>4. failing # {} => /\ i \in 1 .. Len(p.tc)
                      /\ p.tc[i] \in failing
                      /\ \A j \in 1 .. Len(p.tc) : p.tc[j] \in failing => i <= j
  <2>1. failing # {} => Range(p.tc) \cap failing # {}
    BY <1>3
  <2> HIDE DEF i
  <2> QED BY <2>1, <1>1, FirstProperties DEF i
<1>5. failing # {} => p.tc[i] # NoTestCase
  BY <1>1, <1>3, <1>4
<1> HIDE DEF i
<1> QED BY <1>2, <1>4, <1>5 DEF failing, i

\* QuickXPlainWithTestCases finds a conflict exactly when it selects a test case, and
\* one that contradicts it.
LEMMA TestCaseAnswers ==
    ASSUME NEW Literal, NoTestCase \notin Literal, NEW p \in Parameters(Literal),
           IsInjective(p.c)
    PROVE  LET label == QuickXPlainWithTestCasesLabel(p) IN
           /\ label # <<>> <=> FailingTestCase(p) # NoTestCase
           /\ label # <<>> =>
                 /\ label \in Seq(SetC(p))
                 /\ FailingTestCase(p) \in
                        FailingWith(p, p.b \cup p.neg \cup Range(label))
<1> DEFINE t == FailingTestCase(p)
           label == QuickXPlainWithTestCasesLabel(p)
           b == p.b \cup p.neg \cup {t}
<1>1. CASE t = NoTestCase
  BY <1>1 DEF QuickXPlainWithTestCasesLabel
<1>2. CASE t # NoTestCase
  <2>1. p.c # <<>> /\ t \in FailingWith(p, p.b \cup p.neg \cup SetC(p))
    BY <1>2, FailingTestCaseIsFirst
  <2>2. t \in Range(p.tc) /\ ~Consistent(p.kb, (p.b \cup p.neg \cup SetC(p)) \cup {t})
    BY <2>1 DEF FailingWith
  <2>3. (p.b \cup p.neg \cup SetC(p)) \cup {t} = b \cup Range(p.c)
    BY DEF SetC
  <2>4. p.c \in Seq(Literal)
    BY ParametersTypes
  <2>5. label = Reverse(Where(p.c, PreferredConflict([kb |-> p.kb, c |-> p.c, b |-> b])))
    BY <1>2 DEF QuickXPlainWithTestCasesLabel, TaskWith
  <2> HIDE DEF t, b, label
  <2>6. label \in Seq(Range(p.c)) /\ label # <<>> /\ ~Consistent(p.kb, b \cup Range(label))
    BY <2>1, <2>2, <2>3, <2>4, <2>5, QuickXPlainAnswers
  <2>7. b \cup Range(label) = (p.b \cup p.neg \cup Range(label)) \cup {t}
    BY DEF b
  <2>8. t \in FailingWith(p, p.b \cup p.neg \cup Range(label))
    BY <2>2, <2>6, <2>7 DEF FailingWith
  <2> QED BY <1>2, <2>6, <2>8 DEF t, label, SetC
<1> QED BY <1>1, <1>2

\* KBDiag finds test cases to diagnose exactly when the constraints contradict some and
\* none contradicts the negated ones alone: those.
LEMMA FailingTestCasesAre ==
    ASSUME NEW Literal, NEW p \in Parameters(Literal), p.neg = {}
    PROVE  /\ FailingTestCases(p) \in Seq(Literal)
           /\ Range(FailingTestCases(p)) = FailingWith(p, p.b \cup SetC(p))
           /\ FailingTestCases(p) # <<>> <=> FailingWith(p, p.b \cup SetC(p)) # {}
<1>1. p.tc \in Seq(Literal)
  BY ParametersTypes
<1>2. p.b \cup p.neg \cup SetC(p) = p.b \cup SetC(p)
  OBVIOUS
<1>3. FailingTestCases(p) = Where(p.tc, FailingWith(p, p.b \cup SetC(p)))
  BY <1>2 DEF FailingTestCases
<1>4. Range(p.tc) \cap FailingWith(p, p.b \cup SetC(p)) = FailingWith(p, p.b \cup SetC(p))
  BY DEF FailingWith
<1>5. FailingTestCases(p) \in Seq(Literal)
      /\ Range(FailingTestCases(p)) = FailingWith(p, p.b \cup SetC(p))
  <2> DEFINE failing == FailingWith(p, p.b \cup SetC(p))
  <2> HIDE DEF failing
  <2>1. Where(p.tc, failing) \in Seq(Literal)
        /\ Range(Where(p.tc, failing)) = Range(p.tc) \cap failing
    BY <1>1, WhereProperties
  <2> QED BY <2>1, <1>3, <1>4, Zenon DEF failing
<1> QED BY <1>5, RangeProperties

\* KBDiag finds a diagnosis exactly when it finds such test cases, and one that makes
\* the constraints consistent with each.
LEMMA KBDiagAnswers ==
    ASSUME NEW Literal, NEW p \in Parameters(Literal), IsInjective(p.c), p.neg = {},
           KBDiagnosable(p) => FailingWith(p, p.b) = {}
    PROVE  LET C == SetC(p)
               L == Range(KBDiagLabel(p))
           IN
           /\ KBDiagLabel(p) # <<>> <=>
                 KBDiagnosable(p) /\ FailingWith(p, p.b \cup C) # {}
           /\ KBDiagLabel(p) # <<>> =>
                 KBDiagLabel(p) \in Seq(C) /\ FailingWith(p, p.b \cup (C \ L)) = {}
<1> DEFINE t == [kb |-> {k \ {x} : k \in p.kb, x \in Range(p.tc)},
                 c |-> p.c, b |-> p.b \cup p.neg]
           C == SetC(p)
           X == PreferredSubset(t)
<1>1. p.c \in Seq(Literal)
  BY ParametersTypes
<1>2. /\ t.c = p.c /\ t.b = p.b /\ SetC(t) = C
      /\ t.kb = {k \ {x} : k \in p.kb, x \in Range(p.tc)}
  BY DEF SetC
<1>3. \A S : Consistent(t.kb, S) <=> FailingWith(p, S) = {}
  <2> SUFFICES ASSUME NEW S
               PROVE  Consistent(t.kb, S) <=> FailingWith(p, S) = {}
    OBVIOUS
  <2>1. \A k, x : k \ {x} \subseteq S <=> k \subseteq S \cup {x}
    OBVIOUS
  <2>2. Consistent(t.kb, S) <=> \A k \in p.kb, x \in Range(p.tc) : ~(k \ {x} \subseteq S)
    <3> DEFINE kbs == {k \ {x} : k \in p.kb, x \in Range(p.tc)}
    <3>1. \A k \in p.kb, x \in Range(p.tc) : k \ {x} \in kbs
      OBVIOUS
    <3>2. \A l \in kbs : \E k \in p.kb, x \in Range(p.tc) : l = k \ {x}
      OBVIOUS
    <3>3. t.kb = kbs
      BY <1>2
    <3> HIDE DEF t, kbs
    <3>4. Consistent(t.kb, S) <=> \A l \in kbs : ~(l \subseteq S)
      BY <3>3 DEF Consistent
    <3> QED BY <3>1, <3>2, <3>4
  <2>3. FailingWith(p, S) = {} <=>
            \A x \in Range(p.tc) : \A k \in p.kb : ~(k \subseteq S \cup {x})
    BY DEF FailingWith, Consistent
  <2> HIDE DEF t
  <2> QED BY <2>1, <2>2, <2>3
<1>4. KBDiagLabel(p) = IF ~KBDiagnosable(p) \/ FailingTestCases(p) = <<>> THEN <<>>
                       ELSE Where(p.c, C \ X)
  BY DEF KBDiagLabel
<1> HIDE DEF t
<1>5. X \in SUBSET C /\ (KBDiagnosable(p) => Consistent(t.kb, p.b \cup X))
  BY <1>1, <1>2, <1>3, PreferredSubsetIsMaximal
<1> HIDE DEF X
<1>6. FailingTestCases(p) # <<>> <=> FailingWith(p, p.b \cup C) # {}
  BY FailingTestCasesAre
<1>7. Where(p.c, C \ X) \in Seq(C) /\ Range(Where(p.c, C \ X)) = C \ X
  <2>1. C \cap (C \ X) = C \ X
    OBVIOUS
  <2>2. p.c \in Seq(C)
    BY <1>1, SeqOfRange DEF SetC
  <2> QED BY <2>1, <2>2, WhereProperties DEF SetC
<1>8. ASSUME KBDiagnosable(p), FailingWith(p, p.b \cup C) # {}
      PROVE  /\ KBDiagLabel(p) # <<>> /\ KBDiagLabel(p) \in Seq(C)
             /\ FailingWith(p, p.b \cup (C \ Range(KBDiagLabel(p)))) = {}
  <2>1. KBDiagLabel(p) = Where(p.c, C \ X)
    BY <1>4, <1>6, <1>8
  <2>2. C \ Range(KBDiagLabel(p)) = X
    BY <2>1, <1>5, <1>7
  <2>3. FailingWith(p, p.b \cup X) = {}
    BY <1>3, <1>5, <1>8
  <2>4. C \ X # {}
    <3>1. C \ X = {} => X = C
      BY <1>5
    <3> QED BY <3>1, <2>3, <1>8
  <2>5. Where(p.c, C \ X) # <<>>
    BY <2>4, <1>7, RangeProperties
  <2> QED BY <2>1, <2>2, <2>3, <2>5, <1>7
<1>9. KBDiagLabel(p) # <<>> => KBDiagnosable(p) /\ FailingWith(p, p.b \cup C) # {}
  BY <1>4, <1>6
<1> QED BY <1>8, <1>9, Zenon

----------------------------------------------------------------------------
(* The parameters along a search.                                          *)

\* The parameters of a node, whatever they describe: a test case written into them is
\* one of theirs.
AnyNode(Literal, p) ==
    /\ NoTestCase \notin Literal
    /\ p \in Parameters(Literal)
    /\ IsInjective(p.c)
    /\ p.labeler # "KBDiag" => p.at = NoTestCase \/ p.at \in Range(p.tc)

\* A label is made of their C.
LEMMA LabelOfStays ==
    ASSUME NEW Literal, NEW p, AnyNode(Literal, p)
    PROVE  LabelOf(p) \in Seq(Range(p.c))
<1>1. p \in Parameters(Literal)
  BY DEF AnyNode
<1>2. p.c \in Seq(Range(p.c)) /\ <<>> \in Seq(Range(p.c))
  BY <1>1, ParametersTypes, SeqOfRange, EmptySeq
<1>3. \A S : /\ Where(p.c, S) \in Seq(Range(p.c))
            /\ Reverse(Where(p.c, S)) \in Seq(Range(p.c))
  BY <1>2, WhereProperties, ReverseProperties
<1>4. p.labeler \in {"FastDiag", "QuickXPlain", "QuickXPlainWithTestCases", "KBDiag"}
  BY <1>1, ParametersTypes
<1>5. CASE p.labeler = "FastDiag"
  BY <1>2, <1>3, <1>5 DEF LabelOf, FastDiagLabel
<1>6. CASE p.labeler = "QuickXPlain"
  BY <1>2, <1>3, <1>6 DEF LabelOf, QuickXPlainLabel
<1>7. CASE p.labeler = "QuickXPlainWithTestCases"
  BY <1>2, <1>3, <1>7 DEF LabelOf, QuickXPlainWithTestCasesLabel
<1>8. CASE p.labeler = "KBDiag"
  <2> DEFINE each == [kb |-> {k \ {x} : k \in p.kb, x \in Range(p.tc)},
                      c |-> p.c, b |-> p.b \cup p.neg]
             none == ~KBDiagnosable(p) \/ FailingTestCases(p) = <<>>
             D == SetC(p) \ PreferredSubset(each)
  <2>1. KBDiagLabel(p) = IF none THEN <<>> ELSE Where(p.c, D)
    BY DEF KBDiagLabel
  <2> HIDE DEF none, D
  <2>2. LabelOf(p) = KBDiagLabel(p)
    BY <1>8 DEF LabelOf
  <2> QED BY <2>1, <2>2, <1>2, <1>3
<1> QED BY <1>4, <1>5, <1>6, <1>7, <1>8

\* What get_label writes into them leaves C alone.
LEMMA AfterLabelStays ==
    ASSUME NEW Literal, NEW p, AnyNode(Literal, p)
    PROVE  AnyNode(Literal, AfterLabel(p)) /\ AfterLabel(p).c = p.c
<1> DEFINE q == AfterLabel(p)
<1>1. p \in Parameters(Literal) /\ NoTestCase \notin Literal /\ p.tc \in Seq(Literal)
  BY ParametersTypes DEF AnyNode
<1>2. CASE p.labeler = "QuickXPlainWithTestCases"
  <2>1. q = [p EXCEPT !.at = FailingTestCase(p)]
    BY <1>2 DEF AfterLabel
  <2>2. /\ FailingTestCase(p) = NoTestCase \/ FailingTestCase(p) \in Range(p.tc)
        /\ Range(p.tc) \in SUBSET Literal
    BY <1>1, FailingTestCaseIsFirst, ParametersTypes DEF FailingWith
  <2> HIDE DEF q
  <2>3. /\ q \in Parameters(Literal)
        /\ q.labeler = p.labeler /\ q.c = p.c /\ q.tc = p.tc /\ q.at = FailingTestCase(p)
    BY <2>1, <2>2, <1>1, <1>2 DEF Parameters
  <2> QED BY <2>2, <2>3 DEF AnyNode, q
<1>3. CASE p.labeler = "KBDiag" /\ KBDiagnosable(p)
  <2>1. q = [p EXCEPT !.tcp = FailingTestCases(p)]
    BY <1>3 DEF AfterLabel
  <2>2. FailingTestCases(p) \in Seq(Literal)
    BY <1>1, EmptySeq, WhereProperties DEF FailingTestCases
  <2> HIDE DEF q
  <2>3. q \in Parameters(Literal) /\ q.labeler = p.labeler /\ q.c = p.c
    BY <2>1, <2>2, <1>1, <1>3 DEF Parameters
  <2> QED BY <2>3, <1>3 DEF AnyNode, q
<1>4. CASE ~(p.labeler = "QuickXPlainWithTestCases" \/ (p.labeler = "KBDiag" /\ KBDiagnosable(p)))
  <2>1. q = p
    BY <1>4 DEF AfterLabel
  <2> HIDE DEF q
  <2> QED BY <2>1 DEF q
<1> QED BY <1>2, <1>3, <1>4

\* The parameters of a node of a search that is right: what get_label wrote into them is
\* what it finds, and only the background of a diagnosis labeler, below the root,
\* contradicts itself or a test case.
AtNode(Literal, p) ==
    /\ NoTestCase \notin Literal
    /\ p \in Parameters(Literal)
    /\ IsInjective(p.c)
    /\ p.labeler \in {"FastDiag", "QuickXPlain"} => p.at = NoTestCase
    /\ p.labeler = "QuickXPlainWithTestCases" => p.at \in {NoTestCase, FailingTestCase(p)}
    /\ p.labeler = "KBDiag" =>
         /\ p.neg = {}
         /\ p.tcp = <<>> \/ (KBDiagnosable(p) /\ p.tcp = FailingTestCases(p))
    /\ TypeOf(p) = "CONFLICT" \/ p.b = {} => ~Refuted(p, {})

\* Such parameters are some.
LEMMA AtNodeIsAny ==
    ASSUME NEW Literal, NEW p, AtNode(Literal, p)
    PROVE  AnyNode(Literal, p)
<1>1. p \in Parameters(Literal) /\ NoTestCase \notin Literal
  BY DEF AtNode
<1>2. FailingTestCase(p) = NoTestCase \/ FailingTestCase(p) \in Range(p.tc)
  BY <1>1, FailingTestCaseIsFirst DEF FailingWith
<1>3. p.labeler \in {"FastDiag", "QuickXPlain", "QuickXPlainWithTestCases", "KBDiag"}
  BY <1>1, ParametersTypes
<1> QED BY <1>2, <1>3 DEF AtNode, AnyNode

\* KBDiag only looks for a diagnosis on a background no test case contradicts.
LEMMA KBDiagBackground ==
    ASSUME NEW Literal, NEW p, AtNode(Literal, p), p.labeler = "KBDiag", KBDiagnosable(p)
    PROVE  FailingWith(p, p.b) = {}
<1>1. p.b \cup p.neg \cup {} = p.b
  BY DEF AtNode
<1>2. Refuted(p, {}) <=> FailingWith(p, p.b) # {}
  BY <1>1 DEF Refuted
<1> QED BY <1>2 DEF AtNode, KBDiagnosable

\* A label for the parameters of a node is a conflict (a diagnosis) of what they
\* describe, minimal for QuickXPlain and FastDiag.
LEMMA LabelOfIsRight ==
    ASSUME NEW Literal, NEW p, AtNode(Literal, p), LabelOf(p) # <<>>
    PROVE  LET L == Range(LabelOf(p))
               C == Range(p.c)
               minimal == p.labeler \in {"QuickXPlain", "FastDiag"}
           IN
           /\ LabelOf(p) \in Seq(C)
           /\ IF TypeOf(p) = "CONFLICT"
              THEN /\ Refuted(p, L)
                   /\ minimal => \A x \in L : ~Refuted(p, L \ {x})
              ELSE /\ Refuted(p, C)
                   /\ ~Refuted(p, C \ L)
                   /\ minimal => \A x \in L : Refuted(p, C \ (L \ {x}))
<1> DEFINE L == Range(LabelOf(p))
           C == Range(p.c)
<1>1. /\ NoTestCase \notin Literal /\ p \in Parameters(Literal) /\ IsInjective(p.c)
      /\ SetC(p) = C
  BY DEF AtNode, SetC
<1>2. p.labeler \in {"FastDiag", "QuickXPlain", "QuickXPlainWithTestCases", "KBDiag"}
  BY <1>1, ParametersTypes
<1>3. CASE p.labeler = "FastDiag"
  <2>1. LabelOf(p) = FastDiagLabel(p) /\ TypeOf(p) = "DIAGNOSIS"
    BY <1>3 DEF LabelOf, TypeOf
  <2>2. \A S : Refuted(p, S) <=> ~Consistent(p.kb, p.b \cup S)
    BY <1>3 DEF Refuted
  <2>3. /\ LabelOf(p) \in Seq(C)
        /\ ~Consistent(p.kb, p.b \cup C)
        /\ Consistent(p.kb, p.b \cup (C \ L))
        /\ \A x \in L : ~Consistent(p.kb, p.b \cup (C \ (L \ {x})))
    BY <2>1, <1>1, FastDiagAnswers
  <2> QED BY <2>1, <2>2, <2>3
<1>4. CASE p.labeler = "QuickXPlain"
  <2>1. LabelOf(p) = QuickXPlainLabel(p) /\ TypeOf(p) = "CONFLICT"
    BY <1>4 DEF LabelOf, TypeOf
  <2>2. \A S : Refuted(p, S) <=> ~Consistent(p.kb, p.b \cup S)
    BY <1>4 DEF Refuted
  <2>3. p.c \in Seq(Literal) /\ Consistent(p.kb, p.b)
    <3>1. p.b \cup {} = p.b
      OBVIOUS
    <3>2. ~Refuted(p, {})
      BY <2>1 DEF AtNode
    <3> QED BY <3>1, <3>2, <2>2, <1>1, ParametersTypes
  <2>4. /\ Len(p.c) # 0 /\ ~Consistent(p.kb, p.b \cup C)
        /\ LabelOf(p) = Reverse(Where(p.c, PreferredConflict([kb |-> p.kb, c |-> p.c, b |-> p.b])))
    BY <2>1, <1>1 DEF QuickXPlainLabel, TaskWith
  <2>5. p.c # <<>>
    BY <2>4
  <2>6. /\ LabelOf(p) \in Seq(C)
        /\ ~Consistent(p.kb, p.b \cup L)
        /\ \A x \in L : Consistent(p.kb, p.b \cup (L \ {x}))
    <3> DEFINE l == Reverse(Where(p.c, PreferredConflict([kb |-> p.kb, c |-> p.c, b |-> p.b])))
    <3>1. /\ l \in Seq(C)
          /\ ~Consistent(p.kb, p.b \cup Range(l))
          /\ \A x \in Range(l) : Consistent(p.kb, p.b \cup (Range(l) \ {x}))
      BY <2>3, <2>4, <2>5, <1>1, QuickXPlainAnswers
    <3> QED BY <3>1, <2>4, Zenon
  <2> QED BY <2>1, <2>2, <2>6
<1>5. CASE p.labeler = "QuickXPlainWithTestCases"
  <2>1. LabelOf(p) = QuickXPlainWithTestCasesLabel(p) /\ TypeOf(p) = "CONFLICT"
    BY <1>5 DEF LabelOf, TypeOf
  <2>2. LabelOf(p) \in Seq(C) /\ FailingWith(p, p.b \cup p.neg \cup L) # {}
    BY <2>1, <1>1, TestCaseAnswers
  <2> QED BY <2>1, <2>2, <1>5 DEF Refuted
<1>6. CASE p.labeler = "KBDiag"
  <2>1. LabelOf(p) = KBDiagLabel(p) /\ TypeOf(p) = "DIAGNOSIS" /\ p.neg = {}
    BY <1>6 DEF LabelOf, TypeOf, AtNode
  <2>2. \A S : Refuted(p, S) <=> FailingWith(p, p.b \cup S) # {}
    <3>1. \A S : p.b \cup p.neg \cup S = p.b \cup S
      BY <2>1
    <3> QED BY <3>1, <1>6 DEF Refuted
  <2>3. /\ LabelOf(p) \in Seq(C)
        /\ FailingWith(p, p.b \cup C) # {}
        /\ FailingWith(p, p.b \cup (C \ L)) = {}
    BY <2>1, <1>1, <1>6, KBDiagBackground, KBDiagAnswers
  <2> QED BY <2>1, <2>2, <2>3, <1>6
<1> QED BY <1>2, <1>3, <1>4, <1>5, <1>6

\* Parameters of a node that get_label finds no label for describe no conflict (for
\* FastDiag no diagnosis).
LEMMA NoLabelOfIsRight ==
    ASSUME NEW Literal, NEW p, AtNode(Literal, p), LabelOf(p) = <<>>
    PROVE  /\ TypeOf(p) = "CONFLICT" => ~Refuted(p, Range(p.c))
           /\ p.labeler = "FastDiag" => Refuted(p, {}) \/ ~Refuted(p, Range(p.c))
<1> DEFINE C == Range(p.c)
<1>1. /\ NoTestCase \notin Literal /\ p \in Parameters(Literal) /\ IsInjective(p.c)
      /\ SetC(p) = C /\ p.c \in Seq(Literal)
  BY ParametersTypes DEF AtNode, SetC
<1>2. p.labeler \in {"FastDiag", "QuickXPlain", "QuickXPlainWithTestCases", "KBDiag"}
  BY <1>1, ParametersTypes
<1>3. CASE p.labeler = "FastDiag"
  <2>1. LabelOf(p) = FastDiagLabel(p) /\ TypeOf(p) = "DIAGNOSIS"
    BY <1>3 DEF LabelOf, TypeOf
  <2>2. \A S : Refuted(p, S) <=> ~Consistent(p.kb, p.b \cup S)
    BY <1>3 DEF Refuted
  <2>3. p.b \cup {} = p.b
    OBVIOUS
  <2>4. ~Consistent(p.kb, p.b) \/ Consistent(p.kb, p.b \cup C)
    BY <2>1, <1>1, FastDiagAnswers
  <2> QED BY <2>1, <2>2, <2>3, <2>4
<1>4. ASSUME TypeOf(p) = "CONFLICT", p.c = <<>>
      PROVE  ~Refuted(p, C)
  <2>1. C = {}
    BY <1>1, <1>4, RangeProperties
  <2> QED BY <2>1, <1>4 DEF AtNode
<1>5. CASE p.labeler = "QuickXPlain"
  <2>1. LabelOf(p) = QuickXPlainLabel(p) /\ TypeOf(p) = "CONFLICT"
    BY <1>5 DEF LabelOf, TypeOf
  <2>2. ASSUME p.c # <<>>, ~Consistent(p.kb, p.b \cup C)
        PROVE  FALSE
    <3>1. LabelOf(p) = Reverse(Where(p.c, PreferredConflict([kb |-> p.kb, c |-> p.c, b |-> p.b])))
      <4>1. Len(p.c) # 0
        BY <2>2, <1>1, EmptySeq
      <4> QED BY <4>1, <2>1, <2>2, <1>1 DEF QuickXPlainLabel, TaskWith
    <3> QED BY <3>1, <2>2, <1>1, QuickXPlainAnswers
  <2> QED BY <2>1, <2>2, <1>4, <1>5 DEF Refuted
<1>6. CASE p.labeler = "QuickXPlainWithTestCases"
  <2>1. LabelOf(p) = QuickXPlainWithTestCasesLabel(p) /\ TypeOf(p) = "CONFLICT"
    BY <1>6 DEF LabelOf, TypeOf
  <2>2. FailingTestCase(p) = NoTestCase
    BY <2>1, <1>1, TestCaseAnswers
  <2>3. \A S : Refuted(p, S) <=> FailingWith(p, p.b \cup p.neg \cup S) # {}
    BY <1>6 DEF Refuted
  <2>4. FailingWith(p, p.neg) = {}
    <3>1. p.neg \subseteq p.b \cup p.neg \cup {}
      OBVIOUS
    <3>2. FailingWith(p, p.b \cup p.neg \cup {}) = {}
      BY <2>1, <2>3 DEF AtNode
    <3> QED BY <3>1, <3>2, FailingMore
  <2>5. p.c = <<>> \/ FailingWith(p, p.b \cup p.neg \cup C) = {}
    BY <2>2, <2>4, <1>1, FailingTestCaseIsFirst
  <2> QED BY <2>1, <2>3, <2>5, <1>4, <1>6
<1>7. CASE p.labeler = "KBDiag"
  BY <1>7 DEF TypeOf
<1> QED BY <1>2, <1>3, <1>5, <1>6, <1>7

\* Parameters that differ in what get_label wrote into them describe the same.
LEMMA WrittenOver ==
    ASSUME NEW p, NEW q, q.labeler = p.labeler, q.kb = p.kb, q.c = p.c, q.b = p.b,
           q.tc = p.tc, q.neg = p.neg
    PROVE  /\ TypeOf(q) = TypeOf(p)
           /\ LabelOf(q) = LabelOf(p)
           /\ FailingTestCase(q) = FailingTestCase(p)
           /\ FailingTestCases(q) = FailingTestCases(p)
           /\ KBDiagnosable(q) <=> KBDiagnosable(p)
           /\ \A S : Refuted(q, S) <=> Refuted(p, S)
<1>1. \A S : FailingWith(q, S) = FailingWith(p, S)
  BY DEF FailingWith
<1>2. SetC(q) = SetC(p) /\ \A b : TaskWith(q, b) = TaskWith(p, b)
  BY DEF SetC, TaskWith
<1>3. FailingTestCase(q) = FailingTestCase(p)
  BY <1>1, <1>2 DEF FailingTestCase
<1>4. FailingTestCases(q) = FailingTestCases(p)
  BY <1>1, <1>2 DEF FailingTestCases
<1>5. KBDiagnosable(q) = KBDiagnosable(p)
  BY <1>1 DEF KBDiagnosable
<1>6. FastDiagLabel(q) = FastDiagLabel(p)
  BY <1>2 DEF FastDiagLabel
<1>7. QuickXPlainLabel(q) = QuickXPlainLabel(p)
  BY <1>2 DEF QuickXPlainLabel
<1>8. QuickXPlainWithTestCasesLabel(q) = QuickXPlainWithTestCasesLabel(p)
  BY <1>2, <1>3 DEF QuickXPlainWithTestCasesLabel
<1>9. KBDiagLabel(q) = KBDiagLabel(p)
  BY <1>2, <1>4, <1>5 DEF KBDiagLabel
<1>10. LabelOf(q) = LabelOf(p)
  BY <1>6, <1>7, <1>8, <1>9 DEF LabelOf
<1>11. \A S : Refuted(q, S) <=> Refuted(p, S)
  BY <1>1 DEF Refuted
<1> QED BY <1>3, <1>4, <1>5, <1>10, <1>11 DEF TypeOf

\* What get_label writes into the parameters of a node changes nothing they describe,
\* and is what it finds.
LEMMA AfterLabelIsRight ==
    ASSUME NEW Literal, NEW p, AtNode(Literal, p)
    PROVE  LET q == AfterLabel(p) IN
           /\ AtNode(Literal, q)
           /\ TypeOf(q) = TypeOf(p) /\ q.labeler = p.labeler /\ LabelOf(q) = LabelOf(p)
           /\ q.c = p.c
           /\ \A S : Refuted(q, S) <=> Refuted(p, S)
<1> DEFINE q == AfterLabel(p)
<1>1. p \in Parameters(Literal) /\ NoTestCase \notin Literal
  BY DEF AtNode
<1>2. CASE p.labeler = "QuickXPlainWithTestCases"
  <2>1. q = [p EXCEPT !.at = FailingTestCase(p)]
    BY <1>2 DEF AfterLabel
  <2>2. FailingTestCase(p) \in Literal \cup {NoTestCase}
    <3>1. FailingTestCase(p) # NoTestCase => FailingTestCase(p) \in Range(p.tc)
      BY <1>1, FailingTestCaseIsFirst DEF FailingWith
    <3> QED BY <3>1, <1>1, ParametersTypes
  <2> HIDE DEF q
  <2>3. /\ q \in Parameters(Literal)
        /\ q.labeler = p.labeler /\ q.kb = p.kb /\ q.c = p.c /\ q.b = p.b
        /\ q.tc = p.tc /\ q.neg = p.neg /\ q.at = FailingTestCase(p)
    BY <2>1, <2>2, <1>1, <1>2 DEF Parameters
  <2>4. /\ TypeOf(q) = TypeOf(p) /\ LabelOf(q) = LabelOf(p)
        /\ FailingTestCase(q) = FailingTestCase(p)
        /\ \A S : Refuted(q, S) <=> Refuted(p, S)
    BY <2>3, WrittenOver
  <2>5. AtNode(Literal, q)
    BY <2>3, <2>4, <1>2 DEF AtNode
  <2> QED BY <2>3, <2>4, <2>5 DEF q
<1>3. CASE p.labeler = "KBDiag" /\ KBDiagnosable(p)
  <2>1. q = [p EXCEPT !.tcp = FailingTestCases(p)]
    BY <1>3 DEF AfterLabel
  <2>2. FailingTestCases(p) \in Seq(Literal)
    BY <1>1, <1>3, FailingTestCasesAre DEF AtNode
  <2> HIDE DEF q
  <2>3. /\ q \in Parameters(Literal)
        /\ q.labeler = p.labeler /\ q.kb = p.kb /\ q.c = p.c /\ q.b = p.b
        /\ q.tc = p.tc /\ q.neg = p.neg /\ q.tcp = FailingTestCases(p)
    BY <2>1, <2>2, <1>1, <1>3 DEF Parameters
  <2>4. /\ TypeOf(q) = TypeOf(p) /\ LabelOf(q) = LabelOf(p)
        /\ FailingTestCases(q) = FailingTestCases(p) /\ KBDiagnosable(q)
        /\ \A S : Refuted(q, S) <=> Refuted(p, S)
    BY <2>3, <1>3, WrittenOver
  <2>5. AtNode(Literal, q)
    BY <2>3, <2>4, <1>3 DEF AtNode
  <2> QED BY <2>3, <2>4, <2>5 DEF q
<1>4. CASE ~(p.labeler = "QuickXPlainWithTestCases" \/ (p.labeler = "KBDiag" /\ KBDiagnosable(p)))
  <2>1. q = p
    BY <1>4 DEF AfterLabel
  <2> HIDE DEF q
  <2> QED BY <2>1 DEF q
<1> QED BY <1>2, <1>3, <1>4

\* The test cases left to a child are those from the failing one on: no other one fails.
LEMMA RemainingFail ==
    ASSUME NEW Literal, NEW p, AtNode(Literal, p), p.labeler = "QuickXPlainWithTestCases"
    PROVE  /\ RemainingTestCases(p) \in Seq(Literal)
           /\ Range(RemainingTestCases(p)) \subseteq Range(p.tc)
           /\ FailingWith(p, p.b \cup p.neg \cup SetC(p)) \subseteq Range(RemainingTestCases(p))
<1> DEFINE r == RemainingTestCases(p)
           failing == FailingWith(p, p.b \cup p.neg \cup SetC(p))
<1>1. p.tc \in Seq(Literal) /\ NoTestCase \notin Literal /\ p \in Parameters(Literal)
  BY ParametersTypes DEF AtNode
<1>2. failing \subseteq Range(p.tc)
  BY DEF FailingWith
<1>3. CASE p.at = NoTestCase
  BY <1>1, <1>2, <1>3 DEF RemainingTestCases
<1>4. CASE p.at # NoTestCase
  <2>1. PICK k \in Nat : Len(p.tc) = k /\ DOMAIN p.tc = 1 .. k
    BY <1>1, LenProperties
  <2>2. PICK i \in 1 .. k : p.tc[i] = p.at /\ \A j \in 1 .. k : p.tc[j] \in failing => i <= j
    <3>1. p.at = FailingTestCase(p)
      BY <1>4 DEF AtNode
    <3> HIDE DEF failing
    <3> QED BY <3>1, <1>1, <1>4, <2>1, FailingTestCaseIsFirst DEF failing
  <2> DEFINE n == First(p.tc, {p.at})
  <2>3. n \in 1 .. k /\ n <= i
    <3>1. Range(p.tc) \cap {p.at} # {}
      BY <2>1, <2>2 DEF Range
    <3>2. /\ n \in 1 .. Len(p.tc)
          /\ \A j \in 1 .. Len(p.tc) : p.tc[j] \in {p.at} => n <= j
      <4> HIDE DEF n
      <4> QED BY <3>1, <1>1, FirstProperties DEF n
    <3> QED BY <3>2, <2>1, <2>2
  <2>4. r = SubSeq(p.tc, n, k)
    BY <1>4, <2>1 DEF RemainingTestCases
  <2> HIDE DEF n, r
  <2>5. \A j \in n .. k : j \in 1 .. k /\ p.tc[j] \in Literal
    <3>1. \A j \in n .. k : j \in 1 .. k
      BY <2>3
    <3> QED BY <3>1, <1>1, <2>1, ElementOfSeq
  <2>6. /\ r \in Seq(Literal)
        /\ Len(r) = k - n + 1
        /\ \A j \in 1 .. k - n + 1 : r[j] = p.tc[n + j - 1]
    <3>1. n \in Int /\ k \in Int /\ n <= k
      BY <2>3
    <3> QED BY <3>1, <2>4, <2>5, SubSeqProperties
  <2>7. DOMAIN r = 1 .. k - n + 1
    BY <2>6, LenProperties
  <2>8. Range(r) \subseteq Range(p.tc)
    <3>1. \A j \in 1 .. k - n + 1 : n + j - 1 \in 1 .. k
      BY <2>3
    <3> QED BY <3>1, <2>1, <2>6, <2>7 DEF Range
  <2>9. ASSUME NEW t \in failing
        PROVE  t \in Range(r)
    <3>1. PICK j \in 1 .. k : t = p.tc[j]
      BY <1>2, <2>1 DEF Range
    <3>2. i <= j
      BY <3>1, <2>2, <2>9
    <3>3. j - n + 1 \in 1 .. k - n + 1 /\ n + (j - n + 1) - 1 = j
      BY <3>2, <2>3
    <3>4. r[j - n + 1] = p.tc[j]
      BY <3>3, <2>6
    <3> QED BY <3>1, <3>3, <3>4, <2>7 DEF Range
  <2> QED BY <2>6, <2>8, <2>9 DEF r
<1> QED BY <1>3, <1>4

\* They are test cases.
LEMMA RemainingTyped ==
    ASSUME NEW Literal, NEW p, AnyNode(Literal, p), p.labeler # "KBDiag"
    PROVE  RemainingTestCases(p) \in Seq(Literal)
<1>1. p.tc \in Seq(Literal)
  BY ParametersTypes DEF AnyNode
<1>2. CASE p.at = NoTestCase
  BY <1>1, <1>2 DEF RemainingTestCases
<1>3. CASE p.at \in Range(p.tc)
  <2> DEFINE n == First(p.tc, {p.at})
  <2>1. PICK k \in Nat : Len(p.tc) = k /\ DOMAIN p.tc = 1 .. k
    BY <1>1, LenProperties
  <2>2. n \in 1 .. k
    <3>1. Range(p.tc) \cap {p.at} # {}
      BY <1>3
    <3> HIDE DEF n
    <3> QED BY <3>1, <1>1, <2>1, FirstProperties DEF n
  <2>3. p.at = NoTestCase \/ RemainingTestCases(p) = SubSeq(p.tc, n, k)
    BY <2>1 DEF RemainingTestCases
  <2> HIDE DEF n
  <2>4. \A j \in n .. k : p.tc[j] \in Literal
    <3>1. \A j \in n .. k : j \in 1 .. k
      BY <2>2
    <3> QED BY <3>1, <1>1, <2>1, ElementOfSeq
  <2>5. SubSeq(p.tc, n, k) \in Seq(Literal)
    <3>1. n \in Int /\ k \in Int
      BY <2>1, <2>2
    <3> QED BY <3>1, <2>4, SubSeqProperties
  <2> QED BY <2>3, <2>5, <1>2
<1> QED BY <1>2, <1>3 DEF AnyNode

\* q are the parameters of a child of p's along an arc: the arc leaves C, for a diagnosis
\* labeler to B.
IsChild(Literal, p, arc, q) ==
    /\ q \in Parameters(Literal)
    /\ q.labeler = p.labeler /\ q.kb = p.kb /\ q.neg = p.neg
    /\ Range(q.c) = Range(p.c) \ {arc} /\ IsInjective(q.c)
    /\ q.b = IF TypeOf(p) = "DIAGNOSIS" THEN p.b \cup {arc} ELSE p.b
    /\ p.labeler = "KBDiag" => q.tc = p.tcp /\ q.tcp = <<>>
    /\ p.labeler # "KBDiag" => q.tc = RemainingTestCases(p) /\ q.at = NoTestCase

\* A child's parameters are what identify_new_node_parameters makes.
LEMMA ChildFields ==
    ASSUME NEW Literal, NEW p, AnyNode(Literal, p), NEW arc \in Range(p.c)
    PROVE  IsChild(Literal, p, arc, ChildOf(p, arc))
<1> DEFINE q == ChildOf(p, arc)
           c == Where(p.c, Range(p.c) \ {arc})
<1>1. p \in Parameters(Literal) /\ p.c \in Seq(Literal) /\ IsInjective(p.c)
      /\ p.tc \in Seq(Literal) /\ arc \in Literal /\ p.b \in SUBSET Literal
      /\ p.labeler \in {"FastDiag", "QuickXPlain", "QuickXPlainWithTestCases", "KBDiag"}
  <2>1. SetC(p) = Range(p.c) /\ p \in Parameters(Literal)
    BY DEF AnyNode, SetC
  <2> QED BY <2>1, ParametersTypes DEF AnyNode
<1>2. c \in Seq(Literal) /\ Range(c) = Range(p.c) \ {arc} /\ IsInjective(c)
  <2>1. Range(p.c) \cap (Range(p.c) \ {arc}) = Range(p.c) \ {arc}
    OBVIOUS
  <2> QED BY <2>1, <1>1, WhereProperties
<1>3. CASE p.labeler = "KBDiag"
  <2>1. q = [p EXCEPT !.c = c, !.b = p.b \cup {arc}, !.tc = p.tcp, !.tcp = <<>>]
    BY <1>3 DEF ChildOf, KBDiagChildOf
  <2>2. p.tcp \in Seq(Literal) /\ <<>> \in Seq(Literal)
    BY <1>1, <1>3, ParametersTypes
  <2> HIDE DEF q, c
  <2>3. /\ q \in Parameters(Literal)
        /\ q.labeler = p.labeler /\ q.kb = p.kb /\ q.neg = p.neg /\ q.c = c
        /\ q.b = p.b \cup {arc} /\ q.tc = p.tcp /\ q.tcp = <<>>
    BY <2>1, <2>2, <1>1, <1>2, <1>3 DEF Parameters
  <2> QED BY <2>3, <1>2, <1>3 DEF TypeOf, IsChild, q, c
<1>4. CASE p.labeler # "KBDiag"
  <2> DEFINE b == IF p.labeler = "FastDiag" THEN p.b \cup {arc} ELSE p.b
             tc == RemainingTestCases(p)
  <2>1. q = [p EXCEPT !.c = c, !.b = b, !.tc = tc, !.at = NoTestCase]
    BY <1>4 DEF ChildOf
  <2>2. tc \in Seq(Literal)
    BY <1>4, RemainingTyped
  <2>3. b \in SUBSET Literal /\ b = IF TypeOf(p) = "DIAGNOSIS" THEN p.b \cup {arc} ELSE p.b
    BY <1>1, <1>4 DEF TypeOf
  <2> HIDE DEF q, c, b, tc
  <2>4. /\ q \in Parameters(Literal)
        /\ q.labeler = p.labeler /\ q.kb = p.kb /\ q.neg = p.neg /\ q.c = c
        /\ q.b = b /\ q.tc = tc /\ q.at = NoTestCase
    BY <2>1, <2>2, <2>3, <1>1, <1>2, <1>4 DEF Parameters
  <2> QED BY <2>3, <2>4, <1>2, <1>4 DEF IsChild, q, c, b, tc
<1> QED BY <1>3, <1>4

\* They are those of a node, too, and lack only the arc.
LEMMA ChildOfStays ==
    ASSUME NEW Literal, NEW p, AnyNode(Literal, p), NEW arc \in Range(p.c)
    PROVE  /\ AnyNode(Literal, ChildOf(p, arc))
           /\ Range(ChildOf(p, arc).c) = Range(p.c) \ {arc}
<1> DEFINE q == ChildOf(p, arc)
<1>1. IsChild(Literal, p, arc, q)
  BY ChildFields
<1> HIDE DEF q
<1>2. AnyNode(Literal, q) /\ Range(q.c) = Range(p.c) \ {arc}
  BY <1>1 DEF IsChild, AnyNode
<1> QED BY <1>2 DEF q

\* The parameters of a child along an arc describe what is left of those of its parent.
LEMMA ChildOfIsRight ==
    ASSUME NEW Literal, NEW p, AtNode(Literal, p), NEW arc \in Range(p.c)
    PROVE  LET q == ChildOf(p, arc) IN
           /\ AtNode(Literal, q)
           /\ TypeOf(q) = TypeOf(p) /\ q.labeler = p.labeler
           /\ Range(q.c) = Range(p.c) \ {arc}
           /\ LabelOf(q) # <<>> => LabelOf(p) # <<>>
           /\ p.labeler # "KBDiag" \/ LabelOf(q) # <<>> =>
                 \A S \in SUBSET Range(q.c) :
                     Refuted(q, S) <=>
                         Refuted(p, IF TypeOf(p) = "CONFLICT" THEN S ELSE S \cup {arc})
<1> DEFINE q == ChildOf(p, arc)
           C == Range(p.c)
<1>1. /\ q \in Parameters(Literal)
      /\ q.labeler = p.labeler /\ q.kb = p.kb /\ q.neg = p.neg
      /\ Range(q.c) = C \ {arc} /\ IsInjective(q.c)
      /\ q.b = IF TypeOf(p) = "DIAGNOSIS" THEN p.b \cup {arc} ELSE p.b
      /\ p.labeler = "KBDiag" => q.tc = p.tcp /\ q.tcp = <<>>
      /\ p.labeler # "KBDiag" => q.tc = RemainingTestCases(p) /\ q.at = NoTestCase
  <2>1. IsChild(Literal, p, arc, ChildOf(p, arc))
    BY AtNodeIsAny, ChildFields
  <2> HIDE DEF q
  <2>2. IsChild(Literal, p, arc, q)
    BY <2>1 DEF q
  <2> QED BY <2>2 DEF IsChild
<1> HIDE DEF q
<1>2. /\ p \in Parameters(Literal) /\ NoTestCase \notin Literal /\ IsInjective(p.c)
      /\ SetC(p) = C /\ SetC(q) = C \ {arc} /\ p.c \in Seq(Literal) /\ q.c \in Seq(Literal)
      /\ p.labeler \in {"FastDiag", "QuickXPlain", "QuickXPlainWithTestCases", "KBDiag"}
  <2>1. p \in Parameters(Literal)
    BY DEF AtNode
  <2> QED BY <2>1, <1>1, ParametersTypes DEF AtNode, SetC
<1>3. TypeOf(q) = TypeOf(p) /\ TypeOf(p) \in {"CONFLICT", "DIAGNOSIS"}
  BY <1>1 DEF TypeOf
<1>4. CASE p.labeler = "FastDiag"
  <2>1. /\ TypeOf(p) = "DIAGNOSIS" /\ q.b = p.b \cup {arc}
        /\ LabelOf(p) = FastDiagLabel(p) /\ LabelOf(q) = FastDiagLabel(q)
    BY <1>1, <1>4 DEF TypeOf, LabelOf
  <2>2. /\ \A S : Refuted(p, S) <=> ~Consistent(p.kb, p.b \cup S)
        /\ \A S : Refuted(q, S) <=> ~Consistent(p.kb, p.b \cup {arc} \cup S)
    BY <1>1, <1>4, <2>1 DEF Refuted
  <2>3. AtNode(Literal, q)
    BY <1>1, <1>2, <1>3, <1>4, <2>1 DEF AtNode
  <2>4. ASSUME LabelOf(q) # <<>>
        PROVE  LabelOf(p) # <<>>
    <3>1. Consistent(p.kb, p.b \cup {arc}) /\ ~Consistent(p.kb, p.b \cup {arc} \cup (C \ {arc}))
      BY <1>1, <1>2, <2>1, <2>4, FastDiagAnswers
    <3>2. p.b \cup {arc} \cup (C \ {arc}) = p.b \cup C /\ p.b \subseteq p.b \cup {arc}
      OBVIOUS
    <3>3. Consistent(p.kb, p.b)
      BY <3>1, <3>2, Antimonotone
    <3>4. ~Consistent(p.kb, p.b \cup C)
      BY <3>1, <3>2
    <3> QED BY <3>3, <3>4, <1>2, <2>1, FastDiagAnswers
  <2>5. ASSUME NEW S
        PROVE  Refuted(q, S) <=> Refuted(p, S \cup {arc})
    <3>1. p.b \cup {arc} \cup S = p.b \cup (S \cup {arc})
      OBVIOUS
    <3> QED BY <3>1, <2>2
  <2> QED BY <2>1, <2>3, <2>4, <2>5, <1>1, <1>3 DEF q
<1>5. CASE p.labeler = "QuickXPlain"
  <2>1. /\ TypeOf(p) = "CONFLICT" /\ q.b = p.b
        /\ LabelOf(p) = QuickXPlainLabel(p) /\ LabelOf(q) = QuickXPlainLabel(q)
    BY <1>1, <1>5 DEF TypeOf, LabelOf
  <2>2. \A S : Refuted(q, S) <=> Refuted(p, S)
    BY <1>1, <1>5, <2>1 DEF Refuted
  <2>3. AtNode(Literal, q)
    BY <1>1, <1>2, <1>3, <1>5, <2>1, <2>2 DEF AtNode
  <2>4. ASSUME LabelOf(q) # <<>>
        PROVE  LabelOf(p) # <<>>
    <3>1. Len(q.c) # 0 /\ ~Consistent(p.kb, p.b \cup (C \ {arc}))
      BY <1>1, <1>2, <2>1, <2>4 DEF QuickXPlainLabel
    <3>2. p.b \cup (C \ {arc}) \subseteq p.b \cup C
      OBVIOUS
    <3>3. ~Consistent(p.kb, p.b \cup C)
      BY <3>1, <3>2, Antimonotone
    <3>4. p.c # <<>>
      BY <1>2, RangeProperties
    <3>5. QuickXPlainLabel(p) =
              Reverse(Where(p.c, PreferredConflict([kb |-> p.kb, c |-> p.c, b |-> p.b])))
      <4>1. Len(p.c) # 0
        BY <3>4, <1>2, EmptySeq
      <4> QED BY <4>1, <3>3, <1>2 DEF QuickXPlainLabel, TaskWith
    <3> QED BY <3>3, <3>4, <3>5, <1>2, <2>1, QuickXPlainAnswers
  <2> QED BY <2>1, <2>2, <2>3, <2>4, <1>1, <1>3 DEF q
<1>6. CASE p.labeler = "QuickXPlainWithTestCases"
  <2> DEFINE failing == FailingWith(p, p.b \cup p.neg \cup C)
  <2>1. /\ TypeOf(p) = "CONFLICT" /\ q.b = p.b
        /\ LabelOf(p) = QuickXPlainWithTestCasesLabel(p)
        /\ LabelOf(q) = QuickXPlainWithTestCasesLabel(q)
    BY <1>1, <1>6 DEF TypeOf, LabelOf
  <2>2. Range(q.tc) \subseteq Range(p.tc) /\ failing \subseteq Range(q.tc)
    BY <1>1, <1>2, <1>6, RemainingFail
  <2>3. \A S : FailingWith(q, S) = FailingWith(p, S) \cap Range(q.tc)
    BY <1>1, <2>2 DEF FailingWith
  <2>4. /\ \A S : Refuted(p, S) <=> FailingWith(p, p.b \cup p.neg \cup S) # {}
        /\ \A S : Refuted(q, S) <=> FailingWith(q, p.b \cup p.neg \cup S) # {}
    BY <1>1, <1>6, <2>1 DEF Refuted
  <2>5. ASSUME NEW S \in SUBSET C
        PROVE  Refuted(q, S) <=> Refuted(p, S)
    <3>1. p.b \cup p.neg \cup S \subseteq p.b \cup p.neg \cup C
      OBVIOUS
    <3>2. FailingWith(p, p.b \cup p.neg \cup S) \subseteq failing
      BY <3>1, FailingMore
    <3> HIDE DEF failing
    <3>3. FailingWith(q, p.b \cup p.neg \cup S) = FailingWith(p, p.b \cup p.neg \cup S)
      BY <3>2, <2>2, <2>3
    <3> QED BY <3>3, <2>4
  <2>6. ~Refuted(p, {}) /\ ~Refuted(q, {})
    <3>1. ~Refuted(p, {}) /\ {} \in SUBSET C
      BY <2>1 DEF AtNode
    <3> QED BY <3>1, <2>5
  <2>7. AtNode(Literal, q)
    BY <1>1, <1>2, <1>6, <2>6 DEF AtNode
  <2>8. ASSUME LabelOf(q) # <<>>
        PROVE  LabelOf(p) # <<>>
    <3>1. FailingTestCase(q) # NoTestCase
      BY <1>1, <1>2, <2>1, <2>8, TestCaseAnswers
    <3>2. FailingWith(q, q.b \cup q.neg \cup SetC(q)) # {}
      BY <3>1, <1>1, <1>2, FailingTestCaseIsFirst
    <3>3. FailingWith(q, p.b \cup p.neg \cup (C \ {arc})) # {}
      BY <3>2, <1>1, <1>2, <2>1
    <3>4. Refuted(p, C \ {arc})
      <4>1. C \ {arc} \in SUBSET C
        OBVIOUS
      <4> QED BY <4>1, <3>3, <2>4, <2>5
    <3>5. failing # {}
      <4>1. p.b \cup p.neg \cup (C \ {arc}) \subseteq p.b \cup p.neg \cup C
        OBVIOUS
      <4>2. FailingWith(p, p.b \cup p.neg \cup (C \ {arc})) # {}
        BY <3>4, <2>4
      <4> QED BY <4>1, <4>2, FailingMore
    <3>6. FailingWith(p, p.neg) = {}
      <4>1. p.neg \subseteq p.b \cup p.neg \cup {}
        OBVIOUS
      <4>2. FailingWith(p, p.b \cup p.neg \cup {}) = {}
        BY <2>4, <2>6
      <4> QED BY <4>1, <4>2, FailingMore
    <3>7. p.c # <<>>
      BY <1>2, RangeProperties
    <3>8. FailingTestCase(p) # NoTestCase
      BY <3>5, <3>6, <3>7, <1>2, FailingTestCaseIsFirst
    <3> QED BY <3>8, <1>2, <2>1, TestCaseAnswers
  <2>9. \A S \in SUBSET Range(q.c) : S \in SUBSET C
    BY <1>1
  <2> QED BY <2>1, <2>5, <2>7, <2>8, <2>9, <1>1, <1>3 DEF q
<1>7. CASE p.labeler = "KBDiag"
  <2>1. /\ TypeOf(p) = "DIAGNOSIS" /\ q.b = p.b \cup {arc} /\ q.tc = p.tcp /\ q.tcp = <<>>
        /\ p.neg = {} /\ q.neg = {}
        /\ LabelOf(p) = KBDiagLabel(p) /\ LabelOf(q) = KBDiagLabel(q)
    BY <1>1, <1>7 DEF TypeOf, LabelOf, AtNode
  <2>2. AtNode(Literal, q)
    BY <1>1, <1>2, <1>3, <1>7, <2>1 DEF AtNode
  <2>3. ASSUME LabelOf(q) # <<>>
        PROVE  KBDiagnosable(p) /\ Range(q.tc) = FailingWith(p, p.b \cup C)
               /\ FailingWith(p, p.b \cup C) # {}
    <3>1. KBDiagnosable(q)
      BY <2>1, <2>3 DEF KBDiagLabel
    <3>2. p.tcp # <<>>
      BY <3>1, <2>1 DEF KBDiagnosable
    <3>3. KBDiagnosable(p) /\ p.tcp = FailingTestCases(p)
      BY <3>2, <1>7 DEF AtNode
    <3> QED BY <3>2, <3>3, <1>2, <2>1, FailingTestCasesAre
  <2>4. LabelOf(q) # <<>> => LabelOf(p) # <<>>
    BY <2>1, <2>3, <1>2, <1>7, KBDiagBackground, KBDiagAnswers
  <2>5. ASSUME LabelOf(q) # <<>>, NEW S \in SUBSET (C \ {arc})
        PROVE  Refuted(q, S) <=> Refuted(p, S \cup {arc})
    <3>1. /\ q.b \cup q.neg \cup S = p.b \cup (S \cup {arc})
          /\ p.b \cup p.neg \cup (S \cup {arc}) = p.b \cup (S \cup {arc})
          /\ p.b \cup (S \cup {arc}) \subseteq p.b \cup C
      BY <2>1
    <3>2. /\ Refuted(q, S) <=> FailingWith(q, p.b \cup (S \cup {arc})) # {}
          /\ Refuted(p, S \cup {arc}) <=> FailingWith(p, p.b \cup (S \cup {arc})) # {}
      BY <3>1, <1>1, <1>7 DEF Refuted
    <3>3. FailingWith(p, p.b \cup (S \cup {arc})) \subseteq Range(q.tc)
      BY <3>1, <2>3, <2>5, FailingMore
    <3>4. Range(q.tc) \subseteq Range(p.tc)
      BY <2>3, <2>5 DEF FailingWith
    <3>5. FailingWith(q, p.b \cup (S \cup {arc})) = FailingWith(p, p.b \cup (S \cup {arc}))
      BY <3>3, <3>4, <1>1 DEF FailingWith
    <3> QED BY <3>2, <3>5
  <2> QED BY <2>1, <2>2, <2>4, <2>5, <1>1, <1>3, <1>7 DEF q
<1> QED BY <1>2, <1>4, <1>5, <1>6, <1>7
=============================================================================
