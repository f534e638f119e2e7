--------------------------- MODULE OrderKeysProofs ---------------------------
(* Proofs about the ordering keys, for any base, number of random digits,     *)
(* tasks, sections and requests.                                              *)
EXTENDS OrderKeys, TLAPS, SequenceTheorems, FiniteSetTheorems, WellFoundedInduction

-----------------------------------------------------------------------------
(* Induction and recursion.  The induction used everywhere here is the least  *)
(* counterexample; that a recursive function is the one its equation says is  *)
(* shown once, for any measure.                                               *)

LEMMA LeastNat ==
    ASSUME NEW T \in SUBSET Nat, T # {}
    PROVE  \E n \in T : \A m \in T : n <= m
<1>. DEFINE R == OpToRel(<, Nat)
<1>1. IsWellFoundedOn(R, Nat) BY NatLessThanWellFounded
<1>. HIDE DEF R
<1>2. PICK n \in T : \A m \in T : ~(<<m, n>> \in R) BY <1>1, WFMin
<1>3. ASSUME NEW m \in T PROVE n <= m
  <2>1. ~(<<m, n>> \in R) BY <1>2
  <2>2. ~(m < n) BY <2>1 DEF R, OpToRel
  <2>. QED BY <2>2
<1>. QED BY <1>2, <1>3

\* Of the bad ones, one has nothing bad below it.
LEMMA LeastSize ==
    ASSUME NEW D, NEW size \in [D -> Nat], NEW Bad \in SUBSET D, Bad # {}
    PROVE  \E x \in Bad : \A y \in D : size[y] < size[x] => y \notin Bad
<1>. DEFINE T == {size[x] : x \in Bad}
<1>1. PICK m \in T : \A k \in T : m <= k
  <2>1. T \in SUBSET Nat /\ T # {} OBVIOUS
  <2>. HIDE DEF T
  <2>. QED BY <2>1, LeastNat
<1>2. PICK x \in Bad : size[x] = m OBVIOUS
<1>3. \A y \in D : size[y] < size[x] => y \notin Bad BY <1>1, <1>2
<1>. QED BY <1>3

\* g solves the equation f[x] = step[x][f] for all x smaller than n.
Solves(D, size, step, g, n) == \A x \in D : size[x] < n => g[x] = step[x][g]

\* step looks at smaller arguments only.
LooksBack(D, R, size, step) ==
    \A x \in D : \A g, h \in [D -> R] :
        (\A y \in D : size[y] < size[x] => g[y] = h[y]) => step[x][g] = step[x][h]

LEMMA SolutionsAgree ==
    ASSUME NEW D, NEW R, NEW size \in [D -> Nat], NEW step, LooksBack(D, R, size, step),
           NEW n \in Nat, NEW g \in [D -> R], NEW h \in [D -> R],
           Solves(D, size, step, g, n), Solves(D, size, step, h, n)
    PROVE  \A x \in D : size[x] < n => g[x] = h[x]
<1>. DEFINE T == {size[x] : x \in {y \in D : size[y] < n /\ g[y] # h[y]}}
<1>1. SUFFICES ASSUME T # {} PROVE FALSE OBVIOUS
<1>2. PICK m \in T : \A k \in T : m <= k
  <2>1. T \in SUBSET Nat OBVIOUS
  <2>. HIDE DEF T
  <2>. QED BY <1>1, <2>1, LeastNat
<1>3. PICK x \in D : size[x] = m /\ m < n /\ g[x] # h[x] OBVIOUS
<1>4. ASSUME NEW y \in D, size[y] < size[x] PROVE g[y] = h[y]
  <2>1. size[y] \in Nat /\ m \in Nat /\ size[y] < n BY <1>3, <1>4
  <2>2. size[y] \notin T
    <3>. HIDE DEF T
    <3>. QED BY <1>2, <1>3, <1>4, <2>1
  <2>. QED BY <2>1, <2>2
<1>5. step[x][g] = step[x][h] BY <1>4 DEF LooksBack
<1>. QED BY <1>3, <1>5 DEF Solves

LEMMA PartExists ==
    ASSUME NEW D, NEW R, R # {}, NEW size \in [D -> Nat], NEW step \in [D -> [[D -> R] -> R]],
           LooksBack(D, R, size, step), NEW n \in Nat
    PROVE  \E g \in [D -> R] : Solves(D, size, step, g, n)
<1>. DEFINE T == {m \in Nat : ~\E g \in [D -> R] : Solves(D, size, step, g, m)}
<1>1. SUFFICES ASSUME T # {} PROVE FALSE OBVIOUS
<1>2. PICK m \in T : \A k \in T : m <= k
  <2>1. T \in SUBSET Nat OBVIOUS
  <2>. HIDE DEF T
  <2>. QED BY <1>1, <2>1, LeastNat
<1>3. m # 0
  <2>1. PICK r \in R : TRUE OBVIOUS
  <2>2. [x \in D |-> r] \in [D -> R] /\ Solves(D, size, step, [x \in D |-> r], 0)
      BY DEF Solves
  <2>. QED BY <2>2
<1>4. m \in Nat /\ m - 1 \in Nat /\ m - 1 \notin T
  <2>1. m \in Nat OBVIOUS
  <2>. HIDE DEF T
  <2>. QED BY <1>2, <1>3, <2>1
<1>5. PICK g \in [D -> R] : Solves(D, size, step, g, m - 1) BY <1>4
<1>. DEFINE h == [x \in D |-> IF size[x] < m - 1 THEN g[x] ELSE step[x][g]]
<1>6. h \in [D -> R] OBVIOUS
<1>7. ASSUME NEW x \in D, size[x] < m PROVE h[x] = step[x][h]
  <2>1. h[x] = step[x][g] BY <1>5 DEF Solves
  <2>2. \A y \in D : size[y] < size[x] => g[y] = h[y] BY <1>4, <1>7
  <2>. HIDE DEF h
  <2>3. step[x][g] = step[x][h] BY <1>6, <2>2 DEF LooksBack
  <2>. QED BY <2>1, <2>3
<1>8. Solves(D, size, step, h, m)
  <2>. HIDE DEF h
  <2>. QED BY <1>7 DEF Solves
<1>. HIDE DEF h
<1>. QED BY <1>6, <1>8

Recursive(D, R, size, step) ==
    /\ R # {} /\ size \in [D -> Nat] /\ step \in [D -> [[D -> R] -> R]]
    /\ LooksBack(D, R, size, step)
Solvable(D, R, step) == \E f \in [D -> R] : \A x \in D : f[x] = step[x][f]

LEMMA RecursionExists ==
    ASSUME NEW D, NEW R, NEW size, NEW step, Recursive(D, R, size, step)
    PROVE  Solvable(D, R, step)
<1>0. /\ R # {} /\ size \in [D -> Nat] /\ step \in [D -> [[D -> R] -> R]]
      /\ LooksBack(D, R, size, step)
    BY DEF Recursive
<1>. DEFINE Good(n, g) == g \in [D -> R] /\ Solves(D, size, step, g, n)
            part(n) == CHOOSE g : Good(n, g)
            f == [x \in D |-> part(size[x] + 1)[x]]
<1>1. ASSUME NEW n \in Nat PROVE Good(n, part(n)) BY <1>0, PartExists
<1>2. ASSUME NEW n \in Nat, NEW m \in Nat, n <= m, NEW x \in D, size[x] < n
      PROVE  part(n)[x] = part(m)[x]
  <2>1. Good(n, part(n)) /\ Good(m, part(m)) BY <1>1
  <2>. HIDE DEF part
  <2>2. Solves(D, size, step, part(m), n)
    <3>1. \A y \in D : size[y] < n => size[y] < m BY <1>0, <1>2
    <3>. QED BY <2>1, <3>1 DEF Solves
  <2>. QED BY <1>0, <1>2, <2>1, <2>2, SolutionsAgree
<1>3. f \in [D -> R] /\ \A x \in D : f[x] = part(size[x] + 1)[x]
  <2>1. \A x \in D : part(size[x] + 1) \in [D -> R] BY <1>0, <1>1
  <2>. HIDE DEF part
  <2>. QED BY <2>1
<1>4. ASSUME NEW x \in D PROVE f[x] = step[x][f]
  <2>1. size[x] \in Nat /\ size[x] + 1 \in Nat BY <1>0
  <2>2. Good(size[x] + 1, part(size[x] + 1)) BY <1>1, <2>1
  <2>. HIDE DEF part
  <2>. HIDE DEF f
  <2>3. part(size[x] + 1)[x] = step[x][part(size[x] + 1)] BY <2>1, <2>2 DEF Solves
  <2>4. ASSUME NEW y \in D, size[y] < size[x] PROVE f[y] = part(size[x] + 1)[y]
    <3>1. size[y] + 1 \in Nat /\ size[y] + 1 <= size[x] + 1 /\ size[y] < size[y] + 1 BY <1>0, <2>4
    <3>2. part(size[y] + 1)[y] = part(size[x] + 1)[y] BY <1>2, <2>1, <3>1
    <3>. QED BY <1>3, <3>2
  <2>5. step[x][f] = step[x][part(size[x] + 1)] BY <1>0, <1>3, <2>2, <2>4 DEF LooksBack
  <2>. QED BY <1>3, <2>3, <2>5
<1>. HIDE DEF f
<1>. QED BY <1>3, <1>4 DEF Solvable

-----------------------------------------------------------------------------
(* Keys: what is left of one, what two share, and the order on them.          *)

LEMMA DigitsAre == Base \in Nat /\ Base > 2 /\ Digits = 0 .. Base - 1 /\ 0 \in Digits
BY KeysAssumption DEF Digits

LEMMA KeyIs ==
    ASSUME NEW k \in Keys
    PROVE  Len(k) \in Nat /\ (\A n \in 1 .. Len(k) : k[n] \in Digits) /\ (k = Open <=> Len(k) = 0)
BY EmptySeq, ElementOfSeq DEF Keys, Open

LEMMA OpenIs == Open \in Keys /\ Len(Open) = 0
BY EmptySeq DEF Open, Keys

LEMMA SameKey ==
    ASSUME NEW k \in Keys, NEW l \in Keys, Len(k) = Len(l), \A n \in 1 .. Len(k) : k[n] = l[n]
    PROVE  k = l
BY SeqEqual DEF Keys

LEMMA DigitAtIs ==
    ASSUME NEW k \in Keys, NEW n \in Nat \ {0}
    PROVE  DigitAt(k, n) \in Digits
BY KeyIs, DigitsAre DEF DigitAt

LEMMA RestIs ==
    ASSUME NEW k \in Keys, NEW n \in Nat
    PROVE  /\ Rest(k, n) \in Keys
           /\ Len(Rest(k, n)) = IF n <= Len(k) THEN Len(k) - n ELSE 0
           /\ \A m \in 1 .. Len(k) - n : Rest(k, n)[m] = k[n + m]
<1>1. Len(k) \in Nat /\ n + 1 \in Int /\ \A i \in n + 1 .. Len(k) : k[i] \in Digits BY KeyIs
<1>2. /\ Rest(k, n) \in Keys
      /\ Len(Rest(k, n)) = IF n + 1 <= Len(k) THEN Len(k) - (n + 1) + 1 ELSE 0
      /\ \A m \in 1 .. Len(k) - (n + 1) + 1 : Rest(k, n)[m] = k[(n + 1) + m - 1]
    BY <1>1, SubSeqProperties DEF Rest, Keys
<1>3. ASSUME NEW m \in 1 .. Len(k) - n PROVE Rest(k, n)[m] = k[n + m]
  <2>1. m \in 1 .. Len(k) - (n + 1) + 1 /\ (n + 1) + m - 1 = n + m BY <1>1
  <2>. QED BY <1>2, <2>1
<1>. QED BY <1>1, <1>2, <1>3

LEMMA FrontIs ==
    ASSUME NEW k \in Keys, NEW n \in 0 .. Len(k)
    PROVE  /\ SubSeq(k, 1, n) \in Keys /\ Len(SubSeq(k, 1, n)) = n
           /\ \A m \in 1 .. n : SubSeq(k, 1, n)[m] = k[m]
<1>1. Len(k) \in Nat /\ n \in Int /\ \A i \in 1 .. n : k[i] \in Digits BY KeyIs
<1>2. /\ SubSeq(k, 1, n) \in Keys
      /\ Len(SubSeq(k, 1, n)) = IF 1 <= n THEN n - 1 + 1 ELSE 0
      /\ \A m \in 1 .. n - 1 + 1 : SubSeq(k, 1, n)[m] = k[1 + m - 1]
    BY <1>1, SubSeqProperties DEF Keys
<1>3. n - 1 + 1 = n /\ \A m \in 1 .. n : 1 + m - 1 = m BY <1>1
<1>. QED BY <1>1, <1>2, <1>3

LEMMA JoinIs ==
    ASSUME NEW k \in Keys, NEW l \in Keys
    PROVE  /\ k \o l \in Keys /\ Len(k \o l) = Len(k) + Len(l)
           /\ \A n \in 1 .. Len(k) : (k \o l)[n] = k[n]
           /\ \A n \in 1 .. Len(l) : (k \o l)[Len(k) + n] = l[n]
<1>1. Len(k) \in Nat /\ Len(l) \in Nat BY KeyIs
<1>2. /\ k \o l \in Keys /\ Len(k \o l) = Len(k) + Len(l)
      /\ \A i \in 1 .. Len(k) + Len(l) :
            (k \o l)[i] = IF i <= Len(k) THEN k[i] ELSE l[i - Len(k)]
    BY ConcatProperties DEF Keys
<1>3. ASSUME NEW n \in 1 .. Len(l) PROVE (k \o l)[Len(k) + n] = l[n]
  <2>1. Len(k) + n \in 1 .. Len(k) + Len(l) /\ ~(Len(k) + n <= Len(k)) /\ Len(k) + n - Len(k) = n
      BY <1>1
  <2>. QED BY <1>2, <2>1
<1>. QED BY <1>1, <1>2, <1>3

LEMMA OneDigit ==
    ASSUME NEW d \in Digits PROVE <<d>> \in Keys /\ Len(<<d>>) = 1 /\ <<d>>[1] = d
BY DEF Keys

LEMMA SharedIs ==
    ASSUME NEW a \in Keys, NEW b \in Keys
    PROVE  /\ Shared(a, b) \in 0 .. Len(b)
           /\ \A m \in 1 .. Shared(a, b) : DigitAt(a, m) = b[m]
           /\ Shared(a, b) < Len(b) => DigitAt(a, Shared(a, b) + 1) # b[Shared(a, b) + 1]
<1>. DEFINE Good(n) == /\ \A m \in 1 .. n : DigitAt(a, m) = b[m]
                       /\ n < Len(b) => DigitAt(a, n + 1) # b[n + 1]
            T == {n \in Nat : n < Len(b) /\ DigitAt(a, n + 1) # b[n + 1]}
<1>0. Len(b) \in Nat BY KeyIs
<1>1. \E n \in 0 .. Len(b) : Good(n)
  <2>1. CASE T = {}
    <3>1. ASSUME NEW m \in 1 .. Len(b) PROVE DigitAt(a, m) = b[m]
      <4>1. m - 1 \in Nat /\ m - 1 < Len(b) /\ (m - 1) + 1 = m BY <1>0
      <4>. QED BY <2>1, <4>1
    <3>. QED BY <1>0, <3>1
  <2>2. CASE T # {}
    <3>1. PICK n \in T : \A k \in T : n <= k
      <4>1. T \in SUBSET Nat OBVIOUS
      <4>. HIDE DEF T
      <4>. QED BY <2>2, <4>1, LeastNat
    <3>2. ASSUME NEW m \in 1 .. n PROVE DigitAt(a, m) = b[m]
      <4>1. m - 1 \in Nat /\ m - 1 < Len(b) /\ (m - 1) + 1 = m /\ ~(n <= m - 1) BY <1>0
      <4>. QED BY <3>1, <4>1
    <3>. QED BY <1>0, <3>2
  <2>. QED BY <2>1, <2>2
<1>2. Shared(a, b) = CHOOSE n \in 0 .. Len(b) : Good(n) BY DEF Shared
<1>3. Shared(a, b) \in 0 .. Len(b) /\ Good(Shared(a, b))
  <2>. HIDE DEF Good
  <2>. QED BY <1>1, <1>2
<1>. QED BY <1>3

\* b goes on after n digits that a has too, where a has ended or has a smaller one.
LessAt(a, b, n) ==
    /\ n \in 1 .. Len(b) /\ n <= Len(a) + 1
    /\ \A m \in 1 .. n - 1 : a[m] = b[m]
    /\ n <= Len(a) => a[n] < b[n]

LEMMA PrefixIs ==
    ASSUME NEW a \in Keys, NEW b \in Keys
    PROVE  IsPrefix(a, b) <=> Len(a) <= Len(b) /\ \A n \in 1 .. Len(a) : a[n] = b[n]
<1>1. Len(a) \in Nat /\ Len(b) \in Nat BY KeyIs
<1>2. SubSeq(a, 1, Len(a)) = a BY SubSeqFull DEF Keys
<1>3. CASE Len(a) <= Len(b)
  <2>1. Len(a) \in 0 .. Len(b) BY <1>1, <1>3
  <2>2. /\ SubSeq(b, 1, Len(a)) \in Keys /\ Len(SubSeq(b, 1, Len(a))) = Len(a)
        /\ \A m \in 1 .. Len(a) : SubSeq(b, 1, Len(a))[m] = b[m]
      BY <2>1, FrontIs
  <2>3. SubSeq(b, 1, Len(a)) = a <=> \A n \in 1 .. Len(a) : a[n] = b[n]
      BY <2>2, SameKey
  <2>. QED BY <1>2, <1>3, <2>3 DEF IsPrefix
<1>4. CASE ~(Len(a) <= Len(b)) BY <1>4 DEF IsPrefix
<1>. QED BY <1>3, <1>4

LEMMA LessIs ==
    ASSUME NEW a \in Keys, NEW b \in Keys
    PROVE  Less(a, b) <=> \E n \in 1 .. Len(b) : LessAt(a, b, n)
<1>1. Len(a) \in Nat /\ Len(b) \in Nat BY KeyIs
<1>2. ASSUME a # b, IsPrefix(a, b) PROVE LessAt(a, b, Len(a) + 1)
  <2>1. Len(a) <= Len(b) /\ \A n \in 1 .. Len(a) : a[n] = b[n] BY <1>2, PrefixIs
  <2>2. Len(a) # Len(b) BY <1>2, <2>1, SameKey
  <2>. QED BY <1>1, <2>1, <2>2 DEF LessAt
<1>3. ASSUME NEW n \in 1 .. Len(a), n <= Len(b), a[n] < b[n], \A m \in 1 .. n - 1 : a[m] = b[m]
      PROVE  LessAt(a, b, n)
    BY <1>1, <1>3 DEF LessAt
<1>4. ASSUME NEW n \in 1 .. Len(b), LessAt(a, b, n) PROVE Less(a, b)
  <2>1. CASE n <= Len(a)
    <3>1. n \in 1 .. Len(a) /\ n <= Len(b) /\ a[n] < b[n] /\ \A m \in 1 .. n - 1 : a[m] = b[m]
        BY <1>1, <1>4, <2>1 DEF LessAt
    <3>. QED BY <3>1 DEF Less
  <2>2. CASE n = Len(a) + 1
    <3>1. Len(a) < Len(b) /\ n - 1 = Len(a) BY <1>1, <2>2
    <3>2. \A m \in 1 .. Len(a) : a[m] = b[m] BY <1>4, <3>1 DEF LessAt
    <3>3. IsPrefix(a, b) BY <1>1, <3>1, <3>2, PrefixIs
    <3>4. a # b BY <1>1, <3>1
    <3>. QED BY <3>3, <3>4 DEF Less
  <2>. QED BY <1>1, <1>4, <2>1, <2>2 DEF LessAt
<1>5. Len(a) + 1 \in 1 .. Len(b) \/ ~LessAt(a, b, Len(a) + 1) BY DEF LessAt
<1>6. ASSUME Less(a, b) PROVE \E n \in 1 .. Len(b) : LessAt(a, b, n)
  <2>1. CASE a # b /\ IsPrefix(a, b) BY <1>2, <1>5, <2>1
  <2>2. ASSUME NEW n \in 1 .. Len(a), n <= Len(b), a[n] < b[n], \A m \in 1 .. n - 1 : a[m] = b[m]
        PROVE  \E l \in 1 .. Len(b) : LessAt(a, b, l)
    <3>1. n \in 1 .. Len(b) BY <1>1, <2>2
    <3>. QED BY <1>3, <2>2, <3>1
  <2>. QED BY <1>6, <2>1, <2>2 DEF Less
<1>. QED BY <1>4, <1>6

LEMMA LessApart ==
    ASSUME NEW a \in Keys PROVE ~Less(a, a)
<1>1. Len(a) \in Nat /\ \A n \in 1 .. Len(a) : a[n] \in Int BY KeyIs, DigitsAre
<1>. QED BY <1>1, LessIs DEF LessAt

LEMMA LessTransitive ==
    ASSUME NEW a \in Keys, NEW b \in Keys, NEW c \in Keys, Less(a, b), Less(b, c)
    PROVE  Less(a, c)
<1>1. /\ Len(a) \in Nat /\ Len(b) \in Nat /\ Len(c) \in Nat
      /\ \A n \in 1 .. Len(a) : a[n] \in Int
      /\ \A n \in 1 .. Len(b) : b[n] \in Int
      /\ \A n \in 1 .. Len(c) : c[n] \in Int
    BY KeyIs, DigitsAre
<1>2. PICK n \in 1 .. Len(b) : LessAt(a, b, n) BY LessIs
<1>3. PICK m \in 1 .. Len(c) : LessAt(b, c, m) BY LessIs
<1>4. CASE n < m
  <2>1. LessAt(a, c, n) BY <1>1, <1>2, <1>3, <1>4 DEF LessAt
  <2>. QED BY <1>1, <1>3, <1>4, <2>1, LessIs DEF LessAt
<1>5. CASE m <= n
  <2>1. LessAt(a, c, m) BY <1>1, <1>2, <1>3, <1>5 DEF LessAt
  <2>. QED BY <2>1, LessIs
<1>. QED BY <1>4, <1>5

LEMMA LessTotal ==
    ASSUME NEW a \in Keys, NEW b \in Keys, a # b PROVE Less(a, b) \/ Less(b, a)
<1>. DEFINE T == {n \in Nat \ {0} : (n <= Len(a) /\ n <= Len(b)) => a[n] # b[n]}
<1>1. /\ Len(a) \in Nat /\ Len(b) \in Nat
      /\ \A n \in 1 .. Len(a) : a[n] \in Int
      /\ \A n \in 1 .. Len(b) : b[n] \in Int
    BY KeyIs, DigitsAre
<1>2. PICK n \in T : \A k \in T : n <= k
  <2>1. T \in SUBSET Nat /\ Len(a) + 1 \in T BY <1>1
  <2>. HIDE DEF T
  <2>. QED BY <2>1, LeastNat
<1>3. ASSUME NEW m \in 1 .. n - 1 PROVE m <= Len(a) /\ m <= Len(b) /\ a[m] = b[m]
  <2>1. m \in Nat \ {0} /\ ~(n <= m) BY <1>2
  <2>. QED BY <1>2, <2>1
<1>4. n <= Len(a) + 1 /\ n <= Len(b) + 1
  <2>1. n - 1 = 0 \/ n - 1 \in 1 .. n - 1 BY <1>2
  <2>. QED BY <1>1, <1>2, <1>3, <2>1
<1>5. n <= Len(a) \/ n <= Len(b)
  <2>1. ASSUME n = Len(a) + 1, n = Len(b) + 1 PROVE FALSE
    <3>1. Len(a) = Len(b) /\ \A m \in 1 .. Len(a) : a[m] = b[m] BY <1>1, <1>3, <2>1
    <3>. QED BY <3>1, SameKey
  <2>. QED BY <1>1, <1>2, <1>4, <2>1
<1>6. n \in Nat \ {0} /\ ((n <= Len(a) /\ n <= Len(b)) => a[n] # b[n]) BY <1>2
<1>7. CASE n <= Len(b) /\ (n <= Len(a) => a[n] < b[n])
  <2>1. LessAt(a, b, n) BY <1>1, <1>3, <1>4, <1>6, <1>7 DEF LessAt
  <2>. QED BY <1>1, <1>6, <1>7, <2>1, LessIs
<1>8. CASE n <= Len(a) /\ (n <= Len(b) => b[n] < a[n])
  <2>1. LessAt(b, a, n) BY <1>1, <1>3, <1>4, <1>6, <1>8 DEF LessAt
  <2>. QED BY <1>1, <1>6, <1>8, <2>1, LessIs
<1>9. n \in 1 .. Len(a) => a[n] \in Int BY <1>1
<1>10. n \in 1 .. Len(b) => b[n] \in Int BY <1>1
<1>. QED BY <1>1, <1>5, <1>6, <1>7, <1>8, <1>9, <1>10

-----------------------------------------------------------------------------
(* _midpoint: the function is the one its equation says.                      *)

Ceiling(b) == IF b = Open THEN Base ELSE b[1]

MidBody(a, b, g) ==
    IF Shared(a, b) > 0
    THEN SubSeq(b, 1, Shared(a, b)) \o g[<<Rest(a, Shared(a, b)), Rest(b, Shared(a, b))>>]
    ELSE IF Ceiling(b) - DigitAt(a, 1) > 1 THEN <<(DigitAt(a, 1) + Ceiling(b)) \div 2>>
    ELSE IF Len(b) > 1 THEN <<Ceiling(b)>>
    ELSE <<DigitAt(a, 1)>> \o g[<<Rest(a, 1), Open>>]

LEMMA BoundsAre ==
    ASSUME NEW a \in Keys, NEW b \in Keys
    PROVE  /\ DigitAt(a, 1) \in Digits /\ Ceiling(b) \in 0 .. Base
           /\ b # Open => Ceiling(b) = b[1] /\ b[1] \in Digits /\ Len(b) >= 1
           /\ b = Open => Ceiling(b) = Base
<1>1. b # Open => b[1] \in Digits /\ Len(b) >= 1 BY KeyIs
<1>. QED BY <1>1, DigitAtIs, DigitsAre DEF Ceiling

\* What _midpoint looks at next is smaller.
LEMMA MidShrinks ==
    ASSUME NEW a \in Keys, NEW b \in Keys
    PROVE  /\ Shared(a, b) > 0 =>
                Len(Rest(a, Shared(a, b))) + Len(Rest(b, Shared(a, b))) < Len(a) + Len(b)
           /\ Shared(a, b) = 0 /\ ~(Ceiling(b) - DigitAt(a, 1) > 1) =>
                Len(Rest(a, 1)) + Len(Open) < Len(a) + Len(b)
<1>1. Len(a) \in Nat /\ Len(b) \in Nat /\ Shared(a, b) \in 0 .. Len(b) /\ Shared(a, b) \in Nat
    BY KeyIs, SharedIs
<1>2. ASSUME Shared(a, b) > 0
      PROVE  Len(Rest(a, Shared(a, b))) + Len(Rest(b, Shared(a, b))) < Len(a) + Len(b)
  <2>. DEFINE n == Shared(a, b)
  <2>1. n \in Nat /\ n > 0 /\ n <= Len(b) BY <1>1, <1>2
  <2>. HIDE DEF n
  <2>2. Len(Rest(a, n)) <= Len(a) /\ Len(Rest(a, n)) \in Nat
    <3>1. Len(Rest(a, n)) = IF n <= Len(a) THEN Len(a) - n ELSE 0 BY <2>1, RestIs
    <3>. QED BY <1>1, <2>1, <3>1
  <2>3. Len(Rest(b, n)) = Len(b) - n BY <2>1, RestIs
  <2>4. Len(Rest(a, n)) + Len(Rest(b, n)) < Len(a) + Len(b) BY <1>1, <2>1, <2>2, <2>3
  <2>. QED BY <2>4 DEF n
<1>3. ASSUME ~(Ceiling(b) - DigitAt(a, 1) > 1)
      PROVE  Len(Rest(a, 1)) + Len(Open) < Len(a) + Len(b)
  <2>1. Len(a) = 0 => DigitAt(a, 1) = 0 BY DEF DigitAt
  <2>2. Len(a) = 0 => b # Open BY <1>3, <2>1, BoundsAre, DigitsAre
  <2>3. Len(a) + Len(b) > 0 BY <1>1, <2>2, KeyIs
  <2>. QED BY <1>1, <2>3, RestIs, OpenIs
<1>. QED BY <1>2, <1>3

LEMMA MidBodyTyped ==
    ASSUME NEW a \in Keys, NEW b \in Keys, NEW g,
           \A c, d \in Keys : Len(c) + Len(d) < Len(a) + Len(b) => g[<<c, d>>] \in Keys
    PROVE  MidBody(a, b, g) \in Keys
<1>1. Shared(a, b) \in 0 .. Len(b) /\ Len(b) \in Nat /\ Shared(a, b) \in Nat BY SharedIs, KeyIs
<1>2. CASE Shared(a, b) > 0
  <2>1. /\ Rest(a, Shared(a, b)) \in Keys /\ Rest(b, Shared(a, b)) \in Keys
        /\ SubSeq(b, 1, Shared(a, b)) \in Keys
      BY <1>1, RestIs, FrontIs
  <2>2. g[<<Rest(a, Shared(a, b)), Rest(b, Shared(a, b))>>] \in Keys BY <1>2, <2>1, MidShrinks
  <2>. QED BY <1>2, <2>1, <2>2, JoinIs DEF MidBody
<1>3. CASE ~(Shared(a, b) > 0)
  <2>1. /\ DigitAt(a, 1) \in 0 .. Base - 1 /\ Ceiling(b) \in 0 .. Base /\ Base \in Nat
        /\ b # Open => Ceiling(b) \in Digits
      BY BoundsAre, DigitsAre
  <2>2. Ceiling(b) - DigitAt(a, 1) > 1 => (DigitAt(a, 1) + Ceiling(b)) \div 2 \in Digits
      BY <2>1, DigitsAre
  <2>3. Len(b) > 1 => Ceiling(b) \in Digits BY <2>1, OpenIs
  <2>4. Rest(a, 1) \in Keys /\ Open \in Keys BY RestIs, OpenIs
  <2>5. ~(Ceiling(b) - DigitAt(a, 1) > 1) => g[<<Rest(a, 1), Open>>] \in Keys
      BY <1>1, <1>3, <2>4, MidShrinks
  <2>6. ~(Ceiling(b) - DigitAt(a, 1) > 1) => <<DigitAt(a, 1)>> \o g[<<Rest(a, 1), Open>>] \in Keys
      BY <2>5, BoundsAre, OneDigit, JoinIs
  <2>. QED BY <1>3, <2>2, <2>3, <2>6, OneDigit DEF MidBody
<1>. QED BY <1>2, <1>3

LEMMA MidpointIs ==
    /\ Midpoint \in [Keys \X Keys -> Keys]
    /\ \A a, b \in Keys : Midpoint[<<a, b>>] = MidBody(a, b, Midpoint)
<1>. DEFINE D == Keys \X Keys
            size == [x \in D |-> Len(x[1]) + Len(x[2])]
            step == [x \in D |-> [g \in [D -> Keys] |-> MidBody(x[1], x[2], g)]]
<1>1. size \in [D -> Nat]
  <2>1. \A x \in D : Len(x[1]) + Len(x[2]) \in Nat BY KeyIs
  <2>. QED BY <2>1
<1>2. step \in [D -> [[D -> Keys] -> Keys]]
  <2>1. \A x \in D : \A g \in [D -> Keys] : MidBody(x[1], x[2], g) \in Keys BY MidBodyTyped
  <2>. QED BY <2>1
<1>3. ASSUME NEW a \in Keys, NEW b \in Keys, NEW g, NEW h,
             \A c, d \in Keys : Len(c) + Len(d) < Len(a) + Len(b) => g[<<c, d>>] = h[<<c, d>>]
      PROVE  MidBody(a, b, g) = MidBody(a, b, h)
  <2>1. Shared(a, b) \in Nat BY SharedIs, KeyIs
  <2>2. CASE Shared(a, b) > 0
    <3>1. Rest(a, Shared(a, b)) \in Keys /\ Rest(b, Shared(a, b)) \in Keys BY <2>1, RestIs
    <3>. QED BY <1>3, <2>2, <3>1, MidShrinks DEF MidBody
  <2>3. CASE Shared(a, b) = 0
    <3>1. Rest(a, 1) \in Keys /\ Open \in Keys BY RestIs, OpenIs
    <3>. QED BY <1>3, <2>3, <3>1, MidShrinks DEF MidBody
  <2>. QED BY <2>1, <2>2, <2>3
<1>4. \A x \in D : \A g \in [D -> Keys] : step[x][g] = MidBody(x[1], x[2], g) OBVIOUS
<1>5. \A a, b \in Keys : <<a, b>> \in D /\ size[<<a, b>>] = Len(a) + Len(b) OBVIOUS
<1>6. LooksBack(D, Keys, size, step)
  <2>. HIDE DEF size, step
  <2>1. SUFFICES ASSUME NEW x \in D, NEW g \in [D -> Keys], NEW h \in [D -> Keys],
                        \A y \in D : size[y] < size[x] => g[y] = h[y]
                 PROVE  step[x][g] = step[x][h]
      BY DEF LooksBack
  <2>2. PICK a \in Keys, b \in Keys : x = <<a, b>> OBVIOUS
  <2>3. \A c, d \in Keys : Len(c) + Len(d) < Len(a) + Len(b) => g[<<c, d>>] = h[<<c, d>>]
      BY <1>5, <2>1, <2>2
  <2>4. MidBody(a, b, g) = MidBody(a, b, h) BY <1>3, <2>3
  <2>5. x[1] = a /\ x[2] = b BY <2>2
  <2>6. step[x][g] = MidBody(a, b, g) /\ step[x][h] = MidBody(a, b, h) BY <1>4, <2>5
  <2>. QED BY <2>4, <2>6
<1>7. \E f \in [D -> Keys] : \A x \in D : f[x] = step[x][f]
  <2>1. Keys # {} BY OpenIs
  <2>2. Recursive(D, Keys, size, step)
    <3>. HIDE DEF D, size, step
    <3>. QED BY <1>1, <1>2, <1>6, <2>1 DEF Recursive
  <2>. HIDE DEF D, size, step
  <2>3. Solvable(D, Keys, step) BY <2>2, RecursionExists
  <2>. QED BY <2>3 DEF Solvable
<1>8. PICK f \in [D -> Keys] : \A x \in D : f[x] = MidBody(x[1], x[2], f) BY <1>4, <1>7
<1>9. f = [x \in D |-> MidBody(x[1], x[2], f)] BY <1>8
<1>10. Midpoint = CHOOSE g : g = [x \in D |-> MidBody(x[1], x[2], g)]
    BY DEF Midpoint, MidBody, Ceiling
<1>11. Midpoint = [x \in D |-> MidBody(x[1], x[2], Midpoint)] BY <1>9, <1>10
<1>12. \A a, b \in Keys : Midpoint[<<a, b>>] = MidBody(a, b, Midpoint) BY <1>11
<1>13. ASSUME NEW Bad \in SUBSET D, Bad = {x \in D : Midpoint[x] \notin Keys} PROVE Bad = {}
  <2>1. SUFFICES ASSUME Bad # {} PROVE FALSE OBVIOUS
  <2>2. PICK x \in Bad : \A y \in D : size[y] < size[x] => y \notin Bad
    <3>. HIDE DEF D, size
    <3>. QED BY <1>1, <2>1, LeastSize
  <2>3. PICK a \in Keys, b \in Keys : x = <<a, b>> OBVIOUS
  <2>4. \A c, d \in Keys : Len(c) + Len(d) < Len(a) + Len(b) => Midpoint[<<c, d>>] \in Keys
    <3>. HIDE DEF size
    <3>. QED BY <1>5, <1>13, <2>2, <2>3
  <2>5. MidBody(a, b, Midpoint) \in Keys BY <2>4, MidBodyTyped
  <2>. QED BY <1>12, <1>13, <2>3, <2>5
<1>14. \A x \in D : Midpoint[x] \in Keys BY <1>13
<1>. QED BY <1>11, <1>12, <1>14

-----------------------------------------------------------------------------
(* _midpoint: its key lies strictly between, ends in no zero and is at most   *)
(* one digit longer than its neighbours.                                      *)

LEMMA SplitIs ==
    ASSUME NEW k \in Keys, NEW f \in Keys, Len(f) <= Len(k), \A m \in 1 .. Len(f) : k[m] = f[m]
    PROVE  k = f \o Rest(k, Len(f))
<1>1. Len(k) \in Nat /\ Len(f) \in Nat BY KeyIs
<1>. DEFINE r == Rest(k, Len(f))
<1>2. r \in Keys /\ Len(r) = Len(k) - Len(f) /\ \A m \in 1 .. Len(k) - Len(f) : r[m] = k[Len(f) + m]
    BY <1>1, RestIs
<1>. HIDE DEF r
<1>3. /\ f \o r \in Keys /\ Len(f \o r) = Len(k)
      /\ \A n \in 1 .. Len(f) : (f \o r)[n] = f[n]
      /\ \A n \in 1 .. Len(r) : (f \o r)[Len(f) + n] = r[n]
    BY <1>1, <1>2, JoinIs
<1>4. ASSUME NEW n \in 1 .. Len(k) PROVE k[n] = (f \o r)[n]
  <2>1. CASE n <= Len(f) BY <1>1, <1>3, <2>1
  <2>2. CASE ~(n <= Len(f))
    <3>1. n - Len(f) \in 1 .. Len(r) /\ Len(f) + (n - Len(f)) = n BY <1>1, <1>2, <2>2
    <3>2. (f \o r)[n] = r[n - Len(f)] BY <1>3, <3>1
    <3>3. r[n - Len(f)] = k[n] BY <1>2, <3>1
    <3>. QED BY <3>2, <3>3
  <2>. QED BY <2>1, <2>2
<1>5. k = f \o r BY <1>3, <1>4, SameKey
<1>. QED BY <1>5 DEF r

\* What two keys have in common at the front does not matter.
LEMMA LessAfter ==
    ASSUME NEW f \in Keys, NEW x \in Keys, NEW y \in Keys
    PROVE  Less(f \o x, f \o y) <=> Less(x, y)
<1>1. Len(f) \in Nat /\ Len(x) \in Nat /\ Len(y) \in Nat /\ \A n \in 1 .. Len(f) : f[n] \in Int
    BY KeyIs, DigitsAre
<1>. DEFINE a == f \o x
            b == f \o y
<1>2. /\ a \in Keys /\ Len(a) = Len(f) + Len(x)
      /\ \A n \in 1 .. Len(f) : a[n] = f[n]
      /\ \A n \in 1 .. Len(x) : a[Len(f) + n] = x[n]
    BY JoinIs
<1>3. /\ b \in Keys /\ Len(b) = Len(f) + Len(y)
      /\ \A n \in 1 .. Len(f) : b[n] = f[n]
      /\ \A n \in 1 .. Len(y) : b[Len(f) + n] = y[n]
    BY JoinIs
<1>. HIDE DEF a, b
<1>4. ASSUME NEW n \in 1 .. Len(y), LessAt(x, y, n) PROVE Less(a, b)
  <2>1. n <= Len(x) + 1 /\ (\A m \in 1 .. n - 1 : x[m] = y[m]) /\ (n <= Len(x) => x[n] < y[n])
      BY <1>4 DEF LessAt
  <2>2. Len(f) + n \in 1 .. Len(b) /\ Len(f) + n <= Len(a) + 1 BY <1>1, <1>2, <1>3, <2>1
  <2>3. ASSUME NEW m \in 1 .. (Len(f) + n) - 1 PROVE a[m] = b[m]
    <3>1. CASE m <= Len(f) BY <1>1, <1>2, <1>3, <3>1
    <3>2. CASE m > Len(f)
      <4>1. m - Len(f) \in 1 .. n - 1 /\ m - Len(f) \in 1 .. Len(x) /\ m - Len(f) \in 1 .. Len(y)
            /\ Len(f) + (m - Len(f)) = m
          BY <1>1, <2>1, <3>2
      <4>2. a[m] = x[m - Len(f)] /\ b[m] = y[m - Len(f)] BY <1>2, <1>3, <4>1
      <4>. QED BY <2>1, <4>1, <4>2
    <3>. QED BY <1>1, <3>1, <3>2
  <2>4. ASSUME Len(f) + n <= Len(a) PROVE a[Len(f) + n] < b[Len(f) + n]
    <3>1. n \in 1 .. Len(x) BY <1>1, <1>2, <2>4
    <3>. QED BY <1>1, <1>2, <1>3, <2>1, <3>1
  <2>5. LessAt(a, b, Len(f) + n) BY <2>2, <2>3, <2>4 DEF LessAt
  <2>. QED BY <1>2, <1>3, <2>2, <2>5, LessIs
<1>5. ASSUME NEW n \in 1 .. Len(b), LessAt(a, b, n) PROVE Less(x, y)
  <2>1. n <= Len(a) + 1 /\ (\A m \in 1 .. n - 1 : a[m] = b[m]) /\ (n <= Len(a) => a[n] < b[n])
      BY <1>5 DEF LessAt
  <2>2. n > Len(f)
    <3>1. SUFFICES ASSUME n \in 1 .. Len(f) PROVE FALSE BY <1>1, <1>3
    <3>. QED BY <1>1, <1>2, <1>3, <2>1, <3>1
  <2>. DEFINE l == n - Len(f)
  <2>3. l \in 1 .. Len(y) /\ n = Len(f) + l /\ l <= Len(x) + 1 BY <1>1, <1>2, <1>3, <2>1, <2>2
  <2>. HIDE DEF l
  <2>4. ASSUME NEW m \in 1 .. l - 1 PROVE x[m] = y[m]
    <3>1. m \in 1 .. Len(x) /\ m \in 1 .. Len(y) /\ Len(f) + m \in 1 .. n - 1 BY <1>1, <2>3
    <3>. QED BY <1>2, <1>3, <2>1, <3>1
  <2>5. ASSUME l <= Len(x) PROVE x[l] < y[l]
    <3>1. l \in 1 .. Len(x) /\ n <= Len(a) BY <1>1, <1>2, <2>3, <2>5
    <3>. QED BY <1>2, <1>3, <2>1, <2>3, <3>1
  <2>6. LessAt(x, y, l) BY <2>3, <2>4, <2>5 DEF LessAt
  <2>. QED BY <2>3, <2>6, LessIs
<1>6. Less(a, b) <=> Less(x, y) BY <1>2, <1>3, <1>4, <1>5, LessIs
<1>. QED BY <1>6 DEF a, b

Sound(k)  == k \in Keys /\ k # Open /\ k[Len(k)] # 0
Gap(a, b) == a \in Keys /\ b \in Keys /\ (b # Open => b[Len(b)] # 0 /\ Less(a, b))
Between(a, k, b) ==
    /\ Sound(k) /\ Less(a, k) /\ (b # Open => Less(k, b))
    /\ Len(k) <= Len(a) + 1 \/ Len(k) <= Len(b) + 1

\* The two share the first digits of b.
LEMMA SharedStep ==
    ASSUME NEW a \in Keys, NEW b \in Keys, Gap(a, b), Shared(a, b) > 0,
           NEW k \in Keys,
           Gap(Rest(a, Shared(a, b)), Rest(b, Shared(a, b)))
               => Between(Rest(a, Shared(a, b)), k, Rest(b, Shared(a, b)))
    PROVE  Between(a, SubSeq(b, 1, Shared(a, b)) \o k, b)
<1>. DEFINE n == Shared(a, b)
            f == SubSeq(b, 1, n)
            c == Rest(a, n)
            d == Rest(b, n)
<1>1. Len(a) \in Nat /\ Len(b) \in Nat /\ Len(k) \in Nat BY KeyIs
<1>2. n \in 1 .. Len(b) /\ \A m \in 1 .. n : DigitAt(a, m) = b[m] BY <1>1, SharedIs
<1>3. f \in Keys /\ Len(f) = n /\ \A m \in 1 .. n : f[m] = b[m] BY <1>2, FrontIs
<1>4. /\ c \in Keys /\ Len(c) = IF n <= Len(a) THEN Len(a) - n ELSE 0
      /\ d \in Keys /\ Len(d) = Len(b) - n
      /\ \A m \in 1 .. Len(b) - n : d[m] = b[n + m]
  <2>1. n \in Nat /\ n <= Len(b) BY <1>1, <1>2
  <2>. HIDE DEF n
  <2>2. c \in Keys /\ Len(c) = IF n <= Len(a) THEN Len(a) - n ELSE 0 BY <2>1, RestIs
  <2>3. /\ d \in Keys /\ Len(d) = IF n <= Len(b) THEN Len(b) - n ELSE 0
        /\ \A m \in 1 .. Len(b) - n : d[m] = b[n + m]
      BY <2>1, RestIs
  <2>. HIDE DEF c, d
  <2>. QED BY <2>1, <2>2, <2>3
<1>5. Gap(c, d) => Between(c, k, d) OBVIOUS
<1>. HIDE DEF n, f, c, d
<1>6. b # Open /\ b[Len(b)] # 0 /\ Less(a, b) BY <1>1, <1>2, KeyIs DEF Gap
<1>7. b = f \o d
  <2>1. Len(f) <= Len(b) /\ \A m \in 1 .. Len(f) : b[m] = f[m] BY <1>1, <1>2, <1>3
  <2>2. b = f \o Rest(b, Len(f)) BY <1>3, <2>1, SplitIs
  <2>. QED BY <1>3, <2>2 DEF d
<1>8. CASE n <= Len(a)
  <2>1. \A m \in 1 .. n : a[m] = f[m] BY <1>2, <1>3, <1>8 DEF DigitAt
  <2>2. a = f \o c BY <1>1, <1>2, <1>3, <1>8, <2>1, SplitIs DEF c
  <2>3. Less(c, d) BY <1>3, <1>4, <1>6, <1>7, <2>2, LessAfter
  <2>4. d # Open
    <3>1. SUFFICES ASSUME d = Open PROVE FALSE OBVIOUS
    <3>2. Len(d) = 0 BY <3>1, OpenIs
    <3>. QED BY <1>4, <2>3, <3>2, LessIs
  <2>5. Len(d) \in Nat /\ Len(d) # 0 BY <1>4, <2>4, KeyIs
  <2>6. d[Len(d)] = b[Len(b)] BY <1>1, <1>2, <1>4, <2>5
  <2>7. Between(c, k, d) BY <1>4, <1>5, <1>6, <2>3, <2>6 DEF Gap
  <2>8. Less(a, f \o k) /\ Less(f \o k, b)
      BY <1>3, <1>4, <1>7, <2>2, <2>4, <2>7, LessAfter DEF Between
  <2>9. f \o k \in Keys /\ Len(f \o k) = n + Len(k) /\ (\A m \in 1 .. Len(k) : (f \o k)[n + m] = k[m])
      BY <1>3, JoinIs
  <2>10. k # Open /\ Len(k) # 0 /\ k[Len(k)] # 0 BY <2>7, KeyIs DEF Between, Sound
  <2>11. f \o k # Open /\ (f \o k)[Len(f \o k)] # 0 BY <1>1, <1>2, <2>9, <2>10, OpenIs
  <2>12. Len(f \o k) <= Len(a) + 1 \/ Len(f \o k) <= Len(b) + 1
      BY <1>1, <1>2, <1>4, <1>8, <2>7, <2>9 DEF Between
  <2>. QED BY <2>8, <2>9, <2>11, <2>12 DEF Between, Sound, n, f
<1>9. CASE n > Len(a)
  <2>1. c = Open BY <1>1, <1>2, <1>4, <1>9, KeyIs
  <2>2. n < Len(b)
    <3>1. SUFFICES ASSUME n = Len(b) PROVE FALSE BY <1>1, <1>2
    <3>2. DigitAt(a, n) = 0 BY <1>1, <1>2, <1>9 DEF DigitAt
    <3>. QED BY <1>2, <1>6, <3>1, <3>2
  <2>3. Len(d) \in Nat /\ Len(d) # 0 /\ d # Open BY <1>1, <1>2, <1>4, <2>2, KeyIs
  <2>4. d[Len(d)] = b[Len(b)] BY <1>1, <1>2, <1>4, <2>3
  <2>5. Less(c, d)
    <3>1. LessAt(c, d, 1) BY <2>1, <2>3, OpenIs DEF LessAt
    <3>. QED BY <1>4, <2>3, <3>1, LessIs
  <2>6. Between(c, k, d) BY <1>4, <1>5, <1>6, <2>4, <2>5 DEF Gap
  <2>7. Less(f \o k, b) BY <1>3, <1>4, <1>7, <2>3, <2>6, LessAfter DEF Between
  <2>8. /\ f \o k \in Keys /\ Len(f \o k) = n + Len(k)
        /\ \A m \in 1 .. n : (f \o k)[m] = f[m]
        /\ \A m \in 1 .. Len(k) : (f \o k)[n + m] = k[m]
      BY <1>3, JoinIs
  <2>9. Less(a, f \o k)
    <3>1. \A m \in 1 .. Len(a) : a[m] = (f \o k)[m] BY <1>1, <1>2, <1>3, <1>9, <2>8 DEF DigitAt
    <3>2. LessAt(a, f \o k, Len(a) + 1) BY <1>1, <1>2, <1>9, <2>8, <3>1 DEF LessAt
    <3>3. Len(a) + 1 \in 1 .. Len(f \o k) BY <3>2 DEF LessAt
    <3>. QED BY <2>8, <3>2, <3>3, LessIs
  <2>10. k # Open /\ Len(k) # 0 /\ k[Len(k)] # 0 BY <2>6, KeyIs DEF Between, Sound
  <2>11. f \o k # Open /\ (f \o k)[Len(f \o k)] # 0 BY <1>1, <1>2, <2>8, <2>10, OpenIs
  <2>12. Len(f \o k) <= Len(b) + 1
      BY <1>1, <1>2, <1>4, <2>1, <2>2, <2>6, <2>8, OpenIs DEF Between
  <2>. QED BY <2>7, <2>8, <2>9, <2>11, <2>12 DEF Between, Sound, n, f
<1>. QED BY <1>1, <1>2, <1>8, <1>9

\* Without one, a's first digit is the smaller.
LEMMA FirstDigits ==
    ASSUME NEW a \in Keys, NEW b \in Keys, Gap(a, b), Shared(a, b) = 0
    PROVE  DigitAt(a, 1) < Ceiling(b)
<1>1. Len(a) \in Nat /\ Len(b) \in Nat /\ DigitAt(a, 1) \in 0 .. Base - 1 /\ Base \in Nat
    BY KeyIs, BoundsAre, DigitsAre
<1>2. CASE b = Open BY <1>1, <1>2, BoundsAre
<1>3. CASE b # Open
  <2>1. Ceiling(b) = b[1] /\ Len(b) >= 1 /\ b[1] \in 0 .. Base - 1 BY <1>3, BoundsAre, DigitsAre
  <2>2. DigitAt(a, 1) # b[1] BY <1>1, <2>1, SharedIs
  <2>3. PICK n \in 1 .. Len(b) : LessAt(a, b, n) BY <1>3, LessIs DEF Gap
  <2>4. CASE Len(a) = 0 BY <1>1, <2>1, <2>2, <2>4 DEF DigitAt
  <2>5. CASE Len(a) # 0
    <3>1. DigitAt(a, 1) = a[1] BY <1>1, <2>5 DEF DigitAt
    <3>2. n = 1
      <4>1. n # 1 => 1 \in 1 .. n - 1 OBVIOUS
      <4>. QED BY <2>2, <2>3, <3>1, <4>1 DEF LessAt
    <3>. QED BY <1>1, <2>1, <2>3, <2>5, <3>1, <3>2 DEF LessAt
  <2>. QED BY <2>4, <2>5
<1>. QED BY <1>2, <1>3

\* A key with a larger first digit is above a.
LEMMA AboveFirst ==
    ASSUME NEW a \in Keys, NEW k \in Keys, Len(k) >= 1, DigitAt(a, 1) < k[1]
    PROVE  Less(a, k)
<1>1. Len(a) \in Nat /\ Len(k) \in Nat BY KeyIs
<1>2. LessAt(a, k, 1) BY <1>1 DEF LessAt, DigitAt
<1>. QED BY <1>1, <1>2, LessIs

LEMMA OneDigitStep ==
    ASSUME NEW a \in Keys, NEW b \in Keys, Gap(a, b), Shared(a, b) = 0,
           NEW d \in Digits, DigitAt(a, 1) < d,
           d < Ceiling(b) \/ (d = Ceiling(b) /\ Len(b) > 1)
    PROVE  Between(a, <<d>>, b)
<1>1. /\ Len(a) \in Nat /\ Len(b) \in Nat /\ DigitAt(a, 1) \in 0 .. Base - 1 /\ d \in 0 .. Base - 1
      /\ Base \in Nat
    BY KeyIs, BoundsAre, DigitsAre
<1>2. <<d>> \in Keys /\ Len(<<d>>) = 1 /\ <<d>>[1] = d BY OneDigit
<1>3. Sound(<<d>>) BY <1>1, <1>2, OpenIs DEF Sound
<1>4. Less(a, <<d>>) BY <1>2, AboveFirst
<1>5. ASSUME b # Open PROVE Less(<<d>>, b)
  <2>1. Ceiling(b) = b[1] /\ b[1] \in 0 .. Base - 1 /\ Len(b) >= 1 BY <1>5, BoundsAre, DigitsAre
  <2>2. CASE d < b[1]
    <3>1. LessAt(<<d>>, b, 1) BY <1>1, <1>2, <2>1, <2>2 DEF LessAt
    <3>. QED BY <1>1, <1>2, <2>1, <3>1, LessIs
  <2>3. CASE d = b[1] /\ Len(b) > 1
    <3>1. LessAt(<<d>>, b, 2) BY <1>1, <1>2, <2>3 DEF LessAt
    <3>. QED BY <1>1, <1>2, <2>3, <3>1, LessIs
  <2>. QED BY <2>1, <2>2, <2>3
<1>6. Len(<<d>>) <= Len(a) + 1 BY <1>1, <1>2
<1>. QED BY <1>3, <1>4, <1>5, <1>6 DEF Between

\* There is no room in the first digit.
LEMMA NextDigitStep ==
    ASSUME NEW a \in Keys, NEW b \in Keys, Gap(a, b), Shared(a, b) = 0,
           ~(Ceiling(b) - DigitAt(a, 1) > 1),
           NEW k \in Keys, Between(Rest(a, 1), k, Open)
    PROVE  Between(a, <<DigitAt(a, 1)>> \o k, b)
<1>. DEFINE f == <<DigitAt(a, 1)>>
            c == Rest(a, 1)
<1>1. /\ Len(a) \in Nat /\ Len(b) \in Nat /\ DigitAt(a, 1) \in Digits /\ Len(k) \in Nat
      /\ DigitAt(a, 1) \in 0 .. Base - 1 /\ Base \in Nat
    BY KeyIs, BoundsAre, DigitsAre
<1>2. f \in Keys /\ Len(f) = 1 /\ f[1] = DigitAt(a, 1) BY <1>1, OneDigit
<1>3. c \in Keys /\ Len(c) = IF 1 <= Len(a) THEN Len(a) - 1 ELSE 0 BY RestIs
<1>4. Between(c, k, Open) OBVIOUS
<1>. HIDE DEF f, c
<1>5. /\ f \o k \in Keys /\ Len(f \o k) = 1 + Len(k)
      /\ (f \o k)[1] = DigitAt(a, 1)
      /\ \A n \in 1 .. Len(k) : (f \o k)[1 + n] = k[n]
  <2>1. /\ f \o k \in Keys /\ Len(f \o k) = Len(f) + Len(k)
        /\ \A n \in 1 .. Len(f) : (f \o k)[n] = f[n]
        /\ \A n \in 1 .. Len(k) : (f \o k)[Len(f) + n] = k[n]
      BY <1>2, JoinIs
  <2>2. 1 \in 1 .. Len(f) BY <1>2
  <2>. QED BY <1>2, <2>1, <2>2
<1>6. Sound(k) /\ Less(c, k) /\ (Len(k) <= Len(c) + 1 \/ Len(k) <= 1) BY <1>4, OpenIs DEF Between
<1>7. Len(k) # 0 /\ k[Len(k)] # 0 BY <1>6, KeyIs DEF Sound
<1>8. (f \o k)[Len(f \o k)] # 0 BY <1>1, <1>5, <1>7
<1>9. Sound(f \o k) BY <1>1, <1>5, <1>8, OpenIs DEF Sound
<1>10. Less(a, f \o k)
  <2>1. CASE Len(a) = 0
    <3>1. LessAt(a, f \o k, 1) BY <1>1, <1>5, <2>1 DEF LessAt
    <3>2. 1 \in 1 .. Len(f \o k) BY <1>1, <1>5
    <3>. QED BY <1>5, <3>1, <3>2, LessIs
  <2>2. CASE Len(a) # 0
    <3>1. DigitAt(a, 1) = a[1] /\ Len(f) <= Len(a) BY <1>1, <1>2, <2>2 DEF DigitAt
    <3>2. \A m \in 1 .. Len(f) : a[m] = f[m] BY <1>2, <3>1
    <3>3. a = f \o Rest(a, Len(f)) BY <1>2, <3>1, <3>2, SplitIs
    <3>4. a = f \o c BY <1>2, <3>3 DEF c
    <3>. QED BY <1>2, <1>3, <1>6, <3>4, LessAfter
  <2>. QED BY <2>1, <2>2
<1>11. ASSUME b # Open PROVE Less(f \o k, b)
  <2>1. Ceiling(b) = b[1] /\ Len(b) >= 1 BY <1>11, BoundsAre
  <2>2. (f \o k)[1] < b[1] BY <1>5, <2>1, FirstDigits
  <2>3. LessAt(f \o k, b, 1) BY <1>1, <1>5, <2>1, <2>2 DEF LessAt
  <2>. QED BY <1>1, <1>5, <2>1, <2>3, LessIs
<1>12. Len(f \o k) <= Len(a) + 1 \/ Len(f \o k) <= Len(b) + 1
  <2>1. CASE Len(a) # 0 BY <1>1, <1>3, <1>5, <1>6, <2>1
  <2>2. CASE Len(a) = 0
    <3>1. b # Open
      <4>1. DigitAt(a, 1) = 0 BY <2>2 DEF DigitAt
      <4>. QED BY <4>1, BoundsAre, DigitsAre
    <3>2. Len(b) # 0 BY <3>1, KeyIs
    <3>. QED BY <1>1, <1>3, <1>5, <1>6, <2>2, <3>2
  <2>. QED BY <2>1, <2>2
<1>. QED BY <1>9, <1>10, <1>11, <1>12 DEF Between, f

LEMMA GapToEnd ==
    ASSUME NEW a \in Keys PROVE Gap(a, Open)
BY OpenIs DEF Gap

\* The key that _midpoint makes ("A key strictly between a and b").
LEMMA MidpointBetween ==
    ASSUME NEW a \in Keys, NEW b \in Keys, Gap(a, b)
    PROVE  Between(a, Midpoint[<<a, b>>], b)
<1>. DEFINE D == Keys \X Keys
            size == [x \in D |-> Len(x[1]) + Len(x[2])]
            Bad == {x \in D : Gap(x[1], x[2]) /\ ~Between(x[1], Midpoint[x], x[2])}
<1>1. \A c, d \in Keys : <<c, d>> \in D /\ size[<<c, d>>] = Len(c) + Len(d) OBVIOUS
<1>2. \A c, d \in Keys : <<c, d>> \in Bad <=> Gap(c, d) /\ ~Between(c, Midpoint[<<c, d>>], d) OBVIOUS
<1>3. SUFFICES ASSUME Bad # {} PROVE FALSE BY <1>2
<1>4. PICK x \in Bad : \A y \in D : size[y] < size[x] => y \notin Bad
  <2>1. size \in [D -> Nat]
    <3>1. \A y \in D : Len(y[1]) + Len(y[2]) \in Nat BY KeyIs
    <3>. QED BY <3>1
  <2>2. Bad \in SUBSET D OBVIOUS
  <2>. HIDE DEF D, size, Bad
  <2>. QED BY <1>3, <2>1, <2>2, LeastSize
<1>5. PICK c \in Keys, d \in Keys : x = <<c, d>> OBVIOUS
<1>. HIDE DEF size, Bad
<1>6. Gap(c, d) /\ ~Between(c, Midpoint[<<c, d>>], d) BY <1>2, <1>5
<1>7. ASSUME NEW u \in Keys, NEW v \in Keys, Len(u) + Len(v) < Len(c) + Len(d), Gap(u, v)
      PROVE  Between(u, Midpoint[<<u, v>>], v)
  <2>1. size[<<u, v>>] < size[x] BY <1>1, <1>5, <1>7
  <2>. QED BY <1>1, <1>2, <1>4, <1>7, <2>1
<1>8. Midpoint[<<c, d>>] = MidBody(c, d, Midpoint) /\ \A u, v \in Keys : Midpoint[<<u, v>>] \in Keys
    BY MidpointIs
<1>9. Shared(c, d) \in 0 .. Len(d) /\ Len(d) \in Nat /\ Shared(c, d) \in Nat BY SharedIs, KeyIs
<1>10. CASE Shared(c, d) > 0
  <2>. DEFINE u == Rest(c, Shared(c, d))
              v == Rest(d, Shared(c, d))
  <2>1. u \in Keys /\ v \in Keys BY <1>9, RestIs
  <2>2. Len(u) + Len(v) < Len(c) + Len(d) BY <1>10, MidShrinks
  <2>3. Gap(u, v) => Between(u, Midpoint[<<u, v>>], v) BY <1>7, <2>1, <2>2
  <2>4. Midpoint[<<u, v>>] \in Keys BY <1>8, <2>1
  <2>5. Between(c, SubSeq(d, 1, Shared(c, d)) \o Midpoint[<<u, v>>], d)
      BY <1>6, <1>10, <2>3, <2>4, SharedStep
  <2>6. Midpoint[<<c, d>>] = SubSeq(d, 1, Shared(c, d)) \o Midpoint[<<u, v>>]
      BY <1>8, <1>10 DEF MidBody
  <2>. QED BY <1>6, <2>5, <2>6
<1>11. CASE Shared(c, d) = 0
  <2>1. /\ DigitAt(c, 1) \in 0 .. Base - 1 /\ Ceiling(d) \in 0 .. Base /\ Base \in Nat
        /\ DigitAt(c, 1) < Ceiling(d) /\ (d # Open => Ceiling(d) \in Digits)
      BY <1>6, <1>11, BoundsAre, DigitsAre, FirstDigits
  <2>2. CASE Ceiling(d) - DigitAt(c, 1) > 1
    <3>. DEFINE m == (DigitAt(c, 1) + Ceiling(d)) \div 2
    <3>1. m \in Digits /\ DigitAt(c, 1) < m /\ m < Ceiling(d) BY <2>1, <2>2, DigitsAre
    <3>2. Midpoint[<<c, d>>] = <<m>> BY <1>8, <1>11, <2>2 DEF MidBody
    <3>. HIDE DEF m
    <3>. QED BY <1>6, <1>11, <3>1, <3>2, OneDigitStep
  <2>3. CASE ~(Ceiling(d) - DigitAt(c, 1) > 1) /\ Len(d) > 1
    <3>1. d # Open BY <2>3, OpenIs
    <3>2. Midpoint[<<c, d>>] = <<Ceiling(d)>> BY <1>8, <1>11, <2>3 DEF MidBody
    <3>. QED BY <1>6, <1>11, <2>1, <2>3, <3>1, <3>2, OneDigitStep
  <2>4. CASE ~(Ceiling(d) - DigitAt(c, 1) > 1) /\ ~(Len(d) > 1)
    <3>1. Rest(c, 1) \in Keys /\ Open \in Keys BY RestIs, OpenIs
    <3>2. Len(Rest(c, 1)) + Len(Open) < Len(c) + Len(d) BY <1>11, <2>4, MidShrinks
    <3>3. Between(Rest(c, 1), Midpoint[<<Rest(c, 1), Open>>], Open) BY <1>7, <3>1, <3>2, GapToEnd
    <3>4. Midpoint[<<c, d>>] = <<DigitAt(c, 1)>> \o Midpoint[<<Rest(c, 1), Open>>]
        BY <1>8, <1>11, <2>4 DEF MidBody
    <3>5. Midpoint[<<Rest(c, 1), Open>>] \in Keys BY <1>8, <3>1
    <3>. QED BY <1>6, <1>11, <2>4, <3>3, <3>4, <3>5, NextDigitStep
  <2>. QED BY <2>2, <2>3, <2>4
<1>. QED BY <1>9, <1>10, <1>11

-----------------------------------------------------------------------------
(* key_between.                                                               *)

LEMMA PrefixShorter ==
    ASSUME NEW k \in Keys, NEW l \in Keys, NEW b \in Keys,
           IsPrefix(k, b), IsPrefix(l, b), Less(k, l)
    PROVE  Len(k) < Len(l)
<1>1. Len(k) \in Nat /\ Len(l) \in Nat /\ \A n \in 1 .. Len(l) : l[n] \in Int BY KeyIs, DigitsAre
<1>2. (\A n \in 1 .. Len(k) : k[n] = b[n]) /\ (\A n \in 1 .. Len(l) : l[n] = b[n]) BY PrefixIs
<1>3. PICK n \in 1 .. Len(l) : LessAt(k, l, n) BY LessIs
<1>4. ~(n <= Len(k))
  <2>1. SUFFICES ASSUME n \in 1 .. Len(k) PROVE FALSE BY <1>1
  <2>. QED BY <1>1, <1>2, <1>3, <2>1 DEF LessAt
<1>. QED BY <1>1, <1>3, <1>4

BaseBody(a, b, g, n) ==
    IF n = 0 THEN Midpoint[<<a, b>>]
    ELSE IF IsPrefix(g[n - 1], b) THEN Midpoint[<<a, g[n - 1]>>]
    ELSE g[n - 1]
Bases(a, b) == CHOOSE g : g = [n \in Nat |-> BaseBody(a, b, g, n)]

LEMMA BasesAre ==
    ASSUME NEW a \in Keys, NEW b \in Keys
    PROVE  \A n \in Nat : Bases(a, b)[n] = BaseBody(a, b, Bases(a, b), n)
<1>. DEFINE size == [n \in Nat |-> n]
            step == [n \in Nat |-> [g \in [Nat -> Keys] |-> BaseBody(a, b, g, n)]]
<1>1. \A k \in Keys : Midpoint[<<a, k>>] \in Keys BY MidpointIs
<1>2. step \in [Nat -> [[Nat -> Keys] -> Keys]]
  <2>1. \A n \in Nat : \A g \in [Nat -> Keys] : BaseBody(a, b, g, n) \in Keys
    <3>1. SUFFICES ASSUME NEW n \in Nat, NEW g \in [Nat -> Keys] PROVE BaseBody(a, b, g, n) \in Keys
        OBVIOUS
    <3>2. n # 0 => n - 1 \in Nat OBVIOUS
    <3>. QED BY <1>1, <3>2 DEF BaseBody
  <2>. QED BY <2>1
<1>3. LooksBack(Nat, Keys, size, step)
  <2>1. SUFFICES ASSUME NEW n \in Nat, NEW g \in [Nat -> Keys], NEW h \in [Nat -> Keys],
                        \A m \in Nat : size[m] < size[n] => g[m] = h[m]
                 PROVE  step[n][g] = step[n][h]
    <3>. HIDE DEF size, step
    <3>. QED BY DEF LooksBack
  <2>2. n # 0 => n - 1 \in Nat /\ g[n - 1] = h[n - 1] BY <2>1
  <2>3. BaseBody(a, b, g, n) = BaseBody(a, b, h, n) BY <2>2 DEF BaseBody
  <2>. QED BY <2>3
<1>4. Recursive(Nat, Keys, size, step)
  <2>1. size \in [Nat -> Nat] /\ Keys # {} BY OpenIs
  <2>. HIDE DEF size, step
  <2>. QED BY <1>2, <1>3, <2>1 DEF Recursive
<1>5. Solvable(Nat, Keys, step)
  <2>. HIDE DEF size, step
  <2>. QED BY <1>4, RecursionExists
<1>6. PICK f \in [Nat -> Keys] : \A n \in Nat : f[n] = step[n][f]
  <2>. HIDE DEF step
  <2>. QED BY <1>5 DEF Solvable
<1>7. \A n \in Nat : f[n] = BaseBody(a, b, f, n) BY <1>6
<1>8. f = [n \in Nat |-> BaseBody(a, b, f, n)] BY <1>7
<1>9. Bases(a, b) = [n \in Nat |-> BaseBody(a, b, Bases(a, b), n)] BY <1>8 DEF Bases
<1>. QED BY <1>9

LEMMA ClearIs ==
    ASSUME NEW a \in Keys, NEW b \in Keys
    PROVE  Clear(a, b) = IF b = Open THEN Midpoint[<<a, b>>] ELSE Bases(a, b)[Len(b)]
BY DEF Clear, Bases, BaseBody

\* After n turns the base is between a and b, and when it is a prefix of b still,
\* n digits shorter than it could be.
LEMMA BasesBetween ==
    ASSUME NEW a \in Keys, NEW b \in Keys, Gap(a, b), b # Open
    PROVE  \A n \in Nat : /\ Between(a, Bases(a, b)[n], b)
                          /\ IsPrefix(Bases(a, b)[n], b) => Len(Bases(a, b)[n]) + n < Len(b)
<1>. DEFINE base == Bases(a, b)
            Good(n) == Between(a, base[n], b) /\ (IsPrefix(base[n], b) => Len(base[n]) + n < Len(b))
            T == {n \in Nat : ~Good(n)}
<1>1. \A n \in Nat : base[n] = BaseBody(a, b, base, n) BY BasesAre
<1>. HIDE DEF base
<1>2. Len(a) \in Nat /\ Len(b) \in Nat BY KeyIs
<1>3. IsPrefix(b, b) BY PrefixIs
<1>4. Good(0)
  <2>1. base[0] = Midpoint[<<a, b>>] BY <1>1 DEF BaseBody
  <2>2. Between(a, base[0], b) BY <2>1, MidpointBetween
  <2>3. base[0] \in Keys /\ Less(base[0], b) /\ Len(base[0]) \in Nat BY <2>2, KeyIs DEF Between, Sound
  <2>4. IsPrefix(base[0], b) => Len(base[0]) < Len(b) BY <1>3, <2>3, PrefixShorter
  <2>. QED BY <2>2, <2>3, <2>4
<1>5. ASSUME NEW n \in Nat, Good(n) PROVE Good(n + 1)
  <2>. DEFINE k == base[n]
              l == base[n + 1]
  <2>1. l = IF IsPrefix(k, b) THEN Midpoint[<<a, k>>] ELSE k
    <3>1. n + 1 \in Nat /\ n + 1 # 0 /\ (n + 1) - 1 = n OBVIOUS
    <3>. QED BY <1>1, <3>1 DEF BaseBody
  <2>2. Between(a, k, b) /\ (IsPrefix(k, b) => Len(k) + n < Len(b)) BY <1>5
  <2>. HIDE DEF k, l
  <2>3. k \in Keys /\ k # Open /\ k[Len(k)] # 0 /\ Less(a, k) /\ Less(k, b) /\ Len(k) \in Nat
      BY <2>2, KeyIs DEF Between, Sound
  <2>4. CASE ~IsPrefix(k, b)
    <3>1. Between(a, l, b) /\ ~IsPrefix(l, b) BY <2>1, <2>2, <2>4
    <3>. QED BY <3>1 DEF l
  <2>5. CASE IsPrefix(k, b)
    <3>1. Gap(a, k) BY <2>3 DEF Gap
    <3>2. Between(a, l, k) BY <2>1, <2>3, <2>5, <3>1, MidpointBetween
    <3>3. l \in Keys /\ Sound(l) /\ Less(a, l) /\ Less(l, k) /\ Len(l) \in Nat
        BY <2>3, <3>2, KeyIs DEF Between, Sound
    <3>4. Less(l, b) BY <2>3, <3>3, LessTransitive
    <3>5. Len(l) <= Len(a) + 1 \/ Len(l) <= Len(b) + 1
      <4>1. Len(l) <= Len(a) + 1 \/ Len(l) <= Len(k) + 1 BY <3>2 DEF Between
      <4>2. Len(k) <= Len(b) BY <2>3, <2>5, PrefixIs
      <4>. QED BY <1>2, <2>3, <3>3, <4>1, <4>2
    <3>6. Between(a, l, b) BY <3>3, <3>4, <3>5 DEF Between
    <3>7. ASSUME IsPrefix(l, b) PROVE Len(l) + (n + 1) < Len(b)
      <4>1. Len(l) < Len(k) BY <2>3, <2>5, <3>3, <3>7, PrefixShorter
      <4>. QED BY <1>2, <2>2, <2>3, <2>5, <3>3, <4>1
    <3>. QED BY <3>6, <3>7 DEF l
  <2>. QED BY <2>4, <2>5
<1>6. T = {}
  <2>1. SUFFICES ASSUME T # {} PROVE FALSE OBVIOUS
  <2>2. PICK m \in T : \A j \in T : m <= j
    <3>1. T \in SUBSET Nat OBVIOUS
    <3>. HIDE DEF T
    <3>. QED BY <2>1, <3>1, LeastNat
  <2>. HIDE DEF Good
  <2>3. m \in Nat /\ ~Good(m) BY <2>2
  <2>4. m # 0 BY <1>4, <2>3
  <2>5. m - 1 \in Nat /\ Good(m - 1)
    <3>1. m - 1 \in Nat /\ ~(m <= m - 1) BY <2>3, <2>4
    <3>. QED BY <2>2, <3>1
  <2>6. Good((m - 1) + 1) BY <1>5, <2>5
  <2>. QED BY <2>3, <2>6
<1>7. \A n \in Nat : Good(n) BY <1>6
<1>. QED BY <1>7 DEF base

LEMMA ClearBetween ==
    ASSUME NEW a \in Keys, NEW b \in Keys, Gap(a, b)
    PROVE  Between(a, Clear(a, b), b) /\ (b # Open => ~IsPrefix(Clear(a, b), b))
<1>1. CASE b = Open BY <1>1, ClearIs, MidpointBetween
<1>2. CASE b # Open
  <2>. DEFINE k == Bases(a, b)[Len(b)]
  <2>1. Len(b) \in Nat BY KeyIs
  <2>2. Between(a, k, b) /\ (IsPrefix(k, b) => Len(k) + Len(b) < Len(b)) BY <1>2, <2>1, BasesBetween
  <2>3. Clear(a, b) = k BY <1>2, ClearIs
  <2>. HIDE DEF k
  <2>4. Len(k) \in Nat BY <2>2, KeyIs DEF Between, Sound
  <2>. QED BY <2>1, <2>2, <2>3, <2>4
<1>. QED BY <1>1, <1>2

LEMMA EndingIs ==
    ASSUME NEW s \in Endings
    PROVE  s \in Keys /\ Len(s) = Jitter /\ Jitter \in Nat \ {0} /\ s[Jitter] # 0
<1>1. Jitter \in Nat \ {0} BY KeysAssumption
<1>2. s \in [1 .. Jitter -> Digits] /\ s[Jitter] # 0 BY <1>1 DEF Endings
<1>3. s \in Seq(Digits) BY <1>1, <1>2, SeqDef
<1>4. Len(s) = Jitter
  <2>1. DOMAIN s = 1 .. Jitter /\ DOMAIN s = 1 .. Len(s) /\ Len(s) \in Nat BY <1>2, <1>3, LenProperties
  <2>. QED BY <1>1, <2>1
<1>. QED BY <1>1, <1>2, <1>3, <1>4 DEF Keys

\* key_between keeps its contract for any two neighbours that it accepts, and none
\* of the random digits breaks it: "Return a key k with a < k < b", one that can be
\* a neighbour itself ("Keys never end in the zero digit, which guarantees a key
\* between any two distinct keys exists"), and not much longer than they are.
THEOREM KeyBetweenBetween ==
    ASSUME NEW a \in Keys, NEW b \in Keys, Gap(a, b), NEW k \in KeyBetween(a, b)
    PROVE  /\ Sound(k) /\ Less(a, k) /\ (b # Open => Less(k, b))
           /\ Len(k) <= Len(a) + 1 + Jitter \/ Len(k) <= Len(b) + 1 + Jitter
<1>. DEFINE c == Clear(a, b)
<1>1. PICK s \in Endings : k = c \o s BY DEF KeyBetween
<1>2. Between(a, c, b) /\ (b # Open => ~IsPrefix(c, b)) BY ClearBetween
<1>. HIDE DEF c
<1>3. c \in Keys /\ Less(a, c) /\ (b # Open => Less(c, b)) /\ Len(c) \in Nat /\ Len(a) \in Nat /\ Len(b) \in Nat
    BY <1>2, KeyIs DEF Between, Sound
<1>4. s \in Keys /\ Len(s) = Jitter /\ Jitter \in Nat \ {0} /\ s[Jitter] # 0 BY EndingIs
<1>5. /\ k \in Keys /\ Len(k) = Len(c) + Jitter
      /\ \A n \in 1 .. Len(c) : k[n] = c[n]
      /\ k[Len(c) + Jitter] = s[Jitter]
  <2>1. /\ k \in Keys /\ Len(k) = Len(c) + Len(s)
        /\ \A n \in 1 .. Len(c) : k[n] = c[n]
        /\ \A n \in 1 .. Len(s) : k[Len(c) + n] = s[n]
      BY <1>1, <1>3, <1>4, JoinIs
  <2>2. Jitter \in 1 .. Len(s) BY <1>4
  <2>. QED BY <1>4, <2>1, <2>2
<1>6. Sound(k) BY <1>3, <1>4, <1>5, OpenIs DEF Sound
<1>7. Less(c, k)
  <2>1. IsPrefix(c, k) BY <1>3, <1>4, <1>5, PrefixIs
  <2>2. c # k BY <1>3, <1>4, <1>5
  <2>. QED BY <2>1, <2>2 DEF Less
<1>8. Less(a, k) BY <1>3, <1>5, <1>7, LessTransitive
<1>9. ASSUME b # Open PROVE Less(k, b)
  <2>1. PICK n \in 1 .. Len(b) : LessAt(c, b, n) BY <1>3, <1>9, LessIs
  <2>2. n <= Len(c)
    <3>1. SUFFICES ASSUME n = Len(c) + 1 PROVE FALSE BY <1>3, <2>1 DEF LessAt
    <3>2. Len(c) <= Len(b) /\ \A m \in 1 .. Len(c) : c[m] = b[m] BY <1>3, <2>1, <3>1 DEF LessAt
    <3>. QED BY <1>2, <1>3, <1>9, <3>2, PrefixIs
  <2>3. LessAt(k, b, n)
    <3>1. c[n] < b[n] /\ n \in 1 .. Len(c) BY <1>3, <2>1, <2>2 DEF LessAt
    <3>2. \A m \in 1 .. n - 1 : k[m] = b[m] BY <1>3, <1>5, <2>1, <2>2 DEF LessAt
    <3>. QED BY <1>3, <1>4, <1>5, <3>1, <3>2 DEF LessAt
  <2>. QED BY <1>5, <2>3, LessIs
<1>10. Len(k) <= Len(a) + 1 + Jitter \/ Len(k) <= Len(b) + 1 + Jitter
    BY <1>2, <1>3, <1>4, <1>5 DEF Between
<1>. QED BY <1>6, <1>8, <1>9, <1>10

-----------------------------------------------------------------------------
(* keys_between: bisection.                                                   *)

LEMMA HalvingsIs ==
    \A n \in Nat : /\ Halvings[n] = IF n = 0 THEN 0 ELSE 1 + Halvings[n \div 2]
                   /\ Halvings[n] \in Nat
<1>. DEFINE Body(g, n) == IF n = 0 THEN 0 ELSE 1 + g[n \div 2]
            size == [n \in Nat |-> n]
            step == [n \in Nat |-> [g \in [Nat -> Nat] |-> Body(g, n)]]
            T == {n \in Nat : Halvings[n] \notin Nat}
<1>1. \A n \in Nat : n # 0 => n \div 2 \in Nat /\ n \div 2 < n OBVIOUS
<1>2. step \in [Nat -> [[Nat -> Nat] -> Nat]]
  <2>1. \A n \in Nat : \A g \in [Nat -> Nat] : Body(g, n) \in Nat BY <1>1
  <2>. QED BY <2>1
<1>3. LooksBack(Nat, Nat, size, step)
  <2>1. SUFFICES ASSUME NEW n \in Nat, NEW g \in [Nat -> Nat], NEW h \in [Nat -> Nat],
                        \A m \in Nat : size[m] < size[n] => g[m] = h[m]
                 PROVE  step[n][g] = step[n][h]
    <3>. HIDE DEF size, step
    <3>. QED BY DEF LooksBack
  <2>2. n # 0 => g[n \div 2] = h[n \div 2] BY <1>1, <2>1
  <2>. QED BY <2>2
<1>4. Recursive(Nat, Nat, size, step)
  <2>1. size \in [Nat -> Nat] OBVIOUS
  <2>. HIDE DEF size, step
  <2>. QED BY <1>2, <1>3, <2>1 DEF Recursive
<1>5. Solvable(Nat, Nat, step)
  <2>. HIDE DEF size, step
  <2>. QED BY <1>4, RecursionExists
<1>6. PICK f \in [Nat -> Nat] : \A n \in Nat : f[n] = step[n][f]
  <2>. HIDE DEF step
  <2>. QED BY <1>5 DEF Solvable
<1>7. f = [n \in Nat |-> IF n = 0 THEN 0 ELSE 1 + f[n \div 2]] BY <1>6
<1>8. Halvings = [n \in Nat |-> IF n = 0 THEN 0 ELSE 1 + Halvings[n \div 2]] BY <1>7 DEF Halvings
<1>9. \A n \in Nat : Halvings[n] = IF n = 0 THEN 0 ELSE 1 + Halvings[n \div 2] BY <1>8
<1>10. T = {}
  <2>1. SUFFICES ASSUME T # {} PROVE FALSE OBVIOUS
  <2>2. PICK m \in T : \A j \in T : m <= j
    <3>1. T \in SUBSET Nat OBVIOUS
    <3>. HIDE DEF T
    <3>. QED BY <2>1, <3>1, LeastNat
  <2>3. m # 0 => m \div 2 \notin T BY <1>1, <2>2
  <2>. QED BY <1>1, <1>9, <2>2, <2>3
<1>. QED BY <1>9, <1>10

LEMMA HalvingsGrow ==
    ASSUME NEW n \in Nat, NEW m \in Nat, m <= n PROVE Halvings[m] <= Halvings[n]
<1>. DEFINE T == {i \in Nat : \E j \in Nat : j <= i /\ ~(Halvings[j] <= Halvings[i])}
<1>1. SUFFICES ASSUME T # {} PROVE FALSE OBVIOUS
<1>2. PICK i \in T : \A k \in T : i <= k
  <2>1. T \in SUBSET Nat OBVIOUS
  <2>. HIDE DEF T
  <2>. QED BY <1>1, <2>1, LeastNat
<1>3. PICK j \in Nat : j <= i /\ ~(Halvings[j] <= Halvings[i]) OBVIOUS
<1>4. i \in Nat /\ i # 0 /\ j # 0 BY <1>2, <1>3, HalvingsIs
<1>5. i \div 2 \in Nat /\ j \div 2 \in Nat /\ i \div 2 < i /\ j \div 2 <= i \div 2 BY <1>3, <1>4
<1>6. i \div 2 \notin T BY <1>2, <1>4, <1>5
<1>7. Halvings[j \div 2] <= Halvings[i \div 2] BY <1>5, <1>6
<1>8. /\ Halvings[i] = 1 + Halvings[i \div 2] /\ Halvings[j] = 1 + Halvings[j \div 2]
      /\ Halvings[i \div 2] \in Nat /\ Halvings[j \div 2] \in Nat
    BY <1>3, <1>4, <1>5, HalvingsIs
<1>. QED BY <1>3, <1>7, <1>8

BisectBody(n, a, b, g) ==
    IF n = 0 THEN <<>>
    ELSE g[<<n \div 2, a, Midpoint[<<a, b>>]>>] \o <<Midpoint[<<a, b>>]>>
            \o g[<<n - (n \div 2) - 1, Midpoint[<<a, b>>], b>>]

LEMMA BisectIs ==
    \A n \in Nat : \A a, b \in Keys : Bisect[<<n, a, b>>] = BisectBody(n, a, b, Bisect)
<1>. DEFINE D == Nat \X Keys \X Keys
            R == Seq(Keys)
            size == [x \in D |-> x[1]]
            step == [x \in D |-> [g \in [D -> R] |-> BisectBody(x[1], x[2], x[3], g)]]
<1>1. \A n \in Nat : n # 0 => /\ n \div 2 \in Nat /\ n \div 2 < n
                              /\ n - (n \div 2) - 1 \in Nat /\ n - (n \div 2) - 1 < n
    OBVIOUS
<1>2. \A a, b \in Keys : Midpoint[<<a, b>>] \in Keys BY MidpointIs
<1>3. ASSUME NEW n \in Nat, NEW a \in Keys, NEW b \in Keys, NEW g \in [D -> R]
      PROVE  BisectBody(n, a, b, g) \in R
  <2>. DEFINE m == Midpoint[<<a, b>>]
  <2>1. m \in Keys /\ <<m>> \in R BY <1>2
  <2>2. CASE n = 0 BY <2>2 DEF BisectBody
  <2>3. CASE n # 0
    <3>1. <<n \div 2, a, m>> \in D /\ <<n - (n \div 2) - 1, m, b>> \in D BY <1>1, <2>1, <2>3
    <3>2. g[<<n \div 2, a, m>>] \in R /\ g[<<n - (n \div 2) - 1, m, b>>] \in R BY <3>1
    <3>. HIDE DEF m
    <3>3. g[<<n \div 2, a, m>>] \o <<m>> \in R BY <2>1, <3>2, ConcatProperties
    <3>4. g[<<n \div 2, a, m>>] \o <<m>> \o g[<<n - (n \div 2) - 1, m, b>>] \in R
        BY <3>2, <3>3, ConcatProperties
    <3>. QED BY <2>3, <3>4 DEF BisectBody, m
  <2>. QED BY <2>2, <2>3
<1>4. size \in [D -> Nat] OBVIOUS
<1>5. step \in [D -> [[D -> R] -> R]]
  <2>1. \A x \in D : \A g \in [D -> R] : BisectBody(x[1], x[2], x[3], g) \in R BY <1>3
  <2>. QED BY <2>1
<1>6. \A x \in D : \A g \in [D -> R] : step[x][g] = BisectBody(x[1], x[2], x[3], g) OBVIOUS
<1>7. \A n \in Nat : \A a, b \in Keys : <<n, a, b>> \in D /\ size[<<n, a, b>>] = n OBVIOUS
<1>8. LooksBack(D, R, size, step)
  <2>. HIDE DEF size, step
  <2>1. SUFFICES ASSUME NEW x \in D, NEW g \in [D -> R], NEW h \in [D -> R],
                        \A y \in D : size[y] < size[x] => g[y] = h[y]
                 PROVE  step[x][g] = step[x][h]
      BY DEF LooksBack
  <2>2. PICK n \in Nat, a \in Keys, b \in Keys : x = <<n, a, b>> OBVIOUS
  <2>3. ASSUME NEW i \in Nat, NEW c \in Keys, NEW d \in Keys, i < n
        PROVE  g[<<i, c, d>>] = h[<<i, c, d>>]
    <3>1. <<i, c, d>> \in D /\ size[<<i, c, d>>] = i /\ size[x] = n BY <1>7, <2>2
    <3>2. size[<<i, c, d>>] < size[x] BY <2>3, <3>1
    <3>. HIDE DEF D
    <3>. QED BY <2>1, <3>1, <3>2
  <2>4. BisectBody(n, a, b, g) = BisectBody(n, a, b, h) BY <1>1, <1>2, <2>3 DEF BisectBody
  <2>5. x[1] = n /\ x[2] = a /\ x[3] = b BY <2>2
  <2>6. step[x][g] = BisectBody(n, a, b, g) /\ step[x][h] = BisectBody(n, a, b, h) BY <1>6, <2>5
  <2>. QED BY <2>4, <2>6
<1>9. Recursive(D, R, size, step)
  <2>1. R # {}
    <3>1. <<>> \in R OBVIOUS
    <3>. QED BY <3>1
  <2>. HIDE DEF D, R, size, step
  <2>. QED BY <1>4, <1>5, <1>8, <2>1 DEF Recursive
<1>10. Solvable(D, R, step)
  <2>. HIDE DEF D, R, size, step
  <2>. QED BY <1>9, RecursionExists
<1>11. PICK f \in [D -> R] : \A x \in D : f[x] = step[x][f]
  <2>. HIDE DEF D, R, step
  <2>. QED BY <1>10 DEF Solvable
<1>12. f = [x \in D |-> BisectBody(x[1], x[2], x[3], f)] BY <1>6, <1>11
<1>13. Bisect = CHOOSE g : g = [x \in D |-> BisectBody(x[1], x[2], x[3], g)]
    BY DEF Bisect, BisectBody
<1>14. Bisect = [x \in D |-> BisectBody(x[1], x[2], x[3], Bisect)] BY <1>12, <1>13
<1>. QED BY <1>14

\* n keys, each the next one's neighbour, in the gap between a and b.
Spread(row, n, a, b) ==
    /\ row \in Seq(Keys) /\ Len(row) = n
    /\ \A i \in 1 .. n : /\ Sound(row[i]) /\ Less(a, row[i]) /\ (b # Open => Less(row[i], b))
                         /\ \/ Len(row[i]) <= Len(a) + Halvings[n]
                            \/ Len(row[i]) <= Len(b) + Halvings[n]
    /\ \A i, j \in 1 .. n : i < j => Less(row[i], row[j])

LEMMA Longer ==
    ASSUME NEW la \in Nat, NEW lb \in Nat, NEW lm \in Nat, NEW l \in Nat,
           NEW g \in Nat, NEW h \in Nat, g <= h,
           lm <= la + 1 \/ lm <= lb + 1, l <= la + g \/ l <= lm + g \/ l <= lb + g
    PROVE  l <= la + (1 + h) \/ l <= lb + (1 + h)
OBVIOUS

\* The keys on both sides of the one in the middle.
LEMMA SpreadJoins ==
    ASSUME NEW n \in Nat \ {0}, NEW a \in Keys, NEW b \in Keys, Gap(a, b),
           NEW m, Between(a, m, b),
           NEW x, Spread(x, n \div 2, a, m), NEW y, Spread(y, n - (n \div 2) - 1, m, b)
    PROVE  Spread(x \o <<m>> \o y, n, a, b)
<1>. DEFINE p == n \div 2
            q == n - (n \div 2) - 1
            row == x \o <<m>> \o y
<1>1. p \in Nat /\ q \in Nat /\ n = p + 1 + q /\ q <= p OBVIOUS
<1>2. /\ x \in Seq(Keys) /\ Len(x) = p
      /\ \A i \in 1 .. p : /\ Sound(x[i]) /\ Less(a, x[i]) /\ Less(x[i], m)
                           /\ \/ Len(x[i]) <= Len(a) + Halvings[p]
                              \/ Len(x[i]) <= Len(m) + Halvings[p]
      /\ \A i, j \in 1 .. p : i < j => Less(x[i], x[j])
    BY DEF Spread, Between, Sound
<1>3. /\ y \in Seq(Keys) /\ Len(y) = q
      /\ \A i \in 1 .. q : /\ Sound(y[i]) /\ Less(m, y[i]) /\ (b # Open => Less(y[i], b))
                           /\ \/ Len(y[i]) <= Len(m) + Halvings[q]
                              \/ Len(y[i]) <= Len(b) + Halvings[q]
      /\ \A i, j \in 1 .. q : i < j => Less(y[i], y[j])
    BY DEF Spread
<1>4. /\ m \in Keys /\ Sound(m) /\ Less(a, m) /\ (b # Open => Less(m, b))
      /\ Len(m) <= Len(a) + 1 \/ Len(m) <= Len(b) + 1
    BY DEF Between, Sound
<1>5. /\ Halvings[n] = 1 + Halvings[p] /\ Halvings[q] <= Halvings[p]
      /\ Halvings[p] \in Nat /\ Halvings[q] \in Nat /\ Halvings[n] \in Nat
  <2>1. Halvings[n] = 1 + Halvings[n \div 2] BY HalvingsIs
  <2>2. p \in Nat /\ q \in Nat /\ q <= p BY <1>1
  <2>. HIDE DEF q
  <2>3. Halvings[p] \in Nat /\ Halvings[q] \in Nat /\ Halvings[q] <= Halvings[p]
      BY <2>2, HalvingsIs, HalvingsGrow
  <2>. QED BY <2>1, <2>3
<1>6. /\ row \in Seq(Keys) /\ Len(row) = n
      /\ \A i \in 1 .. n : row[i] = IF i <= p THEN x[i] ELSE IF i = p + 1 THEN m ELSE y[i - (p + 1)]
  <2>1. <<m>> \in Seq(Keys) /\ Len(<<m>>) = 1 /\ <<m>>[1] = m BY <1>4
  <2>. DEFINE u == x \o <<m>>
  <2>2. /\ u \in Seq(Keys) /\ Len(u) = p + 1
        /\ \A i \in 1 .. p + 1 : u[i] = IF i <= p THEN x[i] ELSE <<m>>[i - p]
      BY <1>2, <2>1, ConcatProperties
  <2>. HIDE DEF u, p, q
  <2>3. /\ u \o y \in Seq(Keys) /\ Len(u \o y) = p + 1 + q
        /\ \A i \in 1 .. p + 1 + q : (u \o y)[i] = IF i <= p + 1 THEN u[i] ELSE y[i - (p + 1)]
    <3>1. /\ u \o y \in Seq(Keys) /\ Len(u \o y) = Len(u) + Len(y)
          /\ \A i \in 1 .. Len(u) + Len(y) : (u \o y)[i] = IF i <= Len(u) THEN u[i] ELSE y[i - Len(u)]
        BY <1>3, <2>2, ConcatProperties
    <3>2. Len(u) = p + 1 /\ Len(y) = q BY <1>3, <2>2
    <3>. QED BY <3>1, <3>2
  <2>4. ASSUME NEW i \in 1 .. n
        PROVE  (u \o y)[i] = IF i <= p THEN x[i] ELSE IF i = p + 1 THEN m ELSE y[i - (p + 1)]
    <3>1. CASE i <= p BY <1>1, <2>2, <2>3, <3>1
    <3>2. CASE i = p + 1
      <4>1. i - p = 1 /\ i \in 1 .. p + 1 /\ i \in 1 .. p + 1 + q /\ ~(i <= p) BY <1>1, <3>2
      <4>. QED BY <2>1, <2>2, <2>3, <3>2, <4>1
    <3>3. CASE ~(i <= p) /\ ~(i = p + 1)
      <4>1. ~(i <= p + 1) /\ i \in 1 .. p + 1 + q BY <1>1, <3>3
      <4>. QED BY <2>3, <3>3, <4>1
    <3>. QED BY <3>1, <3>2, <3>3
  <2>. QED BY <1>1, <2>3, <2>4 DEF u
<1>. HIDE DEF p, q, row
<1>61. ASSUME NEW i \in 1 .. n, i <= p PROVE row[i] = x[i] /\ i \in 1 .. p BY <1>1, <1>6, <1>61
<1>62. ASSUME NEW i \in 1 .. n, i > p + 1
       PROVE  row[i] = y[i - (p + 1)] /\ i - (p + 1) \in 1 .. q
  <2>1. ~(i <= p) /\ ~(i = p + 1) /\ i - (p + 1) \in 1 .. q BY <1>1, <1>62
  <2>. QED BY <1>6, <2>1
<1>7. Len(a) \in Nat /\ Len(b) \in Nat /\ Len(m) \in Nat BY <1>4, KeyIs
<1>8. ASSUME NEW i \in 1 .. n
      PROVE  /\ Sound(row[i]) /\ Less(a, row[i]) /\ (b # Open => Less(row[i], b))
             /\ \/ Len(row[i]) <= Len(a) + Halvings[n]
                \/ Len(row[i]) <= Len(b) + Halvings[n]
  <2>1. CASE i <= p
    <3>1. row[i] = x[i] /\ i \in 1 .. p BY <1>61, <2>1
    <3>2. Sound(x[i]) /\ Less(a, x[i]) /\ Less(x[i], m) /\ x[i] \in Keys /\ Len(x[i]) \in Nat
        BY <1>2, <3>1, KeyIs DEF Sound
    <3>3. b # Open => Less(x[i], b) BY <1>4, <3>2, LessTransitive
    <3>4. Len(x[i]) <= Len(a) + Halvings[p] \/ Len(x[i]) <= Len(m) + Halvings[p] BY <1>2, <3>1
    <3>5. Len(x[i]) <= Len(a) + Halvings[n] \/ Len(x[i]) <= Len(b) + Halvings[n]
      <4>1. Len(x[i]) <= Len(a) + (1 + Halvings[p]) \/ Len(x[i]) <= Len(b) + (1 + Halvings[p])
        <5>. DEFINE h == Halvings[p]
                    l == Len(x[i])
        <5>1. h \in Nat /\ h <= h /\ l \in Nat /\ (l <= Len(a) + h \/ l <= Len(m) + h) BY <1>5, <3>2, <3>4
        <5>. HIDE DEF h, l
        <5>2. l <= Len(a) + (1 + h) \/ l <= Len(b) + (1 + h) BY <1>4, <1>7, <5>1, Longer
        <5>. QED BY <5>2 DEF h, l
      <4>. QED BY <1>5, <4>1
    <3>. QED BY <3>1, <3>2, <3>3, <3>5
  <2>2. CASE i = p + 1
    <3>1. row[i] = m BY <1>1, <1>6, <2>2
    <3>. QED BY <1>4, <1>5, <1>7, <3>1
  <2>3. CASE i > p + 1
    <3>1. row[i] = y[i - (p + 1)] /\ i - (p + 1) \in 1 .. q BY <1>62, <2>3
    <3>. DEFINE l == i - (p + 1)
    <3>2. l \in 1 .. q BY <3>1
    <3>. HIDE DEF l
    <3>3. /\ Sound(y[l]) /\ Less(m, y[l]) /\ (b # Open => Less(y[l], b))
          /\ y[l] \in Keys /\ Len(y[l]) \in Nat
        BY <1>3, <3>2, KeyIs DEF Sound
    <3>4. Less(a, y[l]) BY <1>4, <3>3, LessTransitive
    <3>5. Len(y[l]) <= Len(m) + Halvings[q] \/ Len(y[l]) <= Len(b) + Halvings[q] BY <1>3, <3>2
    <3>6. Len(y[l]) <= Len(a) + Halvings[n] \/ Len(y[l]) <= Len(b) + Halvings[n]
        BY <1>4, <1>5, <1>7, <3>3, <3>5, Longer
    <3>7. row[i] = y[l] BY <3>1 DEF l
    <3>. QED BY <3>3, <3>4, <3>6, <3>7
  <2>. QED BY <1>1, <2>1, <2>2, <2>3
<1>9. ASSUME NEW i \in 1 .. n, NEW j \in 1 .. n, i < j PROVE Less(row[i], row[j])
  <2>1. CASE j <= p
    <3>0. i <= p BY <1>1, <1>9, <2>1
    <3>1. row[i] = x[i] /\ row[j] = x[j] /\ i \in 1 .. p /\ j \in 1 .. p BY <1>61, <2>1, <3>0
    <3>. QED BY <1>2, <1>9, <3>1
  <2>2. CASE i > p + 1
    <3>0. j > p + 1 /\ i - (p + 1) < j - (p + 1) BY <1>1, <1>9, <2>2
    <3>1. /\ row[i] = y[i - (p + 1)] /\ row[j] = y[j - (p + 1)]
          /\ i - (p + 1) \in 1 .. q /\ j - (p + 1) \in 1 .. q
        BY <1>62, <2>2, <3>0
    <3>. QED BY <1>3, <3>0, <3>1
  <2>3. CASE j > p /\ ~(i > p + 1)
    <3>1. /\ row[i] = m \/ (row[i] \in Keys /\ Less(row[i], m))
          /\ row[i] = m => j # p + 1
      <4>1. CASE i = p + 1 BY <1>1, <1>6, <1>9, <4>1
      <4>2. CASE i # p + 1
        <5>0. i <= p BY <1>1, <2>3, <4>2
        <5>1. row[i] = x[i] /\ i \in 1 .. p BY <1>61, <5>0
        <5>2. x[i] \in Keys /\ Less(x[i], m) BY <1>2, <5>1 DEF Sound
        <5>. QED BY <1>4, <5>1, <5>2, LessApart
      <4>. QED BY <4>1, <4>2
    <3>2. CASE j = p + 1
      <4>1. row[j] = m BY <1>1, <1>6, <3>2
      <4>. QED BY <3>1, <3>2, <4>1
    <3>3. CASE j > p + 1
      <4>1. row[j] = y[j - (p + 1)] /\ j - (p + 1) \in 1 .. q BY <1>62, <3>3
      <4>2. row[j] \in Keys /\ Less(m, row[j]) BY <1>3, <4>1 DEF Sound
      <4>. QED BY <1>4, <3>1, <4>2, LessTransitive
    <3>. QED BY <1>1, <2>3, <3>2, <3>3
  <2>. QED BY <1>1, <2>1, <2>2, <2>3
<1>10. Spread(row, n, a, b) BY <1>6, <1>8, <1>9 DEF Spread
<1>. QED BY <1>10 DEF row

\* keys_between keeps its contract for any gap and any number of tasks: as many keys
\* as were asked for, between the two neighbours and in order, each one able to be a
\* neighbour itself, and longer than these only by as often as the number can be halved.
THEOREM BisectSpreads ==
    ASSUME NEW n \in Nat, NEW a \in Keys, NEW b \in Keys, Gap(a, b)
    PROVE  Spread(Bisect[<<n, a, b>>], n, a, b)
<1>. DEFINE Good(i) == \A c, d \in Keys : Gap(c, d) => Spread(Bisect[<<i, c, d>>], i, c, d)
            T == {i \in Nat : ~Good(i)}
<1>1. SUFFICES ASSUME T # {} PROVE FALSE OBVIOUS
<1>2. PICK i \in T : \A k \in T : i <= k
  <2>1. T \in SUBSET Nat OBVIOUS
  <2>. HIDE DEF T
  <2>. QED BY <1>1, <2>1, LeastNat
<1>. HIDE DEF Good
<1>3. i \in Nat /\ ~Good(i) BY <1>2
<1>4. ASSUME NEW k \in Nat, k < i PROVE Good(k)
  <2>1. ~(i <= k) BY <1>3, <1>4
  <2>. QED BY <1>2, <2>1
<1>5. PICK c \in Keys, d \in Keys : Gap(c, d) /\ ~Spread(Bisect[<<i, c, d>>], i, c, d)
    BY <1>3 DEF Good
<1>6. Bisect[<<i, c, d>>] = BisectBody(i, c, d, Bisect) BY <1>3, BisectIs
<1>7. CASE i = 0
  <2>1. Bisect[<<i, c, d>>] = <<>> BY <1>6, <1>7 DEF BisectBody
  <2>2. <<>> \in Seq(Keys) /\ Len(<<>>) = 0 OBVIOUS
  <2>. QED BY <1>5, <1>7, <2>1, <2>2 DEF Spread
<1>8. CASE i # 0
  <2>. DEFINE m == Midpoint[<<c, d>>]
              p == i \div 2
              q == i - (i \div 2) - 1
  <2>1. Between(c, m, d) /\ m \in Keys BY <1>5, MidpointBetween DEF Between, Sound
  <2>2. Gap(c, m) /\ Gap(m, d) BY <1>5, <2>1 DEF Between, Sound, Gap
  <2>3. p \in Nat /\ p < i /\ q \in Nat /\ q < i BY <1>3, <1>8
  <2>4. Bisect[<<i, c, d>>] = Bisect[<<p, c, m>>] \o <<m>> \o Bisect[<<q, m, d>>]
      BY <1>6, <1>8 DEF BisectBody
  <2>. HIDE DEF m
  <2>5. Spread(Bisect[<<p, c, m>>], p, c, m) /\ Spread(Bisect[<<q, m, d>>], q, m, d)
    <3>. HIDE DEF p, q
    <3>. QED BY <1>4, <2>1, <2>2, <2>3 DEF Good
  <2>6. Spread(Bisect[<<p, c, m>>] \o <<m>> \o Bisect[<<q, m, d>>], i, c, d)
      BY <1>3, <1>5, <1>8, <2>1, <2>5, SpreadJoins
  <2>. QED BY <1>5, <2>4, <2>6
<1>. QED BY <1>7, <1>8

-----------------------------------------------------------------------------
(* even_keys.                                                                 *)

LEMMA Products ==
    ASSUME NEW x \in Nat, NEW y \in Nat, NEW z \in Nat
    PROVE  /\ x * y \in Nat
           /\ x <= y => x * z <= y * z
           /\ x < y /\ z > 0 => x * z < y * z
OBVIOUS

LEMMA Quotients ==
    ASSUME NEW x \in Nat, NEW y \in Nat \ {0}, NEW z \in Nat
    PROVE  /\ x \div y \in Nat
           /\ x >= y * z => x \div y >= z
           /\ x < y * z => x \div y < z
OBVIOUS

LEMMA Remainders ==
    ASSUME NEW x \in Nat, NEW y \in Nat \ {0}
    PROVE  x % y \in 0 .. y - 1 /\ (x < y => x % y = x)
OBVIOUS

LEMMA PowerIs ==
    \A w \in Nat : /\ Power[w] = IF w = 0 THEN 1 ELSE Base * Power[w - 1]
                   /\ Power[w] \in Nat /\ Power[w] > w
<1>. DEFINE Body(g, w) == IF w = 0 THEN 1 ELSE Base * g[w - 1]
            size == [w \in Nat |-> w]
            step == [w \in Nat |-> [g \in [Nat -> Nat] |-> Body(g, w)]]
            Good(w) == Power[w] \in Nat /\ Power[w] > w
            T == {w \in Nat : ~Good(w)}
<1>0. Base \in Nat /\ Base > 2 BY DigitsAre
<1>1. \A w \in Nat : w # 0 => w - 1 \in Nat /\ w - 1 < w OBVIOUS
<1>2. step \in [Nat -> [[Nat -> Nat] -> Nat]]
  <2>1. \A w \in Nat : \A g \in [Nat -> Nat] : Body(g, w) \in Nat
    <3>1. SUFFICES ASSUME NEW w \in Nat, NEW g \in [Nat -> Nat], w # 0 PROVE Base * g[w - 1] \in Nat
        OBVIOUS
    <3>2. g[w - 1] \in Nat BY <1>1, <3>1
    <3>. QED BY <1>0, <3>2, Products
  <2>. QED BY <2>1
<1>3. LooksBack(Nat, Nat, size, step)
  <2>1. SUFFICES ASSUME NEW w \in Nat, NEW g \in [Nat -> Nat], NEW h \in [Nat -> Nat],
                        \A m \in Nat : size[m] < size[w] => g[m] = h[m]
                 PROVE  step[w][g] = step[w][h]
    <3>. HIDE DEF size, step
    <3>. QED BY DEF LooksBack
  <2>2. w # 0 => g[w - 1] = h[w - 1] BY <1>1, <2>1
  <2>. QED BY <2>2
<1>4. Recursive(Nat, Nat, size, step)
  <2>1. size \in [Nat -> Nat] OBVIOUS
  <2>. HIDE DEF size, step
  <2>. QED BY <1>2, <1>3, <2>1 DEF Recursive
<1>5. Solvable(Nat, Nat, step)
  <2>. HIDE DEF size, step
  <2>. QED BY <1>4, RecursionExists
<1>6. PICK f \in [Nat -> Nat] : \A w \in Nat : f[w] = step[w][f]
  <2>. HIDE DEF step
  <2>. QED BY <1>5 DEF Solvable
<1>7. f = [w \in Nat |-> IF w = 0 THEN 1 ELSE Base * f[w - 1]] BY <1>6
<1>8. Power = [w \in Nat |-> IF w = 0 THEN 1 ELSE Base * Power[w - 1]] BY <1>7 DEF Power
<1>9. \A w \in Nat : Power[w] = IF w = 0 THEN 1 ELSE Base * Power[w - 1] BY <1>8
<1>10. T = {}
  <2>1. SUFFICES ASSUME T # {} PROVE FALSE OBVIOUS
  <2>2. PICK w \in T : \A j \in T : w <= j
    <3>1. T \in SUBSET Nat OBVIOUS
    <3>. HIDE DEF T
    <3>. QED BY <2>1, <3>1, LeastNat
  <2>. HIDE DEF Good
  <2>3. w \in Nat /\ ~Good(w) BY <2>2
  <2>4. w # 0 BY <1>9, <2>3 DEF Good
  <2>5. Good(w - 1)
    <3>1. w - 1 \in Nat /\ ~(w <= w - 1) BY <2>3, <2>4
    <3>. QED BY <2>2, <3>1
  <2>. DEFINE p == Power[w - 1]
  <2>6. Power[w] = Base * p /\ p \in Nat /\ p > w - 1 BY <1>9, <2>3, <2>4, <2>5 DEF Good
  <2>. HIDE DEF p
  <2>7. Base * p \in Nat /\ 2 * p <= Base * p BY <1>0, <2>6, Products
  <2>8. Good(w) BY <2>3, <2>4, <2>6, <2>7 DEF Good
  <2>. QED BY <2>3, <2>8
<1>. QED BY <1>9, <1>10

LEMMA WidthIs ==
    ASSUME NEW n \in Nat
    PROVE  Width(n) \in 1 .. n + 2 /\ Power[Width(n)] > n + 1 /\ \A v \in 1 .. Width(n) - 1 : Power[v] <= n + 1
<1>. DEFINE Good(w) == Power[w] > n + 1 /\ \A v \in 1 .. w - 1 : Power[v] <= n + 1
            T == {w \in Nat : w # 0 /\ Power[w] > n + 1}
<1>1. \E w \in 1 .. n + 2 : Good(w)
  <2>1. n + 2 \in T
    <3>1. n + 2 \in Nat /\ n + 2 # 0 /\ Power[n + 2] \in Nat /\ Power[n + 2] > n + 2 BY PowerIs
    <3>. QED BY <3>1
  <2>2. PICK w \in T : \A v \in T : w <= v
    <3>1. T \in SUBSET Nat OBVIOUS
    <3>. HIDE DEF T
    <3>. QED BY <2>1, <3>1, LeastNat
  <2>3. w \in Nat /\ w # 0 /\ Power[w] > n + 1 /\ w <= n + 2 BY <2>1, <2>2
  <2>4. ASSUME NEW v \in 1 .. w - 1 PROVE Power[v] <= n + 1
    <3>1. v \in Nat /\ v # 0 /\ ~(w <= v) /\ Power[v] \in Nat BY <2>3, PowerIs
    <3>. QED BY <2>2, <3>1
  <2>5. w \in 1 .. n + 2 /\ Good(w) BY <2>3, <2>4
  <2>. QED BY <2>5
<1>2. Width(n) = CHOOSE w \in 1 .. n + 2 : Good(w) BY DEF Width
<1>3. Width(n) \in 1 .. n + 2 /\ Good(Width(n))
  <2>. HIDE DEF Good
  <2>. QED BY <1>1, <1>2
<1>. QED BY <1>3

LEMMA WidthGrows ==
    ASSUME NEW n \in Nat, NEW m \in Nat, m <= n PROVE Width(m) <= Width(n)
<1>1. /\ Width(n) \in Nat /\ Width(n) # 0 /\ Power[Width(n)] > n + 1 /\ Power[Width(n)] \in Nat
      /\ Width(m) \in Nat /\ \A v \in 1 .. Width(m) - 1 : Power[v] <= m + 1
  <2>1. Width(n) \in 1 .. n + 2 /\ Power[Width(n)] > n + 1 BY WidthIs
  <2>2. Width(m) \in 1 .. m + 2 /\ \A v \in 1 .. Width(m) - 1 : Power[v] <= m + 1 BY WidthIs
  <2>3. Width(n) \in Nat /\ Width(n) # 0 /\ Width(m) \in Nat BY <2>1, <2>2
  <2>4. Power[Width(n)] \in Nat BY <2>3, PowerIs
  <2>. QED BY <2>1, <2>2, <2>3, <2>4
<1>2. SUFFICES ASSUME Width(n) < Width(m) PROVE FALSE BY <1>1
<1>3. Width(n) \in 1 .. Width(m) - 1 BY <1>1, <1>2
<1>. QED BY <1>1, <1>3

LEMMA GreatestNat ==
    ASSUME NEW b \in Nat, NEW T \in SUBSET (1 .. b), T # {}
    PROVE  \E n \in T : \A m \in T : m <= n
<1>. DEFINE S == {b - n : n \in T}
<1>1. PICK s \in S : \A r \in S : s <= r
  <2>0. \A n \in T : n \in 1 .. b /\ b - n \in Nat OBVIOUS
  <2>1. S \in SUBSET Nat /\ S # {} BY <2>0
  <2>. HIDE DEF S
  <2>. QED BY <2>1, LeastNat
<1>2. PICK n \in T : s = b - n OBVIOUS
<1>3. \A m \in T : b - n <= b - m BY <1>1, <1>2
<1>4. \A m \in T : m <= n BY <1>3
<1>. QED BY <1>4

\* The number that the k-th of n evenly spaced keys is written from, and its digits.
EvenValue(k, n)    == (k * Power[Width(n)]) \div (n + 1)
EvenDigit(k, n, d) == (EvenValue(k, n) \div Power[Width(n) - d]) % Base

\* The key is made of the digits up to the last that is not zero.
Written(k, n) ==
    LET key == EvenKey(k, n)
    IN  /\ key \in Keys /\ Len(key) \in 1 .. Width(n)
        /\ \A d \in 1 .. Len(key) : key[d] = EvenDigit(k, n, d)
        /\ EvenDigit(k, n, Len(key)) # 0
        /\ \A d \in Len(key) + 1 .. Width(n) : EvenDigit(k, n, d) = 0

LEMMA EvenKeyIs ==
    ASSUME NEW n \in Nat, NEW k \in 1 .. n
    PROVE  Written(k, n)
<1>. DEFINE w == Width(n)
            span == Power[w]
            value == (k * span) \div (n + 1)
            digit == [d \in 1 .. w |-> (value \div Power[w - d]) % Base]
            IsLast(m) == digit[m] # 0 /\ \A d \in m + 1 .. w : digit[d] = 0
<1>1. w \in Nat /\ w >= 1 /\ span \in Nat /\ span > n + 1
  <2>1. w \in 1 .. n + 2 /\ span > n + 1 BY WidthIs
  <2>2. w \in Nat /\ w >= 1 BY <2>1
  <2>3. span \in Nat BY <2>2, PowerIs
  <2>. QED BY <2>1, <2>2, <2>3
<1>2. Base \in Nat \ {0} /\ Base > 2 /\ Digits = 0 .. Base - 1 BY DigitsAre
<1>3. value \in Nat /\ value >= 1 /\ value < span
  <2>. HIDE DEF span
  <2>1. k * span \in Nat /\ 1 * span <= k * span /\ k * span < (n + 1) * span BY <1>1, Products
  <2>2. k * span >= (n + 1) * 1 BY <1>1, <2>1
  <2>. QED BY <1>1, <2>1, <2>2, Quotients
<1>. HIDE DEF value, w
<1>4. \A d \in 1 .. w : w - d \in Nat /\ Power[w - d] \in Nat \ {0} BY <1>1, PowerIs
<1>5. digit \in [1 .. w -> Digits]
  <2>1. ASSUME NEW d \in 1 .. w PROVE (value \div Power[w - d]) % Base \in Digits
    <3>1. value \div Power[w - d] \in Nat BY <1>3, <1>4, Quotients
    <3>. QED BY <1>2, <3>1, Remainders
  <2>. QED BY <2>1
<1>6. \E d \in 1 .. w : digit[d] # 0
  <2>. DEFINE T == {d \in Nat : d \in 1 .. w /\ Power[w - d] <= value}
  <2>1. w \in T
    <3>1. w - w = 0 /\ Power[0] = 1 BY <1>1, PowerIs
    <3>. QED BY <1>1, <1>3, <3>1
  <2>2. PICK d \in T : \A c \in T : d <= c
    <3>1. T \in SUBSET Nat OBVIOUS
    <3>. HIDE DEF T
    <3>. QED BY <2>1, <3>1, LeastNat
  <2>3. d \in 1 .. w /\ Power[w - d] <= value BY <2>2
  <2>4. value < Base * Power[w - d]
    <3>1. w - d + 1 \in Nat /\ w - d + 1 # 0 /\ (w - d + 1) - 1 = w - d BY <1>1, <2>3
    <3>2. Power[w - d + 1] = Base * Power[w - d] BY <3>1, PowerIs
    <3>3. CASE d = 1
      <4>1. w - d + 1 = w BY <1>1, <3>3
      <4>. QED BY <1>3, <3>2, <4>1
    <3>4. CASE d # 1
      <4>1. d - 1 \in 1 .. w /\ ~(d <= d - 1) /\ w - (d - 1) = w - d + 1 BY <1>1, <2>3, <3>4
      <4>2. ~(Power[w - (d - 1)] <= value) BY <2>2, <4>1
      <4>3. Power[w - d + 1] \in Nat BY <3>1, PowerIs
      <4>. QED BY <1>3, <3>2, <4>1, <4>2, <4>3
    <3>. QED BY <3>3, <3>4
  <2>. DEFINE p == Power[w - d]
  <2>5. p \in Nat \ {0} BY <1>4, <2>3
  <2>6. value >= p * 1 /\ value < p * Base
    <3>1. p * 1 = p /\ p * Base = Base * p /\ p <= value /\ value < Base * p BY <1>2, <2>3, <2>4, <2>5
    <3>. HIDE DEF p
    <3>. QED BY <1>3, <3>1
  <2>. HIDE DEF p
  <2>7. value \div p \in Nat /\ value \div p >= 1 /\ value \div p < Base
      BY <1>2, <1>3, <2>5, <2>6, Quotients
  <2>8. (value \div p) % Base # 0 BY <1>2, <2>7, Remainders
  <2>9. digit[d] = (value \div p) % Base BY <2>3 DEF p
  <2>. QED BY <2>3, <2>8, <2>9
<1>. HIDE DEF digit
<1>7. \E m \in 1 .. w : IsLast(m)
  <2>. DEFINE T == {d \in 1 .. w : digit[d] # 0}
  <2>1. PICK m \in T : \A d \in T : d <= m
    <3>1. T \in SUBSET (1 .. w) /\ T # {} BY <1>6
    <3>. HIDE DEF T
    <3>. QED BY <1>1, <3>1, GreatestNat
  <2>2. ASSUME NEW d \in m + 1 .. w PROVE digit[d] = 0
    <3>1. d \in 1 .. w /\ ~(d <= m) BY <1>1, <2>1
    <3>. QED BY <2>1, <3>1
  <2>. QED BY <2>1, <2>2
<1>. DEFINE m == CHOOSE m \in 1 .. w : IsLast(m)
<1>8. m \in 1 .. w /\ IsLast(m)
  <2>. HIDE DEF IsLast
  <2>. QED BY <1>7
<1>9. EvenKey(k, n) = SubSeq(digit, 1, m) BY DEF EvenKey, digit, value, w
<1>. HIDE DEF m
<1>10. digit \in Keys /\ Len(digit) = w
  <2>1. digit \in Seq(Digits) BY <1>1, <1>5, SeqDef
  <2>2. DOMAIN digit = 1 .. w /\ DOMAIN digit = 1 .. Len(digit) /\ Len(digit) \in Nat
      BY <1>5, <2>1, LenProperties
  <2>. QED BY <1>1, <2>1, <2>2 DEF Keys
<1>11. /\ EvenKey(k, n) \in Keys /\ Len(EvenKey(k, n)) = m
       /\ \A d \in 1 .. m : EvenKey(k, n)[d] = digit[d]
  <2>1. m \in 0 .. Len(digit) BY <1>1, <1>8, <1>10
  <2>. QED BY <1>9, <1>10, <2>1, FrontIs
<1>12. \A d \in 1 .. w : digit[d] = EvenDigit(k, n, d) BY DEF EvenDigit, EvenValue, digit, value, w
<1>13. \A d \in 1 .. m : d \in 1 .. w BY <1>1, <1>8
<1>14. \A d \in m + 1 .. w : d \in 1 .. w BY <1>1, <1>8
<1>. QED BY <1>8, <1>11, <1>12, <1>13, <1>14 DEF Written, w

\* Every one of the evenly spaced keys can be a neighbour.
LEMMA EvenKeySound ==
    ASSUME NEW n \in Nat, NEW k \in 1 .. n
    PROVE  Sound(EvenKey(k, n)) /\ Len(EvenKey(k, n)) <= Width(n)
<1>. DEFINE key == EvenKey(k, n)
<1>1. Written(k, n) BY EvenKeyIs
<1>2. Width(n) \in Nat
  <2>1. Width(n) \in 1 .. n + 2 BY WidthIs
  <2>. QED BY <2>1
<1>3. key \in Keys /\ Len(key) \in 1 .. Width(n) /\ \A d \in 1 .. Len(key) : key[d] = EvenDigit(k, n, d)
      /\ EvenDigit(k, n, Len(key)) # 0
    BY <1>1 DEF Written
<1>. HIDE DEF key
<1>4. Len(key) \in 1 .. Len(key) /\ Len(key) # 0 /\ Len(key) <= Width(n) BY <1>2, <1>3
<1>5. key[Len(key)] # 0 BY <1>3, <1>4
<1>. QED BY <1>3, <1>4, <1>5, OpenIs DEF Sound, key

LEMMA Floors ==
    ASSUME NEW x \in Nat, NEW y \in Nat \ {0}
    PROVE  y * (x \div y) <= x /\ x < y * (x \div y + 1)
OBVIOUS

LEMMA WholeAndRest ==
    ASSUME NEW x \in Nat, NEW y \in Nat \ {0} PROVE x = y * (x \div y) + (x % y)
OBVIOUS

\* Digit by digit: the digits so far make the number divided by what is to come.
LEMMA NextDigit ==
    ASSUME NEW x \in Nat, NEW p \in Nat \ {0}, NEW q \in Nat \ {0}
    PROVE  x \div p = q * (x \div (q * p)) + ((x \div p) % q)
<1>. DEFINE t == x \div p
            u == t \div q
<1>1. t \in Nat /\ p * t <= x /\ x < p * (t + 1) BY Quotients, Floors
<1>. HIDE DEF t
<1>2. u \in Nat /\ q * u <= t /\ t < q * (u + 1) BY <1>1, Quotients, Floors
<1>3. t = q * u + (t % q) BY <1>1, WholeAndRest
<1>. HIDE DEF u
<1>4. q * p \in Nat \ {0} BY Products
<1>5. (q * p) * u <= x
  <2>1. p * (q * u) <= p * t BY <1>1, <1>2
  <2>2. p * (q * u) = (q * p) * u BY <1>2
  <2>. QED BY <1>1, <1>2, <1>4, <2>1, <2>2
<1>6. x < (q * p) * (u + 1)
  <2>1. t + 1 <= q * (u + 1) /\ q * (u + 1) \in Nat BY <1>1, <1>2
  <2>2. p * (t + 1) <= p * (q * (u + 1)) BY <1>1, <2>1
  <2>3. p * (q * (u + 1)) = (q * p) * (u + 1) BY <1>2
  <2>. QED BY <1>1, <1>2, <1>4, <2>1, <2>2, <2>3
<1>7. x \div (q * p) = u
  <2>. DEFINE r == q * p
  <2>1. r \in Nat \ {0} /\ r * u <= x /\ x < r * (u + 1) BY <1>4, <1>5, <1>6
  <2>. HIDE DEF r
  <2>2. x \div r \in Nat /\ x \div r >= u /\ x \div r < u + 1
    <3>1. u + 1 \in Nat BY <1>2
    <3>. QED BY <1>2, <2>1, <3>1, Quotients
  <2>3. x \div r = u BY <1>2, <2>2
  <2>. QED BY <2>3 DEF r
<1>. QED BY <1>3, <1>7 DEF t

LEMMA EvenValuesGrow ==
    ASSUME NEW n \in Nat, NEW j \in 1 .. n, NEW k \in 1 .. n, j < k
    PROVE  /\ EvenValue(j, n) \in Nat /\ EvenValue(k, n) \in Nat
           /\ EvenValue(j, n) < EvenValue(k, n) /\ EvenValue(k, n) < Power[Width(n)]
<1>. DEFINE span == Power[Width(n)]
            s == n + 1
            x == (j * span) \div s
<1>1. span \in Nat /\ span > s /\ s \in Nat \ {0}
  <2>1. Width(n) \in 1 .. n + 2 /\ span > n + 1 BY WidthIs
  <2>2. span \in Nat BY <2>1, PowerIs
  <2>. QED BY <2>1, <2>2
<1>. HIDE DEF span, s
<1>2. j * span \in Nat /\ k * span \in Nat /\ (j + 1) * span \in Nat /\ (j + 1) * span <= k * span
    BY <1>1, Products
<1>3. (j + 1) * span = j * span + span BY <1>1
<1>4. x \in Nat /\ s * x <= j * span BY <1>1, <1>2, Quotients, Floors
<1>. HIDE DEF x
<1>5. s * (x + 1) = s * x + s /\ s * x \in Nat BY <1>1, <1>4
<1>6. k * span >= s * (x + 1)
  <2>. DEFINE a == j * span
              b == k * span
              c == s * x
              e == (j + 1) * span
              f == s * (x + 1)
  <2>1. /\ a \in Nat /\ b \in Nat /\ c \in Nat /\ e <= b /\ e = a + span /\ c <= a /\ f = c + s
      BY <1>2, <1>3, <1>4, <1>5
  <2>. HIDE DEF a, b, c, e, f
  <2>2. b >= f BY <1>1, <2>1
  <2>. QED BY <2>2 DEF b, f
<1>7. (k * span) \div s >= x + 1 /\ (k * span) \div s \in Nat
  <2>1. x + 1 \in Nat BY <1>4
  <2>. QED BY <1>1, <1>2, <1>6, <2>1, Quotients
<1>8. (k * span) \div s < span
  <2>1. k * span < s * span
    <3>1. k < s /\ span > 0 BY <1>1 DEF s
    <3>. QED BY <1>1, <3>1, Products
  <2>. QED BY <1>1, <1>2, <2>1, Quotients
<1>9. x < (k * span) \div s BY <1>4, <1>7
<1>. QED BY <1>4, <1>7, <1>8, <1>9 DEF EvenValue, span, s, x

\* The digits of two even keys are the same up to one that is smaller in the earlier key.
LEMMA EvenDigitsGrow ==
    ASSUME NEW n \in Nat, NEW j \in 1 .. n, NEW k \in 1 .. n, j < k
    PROVE  \E d \in 1 .. Width(n) :
              /\ EvenDigit(j, n, d) \in Nat /\ EvenDigit(k, n, d) \in Nat
              /\ EvenDigit(j, n, d) < EvenDigit(k, n, d)
              /\ \A c \in 1 .. d - 1 : EvenDigit(j, n, c) = EvenDigit(k, n, c)
<1>. DEFINE w == Width(n)
            x == EvenValue(j, n)
            y == EvenValue(k, n)
            X(d) == x \div Power[w - d]
            Y(d) == y \div Power[w - d]
            T == {d \in Nat : d <= w /\ X(d) # Y(d)}
<1>1. w \in Nat /\ w >= 1
  <2>1. w \in 1 .. n + 2 BY WidthIs
  <2>. QED BY <2>1
<1>2. x \in Nat /\ y \in Nat /\ x < y /\ y < Power[w] BY EvenValuesGrow
<1>3. Base \in Nat \ {0} /\ Power[0] = 1 BY DigitsAre, PowerIs
<1>4. ASSUME NEW d \in Nat, d <= w
      PROVE  /\ Power[w - d] \in Nat \ {0} /\ X(d) \in Nat /\ Y(d) \in Nat /\ X(d) <= Y(d)
  <2>. DEFINE p == Power[w - d]
  <2>1. w - d \in Nat BY <1>1, <1>4
  <2>2. p \in Nat /\ p > w - d BY <2>1, PowerIs
  <2>3. p \in Nat \ {0} BY <2>1, <2>2
  <2>. HIDE DEF p, x, y
  <2>4. x \div p \in Nat /\ y \div p \in Nat /\ p * (x \div p) <= x BY <1>2, <2>3, Quotients, Floors
  <2>5. y >= p * (x \div p)
    <3>. DEFINE a == p * (x \div p)
    <3>1. a \in Nat /\ a <= x BY <2>3, <2>4
    <3>. HIDE DEF a
    <3>2. y >= a BY <1>2, <3>1
    <3>. QED BY <3>2 DEF a
  <2>6. y \div p >= x \div p BY <1>2, <2>3, <2>4, <2>5, Quotients
  <2>7. x \div p <= y \div p BY <2>4, <2>6
  <2>. QED BY <2>3, <2>4, <2>7 DEF p
<1>5. ASSUME NEW d \in Nat, d <= w, d # 0
      PROVE  /\ X(d) = Base * X(d - 1) + EvenDigit(j, n, d)
             /\ Y(d) = Base * Y(d - 1) + EvenDigit(k, n, d)
             /\ EvenDigit(j, n, d) \in Nat /\ EvenDigit(k, n, d) \in Nat
  <2>. DEFINE p == Power[w - d]
  <2>1. p \in Nat \ {0} /\ x \div p \in Nat /\ y \div p \in Nat BY <1>4, <1>5
  <2>2. w - (d - 1) \in Nat /\ w - (d - 1) # 0 /\ w - (d - 1) - 1 = w - d
      BY <1>1, <1>5
  <2>3. Power[w - (d - 1)] = Base * p
    <3>. DEFINE v == w - (d - 1)
    <3>1. v \in Nat /\ v # 0 /\ v - 1 = w - d BY <2>2
    <3>. HIDE DEF v, w
    <3>2. Power[v] = Base * Power[v - 1] BY <3>1, PowerIs
    <3>. QED BY <3>1, <3>2 DEF v, p
  <2>4. EvenDigit(j, n, d) = (x \div p) % Base /\ EvenDigit(k, n, d) = (y \div p) % Base BY DEF EvenDigit
  <2>. HIDE DEF p, x, y, w
  <2>5. /\ x \div p = Base * (x \div (Base * p)) + ((x \div p) % Base)
        /\ y \div p = Base * (y \div (Base * p)) + ((y \div p) % Base)
      BY <1>2, <1>3, <2>1, NextDigit
  <2>6. (x \div p) % Base \in 0 .. Base - 1 /\ (y \div p) % Base \in 0 .. Base - 1
      BY <1>3, <2>1, Remainders
  <2>7. (x \div p) % Base \in Nat /\ (y \div p) % Base \in Nat BY <1>3, <2>6
  <2>8. /\ X(d) = x \div p /\ X(d - 1) = x \div (Base * p)
        /\ Y(d) = y \div p /\ Y(d - 1) = y \div (Base * p)
      BY <2>3 DEF p
  <2>. HIDE DEF X, Y
  <2>. QED BY <2>4, <2>5, <2>7, <2>8
<1>. HIDE DEF x, y, w
<1>6. X(0) = Y(0)
  <2>1. w - 0 = w /\ Power[w] \in Nat \ {0} BY <1>1, <1>4
  <2>2. x < Power[w] * 1 /\ y < Power[w] * 1 BY <1>2, <2>1
  <2>3. x \div Power[w] \in Nat /\ x \div Power[w] < 1 /\ y \div Power[w] \in Nat /\ y \div Power[w] < 1
      BY <1>2, <2>1, <2>2, Quotients
  <2>. QED BY <2>1, <2>3
<1>7. X(w) # Y(w)
  <2>1. w - w = 0 BY <1>1
  <2>2. x \div 1 = x /\ y \div 1 = y BY <1>2
  <2>. QED BY <1>2, <1>3, <2>1, <2>2
<1>. HIDE DEF X, Y
<1>8. PICK d \in T : \A c \in T : d <= c
  <2>1. T \in SUBSET Nat /\ w \in T BY <1>1, <1>7
  <2>. HIDE DEF T
  <2>. QED BY <2>1, LeastNat
<1>9. d \in Nat /\ d <= w /\ d # 0 /\ X(d) # Y(d) BY <1>6, <1>8
<1>10. ASSUME NEW c \in Nat, c < d PROVE X(c) = Y(c)
  <2>1. ~(d <= c) /\ c <= w BY <1>1, <1>9, <1>10
  <2>. QED BY <1>8, <2>1
<1>11. EvenDigit(j, n, d) \in Nat /\ EvenDigit(k, n, d) \in Nat /\ EvenDigit(j, n, d) < EvenDigit(k, n, d)
  <2>. DEFINE a == Base * X(d - 1)
  <2>1. d - 1 \in Nat /\ d - 1 < d /\ d - 1 <= w BY <1>1, <1>9
  <2>2. X(d - 1) = Y(d - 1) /\ X(d - 1) \in Nat BY <1>4, <1>10, <2>1
  <2>3. a \in Nat BY <1>3, <2>2, Products
  <2>4. /\ X(d) = a + EvenDigit(j, n, d) /\ Y(d) = a + EvenDigit(k, n, d)
        /\ EvenDigit(j, n, d) \in Nat /\ EvenDigit(k, n, d) \in Nat
      BY <1>5, <1>9, <2>2
  <2>5. X(d) \in Nat /\ Y(d) \in Nat /\ X(d) <= Y(d) BY <1>4, <1>9
  <2>. HIDE DEF a
  <2>. QED BY <1>9, <2>3, <2>4, <2>5
<1>12. ASSUME NEW c \in 1 .. d - 1 PROVE EvenDigit(j, n, c) = EvenDigit(k, n, c)
  <2>. DEFINE a == Base * X(c - 1)
  <2>1. c \in Nat /\ c < d /\ c <= w /\ c # 0 /\ c - 1 \in Nat /\ c - 1 < d /\ c - 1 <= w BY <1>1, <1>9
  <2>2. X(c) = Y(c) /\ X(c - 1) = Y(c - 1) /\ X(c - 1) \in Nat /\ X(c) \in Nat BY <1>4, <1>10, <2>1
  <2>3. a \in Nat BY <1>3, <2>2, Products
  <2>4. /\ X(c) = a + EvenDigit(j, n, c) /\ Y(c) = a + EvenDigit(k, n, c)
        /\ EvenDigit(j, n, c) \in Nat /\ EvenDigit(k, n, c) \in Nat
      BY <1>5, <2>1, <2>2
  <2>. DEFINE e == EvenDigit(j, n, c)
              f == EvenDigit(k, n, c)
              v == X(c)
  <2>5. v = a + e /\ v = a + f /\ e \in Nat /\ f \in Nat BY <2>2, <2>4
  <2>. HIDE DEF a, e, f, v
  <2>6. e = f BY <2>3, <2>5
  <2>. QED BY <2>6 DEF e, f
<1>13. d \in 1 .. w BY <1>1, <1>9
<1>. QED BY <1>11, <1>12, <1>13 DEF w

\* Evenly spaced keys increase, though their zeros at the end are cut off.
LEMMA EvenKeysGrow ==
    ASSUME NEW n \in Nat, NEW j \in 1 .. n, NEW k \in 1 .. n, j < k
    PROVE  Less(EvenKey(j, n), EvenKey(k, n))
<1>. DEFINE a == EvenKey(j, n)
            b == EvenKey(k, n)
            w == Width(n)
<1>1. PICK d \in 1 .. w :
         /\ EvenDigit(j, n, d) \in Nat /\ EvenDigit(k, n, d) \in Nat
         /\ EvenDigit(j, n, d) < EvenDigit(k, n, d)
         /\ \A c \in 1 .. d - 1 : EvenDigit(j, n, c) = EvenDigit(k, n, c)
    BY EvenDigitsGrow
<1>2. /\ a \in Keys /\ Len(a) \in 1 .. w
      /\ \A c \in 1 .. Len(a) : a[c] = EvenDigit(j, n, c)
      /\ \A c \in Len(a) + 1 .. w : EvenDigit(j, n, c) = 0
    BY EvenKeyIs DEF Written
<1>3. /\ b \in Keys /\ Len(b) \in 1 .. w
      /\ \A c \in 1 .. Len(b) : b[c] = EvenDigit(k, n, c)
      /\ \A c \in Len(b) + 1 .. w : EvenDigit(k, n, c) = 0
    BY EvenKeyIs DEF Written
<1>4. w \in Nat
  <2>1. w \in 1 .. n + 2 BY WidthIs
  <2>. QED BY <2>1
<1>. HIDE DEF a, b, w
<1>5. d <= Len(b)
  <2>1. EvenDigit(k, n, d) # 0 BY <1>1
  <2>2. ~(d \in Len(b) + 1 .. w) BY <1>3, <2>1
  <2>. QED BY <1>1, <1>3, <1>4, <2>2
<1>6. CASE d <= Len(a)
  <2>1. /\ d \in 1 .. Len(b) /\ d <= Len(a) + 1 /\ a[d] < b[d]
        /\ \A c \in 1 .. d - 1 : c \in 1 .. Len(a) /\ c \in 1 .. Len(b)
      BY <1>1, <1>2, <1>3, <1>4, <1>5, <1>6
  <2>2. \A c \in 1 .. d - 1 : a[c] = b[c] BY <1>1, <1>2, <1>3, <2>1
  <2>3. LessAt(a, b, d) BY <2>1, <2>2 DEF LessAt
  <2>. QED BY <1>2, <1>3, <2>1, <2>3, LessIs DEF a, b
<1>7. CASE ~(d <= Len(a))
  <2>. DEFINE l == Len(a) + 1
  <2>1. /\ l \in 1 .. Len(b) /\ l - 1 = Len(a) /\ ~(l <= Len(a))
        /\ \A c \in 1 .. l - 1 : c \in 1 .. Len(a) /\ c \in 1 .. Len(b) /\ c \in 1 .. d - 1
      BY <1>1, <1>2, <1>3, <1>4, <1>5, <1>7
  <2>. HIDE DEF l
  <2>2. \A c \in 1 .. l - 1 : a[c] = b[c] BY <1>1, <1>2, <1>3, <2>1
  <2>3. LessAt(a, b, l) BY <2>1, <2>2 DEF LessAt, l
  <2>. QED BY <1>2, <1>3, <2>1, <2>3, LessIs DEF a, b
<1>. QED BY <1>6, <1>7

-----------------------------------------------------------------------------
(* The order in which tasks are seen: any of them can be put in it.           *)

Placed(p) == p \in [Items -> [sec : Sections, key : Keys]]

LEMMA ItemsAre ==
    /\ Items \subseteq Nat \ {0} /\ IsFiniteSet(Items) /\ Cardinality(Items) \in Nat
    /\ \A S \in SUBSET Items : /\ IsFiniteSet(S) /\ Cardinality(S) \in Nat
                               /\ Cardinality(S) <= Cardinality(Items)
<1>1. Items \subseteq Nat \ {0} /\ IsFiniteSet(Items) BY KeysAssumption
<1>2. ASSUME NEW S \in SUBSET Items
      PROVE  IsFiniteSet(S) /\ Cardinality(S) \in Nat /\ Cardinality(S) <= Cardinality(Items)
    BY <1>1, FS_Subset, FS_CardinalityType
<1>. QED BY <1>1, <1>2, FS_CardinalityType

LEMMA RankIs == \A s \in Sections : Rank(s) \in Nat
BY KeysAssumption DEF Rank

LEMMA SeenOrders ==
    ASSUME NEW p, Placed(p)
    PROVE  /\ \A i \in Items : ~Seen(p, i, i)
           /\ \A i, j, l \in Items : Seen(p, i, j) /\ Seen(p, j, l) => Seen(p, i, l)
           /\ \A i, j \in Items : i # j => Seen(p, i, j) \/ Seen(p, j, i)
<1>1. \A i \in Items : i \in Nat /\ Rank(p[i].sec) \in Nat /\ p[i].key \in Keys
    BY ItemsAre, RankIs DEF Placed
<1>2. ASSUME NEW i \in Items PROVE ~Seen(p, i, i) BY <1>1, LessApart DEF Seen, Before
<1>3. ASSUME NEW i \in Items, NEW j \in Items, NEW l \in Items, Before(p, i, j), Before(p, j, l)
      PROVE  Before(p, i, l)
  <2>1. Less(p[i].key, p[j].key) /\ Less(p[j].key, p[l].key) => Less(p[i].key, p[l].key)
      BY <1>1, LessTransitive
  <2>2. i < j /\ j < l => i < l BY <1>1
  <2>. QED BY <1>3, <2>1, <2>2 DEF Before
<1>4. ASSUME NEW i \in Items, NEW j \in Items, NEW l \in Items, Seen(p, i, j), Seen(p, j, l)
      PROVE  Seen(p, i, l)
  <2>. DEFINE a == Rank(p[i].sec)
              b == Rank(p[j].sec)
              c == Rank(p[l].sec)
  <2>1. a \in Nat /\ b \in Nat /\ c \in Nat BY <1>1
  <2>2. (a < b \/ (a = b /\ Before(p, i, j))) /\ (b < c \/ (b = c /\ Before(p, j, l))) BY <1>4 DEF Seen
  <2>3. a < c \/ (a = c /\ Before(p, i, j) /\ Before(p, j, l))
    <3>. HIDE DEF a, b, c
    <3>. QED BY <2>1, <2>2
  <2>. QED BY <2>3, <1>3 DEF Seen
<1>5. ASSUME NEW i \in Items, NEW j \in Items, i # j PROVE Seen(p, i, j) \/ Seen(p, j, i)
  <2>1. p[i].key # p[j].key => Less(p[i].key, p[j].key) \/ Less(p[j].key, p[i].key)
      BY <1>1, LessTotal
  <2>2. i < j \/ j < i BY <1>1, <1>5
  <2>3. Before(p, i, j) \/ Before(p, j, i) BY <2>1, <2>2 DEF Before
  <2>4. \/ Rank(p[i].sec) < Rank(p[j].sec) \/ Rank(p[j].sec) < Rank(p[i].sec)
        \/ Rank(p[i].sec) = Rank(p[j].sec)
      BY <1>1
  <2>. QED BY <2>3, <2>4 DEF Seen
<1>. QED BY <1>2, <1>4, <1>5

InOrder(p, row, n) == \A m, l \in 1 .. n : m < l => Seen(p, row[m], row[l])

\* The n-th of the tasks is the one that n - 1 others are seen before.
LEMMA SortedExists ==
    ASSUME NEW p, Placed(p), NEW S \in SUBSET Items
    PROVE  \E row \in [1 .. Cardinality(S) -> S] : InOrder(p, row, Cardinality(S))
<1>. DEFINE n == Cardinality(S)
            earlier(i) == {j \in S : Seen(p, j, i)}
            rank == [i \in S |-> 1 + Cardinality(earlier(i))]
<1>1. IsFiniteSet(S) /\ n \in Nat BY ItemsAre
<1>2. ASSUME NEW i \in S
      PROVE  IsFiniteSet(earlier(i)) /\ Cardinality(earlier(i)) \in Nat /\ Cardinality(earlier(i)) < n
  <2>1. earlier(i) \in SUBSET S /\ i \notin earlier(i) BY SeenOrders
  <2>2. earlier(i) # S BY <2>1
  <2>. HIDE DEF earlier
  <2>3. IsFiniteSet(earlier(i)) /\ Cardinality(earlier(i)) <= n /\ Cardinality(earlier(i)) # n
      BY <1>1, <2>1, <2>2, FS_Subset
  <2>. QED BY <1>1, <2>3, FS_CardinalityType
<1>3. ASSUME NEW i \in S, NEW j \in S, Seen(p, j, i) PROVE rank[j] < rank[i]
  <2>1. earlier(j) \in SUBSET earlier(i) /\ j \in earlier(i) /\ j \notin earlier(j)
      BY <1>3, SeenOrders
  <2>2. earlier(j) # earlier(i) BY <2>1
  <2>. HIDE DEF earlier
  <2>3. Cardinality(earlier(j)) <= Cardinality(earlier(i))
        /\ Cardinality(earlier(j)) # Cardinality(earlier(i))
      BY <1>2, <2>1, <2>2, FS_Subset
  <2>4. Cardinality(earlier(j)) \in Nat /\ Cardinality(earlier(i)) \in Nat BY <1>2
  <2>. QED BY <2>3, <2>4
<1>4. rank \in [S -> 1 .. n]
  <2>. HIDE DEF earlier
  <2>1. \A i \in S : 1 + Cardinality(earlier(i)) \in 1 .. n BY <1>1, <1>2
  <2>. QED BY <2>1
<1>. HIDE DEF rank, n
<1>5. rank \in Injection(S, 1 .. n)
  <2>1. ASSUME NEW i \in S, NEW j \in S, rank[i] = rank[j] PROVE i = j
    <3>1. rank[i] \in 1 .. n /\ rank[j] \in 1 .. n BY <1>4
    <3>2. ~(rank[i] < rank[j]) /\ ~(rank[j] < rank[i]) BY <1>1, <2>1, <3>1
    <3>. QED BY <1>3, <3>2, SeenOrders
  <2>. QED BY <1>4, <2>1 DEF Injection, IsInjective
<1>6. rank \in Surjection(S, 1 .. n)
  <2>1. IsFiniteSet(1 .. n) /\ Cardinality(1 .. n) = n BY <1>1, FS_Interval
  <2>. QED BY <1>5, <2>1, FS_Injection DEF n
<1>. DEFINE row == [m \in 1 .. n |-> CHOOSE i \in S : rank[i] = m]
<1>7. \A m \in 1 .. n : row[m] \in S /\ rank[row[m]] = m BY <1>6 DEF Surjection
<1>8. row \in [1 .. n -> S] BY <1>7
<1>. HIDE DEF row
<1>9. ASSUME NEW m \in 1 .. n, NEW l \in 1 .. n, m < l PROVE Seen(p, row[m], row[l])
  <2>1. row[m] \in S /\ row[l] \in S /\ rank[row[m]] = m /\ rank[row[l]] = l BY <1>7
  <2>2. row[m] # row[l] BY <1>1, <1>9, <2>1
  <2>3. ~Seen(p, row[l], row[m]) BY <1>1, <1>3, <1>9, <2>1
  <2>. QED BY <2>1, <2>2, <2>3, SeenOrders
<1>. QED BY <1>8, <1>9 DEF InOrder, n

LEMMA SortedIs ==
    ASSUME NEW p, Placed(p), NEW S \in SUBSET Items
    PROVE  /\ Sorted(p, S) \in [1 .. Cardinality(S) -> S]
           /\ InOrder(p, Sorted(p, S), Cardinality(S))
           /\ Sorted(p, S) \in Seq(S) /\ Len(Sorted(p, S)) = Cardinality(S)
           /\ \A i \in S : /\ Turn(Sorted(p, S), i) \in 1 .. Cardinality(S)
                           /\ Sorted(p, S)[Turn(Sorted(p, S), i)] = i
<1>. DEFINE n == Cardinality(S)
            row == Sorted(p, S)
<1>1. IsFiniteSet(S) /\ n \in Nat BY ItemsAre
<1>2. row = CHOOSE r \in [1 .. n -> S] : InOrder(p, r, n) BY DEF Sorted, InOrder
<1>. HIDE DEF row
<1>3. row \in [1 .. n -> S] /\ InOrder(p, row, n) BY <1>2, SortedExists
<1>. HIDE DEF n
<1>4. row \in Injection(1 .. n, S)
  <2>1. ASSUME NEW m \in 1 .. n, NEW l \in 1 .. n, row[m] = row[l] PROVE m = l
    <3>1. row[m] \in Items BY <1>3
    <3>2. ~Seen(p, row[m], row[m]) BY <3>1, SeenOrders
    <3>3. ~(m < l) /\ ~(l < m) BY <1>3, <2>1, <3>2 DEF InOrder
    <3>. QED BY <3>3
  <2>. QED BY <1>3, <2>1 DEF Injection, IsInjective
<1>5. row \in Surjection(1 .. n, S)
  <2>1. IsFiniteSet(1 .. n) /\ Cardinality(1 .. n) = n BY <1>1, FS_Interval
  <2>. QED BY <1>1, <1>4, <2>1, FS_Injection DEF n
<1>6. row \in Seq(S) BY <1>1, <1>3, SeqDef
<1>7. Len(row) = n
  <2>1. DOMAIN row = 1 .. n /\ DOMAIN row = 1 .. Len(row) /\ Len(row) \in Nat
      BY <1>3, <1>6, LenProperties
  <2>. QED BY <1>1, <2>1
<1>8. ASSUME NEW i \in S PROVE Turn(row, i) \in 1 .. n /\ row[Turn(row, i)] = i
  <2>1. \E m \in 1 .. n : row[m] = i BY <1>5 DEF Surjection
  <2>2. DOMAIN row = 1 .. n BY <1>3
  <2>3. Turn(row, i) = CHOOSE m \in 1 .. n : row[m] = i BY <2>2 DEF Turn
  <2>. QED BY <2>1, <2>3
<1>. QED BY <1>3, <1>6, <1>7, <1>8 DEF row, n

LEMMA SortedOnce ==
    ASSUME NEW p, Placed(p), NEW S \in SUBSET Items, NEW n \in 1 .. Cardinality(S)
    PROVE  Turn(Sorted(p, S), Sorted(p, S)[n]) = n
<1>. DEFINE row == Sorted(p, S)
            m == Turn(row, row[n])
<1>1. /\ Cardinality(S) \in Nat /\ row \in [1 .. Cardinality(S) -> S] /\ InOrder(p, row, Cardinality(S))
      /\ m \in 1 .. Cardinality(S) /\ row[m] = row[n]
    BY ItemsAre, SortedIs
<1>. HIDE DEF row, m
<1>2. row[n] \in Items BY <1>1
<1>3. ~Seen(p, row[n], row[n]) BY <1>2, SeenOrders
<1>4. ~(m < n) /\ ~(n < m) BY <1>1, <1>3 DEF InOrder
<1>5. m = n BY <1>1, <1>4
<1>. QED BY <1>5 DEF m, row

\* Sections and order are the same in both.
SameOrder(p, q) ==
    /\ \A i \in Items : q[i].sec = p[i].sec
    /\ \A i, j \in Items : p[i].sec = p[j].sec => (Before(p, i, j) <=> Before(q, i, j))

LEMMA SameSorted ==
    ASSUME NEW p, NEW q, SameOrder(p, q), NEW s, NEW S \in SUBSET Rows(p, s)
    PROVE  Sorted(p, S) = Sorted(q, S)
<1>. DEFINE rows == [1 .. Cardinality(S) -> S]
            P(row) == \A m, n \in 1 .. Cardinality(S) : m < n => Seen(p, row[m], row[n])
            Q(row) == \A m, n \in 1 .. Cardinality(S) : m < n => Seen(q, row[m], row[n])
<1>1. \A i, j \in S : Seen(p, i, j) <=> Seen(q, i, j)
  <2>1. SUFFICES ASSUME NEW i \in S, NEW j \in S PROVE Seen(p, i, j) <=> Seen(q, i, j) OBVIOUS
  <2>2. i \in Items /\ j \in Items /\ p[i].sec = p[j].sec BY DEF Rows
  <2>3. q[i].sec = p[i].sec /\ q[j].sec = p[j].sec /\ (Before(p, i, j) <=> Before(q, i, j))
      BY <2>2 DEF SameOrder
  <2>. QED BY <2>3 DEF Seen
<1>2. \A row \in rows : P(row) <=> Q(row) BY <1>1
<1>3. Sorted(p, S) = CHOOSE row \in rows : P(row) BY DEF Sorted
<1>4. Sorted(q, S) = CHOOSE row \in rows : Q(row) BY DEF Sorted
<1>5. (CHOOSE row \in rows : P(row)) = CHOOSE row \in rows : Q(row)
  <2>. HIDE DEF P, Q, rows
  <2>. QED BY <1>2
<1>. QED BY <1>3, <1>4, <1>5

-----------------------------------------------------------------------------
(* A section that is spaced anew, and the keys a move may take in it.         *)

Widest == Width(Cardinality(Items))

LEMMA LengthsAre ==
    /\ Widest \in Nat /\ MaxLength \in Nat /\ Jitter \in Nat
    /\ Widest <= MaxLength /\ Widest + 1 + Jitter <= MaxLength
    /\ \A n \in Nat : n <= Cardinality(Items) =>
          Width(n) \in Nat /\ Width(n) <= Widest /\ Halvings[n] \in Nat /\ Widest + Halvings[n] <= MaxLength
<1>. DEFINE size == Cardinality(Items)
<1>1. size \in Nat BY ItemsAre
<1>2. Width(size) + Halvings[size] <= MaxLength /\ Width(size) + 1 + Jitter <= MaxLength
    BY LengthAssumption
<1>3. MaxLength \in Nat /\ Jitter \in Nat BY KeysAssumption
<1>. HIDE DEF size
<1>4. \A n \in Nat : Width(n) \in Nat /\ Halvings[n] \in Nat
  <2>1. SUFFICES ASSUME NEW n \in Nat PROVE Width(n) \in Nat /\ Halvings[n] \in Nat OBVIOUS
  <2>2. Width(n) \in 1 .. n + 2 BY WidthIs
  <2>. QED BY <2>2, HalvingsIs
<1>5. ASSUME NEW n \in Nat, n <= size
      PROVE  Width(n) <= Width(size) /\ Halvings[n] <= Halvings[size]
    BY <1>1, <1>5, WidthGrows, HalvingsGrow
<1>6. Width(size) \in Nat /\ Halvings[size] \in Nat BY <1>1, <1>4
<1>7. Width(size) <= MaxLength BY <1>2, <1>3, <1>6
<1>8. ASSUME NEW n \in Nat, n <= size
      PROVE  /\ Width(n) \in Nat /\ Width(n) <= Width(size) /\ Halvings[n] \in Nat
             /\ Width(size) + Halvings[n] <= MaxLength
  <2>1. Width(n) \in Nat /\ Halvings[n] \in Nat BY <1>4
  <2>2. Width(n) <= Width(size) /\ Halvings[n] <= Halvings[size] BY <1>5, <1>8
  <2>. QED BY <1>2, <1>3, <1>6, <2>1, <2>2
<1>. QED BY <1>2, <1>3, <1>6, <1>7, <1>8 DEF Widest, size

\* Even spacing gives every one of its tasks a short sound key, and leaves the
\* sections and all other tasks alone.
LEMMA EvenlyIs ==
    ASSUME NEW p, Placed(p), NEW S \in SUBSET Items
    PROVE  /\ Placed(Evenly(p, S))
           /\ \A i \in Items : Evenly(p, S)[i].sec = p[i].sec
           /\ \A i \in S : Sound(Evenly(p, S)[i].key) /\ Len(Evenly(p, S)[i].key) <= Widest
           /\ \A i \in Items \ S : Evenly(p, S)[i] = p[i]
<1>. DEFINE row == Sorted(p, S)
            n == Cardinality(S)
            key(i) == EvenKey(Turn(row, i), Len(row))
            even == [i \in Items |-> IF i \in S THEN [p[i] EXCEPT !.key = key(i)] ELSE p[i]]
<1>1. n \in Nat /\ n <= Cardinality(Items) /\ Len(row) = n /\ \A i \in S : Turn(row, i) \in 1 .. n
    BY ItemsAre, SortedIs
<1>2. ASSUME NEW i \in S PROVE Sound(key(i)) /\ key(i) \in Keys /\ Len(key(i)) <= Widest
  <2>1. Turn(row, i) \in 1 .. n BY <1>1
  <2>2. Sound(key(i)) /\ Len(key(i)) <= Width(n)
    <3>. HIDE DEF row, n
    <3>. QED BY <1>1, <2>1, EvenKeySound
  <2>3. key(i) \in Keys BY <2>2 DEF Sound
  <2>4. Len(key(i)) \in Nat BY <2>3, KeyIs
  <2>5. Width(n) \in Nat /\ Width(n) <= Widest /\ Widest \in Nat BY <1>1, LengthsAre
  <2>. QED BY <2>2, <2>3, <2>4, <2>5
<1>3. Evenly(p, S) = even BY DEF Evenly
<1>. HIDE DEF key
<1>4. \A i \in Items : p[i] \in [sec : Sections, key : Keys] BY DEF Placed
<1>5. \A i \in S : /\ even[i] \in [sec : Sections, key : Keys]
                   /\ even[i].sec = p[i].sec /\ even[i].key = key(i)
    BY <1>2, <1>4
<1>6. \A i \in Items \ S : even[i] = p[i] OBVIOUS
<1>7. even \in [Items -> [sec : Sections, key : Keys]] BY <1>4, <1>5, <1>6
<1>. HIDE DEF even
<1>. QED BY <1>2, <1>3, <1>5, <1>6, <1>7 DEF Placed

\* _rebalance spaces a whole section anew and leaves every order as it is, also that
\* of tasks with equal keys, which their ids decide.
THEOREM SpacingKeepsOrder ==
    ASSUME NEW p, Placed(p), NEW s \in Sections
    PROVE  SameOrder(p, Evenly(p, Rows(p, s)))
<1>. DEFINE S == Rows(p, s)
            row == Sorted(p, S)
            n == Cardinality(S)
            even == Evenly(p, S)
<1>1. S \in SUBSET Items BY DEF Rows
<1>2. \A i \in Items : i \in S <=> p[i].sec = s BY DEF Rows
<1>3. Placed(even) /\ \A i \in Items : even[i].sec = p[i].sec /\ (i \notin S => even[i] = p[i])
    BY <1>1, EvenlyIs
<1>4. /\ n \in Nat /\ row \in [1 .. n -> S] /\ InOrder(p, row, n) /\ Len(row) = n
      /\ \A i \in S : Turn(row, i) \in 1 .. n /\ row[Turn(row, i)] = i
    BY <1>1, SortedIs, ItemsAre
<1>5. \A i \in S : even[i].key = EvenKey(Turn(row, i), n)
  <2>1. SUFFICES ASSUME NEW i \in S PROVE even[i].key = EvenKey(Turn(row, i), n) OBVIOUS
  <2>2. p[i] \in [sec : Sections, key : Keys] BY <1>1 DEF Placed
  <2>3. even[i] = [p[i] EXCEPT !.key = EvenKey(Turn(row, i), n)] BY <1>1, <1>4 DEF Evenly
  <2>. QED BY <2>2, <2>3
<1>. HIDE DEF S, row, n, even
<1>6. ASSUME NEW i \in S, NEW j \in S, Seen(p, i, j) PROVE Less(even[i].key, even[j].key)
  <2>. DEFINE m == Turn(row, i)
              l == Turn(row, j)
  <2>1. m \in 1 .. n /\ l \in 1 .. n /\ row[m] = i /\ row[l] = j BY <1>4
  <2>2. i \in Items /\ j \in Items /\ i # j /\ ~Seen(p, j, i) BY <1>1, <1>6, SeenOrders
  <2>. HIDE DEF m, l
  <2>3. ~(l < m) /\ l # m BY <1>4, <2>1, <2>2 DEF InOrder
  <2>4. m < l BY <1>4, <2>1, <2>3
  <2>5. Less(EvenKey(m, n), EvenKey(l, n)) BY <1>4, <2>1, <2>4, EvenKeysGrow
  <2>. QED BY <1>5, <2>5 DEF m, l
<1>7. ASSUME NEW i \in S, NEW j \in S PROVE Before(p, i, j) <=> Before(even, i, j)
  <2>1. /\ i \in Items /\ j \in Items /\ p[i].sec = p[j].sec
        /\ Rank(p[i].sec) = Rank(p[j].sec) /\ Rank(p[i].sec) \in Nat
      BY <1>1, <1>2, RankIs DEF Placed
  <2>2. Before(p, i, j) <=> Seen(p, i, j) BY <2>1 DEF Seen
  <2>3. Before(p, i, j) => Before(even, i, j) BY <1>6, <2>2 DEF Before
  <2>4. ASSUME Before(even, i, j) PROVE Seen(p, i, j)
    <3>1. even[i].sec = even[j].sec BY <1>3, <2>1
    <3>2. Seen(even, i, j) BY <2>4, <3>1 DEF Seen
    <3>3. i # j /\ ~Seen(even, j, i) BY <1>3, <2>1, <3>2, SeenOrders
    <3>4. ASSUME Seen(p, j, i) PROVE FALSE
      <4>1. Before(even, j, i) BY <1>6, <3>4 DEF Before
      <4>. QED BY <3>1, <3>3, <4>1 DEF Seen
    <3>. QED BY <2>1, <3>3, <3>4, SeenOrders
  <2>. QED BY <2>2, <2>3, <2>4
<1>8. ASSUME NEW i \in Items, NEW j \in Items, p[i].sec = p[j].sec
      PROVE  Before(p, i, j) <=> Before(even, i, j)
  <2>1. CASE i \in S
    <3>1. j \in S BY <1>2, <1>8, <2>1
    <3>. QED BY <1>7, <2>1, <3>1
  <2>2. CASE i \notin S
    <3>1. j \notin S BY <1>2, <1>8, <2>2
    <3>. QED BY <1>3, <2>2, <3>1 DEF Before
  <2>. QED BY <2>1, <2>2
<1>9. SameOrder(p, even) BY <1>3, <1>8 DEF SameOrder
<1>. QED BY <1>9 DEF even, S

\* The rows of a section have sound keys.
Fit(p, s) == \A i \in Rows(p, s) : Sound(p[i].key)

LEMMA NeighbourIs ==
    ASSUME NEW p, Placed(p), NEW s \in Sections, Fit(p, s),
           NEW i, i \in Rows(p, s) \/ i = 0
    PROVE  /\ KeyOf(p, i) \in Keys /\ Len(KeyOf(p, i)) \in Nat
           /\ KeyOf(p, i) # Open => i \in Rows(p, s) /\ KeyOf(p, i) = p[i].key /\ Sound(KeyOf(p, i))
<1>1. CASE i = 0
  <2>1. KeyOf(p, i) = Open BY <1>1 DEF KeyOf
  <2>. QED BY <2>1, OpenIs
<1>2. CASE i \in Rows(p, s)
  <2>1. i # 0 BY <1>2, ItemsAre DEF Rows
  <2>2. KeyOf(p, i) = p[i].key BY <2>1 DEF KeyOf
  <2>3. Sound(p[i].key) BY <1>2 DEF Fit
  <2>. QED BY <1>2, <2>2, <2>3, KeyIs DEF Sound
<1>. QED BY <1>1, <1>2

LEMMA ListedIs ==
    ASSUME NEW p, Placed(p), NEW s \in Sections, NEW M \in SUBSET Items,
           NEW k \in 0 .. Len(Listed(p, s, M))
    PROVE  /\ Len(Listed(p, s, M)) = Cardinality(Rows(p, s) \ (dead \cup M))
           /\ Above(p, s, M, k) \in Rows(p, s) \cup {0}
           /\ Below(p, s, M, k) \in Rows(p, s) \cup {0}
           /\ Above(p, s, M, k) \notin M /\ Below(p, s, M, k) \notin M
<1>. DEFINE S == Rows(p, s) \ (dead \cup M)
            row == Listed(p, s, M)
<1>1. S \in SUBSET Items /\ S \subseteq Rows(p, s) /\ S \cap M = {} /\ 0 \notin M
    BY ItemsAre DEF Rows
<1>2. row = Sorted(p, S) BY DEF Listed
<1>. HIDE DEF S
<1>3. /\ Len(row) = Cardinality(S) /\ Cardinality(S) \in Nat
      /\ row \in [1 .. Cardinality(S) -> S]
    BY <1>1, <1>2, SortedIs, ItemsAre
<1>. HIDE DEF row
<1>4. \A n \in 1 .. Len(row) : row[n] \in Rows(p, s) /\ row[n] \notin M BY <1>1, <1>3
<1>5. k # 0 => k \in 1 .. Len(row) BY DEF row
<1>6. k # Len(row) => k + 1 \in 1 .. Len(row) BY <1>3 DEF row
<1>7. Above(p, s, M, k) = IF k = 0 THEN 0 ELSE row[k] BY DEF Above, row
<1>8. Below(p, s, M, k) = IF k = Len(row) THEN 0 ELSE row[k + 1] BY DEF Below, row
<1>. QED BY <1>1, <1>3, <1>4, <1>5, <1>6, <1>7, <1>8 DEF row, S

LEMMA OpenBelow ==
    ASSUME NEW k \in Keys, k # Open PROVE Less(Open, k)
<1>1. Len(Open) = 0 /\ Open \in Keys BY OpenIs
<1>2. \A m \in 1 .. Len(Open) : FALSE BY <1>1
<1>3. Len(k) \in Nat BY KeyIs
<1>4. IsPrefix(Open, k) BY <1>1, <1>2, <1>3, PrefixIs
<1>. QED BY <1>4 DEF Less

\* Keys for n tasks, beside keys of at most l digits.
Chosen(ks, n, l) ==
    /\ ks \in Seq(Keys) /\ Len(ks) = n
    /\ \A m \in 1 .. n :
          /\ Sound(ks[m])
          /\ Len(ks[m]) <= Width(n) \/ Len(ks[m]) <= l + 1 + Jitter \/ Len(ks[m]) <= l + Halvings[n]

LEMMA AttemptIs ==
    ASSUME NEW p, Placed(p), NEW s \in Sections, NEW M \in SUBSET Items,
           NEW k \in 0 .. Len(Listed(p, s, M)), Fit(p, s), NEW l \in Nat,
           Len(KeyOf(p, Above(p, s, M, k))) <= l, Len(KeyOf(p, Below(p, s, M, k))) <= l,
           NEW ks \in Attempt(p, s, M, k)
    PROVE  Chosen(ks, Cardinality(M), l)
<1>. DEFINE a == KeyOf(p, Above(p, s, M, k))
            b == KeyOf(p, Below(p, s, M, k))
            n == Cardinality(M)
<1>1. /\ a \in Keys /\ Len(a) <= l /\ (a # Open => Sound(a))
      /\ b \in Keys /\ Len(b) <= l /\ (b # Open => Sound(b))
  <2>1. Above(p, s, M, k) \in Rows(p, s) \cup {0} /\ Below(p, s, M, k) \in Rows(p, s) \cup {0}
      BY ListedIs
  <2>. QED BY <2>1, NeighbourIs
<1>2. n \in Nat BY ItemsAre
<1>3. /\ ~(a # Open /\ b # Open /\ ~Less(a, b))
      /\ ks \in IF n = 1 THEN {<<x>> : x \in KeyBetween(a, b)} ELSE {KeysBetween(a, b, n)}
    BY DEF Attempt
<1>. SUFFICES Chosen(ks, n, l) OBVIOUS
<1>. HIDE DEF a, b, n
<1>4. Gap(a, b) BY <1>1, <1>3, OpenBelow DEF Gap, Sound
<1>5. Len(a) \in Nat /\ Len(b) \in Nat BY <1>1, KeyIs
<1>6. CASE n = 1
  <2>1. PICK x \in KeyBetween(a, b) : ks = <<x>> BY <1>3, <1>6
  <2>2. Sound(x) /\ (Len(x) <= Len(a) + 1 + Jitter \/ Len(x) <= Len(b) + 1 + Jitter)
      BY <1>1, <1>4, <2>1, KeyBetweenBetween
  <2>3. x \in Keys /\ Len(x) \in Nat BY <2>2, KeyIs DEF Sound
  <2>4. Len(x) <= l + 1 + Jitter BY <1>1, <1>5, <2>2, <2>3, LengthsAre
  <2>5. ks \in Seq(Keys) /\ Len(ks) = 1 /\ ks[1] = x BY <2>1, <2>3
  <2>. QED BY <1>6, <2>2, <2>4, <2>5 DEF Chosen
<1>7. CASE n # 1 /\ a = Open /\ b = Open
  <2>1. ks = EvenKeys(n) BY <1>3, <1>7 DEF KeysBetween
  <2>2. \A m \in 1 .. n : Sound(EvenKey(m, n)) /\ Len(EvenKey(m, n)) <= Width(n)
      BY <1>2, EvenKeySound
  <2>3. ks = [m \in 1 .. n |-> EvenKey(m, n)] BY <2>1 DEF EvenKeys
  <2>4. ks \in [1 .. n -> Keys] /\ \A m \in 1 .. n : ks[m] = EvenKey(m, n)
      BY <2>2, <2>3 DEF Sound
  <2>5. ks \in Seq(Keys) BY <1>2, <2>4, SeqDef
  <2>6. Len(ks) = n
    <3>1. DOMAIN ks = 1 .. n /\ DOMAIN ks = 1 .. Len(ks) /\ Len(ks) \in Nat
        BY <2>4, <2>5, LenProperties
    <3>. QED BY <1>2, <3>1
  <2>. QED BY <2>2, <2>4, <2>5, <2>6 DEF Chosen
<1>8. CASE n # 1 /\ ~(a = Open /\ b = Open)
  <2>1. ks = Bisect[<<n, a, b>>] BY <1>3, <1>8 DEF KeysBetween
  <2>2. Spread(ks, n, a, b) BY <1>1, <1>2, <1>4, <2>1, BisectSpreads
  <2>3. Halvings[n] \in Nat BY <1>2, HalvingsIs
  <2>4. ASSUME NEW m \in 1 .. n PROVE Sound(ks[m]) /\ Len(ks[m]) <= l + Halvings[n]
    <3>1. Sound(ks[m]) /\ (Len(ks[m]) <= Len(a) + Halvings[n] \/ Len(ks[m]) <= Len(b) + Halvings[n])
        BY <2>2 DEF Spread
    <3>2. Len(ks[m]) \in Nat BY <3>1, KeyIs DEF Sound
    <3>. QED BY <1>1, <1>5, <2>3, <3>1, <3>2
  <2>. QED BY <2>2, <2>4 DEF Chosen, Spread
<1>. QED BY <1>6, <1>7, <1>8

\* Some length bounds the keys of any attempt.
LEMMA AttemptSound ==
    ASSUME NEW p, Placed(p), NEW s \in Sections, NEW M \in SUBSET Items,
           NEW k \in 0 .. Len(Listed(p, s, M)), Fit(p, s), NEW ks \in Attempt(p, s, M, k)
    PROVE  /\ ks \in Seq(Keys) /\ Len(ks) = Cardinality(M) /\ DOMAIN ks = 1 .. Cardinality(M)
           /\ \A m \in 1 .. Cardinality(M) : Sound(ks[m])
<1>. DEFINE x == Len(KeyOf(p, Above(p, s, M, k)))
            y == Len(KeyOf(p, Below(p, s, M, k)))
<1>1. x \in Nat /\ y \in Nat
  <2>1. Above(p, s, M, k) \in Rows(p, s) \cup {0} /\ Below(p, s, M, k) \in Rows(p, s) \cup {0}
      BY ListedIs
  <2>. QED BY <2>1, NeighbourIs
<1>2. \E l \in Nat : x <= l /\ y <= l
  <2>. HIDE DEF x, y
  <2>1. x + y \in Nat /\ x <= x + y /\ y <= x + y BY <1>1
  <2>. QED BY <2>1
<1>3. PICK l \in Nat : x <= l /\ y <= l BY <1>2
<1>4. Chosen(ks, Cardinality(M), l) BY <1>3, AttemptIs
<1>. QED BY <1>4, LenProperties DEF Chosen

\* The keys of an attempt increase, from the one neighbour to the other.
Rising(ks, n, a, b) ==
    /\ \A m \in 1 .. n : Less(a, ks[m]) /\ (b # Open => Less(ks[m], b))
    /\ \A m, l \in 1 .. n : m < l => Less(ks[m], ks[l])

LEMMA AttemptRises ==
    ASSUME NEW p, Placed(p), NEW s \in Sections, NEW M \in SUBSET Items,
           NEW k \in 0 .. Len(Listed(p, s, M)), Fit(p, s), NEW ks \in Attempt(p, s, M, k)
    PROVE  Rising(ks, Cardinality(M), KeyOf(p, Above(p, s, M, k)), KeyOf(p, Below(p, s, M, k)))
<1>. DEFINE a == KeyOf(p, Above(p, s, M, k))
            b == KeyOf(p, Below(p, s, M, k))
            n == Cardinality(M)
<1>1. a \in Keys /\ (a # Open => Sound(a)) /\ b \in Keys /\ (b # Open => Sound(b))
  <2>1. Above(p, s, M, k) \in Rows(p, s) \cup {0} /\ Below(p, s, M, k) \in Rows(p, s) \cup {0}
      BY ListedIs
  <2>. QED BY <2>1, NeighbourIs
<1>2. n \in Nat BY ItemsAre
<1>3. /\ ~(a # Open /\ b # Open /\ ~Less(a, b))
      /\ ks \in IF n = 1 THEN {<<x>> : x \in KeyBetween(a, b)} ELSE {KeysBetween(a, b, n)}
    BY DEF Attempt
<1>. SUFFICES Rising(ks, n, a, b) OBVIOUS
<1>. HIDE DEF a, b, n
<1>4. Gap(a, b) BY <1>1, <1>3, OpenBelow DEF Gap, Sound
<1>5. CASE n = 1
  <2>1. PICK x \in KeyBetween(a, b) : ks = <<x>> BY <1>3, <1>5
  <2>2. Less(a, x) /\ (b # Open => Less(x, b)) BY <1>1, <1>4, <2>1, KeyBetweenBetween
  <2>3. ks[1] = x BY <2>1
  <2>. QED BY <1>5, <2>2, <2>3 DEF Rising
<1>6. CASE n # 1 /\ a = Open /\ b = Open
  <2>1. ks = [m \in 1 .. n |-> EvenKey(m, n)] BY <1>3, <1>6 DEF KeysBetween, EvenKeys
  <2>2. \A m \in 1 .. n : ks[m] = EvenKey(m, n) BY <2>1
  <2>3. ASSUME NEW m \in 1 .. n PROVE Less(Open, ks[m])
    <3>1. Sound(ks[m]) BY <1>2, <2>2, EvenKeySound
    <3>. QED BY <3>1, OpenBelow DEF Sound
  <2>4. ASSUME NEW m \in 1 .. n, NEW j \in 1 .. n, m < j PROVE Less(ks[m], ks[j])
    <3>1. Less(EvenKey(m, n), EvenKey(j, n)) BY <1>2, <2>4, EvenKeysGrow
    <3>. QED BY <2>2, <3>1
  <2>. QED BY <1>6, <2>3, <2>4 DEF Rising
<1>7. CASE n # 1 /\ ~(a = Open /\ b = Open)
  <2>1. ks = Bisect[<<n, a, b>>] BY <1>3, <1>7 DEF KeysBetween
  <2>2. Spread(ks, n, a, b) BY <1>1, <1>2, <1>4, <2>1, BisectSpreads
  <2>. QED BY <2>2 DEF Rising, Spread
<1>. QED BY <1>5, <1>6, <1>7

-----------------------------------------------------------------------------
(* What any sequence of requests makes of the keys.  The invariant speaks of  *)
(* every copy of a key that may come back: the rows, the rows a request has   *)
(* read and is going to write, and the rows the activity log remembers, which *)
(* an undo puts back.  Keys a restored task was given are measured nowhere.   *)

SoundKeys == {k \in Keys : k # Open /\ k[Len(k)] # 0 /\ (Len(k) <= MaxLength \/ k \in given)}
Places    == [Items -> [sec : Sections, key : SoundKeys]]
Neighbour == Items \cup {0}

Entry == [moved : Seq(Items), was : Places, now : Places, undone : BOOLEAN, before : Places \cup {<<>>}]
Asked == [moved : Seq(Items), back : 0 .. Len(log), late : BOOLEAN,
          read : Places, was : Places, put : Places, above : Neighbour, below : Neighbour]

KeysInv ==
    /\ place \in Places
    /\ log \in Seq(Entry)
    /\ req \in [Requests -> {None} \cup Asked]

LEMMA PlacesAre ==
    ASSUME NEW p \in Places
    PROVE  /\ Placed(p) /\ \A s \in Sections : Fit(p, s)
           /\ \A i \in Items : p[i].sec \in Sections /\ p[i].key \in SoundKeys
<1>1. \A i \in Items : p[i] \in [sec : Sections, key : SoundKeys] BY DEF Places
<1>2. \A i \in Items : p[i].sec \in Sections /\ p[i].key \in SoundKeys BY <1>1
<1>3. SoundKeys \subseteq Keys BY DEF SoundKeys
<1>4. Placed(p)
  <2>1. [sec : Sections, key : SoundKeys] \subseteq [sec : Sections, key : Keys] BY <1>3
  <2>. QED BY <2>1 DEF Places, Placed
<1>5. ASSUME NEW s \in Sections PROVE Fit(p, s)
  <2>1. \A k \in SoundKeys : Sound(k) BY DEF SoundKeys, Sound
  <2>. QED BY <1>2, <2>1 DEF Fit, Rows
<1>. QED BY <1>2, <1>4, <1>5

\* The history only grows, and with it what keys may be.
LEMMA SetsGrow ==
    ASSUME given \subseteq given'
    PROVE  SoundKeys \subseteq SoundKeys' /\ Places \subseteq Places' /\ Entry \subseteq Entry'
<1>1. SoundKeys \subseteq SoundKeys' BY DEF SoundKeys
<1>2. Places \subseteq Places'
  <2>1. [sec : Sections, key : SoundKeys] \subseteq [sec : Sections, key : SoundKeys'] BY <1>1
  <2>. QED BY <2>1 DEF Places
<1>3. Entry \subseteq Entry' BY <1>2 DEF Entry
<1>. QED BY <1>1, <1>2, <1>3

LEMMA NextKeys ==
    ASSUME given \subseteq given', Len(log) \in Nat, Len(log') \in Nat, Len(log) <= Len(log'),
           place' \in Places', log' \in Seq(Entry), req' \in [Requests -> {None} \cup Asked]
    PROVE  KeysInv'
<1>1. Places \subseteq Places' /\ Entry \subseteq Entry' BY SetsGrow
<1>2. log' \in Seq(Entry')
  <2>1. Seq(Entry) \subseteq Seq(Entry') BY <1>1
  <2>. QED BY <2>1
<1>3. Asked \subseteq Asked'
  <2>1. 0 .. Len(log) \subseteq 0 .. Len(log') OBVIOUS
  <2>. QED BY <1>1, <2>1 DEF Asked
<1>4. req' \in [Requests -> {None} \cup Asked'] BY <1>3
<1>. QED BY <1>2, <1>4 DEF KeysInv

LEMMA SpacedIs ==
    ASSUME NEW p, Placed(p), NEW S \in SUBSET Items, \A i \in Items \ S : p[i].key \in SoundKeys
    PROVE  Evenly(p, S) \in Places
<1>. DEFINE even == Evenly(p, S)
<1>1. /\ Placed(even)
      /\ \A i \in S : Sound(even[i].key) /\ Len(even[i].key) <= Widest
      /\ \A i \in Items \ S : even[i] = p[i]
    BY EvenlyIs
<1>. HIDE DEF even
<1>2. ASSUME NEW i \in Items PROVE even[i] \in [sec : Sections, key : SoundKeys]
  <2>1. even[i] \in [sec : Sections, key : Keys] BY <1>1 DEF Placed
  <2>2. even[i].key \in SoundKeys
    <3>1. CASE i \in S
      <4>1. Sound(even[i].key) /\ Len(even[i].key) <= Widest BY <1>1, <3>1
      <4>2. Len(even[i].key) \in Nat BY <2>1, KeyIs
      <4>3. Len(even[i].key) <= MaxLength BY <4>1, <4>2, LengthsAre
      <4>. QED BY <4>1, <4>3 DEF Sound, SoundKeys
    <3>2. CASE i \notin S BY <1>1, <3>2
    <3>. QED BY <3>1, <3>2
  <2>. QED BY <2>1, <2>2
<1>3. even \in [Items -> [sec : Sections, key : SoundKeys]] BY <1>1, <1>2 DEF Placed
<1>. QED BY <1>3 DEF Places, even

\* What a move may write is sound and short, at the first attempt or after the
\* section was spaced anew.
LEMMA KeysForIs ==
    ASSUME NEW p \in Places, NEW s \in Sections, NEW M \in SUBSET Items,
           NEW k \in 0 .. Len(Listed(p, s, M)), NEW new \in KeysFor(p, s, M, k)
    PROVE  new.rows \in Places /\ \A m \in 1 .. Cardinality(M) : new.keys[m] \in SoundKeys
<1>. DEFINE even == Respaced(p, s, M)
            n == Cardinality(M)
<1>1. Placed(p) /\ Fit(p, s) /\ \A i \in Items : p[i].key \in SoundKeys BY PlacesAre
<1>2. n \in Nat /\ n <= Cardinality(Items) BY ItemsAre
<1>3. /\ MaxLength \in Nat /\ Widest \in Nat /\ Jitter \in Nat
      /\ Widest <= MaxLength /\ Widest + 1 + Jitter <= MaxLength
      /\ Width(n) \in Nat /\ Width(n) <= Widest /\ Halvings[n] \in Nat /\ Widest + Halvings[n] <= MaxLength
    BY <1>2, LengthsAre
<1>. HIDE DEF n
<1>4. CASE ~\E ks \in Attempt(p, s, M, k) : TooLong(ks)
  <2>1. PICK ks \in Attempt(p, s, M, k) : new = [rows |-> p, keys |-> ks] BY <1>4 DEF KeysFor
  <2>2. DOMAIN ks = 1 .. n /\ \A m \in 1 .. n : Sound(ks[m]) BY <1>1, AttemptSound DEF n
  <2>3. ~TooLong(ks) BY <1>4
  <2>4. DOMAIN ks = 1 .. n BY <2>2
  <2>5. ASSUME NEW m \in 1 .. n PROVE ks[m] \in SoundKeys
    <3>1. Sound(ks[m]) /\ ks[m] \in Keys /\ Len(ks[m]) \in Nat BY <2>2, KeyIs DEF Sound
    <3>2. Len(ks[m]) <= MaxLength BY <1>3, <2>3, <2>4, <3>1 DEF TooLong
    <3>. QED BY <3>1, <3>2 DEF Sound, SoundKeys
  <2>. QED BY <2>1, <2>5 DEF n
<1>5. CASE \E ks \in Attempt(p, s, M, k) : TooLong(ks)
  <2>1. PICK ks \in Attempt(even, s, M, k) : new = [rows |-> even, keys |-> ks] BY <1>5 DEF KeysFor
  <2>2. Rows(p, s) \in SUBSET Items /\ even = Evenly(p, Rows(p, s)) BY DEF Rows, Respaced
  <2>3. /\ Placed(even) /\ \A i \in Items : even[i].sec = p[i].sec
        /\ \A i \in Rows(p, s) : Sound(even[i].key) /\ Len(even[i].key) <= Widest
      BY <1>1, <2>2, EvenlyIs
  <2>4. even \in Places BY <1>1, <2>2, SpacedIs
  <2>. HIDE DEF even
  <2>5. Rows(even, s) = Rows(p, s) BY <2>3 DEF Rows
  <2>6. Fit(even, s) BY <2>3, <2>5 DEF Fit
  <2>7. k \in 0 .. Len(Listed(even, s, M))
    <3>. DEFINE S == Rows(p, s) \ (dead \cup M)
    <3>1. S \in SUBSET Items BY DEF Rows
    <3>2. Listed(p, s, M) = Sorted(p, S) /\ Listed(even, s, M) = Sorted(even, S)
        BY <2>5 DEF Listed
    <3>. HIDE DEF S
    <3>3. Len(Sorted(p, S)) = Cardinality(S) /\ Len(Sorted(even, S)) = Cardinality(S)
        BY <1>1, <2>3, <3>1, SortedIs
    <3>. QED BY <3>2, <3>3
  <2>8. Chosen(ks, n, Widest)
    <3>1. /\ Above(even, s, M, k) \in Rows(even, s) \cup {0}
          /\ Below(even, s, M, k) \in Rows(even, s) \cup {0}
        BY <2>3, <2>7, ListedIs
    <3>2. ASSUME NEW i \in Rows(even, s) \cup {0} PROVE Len(KeyOf(even, i)) <= Widest
      <4>1. /\ Len(KeyOf(even, i)) \in Nat
            /\ KeyOf(even, i) # Open => i \in Rows(even, s) /\ KeyOf(even, i) = even[i].key
          BY <2>3, <2>6, NeighbourIs
      <4>2. KeyOf(even, i) = Open => Len(KeyOf(even, i)) = 0 BY OpenIs
      <4>. QED BY <1>3, <2>3, <2>5, <4>1, <4>2
    <3>. QED BY <1>3, <2>1, <2>3, <2>6, <2>7, <3>1, <3>2, AttemptIs DEF n
  <2>9. ASSUME NEW m \in 1 .. n PROVE ks[m] \in SoundKeys
    <3>1. Sound(ks[m]) /\ ks[m] \in Keys /\ Len(ks[m]) \in Nat BY <2>8, KeyIs DEF Chosen, Sound
    <3>2. \/ Len(ks[m]) <= Width(n) \/ Len(ks[m]) <= Widest + 1 + Jitter
          \/ Len(ks[m]) <= Widest + Halvings[n]
        BY <2>8 DEF Chosen
    <3>3. Len(ks[m]) <= MaxLength BY <1>3, <3>1, <3>2
    <3>. QED BY <3>1, <3>3 DEF Sound, SoundKeys
  <2>. QED BY <2>1, <2>4, <2>9 DEF n
<1>. QED BY <1>4, <1>5

LEMMA InitKeys == Init => KeysInv
<1>1. SUFFICES ASSUME Init PROVE KeysInv OBVIOUS
<1>2. PICK at \in Starts :
         LET bare == [i \in Items |-> [sec |-> at[i], key |-> Open]]
         IN  place = [i \in Items |-> Evenly(bare, Rows(bare, at[i]))[i]]
    BY <1>1 DEF Init
<1>. DEFINE bare == [i \in Items |-> [sec |-> at[i], key |-> Open]]
<1>3. at \in [Items -> Sections] BY KeysAssumption
<1>4. Placed(bare) /\ \A i \in Items : bare[i].sec = at[i] BY <1>3, OpenIs DEF Placed
<1>5. place = [i \in Items |-> Evenly(bare, Rows(bare, at[i]))[i]] BY <1>2
<1>. HIDE DEF bare
<1>6. ASSUME NEW i \in Items PROVE place[i] \in [sec : Sections, key : SoundKeys]
  <2>. DEFINE S == Rows(bare, at[i])
              even == Evenly(bare, S)
  <2>1. S \in SUBSET Items /\ i \in S BY <1>4 DEF Rows
  <2>. HIDE DEF S
  <2>2. /\ Placed(even) /\ Sound(even[i].key) /\ Len(even[i].key) <= Widest
      BY <1>4, <2>1, EvenlyIs
  <2>. HIDE DEF even
  <2>3. even[i] \in [sec : Sections, key : Keys] BY <2>2 DEF Placed
  <2>4. Len(even[i].key) \in Nat BY <2>3, KeyIs
  <2>5. Len(even[i].key) <= MaxLength BY <2>2, <2>4, LengthsAre
  <2>6. even[i].key \in SoundKeys BY <2>2, <2>5 DEF Sound, SoundKeys
  <2>7. place[i] = even[i] BY <1>5 DEF even, S
  <2>. QED BY <2>3, <2>6, <2>7
<1>7. place \in Places BY <1>5, <1>6 DEF Places
<1>8. log \in Seq(Entry) /\ req \in [Requests -> {None} \cup Asked] BY <1>1, EmptySeq DEF Init
<1>. QED BY <1>7, <1>8 DEF KeysInv

LEMMA OpenRequest ==
    ASSUME KeysInv, NEW r \in Requests, req[r] # None
    PROVE  /\ req[r] \in Asked
           /\ req[r].read \in Places /\ req[r].was \in Places /\ req[r].put \in Places
           /\ req[r].moved \in Seq(Items) /\ req[r].back \in 0 .. Len(log)
<1>1. req[r] \in Asked BY DEF KeysInv
<1>. QED BY <1>1 DEF Asked

LEMMA OldEntry ==
    ASSUME KeysInv, NEW n \in DOMAIN log
    PROVE  /\ log[n] \in Entry /\ log[n].was \in Places /\ log[n].moved \in Seq(Items)
           /\ n \in 1 .. Len(log)
<1>1. log \in Seq(Entry) BY DEF KeysInv
<1>2. DOMAIN log = 1 .. Len(log) /\ log[n] \in Entry BY <1>1, LenProperties, ElementOfSeq
<1>. QED BY <1>2 DEF Entry

LEMMA MoveKeys ==
    ASSUME KeysInv, NEW r \in Requests, NEW M \in SUBSET Items, NEW s \in Sections,
           NEW k \in 0 .. Len(Listed(place, s, M)), Move(r, M, s, k)
    PROVE  KeysInv'
<1>1. place \in Places /\ log \in Seq(Entry) /\ Len(log) \in Nat BY LenProperties DEF KeysInv
<1>. DEFINE block == Sorted(place, M)
            Put(new) == [i \in Items |-> IF i \in M THEN [sec |-> s, key |-> new.keys[Turn(block, i)]]
                                         ELSE new.rows[i]]
<1>2. PICK new \in KeysFor(place, s, M, k) :
         req' = [req EXCEPT ![r] =
             [moved |-> block, back |-> 0, late |-> FALSE, read |-> place, was |-> new.rows,
              put |-> Put(new), above |-> Above(place, s, M, k), below |-> Below(place, s, M, k)]]
    BY DEF Move
<1>. DEFINE q == [moved |-> block, back |-> 0, late |-> FALSE, read |-> place, was |-> new.rows,
                  put |-> Put(new), above |-> Above(place, s, M, k), below |-> Below(place, s, M, k)]
<1>3. Placed(place) BY <1>1, PlacesAre
<1>4. new.rows \in Places /\ \A m \in 1 .. Cardinality(M) : new.keys[m] \in SoundKeys
    BY <1>1, KeysForIs
<1>5. /\ block \in Seq(M) /\ \A i \in M : Turn(block, i) \in 1 .. Cardinality(M)
    BY <1>3, SortedIs
<1>6. block \in Seq(Items)
  <2>1. \A n \in 1 .. Len(block) : block[n] \in Items /\ Len(block) \in Nat
      BY <1>5, ElementOfSeq
  <2>2. Seq(M) \subseteq Seq(Items) OBVIOUS
  <2>. QED BY <1>5, <2>2
<1>. HIDE DEF block
<1>7. Put(new) \in Places
  <2>1. \A i \in Items : new.rows[i] \in [sec : Sections, key : SoundKeys] BY <1>4 DEF Places
  <2>2. \A i \in M : [sec |-> s, key |-> new.keys[Turn(block, i)]] \in [sec : Sections, key : SoundKeys]
      BY <1>4, <1>5
  <2>. QED BY <2>1, <2>2 DEF Places
<1>8. /\ Above(place, s, M, k) \in Neighbour /\ Below(place, s, M, k) \in Neighbour
  <2>1. Above(place, s, M, k) \in Rows(place, s) \cup {0} /\ Below(place, s, M, k) \in Rows(place, s) \cup {0}
      BY <1>3, ListedIs
  <2>. QED BY <2>1 DEF Neighbour, Rows
<1>. HIDE DEF Put
<1>9. q \in Asked BY <1>1, <1>4, <1>6, <1>7, <1>8 DEF Asked
<1>10. req' = [req EXCEPT ![r] = q] BY <1>2
<1>. HIDE DEF q
<1>11. /\ place' = place /\ log' = log
       /\ req \in [Requests -> {None} \cup Asked]
    BY DEF Move, KeysInv
<1>12. req' \in [Requests -> {None} \cup Asked] BY <1>9, <1>10, <1>11
<1>13. given' = given BY DEF Move
<1>14. place' \in Places' BY <1>1, <1>11, <1>13, SetsGrow
<1>. QED BY <1>1, <1>11, <1>12, <1>13, <1>14, NextKeys

LEMMA MoveBackKeys ==
    ASSUME KeysInv, NEW r \in Requests, NEW n \in DOMAIN log, MoveBack(r, n)
    PROVE  KeysInv'
<1>1. /\ place \in Places /\ log[n].was \in Places /\ log[n].moved \in Seq(Items) /\ n \in 0 .. Len(log)
      /\ log \in Seq(Entry) /\ Len(log) \in Nat
    BY OldEntry, LenProperties DEF KeysInv
<1>. DEFINE back == [i \in Items |-> IF i \in ToSet(log[n].moved) THEN log[n].was[i] ELSE place[i]]
            q == [moved |-> log[n].moved, back |-> n, late |-> FALSE, read |-> place, was |-> place,
                  put |-> back, above |-> 0, below |-> 0]
<1>2. back \in Places
  <2>1. \A i \in Items : /\ place[i] \in [sec : Sections, key : SoundKeys]
                         /\ log[n].was[i] \in [sec : Sections, key : SoundKeys]
      BY <1>1 DEF Places
  <2>. QED BY <2>1 DEF Places
<1>3. req' = [req EXCEPT ![r] = q] /\ place' = place /\ log' = log /\ given' = given
    BY DEF MoveBack
<1>. HIDE DEF back
<1>4. q \in Asked BY <1>1, <1>2 DEF Asked, Neighbour
<1>. HIDE DEF q
<1>5. req \in [Requests -> {None} \cup Asked] BY DEF KeysInv
<1>6. req' \in [Requests -> {None} \cup Asked] BY <1>3, <1>4, <1>5
<1>7. place' \in Places' BY <1>1, <1>3, SetsGrow
<1>. QED BY <1>1, <1>3, <1>6, <1>7, NextKeys

\* What another commit does to the history leaves the rest of it alone.
LEMMA OlderIs ==
    ASSUME KeysInv
    PROVE  /\ Older \in Seq(Entry) /\ Len(Older) = Len(log) /\ DOMAIN Older = 1 .. Len(log)
           /\ \A n \in 1 .. Len(log) : /\ Older[n].moved = log[n].moved /\ Older[n].was = log[n].was
                                        /\ Older[n].before = <<>>
<1>1. log \in Seq(Entry) BY DEF KeysInv
<1>2. DOMAIN log = 1 .. Len(log) /\ Len(log) \in Nat BY <1>1, LenProperties
<1>3. ASSUME NEW n \in 1 .. Len(log)
      PROVE  /\ Older[n] \in Entry /\ Older[n].moved = log[n].moved /\ Older[n].was = log[n].was
             /\ Older[n].before = <<>>
  <2>1. log[n] \in Entry BY <1>2, OldEntry
  <2>2. Older[n] = [log[n] EXCEPT !.before = <<>>] BY <1>2 DEF Older
  <2>. QED BY <2>1, <2>2 DEF Entry
<1>. DEFINE old == Older
<1>4. DOMAIN old = 1 .. Len(log) /\ old = [n \in DOMAIN old |-> old[n]] BY <1>2 DEF Older
<1>5. old \in [1 .. Len(log) -> Entry]
  <2>1. \A n \in 1 .. Len(log) : old[n] \in Entry BY <1>3
  <2>. HIDE DEF old
  <2>. QED BY <1>4, <2>1
<1>. HIDE DEF old
<1>6. old \in Seq(Entry) BY <1>2, <1>5, SeqDef
<1>7. DOMAIN old = 1 .. Len(old) /\ Len(old) \in Nat BY <1>6, LenProperties
<1>8. Len(old) = Len(log) BY <1>2, <1>4, <1>7
<1>. QED BY <1>3, <1>4, <1>6, <1>8 DEF old

LEMMA LaterIs ==
    ASSUME KeysInv
    PROVE  /\ Later \in [Requests -> {None} \cup Asked]
           /\ \A o \in Requests : /\ req[o] = None => Later[o] = None
                                  /\ req[o] # None => /\ Later[o] = [req[o] EXCEPT !.late = TRUE]
                                                      /\ Later[o] # None
<1>1. ASSUME NEW o \in Requests, req[o] # None
      PROVE  [req[o] EXCEPT !.late = TRUE] \in Asked /\ [req[o] EXCEPT !.late = TRUE] # None
  <2>1. req[o] \in Asked BY <1>1, OpenRequest
  <2>2. [req[o] EXCEPT !.late = TRUE] \in Asked BY <2>1 DEF Asked
  <2>3. "back" \in DOMAIN [req[o] EXCEPT !.late = TRUE] BY <2>1 DEF Asked
  <2>4. "back" \notin DOMAIN None BY DEF None
  <2>. QED BY <2>2, <2>3, <2>4
<1>2. \A o \in Requests : Later[o] = IF req[o] = None THEN None ELSE [req[o] EXCEPT !.late = TRUE]
    BY DEF Later
<1>3. Later = [o \in Requests |-> Later[o]] BY DEF Later
<1>4. \A o \in Requests : Later[o] \in {None} \cup Asked BY <1>1, <1>2
<1>5. Later \in [Requests -> {None} \cup Asked] BY <1>3, <1>4
<1>. QED BY <1>1, <1>2, <1>5

LEMMA CommitKeys ==
    ASSUME KeysInv, NEW r \in Requests, Commit(r)
    PROVE  KeysInv'
<1>. DEFINE q == req[r]
            mine == [moved |-> q.moved, was |-> q.was, now |-> q.put, undone |-> FALSE,
                     before |-> IF q.late THEN <<>> ELSE place]
<1>1. /\ req[r] # None /\ place' = Merged(q)
      /\ log' = IF q.back = 0 THEN Append(Older, mine) ELSE [Older EXCEPT ![q.back].undone = TRUE]
      /\ req' = [Later EXCEPT ![r] = None] /\ given' = given
    BY DEF Commit
<1>2. /\ q \in Asked /\ q.read \in Places /\ q.was \in Places /\ q.put \in Places
      /\ q.moved \in Seq(Items) /\ q.back \in 0 .. Len(log)
    BY <1>1, OpenRequest
<1>3. place \in Places /\ log \in Seq(Entry) BY DEF KeysInv
<1>. HIDE DEF q
<1>4. place' \in Places
  <2>1. ASSUME NEW i \in Items
        PROVE  /\ place[i].sec \in Sections /\ place[i].key \in SoundKeys
               /\ q.put[i].sec \in Sections /\ q.put[i].key \in SoundKeys
      BY <1>2, <1>3, PlacesAre
  <2>2. Merged(q) \in Places BY <2>1 DEF Merged, Places
  <2>. QED BY <1>1, <2>2
<1>5. Older \in Seq(Entry) /\ Len(Older) = Len(log) BY OlderIs
<1>6. mine \in Entry BY <1>2, <1>3 DEF Entry
<1>. HIDE DEF mine
<1>7. log' \in Seq(Entry) /\ Len(log') \in Nat /\ Len(log) \in Nat /\ Len(log') >= Len(log)
  <2>1. Len(log) \in Nat BY <1>3, LenProperties
  <2>2. CASE q.back = 0
    <3>1. log' = Append(Older, mine) BY <1>1, <2>2
    <3>. QED BY <1>5, <1>6, <2>1, <3>1, AppendProperties
  <2>3. CASE q.back # 0
    <3>1. q.back \in 1 .. Len(Older) BY <1>2, <1>5, <2>1, <2>3
    <3>2. Older[q.back] \in Entry BY <1>5, <3>1, ElementOfSeq
    <3>3. [Older[q.back] EXCEPT !.undone = TRUE] \in Entry BY <3>2 DEF Entry
    <3>4. log' = [Older EXCEPT ![q.back] = [Older[q.back] EXCEPT !.undone = TRUE]] BY <1>1, <2>3
    <3>. QED BY <1>5, <2>1, <3>1, <3>3, <3>4, ExceptSeq
  <2>. QED BY <2>2, <2>3
<1>8. req' \in [Requests -> {None} \cup Asked]
  <2>1. Later \in [Requests -> {None} \cup Asked] BY LaterIs
  <2>. QED BY <1>1, <2>1
<1>9. place' \in Places' BY <1>1, <1>4, SetsGrow
<1>. QED BY <1>1, <1>7, <1>8, <1>9, NextKeys

\* A task comes back at the end of the first section: its key is sound, however long.
LEMMA RestoreKeys ==
    ASSUME KeysInv, NEW i \in Items, RestoreTask(i), place[i].sec \in gone
    PROVE  KeysInv'
<1>1. /\ place \in Places /\ log \in Seq(Entry) /\ Len(log) \in Nat /\ Placed(place)
      /\ \A s \in Sections : Fit(place, s)
    BY LenProperties, PlacesAre DEF KeysInv
<1>2. PICK s \in Sections : ToEnd(i, s) BY DEF RestoreTask
<1>3. log' = Older /\ req' = Later BY DEF RestoreTask
<1>. DEFINE k == Len(Listed(place, s, {i}))
<1>4. PICK keys \in Attempt(place, s, {i}, k) :
          /\ place' = [place EXCEPT ![i] = [sec |-> s, key |-> keys[1]]]
          /\ given' = given \cup {keys[1]}
    BY <1>2 DEF ToEnd
<1>5. {i} \in SUBSET Items /\ Cardinality({i}) = 1 BY FS_Singleton
<1>6. k \in 0 .. Len(Listed(place, s, {i}))
  <2>. DEFINE S == Rows(place, s) \ (dead \cup {i})
  <2>1. S \in SUBSET Items BY DEF Rows
  <2>. HIDE DEF S
  <2>2. Len(Sorted(place, S)) = Cardinality(S) /\ Cardinality(S) \in Nat
      BY <1>1, <2>1, SortedIs, ItemsAre
  <2>3. k = Len(Sorted(place, S)) BY DEF Listed, S
  <2>. QED BY <2>2, <2>3
<1>7. Sound(keys[1])
  <2>1. \A m \in 1 .. Cardinality({i}) : Sound(keys[m])
      BY <1>1, <1>4, <1>5, <1>6, AttemptSound
  <2>2. 1 .. Cardinality({i}) = 1 .. 1 BY <1>5
  <2>3. 1 \in 1 .. 1 OBVIOUS
  <2>. QED BY <2>1, <2>2, <2>3
<1>. HIDE DEF k
<1>8. keys[1] \in SoundKeys' BY <1>4, <1>7 DEF SoundKeys, Sound
<1>9. given \subseteq given' BY <1>4
<1>10. place \in Places' BY <1>1, <1>9, SetsGrow
<1>11. place' \in Places'
  <2>1. place \in [Items -> [sec : Sections, key : SoundKeys']] BY <1>10 DEF Places
  <2>2. [sec |-> s, key |-> keys[1]] \in [sec : Sections, key : SoundKeys'] BY <1>8
  <2>3. place' \in [Items -> [sec : Sections, key : SoundKeys']] BY <1>4, <2>1, <2>2
  <2>. QED BY <2>3 DEF Places
<1>12. log' \in Seq(Entry) /\ Len(log') = Len(log) BY <1>3, OlderIs
<1>13. req' \in [Requests -> {None} \cup Asked] BY <1>3, LaterIs
<1>. QED BY <1>1, <1>9, <1>11, <1>12, <1>13, NextKeys

LEMMA StepKeys == KeysInv /\ [Next]_vars => KeysInv'
<1>1. SUFFICES ASSUME KeysInv, [Next]_vars PROVE KeysInv' OBVIOUS
<1>2. place \in Places /\ log \in Seq(Entry) /\ req \in [Requests -> {None} \cup Asked]
    BY <1>1 DEF KeysInv
<1>3. CASE \E r \in Requests, M \in SUBSET Items, s \in Sections :
              \E k \in 0 .. Len(Listed(place, s, M)) : Move(r, M, s, k)
    BY <1>1, <1>3, MoveKeys
<1>4. CASE \E r \in Requests, n \in DOMAIN log : MoveBack(r, n)
    BY <1>1, <1>4, MoveBackKeys
<1>5. ASSUME NEW r \in Requests, Commit(r) PROVE KeysInv'
    BY <1>1, <1>5, CommitKeys
<1>6. ASSUME place' = place, log' = log, given' = given, req' \in [Requests -> {None} \cup Asked]
      PROVE  KeysInv'
  <2>1. Len(log) \in Nat BY <1>2, LenProperties
  <2>2. place' \in Places' BY <1>2, <1>6, SetsGrow
  <2>. QED BY <1>2, <1>6, <2>1, <2>2, NextKeys
<1>7. ASSUME NEW r \in Requests, Abort(r) PROVE KeysInv'
  <2>1. req' = [req EXCEPT ![r] = None] BY <1>7 DEF Abort
  <2>2. req' \in [Requests -> {None} \cup Asked] BY <1>2, <2>1
  <2>. QED BY <1>6, <1>7, <2>2 DEF Abort
<1>8. ASSUME NEW i \in Items, DeleteTask(i) \/ RestoreTask(i) PROVE KeysInv'
  <2>1. CASE RestoreTask(i) /\ place[i].sec \in gone BY <1>1, <2>1, RestoreKeys
  <2>2. CASE ~(RestoreTask(i) /\ place[i].sec \in gone)
      BY <1>2, <1>6, <1>8, <2>2 DEF DeleteTask, RestoreTask
  <2>. QED BY <2>1, <2>2
<1>9. ASSUME NEW s \in Sections, DeleteSection(s) \/ RestoreSection(s) PROVE KeysInv'
    BY <1>2, <1>6, <1>9 DEF DeleteSection, RestoreSection
<1>10. CASE UNCHANGED vars BY <1>2, <1>6, <1>10 DEF vars
<1>. QED BY <1>1, <1>3, <1>4, <1>5, <1>7, <1>8, <1>9, <1>10 DEF Next

\* Whatever is moved, spaced anew, taken back, deleted or restored, by requests
\* that overlap and do not see each other, every row has a key that can be a
\* neighbour of the next one: it is made of digits and does not end in the zero
\* digit, so _validate never refuses a stored key; and it is longer than
\* MAX_KEY_LENGTH only when it is one that _undo_delete made for a task whose
\* section was gone.
THEOREM KeysStaySound == Spec => []KeysSound
<1>1. KeysInv => KeysSound
  <2>1. SUFFICES ASSUME KeysInv, NEW i \in Items
                 PROVE  /\ place[i].key \in Keys /\ place[i].key # Open
                        /\ place[i].key[Len(place[i].key)] # 0
                        /\ Len(place[i].key) <= MaxLength \/ place[i].key \in given
      BY DEF KeysSound
  <2>2. place[i].key \in SoundKeys BY <2>1, PlacesAre DEF KeysInv
  <2>. QED BY <2>2 DEF SoundKeys
<1>. QED BY <1>1, InitKeys, StepKeys, PTL DEF Spec

-----------------------------------------------------------------------------
(* The order of the tasks.  The invariant says of an open move that it keeps  *)
(* the order of what it leaves and lines up what it moves, of an open undo    *)
(* that it writes what its entry remembers, and of the last entry of the log, *)
(* until another commit, that the rows are as it left them.                   *)

Lined(q) ==
    \A n \in 1 .. Len(Line(q)) - 1 : Less(q.put[Line(q)[n]].key, q.put[Line(q)[n + 1]].key)

Decided(q) ==
    /\ ~q.late => q.read = place
    /\ q.back = 0 => /\ SameOrder(q.read, q.was) /\ Lined(q)
                     /\ \A i \in Items \ ToSet(q.moved) : q.put[i] = q.was[i]
    /\ q.back # 0 => LET e == log[q.back]
                     IN  \A i \in Items : q.put[i] = IF i \in ToSet(e.moved) THEN e.was[i] ELSE q.read[i]

Latest(e) ==
    /\ place = e.now /\ SameOrder(e.before, e.was)
    /\ \A i \in Items \ ToSet(e.moved) : e.now[i] = e.was[i]

OrderInv ==
    /\ KeysInv
    /\ \A r \in Requests : req[r] # None => Decided(req[r])
    /\ \A n \in DOMAIN log : log[n].before # <<>> => Latest(log[n])

\* Three sequences in a row, the first and the last with one element or none,
\* are linked by G when each is and they are where they meet.
LEMMA Linked ==
    ASSUME NEW S, NEW G, NEW A \in Seq(S), NEW R \in Seq(S), NEW B \in Seq(S),
           Len(A) <= 1, Len(B) <= 1, Len(R) >= 1,
           \A n \in 1 .. Len(R) - 1 : <<R[n], R[n + 1]>> \in G,
           Len(A) = 1 => <<A[1], R[1]>> \in G,
           Len(B) = 1 => <<R[Len(R)], B[1]>> \in G
    PROVE  \A n \in 1 .. Len(A \o R \o B) - 1 : <<(A \o R \o B)[n], (A \o R \o B)[n + 1]>> \in G
<1>. DEFINE K == A \o R
            L == K \o B
<1>1. Len(A) \in Nat /\ Len(R) \in Nat /\ Len(B) \in Nat BY LenProperties
<1>2. /\ K \in Seq(S) /\ Len(K) = Len(A) + Len(R)
      /\ \A n \in 1 .. Len(K) : K[n] = IF n <= Len(A) THEN A[n] ELSE R[n - Len(A)]
    BY ConcatProperties
<1>3. /\ Len(L) = Len(K) + Len(B)
      /\ \A n \in 1 .. Len(L) : L[n] = IF n <= Len(K) THEN K[n] ELSE B[n - Len(K)]
    BY <1>2, ConcatProperties
<1>. HIDE DEF K, L
<1>4. ASSUME NEW n \in 1 .. Len(L) - 1 PROVE <<L[n], L[n + 1]>> \in G
  <2>1. n \in 1 .. Len(L) /\ n + 1 \in 1 .. Len(L) BY <1>1, <1>2, <1>3
  <2>2. CASE n + 1 <= Len(A)
      BY <1>1, <2>1, <2>2
  <2>3. CASE n = Len(A)
    <3>1. Len(A) = 1 /\ n = 1 /\ n <= Len(K) /\ n + 1 <= Len(K) BY <1>1, <1>2, <2>1, <2>3
    <3>2. n \in 1 .. Len(K) /\ n + 1 \in 1 .. Len(K) /\ ~(n + 1 <= Len(A)) /\ n + 1 - Len(A) = 1
        BY <1>1, <1>2, <3>1
    <3>3. L[n] = K[n] /\ L[n + 1] = K[n + 1] BY <1>3, <2>1, <3>1
    <3>4. K[n] = A[n] /\ n <= Len(A) BY <1>1, <1>2, <2>3, <3>1, <3>2
    <3>5. K[n + 1] = R[n + 1 - Len(A)] BY <1>2, <3>2
    <3>6. <<L[n], L[n + 1]>> = <<A[1], R[1]>> BY <3>1, <3>2, <3>3, <3>4, <3>5
    <3>. QED BY <3>1, <3>6
  <2>4. CASE Len(A) < n /\ n < Len(K)
    <3>. DEFINE m == n - Len(A)
    <3>1. /\ m \in 1 .. Len(R) - 1 /\ n + 1 - Len(A) = m + 1
          /\ n \in 1 .. Len(K) /\ n + 1 \in 1 .. Len(K) /\ ~(n <= Len(A)) /\ ~(n + 1 <= Len(A))
        BY <1>1, <1>2, <2>1, <2>4
    <3>2. K[n] = R[m] /\ K[n + 1] = R[m + 1] BY <1>2, <3>1
    <3>3. L[n] = K[n] /\ L[n + 1] = K[n + 1] BY <1>3, <2>1, <3>1
    <3>. HIDE DEF m
    <3>. QED BY <3>1, <3>2, <3>3
  <2>5. CASE n = Len(K)
    <3>1. /\ Len(B) = 1 /\ n \in 1 .. Len(K) /\ ~(n + 1 <= Len(K)) /\ n + 1 - Len(K) = 1
          /\ ~(n <= Len(A)) /\ n - Len(A) = Len(R)
      <4>1. Len(K) = Len(A) + Len(R) /\ Len(L) = Len(K) + Len(B) BY <1>2, <1>3
      <4>. DEFINE la == Len(A)
                  lr == Len(R)
                  lb == Len(B)
                  lk == Len(K)
                  ll == Len(L)
      <4>2. la \in Nat /\ lr \in Nat /\ lb \in Nat /\ lr >= 1 /\ lb <= 1 BY <1>1
      <4>3. lk = la + lr /\ ll = lk + lb /\ n \in Nat /\ n + 1 <= ll /\ n = lk
          BY <1>1, <2>1, <2>5, <4>1
      <4>. HIDE DEF la, lr, lb, lk, ll
      <4>4. lb = 1 /\ n \in 1 .. lk /\ ~(n + 1 <= lk) /\ n + 1 - lk = 1 /\ ~(n <= la) /\ n - la = lr
          BY <4>2, <4>3
      <4>. QED BY <4>4 DEF la, lr, lb, lk
    <3>2. L[n] = K[n] /\ L[n + 1] = B[1] BY <1>3, <2>1, <3>1
    <3>3. K[n] = R[Len(R)] BY <1>2, <3>1
    <3>. QED BY <3>1, <3>2, <3>3
  <2>6. ~(Len(K) < n) BY <1>1, <1>2, <1>3, <2>1
  <2>. QED BY <1>1, <1>2, <2>1, <2>2, <2>3, <2>4, <2>5, <2>6
<1>. QED BY <1>4 DEF K, L

\* The keys of a move go to its tasks in their order.
LEMMA LineRises ==
    ASSUME NEW q, q.moved \in Seq(Items), Len(q.moved) >= 1,
           q.above \in Neighbour, q.below \in Neighbour,
           \A n \in 1 .. Len(q.moved) - 1 : Less(q.put[q.moved[n]].key, q.put[q.moved[n + 1]].key),
           q.above # 0 => Less(q.put[q.above].key, q.put[q.moved[1]].key),
           q.below # 0 => Less(q.put[q.moved[Len(q.moved)]].key, q.put[q.below].key)
    PROVE  Lined(q)
<1>. DEFINE A == IF q.above = 0 THEN <<>> ELSE <<q.above>>
            R == q.moved
            B == IF q.below = 0 THEN <<>> ELSE <<q.below>>
            G == {pair \in Neighbour \X Neighbour : Less(q.put[pair[1]].key, q.put[pair[2]].key)}
<1>1. Line(q) = A \o R \o B BY DEF Line
<1>2. /\ A \in Seq(Neighbour) /\ Len(A) <= 1 /\ (Len(A) = 1 => q.above # 0 /\ A[1] = q.above)
  <2>1. CASE q.above = 0 BY <2>1
  <2>2. CASE q.above # 0 BY <2>2
  <2>. QED BY <2>1, <2>2
<1>3. /\ B \in Seq(Neighbour) /\ Len(B) <= 1 /\ (Len(B) = 1 => q.below # 0 /\ B[1] = q.below)
  <2>1. CASE q.below = 0 BY <2>1
  <2>2. CASE q.below # 0 BY <2>2
  <2>. QED BY <2>1, <2>2
<1>4. R \in Seq(Neighbour) /\ Len(R) \in Nat /\ \A n \in 1 .. Len(R) : R[n] \in Neighbour
  <2>1. \A n \in 1 .. Len(R) : R[n] \in Items BY ElementOfSeq
  <2>2. Seq(Items) \subseteq Seq(Neighbour) BY DEF Neighbour
  <2>. QED BY <2>1, <2>2, LenProperties DEF Neighbour
<1>5. \A n \in 1 .. Len(R) - 1 : <<R[n], R[n + 1]>> \in G
  <2>1. SUFFICES ASSUME NEW n \in 1 .. Len(R) - 1 PROVE <<R[n], R[n + 1]>> \in G OBVIOUS
  <2>2. n \in 1 .. Len(R) /\ n + 1 \in 1 .. Len(R) BY <1>4
  <2>3. R[n] \in Neighbour /\ R[n + 1] \in Neighbour BY <1>4, <2>2
  <2>. QED BY <2>3
<1>6. 1 \in 1 .. Len(R) /\ Len(R) \in 1 .. Len(R) BY <1>4
<1>7. Len(A) = 1 => <<A[1], R[1]>> \in G BY <1>2, <1>4, <1>6
<1>8. Len(B) = 1 => <<R[Len(R)], B[1]>> \in G BY <1>3, <1>4, <1>6
<1>9. \A x, y : <<x, y>> \in G => Less(q.put[x].key, q.put[y].key) OBVIOUS
<1>. HIDE DEF A, B, G, R
<1>10. \A n \in 1 .. Len(A \o R \o B) - 1 : <<(A \o R \o B)[n], (A \o R \o B)[n + 1]>> \in G
  <2>1. Len(R) >= 1 BY DEF R
  <2>. QED BY <1>2, <1>3, <1>4, <1>5, <1>7, <1>8, <2>1, Linked
<1>. QED BY <1>1, <1>9, <1>10 DEF Lined

\* A move leaves the order of the rows alone, also when it spaces them anew, and
\* its keys rise between those its neighbours have then.
LEMMA KeysForOrder ==
    ASSUME NEW p \in Places, NEW s \in Sections, NEW M \in SUBSET Items,
           NEW k \in 0 .. Len(Listed(p, s, M)), NEW new \in KeysFor(p, s, M, k)
    PROVE  /\ SameOrder(p, new.rows)
           /\ Rising(new.keys, Cardinality(M),
                     KeyOf(new.rows, Above(p, s, M, k)), KeyOf(new.rows, Below(p, s, M, k)))
<1>. DEFINE even == Respaced(p, s, M)
            n == Cardinality(M)
<1>1. Placed(p) /\ Fit(p, s) BY PlacesAre
<1>2. MaxLength \in Nat /\ Widest \in Nat BY LengthsAre
<1>3. CASE ~\E ks \in Attempt(p, s, M, k) : TooLong(ks)
  <2>1. PICK ks \in Attempt(p, s, M, k) : new = [rows |-> p, keys |-> ks] BY <1>3 DEF KeysFor
  <2>2. Rising(ks, n, KeyOf(p, Above(p, s, M, k)), KeyOf(p, Below(p, s, M, k)))
      BY <1>1, AttemptRises
  <2>3. SameOrder(p, p) BY DEF SameOrder
  <2>. QED BY <2>1, <2>2, <2>3
<1>4. CASE \E ks \in Attempt(p, s, M, k) : TooLong(ks)
  <2>1. PICK ks \in Attempt(even, s, M, k) : new = [rows |-> even, keys |-> ks] BY <1>4 DEF KeysFor
  <2>2. Rows(p, s) \in SUBSET Items /\ even = Evenly(p, Rows(p, s)) BY DEF Rows, Respaced
  <2>3. /\ Placed(even) /\ \A i \in Items : even[i].sec = p[i].sec
        /\ \A i \in Rows(p, s) : Sound(even[i].key) /\ Len(even[i].key) <= Widest
      BY <1>1, <2>2, EvenlyIs
  <2>4. SameOrder(p, even) BY <1>1, <2>2, SpacingKeepsOrder
  <2>. HIDE DEF even
  <2>5. Rows(even, s) = Rows(p, s) BY <2>3 DEF Rows
  <2>6. Fit(even, s) BY <2>3, <2>5 DEF Fit
  <2>7. Listed(even, s, M) = Listed(p, s, M)
    <3>. DEFINE S == Rows(p, s) \ (dead \cup M)
    <3>1. S \in SUBSET Rows(p, s) OBVIOUS
    <3>2. Listed(p, s, M) = Sorted(p, S) /\ Listed(even, s, M) = Sorted(even, S)
        BY <2>5 DEF Listed
    <3>. HIDE DEF S
    <3>. QED BY <2>4, <3>1, <3>2, SameSorted
  <2>8. Above(even, s, M, k) = Above(p, s, M, k) /\ Below(even, s, M, k) = Below(p, s, M, k)
      BY <2>7 DEF Above, Below
  <2>9. k \in 0 .. Len(Listed(even, s, M)) BY <2>7
  <2>10. Rising(ks, n, KeyOf(even, Above(even, s, M, k)), KeyOf(even, Below(even, s, M, k)))
      BY <2>1, <2>3, <2>6, <2>9, AttemptRises
  <2>11. Rising(ks, n, KeyOf(even, Above(p, s, M, k)), KeyOf(even, Below(p, s, M, k)))
      BY <2>8, <2>10
  <2>. QED BY <2>1, <2>4, <2>11
<1>. QED BY <1>3, <1>4

\* What a move decides.
LEMMA MoveDecides ==
    ASSUME KeysInv, NEW M \in SUBSET Items, M # {}, NEW s \in Sections,
           NEW k \in 0 .. Len(Listed(place, s, M)), NEW new \in KeysFor(place, s, M, k),
           NEW q, q.moved = Sorted(place, M), q.back = 0, q.read = place, q.was = new.rows,
           q.put = [i \in Items |-> IF i \in M THEN [sec |-> s, key |-> new.keys[Turn(q.moved, i)]]
                                    ELSE new.rows[i]],
           q.above = Above(place, s, M, k), q.below = Below(place, s, M, k)
    PROVE  Decided(q)
<1>. DEFINE n == Cardinality(M)
            ks == new.keys
            put == q.put
            above == q.above
            below == q.below
            block == q.moved
<1>1. place \in Places /\ Placed(place) BY PlacesAre DEF KeysInv
<1>2. SameOrder(place, new.rows) BY <1>1, KeysForOrder
<1>3. /\ n \in Nat /\ Len(block) = n /\ block \in Seq(M)
      /\ \A i \in M : Turn(block, i) \in 1 .. n /\ block[Turn(block, i)] = i
      /\ \A m \in 1 .. n : block[m] \in M /\ Turn(block, block[m]) = m
  <2>. DEFINE row == Sorted(place, M)
  <2>1. /\ row \in [1 .. n -> M] /\ row \in Seq(M) /\ Len(row) = n
        /\ \A i \in M : Turn(row, i) \in 1 .. n /\ row[Turn(row, i)] = i
      BY <1>1, SortedIs
  <2>2. \A m \in 1 .. n : Turn(row, row[m]) = m BY <1>1, SortedOnce
  <2>3. n \in Nat BY ItemsAre
  <2>4. block = row OBVIOUS
  <2>. HIDE DEF row, n, block
  <2>. QED BY <2>1, <2>2, <2>3, <2>4
<1>4. n >= 1
  <2>1. PICK i \in M : TRUE OBVIOUS
  <2>2. Turn(block, i) \in 1 .. n BY <1>3
  <2>. QED BY <1>3, <2>2
<1>5. Rising(ks, n, KeyOf(new.rows, above), KeyOf(new.rows, below)) BY <1>1, KeysForOrder
<1>6. \A m \in 1 .. n : put[block[m]].key = ks[m]
  <2>1. SUFFICES ASSUME NEW m \in 1 .. n PROVE put[block[m]].key = ks[m] OBVIOUS
  <2>2. block[m] \in M /\ block[m] \in Items /\ Turn(block, block[m]) = m BY <1>3
  <2>3. put[block[m]] = [sec |-> s, key |-> ks[Turn(block, block[m])]] BY <2>2
  <2>. QED BY <2>2, <2>3
<1>7. \A i \in Items \ M : put[i] = new.rows[i] OBVIOUS
<1>8. /\ above \in Rows(place, s) \cup {0} /\ above \notin M
      /\ below \in Rows(place, s) \cup {0} /\ below \notin M
  <2>1. /\ Above(place, s, M, k) \in Rows(place, s) \cup {0} /\ Above(place, s, M, k) \notin M
        /\ Below(place, s, M, k) \in Rows(place, s) \cup {0} /\ Below(place, s, M, k) \notin M
      BY <1>1, ListedIs
  <2>. QED BY <2>1
<1>9. above \in Neighbour /\ below \in Neighbour BY <1>8 DEF Rows, Neighbour
<1>10. new.rows \in Places BY <1>1, KeysForIs
<1>11. ToSet(block) = M
  <2>1. DOMAIN block = 1 .. n BY <1>3, LenProperties
  <2>2. ToSet(block) = {block[m] : m \in 1 .. n} BY <2>1 DEF ToSet
  <2>. QED BY <1>3, <2>2
<1>12. block \in Seq(Items)
  <2>1. Seq(M) \subseteq Seq(Items) OBVIOUS
  <2>. QED BY <1>3, <2>1
<1>. HIDE DEF put, block, ks, n, above, below
<1>13. \A m \in 1 .. n - 1 : Less(put[block[m]].key, put[block[m + 1]].key)
  <2>1. SUFFICES ASSUME NEW m \in 1 .. n - 1 PROVE Less(put[block[m]].key, put[block[m + 1]].key)
      OBVIOUS
  <2>2. m \in 1 .. n /\ m + 1 \in 1 .. n /\ m < m + 1 BY <1>3
  <2>3. Less(ks[m], ks[m + 1]) BY <1>5, <2>2 DEF Rising
  <2>4. put[block[m]].key = ks[m] /\ put[block[m + 1]].key = ks[m + 1] BY <1>6, <2>2
  <2>. QED BY <2>3, <2>4
<1>14. ASSUME above # 0 PROVE Less(put[above].key, put[block[1]].key)
  <2>1. above \in Items \ M BY <1>8, <1>14 DEF Rows
  <2>2. KeyOf(new.rows, above) = put[above].key BY <1>7, <1>14, <2>1 DEF KeyOf
  <2>3. 1 \in 1 .. n BY <1>3, <1>4
  <2>4. Less(KeyOf(new.rows, above), ks[1]) BY <1>5, <2>3 DEF Rising
  <2>5. put[block[1]].key = ks[1] BY <1>6, <2>3
  <2>. QED BY <2>2, <2>4, <2>5
<1>15. ASSUME below # 0 PROVE Less(put[block[n]].key, put[below].key)
  <2>1. below \in Items \ M BY <1>8, <1>15 DEF Rows
  <2>2. KeyOf(new.rows, below) = new.rows[below].key BY <1>15 DEF KeyOf
  <2>3. new.rows[below].key \in SoundKeys BY <1>10, <2>1, PlacesAre
  <2>4. KeyOf(new.rows, below) # Open /\ KeyOf(new.rows, below) = put[below].key
      BY <1>7, <2>1, <2>2, <2>3 DEF SoundKeys
  <2>5. n \in 1 .. n BY <1>3, <1>4
  <2>6. Less(ks[n], KeyOf(new.rows, below)) BY <1>5, <2>4, <2>5 DEF Rising
  <2>7. put[block[n]].key = ks[n] BY <1>6, <2>5
  <2>. QED BY <2>4, <2>6, <2>7
<1>16. Lined(q)
    BY <1>3, <1>4, <1>9, <1>12, <1>13, <1>14, <1>15, LineRises DEF put, block, above, below
<1>. QED BY <1>2, <1>7, <1>11, <1>16 DEF Decided, put, block

LEMMA InitOrder == Init => OrderInv
<1>1. SUFFICES ASSUME Init PROVE OrderInv OBVIOUS
<1>2. log = <<>> /\ req = [r \in Requests |-> None] BY <1>1 DEF Init
<1>3. \A n \in DOMAIN log : FALSE BY <1>2
<1>. QED BY <1>1, <1>2, <1>3, InitKeys DEF OrderInv

\* A request that another one came before decides what it did.
LEMMA LateDecided ==
    ASSUME OrderInv, NEW o \in Requests, req[o] # None, req'[o] = [req[o] EXCEPT !.late = TRUE],
           \A n \in 1 .. Len(log) : log'[n].moved = log[n].moved /\ log'[n].was = log[n].was
    PROVE  Decided(req[o])'
<1>. DEFINE x == req[o]
            y == req'[o]
<1>1. x \in Asked /\ x.back \in 0 .. Len(log) /\ Decided(x) BY OpenRequest DEF OrderInv
<1>2. Len(log) \in Nat BY LenProperties DEF OrderInv, KeysInv
<1>3. /\ y.late = TRUE /\ y.back = x.back /\ y.read = x.read /\ y.was = x.was /\ y.put = x.put
      /\ y.moved = x.moved /\ y.above = x.above /\ y.below = x.below
    BY <1>1 DEF Asked
<1>. HIDE DEF x, y
<1>4. ~(~y.late) BY <1>3
<1>5. ASSUME y.back = 0
      PROVE  /\ SameOrder(y.read, y.was) /\ Lined(y)
             /\ \A i \in Items \ ToSet(y.moved) : y.put[i] = y.was[i]
  <2>1. Line(y) = Line(x) BY <1>3 DEF Line
  <2>. QED BY <1>1, <1>3, <1>5, <2>1 DEF Decided, Lined
<1>6. ASSUME y.back # 0, NEW i \in Items
      PROVE  y.put[i] = IF i \in ToSet(log'[y.back].moved) THEN log'[y.back].was[i] ELSE y.read[i]
  <2>1. y.back \in 1 .. Len(log) BY <1>1, <1>2, <1>3, <1>6
  <2>2. x.put[i] = IF i \in ToSet(log[x.back].moved) THEN log[x.back].was[i] ELSE x.read[i]
      BY <1>1, <1>3, <1>6 DEF Decided
  <2>3. log'[y.back].moved = log[x.back].moved /\ log'[y.back].was = log[x.back].was
      BY <1>3, <2>1
  <2>. QED BY <1>3, <2>2, <2>3
<1>. QED BY <1>4, <1>5, <1>6 DEF Decided, Lined, SameOrder, y

\* Steps that leave the rows and the log alone.
LEMMA RowsStay ==
    ASSUME OrderInv, [Next]_vars, place' = place, log' = log,
           \A o \in Requests : req'[o] # None => Decided(req'[o])
    PROVE  OrderInv'
<1>1. KeysInv' BY StepKeys DEF OrderInv
<1>2. ASSUME NEW o \in Requests, req'[o] # None PROVE Decided(req[o])'
  <2>1. Decided(req'[o]) BY <1>2
  <2>. QED BY <2>1 DEF Decided, Lined, SameOrder
<1>3. ASSUME NEW n \in DOMAIN log, log[n].before # <<>> PROVE Latest(log[n])'
  <2>1. Latest(log[n]) BY <1>3 DEF OrderInv
  <2>. QED BY <2>1 DEF Latest, SameOrder
<1>. QED BY <1>1, <1>2, <1>3 DEF OrderInv

LEMMA MoveOrder ==
    ASSUME OrderInv, NEW r \in Requests, NEW M \in SUBSET Items, NEW s \in Sections,
           NEW k \in 0 .. Len(Listed(place, s, M)), Move(r, M, s, k)
    PROVE  place' = place /\ log' = log /\ \A o \in Requests : req'[o] # None => Decided(req'[o])
<1>1. KeysInv /\ M # {} /\ req \in [Requests -> {None} \cup Asked] BY DEF OrderInv, KeysInv, Move
<1>. DEFINE block == Sorted(place, M)
            Put(new) == [i \in Items |-> IF i \in M THEN [sec |-> s, key |-> new.keys[Turn(block, i)]]
                                         ELSE new.rows[i]]
<1>2. PICK new \in KeysFor(place, s, M, k) :
         req' = [req EXCEPT ![r] =
             [moved |-> block, back |-> 0, late |-> FALSE, read |-> place, was |-> new.rows,
              put |-> Put(new), above |-> Above(place, s, M, k), below |-> Below(place, s, M, k)]]
    BY DEF Move
<1>. DEFINE q == [moved |-> block, back |-> 0, late |-> FALSE, read |-> place, was |-> new.rows,
                  put |-> Put(new), above |-> Above(place, s, M, k), below |-> Below(place, s, M, k)]
<1>3. /\ q.moved = block /\ q.back = 0 /\ q.read = place /\ q.was = new.rows /\ q.put = Put(new)
      /\ q.above = Above(place, s, M, k) /\ q.below = Below(place, s, M, k)
    OBVIOUS
<1>4. req' = [req EXCEPT ![r] = q] BY <1>2
<1>. HIDE DEF q
<1>5. q.put = [i \in Items |-> IF i \in M THEN [sec |-> s, key |-> new.keys[Turn(q.moved, i)]]
                               ELSE new.rows[i]]
    BY <1>3
<1>6. q.moved = Sorted(place, M) BY <1>3
<1>. HIDE DEF block, Put
<1>7. Decided(q) BY <1>1, <1>3, <1>5, <1>6, MoveDecides
<1>8. ASSUME NEW o \in Requests, req'[o] # None PROVE Decided(req'[o])
  <2>1. CASE o = r BY <1>1, <1>4, <1>7, <2>1
  <2>2. CASE o # r
    <3>1. req'[o] = req[o] BY <1>1, <1>4, <2>2
    <3>. QED BY <1>8, <3>1 DEF OrderInv
  <2>. QED BY <2>1, <2>2
<1>. QED BY <1>8 DEF Move

LEMMA MoveBackOrder ==
    ASSUME OrderInv, NEW r \in Requests, NEW n \in DOMAIN log, MoveBack(r, n)
    PROVE  place' = place /\ log' = log /\ \A o \in Requests : req'[o] # None => Decided(req'[o])
<1>1. KeysInv /\ req \in [Requests -> {None} \cup Asked] BY DEF OrderInv, KeysInv
<1>2. n \in 1 .. Len(log) BY <1>1, OldEntry
<1>. DEFINE put == [i \in Items |-> IF i \in ToSet(log[n].moved) THEN log[n].was[i] ELSE place[i]]
            q == [moved |-> log[n].moved, back |-> n, late |-> FALSE, read |-> place, was |-> place,
                  put |-> put, above |-> 0, below |-> 0]
<1>3. req' = [req EXCEPT ![r] = q] BY DEF MoveBack
<1>4. q.back = n /\ q.read = place /\ q.put = put /\ n # 0 BY <1>2
<1>5. \A i \in Items : put[i] = IF i \in ToSet(log[n].moved) THEN log[n].was[i] ELSE place[i]
    OBVIOUS
<1>. HIDE DEF q, put
<1>6. Decided(q) BY <1>4, <1>5 DEF Decided
<1>7. ASSUME NEW o \in Requests, req'[o] # None PROVE Decided(req'[o])
  <2>1. CASE o = r BY <1>1, <1>3, <1>6, <2>1
  <2>2. CASE o # r
    <3>1. req'[o] = req[o] BY <1>1, <1>3, <2>2
    <3>. QED BY <1>7, <3>1 DEF OrderInv
  <2>. QED BY <2>1, <2>2
<1>. QED BY <1>7 DEF MoveBack

\* What a request has read is written as decided when no other one came between.
LEMMA MergedIs ==
    ASSUME KeysInv, NEW q \in Asked, q.read = place PROVE Merged(q) = q.put
<1>1. q.put \in Places BY DEF Asked
<1>2. ASSUME NEW i \in Items PROVE Merged(q)[i] = q.put[i]
  <2>1. q.put[i] \in [sec : Sections, key : SoundKeys] BY <1>1 DEF Places
  <2>2. Merged(q)[i] = [sec |-> q.put[i].sec, key |-> q.put[i].key] BY DEF Merged
  <2>. QED BY <2>1, <2>2
<1>. DEFINE all == Merged(q)
<1>3. all = [i \in Items |-> all[i]] BY DEF Merged
<1>4. q.put = [i \in Items |-> q.put[i]] BY <1>1 DEF Places
<1>. HIDE DEF all
<1>. QED BY <1>2, <1>3, <1>4 DEF all

\* What a commit makes of the log: earlier entries stay, but for the history
\* and the mark of the one that is taken back.
LEMMA LogGrows ==
    ASSUME KeysInv, NEW r \in Requests, Commit(r)
    PROVE  /\ \A n \in 1 .. Len(log) : /\ log'[n].moved = log[n].moved /\ log'[n].was = log[n].was
                                       /\ log'[n].before = <<>>
           /\ req[r].back # 0 => DOMAIN log' = 1 .. Len(log)
           /\ req[r].back = 0 =>
                /\ DOMAIN log' = 1 .. Len(log) + 1
                /\ log'[Len(log) + 1] =
                     [moved |-> req[r].moved, was |-> req[r].was, now |-> req[r].put, undone |-> FALSE,
                      before |-> IF req[r].late THEN <<>> ELSE place]
<1>. DEFINE q == req[r]
            old == Older
            mine == [moved |-> q.moved, was |-> q.was, now |-> q.put, undone |-> FALSE,
                     before |-> IF q.late THEN <<>> ELSE place]
<1>1. log' = IF q.back = 0 THEN Append(old, mine) ELSE [old EXCEPT ![q.back].undone = TRUE]
    BY DEF Commit
<1>2. log \in Seq(Entry) /\ DOMAIN log = 1 .. Len(log) /\ Len(log) \in Nat
    BY LenProperties DEF KeysInv
<1>3. q.back \in 0 .. Len(log) BY OpenRequest DEF Commit
<1>4. /\ old \in Seq(Entry) /\ Len(old) = Len(log) /\ DOMAIN old = 1 .. Len(log)
      /\ \A n \in 1 .. Len(log) : /\ old[n].moved = log[n].moved /\ old[n].was = log[n].was
                                   /\ old[n].before = <<>>
    BY OlderIs
<1>. HIDE DEF old, mine, q
<1>5. old \in [1 .. Len(log) -> Entry] BY <1>4, LenProperties
<1>6. old \in Seq(Entry) BY <1>4
<1>7. Len(old) = Len(log) BY <1>4
<1>8. CASE q.back = 0
  <2>1. log' = Append(old, mine) BY <1>1, <1>8
  <2>2. /\ DOMAIN log' = 1 .. Len(log) + 1 /\ log'[Len(log) + 1] = mine
        /\ \A n \in 1 .. Len(log) : log'[n] = old[n]
    <3>1. mine \in Entry
      <4>1. /\ q.moved \in Seq(Items) /\ q.was \in Places /\ q.put \in Places /\ place \in Places
          BY OpenRequest DEF Commit, KeysInv, q
      <4>. QED BY <4>1 DEF mine, Entry
    <3>2. /\ log' \in Seq(Entry) /\ Len(log') = Len(old) + 1 /\ log'[Len(old) + 1] = mine
          /\ \A n \in 1 .. Len(old) : log'[n] = old[n]
        BY <1>6, <2>1, <3>1, AppendProperties
    <3>3. DOMAIN log' = 1 .. Len(log') BY <3>2, LenProperties
    <3>. QED BY <1>7, <3>2, <3>3
  <2>. QED BY <1>4, <1>8, <2>2 DEF mine, q
<1>9. CASE q.back # 0
  <2>1. q.back \in 1 .. Len(log) BY <1>2, <1>3, <1>9
  <2>2. log' = [old EXCEPT ![q.back] = [old[q.back] EXCEPT !.undone = TRUE]] BY <1>1, <1>9
  <2>3. DOMAIN log' = 1 .. Len(log) BY <1>5, <2>2
  <2>4. ASSUME NEW n \in 1 .. Len(log)
        PROVE  /\ log'[n].moved = old[n].moved /\ log'[n].was = old[n].was
               /\ log'[n].before = old[n].before
    <3>1. old[n] \in Entry BY <1>5
    <3>2. log'[n] = IF n = q.back THEN [old[n] EXCEPT !.undone = TRUE] ELSE old[n]
        BY <1>5, <2>1, <2>2
    <3>. QED BY <3>1, <3>2 DEF Entry
  <2>. QED BY <1>4, <1>9, <2>3, <2>4 DEF q
<1>. QED BY <1>8, <1>9

LEMMA CommitOrder ==
    ASSUME OrderInv, NEW r \in Requests, Commit(r)
    PROVE  OrderInv'
<1>. DEFINE q == req[r]
            size == Len(log)
<1>1. KeysInv /\ KeysInv' BY CommitKeys DEF OrderInv
<1>2. req[r] # None /\ place' = Merged(q) /\ req' = [Later EXCEPT ![r] = None] /\ DOMAIN Later = Requests
    BY DEF Commit, Later
<1>3. q \in Asked /\ q.put \in Places /\ q.back \in 0 .. size /\ Decided(q)
    BY <1>1, <1>2, OpenRequest DEF OrderInv
<1>4. /\ \A n \in 1 .. size : /\ log'[n].moved = log[n].moved /\ log'[n].was = log[n].was
                              /\ log'[n].before = <<>>
      /\ q.back # 0 => DOMAIN log' = 1 .. size
      /\ q.back = 0 => /\ DOMAIN log' = 1 .. size + 1
                       /\ log'[size + 1] =
                            [moved |-> q.moved, was |-> q.was, now |-> q.put, undone |-> FALSE,
                             before |-> IF q.late THEN <<>> ELSE place]
    BY <1>1, LogGrows
<1>5. size \in Nat BY <1>1, LenProperties DEF KeysInv
<1>. HIDE DEF q, size
<1>6. ASSUME NEW o \in Requests, req'[o] # None PROVE Decided(req[o])'
  <2>1. o # r /\ req[o] # None /\ req'[o] = [req[o] EXCEPT !.late = TRUE] BY <1>1, <1>2, <1>6, LaterIs
  <2>. QED BY <1>4, <2>1, LateDecided DEF size
<1>7. ASSUME NEW n \in DOMAIN log', log'[n].before # <<>> PROVE Latest(log[n])'
  <2>. DEFINE e == log'[n]
  <2>1. n \notin 1 .. size BY <1>4, <1>7
  <2>2. q.back = 0 BY <1>4, <1>7, <2>1
  <2>3. n = size + 1 BY <1>4, <1>5, <1>7, <2>1, <2>2
  <2>4. e = [moved |-> q.moved, was |-> q.was, now |-> q.put, undone |-> FALSE,
             before |-> IF q.late THEN <<>> ELSE place]
      BY <1>4, <2>2, <2>3
  <2>5. ~q.late BY <1>7, <2>4
  <2>6. e.moved = q.moved /\ e.was = q.was /\ e.now = q.put /\ e.before = place BY <2>4, <2>5
  <2>7. q.read = place BY <1>3, <2>5 DEF Decided
  <2>8. place' = q.put BY <1>1, <1>2, <1>3, <2>7, MergedIs
  <2>9. SameOrder(place, q.was) /\ \A i \in Items \ ToSet(q.moved) : q.put[i] = q.was[i]
      BY <1>3, <2>2, <2>7 DEF Decided
  <2>. HIDE DEF e
  <2>. QED BY <2>6, <2>8, <2>9 DEF Latest, SameOrder, e
<1>. QED BY <1>1, <1>6, <1>7 DEF OrderInv

LEMMA RestoreOrder ==
    ASSUME OrderInv, NEW i \in Items, RestoreTask(i), place[i].sec \in gone
    PROVE  OrderInv'
<1>1. KeysInv /\ KeysInv' BY RestoreKeys DEF OrderInv
<1>2. log' = Older /\ req' = Later BY DEF RestoreTask
<1>3. /\ DOMAIN log' = 1 .. Len(log)
      /\ \A n \in 1 .. Len(log) : /\ log'[n].moved = log[n].moved /\ log'[n].was = log[n].was
                                   /\ log'[n].before = <<>>
    BY <1>1, <1>2, OlderIs
<1>4. ASSUME NEW o \in Requests, req'[o] # None PROVE Decided(req[o])'
  <2>1. req[o] # None /\ req'[o] = [req[o] EXCEPT !.late = TRUE] BY <1>1, <1>2, <1>4, LaterIs
  <2>. QED BY <1>3, <2>1, LateDecided
<1>5. ASSUME NEW n \in DOMAIN log', log'[n].before # <<>> PROVE Latest(log[n])' BY <1>3, <1>5
<1>. QED BY <1>1, <1>4, <1>5 DEF OrderInv

LEMMA StepOrder == OrderInv /\ [Next]_vars => OrderInv'
<1>1. SUFFICES ASSUME OrderInv, [Next]_vars PROVE OrderInv' OBVIOUS
<1>2. req \in [Requests -> {None} \cup Asked] /\ \A o \in Requests : req[o] # None => Decided(req[o])
    BY <1>1 DEF OrderInv, KeysInv
<1>3. CASE \E r \in Requests, M \in SUBSET Items, s \in Sections :
              \E k \in 0 .. Len(Listed(place, s, M)) : Move(r, M, s, k)
  <2>1. place' = place /\ log' = log /\ \A o \in Requests : req'[o] # None => Decided(req'[o])
      BY <1>1, <1>3, MoveOrder
  <2>. QED BY <1>1, <2>1, RowsStay
<1>4. CASE \E r \in Requests, n \in DOMAIN log : MoveBack(r, n)
  <2>1. place' = place /\ log' = log /\ \A o \in Requests : req'[o] # None => Decided(req'[o])
      BY <1>1, <1>4, MoveBackOrder
  <2>. QED BY <1>1, <2>1, RowsStay
<1>5. ASSUME NEW r \in Requests, Commit(r) PROVE OrderInv'
    BY <1>1, <1>5, CommitOrder
<1>6. ASSUME NEW r \in Requests, Abort(r) PROVE OrderInv'
  <2>1. place' = place /\ log' = log /\ req' = [req EXCEPT ![r] = None] BY <1>6 DEF Abort
  <2>2. \A o \in Requests : req'[o] = None \/ req'[o] = req[o] BY <1>2, <2>1
  <2>. QED BY <1>1, <1>2, <2>1, <2>2, RowsStay
<1>7. ASSUME place' = place, log' = log, req' = req PROVE OrderInv'
    BY <1>1, <1>2, <1>7, RowsStay
<1>8. ASSUME NEW i \in Items, DeleteTask(i) \/ RestoreTask(i) PROVE OrderInv'
  <2>1. CASE RestoreTask(i) /\ place[i].sec \in gone BY <1>1, <2>1, RestoreOrder
  <2>2. CASE ~(RestoreTask(i) /\ place[i].sec \in gone)
      BY <1>7, <1>8, <2>2 DEF DeleteTask, RestoreTask
  <2>. QED BY <2>1, <2>2
<1>9. ASSUME NEW s \in Sections, DeleteSection(s) \/ RestoreSection(s) PROVE OrderInv'
    BY <1>7, <1>9 DEF DeleteSection, RestoreSection
<1>10. CASE UNCHANGED vars BY <1>7, <1>10 DEF vars
<1>. QED BY <1>1, <1>3, <1>4, <1>5, <1>6, <1>8, <1>9, <1>10 DEF Next

\* A request whose end changes the log is the one that commits.
LEMMA CommitsOnly ==
    ASSUME KeysInv, [Next]_vars, NEW r \in Requests, Commits(r)
    PROVE  Commit(r)
<1>1. req[r] # None /\ req'[r] = None /\ log' # log BY DEF Commits
<1>2. Later[r] # None /\ DOMAIN Later = Requests BY <1>1, LaterIs
<1>3. ASSUME NEW o \in Requests, Commit(o) PROVE o = r
  <2>1. SUFFICES ASSUME o # r PROVE FALSE OBVIOUS
  <2>2. req'[r] = Later[r] BY <1>2, <1>3, <2>1 DEF Commit
  <2>. QED BY <1>1, <1>2, <2>2
<1>4. ASSUME NEW i \in Items, RestoreTask(i) PROVE FALSE BY <1>1, <1>2, <1>4 DEF RestoreTask
<1>. QED BY <1>1, <1>3, <1>4
     DEF Next, vars, Move, MoveBack, Abort, DeleteTask, DeleteSection, RestoreSection

LEMMA StepKeepsPlace == OrderInv /\ [Next]_vars => PlaceKept
<1>1. SUFFICES ASSUME OrderInv, [Next]_vars, NEW r \in Requests, Commits(r), req[r].back = 0
               PROVE  LET q    == req[r]
                          line == Line(q)
                      IN  /\ (\A n \in DOMAIN line : place'[line[n]] = q.put[line[n]]) =>
                                \A n \in 1 .. Len(line) - 1 :
                                    Less(place'[line[n]].key, place'[line[n + 1]].key)
                          /\ ~q.late =>
                                \A i, j \in Items \ ToSet(q.moved) :
                                    place[i].sec = place[j].sec =>
                                        (Before(place, i, j) <=> Before(place', i, j))
    BY DEF PlaceKept
<1>. DEFINE q == req[r]
            line == Line(q)
<1>2. KeysInv /\ Commit(r) BY <1>1, CommitsOnly DEF OrderInv
<1>3. q \in Asked /\ Decided(q) /\ place' = Merged(q)
    BY <1>1, <1>2, OpenRequest DEF OrderInv, Commits, Commit
<1>4. q.back = 0 BY <1>1
<1>5. line \in Seq(Neighbour)
  <2>1. q.moved \in Seq(Items) /\ q.above \in Neighbour /\ q.below \in Neighbour BY <1>3 DEF Asked
  <2>. DEFINE A == IF q.above = 0 THEN <<>> ELSE <<q.above>>
              B == IF q.below = 0 THEN <<>> ELSE <<q.below>>
  <2>2. A \in Seq(Neighbour) /\ B \in Seq(Neighbour)
    <3>1. <<q.above>> \in Seq(Neighbour) /\ <<q.below>> \in Seq(Neighbour) BY <2>1
    <3>. QED BY <3>1
  <2>3. q.moved \in Seq(Neighbour)
    <3>1. Seq(Items) \subseteq Seq(Neighbour) BY DEF Neighbour
    <3>. QED BY <2>1, <3>1
  <2>4. line = A \o q.moved \o B BY DEF Line
  <2>. HIDE DEF A, B, q
  <2>5. A \o q.moved \in Seq(Neighbour) BY <2>2, <2>3, ConcatProperties
  <2>. QED BY <2>2, <2>4, <2>5, ConcatProperties
<1>. HIDE DEF q, line
<1>6. ASSUME \A n \in DOMAIN line : place'[line[n]] = q.put[line[n]], NEW n \in 1 .. Len(line) - 1
      PROVE  Less(place'[line[n]].key, place'[line[n + 1]].key)
  <2>1. DOMAIN line = 1 .. Len(line) /\ Len(line) \in Nat BY <1>5, LenProperties
  <2>2. n \in DOMAIN line /\ n + 1 \in DOMAIN line BY <2>1
  <2>3. Less(q.put[line[n]].key, q.put[line[n + 1]].key)
      BY <1>3, <1>4 DEF Decided, Lined, line
  <2>. QED BY <1>6, <2>2, <2>3
<1>7. ASSUME ~q.late, NEW i \in Items \ ToSet(q.moved), NEW j \in Items \ ToSet(q.moved),
             place[i].sec = place[j].sec
      PROVE  Before(place, i, j) <=> Before(place', i, j)
  <2>1. q.read = place BY <1>3, <1>7 DEF Decided
  <2>2. place' = q.put BY <1>2, <1>3, <2>1, MergedIs
  <2>3. SameOrder(place, q.was) /\ q.put[i] = q.was[i] /\ q.put[j] = q.was[j]
      BY <1>3, <1>4, <1>7, <2>1 DEF Decided
  <2>4. Before(place, i, j) <=> Before(q.was, i, j) BY <1>7, <2>3 DEF SameOrder
  <2>5. Before(q.was, i, j) <=> Before(q.put, i, j) BY <2>3 DEF Before
  <2>. QED BY <2>2, <2>4, <2>5
<1>. QED BY <1>6, <1>7 DEF q, line

\* A move puts its tasks, in their order, between the neighbours it was asked
\* for, when these still are where it found them, and does not change the order
\* of any others, deleted ones included, not even by spacing the section anew
\* (move_tasks, _keys_for, _rebalance).
THEOREM MovesKeepPlace == Spec => KeepsPlace
<1>1. OrderInv /\ [Next]_vars => [PlaceKept]_vars BY StepKeepsPlace
<1>. QED BY <1>1, InitOrder, StepOrder, PTL DEF Spec, KeepsPlace

LEMMA StepRestores == OrderInv /\ [Next]_vars => OrderRestored
<1>1. SUFFICES ASSUME OrderInv, [Next]_vars, NEW r \in Requests, Commits(r), req[r].back # 0,
                      ~req[r].late, log[req[r].back].before # <<>>,
                      NEW i \in Items, NEW j \in Items
               PROVE  LET then == log[req[r].back].before
                      IN  /\ place'[i].sec = then[i].sec
                          /\ then[i].sec = then[j].sec => (Before(then, i, j) <=> Before(place', i, j))
    BY DEF OrderRestored
<1>. DEFINE q == req[r]
            e == log[q.back]
<1>2. KeysInv /\ Commit(r) BY <1>1, CommitsOnly DEF OrderInv
<1>3. /\ q \in Asked /\ q.back \in 0 .. Len(log) /\ Decided(q) /\ place' = Merged(q)
    BY <1>1, <1>2, OpenRequest DEF OrderInv, Commits, Commit
<1>4. q.read = place BY <1>1, <1>3 DEF Decided
<1>5. place' = q.put BY <1>2, <1>3, <1>4, MergedIs
<1>6. Latest(e)
  <2>1. DOMAIN log = 1 .. Len(log) /\ Len(log) \in Nat BY <1>2, LenProperties DEF KeysInv
  <2>2. q.back \in DOMAIN log BY <1>1, <1>3, <2>1
  <2>. QED BY <1>1, <2>2 DEF OrderInv
<1>7. ASSUME NEW x \in Items PROVE place'[x] = e.was[x]
  <2>1. q.put[x] = IF x \in ToSet(e.moved) THEN e.was[x] ELSE place[x]
      BY <1>1, <1>3, <1>4 DEF Decided
  <2>2. x \notin ToSet(e.moved) => place[x] = e.was[x] BY <1>6 DEF Latest
  <2>. QED BY <1>5, <2>1, <2>2
<1>8. SameOrder(e.before, e.was) BY <1>6 DEF Latest
<1>. HIDE DEF q, e
<1>9. place'[i].sec = e.before[i].sec BY <1>7, <1>8 DEF SameOrder
<1>10. ASSUME e.before[i].sec = e.before[j].sec PROVE Before(e.before, i, j) <=> Before(place', i, j)
  <2>1. Before(e.before, i, j) <=> Before(e.was, i, j) BY <1>8, <1>10 DEF SameOrder
  <2>2. Before(e.was, i, j) <=> Before(place', i, j) BY <1>7 DEF Before
  <2>. QED BY <2>1, <2>2
<1>. QED BY <1>9, <1>10 DEF q, e

\* Taking a move back at once puts every task, deleted ones too, where it was
\* among the others, also when the move had spaced the section anew (_undo_move;
\* _rebalance writes the keys of deleted and moved rows for this).
THEOREM UndoRestoresOrder == Spec => UndoRestores
<1>1. OrderInv /\ [Next]_vars => [OrderRestored]_vars BY StepRestores
<1>. QED BY <1>1, InitOrder, StepOrder, PTL DEF Spec, UndoRestores
==============================================================================
