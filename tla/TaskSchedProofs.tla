-------------------------- MODULE TaskSchedProofs --------------------------
(***************************************************************************)
(* The lists, the delays and the mutexes of TaskSched, for any number of   *)
(* tasks and mutexes, any priorities and any programs that keep to the     *)
(* discipline of Guarded.                                                  *)
(***************************************************************************)
EXTENDS KernelProofs

\* InsertDelayList compares delays as S32: its programs ask for delays that
\* are shorter than half of the range.
Short == 2^(Width - 1) - 1
ShortDelays == \A p \in Programs : p.delays \subseteq 1 .. Short

(***************************************************************************)
(* Part 1.  The arithmetic of delays, and the elements of lists.           *)
(***************************************************************************)

\* The powers of two count the subsets of a set.
LEMMA Doubled ==
    ASSUME NEW n \in Nat
    PROVE  2^n \in Nat \ {0} /\ 2^(n + 1) = 2 * 2^n
<1> DEFINE S == 1 .. n
           X == SUBSET S
           Y == {A \cup {n + 1} : A \in X}
<1>1. IsFiniteSet(S) /\ Cardinality(S) = n /\ Cardinality(1 .. n + 1) = n + 1 /\ IsFiniteSet(1 .. n + 1)
  BY FS_Interval
<1>2. IsFiniteSet(X) /\ Cardinality(X) = 2^n /\ Cardinality(SUBSET (1 .. n + 1)) = 2^(n + 1)
  BY <1>1, FS_SUBSET
<1>3. ExistsBijection(X, Y)
  <2> DEFINE f == [A \in X |-> A \cup {n + 1}]
  <2>1. n + 1 \notin S
    OBVIOUS
  <2>2. f \in [X -> Y] /\ \A B \in Y : \E A \in X : f[A] = B
    OBVIOUS
  <2>3. ASSUME NEW A \in X, NEW B \in X, f[A] = f[B] PROVE A = B
    <3>1. A \cup {n + 1} = B \cup {n + 1} /\ n + 1 \notin A /\ n + 1 \notin B
      BY <2>1, <2>3
    <3> QED BY <3>1
  <2> HIDE DEF f, X, Y
  <2>4. f \in Bijection(X, Y)
    BY <2>2, <2>3 DEF Bijection, Injection, Surjection, IsInjective
  <2> QED BY <2>4 DEF ExistsBijection
<1>4. IsFiniteSet(Y) /\ Cardinality(Y) = 2^n
  <2> HIDE DEF X, Y
  <2> QED BY <1>2, <1>3, FS_Bijection
<1>5. X \cup Y = SUBSET (1 .. n + 1)
  <2>1. 1 .. n + 1 = S \cup {n + 1}
    OBVIOUS
  <2>2. ASSUME NEW B \in SUBSET (1 .. n + 1) PROVE B \in X \cup Y
    <3>1. CASE n + 1 \in B
      <4>1. B \ {n + 1} \in X /\ B = (B \ {n + 1}) \cup {n + 1}
        BY <2>1, <3>1
      <4> QED BY <4>1
    <3>2. CASE n + 1 \notin B
      BY <2>1, <3>2
    <3> QED BY <3>1, <3>2
  <2>3. X \cup Y \subseteq SUBSET (1 .. n + 1)
    BY <2>1
  <2> QED BY <2>2, <2>3
<1>6. X \cap Y = {}
  <2>1. n + 1 \notin S
    OBVIOUS
  <2> QED BY <2>1
<1>7. Cardinality(X \cup Y) = Cardinality(X) + Cardinality(Y) - Cardinality(X \cap Y)
  <2> HIDE DEF X, Y
  <2> QED BY <1>2, <1>4, FS_Union
<1>8. 2^n \in Nat
  BY <1>2, FS_CardinalityType
<1>9. {} \in X
  OBVIOUS
<1>10. 2^n # 0
  <2> HIDE DEF X
  <2> QED BY <1>2, <1>9, FS_EmptySet
<1>11. Cardinality(X \cap Y) = 0
  BY <1>6, FS_EmptySet
<1> HIDE DEF X, Y
<1>12. 2^(n + 1) = 2^n + 2^n - 0
  BY <1>2, <1>4, <1>5, <1>7, <1>11
<1>13. 2^n + 2^n - 0 = 2 * 2^n
  BY <1>8
<1> QED BY <1>8, <1>10, <1>12, <1>13

LEMMA Range32 ==
    /\ Short \in Nat /\ Invalid \in Nat
    /\ 2^(Width - 1) = Short + 1 /\ 2^Width = 2 * Short + 2 /\ Invalid = 2 * Short + 1
<1>1. Width - 1 \in Nat /\ (Width - 1) + 1 = Width
  BY KernelAssumption
<1>2. 2^(Width - 1) \in Nat \ {0} /\ 2^Width = 2 * 2^(Width - 1)
  BY <1>1, Doubled
<1> QED BY <1>2 DEF Short, Invalid

\* Between short delays nothing wraps around.
LEMMA ShortSigned ==
    ASSUME NEW x \in -Short .. Short
    PROVE  Signed(x) = x
<1>1. CASE x >= 0
  <2>1. Unsigned(x) = x
    BY <1>1, Range32 DEF Unsigned
  <2> QED BY <1>1, <2>1, Range32 DEF Signed
<1>2. CASE x < 0
  <2>1. Unsigned(x) = x + 2^Width
    BY <1>2, Range32 DEF Unsigned
  <2> QED BY <1>2, <2>1, Range32 DEF Signed
<1> QED BY <1>1, <1>2, Range32

LEMMA ShortUnsigned ==
    ASSUME NEW x \in 0 .. Short
    PROVE  Unsigned(x) = x
BY Range32 DEF Unsigned

LEMMA Elements ==
    ASSUME NEW S, NEW s \in Seq(S)
    PROVE  /\ ToSet(s) = {s[i] : i \in 1 .. Len(s)} /\ ToSet(s) \subseteq S
           /\ DOMAIN s = 1 .. Len(s) /\ Len(s) \in Nat
           /\ s = << >> <=> ToSet(s) = {}
           /\ s = << >> <=> Len(s) = 0
<1>1. DOMAIN s = 1 .. Len(s) /\ Len(s) \in Nat
  BY LenProperties
<1>2. \A i \in 1 .. Len(s) : s[i] \in S
  BY ElementOfSeq
<1>3. s = << >> <=> Len(s) = 0
  BY EmptySeq
<1>4. ToSet(s) = {s[i] : i \in 1 .. Len(s)}
  BY <1>1 DEF ToSet
<1>5. ToSet(s) = {} <=> Len(s) = 0
  <2>1. Len(s) # 0 => 1 \in 1 .. Len(s)
    BY <1>1
  <2> QED BY <1>1, <1>4, <2>1
<1> QED BY <1>1, <1>2, <1>3, <1>4, <1>5

LEMMA Inserted ==
    ASSUME NEW S, NEW s \in Seq(S), NEW e \in S, NEW i \in 1 .. Len(s) + 1
    PROVE  LET r == InsertAt(s, i, e)
           IN /\ r \in Seq(S) /\ Len(r) = Len(s) + 1
              /\ \A j \in 1 .. Len(s) + 1 :
                   r[j] = IF j < i THEN s[j] ELSE IF j = i THEN e ELSE s[j - 1]
              /\ ToSet(r) = ToSet(s) \cup {e}
              /\ IsInjective(s) /\ e \notin ToSet(s) => IsInjective(r)
<1> DEFINE a == SubSeq(s, 1, i - 1)
           b == SubSeq(s, i, Len(s))
           r == InsertAt(s, i, e)
<1>1. Len(s) \in Nat /\ \A j \in 1 .. Len(s) : s[j] \in S
  BY ElementOfSeq, LenProperties
<1>2. a \in Seq(S) /\ Len(a) = i - 1 /\ \A j \in 1 .. i - 1 : a[j] = s[j]
  BY <1>1, SubSeqProperties
<1>3. /\ b \in Seq(S) /\ Len(b) = Len(s) - i + 1
      /\ \A j \in 1 .. Len(s) - i + 1 : b[j] = s[i + j - 1]
  BY <1>1, SubSeqProperties
<1>4. <<e>> \in Seq(S) /\ Len(<<e>>) = 1 /\ <<e>>[1] = e
  OBVIOUS
<1> HIDE DEF a, b
<1> DEFINE c == a \o <<e>>
<1>5. /\ c \in Seq(S) /\ Len(c) = i
      /\ \A j \in 1 .. i : c[j] = IF j < i THEN s[j] ELSE e
  BY <1>1, <1>2, <1>4, ConcatProperties
<1>6. /\ r \in Seq(S) /\ Len(r) = Len(s) + 1
      /\ \A j \in 1 .. Len(s) + 1 : r[j] = IF j <= i THEN c[j] ELSE b[j - i]
  <2>1. r = c \o b
    BY DEF InsertAt, a, b
  <2> HIDE DEF r, c
  <2>2. /\ r \in Seq(S) /\ Len(r) = Len(c) + Len(b)
        /\ \A j \in 1 .. Len(c) + Len(b) : r[j] = IF j <= Len(c) THEN c[j] ELSE b[j - Len(c)]
    BY <1>3, <1>5, <2>1, ConcatProperties
  <2>3. Len(c) + Len(b) = Len(s) + 1
    BY <1>1, <1>3, <1>5
  <2> QED BY <1>1, <1>5, <2>2, <2>3
<1> HIDE DEF r, c
<1>7. \A j \in 1 .. Len(s) + 1 : r[j] = IF j < i THEN s[j] ELSE IF j = i THEN e ELSE s[j - 1]
  <2> TAKE j \in 1 .. Len(s) + 1
  <2>1. CASE j <= i
    BY <1>1, <1>5, <1>6, <2>1
  <2>2. CASE j > i
    <3>1. j - i \in 1 .. Len(s) - i + 1 /\ i + (j - i) - 1 = j - 1
      BY <1>1, <2>2
    <3> QED BY <1>1, <1>3, <1>6, <2>2, <3>1
  <2> QED BY <1>1, <2>1, <2>2
<1>8. ToSet(r) = {r[j] : j \in 1 .. Len(s) + 1} /\ ToSet(s) = {s[j] : j \in 1 .. Len(s)}
      /\ DOMAIN r = 1 .. Len(s) + 1 /\ DOMAIN s = 1 .. Len(s)
  BY <1>6, Elements
<1>9. ToSet(r) = ToSet(s) \cup {e}
  <2>1. ToSet(r) \subseteq ToSet(s) \cup {e}
    <3> SUFFICES ASSUME NEW j \in 1 .. Len(s) + 1 PROVE r[j] \in ToSet(s) \cup {e}
      BY <1>8
    <3>1. j < i => j \in 1 .. Len(s)
      BY <1>1
    <3>2. j > i => j - 1 \in 1 .. Len(s)
      BY <1>1
    <3>3. CASE j < i
      <4>1. r[j] = s[j]
        BY <1>7, <3>3
      <4> QED BY <1>8, <3>1, <3>3, <4>1
    <3>4. CASE j = i
      BY <1>7, <3>4
    <3>5. CASE j > i
      <4>1. r[j] = s[j - 1]
        BY <1>1, <1>7, <3>5
      <4> QED BY <1>8, <3>2, <3>5, <4>1
    <3> QED BY <1>1, <3>3, <3>4, <3>5
  <2>2. e \in ToSet(r)
    <3>1. r[i] = e
      BY <1>1, <1>7
    <3> QED BY <1>8, <3>1
  <2>3. ASSUME NEW j \in 1 .. Len(s) PROVE s[j] \in ToSet(r)
    <3>1. CASE j < i
      <4>1. r[j] = s[j] /\ j \in 1 .. Len(s) + 1
        BY <1>1, <1>7, <3>1
      <4> QED BY <1>8, <4>1
    <3>2. CASE j >= i
      <4>1. r[j + 1] = s[j] /\ j + 1 \in 1 .. Len(s) + 1
        BY <1>1, <1>7, <3>2
      <4> QED BY <1>8, <4>1
    <3> QED BY <1>1, <3>1, <3>2
  <2> QED BY <1>8, <2>1, <2>2, <2>3
<1>10. ASSUME IsInjective(s), e \notin ToSet(s) PROVE IsInjective(r)
  <2>1. \A j \in 1 .. Len(s) : s[j] # e
    BY <1>8, <1>10
  <2>2. \A j, l \in 1 .. Len(s) : s[j] = s[l] => j = l
    BY <1>8, <1>10 DEF IsInjective
  <2> SUFFICES ASSUME NEW j \in 1 .. Len(s) + 1, NEW l \in 1 .. Len(s) + 1, r[j] = r[l], j < l
               PROVE  FALSE
    <3>1. \A j, l \in 1 .. Len(s) + 1 : j # l => j < l \/ l < j
      BY <1>1
    <3> QED BY <1>8, <3>1 DEF IsInjective
  <2>3. CASE l < i
    BY <1>1, <1>7, <2>2, <2>3
  <2>4. CASE l = i
    <3>1. j \in 1 .. Len(s) /\ r[j] = s[j] /\ r[l] = e
      BY <1>1, <1>7, <2>4
    <3> QED BY <2>1, <3>1
  <2>5. CASE l > i
    <3>1. l - 1 \in 1 .. Len(s) /\ r[l] = s[l - 1]
      BY <1>1, <1>7, <2>5
    <3>2. CASE j < i
      <4>1. j \in 1 .. Len(s) /\ r[j] = s[j] /\ j # l - 1
        BY <1>1, <1>7, <2>5, <3>2
      <4> QED BY <2>2, <3>1, <4>1
    <3>3. CASE j = i
      <4>1. r[j] = e
        BY <1>7, <3>3
      <4> QED BY <2>1, <3>1, <4>1
    <3>4. CASE j > i
      <4>1. j - 1 \in 1 .. Len(s) /\ r[j] = s[j - 1] /\ j - 1 # l - 1
        BY <1>1, <1>7, <3>4
      <4> QED BY <2>2, <3>1, <4>1
    <3> QED BY <1>1, <3>2, <3>3, <3>4
  <2> QED BY <1>1, <2>3, <2>4, <2>5
<1> QED BY <1>6, <1>7, <1>9, <1>10 DEF r

LEMMA Removed ==
    ASSUME NEW S, NEW s \in Seq(S), NEW i \in 1 .. Len(s)
    PROVE  LET r == RemoveAt(s, i)
           IN /\ r \in Seq(S) /\ Len(r) = Len(s) - 1
              /\ \A j \in 1 .. Len(s) - 1 : r[j] = IF j < i THEN s[j] ELSE s[j + 1]
<1> DEFINE a == SubSeq(s, 1, i - 1)
           b == SubSeq(s, i + 1, Len(s))
           r == RemoveAt(s, i)
<1>1. Len(s) \in Nat /\ \A j \in 1 .. Len(s) : s[j] \in S
  BY ElementOfSeq, LenProperties
<1>2. a \in Seq(S) /\ Len(a) = i - 1 /\ \A j \in 1 .. i - 1 : a[j] = s[j]
  BY <1>1, SubSeqProperties
<1>3. /\ b \in Seq(S) /\ Len(b) = Len(s) - i
      /\ \A j \in 1 .. Len(s) - i : b[j] = s[i + j]
  <2>1. \A j \in i + 1 .. Len(s) : s[j] \in S
    BY <1>1
  <2>2. /\ b \in Seq(S) /\ Len(b) = IF i + 1 <= Len(s) THEN Len(s) - (i + 1) + 1 ELSE 0
        /\ \A j \in 1 .. Len(s) - (i + 1) + 1 : b[j] = s[(i + 1) + j - 1]
    BY <1>1, <2>1, SubSeqProperties
  <2> QED BY <1>1, <2>2
<1> HIDE DEF a, b
<1>4. /\ r \in Seq(S) /\ Len(r) = Len(s) - 1
      /\ \A j \in 1 .. Len(s) - 1 : r[j] = IF j <= i - 1 THEN a[j] ELSE b[j - (i - 1)]
  <2>1. r = a \o b
    BY DEF RemoveAt, a, b
  <2> HIDE DEF r
  <2>2. /\ r \in Seq(S) /\ Len(r) = Len(a) + Len(b)
        /\ \A j \in 1 .. Len(a) + Len(b) : r[j] = IF j <= Len(a) THEN a[j] ELSE b[j - Len(a)]
    BY <1>2, <1>3, <2>1, ConcatProperties
  <2> QED BY <1>1, <1>2, <1>3, <2>2
<1> HIDE DEF r
<1>5. \A j \in 1 .. Len(s) - 1 : r[j] = IF j < i THEN s[j] ELSE s[j + 1]
  <2> TAKE j \in 1 .. Len(s) - 1
  <2>1. CASE j < i
    BY <1>1, <1>2, <1>4, <2>1
  <2>2. CASE j >= i
    <3>1. j - (i - 1) \in 1 .. Len(s) - i /\ i + (j - (i - 1)) = j + 1
      BY <1>1, <2>2
    <3> QED BY <1>1, <1>3, <1>4, <2>2, <3>1
  <2> QED BY <1>1, <2>1, <2>2
<1> QED BY <1>4, <1>5 DEF r

LEMMA FoundPlace ==
    ASSUME NEW S, NEW s \in Seq(S), NEW e
    PROVE  /\ e \in ToSet(s) => PlaceOf(s, e) \in 1 .. Len(s) /\ s[PlaceOf(s, e)] = e
           /\ e \notin ToSet(s) => PlaceOf(s, e) = 0
<1>1. ToSet(s) = {s[i] : i \in 1 .. Len(s)} /\ DOMAIN s = 1 .. Len(s)
  BY Elements
<1> QED BY <1>1 DEF PlaceOf

LEMMA UnlinkedOnce ==
    ASSUME NEW S, NEW s \in Seq(S), IsInjective(s), NEW e
    PROVE  LET r == Unlinked(s, e)
           IN /\ r \in Seq(S) /\ IsInjective(r)
              /\ ToSet(r) = ToSet(s) \ {e}
<1>1. /\ ToSet(s) = {s[i] : i \in 1 .. Len(s)} /\ DOMAIN s = 1 .. Len(s) /\ Len(s) \in Nat
  BY Elements
<1>2. \A j, l \in 1 .. Len(s) : s[j] = s[l] => j = l
  BY <1>1 DEF IsInjective
<1>3. CASE e \notin ToSet(s)
  BY <1>3, FoundPlace DEF Unlinked
<1>4. CASE e \in ToSet(s)
  <2> DEFINE i == PlaceOf(s, e)
             r == RemoveAt(s, i)
  <2>1. i \in 1 .. Len(s) /\ s[i] = e /\ Unlinked(s, e) = r
    BY <1>1, <1>4, FoundPlace DEF Unlinked
  <2> HIDE DEF i
  <2>2. /\ r \in Seq(S) /\ Len(r) = Len(s) - 1
        /\ \A j \in 1 .. Len(s) - 1 : r[j] = IF j < i THEN s[j] ELSE s[j + 1]
    BY <2>1, Removed
  <2> HIDE DEF r
  <2>3. ToSet(r) = {r[j] : j \in 1 .. Len(s) - 1} /\ DOMAIN r = 1 .. Len(s) - 1
    BY <2>2, Elements
  <2>4. \A j \in 1 .. Len(s) - 1 :
          LET l == IF j < i THEN j ELSE j + 1
          IN l \in 1 .. Len(s) /\ l # i /\ r[j] = s[l]
    BY <1>1, <2>1, <2>2
  <2>5. IsInjective(r)
    <3> SUFFICES ASSUME NEW j \in 1 .. Len(s) - 1, NEW l \in 1 .. Len(s) - 1, r[j] = r[l]
                 PROVE  j = l
      BY <2>3 DEF IsInjective
    <3> DEFINE jj == IF j < i THEN j ELSE j + 1
               ll == IF l < i THEN l ELSE l + 1
    <3>1. jj = ll
      BY <1>2, <2>4
    <3> QED BY <1>1, <2>1, <3>1
  <2>6. ToSet(r) \subseteq ToSet(s) \ {e}
    BY <1>1, <1>2, <2>1, <2>3, <2>4
  <2>7. ASSUME NEW j \in 1 .. Len(s), s[j] # e PROVE s[j] \in ToSet(r)
    <3>1. j # i
      BY <2>1, <2>7
    <3>2. CASE j < i
      <4>1. j \in 1 .. Len(s) - 1 /\ r[j] = s[j]
        BY <1>1, <2>1, <2>2, <3>2
      <4> QED BY <2>3, <4>1
    <3>3. CASE j > i
      <4>1. j - 1 \in 1 .. Len(s) - 1 /\ r[j - 1] = s[j]
        BY <1>1, <2>1, <2>2, <3>3
      <4> QED BY <2>3, <4>1
    <3> QED BY <1>1, <2>1, <3>1, <3>2, <3>3
  <2> QED BY <1>1, <2>1, <2>2, <2>5, <2>6, <2>7
<1> QED BY <1>3, <1>4

LEMMA HeadOnce ==
    ASSUME NEW S, NEW s \in Seq(S), IsInjective(s), s # << >>
    PROVE  /\ Head(s) \in ToSet(s) /\ Tail(s) \in Seq(S) /\ IsInjective(Tail(s))
           /\ ToSet(Tail(s)) = ToSet(s) \ {Head(s)}
           /\ Head(s) = s[1] /\ Len(Tail(s)) = Len(s) - 1
           /\ \A i \in 1 .. Len(s) - 1 : Tail(s)[i] = s[i + 1]
<1> DEFINE r == Tail(s)
<1>1. ToSet(s) = {s[i] : i \in 1 .. Len(s)} /\ DOMAIN s = 1 .. Len(s) /\ Len(s) \in Nat \ {0}
  BY Elements
<1>2. \A j, l \in 1 .. Len(s) : s[j] = s[l] => j = l
  BY <1>1 DEF IsInjective
<1>3. r \in Seq(S) /\ Len(r) = Len(s) - 1 /\ \A i \in 1 .. Len(s) - 1 : r[i] = s[i + 1]
  BY HeadTailProperties
<1>4. Head(s) = s[1]
  OBVIOUS
<1> HIDE DEF r
<1>5. ToSet(r) = {r[j] : j \in 1 .. Len(s) - 1} /\ DOMAIN r = 1 .. Len(s) - 1
  BY <1>3, Elements
<1>6. IsInjective(r)
  <2> SUFFICES ASSUME NEW j \in 1 .. Len(s) - 1, NEW l \in 1 .. Len(s) - 1, r[j] = r[l]
               PROVE  j = l
    BY <1>5 DEF IsInjective
  <2>1. j + 1 = l + 1
    BY <1>1, <1>2, <1>3
  <2> QED BY <1>1, <2>1
<1>7. ToSet(r) \subseteq ToSet(s) \ {s[1]}
  <2> SUFFICES ASSUME NEW j \in 1 .. Len(s) - 1 PROVE r[j] \in ToSet(s) \ {s[1]}
    BY <1>5
  <2>1. j + 1 \in 1 .. Len(s) /\ 1 \in 1 .. Len(s) /\ j + 1 # 1
    BY <1>1
  <2> QED BY <1>1, <1>2, <1>3, <2>1
<1>8. ASSUME NEW j \in 1 .. Len(s), s[j] # s[1] PROVE s[j] \in ToSet(r)
  <2>1. j - 1 \in 1 .. Len(s) - 1 /\ r[j - 1] = s[j]
    BY <1>1, <1>3, <1>8
  <2> QED BY <1>5, <2>1
<1> QED BY <1>1, <1>3, <1>4, <1>6, <1>7, <1>8 DEF r

LEMMA Appended ==
    ASSUME NEW S, NEW s \in Seq(S), NEW e \in S
    PROVE  /\ Append(s, e) \in Seq(S) /\ ToSet(Append(s, e)) = ToSet(s) \cup {e}
           /\ IsInjective(s) /\ e \notin ToSet(s) => IsInjective(Append(s, e))
<1> DEFINE r == Append(s, e)
<1>1. ToSet(s) = {s[i] : i \in 1 .. Len(s)} /\ DOMAIN s = 1 .. Len(s) /\ Len(s) \in Nat
  BY Elements
<1>2. /\ r \in Seq(S) /\ Len(r) = Len(s) + 1
      /\ \A i \in 1 .. Len(s) : r[i] = s[i]
      /\ r[Len(s) + 1] = e
  BY AppendProperties
<1> HIDE DEF r
<1>3. ToSet(r) = {r[j] : j \in 1 .. Len(s) + 1} /\ DOMAIN r = 1 .. Len(s) + 1
  BY <1>2, Elements
<1>4. 1 .. Len(s) + 1 = (1 .. Len(s)) \cup {Len(s) + 1}
  BY <1>1
<1>5. ToSet(r) = ToSet(s) \cup {e}
  BY <1>1, <1>2, <1>3, <1>4
<1>6. ASSUME IsInjective(s), e \notin ToSet(s) PROVE IsInjective(r)
  BY <1>1, <1>2, <1>3, <1>4, <1>6 DEF IsInjective
<1> QED BY <1>2, <1>5, <1>6 DEF r

\* A task in front of a list that it is not in.
LEMMA Pushed ==
    ASSUME NEW S, NEW s \in Seq(S), NEW e \in S
    PROVE  /\ <<e>> \o s \in Seq(S) /\ ToSet(<<e>> \o s) = ToSet(s) \cup {e}
           /\ IsInjective(s) /\ e \notin ToSet(s) => IsInjective(<<e>> \o s)
<1> DEFINE r == <<e>> \o s
<1>1. ToSet(s) = {s[i] : i \in 1 .. Len(s)} /\ DOMAIN s = 1 .. Len(s) /\ Len(s) \in Nat
  BY Elements
<1>2. <<e>> \in Seq(S) /\ Len(<<e>>) = 1 /\ <<e>>[1] = e
  OBVIOUS
<1>3. /\ r \in Seq(S) /\ Len(r) = 1 + Len(s)
      /\ \A i \in 1 .. 1 + Len(s) : r[i] = IF i <= 1 THEN e ELSE s[i - 1]
  BY <1>1, <1>2, ConcatProperties
<1> HIDE DEF r
<1>4. ToSet(r) = {r[j] : j \in 1 .. 1 + Len(s)} /\ DOMAIN r = 1 .. 1 + Len(s)
  BY <1>3, Elements
<1>5. /\ \A j \in 1 .. Len(s) : j + 1 \in 1 .. 1 + Len(s) /\ r[j + 1] = s[j]
      /\ \A j \in 1 .. 1 + Len(s) : j = 1 \/ (j - 1 \in 1 .. Len(s) /\ r[j] = s[j - 1])
      /\ 1 \in 1 .. 1 + Len(s) /\ r[1] = e
  BY <1>1, <1>3
<1>6. ToSet(r) = ToSet(s) \cup {e}
  BY <1>1, <1>4, <1>5
<1>7. ASSUME IsInjective(s), e \notin ToSet(s) PROVE IsInjective(r)
  <2>1. \A j \in 1 .. Len(s) : s[j] # e
    BY <1>1, <1>7
  <2>2. \A j, l \in 1 .. Len(s) : s[j] = s[l] => j = l
    BY <1>1, <1>7 DEF IsInjective
  <2> SUFFICES ASSUME NEW j \in 1 .. 1 + Len(s), NEW l \in 1 .. 1 + Len(s), r[j] = r[l]
               PROVE  j = l
    BY <1>4 DEF IsInjective
  <2>3. CASE j # 1 /\ l # 1
    <3>1. j - 1 = l - 1
      BY <1>5, <2>2, <2>3
    <3> QED BY <1>1, <3>1
  <2>4. CASE j = 1 \/ l = 1
    BY <1>1, <1>5, <2>1, <2>4
  <2> QED BY <2>3, <2>4
<1> QED BY <1>3, <1>6, <1>7 DEF r
(***************************************************************************)
(* Part 2.  The inductive invariant, as predicates on a kernel state x,    *)
(* the pending calls c and the remaining delays l.                         *)
(***************************************************************************)

\* The types.  Nobody waits for an event or a flag, and no interrupt asks for
\* a service.
Typed(x) ==
  /\ KType(x)
  /\ x.prio \in [Task -> 0 .. Lowest] /\ x.tick \in [Task -> 0 .. Invalid]
  /\ x.req \in BOOLEAN /\ x.timeReq \in BOOLEAN /\ x.slice \in -1 .. TimeSlice
  /\ x.lock \in 0 .. MaxLock /\ x.mnum \in 0 .. Cardinality(Mutex)
  /\ x.inside \in [Task -> SUBSET Mutex]
  /\ x.ev = [t \in Task |-> InvalidId] /\ x.pset = {} /\ x.flg.list = << >> /\ x.srq = << >>
  /\ \A t \in Task : x.mid[t] # InvalidId => x.mx[x.mid[t]].orig \in 0 .. Lowest

\* Every list holds the tasks that the other fields say, each once; out are
\* ready tasks that the ready list does not hold at the moment.
Placed(x, out) ==
  /\ x.intact
  /\ IsInjective(x.rdy) /\ IsInjective(x.dly) /\ IsInjective(x.free)
  /\ ToSet(x.rdy) = {t \in Task : x.st[t] = "READY"} \ out
  /\ ToSet(x.dly) = {t \in Task : x.tick[t] # Invalid}
  /\ \A t \in Task : x.tick[t] # Invalid => x.st[t] = "WAITING"
  /\ \A t \in ToSet(x.free) : x.st[t] = "DORMANT"
  /\ \A m \in Mutex :
       /\ IsInjective(x.mx[m].list)
       /\ \A t \in ToSet(x.mx[m].list) : x.st[t] = "WAITING" /\ x.tick[t] = Invalid /\ x.mid[t] = m

\* The states of the tasks: one runs at the most, Idle never waits, and the
\* TCBs that are not in use are free or in the hands of CreateTask.
States(x, c) ==
  /\ \A t \in Task : x.st[t] = "RUNNING" => t = x.run
  /\ x.st[Idle] \in {"READY", "RUNNING"}
  /\ {t \in Task : x.st[t] = "DORMANT"} =
       ToSet(x.free) \cup {c[t].task : t \in {u \in Task : c[u].op = "create"}}
  /\ \A t \in Task : x.st[t] = "DORMANT" => c[t] = NoCall /\ x.mid[t] = InvalidId

EnterCall(m) == [op |-> "enter", mutex |-> m]

\* The running task is about to delete t.
Doomed(x, c, t) == c[x.run].op = "delete" /\ c[x.run].task = t

\* mutexID leads from every owner and every waiting task to the mutex, and
\* who waits or owns is in CoEnterMutexSection or inside.
Owned(x, c) ==
  /\ \A m \in Mutex :
       LET o == x.mx[m].own
       IN /\ o # InvalidId => /\ x.mid[o] = m /\ o \notin ToSet(x.mx[m].list)
                              /\ m \in x.inside[o] \/ c[o] = EnterCall(m)
          /\ o = InvalidId => x.mx[m].list = << >>
          /\ m > x.mnum => o = InvalidId
          /\ \A t \in ToSet(x.mx[m].list) : c[t] = EnterCall(m)
  /\ \A t \in Task : x.mid[t] # InvalidId =>
       x.mx[x.mid[t]].own = t \/ t \in ToSet(x.mx[x.mid[t]].list)
  /\ \A t \in Task, m \in Mutex : m \in x.inside[t] => x.mx[m].own = t

\* A call of t that concerns itself.  The scheduler is not locked when it is
\* its turn to suspend or to delete itself.
Alone(x, c, t) ==
  \/ c[t] = NoCall
  \/ /\ t # Idle /\ (t = x.run => x.lock = 0)
     /\ \/ c[t] = [op |-> "suspend", task |-> t]
        \/ c[t] = [op |-> "delete", task |-> t] /\ x.mid[t] = InvalidId
        \/ \E m \in Mutex : /\ c[t] = [op |-> "delleave", task |-> t, mutex |-> m]
                            /\ x.mx[m].own = t \/ Doomed(x, c, t)
  \/ c[t] = [op |-> "prio", task |-> t, seen |-> "RUNNING"]
  \/ \E m \in Mutex : /\ c[t] = EnterCall(m)
                      /\ \/ x.mx[m].own = t \/ t \in ToSet(x.mx[m].list)
                         \/ Doomed(x, c, t)

\* A call of t for another task u, made under CoSchedLock: what its tests
\* found is still so.
Other(x, c, t, u) ==
  \/ \E p \in 0 .. Lowest, w \in BOOLEAN :
       /\ c[t] = [op |-> "create", task |-> u, prio |-> p, waiting |-> w]
       /\ x.st[u] = "DORMANT" /\ u \notin ToSet(x.free)
  \/ /\ c[t] = [op |-> "delete", task |-> u]
     /\ x.st[u] # "DORMANT"
     /\ x.mid[u] # InvalidId => x.mx[x.mid[u]].own # u /\ ~Misses(x, u)
  \/ \E m \in Mutex : /\ c[t] = [op |-> "delleave", task |-> u, mutex |-> m]
                      /\ x.mx[m].own = u
  \/ /\ c[t] = [op |-> "awake", task |-> u]
     /\ x.st[u] = "WAITING" /\ x.tick[u] = Invalid /\ x.mid[u] = InvalidId
  \/ c[t] = [op |-> "prio", task |-> u, seen |-> x.st[u]] /\ x.st[u] # "DORMANT"
  \/ \E n \in 0 .. Short :
       c[t] = [op |-> "reset", task |-> u, ticks |-> n] /\ x.tick[u] # Invalid

Locked(x, c, t) ==
  t = x.run /\ x.lock > 0 /\ \E u \in Task \ {Idle, t} : Other(x, c, t, u)

Calls(x, c) ==
  /\ c = [t \in Task |-> c[t]]
  /\ \A t \in Task : Alone(x, c, t) \/ Locked(x, c, t)

\* The delay list is in the order of the remaining delays, and delayTick
\* counts from the one before.
Timed(x, l) ==
  /\ l \in [Task -> 0 .. Short]
  /\ \A i \in DOMAIN x.dly :
       x.tick[x.dly[i]] = l[x.dly[i]] - (IF i = 1 THEN 0 ELSE l[x.dly[i - 1]])
  /\ \A i, j \in DOMAIN x.dly : i < j => l[x.dly[i]] <= l[x.dly[j]]

Whole(x, c, l) ==
  Typed(x) /\ Placed(x, {}) /\ States(x, c) /\ Owned(x, c) /\ Calls(x, c) /\ Timed(x, l)

Sound == prog \in Programs /\ Whole(k, call, left) /\ k.st[k.run] = "RUNNING"

(***************************************************************************)
(* Part 3.  The list functions.                                            *)
(***************************************************************************)

\* What no function of the ready list, the delay list or of priorities
\* changes.
Frame(x, y) ==
  /\ y.run = x.run /\ y.lock = x.lock /\ y.timeReq = x.timeReq /\ y.free = x.free
  /\ y.ev = x.ev /\ y.pset = x.pset /\ y.flg = x.flg /\ y.srq = x.srq
  /\ y.mid = x.mid /\ y.mnum = x.mnum /\ y.inside = x.inside /\ y.mstale = x.mstale
  /\ \A m \in Mutex : y.mx[m].own = x.mx[m].own /\ y.mx[m].list = x.mx[m].list

LEMMA FrameTrans ==
    ASSUME NEW x, NEW y, NEW z, Frame(x, y), Frame(y, z)
    PROVE  Frame(x, z)
BY DEF Frame

\* A task that is in no list becomes ready.
LEMMA ReadyIn ==
    ASSUME NEW x, Typed(x), NEW t \in Task, Placed(x, {t}),
           x.tick[t] = Invalid, t \notin ToSet(x.free),
           \A m \in Mutex : t \notin ToSet(x.mx[m].list)
    PROVE  LET y == InsertToTCBRdyList(x, t)
           IN /\ Typed(y) /\ Placed(y, {}) /\ Frame(x, y)
              /\ y.st = [x.st EXCEPT ![t] = "READY"]
              /\ y.tick = x.tick /\ y.dly = x.dly /\ y.prio = x.prio /\ y.mx = x.mx
              /\ x.req => y.req
<1> DEFINE pos == RdyPos(x, x.prio[t])
           list == InsertAt(x.rdy, pos, t)
           slice == IF x.prio[t] = x.prio[x.run] /\ t # x.run /\ x.slice < 0 THEN TimeSlice ELSE x.slice
           req == x.req \/ pos = 1
           intact == x.intact /\ t \notin Linked(x)
           y == InsertToTCBRdyList(x, t)
<1>1. KType(x) /\ x.rdy \in Seq(Task)
  BY DEF Typed, KType
<1>2. pos \in 1 .. Len(x.rdy) + 1
  BY <1>1, FirstPlace DEF RdyPos
<1>3. KType(y)
  BY <1>1, InsertRdyKept DEF Kept
<1> HIDE DEF pos
<1>4. t \notin ToSet(x.rdy)
  BY DEF Placed
<1>5. IsInjective(list) /\ ToSet(list) = ToSet(x.rdy) \cup {t}
  BY <1>1, <1>2, <1>4, Inserted DEF Placed
<1>6. intact
  BY <1>4 DEF Linked, Placed
<1>7. slice \in -1 .. TimeSlice
  BY KernelAssumption DEF Typed
<1>8. req \in BOOLEAN /\ (x.req => req)
  BY DEF Typed
<1>9. y = [x EXCEPT !.st[t] = "READY", !.rdy = list, !.req = req, !.slice = slice, !.intact = intact]
  BY DEF InsertToTCBRdyList, pos
<1> HIDE DEF list, slice, req, intact, y
<1>10. /\ y.st = [x.st EXCEPT ![t] = "READY"] /\ y.rdy = list /\ y.req = req /\ y.slice = slice
       /\ y.intact = intact /\ y.tick = x.tick /\ y.dly = x.dly /\ y.prio = x.prio
       /\ y.mx = x.mx /\ Frame(x, y)
  BY <1>1, <1>9 DEF KType, Fields, Frame
<1>11. Typed(y)
  BY <1>3, <1>7, <1>8, <1>10 DEF Typed, Frame
<1>12. Placed(y, {})
  <2>1. \A u \in Task : y.st[u] = IF u = t THEN "READY" ELSE x.st[u]
    BY <1>1, <1>10 DEF KType
  <2>2. ToSet(y.rdy) = {u \in Task : y.st[u] = "READY"}
    BY <1>5, <1>10, <2>1 DEF Placed
  <2>3. ToSet(x.free) \subseteq Task /\ \A m \in Mutex : ToSet(x.mx[m].list) \subseteq Task
    BY <1>1, Elements DEF KType, MutexType
  <2> QED BY <1>5, <1>6, <1>10, <2>1, <2>2, <2>3 DEF Placed, Frame
<1> QED BY <1>8, <1>10, <1>11, <1>12 DEF y

\* A ready task leaves the ready list, and stays ready for the moment.
LEMMA ReadyOut ==
    ASSUME NEW x, Typed(x), NEW t \in Task, Placed(x, {}), x.st[t] = "READY"
    PROVE  LET y == RemoveFromTCBRdyList(x, t)
           IN /\ Typed(y) /\ Placed(y, {t}) /\ Frame(x, y)
              /\ y.st = x.st /\ y.tick = x.tick /\ y.dly = x.dly /\ y.prio = x.prio /\ y.mx = x.mx
              /\ y.req = x.req /\ y.slice = x.slice
<1> DEFINE list == Unlinked(x.rdy, t)
           intact == x.intact /\ t \in ToSet(x.rdy)
           y == RemoveFromTCBRdyList(x, t)
<1>1. KType(x) /\ x.rdy \in Seq(Task)
  BY DEF Typed, KType
<1>2. KType(y)
  BY <1>1, RemoveRdyKept DEF Kept
<1>3. IsInjective(list) /\ ToSet(list) = ToSet(x.rdy) \ {t}
  BY <1>1, UnlinkedOnce DEF Placed
<1>4. intact
  BY DEF Placed
<1>5. y = [x EXCEPT !.rdy = list, !.intact = intact]
  BY DEF RemoveFromTCBRdyList
<1> HIDE DEF list, intact, y
<1>6. /\ y.st = x.st /\ y.rdy = list /\ y.req = x.req /\ y.slice = x.slice
      /\ y.intact = intact /\ y.tick = x.tick /\ y.dly = x.dly /\ y.prio = x.prio
      /\ y.mx = x.mx /\ Frame(x, y)
  BY <1>1, <1>5 DEF KType, Fields, Frame
<1>7. Typed(y)
  BY <1>2, <1>6 DEF Typed, Frame
<1>8. Placed(y, {t})
  BY <1>3, <1>4, <1>6 DEF Placed, Frame
<1> QED BY <1>6, <1>7, <1>8 DEF y

\* The ticks to the expiry of the i-th task are those that remain of its
\* delay.
LEMMA DueLeft ==
    ASSUME NEW x, x.dly \in Seq(Task), NEW l, Timed(x, l), NEW n \in 0 .. Len(x.dly)
    PROVE  Due(x, n) = IF n = 0 THEN 0 ELSE l[x.dly[n]]
<1> DEFINE Loop(g, m) == g = [j \in 0 .. m |-> IF j = 0 THEN 0 ELSE g[j - 1] + x.tick[x.dly[j]]]
           h == CHOOSE g : Loop(g, n)
<1>1. n \in Nat /\ Len(x.dly) \in Nat /\ DOMAIN x.dly = 1 .. Len(x.dly)
  BY LenProperties
<1>2. Due(x, n) = h[n]
  BY DEF Due
<1>3. \E g : Loop(g, n)
  <2> DEFINE I == {m \in 0 .. n : \E g : Loop(g, m)}
  <2>1. 0 \in I
    <3>1. Loop([i \in 0 .. 0 |-> 0], 0)
      OBVIOUS
    <3> HIDE DEF Loop
    <3> QED BY <1>1, <3>1
  <2>2. ASSUME NEW m \in 0 .. n - 1, m \in I PROVE m + 1 \in I
    <3>1. PICK g : Loop(g, m)
      BY <2>2
    <3> DEFINE gg == [i \in 0 .. m + 1 |-> IF i <= m THEN g[i] ELSE g[m] + x.tick[x.dly[m + 1]]]
    <3>2. Loop(gg, m + 1)
      BY <1>1, <3>1
    <3> HIDE DEF Loop, gg
    <3> QED BY <1>1, <3>2
  <2> HIDE DEF I
  <2>3. n \in I
    BY <1>1, <2>1, <2>2, Rounds
  <2> QED BY <2>3 DEF I
<1>4. Loop(h, n)
  BY <1>3
<1> HIDE DEF h
<1> DEFINE I == {i \in 0 .. n : h[i] = IF i = 0 THEN 0 ELSE l[x.dly[i]]}
<1>5. 0 \in I
  BY <1>1, <1>4
<1>6. ASSUME NEW i \in 0 .. n - 1, i \in I PROVE i + 1 \in I
  <2>1. h[i + 1] = h[i] + x.tick[x.dly[i + 1]] /\ i + 1 \in DOMAIN x.dly
    BY <1>1, <1>4
  <2>2. x.tick[x.dly[i + 1]] = l[x.dly[i + 1]] - (IF i + 1 = 1 THEN 0 ELSE l[x.dly[i]])
    BY <1>1, <2>1 DEF Timed
  <2>3. l[x.dly[i + 1]] \in Nat /\ (i # 0 => l[x.dly[i]] \in Nat)
    <3>1. x.dly[i + 1] \in Task /\ (i # 0 => x.dly[i] \in Task)
      BY <1>1, <2>1, ElementOfSeq
    <3> QED BY <3>1, Range32 DEF Timed
  <2> QED BY <1>1, <1>6, <2>1, <2>2, <2>3
<1> HIDE DEF I
<1>7. n \in I
  BY <1>1, <1>5, <1>6, Rounds
<1> QED BY <1>2, <1>7 DEF I

\* CoTickDelay and CoResetTaskDelayTick: the task takes its place in the
\* delay list.
LEMMA DelayIn ==
    ASSUME NEW x, Typed(x), NEW t \in Task, Placed(x, {}), NEW l, Timed(x, l), NEW n \in 1 .. Short,
           x.st[t] # "READY", x.tick[t] = Invalid, t \notin ToSet(x.free),
           \A m \in Mutex : t \notin ToSet(x.mx[m].list)
    PROVE  LET y == InsertDelayList(x, t, n)
           IN /\ Typed(y) /\ Placed(y, {}) /\ Frame(x, y) /\ Timed(y, [l EXCEPT ![t] = n])
              /\ y.st = [x.st EXCEPT ![t] = "WAITING"]
              /\ y.prio = x.prio /\ y.mx = x.mx /\ y.req = TRUE
<1> DEFINE s == x.dly
           L(i) == l[s[i]]
           later == {i \in DOMAIN s : Signed(n - Due(x, i)) < 0}
           pos == IF later = {} THEN Len(s) + 1 ELSE CHOOSE i \in later : \A j \in later : i <= j
           own == IF later = {} THEN Unsigned(n - Due(x, Len(s)))
                                ELSE Unsigned(x.tick[s[pos]] + Signed(n - Due(x, pos)))
           tick == [u \in Task |-> CASE u = t -> own
                                     [] later # {} /\ u = s[pos] -> Unsigned(x.tick[u] - own)
                                     [] OTHER -> x.tick[u]]
           list == InsertAt(s, pos, t)
           intact == x.intact /\ t \notin Linked(x)
           y == InsertDelayList(x, t, n)
<1>1. KType(x) /\ s \in Seq(Task)
  BY DEF Typed, KType
<1>2. KType(y)
  BY <1>1, InsertDelayKept DEF Kept
<1>3. n # 0 /\ n \in Nat /\ n <= Short
  BY Range32
<1>4. y = [x EXCEPT !.dly = list, !.tick = tick, !.st[t] = "WAITING", !.req = TRUE, !.intact = intact]
  BY <1>3 DEF InsertDelayList
<1>5. /\ Len(s) \in Nat /\ DOMAIN s = 1 .. Len(s)
      /\ \A i \in 1 .. Len(s) : s[i] \in Task /\ L(i) \in 0 .. Short
  BY <1>1, LenProperties, ElementOfSeq DEF Timed
<1>6. \A i \in 1 .. Len(s) : Due(x, i) = L(i)
  <2> TAKE i \in 1 .. Len(s)
  <2>1. i \in 0 .. Len(s) /\ i # 0
    BY <1>5
  <2> QED BY <1>1, <2>1, DueLeft
<1>7. Due(x, 0) = 0
  <2>1. 0 \in 0 .. Len(s)
    BY <1>5
  <2> QED BY <1>1, <2>1, DueLeft
<1>8. \A i \in 1 .. Len(s) : Signed(n - Due(x, i)) = n - L(i)
  <2> TAKE i \in 1 .. Len(s)
  <2>1. n - L(i) \in -Short .. Short
    BY <1>3, <1>5, Range32
  <2> QED BY <1>6, <2>1, ShortSigned
<1>9. later = {i \in 1 .. Len(s) : n < L(i)}
  <2> HIDE DEF L
  <2>1. \A i \in 1 .. Len(s) : Signed(n - Due(x, i)) < 0 <=> n < L(i)
    BY <1>3, <1>5, <1>8, Range32
  <2> QED BY <1>5, <2>1
<1>10. \A i, j \in 1 .. Len(s) : i <= j => L(i) <= L(j)
  <2> SUFFICES ASSUME NEW i \in 1 .. Len(s), NEW j \in 1 .. Len(s), i <= j PROVE L(i) <= L(j)
    OBVIOUS
  <2>1. CASE i < j
    BY <1>5, <2>1 DEF Timed
  <2>2. CASE i = j
    BY <1>5, <2>2, Range32
  <2> QED BY <1>5, <2>1, <2>2
<1> HIDE DEF L, s, y, list, tick, own, later
<1>11. /\ pos \in 1 .. Len(s) + 1
       /\ \A i \in 1 .. Len(s) : i < pos => L(i) <= n
       /\ \A i \in 1 .. Len(s) : i >= pos => n < L(i)
       /\ later = {} <=> pos = Len(s) + 1
  <2>1. CASE later = {}
    <3>1. pos = Len(s) + 1
      BY <2>1
    <3> HIDE DEF pos
    <3>2. \A i \in 1 .. Len(s) : ~(n < L(i))
      BY <1>9, <2>1
    <3> QED BY <1>3, <1>5, <2>1, <3>1, <3>2, Range32
  <2>2. CASE later # {}
    <3>1. \E i \in later : \A j \in later : i <= j
      <4>1. later \in SUBSET Nat
        BY <1>5, <1>9
      <4> QED BY <2>2, <4>1, Least
    <3>2. pos \in later /\ \A j \in later : pos <= j
      BY <2>2, <3>1
    <3> HIDE DEF pos
    <3> QED BY <1>3, <1>5, <1>9, <1>10, <2>2, <3>2, Range32
  <2> QED BY <2>1, <2>2
<1> HIDE DEF pos
<1> DEFINE before == IF pos = 1 THEN 0 ELSE L(pos - 1)
<1>12. before \in 0 .. Short /\ before <= n
  <2>1. pos # 1 => pos - 1 \in 1 .. Len(s) /\ pos - 1 < pos
    BY <1>5, <1>11
  <2> QED BY <1>3, <1>5, <1>11, <2>1, Range32
<1>13. own = n - before /\ own \in 0 .. Short
  <2>1. n - before \in 0 .. Short /\ Unsigned(n - before) = n - before
    BY <1>3, <1>12, Range32, ShortUnsigned
  <2>2. CASE pos = Len(s) + 1
    <3>1. Due(x, Len(s)) = before
      BY <1>5, <1>6, <1>7, <2>2
    <3> QED BY <1>11, <2>1, <2>2, <3>1 DEF own
  <2>3. CASE pos # Len(s) + 1
    <3>1. pos \in 1 .. Len(s)
      BY <1>5, <1>11, <2>3
    <3>2. x.tick[s[pos]] = L(pos) - before
      <4>1. pos \in DOMAIN x.dly
        BY <1>5, <3>1 DEF s
      <4> QED BY <4>1 DEF Timed, s, L
    <3>3. x.tick[s[pos]] + Signed(n - Due(x, pos)) = n - before
      <4>1. Signed(n - Due(x, pos)) = n - L(pos) /\ L(pos) \in Nat /\ before \in Nat
        BY <1>5, <1>8, <1>12, <3>1, Range32
      <4> QED BY <1>3, <3>2, <4>1
    <3> QED BY <1>11, <2>1, <2>3, <3>3 DEF own
  <2> QED BY <2>1, <2>2, <2>3
<1>14. t \notin ToSet(s)
  BY DEF Placed, s
<1>15. /\ list \in Seq(Task) /\ Len(list) = Len(s) + 1
       /\ \A j \in 1 .. Len(s) + 1 :
            list[j] = IF j < pos THEN s[j] ELSE IF j = pos THEN t ELSE s[j - 1]
       /\ IsInjective(list) /\ ToSet(list) = ToSet(s) \cup {t}
  <2>1. IsInjective(s)
    BY DEF Placed, s
  <2> QED BY <1>1, <1>11, <1>14, <2>1, Inserted DEF list
<1>16. \A i \in 1 .. Len(s) : s[i] # t /\ \A j \in 1 .. Len(s) : s[i] = s[j] => i = j
  <2>1. IsInjective(s)
    BY DEF Placed, s
  <2> QED BY <1>5, <1>14, <2>1 DEF IsInjective, ToSet
<1>17. \A u \in Task : tick[u] = IF u = t THEN own
                                 ELSE IF pos # Len(s) + 1 /\ u = s[pos] THEN L(pos) - n
                                 ELSE x.tick[u]
  <2> TAKE u \in Task
  <2>1. CASE u # t /\ pos # Len(s) + 1 /\ u = s[pos]
    <3>1. pos \in 1 .. Len(s)
      BY <1>5, <1>11, <2>1
    <3>2. x.tick[s[pos]] = L(pos) - before
      <4>1. pos \in DOMAIN x.dly
        BY <1>5, <3>1 DEF s
      <4> QED BY <4>1 DEF Timed, s, L
    <3>3. x.tick[u] - own = L(pos) - n /\ L(pos) - n \in 0 .. Short
      <4>1. L(pos) \in 0 .. Short /\ n < L(pos)
        BY <1>5, <1>11, <3>1
      <4> QED BY <1>3, <1>12, <1>13, <2>1, <3>2, <4>1, Range32
    <3>4. Unsigned(L(pos) - n) = L(pos) - n
      BY <3>3, ShortUnsigned
    <3> QED BY <1>11, <2>1, <3>3, <3>4 DEF tick
  <2>2. CASE u = t
    <3>1. ~(later # {} /\ u = s[pos])
      BY <1>5, <1>11, <1>16, <2>2
    <3> QED BY <2>2, <3>1 DEF tick
  <2>3. CASE u # t /\ ~(pos # Len(s) + 1 /\ u = s[pos])
    BY <1>11, <2>3 DEF tick
  <2> QED BY <2>1, <2>2, <2>3
<1>18. \A u \in Task : tick[u] \in 0 .. Invalid /\ (tick[u] # Invalid <=> u = t \/ x.tick[u] # Invalid)
  <2> TAKE u \in Task
  <2>1. CASE u = t
    BY <1>13, <1>17, <2>1, Range32
  <2>2. CASE u # t /\ pos # Len(s) + 1 /\ u = s[pos]
    <3>1. pos \in 1 .. Len(s) /\ L(pos) \in 0 .. Short /\ n < L(pos)
      BY <1>5, <1>11, <2>2
    <3>2. x.tick[u] # Invalid
      <4>1. u \in ToSet(s)
        BY <1>5, <2>2, <3>1 DEF ToSet
      <4> QED BY <4>1 DEF Placed, s
    <3> QED BY <1>3, <1>17, <2>2, <3>1, <3>2, Range32
  <2>3. CASE u # t /\ ~(pos # Len(s) + 1 /\ u = s[pos])
    BY <1>17, <2>3 DEF Typed
  <2> QED BY <2>1, <2>2, <2>3
<1>19. intact
  BY DEF Linked, Placed
<1>20. /\ y.st = [x.st EXCEPT ![t] = "WAITING"] /\ y.rdy = x.rdy /\ y.req = TRUE /\ y.slice = x.slice
       /\ y.intact = intact /\ y.tick = tick /\ y.dly = list /\ y.prio = x.prio
       /\ y.mx = x.mx /\ Frame(x, y)
  BY <1>1, <1>4 DEF KType, Fields, Frame
<1> HIDE DEF intact
<1>21. Typed(y)
  <2>1. tick \in [Task -> 0 .. Invalid]
    BY <1>18 DEF tick
  <2> QED BY <1>2, <1>20, <2>1 DEF Typed, Frame
<1>22. Placed(y, {})
  <2>1. \A u \in Task : y.st[u] = IF u = t THEN "WAITING" ELSE x.st[u]
    BY <1>1, <1>20 DEF KType
  <2>2. ToSet(y.rdy) = {u \in Task : y.st[u] = "READY"}
    BY <1>20, <2>1 DEF Placed
  <2>3. ToSet(y.dly) = {u \in Task : y.tick[u] # Invalid}
    BY <1>15, <1>18, <1>20 DEF Placed, s
  <2>4. ToSet(x.free) \subseteq Task /\ \A m \in Mutex : ToSet(x.mx[m].list) \subseteq Task
    BY <1>1, Elements DEF KType, MutexType
  <2>5. /\ IsInjective(y.rdy) /\ IsInjective(y.dly) /\ IsInjective(y.free) /\ y.intact
        /\ \A m \in Mutex : IsInjective(y.mx[m].list)
    BY <1>15, <1>19, <1>20 DEF Placed, Frame
  <2>6. \A u \in Task : y.tick[u] # Invalid => y.st[u] = "WAITING"
    BY <1>18, <1>20, <2>1 DEF Placed
  <2>7. \A u \in ToSet(y.free) : y.st[u] = "DORMANT"
    BY <1>20, <2>1, <2>4 DEF Placed, Frame
  <2>8. ASSUME NEW m \in Mutex, NEW u \in ToSet(y.mx[m].list)
        PROVE  y.st[u] = "WAITING" /\ y.tick[u] = Invalid /\ y.mid[u] = m
    <3>1. u \in ToSet(x.mx[m].list) /\ u \in Task /\ u # t /\ y.mid = x.mid
      BY <1>20, <2>4, <2>8 DEF Frame
    <3> QED BY <1>18, <1>20, <2>1, <3>1 DEF Placed
  <2> QED BY <2>2, <2>3, <2>5, <2>6, <2>7, <2>8 DEF Placed
<1>23. Timed(y, [l EXCEPT ![t] = n])
  <2> DEFINE ll == [l EXCEPT ![t] = n]
             K(j) == ll[list[j]]
  <2>1. ll \in [Task -> 0 .. Short] /\ \A u \in Task : ll[u] = IF u = t THEN n ELSE l[u]
    BY <1>3 DEF Timed
  <2>2. \A j \in 1 .. Len(s) + 1 : K(j) = IF j < pos THEN L(j) ELSE IF j = pos THEN n ELSE L(j - 1)
    <3> TAKE j \in 1 .. Len(s) + 1
    <3>1. CASE j < pos
      <4>1. j \in 1 .. Len(s) /\ list[j] = s[j]
        BY <1>5, <1>11, <1>15, <3>1
      <4> QED BY <1>5, <1>16, <2>1, <3>1, <4>1 DEF L
    <3>2. CASE j = pos
      BY <1>15, <2>1, <3>2
    <3>3. CASE j > pos
      <4>1. j - 1 \in 1 .. Len(s) /\ list[j] = s[j - 1]
        BY <1>5, <1>11, <1>15, <3>3
      <4> QED BY <1>5, <1>11, <1>16, <2>1, <3>3, <4>1 DEF L
    <3> QED BY <1>5, <1>11, <3>1, <3>2, <3>3
  <2> HIDE DEF ll, K
  <2>3. ASSUME NEW i \in 1 .. Len(s) + 1, NEW j \in 1 .. Len(s) + 1, i < j
        PROVE  K(i) <= K(j)
    <3>1. (i < pos => i \in 1 .. Len(s)) /\ (i > pos => i - 1 \in 1 .. Len(s))
      BY <1>5, <1>11
    <3>2. (j < pos => j \in 1 .. Len(s)) /\ (j > pos => j - 1 \in 1 .. Len(s))
      BY <1>5, <1>11
    <3>3. CASE j < pos
      BY <1>5, <1>10, <1>11, <2>2, <2>3, <3>1, <3>2, <3>3
    <3>4. CASE j = pos
      BY <1>5, <1>11, <2>2, <2>3, <3>1, <3>4
    <3>5. CASE j > pos /\ i <= pos
      <4>1. n < L(j - 1) /\ n \in Nat /\ L(j - 1) \in 0 .. Short
        BY <1>3, <1>5, <1>11, <3>2, <3>5
      <4>2. i < pos => L(i) <= n /\ L(i) \in 0 .. Short
        BY <1>5, <1>11, <3>1
      <4> QED BY <1>5, <1>11, <2>2, <3>5, <4>1, <4>2, Range32
    <3>6. CASE j > pos /\ i > pos
      BY <1>5, <1>10, <1>11, <2>2, <2>3, <3>1, <3>2, <3>6
    <3> QED BY <1>5, <1>11, <3>3, <3>4, <3>5, <3>6
  <2>4. ASSUME NEW j \in 1 .. Len(s) + 1
        PROVE  tick[list[j]] = K(j) - (IF j = 1 THEN 0 ELSE K(j - 1))
    <3>1. CASE j < pos
      <4>1. /\ j \in 1 .. Len(s) /\ list[j] = s[j] /\ s[j] \in Task /\ s[j] # t
            /\ pos # Len(s) + 1 => pos \in 1 .. Len(s) /\ s[j] # s[pos]
        BY <1>5, <1>11, <1>15, <1>16, <3>1
      <4>2. tick[list[j]] = x.tick[s[j]]
        BY <1>17, <4>1
      <4>3. x.tick[s[j]] = L(j) - (IF j = 1 THEN 0 ELSE L(j - 1))
        BY <1>5, <4>1 DEF Timed, s, L
      <4>4. K(j) = L(j) /\ (j # 1 => K(j - 1) = L(j - 1))
        BY <1>5, <1>11, <2>2, <3>1
      <4> QED BY <4>2, <4>3, <4>4
    <3>2. CASE j = pos
      <4>1. list[j] = t /\ tick[list[j]] = n - before
        BY <1>13, <1>15, <1>17, <3>2
      <4>2. K(j) = n /\ (j # 1 => j - 1 \in 1 .. Len(s) + 1 /\ K(j - 1) = L(j - 1))
        BY <1>5, <1>11, <2>2, <3>2
      <4> QED BY <3>2, <4>1, <4>2
    <3>3. CASE j = pos + 1
      <4>1. pos \in 1 .. Len(s) /\ pos # Len(s) + 1 /\ list[j] = s[pos] /\ s[pos] \in Task /\ s[pos] # t
        BY <1>5, <1>11, <1>15, <1>16, <3>3
      <4>2. tick[list[j]] = L(pos) - n
        BY <1>17, <4>1
      <4>3. K(j) = L(pos) /\ j # 1 /\ K(j - 1) = n
        BY <1>5, <1>11, <2>2, <3>3, <4>1
      <4> QED BY <4>2, <4>3
    <3>4. CASE j > pos + 1
      <4>1. /\ j - 1 \in 1 .. Len(s) /\ list[j] = s[j - 1] /\ s[j - 1] \in Task /\ s[j - 1] # t
            /\ pos \in 1 .. Len(s) /\ s[j - 1] # s[pos] /\ j - 1 # 1
        BY <1>5, <1>11, <1>15, <1>16, <3>4
      <4>2. tick[list[j]] = x.tick[s[j - 1]]
        BY <1>17, <4>1
      <4>3. x.tick[s[j - 1]] = L(j - 1) - L((j - 1) - 1)
        BY <1>5, <4>1 DEF Timed, s, L
      <4>4. K(j) = L(j - 1) /\ K(j - 1) = L((j - 1) - 1) /\ j # 1
        BY <1>5, <1>11, <2>2, <3>4
      <4> QED BY <4>2, <4>3, <4>4
    <3> QED BY <1>5, <1>11, <3>1, <3>2, <3>3, <3>4
  <2>5. y.dly = list /\ y.tick = tick /\ DOMAIN list = 1 .. Len(s) + 1
    BY <1>15, <1>20, LenProperties
  <2>6. Timed(y, ll)
    BY <2>1, <2>3, <2>4, <2>5 DEF Timed, K
  <2> QED BY <2>6 DEF ll
<1> QED BY <1>20, <1>21, <1>22, <1>23 DEF y

\* A task leaves the delay list before its delay is over.
LEMMA DelayOut ==
    ASSUME NEW x, Typed(x), NEW t \in Task, Placed(x, {}), NEW l, Timed(x, l), x.tick[t] # Invalid
    PROVE  LET y == RemoveDelayList(x, t)
           IN /\ Typed(y) /\ Placed(y, {}) /\ Frame(x, y) /\ Timed(y, l)
              /\ y.st = x.st /\ y.tick[t] = Invalid
              /\ y.prio = x.prio /\ y.mx = x.mx /\ y.req = x.req
<1> DEFINE s == x.dly
           n == Len(s)
           L(i) == l[s[i]]
           pos == PlaceOf(s, t)
           list == RemoveAt(s, pos)
           tick == [u \in Task |-> CASE u = t -> Invalid
                                     [] pos \in 1 .. (Len(s) - 1) /\ u = s[pos + 1]
                                          -> Unsigned(x.tick[u] + x.tick[t])
                                     [] OTHER -> x.tick[u]]
           y == RemoveDelayList(x, t)
<1>1. KType(x) /\ s \in Seq(Task) /\ IsInjective(s)
  BY DEF Typed, KType, Placed
<1>2. KType(y)
  BY <1>1, RemoveDelayKept DEF Kept
<1>3. t \in ToSet(s)
  BY DEF Placed
<1>4. pos \in 1 .. n /\ s[pos] = t
  BY <1>1, <1>3, FoundPlace
<1>5. /\ n \in Nat /\ DOMAIN s = 1 .. n
      /\ \A i \in 1 .. n : s[i] \in Task /\ L(i) \in 0 .. Short
  BY <1>1, LenProperties, ElementOfSeq DEF Timed
<1>6. y = [x EXCEPT !.dly = Unlinked(s, t), !.tick = tick, !.intact = @ /\ pos # 0]
  BY DEF RemoveDelayList
<1>7. Unlinked(s, t) = list
  BY <1>4, <1>5 DEF Unlinked
<1>8. IsInjective(list) /\ ToSet(list) = ToSet(s) \ {t}
  <2> HIDE DEF list, pos
  <2> QED BY <1>1, <1>7, UnlinkedOnce
<1>9. /\ list \in Seq(Task) /\ Len(list) = n - 1
      /\ \A j \in 1 .. n - 1 : list[j] = IF j < pos THEN s[j] ELSE s[j + 1]
  <2> HIDE DEF pos
  <2> QED BY <1>1, <1>4, Removed
<1>10. \A i, j \in 1 .. n : (s[i] = s[j] => i = j) /\ (i < j => L(i) <= L(j))
  <2>1. \A i, j \in 1 .. n : s[i] = s[j] => i = j
    BY <1>1, <1>5 DEF IsInjective
  <2>2. \A i, j \in 1 .. n : i < j => L(i) <= L(j)
    BY <1>5 DEF Timed
  <2> QED BY <2>1, <2>2
<1>11. \A i \in 1 .. n : x.tick[s[i]] = L(i) - (IF i = 1 THEN 0 ELSE L(i - 1))
  BY <1>5 DEF Timed
<1> HIDE DEF pos, list, tick, y, L, s, n
<1> DEFINE before == IF pos = 1 THEN 0 ELSE L(pos - 1)
<1>12. before \in 0 .. Short /\ (pos < n => before <= L(pos + 1))
  <2>1. /\ pos # 1 => pos - 1 \in 1 .. n
        /\ pos < n => pos + 1 \in 1 .. n
    BY <1>4, <1>5
  <2> QED BY <1>4, <1>5, <1>10, <2>1, Range32
<1>13. \A u \in Task : tick[u] = IF u = t THEN Invalid
                                 ELSE IF pos < n /\ u = s[pos + 1] THEN L(pos + 1) - before
                                 ELSE x.tick[u]
  <2> TAKE u \in Task
  <2>1. CASE u = t
    <3>1. ~(pos \in 1 .. n - 1 /\ u = s[pos + 1])
      <4>1. pos < n => pos + 1 \in 1 .. n /\ pos + 1 # pos
        BY <1>4, <1>5
      <4> QED BY <1>4, <1>5, <1>10, <2>1, <4>1
    <3> QED BY <2>1, <3>1 DEF tick, n
  <2>2. CASE u # t /\ pos < n /\ u = s[pos + 1]
    <3>1. pos + 1 \in 1 .. n /\ pos + 1 # 1 /\ (pos + 1) - 1 = pos /\ pos \in 1 .. n - 1
      BY <1>4, <1>5, <2>2
    <3>2. x.tick[u] = L(pos + 1) - L(pos) /\ x.tick[t] = L(pos) - before
      BY <1>4, <1>11, <2>2, <3>1
    <3>3. /\ L(pos + 1) - before \in 0 .. Short
          /\ x.tick[u] + x.tick[t] = L(pos + 1) - before
      <4>1. L(pos + 1) \in 0 .. Short /\ L(pos) \in 0 .. Short
        BY <1>4, <1>5, <3>1
      <4> QED BY <1>12, <2>2, <3>2, <4>1, Range32
    <3>4. Unsigned(L(pos + 1) - before) = L(pos + 1) - before
      BY <3>3, ShortUnsigned
    <3> QED BY <2>2, <3>1, <3>3, <3>4 DEF tick, n
  <2>3. CASE u # t /\ ~(pos < n /\ u = s[pos + 1])
    <3>1. ~(pos \in 1 .. n - 1 /\ u = s[pos + 1])
      BY <1>4, <1>5, <2>3
    <3> QED BY <2>3, <3>1 DEF tick, n
  <2> QED BY <2>1, <2>2, <2>3
<1>14. \A u \in Task : tick[u] \in 0 .. Invalid /\ (tick[u] # Invalid <=> u # t /\ x.tick[u] # Invalid)
  <2> TAKE u \in Task
  <2>1. CASE u = t
    BY <1>13, <2>1, Range32
  <2>2. CASE u # t /\ pos < n /\ u = s[pos + 1]
    <3>1. pos + 1 \in 1 .. n
      BY <1>4, <1>5, <2>2
    <3>2. x.tick[u] # Invalid
      <4>1. u \in ToSet(s)
        BY <1>5, <2>2, <3>1 DEF ToSet
      <4> QED BY <4>1 DEF Placed, s
    <3>3. L(pos + 1) \in 0 .. Short
      BY <1>5, <3>1
    <3> QED BY <1>12, <1>13, <2>2, <3>2, <3>3, Range32
  <2>3. CASE u # t /\ ~(pos < n /\ u = s[pos + 1])
    BY <1>13, <2>3 DEF Typed
  <2> QED BY <2>1, <2>2, <2>3
<1>15. /\ y.st = x.st /\ y.rdy = x.rdy /\ y.req = x.req /\ y.slice = x.slice
       /\ y.intact = (x.intact /\ pos # 0) /\ y.tick = tick /\ y.dly = list /\ y.prio = x.prio
       /\ y.mx = x.mx /\ Frame(x, y)
  BY <1>1, <1>6, <1>7 DEF KType, Fields, Frame
<1>16. Typed(y)
  <2>1. tick \in [Task -> 0 .. Invalid]
    BY <1>14 DEF tick
  <2> QED BY <1>2, <1>15, <2>1 DEF Typed, Frame
<1>17. Placed(y, {})
  <2>1. y.intact
    <3>1. x.intact /\ pos # 0
      BY <1>4 DEF Placed
    <3> QED BY <1>15, <3>1
  <2>2. ToSet(y.dly) = {u \in Task : y.tick[u] # Invalid}
    BY <1>8, <1>14, <1>15 DEF Placed, s
  <2>3. ToSet(x.free) \subseteq Task /\ \A m \in Mutex : ToSet(x.mx[m].list) \subseteq Task
    BY <1>1, Elements DEF KType, MutexType
  <2>4. ASSUME NEW m \in Mutex, NEW u \in ToSet(y.mx[m].list)
        PROVE  y.st[u] = "WAITING" /\ y.tick[u] = Invalid /\ y.mid[u] = m
    <3>1. u \in ToSet(x.mx[m].list) /\ u \in Task /\ y.mid = x.mid
      BY <1>15, <2>3, <2>4 DEF Frame
    <3> QED BY <1>14, <1>15, <3>1 DEF Placed
  <2>5. /\ IsInjective(y.rdy) /\ IsInjective(y.dly) /\ IsInjective(y.free)
        /\ \A m \in Mutex : IsInjective(y.mx[m].list)
        /\ ToSet(y.rdy) = {u \in Task : y.st[u] = "READY"} \ {}
        /\ \A u \in Task : y.tick[u] # Invalid => y.st[u] = "WAITING"
        /\ \A u \in ToSet(y.free) : y.st[u] = "DORMANT"
    BY <1>8, <1>14, <1>15 DEF Placed, Frame
  <2> QED BY <2>1, <2>2, <2>4, <2>5 DEF Placed
<1>18. Timed(y, l)
  <2> DEFINE K(j) == l[list[j]]
  <2>1. \A j \in 1 .. n - 1 : K(j) = IF j < pos THEN L(j) ELSE L(j + 1)
    BY <1>9 DEF L
  <2> HIDE DEF K
  <2>2. ASSUME NEW i \in 1 .. n - 1, NEW j \in 1 .. n - 1, i < j PROVE K(i) <= K(j)
    <3>1. i \in 1 .. n /\ j \in 1 .. n /\ i + 1 \in 1 .. n /\ j + 1 \in 1 .. n
      BY <1>5
    <3>2. CASE i < pos
      BY <1>4, <1>5, <1>10, <2>1, <2>2, <3>1, <3>2
    <3>3. CASE i >= pos
      BY <1>4, <1>5, <1>10, <2>1, <2>2, <3>1, <3>3
    <3> QED BY <1>4, <1>5, <3>2, <3>3
  <2>3. ASSUME NEW j \in 1 .. n - 1
        PROVE  tick[list[j]] = K(j) - (IF j = 1 THEN 0 ELSE K(j - 1))
    <3>1. CASE j < pos
      <4>1. /\ j \in 1 .. n /\ list[j] = s[j] /\ s[j] \in Task /\ s[j] # t
            /\ pos < n => pos + 1 \in 1 .. n /\ s[j] # s[pos + 1]
        BY <1>4, <1>5, <1>9, <1>10, <3>1
      <4>2. tick[list[j]] = x.tick[s[j]]
        BY <1>13, <4>1
      <4>3. K(j) = L(j) /\ (j # 1 => K(j - 1) = L(j - 1))
        BY <1>4, <1>5, <2>1, <3>1
      <4> QED BY <1>11, <4>1, <4>2, <4>3
    <3>2. CASE j = pos
      <4>1. pos < n /\ pos + 1 \in 1 .. n /\ list[j] = s[pos + 1] /\ s[pos + 1] \in Task /\ s[pos + 1] # t
        BY <1>4, <1>5, <1>9, <1>10, <3>2
      <4>2. tick[list[j]] = L(pos + 1) - before
        BY <1>13, <4>1
      <4>3. K(j) = L(pos + 1) /\ (j # 1 => K(j - 1) = L(pos - 1))
        BY <1>4, <1>5, <2>1, <3>2
      <4> QED BY <3>2, <4>2, <4>3
    <3>3. CASE j > pos
      <4>1. /\ j + 1 \in 1 .. n /\ list[j] = s[j + 1] /\ s[j + 1] \in Task /\ s[j + 1] # t
            /\ pos < n /\ pos + 1 \in 1 .. n /\ s[j + 1] # s[pos + 1]
            /\ j # 1 /\ j + 1 # 1 /\ (j + 1) - 1 = j
        BY <1>4, <1>5, <1>9, <1>10, <3>3
      <4>2. tick[list[j]] = x.tick[s[j + 1]]
        BY <1>13, <4>1
      <4>3. K(j) = L(j + 1) /\ K(j - 1) = L(j)
        <5>1. j - 1 \in 1 .. n - 1 /\ ~(j - 1 < pos) /\ (j - 1) + 1 = j /\ ~(j < pos)
          BY <1>4, <1>5, <3>3
        <5> QED BY <2>1, <5>1
      <4>4. x.tick[s[j + 1]] = L(j + 1) - L(j)
        BY <1>11, <4>1
      <4> QED BY <4>1, <4>2, <4>3, <4>4
    <3> QED BY <1>4, <1>5, <3>1, <3>2, <3>3
  <2>4. y.dly = list /\ y.tick = tick /\ DOMAIN list = 1 .. n - 1
    BY <1>9, <1>15, LenProperties
  <2>5. l \in [Task -> 0 .. Short]
    BY DEF Timed
  <2> QED BY <2>2, <2>3, <2>4, <2>5 DEF Timed, K
<1> QED BY <1>13, <1>15, <1>16, <1>17, <1>18 DEF y

LEMMA NotReady ==
    ASSUME NEW x, NEW t \in Task, Placed(x, {}), x.st[t] # "READY"
    PROVE  Placed(x, {t})
BY DEF Placed

\* The delay of the first task is over.
LEMMA Expired ==
    ASSUME NEW x, Typed(x), Placed(x, {}), NEW l, Timed(x, l), x.dly # << >>, x.tick[x.dly[1]] = 0
    PROVE  LET t == x.dly[1]
               y == Expire(x, t)
           IN /\ Typed(y) /\ Placed(y, {}) /\ Frame(x, y) /\ Timed(y, l)
              /\ t \in Task /\ x.st[t] = "WAITING"
              /\ y.st = [x.st EXCEPT ![t] = "READY"] /\ y.tick = [x.tick EXCEPT ![t] = Invalid]
              /\ y.dly = Tail(x.dly) /\ y.prio = x.prio /\ y.mx = x.mx
              /\ x.req => y.req
<1> DEFINE t == x.dly[1]
           k1 == [x EXCEPT !.tick[t] = Invalid, !.dly = Tail(@)]
<1>1. KType(x) /\ x.dly \in Seq(Task) /\ IsInjective(x.dly)
  BY DEF Typed, KType, Placed
<1>2. /\ Head(x.dly) = t /\ t \in ToSet(x.dly)
      /\ Tail(x.dly) \in Seq(Task) /\ IsInjective(Tail(x.dly))
      /\ ToSet(Tail(x.dly)) = ToSet(x.dly) \ {t}
      /\ Len(Tail(x.dly)) = Len(x.dly) - 1
      /\ \A i \in 1 .. Len(x.dly) - 1 : Tail(x.dly)[i] = x.dly[i + 1]
  BY <1>1, HeadOnce
<1>3. t \in Task /\ x.tick[t] # Invalid /\ x.st[t] = "WAITING"
  BY <1>2 DEF Placed
<1>4. x.ev[t] = InvalidId /\ ~Pnode(x, t)
  <2>1. ToSet(x.flg.list) = {}
    BY DEF Typed, ToSet
  <2> QED BY <1>3, <2>1 DEF Typed, Pnode
<1>5. Expire(x, t) = InsertToTCBRdyList(k1, t)
  BY <1>4 DEF Expire
<1> HIDE DEF t
<1>6. /\ k1.st = x.st /\ k1.rdy = x.rdy /\ k1.req = x.req /\ k1.slice = x.slice /\ k1.intact = x.intact
      /\ k1.tick = [x.tick EXCEPT ![t] = Invalid] /\ k1.dly = Tail(x.dly) /\ k1.prio = x.prio
      /\ k1.mx = x.mx /\ Frame(x, k1) /\ KType(k1)
  BY <1>1, <1>2 DEF KType, Fields, Frame
<1> HIDE DEF k1
<1>7. \A u \in Task : k1.tick[u] = IF u = t THEN Invalid ELSE x.tick[u]
  BY <1>6 DEF Typed
<1>8. Typed(k1)
  <2>1. k1.tick \in [Task -> 0 .. Invalid]
    <3>1. Invalid \in 0 .. Invalid
      BY Range32
    <3> QED BY <1>6, <3>1 DEF Typed
  <2> QED BY <1>6, <2>1 DEF Typed, Frame
<1>9. Placed(k1, {})
  <2>1. \A m \in Mutex : ToSet(x.mx[m].list) \subseteq Task
    BY <1>1, Elements DEF KType, MutexType
  <2>2. ToSet(k1.dly) = {u \in Task : k1.tick[u] # Invalid}
    BY <1>2, <1>6, <1>7 DEF Placed
  <2> QED BY <1>2, <1>6, <1>7, <2>1, <2>2 DEF Placed, Frame
<1>10. Timed(k1, l)
  <2> DEFINE n == Len(x.dly)
  <2>1. n \in Nat \ {0} /\ DOMAIN x.dly = 1 .. n /\ DOMAIN k1.dly = 1 .. n - 1
    <3>1. n \in Nat \ {0} /\ DOMAIN x.dly = 1 .. n
      BY <1>1, Elements
    <3> QED BY <1>2, <1>6, <3>1, LenProperties
  <2>2. \A i \in 1 .. n - 1 : k1.dly[i] = x.dly[i + 1] /\ i + 1 \in 1 .. n
    BY <1>2, <1>6, <2>1
  <2>3. /\ \A i, j \in 1 .. n : i < j => l[x.dly[i]] <= l[x.dly[j]]
        /\ \A i \in 1 .. n : x.tick[x.dly[i]] = l[x.dly[i]] - (IF i = 1 THEN 0 ELSE l[x.dly[i - 1]])
        /\ l \in [Task -> 0 .. Short]
    BY <2>1 DEF Timed
  <2> HIDE DEF n
  <2>4. l[t] = 0
    <3>1. 1 \in 1 .. n /\ l[t] \in 0 .. Short
      BY <1>3, <2>1, <2>3
    <3>2. x.tick[x.dly[1]] = l[x.dly[1]] - 0
      BY <2>3, <3>1
    <3> QED BY <3>1, <3>2, Range32 DEF t
  <2>5. ASSUME NEW i \in 1 .. n - 1
        PROVE  k1.tick[k1.dly[i]] = l[k1.dly[i]] - (IF i = 1 THEN 0 ELSE l[k1.dly[i - 1]])
    <3>1. i + 1 # 1 /\ (i + 1) - 1 = i /\ i + 1 \in 1 .. n /\ k1.dly[i] = x.dly[i + 1]
      BY <2>2
    <3>2. x.tick[x.dly[i + 1]] = l[x.dly[i + 1]] - l[x.dly[i]]
      BY <2>3, <3>1
    <3>3. x.dly[i + 1] \in Task /\ x.dly[i + 1] # t
      <4>1. x.dly[i + 1] \in ToSet(k1.dly)
        BY <2>1, <3>1 DEF ToSet
      <4> QED BY <1>2, <1>6, <4>1 DEF Placed
    <3>4. CASE i = 1
      <4>1. x.dly[i] = t
        BY <3>4 DEF t
      <4> QED BY <1>7, <2>4, <3>1, <3>2, <3>3, <3>4, <4>1
    <3>5. CASE i # 1
      <4>1. k1.dly[i - 1] = x.dly[i]
        BY <2>1, <2>2, <3>5
      <4> QED BY <1>7, <3>1, <3>2, <3>3, <3>5, <4>1
    <3> QED BY <3>4, <3>5
  <2>6. ASSUME NEW i \in 1 .. n - 1, NEW j \in 1 .. n - 1, i < j
        PROVE  l[k1.dly[i]] <= l[k1.dly[j]]
    <3>1. i + 1 \in 1 .. n /\ j + 1 \in 1 .. n /\ i + 1 < j + 1
      BY <2>1, <2>6
    <3>2. k1.dly[i] = x.dly[i + 1] /\ k1.dly[j] = x.dly[j + 1]
      BY <2>2
    <3> QED BY <2>3, <3>1, <3>2
  <2> QED BY <2>1, <2>3, <2>5, <2>6 DEF Timed
<1>11. t \notin ToSet(k1.free) /\ \A m \in Mutex : t \notin ToSet(k1.mx[m].list)
  BY <1>3, <1>6 DEF Placed, Frame
<1>12. Placed(k1, {t}) /\ k1.tick[t] = Invalid
  BY <1>3, <1>6, <1>7, <1>9, NotReady
<1> DEFINE y == InsertToTCBRdyList(k1, t)
<1>13. /\ Typed(y) /\ Placed(y, {}) /\ Frame(k1, y)
       /\ y.st = [k1.st EXCEPT ![t] = "READY"]
       /\ y.tick = k1.tick /\ y.dly = k1.dly /\ y.prio = k1.prio /\ y.mx = k1.mx
       /\ k1.req => y.req
  BY <1>3, <1>8, <1>11, <1>12, ReadyIn
<1> HIDE DEF y
<1>14. Timed(y, l)
  BY <1>10, <1>13 DEF Timed
<1>15. Frame(x, y)
  BY <1>6, <1>13, FrameTrans
<1> QED BY <1>3, <1>5, <1>6, <1>13, <1>14, <1>15 DEF y, t

\* What TimeDispose does to a kernel state x: delays end.
Advanced(x, y, l) ==
  /\ Typed(y) /\ Placed(y, {}) /\ Frame(x, y) /\ Timed(y, l)
  /\ y.mx = x.mx
  /\ \A t \in Task : y.st[t] # x.st[t] => x.st[t] = "WAITING" /\ y.st[t] = "READY"
  /\ x.req => y.req

LEMMA AdvancedSelf ==
    ASSUME NEW x, Typed(x), Placed(x, {}), NEW l, Timed(x, l)
    PROVE  Advanced(x, x, l)
<1>1. Frame(x, x)
  BY DEF Frame
<1> QED BY <1>1 DEF Advanced

LEMMA Disposed ==
    ASSUME NEW x, Typed(x), Placed(x, {}), NEW l, Timed(x, l)
    PROVE  Advanced(x, TimeDispose(x), l)
<1> DEFINE n == CHOOSE m \in 0 .. Len(x.dly) :
                  /\ \A i \in 1 .. m : x.tick[x.dly[i]] = 0
                  /\ m = Len(x.dly) \/ x.tick[x.dly[m + 1]] # 0
           s == SubSeq(x.dly, 1, n)
           Loop(g, m) == g = [i \in 0 .. m |-> IF i = 0 THEN x ELSE Expire(g[i - 1], s[i])]
           h == CHOOSE g : Loop(g, Len(s))
<1>1. x.dly \in Seq(Task) /\ Len(x.dly) \in Nat /\ IsInjective(x.dly) /\ DOMAIN x.dly = 1 .. Len(x.dly)
  BY LenProperties DEF Typed, KType, Placed
<1>2. n \in 0 .. Len(x.dly) /\ \A i \in 1 .. n : x.tick[x.dly[i]] = 0
  BY <1>1, ExpiredCount
<1>3. TimeDispose(x) = h[Len(s)]
  BY DEF TimeDispose, Each
<1> HIDE DEF n
<1>4. Len(s) = n /\ \A i \in 1 .. n : s[i] = x.dly[i]
  <2>1. \A i \in 1 .. n : x.dly[i] \in Task
    BY <1>1, <1>2, ElementOfSeq
  <2>2. Len(s) = n /\ \A i \in 1 .. n : s[i] = x.dly[1 + i - 1]
    BY <1>1, <1>2, <2>1, SubSeqProperties
  <2> HIDE DEF s
  <2> QED BY <1>2, <2>2
<1> HIDE DEF s
<1>5. \E g : Loop(g, n)
  <2> DEFINE I == {m \in 0 .. n : \E g : Loop(g, m)}
  <2>1. 0 \in I
    <3>1. Loop([i \in 0 .. 0 |-> x], 0)
      OBVIOUS
    <3> HIDE DEF Loop
    <3> QED BY <1>2, <3>1
  <2>2. ASSUME NEW m \in 0 .. n - 1, m \in I PROVE m + 1 \in I
    <3>1. PICK g : Loop(g, m)
      BY <2>2
    <3> DEFINE gg == [i \in 0 .. m + 1 |-> IF i <= m THEN g[i] ELSE Expire(g[m], s[m + 1])]
    <3>2. Loop(gg, m + 1)
      BY <1>2, <3>1
    <3> HIDE DEF Loop, gg
    <3> QED BY <1>2, <3>2
  <2> HIDE DEF I
  <2>3. n \in I
    BY <1>2, <2>1, <2>2, Rounds
  <2> QED BY <2>3 DEF I
<1>6. Loop(h, n)
  BY <1>4, <1>5
<1> HIDE DEF h
<1> DEFINE Rest(y, i) == /\ Len(y.dly) = Len(x.dly) - i
                         /\ \A j \in 1 .. Len(x.dly) - i : y.dly[j] = x.dly[i + j]
                         /\ \A j \in 1 .. i : y.tick[x.dly[j]] = Invalid
                         /\ \A u \in Task : y.tick[u] # Invalid => y.tick[u] = x.tick[u]
           I == {i \in 0 .. n : Advanced(x, h[i], l) /\ Rest(h[i], i)}
<1>7. 0 \in I
  <2>1. h[0] = x /\ 0 \in 0 .. n
    BY <1>1, <1>2, <1>6
  <2>2. Rest(x, 0)
    BY <1>1
  <2>3. Advanced(x, x, l)
    BY AdvancedSelf
  <2> HIDE DEF Rest
  <2> QED BY <2>1, <2>2, <2>3
<1>8. ASSUME NEW i \in 0 .. n - 1, i \in I PROVE i + 1 \in I
  <2> DEFINE y == h[i]
             t == x.dly[i + 1]
             z == h[i + 1]
  <2>1. z = Expire(y, t) /\ i + 1 \in 1 .. n /\ i + 1 \in 1 .. Len(x.dly)
    BY <1>1, <1>2, <1>4, <1>6
  <2>2. Advanced(x, y, l) /\ Rest(y, i)
    BY <1>8
  <2>3. y.dly \in Seq(Task) /\ y.dly # << >> /\ y.dly[1] = t
    <3>1. y.dly \in Seq(Task)
      BY <2>2 DEF Advanced, Typed, KType
    <3>2. Len(y.dly) \in Nat \ {0} /\ 1 \in 1 .. Len(x.dly) - i
      BY <1>1, <2>1, <2>2
    <3> QED BY <2>2, <3>1, <3>2, EmptySeq
  <2>4. y.tick[t] = 0
    <3>1. t \in ToSet(y.dly)
      BY <2>3, Elements, HeadOnce, <2>2 DEF Advanced, Placed
    <3>2. t \in Task /\ y.tick[t] # Invalid
      BY <2>2, <3>1 DEF Advanced, Placed
    <3> QED BY <1>2, <2>1, <2>2, <3>2
  <2> HIDE DEF y, z, t
  <2>5. /\ Typed(z) /\ Placed(z, {}) /\ Frame(y, z) /\ Timed(z, l)
        /\ t \in Task /\ y.st[t] = "WAITING"
        /\ z.st = [y.st EXCEPT ![t] = "READY"] /\ z.tick = [y.tick EXCEPT ![t] = Invalid]
        /\ z.dly = Tail(y.dly) /\ z.prio = y.prio /\ z.mx = y.mx
        /\ y.req => z.req
    BY <2>1, <2>2, <2>3, <2>4, Expired DEF Advanced
  <2>6. /\ \A u \in Task : z.st[u] = IF u = t THEN "READY" ELSE y.st[u]
        /\ \A u \in Task : z.tick[u] = IF u = t THEN Invalid ELSE y.tick[u]
    BY ZenonT(60), <2>2, <2>5 DEF Advanced, Typed, KType
  <2>7. Advanced(x, z, l)
    BY <2>2, <2>5, <2>6, FrameTrans DEF Advanced
  <2>8. Rest(z, i + 1)
    <3>1. IsInjective(y.dly)
      BY <2>2 DEF Advanced, Placed
    <3>2. /\ Len(z.dly) = Len(y.dly) - 1
          /\ \A j \in 1 .. Len(y.dly) - 1 : z.dly[j] = y.dly[j + 1]
      BY <2>3, <2>5, <3>1, HeadOnce
    <3>3. \A j \in 1 .. Len(x.dly) - (i + 1) : z.dly[j] = x.dly[i + 1 + j]
      <4> TAKE j \in 1 .. Len(x.dly) - (i + 1)
      <4>1. j + 1 \in 1 .. Len(x.dly) - i /\ j \in 1 .. Len(y.dly) - 1 /\ i + (j + 1) = i + 1 + j
        BY <1>1, <2>1, <2>2
      <4> QED BY <2>2, <3>2, <4>1
    <3>4. \A j \in 1 .. i + 1 : z.tick[x.dly[j]] = Invalid
      <4> TAKE j \in 1 .. i + 1
      <4>1. x.dly[j] \in Task /\ (j = i + 1 \/ j \in 1 .. i)
        BY <1>1, <2>1, ElementOfSeq
      <4> QED BY <2>2, <2>6, <4>1 DEF t
    <3>5. Len(z.dly) = Len(x.dly) - (i + 1)
      BY <1>1, <2>1, <2>2, <3>2
    <3>6. \A u \in Task : z.tick[u] # Invalid => z.tick[u] = x.tick[u]
      BY <2>2, <2>6
    <3> QED BY <3>3, <3>4, <3>5, <3>6
  <2>9. i + 1 \in 0 .. n /\ z = h[i + 1]
    BY <1>2, <2>1 DEF z
  <2> HIDE DEF Rest
  <2> QED BY <2>7, <2>8, <2>9
<1> HIDE DEF I
<1>9. n \in I
  BY <1>2, <1>7, <1>8, Rounds
<1> QED BY <1>3, <1>4, <1>9 DEF I

\* No request of an interrupt waits: RespondSRQ ends delays and nothing else.
LEMMA Responded ==
    ASSUME NEW x, Typed(x), Placed(x, {}), NEW l, Timed(x, l)
    PROVE  LET y == RespondSRQ(x)
           IN /\ Typed(y) /\ Placed(y, {}) /\ Timed(y, l)
              /\ y.run = x.run /\ y.lock = x.lock /\ y.free = x.free /\ y.mx = x.mx
              /\ y.mid = x.mid /\ y.mnum = x.mnum /\ y.inside = x.inside /\ y.mstale = x.mstale
              /\ \A t \in Task : y.st[t] # x.st[t] => x.st[t] = "WAITING" /\ y.st[t] = "READY"
              /\ x.req => y.req
<1> DEFINE d == TimeDispose(x)
           k0 == IF x.timeReq THEN d ELSE x
           k1 == IF x.timeReq THEN [d EXCEPT !.timeReq = FALSE] ELSE x
           k2 == [k1 EXCEPT !.srq = << >>]
           h == CHOOSE g : g = [i \in 0 .. Len(k1.srq) |-> IF i = 0 THEN k2 ELSE Serve(g[i - 1], k1.srq[i])]
<1>1. Advanced(x, x, l) /\ Advanced(x, d, l)
  <2>1. Advanced(x, x, l)
    BY AdvancedSelf
  <2> QED BY <2>1, Disposed
<1>2. Advanced(x, k0, l)
  BY <1>1
<1>3. RespondSRQ(x) = h[Len(k1.srq)]
  BY DEF RespondSRQ, Each
<1>4. KType(x) /\ KType(d) /\ KType(k0)
  BY <1>1, <1>2 DEF Advanced, Typed
<1> HIDE DEF d
<1>5. k1.srq = << >>
  BY <1>1, <1>4 DEF Advanced, Typed, KType, Fields
<1>6. h = [i \in {0} |-> k2]
  <2> HIDE DEF k1
  <2>1. \E g : g = [i \in 0 .. Len(k1.srq) |-> IF i = 0 THEN k2 ELSE Serve(g[i - 1], k1.srq[i])]
    <3> DEFINE g == [i \in {0} |-> k2]
    <3>1. g = [i \in 0 .. Len(k1.srq) |-> IF i = 0 THEN k2 ELSE Serve(g[i - 1], k1.srq[i])]
      BY <1>5
    <3> HIDE DEF g, k2
    <3> QED BY <3>1
  <2>2. h = [i \in 0 .. Len(k1.srq) |-> IF i = 0 THEN k2 ELSE Serve(h[i - 1], k1.srq[i])]
    BY <2>1
  <2>3. 0 .. Len(k1.srq) = {0}
    BY <1>5
  <2> HIDE DEF h, k2
  <2> QED BY <2>2, <2>3
<1> HIDE DEF h, k1
<1>9. RespondSRQ(x) = k2
  BY <1>3, <1>5, <1>6
<1>10. k2 = IF x.timeReq THEN [d EXCEPT !.timeReq = FALSE, !.srq = << >>] ELSE [x EXCEPT !.srq = << >>]
  BY DEF k1
<1> HIDE DEF k2, h
<1>11. /\ KType(k2) /\ k2.timeReq = FALSE /\ k2.srq = << >>
       /\ k2.run = k0.run /\ k2.lock = k0.lock /\ k2.free = k0.free /\ k2.mx = k0.mx
       /\ k2.mid = k0.mid /\ k2.mnum = k0.mnum /\ k2.inside = k0.inside /\ k2.mstale = k0.mstale
       /\ k2.st = k0.st /\ k2.tick = k0.tick /\ k2.rdy = k0.rdy /\ k2.dly = k0.dly
       /\ k2.req = k0.req /\ k2.slice = k0.slice /\ k2.prio = k0.prio /\ k2.intact = k0.intact
       /\ k2.ev = k0.ev /\ k2.flg = k0.flg /\ k2.pset = k0.pset
  <2>1. CASE x.timeReq
    BY <1>4, <1>10, <2>1, EmptySeq DEF KType, Fields
  <2>2. CASE ~x.timeReq
    <3>1. x.timeReq = FALSE
      BY <2>2 DEF Typed
    <3> QED BY <1>4, <1>10, <2>2, <3>1, EmptySeq DEF KType, Fields
  <2> QED BY <2>1, <2>2
<1> HIDE DEF k0
<1>12. Typed(k2)
  BY <1>2, <1>11 DEF Advanced, Typed
<1>13. Placed(k2, {})
  BY <1>2, <1>11 DEF Advanced, Placed
<1>14. Timed(k2, l)
  BY <1>2, <1>11 DEF Advanced, Timed
<1> QED BY <1>2, <1>9, <1>11, <1>12, <1>13, <1>14 DEF Advanced, Frame

(***************************************************************************)
(* Part 4.  Schedule, and OsSchedUnlock.                                   *)
(***************************************************************************)

\* What neither the end of delays nor a switch changes.
Calm(x, y) ==
  /\ y.lock = x.lock /\ y.free = x.free /\ y.mx = x.mx
  /\ y.mid = x.mid /\ y.mnum = x.mnum /\ y.inside = x.inside /\ y.mstale = x.mstale

LEMMA SwitchedTo ==
    ASSUME NEW x, Typed(x), NEW t \in Task, Placed(x, {t}), x.st[t] = "READY", NEW l, Timed(x, l)
    PROVE  LET y == SwitchTo(x, t)
           IN /\ Typed(y) /\ Placed(y, {}) /\ Timed(y, l) /\ Calm(x, y)
              /\ y.run = t /\ y.st = [x.st EXCEPT ![t] = "RUNNING"]
<1> DEFINE slice == IF x.prio[t] = RdyPrio(x) THEN TimeSlice ELSE x.slice
           y == SwitchTo(x, t)
<1>1. KType(x)
  BY DEF Typed
<1>2. y = [x EXCEPT !.run = t, !.st[t] = "RUNNING", !.slice = slice]
  BY DEF SwitchTo
<1>3. slice \in -1 .. TimeSlice
  BY KernelAssumption DEF Typed
<1> HIDE DEF slice, y
<1>4. /\ y.run = t /\ y.st = [x.st EXCEPT ![t] = "RUNNING"] /\ y.slice = slice
      /\ y.rdy = x.rdy /\ y.req = x.req /\ y.timeReq = x.timeReq /\ y.intact = x.intact
      /\ y.tick = x.tick /\ y.dly = x.dly /\ y.prio = x.prio
      /\ y.ev = x.ev /\ y.pset = x.pset /\ y.flg = x.flg /\ y.srq = x.srq
      /\ Calm(x, y) /\ KType(y)
  BY <1>1, <1>2 DEF KType, Fields, Calm, Alive
<1>5. Typed(y)
  BY <1>3, <1>4 DEF Typed, Calm
<1>6. Placed(y, {})
  <2>1. \A u \in Task : y.st[u] = IF u = t THEN "RUNNING" ELSE x.st[u]
    BY <1>1, <1>4 DEF KType
  <2>2. ToSet(y.rdy) = {u \in Task : y.st[u] = "READY"}
    BY <1>4, <2>1 DEF Placed
  <2>3. ToSet(x.free) \subseteq Task /\ \A m \in Mutex : ToSet(x.mx[m].list) \subseteq Task
    BY <1>1, Elements DEF KType, MutexType
  <2> QED BY <1>4, <2>1, <2>2, <2>3 DEF Placed, Calm
<1>7. Timed(y, l)
  BY <1>4 DEF Timed
<1> QED BY <1>4, <1>5, <1>6, <1>7 DEF y

\* Nobody but the running task has the state RUNNING, and Idle can run.
Runnable(x) ==
  /\ \A t \in Task : x.st[t] = "RUNNING" => t = x.run
  /\ x.st[Idle] \in {"READY", "RUNNING"}

LEMMA Scheduled ==
    ASSUME NEW x, Typed(x), Placed(x, {}), NEW l, Timed(x, l), Runnable(x)
    PROVE  LET y == Schedule(x)
           IN /\ Typed(y) /\ Placed(y, {}) /\ Timed(y, l) /\ Calm(x, y) /\ Runnable(y)
              /\ y.st[y.run] = "RUNNING"
              /\ \A t \in Task : y.st[t] # x.st[t] =>
                   x.st[t] \in {"READY", "RUNNING"} /\ y.st[t] \in {"READY", "RUNNING"}
<1> DEFINE cur == x.run
           next == x.rdy[1]
           k1 == [x EXCEPT !.req = FALSE]
           k2 == InsertToTCBRdyList(k1, cur)
           robin == x.prio[next] = x.prio[cur] /\ x.slice = 0
           y == Schedule(x)
           Goal(z) == /\ Typed(z) /\ Placed(z, {}) /\ Timed(z, l) /\ Calm(x, z) /\ Runnable(z)
                      /\ z.st[z.run] = "RUNNING"
                      /\ \A t \in Task : z.st[t] # x.st[t] =>
                           x.st[t] \in {"READY", "RUNNING"} /\ z.st[t] \in {"READY", "RUNNING"}
<1> SUFFICES Goal(y)
  OBVIOUS
<1>1. KType(x) /\ x.rdy \in Seq(Task) /\ cur \in Task /\ Idle \in Task
  BY KernelAssumption DEF Typed, KType
<1>2. CASE x.rdy = << >>
  <2>1. ToSet(x.rdy) = {}
    BY <1>1, <1>2, Elements
  <2>2. x.st[Idle] = "RUNNING" /\ Idle = cur
    BY <1>1, <2>1 DEF Placed, Runnable
  <2>3. y = x
    BY <1>2 DEF Schedule
  <2>4. Calm(x, x)
    BY DEF Calm
  <2> HIDE DEF y
  <2>5. Typed(y) /\ Placed(y, {}) /\ Timed(y, l) /\ Calm(x, y) /\ Runnable(y) /\ y.st[y.run] = "RUNNING"
    BY <2>2, <2>3, <2>4
  <2>6. \A t \in Task : y.st[t] = x.st[t]
    BY <2>3
  <2> QED BY <2>5, <2>6
<1>3. CASE x.rdy # << >>
  <2>1. next \in Task /\ next \in ToSet(x.rdy) /\ x.st[next] = "READY"
    <3>1. 1 \in DOMAIN x.rdy
      BY <1>1, <1>3, Elements
    <3> QED BY <1>1, <3>1 DEF ToSet, Placed
  <2>2. /\ Typed(k1) /\ Placed(k1, {}) /\ Timed(k1, l) /\ Calm(x, k1)
        /\ k1.st = x.st /\ k1.run = x.run /\ k1.tick = x.tick
    <3>1. /\ k1.req = FALSE /\ KType(k1) /\ Calm(x, k1)
          /\ k1.st = x.st /\ k1.rdy = x.rdy /\ k1.timeReq = x.timeReq /\ k1.intact = x.intact
          /\ k1.tick = x.tick /\ k1.dly = x.dly /\ k1.prio = x.prio /\ k1.slice = x.slice
          /\ k1.ev = x.ev /\ k1.pset = x.pset /\ k1.flg = x.flg /\ k1.srq = x.srq /\ k1.run = x.run
      BY <1>1 DEF KType, Fields, Calm
    <3> HIDE DEF k1
    <3>2. Typed(k1)
      BY <3>1 DEF Typed, Calm
    <3>3. Placed(k1, {}) /\ Timed(k1, l)
      BY <3>1 DEF Placed, Timed, Calm
    <3> QED BY <3>1, <3>2, <3>3
  <2>3. y = IF x.st[cur] # "RUNNING" THEN SwitchTo(RemoveFromTCBRdyList(k1, next), next)
            ELSE IF x.prio[next] < x.prio[cur] \/ robin
            THEN SwitchTo(RemoveFromTCBRdyList(k2, next), next) ELSE k1
    BY <1>3 DEF Schedule
  <2> HIDE DEF y, robin, k1, next
  <2>4. ASSUME NEW z, Typed(z), Placed(z, {}), Timed(z, l), Calm(x, z), z.st[next] = "READY",
               z.st[Idle] \in {"READY", "RUNNING"},
               \A t \in Task : z.st[t] # "RUNNING",
               \A t \in Task : z.st[t] # x.st[t] => x.st[t] = "RUNNING" /\ z.st[t] = "READY",
               y = SwitchTo(RemoveFromTCBRdyList(z, next), next)
        PROVE  Goal(y)
    <3> DEFINE w == RemoveFromTCBRdyList(z, next)
    <3>1. /\ Typed(w) /\ Placed(w, {next}) /\ Frame(z, w)
          /\ w.st = z.st /\ w.tick = z.tick /\ w.dly = z.dly /\ w.mx = z.mx
      BY <2>1, <2>4, ReadyOut
    <3>2. y = SwitchTo(w, next)
      BY <2>4
    <3> HIDE DEF w
    <3>3. Timed(w, l) /\ Calm(x, w)
      BY <2>4, <3>1 DEF Timed, Frame, Calm
    <3>4. /\ Typed(y) /\ Placed(y, {}) /\ Timed(y, l) /\ Calm(w, y)
          /\ y.run = next /\ y.st = [w.st EXCEPT ![next] = "RUNNING"]
      BY <2>1, <2>4, <3>1, <3>2, <3>3, SwitchedTo
    <3>5. \A t \in Task : y.st[t] = IF t = next THEN "RUNNING" ELSE z.st[t]
      <4>1. z.st \in [Task -> Alive \cup {"DORMANT"}]
        BY <2>4 DEF Typed, KType
      <4> QED BY <3>1, <3>4, <4>1
    <3>6. Calm(x, y)
      BY <3>3, <3>4 DEF Calm
    <3>7. Runnable(y) /\ y.st[y.run] = "RUNNING"
      BY <1>1, <2>1, <2>4, <3>4, <3>5 DEF Runnable
    <3>8. ASSUME NEW t \in Task, y.st[t] # x.st[t]
          PROVE  x.st[t] \in {"READY", "RUNNING"} /\ y.st[t] \in {"READY", "RUNNING"}
      BY <2>1, <2>4, <3>5, <3>8
    <3> QED BY <3>4, <3>6, <3>7, <3>8
  <2> HIDE DEF Goal
  <2>5. CASE x.st[cur] # "RUNNING"
    <3>1. \A t \in Task : k1.st[t] = x.st[t] /\ x.st[t] # "RUNNING"
      BY <2>2, <2>5 DEF Runnable
    <3>2. k1.st[Idle] \in {"READY", "RUNNING"} /\ k1.st[next] = "READY"
      BY <1>1, <2>1, <2>2 DEF Runnable
    <3>3. y = SwitchTo(RemoveFromTCBRdyList(k1, next), next)
      BY <2>3, <2>5
    <3>4. \A t \in Task : k1.st[t] # x.st[t] => x.st[t] = "RUNNING" /\ k1.st[t] = "READY"
      BY <3>1
    <3>5. \A t \in Task : k1.st[t] # "RUNNING"
      BY <3>1
    <3> QED BY <2>2, <2>4, <3>2, <3>3, <3>4, <3>5
  <2>6. CASE x.st[cur] = "RUNNING" /\ (x.prio[next] < x.prio[cur] \/ robin)
    <3>1. /\ k1.st[cur] = "RUNNING" /\ k1.tick[cur] = Invalid /\ cur \notin ToSet(k1.free)
          /\ \A m \in Mutex : cur \notin ToSet(k1.mx[m].list)
      BY <1>1, <2>2, <2>6 DEF Placed
    <3>2. Placed(k1, {cur})
      BY <1>1, <2>2, <3>1, NotReady
    <3>3. /\ Typed(k2) /\ Placed(k2, {}) /\ Frame(k1, k2)
          /\ k2.st = [k1.st EXCEPT ![cur] = "READY"]
          /\ k2.tick = k1.tick /\ k2.dly = k1.dly /\ k2.mx = k1.mx
      BY <1>1, <2>2, <3>1, <3>2, ReadyIn
    <3> HIDE DEF k2
    <3>4. Timed(k2, l) /\ Calm(x, k2)
      BY <2>2, <3>3 DEF Timed, Frame, Calm
    <3>5. \A t \in Task : k2.st[t] = IF t = cur THEN "READY" ELSE x.st[t]
      <4>1. x.st \in [Task -> Alive \cup {"DORMANT"}]
        BY <1>1 DEF KType
      <4> QED BY <2>2, <3>3, <4>1
    <3>6. \A t \in Task : k2.st[t] # "RUNNING" /\ (k2.st[t] # x.st[t] => x.st[t] = "RUNNING" /\ k2.st[t] = "READY")
      BY <2>6, <3>5 DEF Runnable
    <3>7. k2.st[Idle] \in {"READY", "RUNNING"} /\ k2.st[next] = "READY"
      BY <1>1, <2>1, <3>5 DEF Runnable
    <3>8. y = SwitchTo(RemoveFromTCBRdyList(k2, next), next)
      BY <2>3, <2>6
    <3> QED BY <2>4, <3>3, <3>4, <3>6, <3>7, <3>8
  <2>7. CASE x.st[cur] = "RUNNING" /\ ~(x.prio[next] < x.prio[cur] \/ robin)
    <3>1. y = k1
      BY <2>3, <2>7
    <3>2. \A t \in Task : k1.st[t] = x.st[t]
      BY <2>2
    <3>3. Runnable(k1) /\ k1.st[k1.run] = "RUNNING"
      BY <2>2, <2>7 DEF Runnable
    <3> QED BY <2>2, <3>1, <3>2, <3>3 DEF Goal
  <2>8. \/ x.st[cur] # "RUNNING"
        \/ x.st[cur] = "RUNNING" /\ (x.prio[next] < x.prio[cur] \/ robin)
        \/ x.st[cur] = "RUNNING" /\ ~(x.prio[next] < x.prio[cur] \/ robin)
    OBVIOUS
  <2> QED BY <2>5, <2>6, <2>7, <2>8
<1> QED BY <1>2, <1>3

\* What a pending call of a task for itself says.
LEMMA AloneCall ==
    ASSUME NEW x, NEW c, NEW t, Alone(x, c, t)
    PROVE  /\ c[t].op \in {"none", "suspend", "delete", "delleave", "prio", "enter"}
           /\ c[t].op = "none" => c[t] = NoCall
           /\ c[t].op \in {"suspend", "delete", "delleave"} =>
                t # Idle /\ c[t].task = t /\ (t = x.run => x.lock = 0)
           /\ c[t].op = "delete" => x.mid[t] = InvalidId
           /\ c[t].op = "delleave" => /\ c[t].mutex \in Mutex
                                      /\ x.mx[c[t].mutex].own = t \/ Doomed(x, c, t)
           /\ c[t].op = "prio" => c[t].task = t /\ c[t].seen = "RUNNING"
           /\ c[t].op = "enter" => /\ c[t].mutex \in Mutex /\ c[t] = EnterCall(c[t].mutex)
                                   /\ \/ x.mx[c[t].mutex].own = t \/ t \in ToSet(x.mx[c[t].mutex].list)
                                      \/ Doomed(x, c, t)
<1>1. CASE c[t] = NoCall
  BY <1>1 DEF NoCall
<1>2. CASE c[t] = [op |-> "prio", task |-> t, seen |-> "RUNNING"]
  BY <1>2
<1>3. ASSUME NEW m \in Mutex, c[t] = EnterCall(m),
             x.mx[m].own = t \/ t \in ToSet(x.mx[m].list) \/ Doomed(x, c, t)
      PROVE  /\ c[t].op = "enter" /\ c[t].mutex \in Mutex /\ c[t] = EnterCall(c[t].mutex)
             /\ \/ x.mx[c[t].mutex].own = t \/ t \in ToSet(x.mx[c[t].mutex].list)
                \/ Doomed(x, c, t)
  <2>1. c[t].op = "enter" /\ c[t].mutex = m
    BY <1>3 DEF EnterCall
  <2> QED BY <1>3, <2>1
<1>4. ASSUME t # Idle, t = x.run => x.lock = 0,
             c[t] = [op |-> "suspend", task |-> t]
      PROVE  c[t].op = "suspend" /\ c[t].task = t
  BY <1>4
<1>5. ASSUME t # Idle, t = x.run => x.lock = 0,
             c[t] = [op |-> "delete", task |-> t] /\ x.mid[t] = InvalidId
      PROVE  c[t].op = "delete" /\ c[t].task = t
  BY <1>5
<1>6. ASSUME t # Idle, t = x.run => x.lock = 0, NEW m \in Mutex,
             c[t] = [op |-> "delleave", task |-> t, mutex |-> m],
             x.mx[m].own = t \/ Doomed(x, c, t)
      PROVE  c[t].op = "delleave" /\ c[t].task = t /\ c[t].mutex = m
  BY <1>6
<1>7. CASE \E m \in Mutex : /\ c[t] = EnterCall(m)
                            /\ \/ x.mx[m].own = t \/ t \in ToSet(x.mx[m].list)
                               \/ Doomed(x, c, t)
  <2>1. c[t].op = "enter"
    BY <1>3, <1>7
  <2> QED BY <1>3, <1>7, <2>1
<1>8. CASE /\ t # Idle /\ (t = x.run => x.lock = 0)
           /\ \/ c[t] = [op |-> "suspend", task |-> t]
              \/ c[t] = [op |-> "delete", task |-> t] /\ x.mid[t] = InvalidId
              \/ \E m \in Mutex : /\ c[t] = [op |-> "delleave", task |-> t, mutex |-> m]
                                  /\ x.mx[m].own = t \/ Doomed(x, c, t)
  BY <1>4, <1>5, <1>6, <1>8
<1> QED BY <1>1, <1>2, <1>7, <1>8 DEF Alone

\* While the scheduler is not locked, no call of another task is pending that
\* depends on what runs.
LEMMA LoneCalls ==
    ASSUME NEW x, NEW y, NEW c, Typed(x), Calls(x, c), x.lock = 0, y.lock = 0,
           y.mid = x.mid, y.mx = x.mx
    PROVE  Calls(y, c)
<1>1. x.run \in Task
  BY DEF Typed, KType
<1>2. ASSUME NEW t \in Task PROVE Alone(x, c, t)
  BY DEF Calls, Locked
<1>3. ASSUME NEW t \in Task PROVE ~Doomed(x, c, t) \/ c[t].op = "delete"
  <2> SUFFICES ASSUME Doomed(x, c, t) PROVE c[t].op = "delete"
    OBVIOUS
  <2>1. c[x.run].op = "delete" /\ c[x.run].task = t
    BY DEF Doomed
  <2>2. c[x.run].task = x.run
    BY <1>1, <1>2, <2>1, AloneCall
  <2> QED BY <2>1, <2>2
<1>4. ASSUME NEW t \in Task PROVE Alone(y, c, t)
  <2>1. Alone(x, c, t)
    BY <1>2
  <2>2. c[t].op = "enter" \/ c[t].op = "delleave" => ~Doomed(x, c, t)
    BY <1>3
  <2>3. CASE t # Idle /\ \E m \in Mutex : /\ c[t] = [op |-> "delleave", task |-> t, mutex |-> m]
                                          /\ x.mx[m].own = t \/ Doomed(x, c, t)
    BY <2>2, <2>3 DEF Alone
  <2>4. CASE \E m \in Mutex : /\ c[t] = EnterCall(m)
                              /\ \/ x.mx[m].own = t \/ t \in ToSet(x.mx[m].list)
                                 \/ Doomed(x, c, t)
    BY <2>2, <2>4 DEF Alone, EnterCall
  <2> QED BY <2>1, <2>3, <2>4 DEF Alone
<1> QED BY <1>4 DEF Calls

\* Where OsSchedUnlock may be reached: the running task can go on, or a switch
\* is requested and possible.
Going(x) == x.st[x.run] = "RUNNING" \/ (x.req /\ x.lock = 0)

LEMMA Unlocked ==
    ASSUME NEW x, NEW c, NEW l, Whole(x, c, l), Going(x)
    PROVE  LET y == OsSchedUnlock(x) IN Whole(y, c, l) /\ y.st[y.run] = "RUNNING"
<1> DEFINE r == RespondSRQ(x)
           y == OsSchedUnlock(x)
<1>1. Typed(x) /\ Placed(x, {}) /\ Timed(x, l) /\ States(x, c) /\ Owned(x, c) /\ Calls(x, c) /\ KType(x)
  BY DEF Whole, Typed
<1>2. x.lock \in Nat
  BY <1>1, TaskSchedAssumption DEF Typed
<1>3. CASE x.lock > 0
  <2>1. y = x
    BY <1>1, <1>3, UnlockSwitched
  <2>2. x.st[x.run] = "RUNNING"
    BY <1>2, <1>3 DEF Going
  <2> HIDE DEF y
  <2>3. Whole(y, c, l) /\ y.st[y.run] = "RUNNING"
    BY <2>1, <2>2
  <2> QED BY <2>3 DEF y
<1>4. CASE x.lock = 0
  <2>1. y = IF r.req THEN Schedule(r) ELSE r
    BY <1>4 DEF OsSchedUnlock
  <2>2. /\ Typed(r) /\ Placed(r, {}) /\ Timed(r, l)
        /\ r.run = x.run /\ Calm(x, r)
        /\ \A t \in Task : r.st[t] # x.st[t] => x.st[t] = "WAITING" /\ r.st[t] = "READY"
        /\ x.req => r.req
    BY <1>1, Responded DEF Calm
  <2> HIDE DEF r, y
  <2>3. Runnable(r)
    BY <1>1, <2>2, KernelAssumption DEF Runnable, States
  <2>4. r.run \in Task
    BY <2>2 DEF Typed, KType
  <2>5. /\ Typed(y) /\ Placed(y, {}) /\ Timed(y, l) /\ Calm(x, y) /\ Runnable(y)
        /\ y.st[y.run] = "RUNNING"
        /\ \A t \in Task : y.st[t] # x.st[t] => x.st[t] # "DORMANT" /\ y.st[t] # "DORMANT"
    <3>1. CASE r.req
      <4>1. /\ Typed(y) /\ Placed(y, {}) /\ Timed(y, l) /\ Calm(r, y) /\ Runnable(y)
            /\ y.st[y.run] = "RUNNING"
            /\ \A t \in Task : y.st[t] # r.st[t] =>
                 r.st[t] \in {"READY", "RUNNING"} /\ y.st[t] \in {"READY", "RUNNING"}
        BY <2>1, <2>2, <2>3, <3>1, Scheduled
      <4>2. Calm(x, y)
        BY <2>2, <4>1 DEF Calm
      <4>3. ASSUME NEW t \in Task, y.st[t] # x.st[t] PROVE x.st[t] # "DORMANT" /\ y.st[t] # "DORMANT"
        BY <2>2, <4>1, <4>3
      <4> QED BY <4>1, <4>2, <4>3
    <3>2. CASE ~r.req
      <4>1. y = r /\ ~x.req
        BY <2>1, <2>2, <3>2
      <4>2. x.st[x.run] = "RUNNING"
        BY <4>1 DEF Going
      <4>3. r.st[r.run] = "RUNNING"
        BY <2>2, <2>4, <4>2
      <4> QED BY <2>2, <2>3, <4>1, <4>3
    <3> QED BY <3>1, <3>2
  <2>6. States(y, c)
    BY <1>1, <2>5 DEF States, Runnable, Calm
  <2>7. Owned(y, c)
    BY <1>1, <2>5 DEF Owned, Calm
  <2>8. Calls(y, c)
    <3>1. y.lock = 0 /\ y.mid = x.mid /\ y.mx = x.mx
      BY <1>4, <2>5 DEF Calm
    <3> QED BY <1>1, <1>4, <3>1, LoneCalls
  <2> QED BY <2>5, <2>6, <2>7, <2>8 DEF Whole, y
<1> QED BY <1>2, <1>3, <1>4

(***************************************************************************)
(* Part 5.  Changing priorities.                                           *)
(***************************************************************************)

\* What CoSetPriority does to a kernel state: the order of the ready list and
\* the priorities change.
Shuffled(x, y) ==
  /\ Typed(y) /\ Placed(y, {}) /\ Frame(x, y)
  /\ y.st = x.st /\ y.tick = x.tick /\ y.dly = x.dly
  /\ x.req => y.req

LEMMA ShuffledSelf ==
    ASSUME NEW x, Typed(x), Placed(x, {})
    PROVE  Shuffled(x, x)
<1>1. Frame(x, x)
  BY DEF Frame
<1> QED BY <1>1 DEF Shuffled

LEMMA ShuffledTrans ==
    ASSUME NEW x, NEW y, NEW z, Shuffled(x, y), Shuffled(y, z)
    PROVE  Shuffled(x, z)
BY FrameTrans DEF Shuffled

\* Other priorities, and other priorities and tasks in the control blocks.
LEMMA Rewritten ==
    ASSUME NEW x, Typed(x), Placed(x, {}), NEW y, KType(y), Frame(x, y),
           y.st = x.st, y.tick = x.tick, y.dly = x.dly, y.rdy = x.rdy, y.slice = x.slice,
           y.intact = x.intact, y.req \in BOOLEAN, x.req => y.req,
           y.prio \in [Task -> 0 .. Lowest],
           \A m \in Mutex : y.mx[m].orig = x.mx[m].orig \/ y.mx[m].orig \in 0 .. Lowest
    PROVE  Shuffled(x, y)
<1>1. Typed(y)
  <2>1. ASSUME NEW t \in Task, y.mid[t] # InvalidId PROVE y.mx[y.mid[t]].orig \in 0 .. Lowest
    <3>1. x.mid[t] = y.mid[t] /\ y.mid[t] \in Mutex
      BY <2>1 DEF Frame, KType
    <3>2. x.mx[x.mid[t]].orig \in 0 .. Lowest
      BY <2>1, <3>1 DEF Typed
    <3> QED BY <3>1, <3>2
  <2> QED BY <2>1 DEF Typed, Frame
<1>2. Placed(y, {})
  BY DEF Placed, Frame
<1> QED BY <1>1, <1>2 DEF Shuffled

LEMMA HighestRange ==
    ASSUME NEW x, Typed(x), NEW list \in Seq(Task), NEW p \in 0 .. Lowest, NEW id \in Task \cup {InvalidId}
    PROVE  /\ Highest(x, list, p, id).id \in Task \cup {InvalidId}
           /\ Highest(x, list, p, id).prio \in 0 .. Lowest
<1> DEFINE best == {i \in DOMAIN list : /\ x.prio[list[i]] < p
                                        /\ \A j \in DOMAIN list : x.prio[list[i]] <= x.prio[list[j]]}
           first == CHOOSE i \in best : \A j \in best : i <= j
<1>1. best \in SUBSET (1 .. Len(list)) /\ Len(list) \in Nat
  BY LenProperties
<1>2. Highest(x, list, p, id) = IF best = {} THEN [id |-> id, prio |-> p]
                                ELSE [id |-> list[first], prio |-> x.prio[list[first]]]
  BY DEF Highest
<1>3. best # {} => first \in 1 .. Len(list)
  <2> HIDE DEF best
  <2>1. best # {} => \E i \in best : \A j \in best : i <= j
    BY <1>1, Least
  <2> QED BY <1>1, <2>1
<1> HIDE DEF best, first
<1>4. best # {} => list[first] \in Task
  BY <1>3, ElementOfSeq
<1> QED BY <1>2, <1>4 DEF Typed

\* Nobody waits for an event.
LEMMA NoReorder ==
    ASSUME NEW x, Typed(x), NEW t \in Task
    PROVE  ReorderWaiting(x, t) = x
<1>1. x.ev[t] = InvalidId
  BY DEF Typed
<1> QED BY <1>1 DEF ReorderWaiting

LEMMA Reordered ==
    ASSUME NEW x, Typed(x), Placed(x, {}), NEW t \in Task, x.st[t] = "READY"
    PROVE  Shuffled(x, InsertToTCBRdyList(RemoveFromTCBRdyList(x, t), t))
<1> DEFINE w == RemoveFromTCBRdyList(x, t)
           y == InsertToTCBRdyList(w, t)
<1>1. /\ Typed(w) /\ Placed(w, {t}) /\ Frame(x, w)
      /\ w.st = x.st /\ w.tick = x.tick /\ w.dly = x.dly /\ w.req = x.req
  BY ReadyOut
<1> HIDE DEF w
<1>2. /\ w.tick[t] = Invalid /\ t \notin ToSet(w.free)
      /\ \A m \in Mutex : t \notin ToSet(w.mx[m].list)
  BY <1>1 DEF Placed, Frame
<1>3. /\ Typed(y) /\ Placed(y, {}) /\ Frame(w, y)
      /\ y.st = [w.st EXCEPT ![t] = "READY"]
      /\ y.tick = w.tick /\ y.dly = w.dly
      /\ w.req => y.req
  BY <1>1, <1>2, ReadyIn
<1> HIDE DEF y
<1>4. y.st = x.st
  <2>1. x.st \in [Task -> Alive \cup {"DORMANT"}]
    BY DEF Typed, KType
  <2> QED BY <1>1, <1>3, <2>1
<1>5. Frame(x, y)
  BY <1>1, <1>3, FrameTrans
<1>6. Shuffled(x, y)
  BY <1>1, <1>3, <1>4, <1>5 DEF Shuffled
<1> QED BY <1>6 DEF y, w

\* A write to the priority or the hipriTaskID of a control block.
LEMMA HipriShuffled ==
    ASSUME NEW x, Typed(x), Placed(x, {}), NEW m \in Mutex, NEW id \in Task \cup {InvalidId}
    PROVE  Shuffled(x, [x EXCEPT !.mx[m].hipri = id])
<1> DEFINE y == [x EXCEPT !.mx[m].hipri = id]
<1>1. KType(x)
  BY DEF Typed
<1>2. /\ KType(y) /\ Frame(x, y)
      /\ y.st = x.st /\ y.tick = x.tick /\ y.dly = x.dly /\ y.rdy = x.rdy /\ y.slice = x.slice
      /\ y.intact = x.intact /\ y.req = x.req /\ y.prio = x.prio
      /\ \A n \in Mutex : y.mx[n].orig = x.mx[n].orig
  <2> DEFINE b == [x.mx[m] EXCEPT !.hipri = id]
  <2>1. x.mx[m] \in MutexType
    BY <1>1 DEF KType
  <2>2. b \in MutexType /\ b.own = x.mx[m].own /\ b.list = x.mx[m].list /\ b.orig = x.mx[m].orig
    BY <2>1 DEF MutexType
  <2>3. y = [x EXCEPT !.mx[m] = b]
    BY <1>1 DEF KType, Fields
  <2> HIDE DEF b, y
  <2>4. /\ y.mx = [x.mx EXCEPT ![m] = b] /\ KType(y)
        /\ y.st = x.st /\ y.tick = x.tick /\ y.dly = x.dly /\ y.rdy = x.rdy /\ y.slice = x.slice
        /\ y.intact = x.intact /\ y.req = x.req /\ y.prio = x.prio
        /\ y.run = x.run /\ y.lock = x.lock /\ y.timeReq = x.timeReq /\ y.free = x.free
        /\ y.ev = x.ev /\ y.pset = x.pset /\ y.flg = x.flg /\ y.srq = x.srq
        /\ y.mid = x.mid /\ y.mnum = x.mnum /\ y.inside = x.inside /\ y.mstale = x.mstale
    BY <1>1, <2>2, <2>3 DEF KType, Fields
  <2>5. \A n \in Mutex : y.mx[n] = IF n = m THEN b ELSE x.mx[n]
    BY <1>1, <2>4 DEF KType
  <2> QED BY <2>2, <2>4, <2>5 DEF Frame
<1> HIDE DEF y
<1>3. y.req \in BOOLEAN /\ y.prio \in [Task -> 0 .. Lowest]
  BY <1>2 DEF Typed
<1>4. Shuffled(x, y)
  BY <1>2, <1>3, Rewritten
<1> QED BY <1>4 DEF y

\* The assignment of the priority.
LEMMA HeadShuffled ==
    ASSUME NEW x, Typed(x), Placed(x, {}), NEW t \in Task, NEW p \in 0 .. Lowest
    PROVE  Shuffled(x, SetPriorityHead(x, t, p))
<1> DEFINE m == x.mid[t]
           k1 == IF Holds(x, t) THEN [x EXCEPT !.mx[m].orig = p] ELSE x
           k2 == [k1 EXCEPT !.prio[t] = p]
<1>1. KType(x) /\ p \in Nat
  BY DEF Typed
<1>2. KType(k1) /\ Shuffled(x, k1)
  <2>1. CASE Holds(x, t)
    <3> DEFINE y == [x EXCEPT !.mx[m].orig = p]
    <3>1. m \in Mutex /\ x.mx[m] \in MutexType
      BY <1>1, <2>1 DEF KType, Holds
    <3>2. /\ KType(y) /\ Frame(x, y)
          /\ y.st = x.st /\ y.tick = x.tick /\ y.dly = x.dly /\ y.rdy = x.rdy /\ y.slice = x.slice
          /\ y.intact = x.intact /\ y.req = x.req /\ y.prio = x.prio
          /\ \A n \in Mutex : y.mx[n].orig = x.mx[n].orig \/ y.mx[n].orig = p
      BY <1>1, <3>1 DEF KType, Fields, MutexType, Frame
    <3>3. k1 = y
      BY <2>1
    <3> HIDE DEF y, k1
    <3>4. y.req \in BOOLEAN /\ y.prio \in [Task -> 0 .. Lowest]
      BY <3>2 DEF Typed
    <3>5. Shuffled(x, y)
      BY <3>2, <3>4, Rewritten
    <3> QED BY <3>2, <3>3, <3>5
  <2>2. CASE ~Holds(x, t)
    BY <1>1, <2>2, ShuffledSelf
  <2> QED BY <2>1, <2>2
<1>3. SetPriorityHead(x, t, p) = k1 \/ SetPriorityHead(x, t, p) = k2
  BY DEF SetPriorityHead
<1> HIDE DEF k1
<1>4. /\ KType(k2) /\ Frame(k1, k2)
      /\ k2.st = k1.st /\ k2.tick = k1.tick /\ k2.dly = k1.dly /\ k2.rdy = k1.rdy /\ k2.slice = k1.slice
      /\ k2.intact = k1.intact /\ k2.req = k1.req /\ k2.prio = [k1.prio EXCEPT ![t] = p]
      /\ k2.mx = k1.mx
  BY <1>1, <1>2 DEF KType, Fields, Frame
<1> HIDE DEF k2
<1>5. Shuffled(k1, k2)
  <2>1. k2.req \in BOOLEAN /\ k2.prio \in [Task -> 0 .. Lowest]
    BY <1>2, <1>4 DEF Typed, Shuffled
  <2>2. Typed(k1) /\ Placed(k1, {})
    BY <1>2 DEF Shuffled
  <2>3. \A n \in Mutex : k2.mx[n].orig = k1.mx[n].orig
    BY <1>4
  <2> QED BY <1>4, <2>1, <2>2, <2>3, Rewritten
<1> QED BY <1>2, <1>3, <1>5, ShuffledTrans

\* A call of CoSetPriority that is left to make, in a state that differs from
\* x by priorities only.
CallIn(x, c) ==
  Shuffled(x, c.k) /\ c.task \in Task \cup {InvalidId} /\ c.prio \in 0 .. Lowest

LEMMA DoneIn ==
    ASSUME NEW x, NEW y, Shuffled(x, y)
    PROVE  CallIn(x, Done(y))
<1>1. 0 \in 0 .. Lowest
  BY KernelAssumption
<1> QED BY <1>1 DEF CallIn, Done

LEMMA TailShuffled ==
    ASSUME NEW x, Typed(x), Placed(x, {}), NEW t \in Task, NEW seen \in Alive,
           seen = "READY" => x.st[t] = "READY"
    PROVE  CallIn(x, SetPriorityTail(x, t, seen))
<1> DEFINE m == x.mid[t]
           h == Highest(x, x.mx[m].list, x.mx[m].orig, x.mx[m].own)
           k0 == [x EXCEPT !.mx[m].hipri = h.id]
           k1 == ReorderWaiting(k0, t)
<1>0. KType(x)
  BY DEF Typed
<1>1. CASE seen = "READY"
  BY <1>1, Reordered, DoneIn DEF SetPriorityTail
<1>2. CASE seen = "RUNNING"
  <2> DEFINE req == x.req \/ x.prio[t] > RdyPrio(x)
             y == [x EXCEPT !.req = req]
  <2>1. req \in BOOLEAN /\ (x.req => req)
    OBVIOUS
  <2>2. SetPriorityTail(x, t, seen) = Done(y)
    BY <1>2 DEF SetPriorityTail
  <2> HIDE DEF req
  <2>3. /\ KType(y) /\ Frame(x, y)
        /\ y.st = x.st /\ y.tick = x.tick /\ y.dly = x.dly /\ y.rdy = x.rdy /\ y.slice = x.slice
        /\ y.intact = x.intact /\ y.req = req /\ y.prio = x.prio /\ y.mx = x.mx
    BY <1>0 DEF KType, Fields, Frame
  <2> HIDE DEF y
  <2>4. y.prio \in [Task -> 0 .. Lowest]
    BY <2>3 DEF Typed
  <2>5. Shuffled(x, y)
    BY <2>1, <2>3, <2>4, Rewritten
  <2> QED BY <2>2, <2>5, DoneIn
<1>3. CASE seen = "WAITING" /\ m = InvalidId
  <2>1. SetPriorityTail(x, t, seen) = Done(ReorderWaiting(x, t))
    BY <1>3 DEF SetPriorityTail
  <2>2. Shuffled(x, ReorderWaiting(x, t))
    BY NoReorder, ShuffledSelf
  <2> QED BY <2>1, <2>2, DoneIn
<1>4. CASE seen = "WAITING" /\ m # InvalidId
  <2>1. m \in Mutex /\ x.mx[m] \in MutexType /\ x.mx[m].orig \in 0 .. Lowest
    BY <1>0, <1>4 DEF Typed, KType
  <2>2. x.mx[m].list \in Seq(Task) /\ x.mx[m].own \in Task \cup {InvalidId}
    BY <2>1 DEF MutexType
  <2>3. h.id \in Task \cup {InvalidId} /\ h.prio \in 0 .. Lowest
    BY <2>1, <2>2, HighestRange
  <2>4. SetPriorityTail(x, t, seen) \in {Done(k1), [k |-> k1, task |-> x.mx[m].own, prio |-> h.prio]}
    BY <1>4 DEF SetPriorityTail
  <2> HIDE DEF h
  <2>5. Shuffled(x, k0)
    BY <2>1, <2>3, HipriShuffled
  <2> HIDE DEF k0
  <2>6. k1 = k0
    BY <2>5, NoReorder DEF Shuffled
  <2>7. Shuffled(x, k1)
    BY <2>5, <2>6
  <2> HIDE DEF k1, m
  <2>8. CallIn(x, [k |-> k1, task |-> x.mx[m].own, prio |-> h.prio])
    BY <2>2, <2>3, <2>7 DEF CallIn
  <2>9. CallIn(x, Done(k1))
    BY <2>7, DoneIn
  <2> QED BY <2>4, <2>8, <2>9
<1> QED BY <1>1, <1>2, <1>3, <1>4 DEF Alive

LEMMA OnceShuffled ==
    ASSUME NEW x, NEW c, CallIn(x, c)
    PROVE  CallIn(x, SetPriorityOnce(c))
<1> DEFINE t == c.task
           y == SetPriorityHead(c.k, t, c.prio)
           d == SetPriorityTail(y, t, c.k.st[t])
<1>0. Shuffled(x, c.k) /\ Typed(c.k) /\ Placed(c.k, {}) /\ c.prio \in 0 .. Lowest /\ t \in Task \cup {InvalidId}
  BY DEF CallIn, Shuffled
<1>1. InvalidId \notin Task
  BY KernelAssumption
<1>2. SUFFICES ASSUME t # InvalidId PROVE CallIn(x, SetPriorityOnce(c))
  BY DEF SetPriorityOnce
<1>3. t \in Task /\ c.k.st[t] \in Alive \cup {"DORMANT"}
  BY <1>0, <1>2 DEF Typed, KType
<1>4. Shuffled(c.k, y)
  BY <1>0, <1>3, HeadShuffled
<1>5. Shuffled(x, y) /\ Typed(y) /\ Placed(y, {}) /\ y.st = c.k.st
  BY <1>0, <1>4, ShuffledTrans DEF Shuffled
<1>6. CASE c.k.st[t] = "DORMANT"
  <2>1. SetPriorityOnce(c) = Done(c.k)
    BY <1>2, <1>6 DEF SetPriorityOnce
  <2> QED BY <1>0, <2>1, DoneIn
<1>7. CASE c.k.st[t] # "DORMANT"
  <2>1. SetPriorityOnce(c) \in {Done(c.k), Done(y), d}
    BY <1>2 DEF SetPriorityOnce
  <2>2. CallIn(y, d)
    <3> HIDE DEF y
    <3> QED BY <1>3, <1>5, <1>7, TailShuffled
  <2> HIDE DEF y, d
  <2>3. CallIn(x, d)
    BY <1>5, <2>2, ShuffledTrans DEF CallIn
  <2>4. CallIn(x, Done(c.k)) /\ CallIn(x, Done(y))
    BY <1>0, <1>5, DoneIn
  <2> QED BY <2>1, <2>3, <2>4
<1> QED BY <1>6, <1>7

LEMMA FinishedShuffled ==
    ASSUME NEW x, NEW c, CallIn(x, c)
    PROVE  Shuffled(x, Finished(c))
<1> DEFINE n == Cardinality(Task)
           s == [i \in 1 .. n |-> i]
           Loop(g, m) == g = [i \in 0 .. m |-> IF i = 0 THEN c ELSE SetPriorityOnce(g[i - 1])]
           h == CHOOSE g : Loop(g, Len(s))
<1>1. n \in Nat
  BY KernelAssumption, FS_CardinalityType
<1>2. Len(s) = n
  BY <1>1
<1>3. Finished(c) = h[Len(s)].k
  BY DEF Finished, Each
<1> HIDE DEF n, s
<1>4. \E g : Loop(g, n)
  <2> DEFINE I == {m \in 0 .. n : \E g : Loop(g, m)}
  <2>1. 0 \in I
    <3>1. Loop([i \in 0 .. 0 |-> c], 0)
      OBVIOUS
    <3> HIDE DEF Loop
    <3> QED BY <1>1, <3>1
  <2>2. ASSUME NEW m \in 0 .. n - 1, m \in I PROVE m + 1 \in I
    <3>1. PICK g : Loop(g, m)
      BY <2>2
    <3> DEFINE gg == [i \in 0 .. m + 1 |-> IF i <= m THEN g[i] ELSE SetPriorityOnce(g[m])]
    <3>2. Loop(gg, m + 1)
      BY <1>1, <3>1
    <3> HIDE DEF Loop, gg
    <3> QED BY <1>1, <3>2
  <2> HIDE DEF I
  <2>3. n \in I
    BY <1>1, <2>1, <2>2, Rounds
  <2> QED BY <2>3 DEF I
<1>5. Loop(h, n)
  BY <1>2, <1>4
<1> HIDE DEF h
<1> DEFINE I == {i \in 0 .. n : CallIn(x, h[i])}
<1>6. 0 \in I
  BY <1>1, <1>5
<1>7. ASSUME NEW i \in 0 .. n - 1, i \in I PROVE i + 1 \in I
  <2>1. h[i + 1] = SetPriorityOnce(h[i])
    BY <1>1, <1>5
  <2>2. CallIn(x, h[i + 1])
    BY <1>7, <2>1, OnceShuffled
  <2> QED BY <1>1, <2>2
<1> HIDE DEF I
<1>8. n \in I
  BY <1>1, <1>6, <1>7, Rounds
<1> QED BY <1>2, <1>3, <1>8 DEF I, CallIn

LEMMA SetPriorityShuffled ==
    ASSUME NEW x, Typed(x), Placed(x, {}), NEW t \in Task \cup {InvalidId}, NEW p \in 0 .. Lowest
    PROVE  Shuffled(x, SetPriority(x, t, p))
<1>1. CallIn(x, [k |-> x, task |-> t, prio |-> p])
  BY ShuffledSelf DEF CallIn
<1> QED BY <1>1, FinishedShuffled DEF SetPriority

(***************************************************************************)
(* Part 6.  The steps that leave the owners of mutexes and the lists of    *)
(* those that wait for them alone.                                         *)
(***************************************************************************)

LEMMA OtherCall ==
    ASSUME NEW x, NEW c, NEW t, NEW u, Other(x, c, t, u)
    PROVE  /\ c[t].op \in {"create", "delete", "delleave", "awake", "prio", "reset"}
           /\ c[t].task = u
           /\ c[t].op = "create" => /\ c[t].prio \in 0 .. Lowest
                                    /\ x.st[u] = "DORMANT" /\ u \notin ToSet(x.free)
           /\ c[t].op = "delete" =>
                /\ x.st[u] # "DORMANT"
                /\ x.mid[u] # InvalidId => x.mx[x.mid[u]].own # u /\ ~Misses(x, u)
           /\ c[t].op = "delleave" => c[t].mutex \in Mutex /\ x.mx[c[t].mutex].own = u
           /\ c[t].op = "awake" =>
                x.st[u] = "WAITING" /\ x.tick[u] = Invalid /\ x.mid[u] = InvalidId
           /\ c[t].op = "prio" => c[t].seen = x.st[u] /\ x.st[u] # "DORMANT"
           /\ c[t].op = "reset" => c[t].ticks \in 0 .. Short /\ x.tick[u] # Invalid
<1>1. ASSUME NEW p \in 0 .. Lowest, NEW w \in BOOLEAN,
             c[t] = [op |-> "create", task |-> u, prio |-> p, waiting |-> w]
      PROVE  c[t].op = "create" /\ c[t].task = u /\ c[t].prio = p
  BY <1>1
<1>2. ASSUME c[t] = [op |-> "delete", task |-> u] PROVE c[t].op = "delete" /\ c[t].task = u
  BY <1>2
<1>3. ASSUME NEW m \in Mutex, c[t] = [op |-> "delleave", task |-> u, mutex |-> m]
      PROVE  c[t].op = "delleave" /\ c[t].task = u /\ c[t].mutex = m
  BY <1>3
<1>4. ASSUME c[t] = [op |-> "awake", task |-> u] PROVE c[t].op = "awake" /\ c[t].task = u
  BY <1>4
<1>5. ASSUME c[t] = [op |-> "prio", task |-> u, seen |-> x.st[u]]
      PROVE  c[t].op = "prio" /\ c[t].task = u /\ c[t].seen = x.st[u]
  BY <1>5
<1>6. ASSUME NEW n \in 0 .. Short, c[t] = [op |-> "reset", task |-> u, ticks |-> n]
      PROVE  c[t].op = "reset" /\ c[t].task = u /\ c[t].ticks = n
  BY <1>6
<1> QED BY <1>1, <1>2, <1>3, <1>4, <1>5, <1>6 DEF Other

\* The pending call of the running task.
LEMMA RunCall ==
    ASSUME NEW x, NEW c, KType(x), Calls(x, c), c[x.run].op # "none"
    PROVE  \/ Alone(x, c, x.run)
           \/ /\ x.lock > 0
              /\ \E u \in Task \ {Idle, x.run} : Other(x, c, x.run, u)
BY DEF KType, Calls, Locked

\* The calls of the other tasks stay as they are while what they depend on
\* stays.
LEMMA CallsKept ==
    ASSUME NEW x, NEW c, NEW y, NEW d, KType(x), Calls(x, c), y.run = x.run,
           d = [t \in Task |-> d[t]],
           \A t \in Task \ {x.run} : d[t] = c[t] \/ d[t] = NoCall,
           \A t \in Task \ {x.run} : x.mid[t] = InvalidId => y.mid[t] = InvalidId,
           \A t \in Task \ {x.run} : Doomed(x, c, t) => d[t] = NoCall,
           \A t \in Task \ {x.run}, m \in Mutex :
             d[t] # NoCall =>
             /\ x.mx[m].own = t => y.mx[m].own = t \/ Doomed(y, d, t)
             /\ t \in ToSet(x.mx[m].list) =>
                  y.mx[m].own = t \/ t \in ToSet(y.mx[m].list) \/ Doomed(y, d, t),
           Alone(y, d, x.run) \/ Locked(y, d, x.run)
    PROVE  Calls(y, d)
<1> SUFFICES ASSUME NEW t \in Task PROVE Alone(y, d, t) \/ Locked(y, d, t)
  BY DEF Calls
<1>1. CASE t = x.run
  BY <1>1
<1>2. CASE t # x.run
  <2>1. CASE d[t] = NoCall
    BY <2>1 DEF Alone
  <2>2. CASE d[t] # NoCall
    <3>1. d[t] = c[t] /\ ~Doomed(x, c, t) /\ Alone(x, c, t)
      BY <1>2, <2>2 DEF Calls, Locked
    <3>2. CASE \E m \in Mutex : /\ c[t] = EnterCall(m)
                                /\ \/ x.mx[m].own = t \/ t \in ToSet(x.mx[m].list)
                                   \/ Doomed(x, c, t)
      <4>1. PICK m \in Mutex : d[t] = EnterCall(m) /\ (x.mx[m].own = t \/ t \in ToSet(x.mx[m].list))
        BY <3>1, <3>2
      <4>2. y.mx[m].own = t \/ t \in ToSet(y.mx[m].list) \/ Doomed(y, d, t)
        BY <1>2, <2>2, <4>1
      <4> QED BY <4>1, <4>2 DEF Alone
    <3>3. CASE /\ t # Idle
               /\ \E m \in Mutex : /\ c[t] = [op |-> "delleave", task |-> t, mutex |-> m]
                                   /\ x.mx[m].own = t \/ Doomed(x, c, t)
      <4>1. PICK m \in Mutex : /\ d[t] = [op |-> "delleave", task |-> t, mutex |-> m]
                               /\ x.mx[m].own = t
        BY <3>1, <3>3
      <4>2. y.mx[m].own = t \/ Doomed(y, d, t)
        BY <1>2, <2>2, <4>1
      <4> QED BY <1>2, <3>3, <4>1, <4>2 DEF Alone
    <3>4. CASE c[t] = NoCall \/ c[t] = [op |-> "prio", task |-> t, seen |-> "RUNNING"]
      BY <3>1, <3>4 DEF Alone
    <3>5. CASE /\ t # Idle
               /\ \/ c[t] = [op |-> "suspend", task |-> t]
                  \/ c[t] = [op |-> "delete", task |-> t] /\ x.mid[t] = InvalidId
      BY <1>2, <3>1, <3>5 DEF Alone
    <3> QED BY <3>1, <3>2, <3>3, <3>4, <3>5 DEF Alone
  <2> QED BY <2>1, <2>2
<1> QED BY <1>1, <1>2

\* A task that changes its state becomes ready or waits.
LEMMA StatesKept ==
    ASSUME NEW x, NEW c, NEW y, NEW d, KType(x), States(x, c), x.st[x.run] = "RUNNING",
           y.run = x.run, y.free = x.free,
           \A t \in Task : y.st[t] # x.st[t] =>
             /\ x.st[t] # "DORMANT" /\ y.st[t] \in {"READY", "WAITING"}
             /\ t = Idle => y.st[t] = "READY",
           \A t \in Task \ {x.run} : d[t] = c[t],
           c[x.run].op # "create", d[x.run].op # "create",
           \A t \in Task : x.st[t] = "DORMANT" => y.mid[t] = x.mid[t]
    PROVE  States(y, d)
<1>1. x.run \in Task
  BY DEF KType
<1>2. \A t \in Task : /\ y.st[t] = "RUNNING" => x.st[t] = "RUNNING"
                      /\ y.st[t] = "DORMANT" <=> x.st[t] = "DORMANT"
                      /\ y.st[t] = "DORMANT" => t # x.run
  OBVIOUS
<1>3. y.st[Idle] \in {"READY", "RUNNING"}
  BY KernelAssumption DEF States
<1>4. {t \in Task : d[t].op = "create"} = {t \in Task : c[t].op = "create"}
  BY <1>1
<1>5. ToSet(y.free) \cup {d[t].task : t \in {u \in Task : d[u].op = "create"}}
        = ToSet(x.free) \cup {c[t].task : t \in {u \in Task : c[u].op = "create"}}
  <2>1. \A t \in {u \in Task : c[u].op = "create"} : d[t].task = c[t].task
    OBVIOUS
  <2> QED BY <1>4, <2>1
<1>6. {t \in Task : y.st[t] = "DORMANT"} = {t \in Task : x.st[t] = "DORMANT"}
  BY <1>2
<1>7. ASSUME NEW t \in Task, y.st[t] = "DORMANT" PROVE d[t] = NoCall /\ y.mid[t] = InvalidId
  <2>1. x.st[t] = "DORMANT" /\ t # x.run
    BY <1>2, <1>7
  <2> QED BY <2>1 DEF States
<1> QED BY <1>2, <1>3, <1>5, <1>6, <1>7 DEF States

\* A step that changes neither owners nor waiting lists.
LEMMA PlainStep ==
    ASSUME NEW x, NEW c, NEW l, Whole(x, c, l), x.st[x.run] = "RUNNING",
           NEW y, NEW d, NEW n, Typed(y), Placed(y, {}), Timed(y, n), Frame(x, y),
           \A t \in Task : y.st[t] # x.st[t] =>
             /\ x.st[t] # "DORMANT" /\ y.st[t] \in {"READY", "WAITING"}
             /\ t = Idle => y.st[t] = "READY",
           d = [t \in Task |-> d[t]], \A t \in Task \ {x.run} : d[t] = c[t],
           c[x.run].op \notin {"create", "delete", "enter"}, d[x.run].op # "create",
           Alone(y, d, x.run) \/ Locked(y, d, x.run)
    PROVE  Whole(y, d, n)
<1>1. KType(x) /\ x.run \in Task /\ States(x, c) /\ Owned(x, c) /\ Calls(x, c)
  BY DEF Whole, Typed, KType
<1>2. States(y, d)
  BY <1>1, StatesKept DEF Frame
<1>3. \A t \in Task, m \in Mutex : c[t] = EnterCall(m) => d[t] = EnterCall(m)
  BY DEF EnterCall
<1>4. Owned(y, d)
  <2>1. \A m \in Mutex : ToSet(x.mx[m].list) \subseteq Task /\ x.mx[m].own \in Task \cup {InvalidId}
    BY <1>1, Elements DEF KType, MutexType
  <2>2. x.mid \in [Task -> Mutex \cup {InvalidId}]
    BY <1>1 DEF KType
  <2>3. ASSUME NEW m \in Mutex
        PROVE  /\ y.mx[m].own # InvalidId =>
                    /\ y.mid[y.mx[m].own] = m /\ y.mx[m].own \notin ToSet(y.mx[m].list)
                    /\ m \in y.inside[y.mx[m].own] \/ d[y.mx[m].own] = EnterCall(m)
               /\ y.mx[m].own = InvalidId => y.mx[m].list = << >>
               /\ m > y.mnum => y.mx[m].own = InvalidId
               /\ \A t \in ToSet(y.mx[m].list) : d[t] = EnterCall(m)
    BY <1>1, <1>3, <2>1 DEF Owned, Frame
  <2>4. \A t \in Task : y.mid[t] # InvalidId =>
           y.mx[y.mid[t]].own = t \/ t \in ToSet(y.mx[y.mid[t]].list)
    BY <1>1, <2>2 DEF Owned, Frame
  <2>5. \A t \in Task, m \in Mutex : m \in y.inside[t] => y.mx[m].own = t
    BY <1>1 DEF Owned, Frame
  <2> QED BY <2>3, <2>4, <2>5 DEF Owned
<1>5. Calls(y, d)
  <2>1. \A t \in Task : ~Doomed(x, c, t)
    BY DEF Doomed
  <2> QED BY <1>1, <2>1, CallsKept DEF Frame
<1> QED BY <1>2, <1>4, <1>5 DEF Whole

(***************************************************************************)
(* Part 7.  The steps that call no function of mutex.c.                    *)
(***************************************************************************)

LEMMA SoundParts ==
    ASSUME Sound
    PROVE  /\ prog \in Programs /\ Whole(k, call, left) /\ k.st[k.run] = "RUNNING"
           /\ KType(k) /\ Typed(k) /\ Placed(k, {}) /\ States(k, call) /\ Owned(k, call)
           /\ Calls(k, call) /\ Timed(k, left)
           /\ k.run \in Task /\ k.lock \in Nat
           /\ call = [t \in Task |-> call[t]]
           /\ prog.prio \subseteq 0 .. Lowest
<1>1. prog \in Programs /\ Whole(k, call, left) /\ k.st[k.run] = "RUNNING"
  BY DEF Sound
<1>2. /\ Typed(k) /\ Placed(k, {}) /\ States(k, call) /\ Owned(k, call)
      /\ Calls(k, call) /\ Timed(k, left)
  BY <1>1 DEF Whole
<1>3. KType(k) /\ k.run \in Task
  BY <1>2 DEF Typed, KType
<1>4. k.lock \in Nat
  BY <1>2, TaskSchedAssumption DEF Typed
<1>5. call = [t \in Task |-> call[t]]
  BY <1>2 DEF Calls
<1>6. prog.prio \subseteq 0 .. Lowest
  BY <1>1, TaskSchedAssumption
<1> QED BY <1>1, <1>2, <1>3, <1>4, <1>5, <1>6

\* The end of a step that comes to OsSchedUnlock in the state y.
LEMMA Ended ==
    ASSUME Sound, UNCHANGED prog, NEW y, Whole(y, call', left'), Going(y), k' = OsSchedUnlock(y)
    PROVE  Sound'
<1> DEFINE z == OsSchedUnlock(y)
<1>1. Whole(z, call', left') /\ z.st[z.run] = "RUNNING"
  BY Unlocked
<1> HIDE DEF z
<1>2. k' = z
  BY DEF z
<1> QED BY <1>1, <1>2 DEF Sound

\* The end of a step that does not come to OsSchedUnlock.
LEMMA EndedHere ==
    ASSUME Sound, UNCHANGED prog, Whole(k', call', left'), k'.st[k'.run] = "RUNNING"
    PROVE  Sound'
BY DEF Sound

LEMMA Called ==
    ASSUME Sound, NEW v, Begin(v)
    PROVE  /\ call' = [t \in Task |-> call'[t]] /\ call'[k.run] = v
           /\ \A t \in Task \ {k.run} : call'[t] = call[t]
<1>1. call = [t \in Task |-> call[t]] /\ k.run \in Task
  BY SoundParts
<1>2. call' = [call EXCEPT ![k.run] = v]
  BY DEF Begin
<1> QED BY <1>1, <1>2

\* A running task is in no list.
LEMMA RunFree ==
    ASSUME Sound
    PROVE  /\ k.tick[k.run] = Invalid /\ k.run \notin ToSet(k.free)
           /\ \A m \in Mutex : k.run \notin ToSet(k.mx[m].list)
BY SoundParts DEF Placed

LEMMA FrameSelf ==
    ASSUME NEW x
    PROVE  Frame(x, x)
BY DEF Frame

LEMMA StepSuspendTest ==
    ASSUME Guarded, Sound, UNCHANGED prog, NEW t \in Task, SuspendTest(t)
    PROVE  Sound'
<1> DEFINE v == [op |-> "suspend", task |-> k.run]
<1>1. /\ t = k.run /\ k.run # Idle /\ k.lock = 0 /\ call[k.run] = NoCall
      /\ Begin(v) /\ k' = k /\ left' = left
  BY DEF SuspendTest, Caller
<1>2. call' = [u \in Task |-> call'[u]] /\ call'[k.run] = v /\ \A u \in Task \ {k.run} : call'[u] = call[u]
  BY <1>1, Called
<1>3. Alone(k, call', k.run)
  BY <1>1, <1>2 DEF Alone
<1>4. call[k.run].op = "none" /\ call'[k.run].op = "suspend"
  BY <1>1, <1>2 DEF NoCall
<1>5. Whole(k, call', left)
  BY <1>2, <1>3, <1>4, SoundParts, FrameSelf, PlainStep
<1> QED BY <1>1, <1>5, SoundParts, EndedHere

LEMMA StepSuspend ==
    ASSUME Guarded, Sound, UNCHANGED prog, CoSuspendTask
    PROVE  Sound'
<1> DEFINE y == [k EXCEPT !.req = TRUE, !.st[k.run] = "WAITING"]
<1>1. call[k.run].op = "suspend" /\ Begin(NoCall) /\ left' = left
  BY DEF CoSuspendTask, Pending, Finish, Begin
<1>2. Alone(k, call, k.run)
  BY <1>1, SoundParts, RunCall, OtherCall
<1>3. call[k.run].task = k.run /\ k.run # Idle /\ k.lock = 0
  BY <1>1, <1>2, AloneCall
<1>4. k' = OsSchedUnlock(y)
  <2>1. [[k EXCEPT !.req = TRUE] EXCEPT !.st[k.run] = "WAITING"] = y
    BY SoundParts DEF KType, Fields
  <2> QED BY <1>3, <2>1 DEF CoSuspendTask
<1>5. call' = [t \in Task |-> call'[t]] /\ call'[k.run] = NoCall /\ \A t \in Task \ {k.run} : call'[t] = call[t]
  BY <1>1, Called
<1>6. Alone(y, call', k.run) /\ call'[k.run].op = "none"
  BY <1>5 DEF Alone, NoCall
<1> HIDE DEF y
<1>7. /\ KType(y) /\ Frame(k, y)
      /\ y.st = [k.st EXCEPT ![k.run] = "WAITING"] /\ y.req = TRUE /\ y.slice = k.slice
      /\ y.tick = k.tick /\ y.dly = k.dly /\ y.prio = k.prio /\ y.rdy = k.rdy /\ y.intact = k.intact
      /\ y.mx = k.mx
  BY SoundParts DEF y, KType, Fields, Frame, Alive
<1>8. Typed(y) /\ Timed(y, left')
  <2>1. Typed(k) /\ Timed(k, left)
    BY SoundParts
  <2>2. Typed(y)
    BY <1>7, <2>1 DEF Typed, Frame
  <2>3. Timed(y, left')
    BY <1>1, <1>7, <2>1 DEF Timed
  <2> QED BY <2>2, <2>3
<1>9. \A t \in Task : y.st[t] = IF t = k.run THEN "WAITING" ELSE k.st[t]
  BY <1>7, SoundParts DEF KType
<1>10. Placed(y, {})
  <2>1. ToSet(y.rdy) = {t \in Task : y.st[t] = "READY"}
    BY <1>7, <1>9, SoundParts DEF Placed
  <2>2. ToSet(k.free) \subseteq Task /\ \A m \in Mutex : ToSet(k.mx[m].list) \subseteq Task
    BY SoundParts, Elements DEF KType, MutexType
  <2> QED BY <1>7, <1>9, <2>1, <2>2, SoundParts, RunFree DEF Placed, Frame
<1>11. Whole(y, call', left')
  <2>1. \A t \in Task : y.st[t] # k.st[t] =>
             /\ k.st[t] # "DORMANT" /\ y.st[t] \in {"READY", "WAITING"}
             /\ t = Idle => y.st[t] = "READY"
    BY <1>3, <1>9, SoundParts
  <2>2. Whole(k, call, left) /\ k.st[k.run] = "RUNNING" /\ Frame(k, y)
    BY <1>7, SoundParts
  <2> QED BY <1>1, <1>5, <1>6, <1>8, <1>10, <2>1, <2>2, PlainStep
<1>12. Going(y)
  BY <1>3, <1>7 DEF Going, Frame
<1> QED BY <1>4, <1>11, <1>12, Ended

LEMMA StepDelTest ==
    ASSUME Guarded, Sound, UNCHANGED prog, NEW t \in Task, DelTest(t)
    PROVE  Sound'
<1> DEFINE v == IF Holds(k, t) THEN [op |-> "delleave", task |-> t, mutex |-> k.mid[t]]
                               ELSE [op |-> "delete", task |-> t]
<1>1. /\ t # Idle /\ k.st[t] # "DORMANT" /\ (t = k.run => k.lock = 0) /\ (t # k.run => k.lock > 0)
      /\ \A m \in Mutex : t \in ToSet(k.mx[m].list) => ~Misses(k, t)
      /\ call[k.run] = NoCall
      /\ Begin(v) /\ k' = k /\ left' = left
  BY SoundParts DEF DelTest, Caller, Disciplined
<1>2. call' = [u \in Task |-> call'[u]] /\ call'[k.run] = v /\ \A u \in Task \ {k.run} : call'[u] = call[u]
  BY <1>1, Called
<1>3. call[k.run].op = "none" /\ call'[k.run].op \in {"delete", "delleave"}
  BY <1>1, <1>2 DEF NoCall
<1>4. k.mid[t] \in Mutex \cup {InvalidId}
  BY SoundParts DEF KType
<1>5. ASSUME ~Holds(k, t), k.mid[t] # InvalidId
      PROVE  k.mx[k.mid[t]].own # t /\ t \in ToSet(k.mx[k.mid[t]].list) /\ ~Misses(k, t)
  BY <1>1, <1>4, <1>5, SoundParts DEF Holds, Owned
<1>6. CASE t = k.run
  <2>1. ~Holds(k, t) => k.mid[t] = InvalidId
    BY <1>4, <1>5, <1>6, RunFree
  <2>2. Holds(k, t) => k.mid[t] \in Mutex /\ k.mx[k.mid[t]].own = t
    BY <1>4 DEF Holds
  <2>3. Alone(k, call', k.run)
    BY <1>1, <1>2, <1>6, <2>1, <2>2 DEF Alone
  <2>4. Whole(k, call', left)
    BY <1>2, <1>3, <2>3, SoundParts, FrameSelf, PlainStep
  <2> QED BY <1>1, <2>4, SoundParts, EndedHere
<1>7. CASE t # k.run
  <2>1. Holds(k, t) => k.mid[t] \in Mutex /\ k.mx[k.mid[t]].own = t
    BY <1>4 DEF Holds
  <2>2. Other(k, call', k.run, t)
    BY <1>1, <1>2, <1>5, <2>1 DEF Other
  <2>3. Locked(k, call', k.run)
    BY <1>1, <1>7, <2>2 DEF Locked
  <2>4. Whole(k, call', left)
    BY <1>2, <1>3, <2>3, SoundParts, FrameSelf, PlainStep
  <2> QED BY <1>1, <2>4, SoundParts, EndedHere
<1> QED BY <1>6, <1>7

LEMMA StepAwakeTest ==
    ASSUME Guarded, Sound, UNCHANGED prog, NEW t \in Task, AwakeTest(t)
    PROVE  Sound'
<1> DEFINE v == [op |-> "awake", task |-> t]
<1>1. /\ t # Idle /\ k.st[t] = "WAITING" /\ k.tick[t] = Invalid /\ k.mid[t] = InvalidId
      /\ (t # k.run => k.lock > 0) /\ call[k.run] = NoCall
      /\ Begin(v) /\ k' = k /\ left' = left
  BY DEF AwakeTest, Caller, Disciplined
<1>2. call' = [u \in Task |-> call'[u]] /\ call'[k.run] = v /\ \A u \in Task \ {k.run} : call'[u] = call[u]
  BY <1>1, Called
<1>3. Locked(k, call', k.run)
  BY <1>1, <1>2, SoundParts DEF Locked, Other
<1>4. call[k.run].op = "none" /\ call'[k.run].op = "awake"
  BY <1>1, <1>2 DEF NoCall
<1>5. Whole(k, call', left)
  BY <1>2, <1>3, <1>4, SoundParts, FrameSelf, PlainStep
<1> QED BY <1>1, <1>5, SoundParts, EndedHere

LEMMA StepAwake ==
    ASSUME Guarded, Sound, UNCHANGED prog, CoAwakeTask
    PROVE  Sound'
<1> DEFINE u == call[k.run].task
           y == InsertToTCBRdyList(k, u)
<1>1. /\ call[k.run].op = "awake" /\ Begin(NoCall) /\ left' = left
      /\ k' = OsSchedUnlock(y)
  BY DEF CoAwakeTask, Pending, Finish, Begin
<1>2. /\ u \in Task \ {Idle, k.run} /\ k.st[u] = "WAITING" /\ k.tick[u] = Invalid /\ k.mid[u] = InvalidId
  BY <1>1, SoundParts, RunCall, OtherCall, AloneCall
<1>3. call' = [t \in Task |-> call'[t]] /\ call'[k.run] = NoCall /\ \A t \in Task \ {k.run} : call'[t] = call[t]
  BY <1>1, Called
<1>4. Alone(y, call', k.run) /\ call'[k.run].op = "none"
  BY <1>3 DEF Alone, NoCall
<1>5. u \notin ToSet(k.free) /\ \A m \in Mutex : u \notin ToSet(k.mx[m].list)
  BY <1>2, SoundParts, KernelAssumption DEF Placed
<1> HIDE DEF u
<1>6. /\ Typed(y) /\ Placed(y, {}) /\ Frame(k, y)
      /\ y.st = [k.st EXCEPT ![u] = "READY"] /\ y.tick = k.tick /\ y.dly = k.dly
  BY <1>2, <1>5, SoundParts, NotReady, ReadyIn
<1> HIDE DEF y
<1>7. \A t \in Task : y.st[t] = IF t = u THEN "READY" ELSE k.st[t]
  BY <1>2, <1>6, SoundParts DEF KType
<1>8. Timed(y, left')
  BY <1>1, <1>6, SoundParts DEF Timed
<1>9. Whole(y, call', left')
  <2>1. \A t \in Task : y.st[t] # k.st[t] =>
             /\ k.st[t] # "DORMANT" /\ y.st[t] \in {"READY", "WAITING"}
             /\ t = Idle => y.st[t] = "READY"
    BY <1>2, <1>7
  <2>2. Whole(k, call, left) /\ k.st[k.run] = "RUNNING"
    BY SoundParts
  <2>3. call[k.run].op \notin {"create", "delete", "enter"} /\ call'[k.run].op # "create"
    BY <1>1, <1>4
  <2>4. Typed(y) /\ Placed(y, {}) /\ Frame(k, y)
    BY <1>6
  <2> QED BY <1>3, <1>4, <1>8, <2>1, <2>2, <2>3, <2>4, PlainStep
<1>10. Going(y)
  <2>1. k.run # u /\ k.run \in Task /\ k.st[k.run] = "RUNNING" /\ y.run = k.run
    BY <1>2, <1>6, SoundParts DEF Frame
  <2> QED BY <1>7, <2>1 DEF Going
<1> QED BY <1>1, <1>9, <1>10, Ended

LEMMA StepSetPrioTest ==
    ASSUME Guarded, Sound, UNCHANGED prog, NEW t \in Task, NEW p \in prog.prio, SetPrioTest(t, p)
    PROVE  Sound'
<1> DEFINE h == SetPriorityHead(k, t, p)
           y == [h EXCEPT !.base[t] = p]
           v == [op |-> "prio", task |-> t, seen |-> k.st[t]]
<1>1. /\ t # Idle /\ k.st[t] # "DORMANT" /\ (t # k.run => k.lock > 0)
      /\ call[k.run] = NoCall /\ k' = y /\ left' = left
      /\ call' = call \/ Begin(v)
  BY DEF SetPrioTest, Caller, Disciplined
<1>2. p \in 0 .. Lowest
  BY SoundParts
<1>3. Shuffled(k, h)
  BY <1>2, SoundParts, HeadShuffled
<1> HIDE DEF h
<1>4. /\ KType(y) /\ Frame(h, y) /\ y.st = h.st /\ y.tick = h.tick /\ y.dly = h.dly /\ y.rdy = h.rdy
      /\ y.slice = h.slice /\ y.req = h.req /\ y.intact = h.intact /\ y.prio = h.prio /\ y.mx = h.mx
  <2>1. KType(h)
    BY <1>3 DEF Shuffled, Typed
  <2> QED BY <2>1 DEF KType, Fields, Frame
<1> HIDE DEF y
<1>5. Typed(y) /\ Placed(y, {}) /\ Frame(k, y)
  <2>1. Typed(h) /\ Placed(h, {}) /\ Frame(k, h)
    BY <1>3 DEF Shuffled
  <2>2. Typed(y)
    BY <1>4, <2>1 DEF Typed, Frame
  <2>3. Placed(y, {})
    BY <1>4, <2>1 DEF Placed, Frame
  <2> QED BY <1>4, <2>1, <2>2, <2>3, FrameTrans
<1>6. y.st = k.st /\ y.tick = k.tick /\ y.dly = k.dly
  BY <1>3, <1>4 DEF Shuffled
<1>7. Timed(y, left')
  BY <1>1, <1>6, SoundParts DEF Timed
<1>8. Whole(k, call, left) /\ k.st[k.run] = "RUNNING" /\ call[k.run].op = "none"
  BY <1>1, SoundParts DEF NoCall
<1>9. Whole(y, call', left')
  <2>1. CASE call' = call
    <3>1. Alone(y, call', k.run) /\ call'[k.run].op = "none"
      BY <1>1, <1>8, <2>1 DEF Alone
    <3>2. call' = [u \in Task |-> call'[u]] /\ \A u \in Task \ {k.run} : call'[u] = call[u]
      BY <2>1, SoundParts
    <3> QED BY <1>5, <1>6, <1>7, <1>8, <3>1, <3>2, PlainStep
  <2>2. CASE Begin(v)
    <3>1. /\ call' = [u \in Task |-> call'[u]] /\ call'[k.run] = v
          /\ \A u \in Task \ {k.run} : call'[u] = call[u]
      BY <2>2, Called
    <3>2. call'[k.run].op = "prio"
      BY <3>1
    <3>3. Alone(y, call', k.run) \/ Locked(y, call', k.run)
      <4>1. CASE t = k.run
        <5>1. call'[k.run] = [op |-> "prio", task |-> k.run, seen |-> "RUNNING"]
          BY <1>8, <3>1, <4>1
        <5> QED BY <5>1 DEF Alone
      <4>2. CASE t # k.run
        <5>1. Other(y, call', k.run, t)
          BY <1>1, <1>6, <3>1 DEF Other
        <5>2. y.run = k.run /\ y.lock = k.lock
          BY <1>5 DEF Frame
        <5> QED BY <1>1, <4>2, <5>1, <5>2 DEF Locked
      <4> QED BY <4>1, <4>2
    <3> QED BY <1>5, <1>6, <1>7, <1>8, <3>1, <3>2, <3>3, PlainStep
  <2> QED BY <1>1, <2>1, <2>2
<1>10. y.st[y.run] = "RUNNING"
  BY <1>5, <1>6, <1>8 DEF Frame
<1> QED BY <1>1, <1>9, <1>10, EndedHere

LEMMA StepSetPriority ==
    ASSUME Guarded, Sound, UNCHANGED prog, CoSetPriority
    PROVE  Sound'
<1> DEFINE t == call[k.run].task
           seen == call[k.run].seen
           y == Finished(SetPriorityTail(k, t, seen))
<1>1. /\ call[k.run].op = "prio" /\ Begin(NoCall) /\ left' = left
      /\ k' = IF y = k THEN k ELSE OsSchedUnlock(y)
  BY DEF CoSetPriority, Pending, Finish, Begin
<1>2. t \in Task /\ seen \in Alive /\ (seen = "READY" => k.st[t] = "READY")
  <2>1. CASE Alone(k, call, k.run)
    BY <1>1, <2>1, SoundParts, AloneCall DEF Alive
  <2>2. ASSUME NEW u \in Task \ {Idle, k.run}, Other(k, call, k.run, u)
        PROVE  t \in Task /\ seen \in Alive /\ (seen = "READY" => k.st[t] = "READY")
    <3>1. t = u /\ seen = k.st[u] /\ k.st[u] # "DORMANT"
      BY <1>1, <2>2, OtherCall
    <3> QED BY <3>1, SoundParts DEF KType
  <2>3. call[k.run].op # "none"
    BY <1>1
  <2> QED BY <2>1, <2>2, <2>3, SoundParts, RunCall
<1> HIDE DEF t, seen
<1>3. Shuffled(k, y)
  BY <1>2, SoundParts, TailShuffled, FinishedShuffled
<1> HIDE DEF y
<1>4. /\ call' = [u \in Task |-> call'[u]] /\ call'[k.run] = NoCall
      /\ \A u \in Task \ {k.run} : call'[u] = call[u]
  BY <1>1, Called
<1>5. ASSUME NEW z, Shuffled(k, z) PROVE Whole(z, call', left') /\ z.st[z.run] = "RUNNING"
  <2>1. Typed(z) /\ Placed(z, {}) /\ Frame(k, z) /\ z.st = k.st /\ z.tick = k.tick /\ z.dly = k.dly
    BY <1>5 DEF Shuffled
  <2>2. Timed(z, left')
    BY <1>1, <2>1, SoundParts DEF Timed
  <2>3. Whole(k, call, left) /\ k.st[k.run] = "RUNNING" /\ call[k.run].op = "prio"
    BY <1>1, SoundParts
  <2>4. Alone(z, call', k.run) /\ call'[k.run].op = "none"
    BY <1>4 DEF Alone, NoCall
  <2>5. Whole(z, call', left')
    BY <1>4, <2>1, <2>2, <2>3, <2>4, PlainStep
  <2> QED BY <2>1, <2>3, <2>5 DEF Frame
<1>6. CASE y = k
  <2>1. k' = k /\ Whole(k, call', left')
    BY <1>1, <1>3, <1>5, <1>6
  <2> QED BY <2>1, SoundParts, EndedHere
<1>7. CASE y # k
  <2>1. k' = OsSchedUnlock(y) /\ Whole(y, call', left') /\ Going(y)
    BY <1>1, <1>3, <1>5, <1>7 DEF Going
  <2> QED BY <2>1, Ended
<1> QED BY <1>6, <1>7

\* A list that the task is not in does not know what remains of its delay.
LEMMA TimedElse ==
    ASSUME NEW x, KType(x), NEW l, Timed(x, l), NEW t \in Task, t \notin ToSet(x.dly), NEW n \in 0 .. Short
    PROVE  Timed(x, [l EXCEPT ![t] = n])
<1> DEFINE m == [l EXCEPT ![t] = n]
<1>1. m \in [Task -> 0 .. Short] /\ \A u \in Task \ {t} : m[u] = l[u]
  BY DEF Timed
<1>2. DOMAIN x.dly = 1 .. Len(x.dly) /\ Len(x.dly) \in Nat /\ ToSet(x.dly) = {x.dly[i] : i \in 1 .. Len(x.dly)}
  BY Elements DEF KType
<1>3. \A i \in DOMAIN x.dly : m[x.dly[i]] = l[x.dly[i]]
  <2>1. \A i \in 1 .. Len(x.dly) : x.dly[i] \in Task \ {t}
    BY <1>2, ElementOfSeq DEF KType
  <2> QED BY <1>1, <1>2, <2>1
<1>4. \A i \in DOMAIN x.dly : i # 1 => m[x.dly[i - 1]] = l[x.dly[i - 1]]
  <2>1. \A i \in DOMAIN x.dly : i # 1 => i - 1 \in DOMAIN x.dly
    BY <1>2
  <2> QED BY <1>3, <2>1
<1> HIDE DEF m
<1>5. Timed(x, m)
  BY <1>1, <1>3, <1>4 DEF Timed
<1> QED BY <1>5 DEF m

LEMMA StepDelay ==
    ASSUME Guarded, ShortDelays, Sound, UNCHANGED prog, NEW n \in prog.delays, CoTickDelay(n)
    PROVE  Sound'
<1> DEFINE y == InsertDelayList(k, k.run, n)
<1>1. /\ k.run # Idle /\ call[k.run] = NoCall /\ k.lock = 0 /\ call' = call
      /\ left' = [left EXCEPT ![k.run] = n] /\ k' = OsSchedUnlock(y)
  BY DEF CoTickDelay, Caller
<1>2. n \in 1 .. Short
  BY SoundParts DEF ShortDelays
<1>3. /\ Typed(y) /\ Placed(y, {}) /\ Frame(k, y) /\ Timed(y, left')
      /\ y.st = [k.st EXCEPT ![k.run] = "WAITING"] /\ y.req = TRUE
  <2>1. k.st[k.run] # "READY" /\ k.run \in Task /\ Typed(k) /\ Placed(k, {}) /\ Timed(k, left)
    BY SoundParts
  <2> HIDE DEF y
  <2>2. /\ Typed(y) /\ Placed(y, {}) /\ Frame(k, y) /\ Timed(y, [left EXCEPT ![k.run] = n])
        /\ y.st = [k.st EXCEPT ![k.run] = "WAITING"] /\ y.req = TRUE
    BY <1>2, <2>1, RunFree, DelayIn DEF y
  <2> QED BY <1>1, <2>2
<1> HIDE DEF y
<1>4. \A t \in Task : y.st[t] = IF t = k.run THEN "WAITING" ELSE k.st[t]
  BY <1>3, SoundParts DEF KType
<1>5. Whole(y, call', left')
  <2>1. \A t \in Task : y.st[t] # k.st[t] =>
             /\ k.st[t] # "DORMANT" /\ y.st[t] \in {"READY", "WAITING"}
             /\ t = Idle => y.st[t] = "READY"
    BY <1>1, <1>4, SoundParts
  <2>2. Whole(k, call, left) /\ k.st[k.run] = "RUNNING"
    BY SoundParts
  <2>3. call[k.run].op \notin {"create", "delete", "enter"} /\ call'[k.run].op # "create"
    BY <1>1 DEF NoCall
  <2>4. Typed(y) /\ Placed(y, {}) /\ Frame(k, y) /\ Timed(y, left')
    BY <1>3
  <2>5. Alone(y, call', k.run)
    BY <1>1 DEF Alone
  <2>6. call' = [u \in Task |-> call'[u]] /\ \A u \in Task \ {k.run} : call'[u] = call[u]
    BY <1>1, SoundParts
  <2> QED BY <2>1, <2>2, <2>3, <2>4, <2>5, <2>6, PlainStep
<1>6. Going(y)
  BY <1>1, <1>3 DEF Going, Frame
<1> QED BY <1>1, <1>5, <1>6, Ended

LEMMA StepResetTest ==
    ASSUME Guarded, ShortDelays, Sound, UNCHANGED prog, NEW t \in Task,
           NEW n \in prog.delays \cup {0}, ResetDelayTest(t, n)
    PROVE  Sound'
<1> DEFINE v == [op |-> "reset", task |-> t, ticks |-> n]
<1>1. /\ k.tick[t] # Invalid /\ (t # k.run => k.lock > 0) /\ call[k.run] = NoCall
      /\ Begin(v) /\ k' = k /\ left' = left
  BY DEF ResetDelayTest, Caller, Disciplined
<1>2. /\ call' = [u \in Task |-> call'[u]] /\ call'[k.run] = v
      /\ \A u \in Task \ {k.run} : call'[u] = call[u]
  BY <1>1, Called
<1>3. n \in 0 .. Short
  BY SoundParts, Range32 DEF ShortDelays
<1>4. t \in Task \ {Idle, k.run}
  <2>1. k.st[t] = "WAITING" /\ k.st[k.run] = "RUNNING" /\ k.st[Idle] # "WAITING"
    BY <1>1, SoundParts DEF Placed, States
  <2> QED BY <2>1
<1>5. Locked(k, call', k.run)
  BY <1>1, <1>2, <1>3, <1>4 DEF Locked, Other
<1>6. call[k.run].op = "none" /\ call'[k.run].op = "reset"
  BY <1>1, <1>2 DEF NoCall
<1>7. Whole(k, call', left)
  BY <1>2, <1>5, <1>6, SoundParts, FrameSelf, PlainStep
<1> QED BY <1>1, <1>7, SoundParts, EndedHere

LEMMA StepReset ==
    ASSUME Guarded, Sound, UNCHANGED prog, CoResetTaskDelayTick
    PROVE  Sound'
<1> DEFINE u == call[k.run].task
           n == call[k.run].ticks
           k1 == RemoveDelayList(k, u)
           y == IF n = 0 THEN InsertToTCBRdyList(k1, u) ELSE InsertDelayList(k1, u, n)
<1>1. /\ call[k.run].op = "reset" /\ Begin(NoCall) /\ left' = [left EXCEPT ![u] = n]
      /\ k' = OsSchedUnlock(y)
  BY DEF CoResetTaskDelayTick, Pending, Finish, Begin
<1>2. u \in Task \ {Idle, k.run} /\ k.tick[u] # Invalid /\ n \in 0 .. Short
  BY <1>1, SoundParts, RunCall, OtherCall, AloneCall
<1>3. /\ call' = [t \in Task |-> call'[t]] /\ call'[k.run] = NoCall
      /\ \A t \in Task \ {k.run} : call'[t] = call[t]
  BY <1>1, Called
<1> HIDE DEF u, n
<1>4. k.st[u] = "WAITING" /\ Typed(k) /\ Placed(k, {}) /\ Timed(k, left) /\ KType(k)
  BY <1>2, SoundParts DEF Placed
<1>5. /\ Typed(k1) /\ Placed(k1, {}) /\ Frame(k, k1) /\ Timed(k1, left)
      /\ k1.st = k.st /\ k1.tick[u] = Invalid
  BY <1>2, <1>4, DelayOut
<1> HIDE DEF k1
<1>6. u \notin ToSet(k1.free) /\ \A m \in Mutex : u \notin ToSet(k1.mx[m].list)
  BY <1>2, <1>4, <1>5 DEF Placed, Frame
<1>7. KType(k1) /\ u \notin ToSet(k1.dly)
  BY <1>5 DEF Typed, Placed
<1>8. /\ Typed(y) /\ Placed(y, {}) /\ Frame(k1, y) /\ Timed(y, left')
      /\ \A t \in Task : y.st[t] # k.st[t] => t = u /\ y.st[t] \in {"READY", "WAITING"}
  <2>1. CASE n = 0
    <3> DEFINE z == InsertToTCBRdyList(k1, u)
    <3>1. /\ Typed(z) /\ Placed(z, {}) /\ Frame(k1, z)
          /\ z.st = [k1.st EXCEPT ![u] = "READY"] /\ z.tick = k1.tick /\ z.dly = k1.dly
      BY <1>2, <1>4, <1>5, <1>6, NotReady, ReadyIn
    <3>2. y = z
      BY <2>1
    <3> HIDE DEF y, z
    <3>3. \A t \in Task : z.st[t] = IF t = u THEN "READY" ELSE k.st[t]
      BY <1>2, <1>4, <1>5, <3>1 DEF KType
    <3>4. Timed(k1, left')
      BY <1>1, <1>2, <1>5, <1>7, TimedElse
    <3>5. Timed(z, left')
      BY <3>1, <3>4 DEF Timed
    <3> QED BY <3>1, <3>2, <3>3, <3>5
  <2>2. CASE n # 0
    <3> DEFINE z == InsertDelayList(k1, u, n)
    <3>1. n \in 1 .. Short
      BY <1>2, <2>2, Range32
    <3>2. /\ Typed(z) /\ Placed(z, {}) /\ Frame(k1, z) /\ Timed(z, [left EXCEPT ![u] = n])
          /\ z.st = [k1.st EXCEPT ![u] = "WAITING"]
      <4> HIDE DEF z
      <4>1. k1.st[u] # "READY"
        BY <1>4, <1>5
      <4>2. u \in Task /\ Typed(k1) /\ Placed(k1, {}) /\ Timed(k1, left) /\ k1.tick[u] = Invalid
        BY <1>2, <1>5
      <4> QED BY <1>6, <3>1, <4>1, <4>2, DelayIn DEF z
    <3>3. y = z
      BY <2>2
    <3> HIDE DEF y, z
    <3>4. \A t \in Task : z.st[t] = IF t = u THEN "WAITING" ELSE k.st[t]
      BY <1>2, <1>4, <1>5, <3>2 DEF KType
    <3> QED BY <1>1, <3>2, <3>3, <3>4
  <2> QED BY <2>1, <2>2
<1> HIDE DEF y
<1>9. Frame(k, y)
  BY <1>5, <1>8, FrameTrans
<1>10. Whole(y, call', left')
  <2>1. \A t \in Task : y.st[t] # k.st[t] =>
             /\ k.st[t] # "DORMANT" /\ y.st[t] \in {"READY", "WAITING"}
             /\ t = Idle => y.st[t] = "READY"
    BY <1>2, <1>4, <1>8
  <2>2. Whole(k, call, left) /\ k.st[k.run] = "RUNNING"
    BY SoundParts
  <2>3. call[k.run].op \notin {"create", "delete", "enter"} /\ call'[k.run].op # "create"
    BY <1>1, <1>3 DEF NoCall
  <2>4. Typed(y) /\ Placed(y, {}) /\ Timed(y, left')
    BY <1>8
  <2>5. Alone(y, call', k.run)
    BY <1>3 DEF Alone
  <2> QED BY <1>3, <1>9, <2>1, <2>2, <2>3, <2>4, <2>5, PlainStep
<1>11. Going(y)
  <2>1. y.run = k.run /\ k.run \in Task /\ k.run # u /\ k.st[k.run] = "RUNNING"
    BY <1>2, <1>9, SoundParts DEF Frame
  <2> QED BY <1>8, <2>1 DEF Going
<1> QED BY <1>1, <1>10, <1>11, Ended

\* The same lists, owners and pending calls under another OSSchedLock.
LEMMA Relocked ==
    ASSUME Sound, NEW n \in 0 .. MaxLock, call[k.run] = NoCall
    PROVE  Whole([k EXCEPT !.lock = n], call, left) /\ Going([k EXCEPT !.lock = n])
<1> DEFINE y == [k EXCEPT !.lock = n]
<1>1. /\ KType(y) /\ y.lock = n /\ y.st = k.st /\ y.run = k.run /\ y.timeReq = k.timeReq /\ y.free = k.free
      /\ y.rdy = k.rdy /\ y.dly = k.dly /\ y.tick = k.tick /\ y.prio = k.prio
      /\ y.slice = k.slice /\ y.req = k.req /\ y.intact = k.intact
      /\ y.ev = k.ev /\ y.pset = k.pset /\ y.flg = k.flg /\ y.srq = k.srq /\ y.mx = k.mx
      /\ y.mid = k.mid /\ y.mnum = k.mnum /\ y.inside = k.inside /\ y.mstale = k.mstale
  BY SoundParts DEF KType, Fields
<1> HIDE DEF y
<1>2. Typed(y)
  BY <1>1, SoundParts DEF Typed
<1>3. Placed(y, {})
  BY <1>1, SoundParts DEF Placed
<1>4. States(y, call)
  BY <1>1, SoundParts DEF States
<1>5. Owned(y, call)
  BY <1>1, SoundParts DEF Owned
<1>6. Timed(y, left)
  BY <1>1, SoundParts DEF Timed
<1>7. Calls(y, call)
  <2>1. \A t \in Task : ~Doomed(k, call, t)
    BY DEF Doomed, NoCall
  <2>2. Alone(y, call, k.run)
    BY DEF Alone
  <2>3. KType(k) /\ Calls(k, call) /\ call = [t \in Task |-> call[t]]
    BY SoundParts
  <2> QED BY <1>1, <2>1, <2>2, <2>3, CallsKept
<1>8. Going(y)
  BY <1>1, SoundParts DEF Going
<1> QED BY <1>2, <1>3, <1>4, <1>5, <1>6, <1>7, <1>8 DEF Whole, y

LEMMA StepLock ==
    ASSUME Sound, UNCHANGED prog, CoSchedLock
    PROVE  Sound'
<1> DEFINE n == k.lock + 1
           y == [k EXCEPT !.lock = n]
<1>1. call[k.run] = NoCall /\ k' = y /\ call' = call /\ left' = left /\ k.lock < MaxLock
  BY DEF CoSchedLock, Caller
<1>2. n \in 0 .. MaxLock
  BY <1>1, SoundParts, TaskSchedAssumption
<1>3. y.st = k.st /\ y.run = k.run
  BY SoundParts DEF KType, Fields
<1> HIDE DEF n
<1>4. Whole(y, call, left)
  BY <1>1, <1>2, Relocked
<1> HIDE DEF y
<1> QED BY <1>1, <1>3, <1>4, SoundParts, EndedHere

LEMMA StepUnlock ==
    ASSUME Sound, UNCHANGED prog, CoSchedUnlock
    PROVE  Sound'
<1> DEFINE n == k.lock - 1
           y == [k EXCEPT !.lock = n]
<1>1. /\ call[k.run] = NoCall /\ k' = OsSchedUnlock(y) /\ call' = call /\ left' = left
      /\ k.lock > 0
  BY DEF CoSchedUnlock, Caller
<1>2. n \in 0 .. MaxLock
  <2>1. k.lock \in 0 .. MaxLock
    BY SoundParts DEF Typed
  <2> QED BY <1>1, <2>1, TaskSchedAssumption
<1> HIDE DEF n
<1>3. Whole(y, call, left) /\ Going(y)
  BY <1>1, <1>2, Relocked
<1> HIDE DEF y
<1> QED BY <1>1, <1>3, Ended

LEMMA StepCreateMutex ==
    ASSUME Sound, UNCHANGED prog, CoCreateMutex
    PROVE  Sound'
<1> DEFINE i == k.mnum + 1
           y == [k EXCEPT !.mnum = i, !.mx[i] = NewMutex]
<1>1. /\ call[k.run] = NoCall /\ k.mnum < Cardinality(Mutex) /\ k' = OsSchedUnlock(y)
      /\ call' = call /\ left' = left
  <2>1. [k EXCEPT !.mnum = @ + 1, !.mx[k.mnum + 1] = NewMutex] = y
    OBVIOUS
  <2> QED BY <2>1 DEF CoCreateMutex, Caller
<1>2. k.mnum \in Nat /\ i \in Nat /\ i \in Mutex /\ Mutex \subseteq Nat /\ i > k.mnum /\ i \in 0 .. Cardinality(Mutex)
  <2>1. k.mnum \in 0 .. Cardinality(Mutex) /\ Cardinality(Mutex) \in Nat
    <3>1. IsFiniteSet(Mutex)
      BY KernelAssumption
    <3> QED BY <3>1, FS_CardinalityType, SoundParts DEF Typed
  <2> QED BY <1>1, <2>1, KernelAssumption
<1>3. k.mx[i].own = InvalidId /\ k.mx[i].list = << >>
  BY <1>2, SoundParts DEF Owned
<1>4. NewMutex \in MutexType /\ NewMutex.own = InvalidId /\ NewMutex.list = << >>
  BY DEF NewMutex, MutexType
<1>5. /\ KType(y) /\ y.mnum = i /\ y.mx = [k.mx EXCEPT ![i] = NewMutex]
      /\ y.lock = k.lock /\ y.st = k.st /\ y.run = k.run /\ y.timeReq = k.timeReq /\ y.free = k.free
      /\ y.rdy = k.rdy /\ y.dly = k.dly /\ y.tick = k.tick /\ y.prio = k.prio
      /\ y.slice = k.slice /\ y.req = k.req /\ y.intact = k.intact
      /\ y.ev = k.ev /\ y.pset = k.pset /\ y.flg = k.flg /\ y.srq = k.srq
      /\ y.mid = k.mid /\ y.inside = k.inside /\ y.mstale = k.mstale
  BY <1>2, <1>4, SoundParts DEF KType, Fields
<1> HIDE DEF y, i
<1>6. \A m \in Mutex : y.mx[m] = IF m = i THEN NewMutex ELSE k.mx[m]
  BY <1>5, SoundParts DEF KType
<1>7. \A m \in Mutex : y.mx[m].own = k.mx[m].own /\ y.mx[m].list = k.mx[m].list
  BY <1>3, <1>4, <1>6
<1>8. Typed(y)
  <2>1. \A t \in Task : k.mid[t] # i
    <3> SUFFICES ASSUME NEW t \in Task, k.mid[t] = i PROVE FALSE
      OBVIOUS
    <3>1. i # InvalidId
      BY <1>2, KernelAssumption
    <3>2. k.mx[i].own = t \/ t \in ToSet(k.mx[i].list)
      BY <3>1, SoundParts DEF Owned
    <3>3. ToSet(k.mx[i].list) = {}
      <4>1. k.mx[i].list \in Seq(Task)
        BY <1>2, SoundParts DEF KType, MutexType
      <4> QED BY <1>3, <4>1, Elements
    <3> QED BY <1>3, <3>2, <3>3, KernelAssumption
  <2>2. ASSUME NEW t \in Task, y.mid[t] # InvalidId PROVE y.mx[y.mid[t]].orig \in 0 .. Lowest
    <3>1. k.mid[t] \in Mutex /\ k.mid[t] # i /\ k.mx[k.mid[t]].orig \in 0 .. Lowest
      BY <1>5, <2>1, <2>2, SoundParts DEF Typed, KType
    <3> QED BY <1>5, <1>6, <3>1
  <2>3. Typed(k)
    BY SoundParts
  <2> QED BY <1>2, <1>5, <2>2, <2>3 DEF Typed
<1>9. Placed(y, {})
  <2>1. Placed(k, {})
    BY SoundParts
  <2> QED BY <1>5, <1>7, <2>1 DEF Placed
<1>10. States(y, call)
  BY <1>5, SoundParts DEF States
<1>11. Owned(y, call)
  <2>1. Owned(k, call) /\ KType(k)
    BY SoundParts
  <2>2. ASSUME NEW m \in Mutex
        PROVE  /\ y.mx[m].own # InvalidId =>
                    /\ y.mid[y.mx[m].own] = m /\ y.mx[m].own \notin ToSet(y.mx[m].list)
                    /\ m \in y.inside[y.mx[m].own] \/ call[y.mx[m].own] = EnterCall(m)
               /\ y.mx[m].own = InvalidId => y.mx[m].list = << >>
               /\ m > y.mnum => y.mx[m].own = InvalidId
               /\ \A t \in ToSet(y.mx[m].list) : call[t] = EnterCall(m)
    <3>1. m > y.mnum => m > k.mnum
      BY <1>2, <1>5
    <3> QED BY <1>5, <1>7, <2>1, <3>1 DEF Owned
  <2>3. \A t \in Task : y.mid[t] # InvalidId =>
           y.mx[y.mid[t]].own = t \/ t \in ToSet(y.mx[y.mid[t]].list)
    <3>1. \A t \in Task : k.mid[t] \in Mutex \cup {InvalidId}
      BY <2>1 DEF KType
    <3> QED BY <1>5, <1>7, <2>1, <3>1 DEF Owned
  <2>4. \A t \in Task, m \in Mutex : m \in y.inside[t] => y.mx[m].own = t
    BY <1>5, <1>7, <2>1 DEF Owned
  <2> QED BY <2>2, <2>3, <2>4 DEF Owned
<1>12. Calls(y, call)
  <2>1. \A t \in Task : ~Doomed(k, call, t)
    BY <1>1 DEF Doomed, NoCall
  <2>2. Alone(y, call, k.run)
    BY <1>1 DEF Alone
  <2>3. KType(k) /\ Calls(k, call) /\ call = [t \in Task |-> call[t]]
    BY SoundParts
  <2>4. y.run = k.run /\ y.mid = k.mid
    BY <1>5
  <2> QED BY <1>7, <2>1, <2>2, <2>3, <2>4, CallsKept
<1>13. Timed(y, left)
  BY <1>5, SoundParts DEF Timed
<1>14. Whole(y, call', left')
  BY <1>1, <1>8, <1>9, <1>10, <1>11, <1>12, <1>13 DEF Whole
<1>15. Going(y)
  BY <1>5, SoundParts DEF Going
<1> QED BY <1>1, <1>14, <1>15, Ended

\* Only the running task can be in CreateTask.
LEMMA OneCreates ==
    ASSUME Sound, NEW t \in Task \ {k.run}
    PROVE  call[t].op # "create"
<1>1. Alone(k, call, t)
  BY SoundParts DEF Calls, Locked
<1> QED BY <1>1, AloneCall

LEMMA StepAssign ==
    ASSUME Guarded, Sound, UNCHANGED prog, NEW p \in prog.prio, NEW w \in BOOLEAN, AssignTCB(p, w)
    PROVE  Sound'
<1>1. call[k.run] = NoCall /\ k.lock > 0 /\ left' = left
  BY SoundParts DEF AssignTCB, Caller
<1>2. CASE k.free = << >>
  <2>1. k' = OsSchedUnlock(k) /\ call' = call
    BY <1>2 DEF AssignTCB
  <2>2. Going(k)
    BY SoundParts DEF Going
  <2> QED BY <1>1, <2>1, <2>2, SoundParts, Ended
<1>3. CASE k.free # << >>
  <2> DEFINE u == Head(k.free)
             rest == Tail(k.free)
             v == [op |-> "create", task |-> u, prio |-> p, waiting |-> w]
             y == [k EXCEPT !.free = rest]
  <2>1. k' = OsSchedUnlock(y) /\ Begin(v)
    BY <1>3 DEF AssignTCB
  <2>2. k.free \in Seq(Task) /\ IsInjective(k.free) /\ ToSet(k.free) \subseteq Task
    BY SoundParts, Elements DEF KType, Placed
  <2>3. /\ u \in ToSet(k.free) /\ rest \in Seq(Task) /\ IsInjective(rest)
        /\ ToSet(rest) = ToSet(k.free) \ {u}
    BY <1>3, <2>2, HeadOnce
  <2>4. u \in Task /\ k.st[u] = "DORMANT" /\ u # k.run /\ u # Idle
    BY <2>2, <2>3, SoundParts DEF Placed, States
  <2> HIDE DEF u, rest
  <2>5. /\ call' = [t \in Task |-> call'[t]] /\ call'[k.run] = v
        /\ \A t \in Task \ {k.run} : call'[t] = call[t]
    BY <2>1, Called
  <2>6. /\ KType(y) /\ y.free = rest /\ y.mx = k.mx /\ y.mnum = k.mnum
        /\ y.lock = k.lock /\ y.st = k.st /\ y.run = k.run /\ y.timeReq = k.timeReq
        /\ y.rdy = k.rdy /\ y.dly = k.dly /\ y.tick = k.tick /\ y.prio = k.prio
        /\ y.slice = k.slice /\ y.req = k.req /\ y.intact = k.intact
        /\ y.ev = k.ev /\ y.pset = k.pset /\ y.flg = k.flg /\ y.srq = k.srq
        /\ y.mid = k.mid /\ y.inside = k.inside /\ y.mstale = k.mstale
    BY <2>3, SoundParts DEF KType, Fields
  <2> HIDE DEF y
  <2>7. Typed(y)
    BY <2>6, SoundParts DEF Typed
  <2>8. Placed(y, {})
    BY <2>3, <2>6, SoundParts DEF Placed
  <2>9. call'[k.run].op = "create" /\ call'[k.run].task = u /\ call[k.run].op = "none"
    BY <1>1, <2>5 DEF NoCall
  <2>10. States(y, call')
    <3>1. {t \in Task : call'[t].op = "create"} = {k.run} /\ {t \in Task : call[t].op = "create"} = {}
      BY <2>5, <2>9, SoundParts, OneCreates
    <3>2. {call[t].task : t \in {q \in Task : call[q].op = "create"}} = {}
      BY <3>1
    <3>3. {call'[t].task : t \in {q \in Task : call'[q].op = "create"}} = {u}
      BY <2>9, <3>1
    <3>4. States(k, call)
      BY SoundParts
    <3>5. {t \in Task : y.st[t] = "DORMANT"} =
            ToSet(y.free) \cup {call'[t].task : t \in {q \in Task : call'[q].op = "create"}}
      BY <2>3, <2>6, <3>2, <3>3, <3>4 DEF States
    <3>6. \A t \in Task : y.st[t] = "DORMANT" => call'[t] = NoCall /\ y.mid[t] = InvalidId
      BY <2>5, <2>6, <3>4, SoundParts DEF States
    <3> QED BY <2>6, <3>4, <3>5, <3>6 DEF States
  <2>11. Owned(y, call')
    <3>1. \A t \in Task, m \in Mutex : call[t] = EnterCall(m) => call'[t] = EnterCall(m)
      BY <2>5, <2>9 DEF EnterCall
    <3>2. \A m \in Mutex : ToSet(k.mx[m].list) \subseteq Task /\ k.mx[m].own \in Task \cup {InvalidId}
      BY SoundParts, Elements DEF KType, MutexType
    <3>3. Owned(k, call)
      BY SoundParts
    <3> QED BY <2>6, <3>1, <3>2, <3>3 DEF Owned
  <2>12. Calls(y, call')
    <3>1. \A t \in Task : ~Doomed(k, call, t)
      BY <2>9 DEF Doomed
    <3>2. Other(y, call', k.run, u)
      BY <2>3, <2>4, <2>5, <2>6, SoundParts DEF Other
    <3>3. Locked(y, call', k.run)
      BY <1>1, <2>4, <2>6, <3>2 DEF Locked
    <3>4. KType(k) /\ Calls(k, call)
      BY SoundParts
    <3> QED BY <2>5, <2>6, <3>1, <3>3, <3>4, CallsKept
  <2>13. Timed(y, left')
    BY <1>1, <2>6, SoundParts DEF Timed
  <2>14. Whole(y, call', left')
    BY <2>7, <2>8, <2>10, <2>11, <2>12, <2>13 DEF Whole
  <2>15. Going(y)
    BY <2>6, SoundParts DEF Going
  <2> QED BY <2>1, <2>14, <2>15, Ended
<1> QED BY <1>2, <1>3

LEMMA StepCreate ==
    ASSUME Guarded, Sound, UNCHANGED prog, CreateTask
    PROVE  Sound'
<1> DEFINE u == call[k.run].task
           p == call[k.run].prio
           k1 == [k EXCEPT !.prio[u] = p, !.tick[u] = Invalid, !.ev[u] = InvalidId, !.pmail[u] = 0,
                           !.stale = @ \ {u}, !.mid[u] = InvalidId, !.pset = @ \ {u}, !.base[u] = p]
           k2 == [k1 EXCEPT !.st[u] = "WAITING"]
           k3 == InsertToTCBRdyList(k1, u)
<1>1. /\ call[k.run].op = "create" /\ Begin(NoCall) /\ left' = left
      /\ k' = k2 \/ k' = OsSchedUnlock(k3)
  BY DEF CreateTask, Pending, Finish, Begin
<1>2. /\ u \in Task \ {Idle, k.run} /\ p \in 0 .. Lowest /\ k.st[u] = "DORMANT" /\ u \notin ToSet(k.free)
  BY <1>1, SoundParts, RunCall, OtherCall, AloneCall
<1>3. /\ call' = [t \in Task |-> call'[t]] /\ call'[k.run] = NoCall
      /\ \A t \in Task \ {k.run} : call'[t] = call[t]
  BY <1>1, Called
<1>4. {t \in Task : call[t].op = "create"} = {k.run} /\ {t \in Task : call'[t].op = "create"} = {}
  <2>1. call'[k.run].op = "none"
    BY <1>3 DEF NoCall
  <2> QED BY <1>1, <1>3, <2>1, SoundParts, OneCreates
<1>5. {call[t].task : t \in {q \in Task : call[q].op = "create"}} = {u}
      /\ {call'[t].task : t \in {q \in Task : call'[q].op = "create"}} = {}
  BY <1>4
<1> HIDE DEF u, p
<1>6. Typed(k) /\ Placed(k, {}) /\ States(k, call) /\ Owned(k, call) /\ Calls(k, call) /\ Timed(k, left)
      /\ KType(k) /\ k.run \in Task /\ k.st[k.run] = "RUNNING"
  BY SoundParts
<1>7. /\ k.tick[u] = Invalid /\ k.mid[u] = InvalidId /\ call[u] = NoCall
      /\ \A m \in Mutex : u \notin ToSet(k.mx[m].list)
  BY <1>2, <1>6 DEF Placed, States
<1>8. /\ KType(k1) /\ k1.prio = [k.prio EXCEPT ![u] = p] /\ k1.tick = [k.tick EXCEPT ![u] = Invalid]
      /\ k1.ev = [k.ev EXCEPT ![u] = InvalidId] /\ k1.mid = [k.mid EXCEPT ![u] = InvalidId]
      /\ k1.pset = k.pset \ {u}
      /\ k1.lock = k.lock /\ k1.st = k.st /\ k1.run = k.run /\ k1.timeReq = k.timeReq
      /\ k1.free = k.free /\ k1.rdy = k.rdy /\ k1.dly = k.dly /\ k1.slice = k.slice /\ k1.req = k.req
      /\ k1.intact = k.intact /\ k1.flg = k.flg /\ k1.srq = k.srq /\ k1.mx = k.mx
      /\ k1.mnum = k.mnum /\ k1.inside = k.inside /\ k1.mstale = k.mstale
  <2>1. p \in Nat /\ u \in Task
    BY <1>2
  <2> QED BY <1>6, <2>1 DEF KType, Fields
<1> HIDE DEF k1
<1>9. k1.tick = k.tick /\ k1.mid = k.mid /\ k1.ev = k.ev /\ k1.pset = k.pset
  <2>1. k.tick \in [Task -> 0 .. Invalid] /\ k.mid \in [Task -> Mutex \cup {InvalidId}]
        /\ k.ev = [t \in Task |-> InvalidId] /\ k.pset = {}
    BY <1>6 DEF Typed, KType
  <2>2. k1.tick = k.tick
    BY <1>7, <1>8, <2>1
  <2>3. k1.mid = k.mid
    BY <1>7, <1>8, <2>1
  <2>4. k1.ev = k.ev
    BY <1>8, <2>1
  <2> QED BY <1>8, <2>1, <2>2, <2>3, <2>4
<1>10. Typed(k1)
  <2>1. k1.prio \in [Task -> 0 .. Lowest]
    BY <1>2, <1>6, <1>8 DEF Typed
  <2> QED BY <1>6, <1>8, <1>9, <2>1 DEF Typed
<1>11. Placed(k1, {}) /\ Placed(k1, {u})
  <2>1. Placed(k1, {})
    BY <1>6, <1>8, <1>9 DEF Placed
  <2>2. k1.st[u] # "READY"
    BY <1>2, <1>8
  <2> QED BY <1>2, <2>1, <2>2, NotReady
<1>12. Frame(k, k1)
  BY <1>8, <1>9 DEF Frame
\* The TCB joins the tasks in either way.
<1>13. ASSUME NEW z, Typed(z), Placed(z, {}), Frame(k1, z), z.dly = k1.dly, z.tick = k1.tick,
              \A t \in Task : t # u => z.st[t] = k.st[t], z.st[u] \in {"READY", "WAITING"}
       PROVE  Whole(z, call', left') /\ z.st[z.run] = "RUNNING"
  <2>1. Frame(k, z)
    BY <1>12, <1>13, FrameTrans
  <2>2. States(z, call')
    <3>1. {t \in Task : z.st[t] = "DORMANT"} = {t \in Task : k.st[t] = "DORMANT"} \ {u}
      BY <1>2, <1>13
    <3>2. {t \in Task : k.st[t] = "DORMANT"} = ToSet(k.free) \cup {u}
      BY <1>5, <1>6 DEF States
    <3>3. {t \in Task : z.st[t] = "DORMANT"} =
            ToSet(z.free) \cup {call'[t].task : t \in {q \in Task : call'[q].op = "create"}}
      BY <1>2, <1>5, <2>1, <3>1, <3>2 DEF Frame
    <3>4. \A t \in Task : z.st[t] = "DORMANT" => call'[t] = NoCall /\ z.mid[t] = InvalidId
      <4>1. \A t \in Task : z.st[t] = "DORMANT" => k.st[t] = "DORMANT" /\ t # k.run
        BY <1>6, <1>13, <1>2
      <4> QED BY <1>3, <1>6, <2>1, <4>1 DEF States, Frame
    <3>5. \A t \in Task : z.st[t] = "RUNNING" => t = z.run
      BY <1>6, <1>13, <2>1 DEF States, Frame
    <3>6. z.st[Idle] \in {"READY", "RUNNING"}
      BY <1>2, <1>6, <1>13, KernelAssumption DEF States
    <3> QED BY <3>3, <3>4, <3>5, <3>6 DEF States
  <2>3. Owned(z, call')
    <3>1. \A t \in Task, m \in Mutex : call[t] = EnterCall(m) => call'[t] = EnterCall(m)
      BY <1>1, <1>3 DEF EnterCall
    <3>2. \A m \in Mutex : ToSet(k.mx[m].list) \subseteq Task /\ k.mx[m].own \in Task \cup {InvalidId}
      BY <1>6, Elements DEF KType, MutexType
    <3>3. \A t \in Task : k.mid[t] \in Mutex \cup {InvalidId}
      BY <1>6 DEF KType
    <3> QED BY <1>6, <2>1, <3>1, <3>2, <3>3 DEF Owned, Frame
  <2>4. Calls(z, call')
    <3>1. \A t \in Task : ~Doomed(k, call, t)
      BY <1>1 DEF Doomed
    <3>2. Alone(z, call', k.run)
      BY <1>3 DEF Alone
    <3> QED BY <1>3, <1>6, <2>1, <3>1, <3>2, CallsKept DEF Frame
  <2>5. Timed(z, left')
    BY <1>1, <1>6, <1>8, <1>9, <1>13 DEF Timed
  <2>6. z.st[z.run] = "RUNNING"
    BY <1>2, <1>6, <1>13, <2>1 DEF Frame
  <2> QED BY <1>13, <2>2, <2>3, <2>4, <2>5, <2>6 DEF Whole
<1>14. Whole(k2, call', left') /\ k2.st[k2.run] = "RUNNING"
  <2>1. /\ KType(k2) /\ Frame(k1, k2)
        /\ k2.st = [k1.st EXCEPT ![u] = "WAITING"] /\ k2.tick = k1.tick /\ k2.dly = k1.dly
        /\ k2.rdy = k1.rdy /\ k2.slice = k1.slice /\ k2.req = k1.req /\ k2.intact = k1.intact
        /\ k2.prio = k1.prio /\ k2.mx = k1.mx
    BY <1>2, <1>8 DEF KType, Fields, Frame, Alive
  <2> HIDE DEF k2
  <2>2. \A t \in Task : k2.st[t] = IF t = u THEN "WAITING" ELSE k.st[t]
    BY <1>6, <1>8, <2>1 DEF KType
  <2>3. Typed(k2)
    BY <1>10, <2>1 DEF Typed, Frame
  <2>4. Placed(k2, {})
    <3>1. ToSet(k2.rdy) = {t \in Task : k2.st[t] = "READY"}
      BY <1>2, <1>6, <1>8, <2>1, <2>2 DEF Placed
    <3>2. ToSet(k.free) \subseteq Task /\ \A m \in Mutex : ToSet(k.mx[m].list) \subseteq Task
      BY <1>6, Elements DEF KType, MutexType
    <3> QED BY <1>2, <1>6, <1>7, <1>8, <1>9, <2>1, <2>2, <3>1, <3>2 DEF Placed, Frame
  <2>5. Frame(k1, k2) /\ k2.dly = k1.dly /\ k2.tick = k1.tick
    BY <2>1
  <2> QED BY <1>2, <1>13, <2>2, <2>3, <2>4, <2>5
<1>15. Whole(k3, call', left') /\ k3.st[k3.run] = "RUNNING"
  <2>1. k1.tick[u] = Invalid /\ u \notin ToSet(k1.free) /\ \A m \in Mutex : u \notin ToSet(k1.mx[m].list)
    BY <1>2, <1>7, <1>8, <1>9
  <2>2. /\ Typed(k3) /\ Placed(k3, {}) /\ Frame(k1, k3)
        /\ k3.st = [k1.st EXCEPT ![u] = "READY"] /\ k3.tick = k1.tick /\ k3.dly = k1.dly
    BY <1>2, <1>10, <1>11, <2>1, ReadyIn
  <2> HIDE DEF k3
  <2>3. \A t \in Task : k3.st[t] = IF t = u THEN "READY" ELSE k.st[t]
    BY <1>6, <1>8, <2>2 DEF KType
  <2> QED BY <1>2, <1>13, <2>2, <2>3
<1> HIDE DEF k2, k3
<1>16. CASE k' = k2
  BY <1>14, <1>16, EndedHere
<1>17. CASE k' = OsSchedUnlock(k3)
  BY <1>15, <1>17, Ended DEF Going
<1> QED BY <1>1, <1>16, <1>17

(***************************************************************************)
(* Part 8.  Entering and leaving mutexes.                                  *)
(***************************************************************************)

\* A running task that is inside of no mutex, with no call pending, has no
\* mutexID.
LEMMA NoMutex ==
    ASSUME Sound, k.inside[k.run] = {}, call[k.run] = NoCall
    PROVE  k.mid[k.run] = InvalidId
<1> SUFFICES ASSUME k.mid[k.run] # InvalidId PROVE FALSE
  OBVIOUS
<1> DEFINE m == k.mid[k.run]
<1>1. m \in Mutex
  BY SoundParts DEF KType
<1>2. k.mx[m].own = k.run
  BY <1>1, SoundParts, RunFree DEF Owned
<1>3. call[k.run] = EnterCall(m)
  <2>1. k.run # InvalidId
    BY SoundParts, KernelAssumption
  <2> QED BY <1>1, <1>2, <2>1, SoundParts DEF Owned
<1> QED BY <1>3 DEF EnterCall, NoCall

\* The mutex is free: the task owns it and is inside.
LEMMA EnterFree ==
    ASSUME Sound, NEW m \in Mutex, m <= k.mnum, k.mx[m].own = InvalidId, k.lock = 0,
           call[k.run] = NoCall, k.inside[k.run] = {}
    PROVE  LET y == [EnterMutex(k, m) EXCEPT !.inside[k.run] = @ \cup {m}]
           IN Whole(y, call, left) /\ Going(y)
<1> DEFINE t == k.run
           b == [k.mx[m] EXCEPT !.own = t, !.orig = k.prio[t], !.hipri = t]
           y == [EnterMutex(k, m) EXCEPT !.inside[k.run] = @ \cup {m}]
<1>1. /\ Typed(k) /\ Placed(k, {}) /\ States(k, call) /\ Owned(k, call) /\ Calls(k, call)
      /\ Timed(k, left) /\ KType(k) /\ t \in Task /\ k.st[t] = "RUNNING" /\ k.prio[t] \in 0 .. Lowest
  BY SoundParts DEF Typed
<1>2. k.mid[t] = InvalidId
  BY NoMutex
<1>3. k.mx[m].list = << >> /\ ToSet(k.mx[m].list) = {}
  <2>1. k.mx[m].list \in Seq(Task)
    BY <1>1 DEF KType, MutexType
  <2> QED BY <1>1, <2>1, Elements DEF Owned
<1>4. b \in MutexType /\ b.own = t /\ b.orig = k.prio[t] /\ b.list = k.mx[m].list
  <2>1. k.mx[m] \in MutexType /\ k.prio[t] \in Nat
    BY <1>1 DEF KType
  <2> QED BY <1>1, <2>1 DEF MutexType
<1>5. y = [k EXCEPT !.mid[t] = m, !.mx[m] = b, !.inside[t] = @ \cup {m}]
  <2>1. EnterMutex(k, m) = [k EXCEPT !.mid[t] = m, !.mx[m] = b]
    <3>1. EnterMutex(k, m) = [[k EXCEPT !.mid[t] = m] EXCEPT !.mx[m] = [@ EXCEPT !.own = t, !.orig = k.prio[t], !.hipri = t]]
      BY DEF EnterMutex
    <3> QED BY <1>1, <3>1 DEF KType, Fields
  <2> HIDE DEF b
  <2> QED BY <1>1, <2>1 DEF KType, Fields
<1> HIDE DEF b, y
<1>6. /\ KType(y) /\ y.mid = [k.mid EXCEPT ![t] = m] /\ y.mx = [k.mx EXCEPT ![m] = b]
      /\ y.inside = [k.inside EXCEPT ![t] = @ \cup {m}] /\ y.prio = k.prio /\ y.tick = k.tick
      /\ y.lock = k.lock /\ y.st = k.st /\ y.run = k.run /\ y.timeReq = k.timeReq
      /\ y.free = k.free /\ y.rdy = k.rdy /\ y.dly = k.dly /\ y.slice = k.slice /\ y.req = k.req
      /\ y.intact = k.intact /\ y.flg = k.flg /\ y.srq = k.srq
      /\ y.mnum = k.mnum /\ y.mstale = k.mstale /\ y.ev = k.ev /\ y.pset = k.pset
  BY <1>1, <1>4, <1>5 DEF KType, Fields
<1>7. /\ \A n \in Mutex : y.mx[n] = IF n = m THEN b ELSE k.mx[n]
      /\ \A u \in Task : y.mid[u] = IF u = t THEN m ELSE k.mid[u]
  BY <1>1, <1>6 DEF KType
<1>8. k.inside \in [Task -> SUBSET Mutex] /\ k.mid \in [Task -> Mutex \cup {InvalidId}]
  BY <1>1 DEF Typed, KType
<1>9. /\ \A u \in Task : y.inside[u] = IF u = t THEN {m} ELSE k.inside[u]
      /\ y.inside \in [Task -> SUBSET Mutex]
  <2>1. y.inside = [k.inside EXCEPT ![t] = k.inside[t] \cup {m}] /\ k.inside[t] \cup {m} = {m}
    BY <1>6
  <2>2. y.inside = [k.inside EXCEPT ![t] = {m}]
    BY <2>1
  <2> QED BY <1>1, <1>8, <2>2
<1>10. Typed(y)
  <2>1. ASSUME NEW u \in Task, y.mid[u] # InvalidId PROVE y.mx[y.mid[u]].orig \in 0 .. Lowest
    <3>1. \A n \in Mutex : y.mx[n].orig = k.mx[n].orig \/ y.mx[n].orig \in 0 .. Lowest
      BY <1>1, <1>4, <1>7
    <3>2. CASE u = t
      BY <1>1, <1>4, <1>7, <3>2
    <3>3. CASE u # t
      <4>1. y.mid[u] = k.mid[u] /\ k.mid[u] \in Mutex
        BY <1>7, <1>8, <2>1, <3>3
      <4>2. k.mx[k.mid[u]].orig \in 0 .. Lowest
        BY <1>1, <2>1, <4>1 DEF Typed
      <4> QED BY <3>1, <4>1, <4>2
    <3> QED BY <3>2, <3>3
  <2> QED BY <1>1, <1>6, <1>9, <2>1 DEF Typed
<1>11. /\ \A n \in Mutex : y.mx[n].list = k.mx[n].list
       /\ \A n \in Mutex : ToSet(k.mx[n].list) \subseteq Task \ {t}
  <2>1. \A n \in Mutex : ToSet(k.mx[n].list) \subseteq Task
    BY <1>1, Elements DEF KType, MutexType
  <2> QED BY <1>4, <1>7, <2>1, RunFree
<1>12. Placed(y, {})
  BY <1>1, <1>6, <1>7, <1>11 DEF Placed
<1>13. States(y, call)
  BY <1>1, <1>6, <1>7 DEF States
<1>14. Owned(y, call)
  <2>1. InvalidId \notin Task
    BY KernelAssumption
  <2>2. \A n \in Mutex : k.mx[n].own \in Task \cup {InvalidId}
    BY <1>1 DEF KType, MutexType
  <2>3. \A n \in Mutex : n # m => y.mx[n].own = k.mx[n].own /\ k.mx[n].own # t
    BY <1>1, <1>2, <1>7, <2>1, KernelAssumption DEF Owned
  <2>4. ASSUME NEW n \in Mutex
        PROVE  /\ y.mx[n].own # InvalidId =>
                    /\ y.mid[y.mx[n].own] = n /\ y.mx[n].own \notin ToSet(y.mx[n].list)
                    /\ n \in y.inside[y.mx[n].own] \/ call[y.mx[n].own] = EnterCall(n)
               /\ y.mx[n].own = InvalidId => y.mx[n].list = << >>
               /\ n > y.mnum => y.mx[n].own = InvalidId
               /\ \A u \in ToSet(y.mx[n].list) : call[u] = EnterCall(n)
    <3>1. CASE n = m
      <4>1. y.mx[n].own = t /\ ToSet(y.mx[n].list) = {}
        BY <1>3, <1>4, <1>7, <3>1
      <4>2. ~(n > y.mnum)
        <5>1. k.mnum \in 0 .. Cardinality(Mutex) /\ Cardinality(Mutex) \in Nat /\ n \in Nat
          BY <1>1, KernelAssumption, FS_CardinalityType DEF Typed
        <5> QED BY <1>6, <3>1, <5>1
      <4> QED BY <1>1, <1>7, <1>9, <2>1, <3>1, <4>1, <4>2
    <3>2. CASE n # m
      BY <1>1, <1>6, <1>7, <1>9, <1>11, <2>2, <2>3, <3>2 DEF Owned
    <3> QED BY <3>1, <3>2
  <2>5. ASSUME NEW u \in Task, y.mid[u] # InvalidId
        PROVE  y.mx[y.mid[u]].own = u \/ u \in ToSet(y.mx[y.mid[u]].list)
    <3>1. CASE u = t
      BY <1>4, <1>7, <3>1
    <3>2. CASE u # t
      <4>1. k.mid[u] \in Mutex /\ y.mid[u] = k.mid[u]
        BY <1>7, <1>8, <2>5, <3>2
      <4>2. k.mx[k.mid[u]].own = u \/ u \in ToSet(k.mx[k.mid[u]].list)
        BY <1>1, <2>5, <4>1 DEF Owned
      <4>3. k.mid[u] # m
        <5>1. u # InvalidId
          BY <2>1
        <5> QED BY <1>3, <4>2, <5>1
      <4> QED BY <1>11, <2>3, <4>1, <4>2, <4>3
    <3> QED BY <3>1, <3>2
  <2>6. ASSUME NEW u \in Task, NEW n \in Mutex, n \in y.inside[u] PROVE y.mx[n].own = u
    <3>1. CASE u = t
      BY <1>4, <1>7, <1>9, <2>6, <3>1
    <3>2. CASE u # t
      <4>1. k.mx[n].own = u /\ u # InvalidId
        BY <1>1, <1>9, <2>1, <2>6, <3>2 DEF Owned
      <4>2. n # m
        BY <4>1
      <4> QED BY <2>3, <4>1, <4>2
    <3> QED BY <3>1, <3>2
  <2> QED BY <2>4, <2>5, <2>6 DEF Owned
<1>15. Calls(y, call)
  <2>1. \A u \in Task : ~Doomed(k, call, u)
    BY DEF Doomed, NoCall
  <2>2. Alone(y, call, k.run)
    BY DEF Alone
  <2>3. call = [u \in Task |-> call[u]]
    BY <1>1 DEF Calls
  <2>4. \A u \in Task \ {k.run}, n \in Mutex :
          /\ k.mx[n].own = u => y.mx[n].own = u
          /\ u \in ToSet(k.mx[n].list) => u \in ToSet(y.mx[n].list)
    BY <1>7, <1>11, KernelAssumption
  <2>5. \A u \in Task \ {k.run} : k.mid[u] = InvalidId => y.mid[u] = InvalidId
    BY <1>7
  <2>6. y.run = k.run
    BY <1>6
  <2> QED BY <1>1, <2>1, <2>2, <2>3, <2>4, <2>5, <2>6, CallsKept
<1>16. Timed(y, left)
  BY <1>1, <1>6 DEF Timed
<1>17. Going(y)
  BY <1>1, <1>6 DEF Going
<1> QED BY <1>10, <1>12, <1>13, <1>14, <1>15, <1>16, <1>17 DEF Whole, y

\* The priority of a task is overwritten.
LEMMA PrioShuffled ==
    ASSUME NEW x, Typed(x), Placed(x, {}), NEW t \in Task, NEW p \in 0 .. Lowest
    PROVE  Shuffled(x, [x EXCEPT !.prio[t] = p])
<1> DEFINE y == [x EXCEPT !.prio[t] = p]
<1>1. KType(x) /\ p \in Nat
  BY DEF Typed
<1>2. /\ KType(y) /\ Frame(x, y)
      /\ y.st = x.st /\ y.tick = x.tick /\ y.dly = x.dly /\ y.rdy = x.rdy /\ y.slice = x.slice
      /\ y.intact = x.intact /\ y.req = x.req /\ y.prio = [x.prio EXCEPT ![t] = p]
      /\ y.mx = x.mx
  BY <1>1 DEF KType, Fields, Frame
<1> HIDE DEF y
<1>3. y.req \in BOOLEAN /\ y.prio \in [Task -> 0 .. Lowest] /\ \A m \in Mutex : y.mx[m].orig = x.mx[m].orig
  BY <1>2 DEF Typed
<1>4. Shuffled(x, y)
  BY <1>2, <1>3, Rewritten
<1> QED BY <1>4 DEF y

\* The mutex is occupied: its owner may be raised, and the task waits.
LEMMA EnterWaits ==
    ASSUME Sound, NEW m \in Mutex, k.mx[m].own # InvalidId, k.lock = 0,
           call[k.run] = NoCall, k.inside[k.run] = {}, k.run # Idle, Begin(EnterCall(m))
    PROVE  LET y == EnterMutex(k, m)
           IN Whole(y, call', left) /\ Going(y)
<1> DEFINE t == k.run
           o == k.mx[m].own
           k1 == [k EXCEPT !.mid[t] = m]
           raised == [k1 EXCEPT !.prio[o] = k.prio[t], !.mx[m].hipri = t]
           k2 == IF k.prio[o] <= k.prio[t] THEN k1
                 ELSE IF k.st[o] = "READY" THEN InsertToTCBRdyList(RemoveFromTCBRdyList(raised, o), o)
                 ELSE ReorderWaiting(raised, o)
           y == EnterMutex(k, m)
<1>1. /\ Typed(k) /\ Placed(k, {}) /\ States(k, call) /\ Owned(k, call) /\ Calls(k, call)
      /\ Timed(k, left) /\ KType(k) /\ t \in Task /\ k.st[t] = "RUNNING" /\ k.prio[t] \in 0 .. Lowest
  BY SoundParts DEF Typed
<1>2. k.mid[t] = InvalidId
  BY NoMutex
<1>3. o \in Task /\ k.mid[o] = m
  BY <1>1 DEF KType, MutexType, Owned
<1>4. o # t
  BY <1>2, <1>3, KernelAssumption
<1>5. y = [k2 EXCEPT !.st[t] = "WAITING", !.req = TRUE, !.mx[m].list = Append(@, t)]
  BY DEF EnterMutex
<1> HIDE DEF o
<1>6. /\ KType(k1) /\ k1.mid = [k.mid EXCEPT ![t] = m] /\ k1.mx = k.mx
      /\ k1.inside = k.inside /\ k1.prio = k.prio /\ k1.tick = k.tick
      /\ k1.lock = k.lock /\ k1.st = k.st /\ k1.run = k.run /\ k1.timeReq = k.timeReq
      /\ k1.free = k.free /\ k1.rdy = k.rdy /\ k1.dly = k.dly /\ k1.slice = k.slice /\ k1.req = k.req
      /\ k1.intact = k.intact /\ k1.flg = k.flg /\ k1.srq = k.srq
      /\ k1.mnum = k.mnum /\ k1.mstale = k.mstale /\ k1.ev = k.ev /\ k1.pset = k.pset
  BY <1>1 DEF KType, Fields
<1> HIDE DEF k1
<1>7. \A u \in Task : k1.mid[u] = IF u = t THEN m ELSE k.mid[u]
  BY <1>1, <1>6 DEF KType
<1>8. Typed(k1)
  <2>1. ASSUME NEW u \in Task, k1.mid[u] # InvalidId PROVE k1.mx[k1.mid[u]].orig \in 0 .. Lowest
    <3>1. k.mx[m].orig \in 0 .. Lowest
      BY <1>1, <1>3, KernelAssumption DEF Typed
    <3> QED BY <1>1, <1>6, <1>7, <2>1, <3>1 DEF Typed
  <2> QED BY <1>1, <1>6, <2>1 DEF Typed
<1>9. Placed(k1, {})
  <2>1. \A n \in Mutex : ToSet(k.mx[n].list) \subseteq Task \ {t}
    <3>1. \A n \in Mutex : ToSet(k.mx[n].list) \subseteq Task
      BY <1>1, Elements DEF KType, MutexType
    <3> QED BY <3>1, RunFree
  <2> QED BY <1>1, <1>6, <1>7, <2>1 DEF Placed
<1>10. Shuffled(k1, raised)
  <2> DEFINE w == [k1 EXCEPT !.prio[o] = k.prio[t]]
  <2>1. Shuffled(k1, w)
    BY <1>1, <1>3, <1>8, <1>9, PrioShuffled
  <2>2. raised = [w EXCEPT !.mx[m].hipri = t]
    BY <1>6 DEF KType, Fields
  <2> HIDE DEF w, raised
  <2>3. Shuffled(w, raised)
    BY <1>1, <2>1, <2>2, HipriShuffled DEF Shuffled
  <2> QED BY <2>1, <2>3, ShuffledTrans
<1> HIDE DEF raised
<1>11. Shuffled(k1, k2)
  <2>1. Typed(raised) /\ Placed(raised, {}) /\ raised.st = k1.st
    BY <1>10 DEF Shuffled
  <2>2. k.st[o] = "READY" => raised.st[o] = "READY"
    BY <1>6, <2>1
  <2>3. k.st[o] = "READY" => Shuffled(k1, InsertToTCBRdyList(RemoveFromTCBRdyList(raised, o), o))
    BY <1>3, <1>10, <2>1, <2>2, Reordered, ShuffledTrans
  <2>4. Shuffled(k1, ReorderWaiting(raised, o))
    BY <1>3, <1>10, <2>1, NoReorder
  <2>5. Shuffled(k1, k1)
    BY <1>8, <1>9, ShuffledSelf
  <2> QED BY <2>3, <2>4, <2>5
<1> HIDE DEF k2
<1>12. /\ Typed(k2) /\ Placed(k2, {}) /\ Frame(k1, k2) /\ KType(k2)
       /\ k2.st = k.st /\ k2.tick = k.tick /\ k2.dly = k.dly
  BY <1>6, <1>11 DEF Shuffled, Typed
<1> DEFINE list == Append(k2.mx[m].list, t)
           b == [k2.mx[m] EXCEPT !.list = list]
<1>13. k2.mx[m] \in MutexType /\ k2.mx[m].list = k.mx[m].list /\ k.mx[m].list \in Seq(Task)
  BY <1>1, <1>6, <1>12 DEF KType, MutexType, Frame
<1>14. /\ list \in Seq(Task) /\ ToSet(list) = ToSet(k.mx[m].list) \cup {t} /\ IsInjective(list)
  <2>1. IsInjective(k.mx[m].list) /\ t \notin ToSet(k.mx[m].list)
    BY <1>1, RunFree DEF Placed
  <2> QED BY <1>1, <1>13, <2>1, Appended
<1>15. y = [k2 EXCEPT !.st[t] = "WAITING", !.req = TRUE, !.mx[m] = b]
  BY <1>5, <1>12 DEF KType, Fields
<1> HIDE DEF list
<1>16. /\ b \in MutexType /\ b.list = list /\ b.own = k2.mx[m].own /\ b.orig = k2.mx[m].orig
  BY <1>13, <1>14 DEF MutexType
<1> HIDE DEF b, y
<1>17. /\ KType(y) /\ y.st = [k2.st EXCEPT ![t] = "WAITING"] /\ y.req = TRUE
       /\ y.mx = [k2.mx EXCEPT ![m] = b] /\ y.mid = k2.mid
       /\ y.inside = k2.inside /\ y.prio = k2.prio /\ y.tick = k2.tick
       /\ y.lock = k2.lock /\ y.run = k2.run /\ y.timeReq = k2.timeReq
       /\ y.free = k2.free /\ y.rdy = k2.rdy /\ y.dly = k2.dly /\ y.slice = k2.slice
       /\ y.intact = k2.intact /\ y.flg = k2.flg /\ y.srq = k2.srq
       /\ y.mnum = k2.mnum /\ y.mstale = k2.mstale /\ y.ev = k2.ev /\ y.pset = k2.pset
  BY <1>1, <1>12, <1>15, <1>16 DEF KType, Fields, Alive
<1>18. /\ \A n \in Mutex : y.mx[n] = IF n = m THEN b ELSE k2.mx[n]
       /\ \A u \in Task : y.st[u] = IF u = t THEN "WAITING" ELSE k.st[u]
  BY <1>1, <1>12, <1>17 DEF KType
<1>19. /\ \A n \in Mutex : y.mx[n].own = k.mx[n].own /\ y.mx[n].orig = k2.mx[n].orig
       /\ \A n \in Mutex : n # m => y.mx[n].list = k.mx[n].list
       /\ y.mx[m].list = list
  BY <1>6, <1>12, <1>16, <1>18 DEF Frame
<1>20. /\ y.run = t /\ y.lock = 0 /\ y.free = k.free /\ y.mid = k1.mid /\ y.mnum = k.mnum
       /\ y.inside = k.inside /\ y.tick = k.tick /\ y.dly = k.dly
  BY <1>6, <1>12, <1>17 DEF Frame
<1>21. Typed(y)
  <2>1. ASSUME NEW u \in Task, y.mid[u] # InvalidId PROVE y.mx[y.mid[u]].orig \in 0 .. Lowest
    <3>1. k2.mid[u] \in Mutex /\ y.mid[u] = k2.mid[u]
      BY <1>12, <1>17, <2>1 DEF KType
    <3>2. k2.mx[k2.mid[u]].orig \in 0 .. Lowest
      BY <1>12, <2>1, <3>1 DEF Typed
    <3> QED BY <1>19, <3>1, <3>2
  <2> QED BY <1>12, <1>17, <2>1 DEF Typed
<1>22. \A n \in Mutex : ToSet(k.mx[n].list) \subseteq Task \ {t}
  <2>1. \A n \in Mutex : ToSet(k.mx[n].list) \subseteq Task
    BY <1>1, Elements DEF KType, MutexType
  <2> QED BY <2>1, RunFree
<1>23. Placed(y, {})
  <2>1. ToSet(y.rdy) = {u \in Task : y.st[u] = "READY"}
    BY <1>1, <1>12, <1>17, <1>18 DEF Placed
  <2>2. ASSUME NEW n \in Mutex
        PROVE  /\ IsInjective(y.mx[n].list)
               /\ \A u \in ToSet(y.mx[n].list) : y.st[u] = "WAITING" /\ y.tick[u] = Invalid /\ y.mid[u] = n
    <3>1. CASE n = m
      <4>1. y.st[t] = "WAITING" /\ y.tick[t] = Invalid /\ y.mid[t] = m
        BY <1>1, <1>7, <1>18, <1>20, RunFree
      <4>2. \A u \in ToSet(k.mx[m].list) : y.st[u] = "WAITING" /\ y.tick[u] = Invalid /\ y.mid[u] = m
        BY <1>1, <1>7, <1>18, <1>20, <1>22 DEF Placed
      <4> QED BY <1>14, <1>19, <3>1, <4>1, <4>2
    <3>2. CASE n # m
      BY <1>1, <1>7, <1>18, <1>19, <1>20, <1>22, <3>2 DEF Placed
    <3> QED BY <3>1, <3>2
  <2>3. \A u \in Task : y.tick[u] # Invalid => y.st[u] = "WAITING"
    BY <1>1, <1>18, <1>20 DEF Placed
  <2>4. \A u \in ToSet(y.free) : y.st[u] = "DORMANT"
    <3>1. ToSet(k.free) \subseteq Task \ {t}
      BY <1>1, RunFree, Elements DEF KType
    <3> QED BY <1>1, <1>18, <1>20, <3>1 DEF Placed
  <2>5. IsInjective(y.rdy) /\ IsInjective(y.dly) /\ IsInjective(y.free) /\ y.intact
        /\ ToSet(y.dly) = {u \in Task : y.tick[u] # Invalid}
    BY <1>12, <1>17 DEF Placed
  <2> QED BY <2>1, <2>2, <2>3, <2>4, <2>5 DEF Placed
<1>24. /\ call' = [u \in Task |-> call'[u]] /\ call'[t] = EnterCall(m)
       /\ \A u \in Task \ {k.run} : call'[u] = call[u]
  BY Called
<1>25. call[k.run].op = "none" /\ call'[k.run].op = "enter"
  BY <1>24 DEF NoCall, EnterCall
<1>26. States(y, call')
  <2>1. \A u \in Task : k.st[u] = "DORMANT" => y.mid[u] = k.mid[u]
    BY <1>1, <1>7, <1>20
  <2>2. \A u \in Task : y.st[u] # k.st[u] =>
             /\ k.st[u] # "DORMANT" /\ y.st[u] \in {"READY", "WAITING"}
             /\ u = Idle => y.st[u] = "READY"
    BY <1>1, <1>18
  <2> QED BY <1>1, <1>20, <1>24, <1>25, <2>1, <2>2, StatesKept
<1>27. Owned(y, call')
  <2>1. InvalidId \notin Task /\ InvalidId \notin Mutex
    BY KernelAssumption
  <2>2. \A n \in Mutex : k.mx[n].own \in Task \cup {InvalidId}
    BY <1>1 DEF KType, MutexType
  <2>3. \A n \in Mutex : k.mx[n].own # t
    BY <1>1, <1>2, <2>1 DEF Owned
  <2>4. ASSUME NEW n \in Mutex
        PROVE  /\ y.mx[n].own # InvalidId =>
                    /\ y.mid[y.mx[n].own] = n /\ y.mx[n].own \notin ToSet(y.mx[n].list)
                    /\ n \in y.inside[y.mx[n].own] \/ call'[y.mx[n].own] = EnterCall(n)
               /\ y.mx[n].own = InvalidId => y.mx[n].list = << >>
               /\ n > y.mnum => y.mx[n].own = InvalidId
               /\ \A u \in ToSet(y.mx[n].list) : call'[u] = EnterCall(n)
    <3>0. y.mx[n].own = k.mx[n].own /\ y.mx[n].own \in Task \cup {InvalidId} /\ y.mx[n].own # t
      BY <1>19, <2>2, <2>3
    <3>1. y.mx[n].own # InvalidId =>
            /\ y.mid[y.mx[n].own] = n /\ y.mx[n].own \notin ToSet(k.mx[n].list)
            /\ n \in y.inside[y.mx[n].own] \/ call'[y.mx[n].own] = EnterCall(n)
      BY <1>1, <1>7, <1>20, <1>24, <3>0 DEF Owned
    <3>2. \A u \in ToSet(k.mx[n].list) : call'[u] = EnterCall(n)
      BY <1>1, <1>22, <1>24 DEF Owned
    <3>3. n > y.mnum => y.mx[n].own = InvalidId
      BY <1>1, <1>20, <3>0 DEF Owned
    <3>4. CASE n = m
      <4>1. ToSet(y.mx[n].list) = ToSet(k.mx[n].list) \cup {t}
        BY <1>14, <1>19, <3>4
      <4>2. y.mx[n].own # InvalidId
        BY <1>19, <3>4
      <4> QED BY <1>24, <3>0, <3>1, <3>2, <3>3, <3>4, <4>1, <4>2
    <3>5. CASE n # m
      <4>1. y.mx[n].list = k.mx[n].list
        BY <1>19, <3>5
      <4>2. k.mx[n].own = InvalidId => k.mx[n].list = << >>
        BY <1>1 DEF Owned
      <4> QED BY <3>0, <3>1, <3>2, <3>3, <4>1, <4>2
    <3> QED BY <3>4, <3>5
  <2>5. ASSUME NEW u \in Task, y.mid[u] # InvalidId
        PROVE  y.mx[y.mid[u]].own = u \/ u \in ToSet(y.mx[y.mid[u]].list)
    <3>1. CASE u = t
      BY <1>7, <1>14, <1>19, <1>20, <3>1
    <3>2. CASE u # t
      <4>1. k.mid[u] \in Mutex /\ y.mid[u] = k.mid[u]
        BY <1>1, <1>7, <1>20, <2>5, <3>2 DEF KType
      <4>2. k.mx[k.mid[u]].own = u \/ u \in ToSet(k.mx[k.mid[u]].list)
        BY <1>1, <2>5, <4>1 DEF Owned
      <4> QED BY <1>14, <1>19, <4>1, <4>2
    <3> QED BY <3>1, <3>2
  <2>6. \A u \in Task, n \in Mutex : n \in y.inside[u] => y.mx[n].own = u
    BY <1>1, <1>19, <1>20 DEF Owned
  <2> QED BY <2>4, <2>5, <2>6 DEF Owned
<1>28. Calls(y, call')
  <2>1. \A u \in Task : ~Doomed(k, call, u)
    BY <1>25 DEF Doomed
  <2>2. Alone(y, call', k.run)
    BY <1>14, <1>19, <1>24 DEF Alone
  <2>3. \A u \in Task \ {k.run}, n \in Mutex :
          /\ k.mx[n].own = u => y.mx[n].own = u
          /\ u \in ToSet(k.mx[n].list) => u \in ToSet(y.mx[n].list)
    BY <1>14, <1>19
  <2>4. \A u \in Task \ {k.run} : k.mid[u] = InvalidId => y.mid[u] = InvalidId
    BY <1>7, <1>20
  <2>5. KType(k) /\ Calls(k, call) /\ y.run = k.run
    BY <1>1, <1>20
  <2> QED BY <1>24, <2>1, <2>2, <2>3, <2>4, <2>5, CallsKept
<1>29. Timed(y, left)
  BY <1>1, <1>20 DEF Timed
<1>30. Going(y)
  BY <1>17, <1>20 DEF Going
<1> QED BY <1>21, <1>23, <1>26, <1>27, <1>28, <1>29, <1>30 DEF Whole, y

LEMMA StepEnter ==
    ASSUME Guarded, Sound, UNCHANGED prog, NEW m \in Mutex, CoEnterMutexSection(m)
    PROVE  Sound'
<1>1. /\ k.run # Idle /\ call[k.run] = NoCall /\ k.inside[k.run] = {} /\ k.lock = 0 /\ m <= k.mnum
      /\ left' = left
  BY DEF CoEnterMutexSection, Caller
<1>2. CASE k.mx[m].own = InvalidId
  <2> DEFINE y == [EnterMutex(k, m) EXCEPT !.inside[k.run] = @ \cup {m}]
  <2>1. k' = OsSchedUnlock(y) /\ call' = call
    BY <1>2 DEF CoEnterMutexSection
  <2>2. Whole(y, call, left) /\ Going(y)
    BY <1>1, <1>2, EnterFree
  <2> HIDE DEF y
  <2> QED BY <1>1, <2>1, <2>2, Ended
<1>3. CASE k.mx[m].own # InvalidId
  <2> DEFINE y == EnterMutex(k, m)
  <2>1. k' = OsSchedUnlock(y) /\ Begin(EnterCall(m))
    BY <1>3 DEF CoEnterMutexSection, EnterCall
  <2>2. Whole(y, call', left) /\ Going(y)
    BY <1>1, <1>3, <2>1, EnterWaits
  <2> HIDE DEF y
  <2> QED BY <1>1, <2>1, <2>2, Ended
<1> QED BY <1>2, <1>3

LEMMA StepEnterReturn ==
    ASSUME Sound, UNCHANGED prog, EnterReturn
    PROVE  Sound'
<1> DEFINE t == k.run
           m == call[t].mutex
           y == [k EXCEPT !.inside[t] = @ \cup {m}]
<1>1. call[t].op = "enter" /\ Begin(NoCall) /\ left' = left /\ k' = y
  BY DEF EnterReturn, Pending, Finish, Begin
<1>2. /\ Typed(k) /\ Placed(k, {}) /\ States(k, call) /\ Owned(k, call) /\ Calls(k, call)
      /\ Timed(k, left) /\ KType(k) /\ t \in Task /\ k.st[t] = "RUNNING"
  BY SoundParts
<1>3. Alone(k, call, t)
  BY <1>1, SoundParts, RunCall, OtherCall
<1>4. m \in Mutex /\ call[t] = EnterCall(m) /\ k.mx[m].own = t
  <2>1. ~Doomed(k, call, t)
    BY <1>1 DEF Doomed
  <2> QED BY <1>1, <1>3, <2>1, AloneCall, RunFree
<1>5. /\ call' = [u \in Task |-> call'[u]] /\ call'[k.run] = NoCall
      /\ \A u \in Task \ {k.run} : call'[u] = call[u]
  BY <1>1, Called
<1> HIDE DEF m
<1>6. /\ KType(y) /\ y.inside = [k.inside EXCEPT ![t] = @ \cup {m}] /\ y.mid = k.mid /\ y.mx = k.mx
      /\ y.prio = k.prio /\ y.tick = k.tick
      /\ y.lock = k.lock /\ y.st = k.st /\ y.run = k.run /\ y.timeReq = k.timeReq
      /\ y.free = k.free /\ y.rdy = k.rdy /\ y.dly = k.dly /\ y.slice = k.slice /\ y.req = k.req
      /\ y.intact = k.intact /\ y.flg = k.flg /\ y.srq = k.srq
      /\ y.mnum = k.mnum /\ y.mstale = k.mstale /\ y.ev = k.ev /\ y.pset = k.pset
  BY <1>2 DEF KType, Fields
<1> HIDE DEF y
<1>7. /\ y.inside \in [Task -> SUBSET Mutex]
      /\ \A u \in Task : u # t => y.inside[u] = k.inside[u]
      /\ y.inside[t] = k.inside[t] \cup {m}
  <2>1. k.inside \in [Task -> SUBSET Mutex]
    BY <1>2 DEF Typed
  <2> QED BY <1>2, <1>4, <1>6, <2>1
<1>8. Typed(y)
  BY <1>2, <1>6, <1>7 DEF Typed
<1>9. Placed(y, {})
  BY <1>2, <1>6 DEF Placed
<1>10. call'[k.run].op = "none"
  BY <1>5 DEF NoCall
<1>11. States(y, call')
  BY <1>1, <1>2, <1>5, <1>6, <1>10, StatesKept
<1>12. Owned(y, call')
  <2>1. \A u \in Task \ {t}, n \in Mutex : call[u] = EnterCall(n) => call'[u] = EnterCall(n)
    BY <1>5
  <2>2. call[t] = EnterCall(m)
    BY <1>4
  <2>3. \A n \in Mutex : call[t] = EnterCall(n) => n = m
    BY <1>4 DEF EnterCall
  <2>4. \A n \in Mutex : ToSet(k.mx[n].list) \subseteq Task \ {t} /\ k.mx[n].own \in Task \cup {InvalidId}
    <3>1. \A n \in Mutex : ToSet(k.mx[n].list) \subseteq Task /\ k.mx[n].own \in Task \cup {InvalidId}
      BY <1>2, Elements DEF KType, MutexType
    <3> QED BY <3>1, RunFree
  <2>5. ASSUME NEW n \in Mutex, k.mx[n].own # InvalidId
        PROVE  n \in y.inside[k.mx[n].own] \/ call'[k.mx[n].own] = EnterCall(n)
    <3>1. n \in k.inside[k.mx[n].own] \/ call[k.mx[n].own] = EnterCall(n)
      BY <1>2, <2>5 DEF Owned
    <3>2. CASE k.mx[n].own = t
      BY <1>7, <2>3, <3>1, <3>2
    <3>3. CASE k.mx[n].own # t
      BY <1>7, <2>1, <2>4, <2>5, <3>1, <3>3
    <3> QED BY <3>2, <3>3
  <2>6. \A u \in Task, n \in Mutex : n \in y.inside[u] => y.mx[n].own = u
    <3> SUFFICES ASSUME NEW u \in Task, NEW n \in Mutex, n \in y.inside[u] PROVE k.mx[n].own = u
      BY <1>6
    <3>1. n \in k.inside[u] \/ (u = t /\ n = m)
      BY <1>7
    <3> QED BY <1>2, <1>4, <3>1 DEF Owned
  <2>7. ASSUME NEW n \in Mutex
        PROVE  /\ y.mx[n].own # InvalidId =>
                    /\ y.mid[y.mx[n].own] = n /\ y.mx[n].own \notin ToSet(y.mx[n].list)
                    /\ n \in y.inside[y.mx[n].own] \/ call'[y.mx[n].own] = EnterCall(n)
               /\ y.mx[n].own = InvalidId => y.mx[n].list = << >>
               /\ n > y.mnum => y.mx[n].own = InvalidId
               /\ \A u \in ToSet(y.mx[n].list) : call'[u] = EnterCall(n)
    BY <1>2, <1>6, <2>1, <2>4, <2>5 DEF Owned
  <2>8. \A u \in Task : y.mid[u] # InvalidId =>
           y.mx[y.mid[u]].own = u \/ u \in ToSet(y.mx[y.mid[u]].list)
    BY <1>2, <1>6 DEF Owned
  <2> QED BY <2>6, <2>7, <2>8 DEF Owned
<1>13. Calls(y, call')
  <2>1. \A u \in Task : ~Doomed(k, call, u)
    BY <1>1 DEF Doomed
  <2>2. Alone(y, call', k.run)
    BY <1>5 DEF Alone
  <2>3. KType(k) /\ Calls(k, call) /\ y.run = k.run /\ y.mx = k.mx /\ y.mid = k.mid
    BY <1>2, <1>6
  <2> QED BY <1>5, <2>1, <2>2, <2>3, CallsKept
<1>14. Timed(y, left')
  BY <1>1, <1>2, <1>6 DEF Timed
<1>15. Whole(y, call', left') /\ y.st[y.run] = "RUNNING"
  BY <1>2, <1>6, <1>8, <1>9, <1>11, <1>12, <1>13, <1>14 DEF Whole
<1> QED BY <1>1, <1>15, EndedHere

\* CoLeaveMutexSection of a mutex that is occupied: it is given to the task
\* that waits first, which becomes ready, or free.
LEMMA Left ==
    ASSUME NEW x, NEW c, NEW l, Whole(x, c, l), NEW m \in Mutex, x.mx[m].own # InvalidId
    PROVE  LET z == LeaveMutex(x, m)
               o == x.mx[m].own
               list == x.mx[m].list
           IN /\ Typed(z) /\ Placed(z, {}) /\ Timed(z, l)
              /\ z.run = x.run /\ z.lock = x.lock /\ z.free = x.free
              /\ z.mnum = x.mnum /\ z.inside = x.inside /\ z.mid = [x.mid EXCEPT ![o] = InvalidId]
              /\ \A n \in Mutex : n # m => z.mx[n].own = x.mx[n].own /\ z.mx[n].list = x.mx[n].list
              /\ list = << >> => z.mx[m].own = InvalidId /\ z.mx[m].list = << >> /\ z.st = x.st
              /\ list # << >> => z.mx[m].own = Head(list) /\ z.mx[m].list = Tail(list)
                                 /\ z.st = [x.st EXCEPT ![Head(list)] = "READY"]
<1> DEFINE o == x.mx[m].own
           list == x.mx[m].list
           t == Head(list)
           z == LeaveMutex(x, m)
           Goal(y) ==
              /\ Typed(y) /\ Placed(y, {}) /\ Timed(y, l)
              /\ y.run = x.run /\ y.lock = x.lock /\ y.free = x.free
              /\ y.mnum = x.mnum /\ y.inside = x.inside /\ y.mid = [x.mid EXCEPT ![o] = InvalidId]
              /\ \A n \in Mutex : n # m => y.mx[n].own = x.mx[n].own /\ y.mx[n].list = x.mx[n].list
              /\ list = << >> => y.mx[m].own = InvalidId /\ y.mx[m].list = << >> /\ y.st = x.st
              /\ list # << >> => y.mx[m].own = t /\ y.mx[m].list = Tail(list)
                                 /\ y.st = [x.st EXCEPT ![t] = "READY"]
<1> SUFFICES Goal(z)
  OBVIOUS
<1>1. /\ Typed(x) /\ Placed(x, {}) /\ States(x, c) /\ Owned(x, c) /\ Calls(x, c) /\ Timed(x, l) /\ KType(x)
  BY DEF Whole, Typed
<1>2. /\ x.mx[m] \in MutexType /\ o \in Task /\ x.mid[o] = m /\ o \notin ToSet(list) /\ list \in Seq(Task)
      /\ ToSet(list) \subseteq Task
  <2>1. x.mx[m] \in MutexType
    BY <1>1 DEF KType
  <2>2. list \in Seq(Task) /\ x.mx[m].own \in Task \cup {InvalidId}
    BY <2>1 DEF MutexType
  <2> QED BY <1>1, <2>1, <2>2, Elements DEF Owned
<1>3. InvalidId \notin Task /\ InvalidId \notin Mutex /\ m # InvalidId /\ x.mx[m].orig \in 0 .. Lowest
  BY <1>1, <1>2, KernelAssumption DEF Typed
\* The mutex without an owner, as it is while CoSetPriority runs.
<1>4. ASSUME NEW b \in MutexType, b.list = list, NEW k0,
             k0 = [x EXCEPT !.mid[o] = InvalidId, !.mx[m] = b], b.orig = x.mx[m].orig
      PROVE  /\ Typed(k0) /\ Placed(k0, {}) /\ Timed(k0, l)
             /\ k0.mid = [x.mid EXCEPT ![o] = InvalidId] /\ k0.mx = [x.mx EXCEPT ![m] = b]
             /\ k0.run = x.run /\ k0.lock = x.lock /\ k0.free = x.free
             /\ k0.mnum = x.mnum /\ k0.inside = x.inside /\ k0.st = x.st
             /\ k0.tick = x.tick /\ k0.dly = x.dly
  <2>1. /\ KType(k0) /\ k0.mid = [x.mid EXCEPT ![o] = InvalidId] /\ k0.mx = [x.mx EXCEPT ![m] = b]
        /\ k0.inside = x.inside /\ k0.prio = x.prio /\ k0.tick = x.tick
        /\ k0.lock = x.lock /\ k0.st = x.st /\ k0.run = x.run /\ k0.timeReq = x.timeReq
        /\ k0.free = x.free /\ k0.rdy = x.rdy /\ k0.dly = x.dly /\ k0.slice = x.slice /\ k0.req = x.req
        /\ k0.intact = x.intact /\ k0.flg = x.flg /\ k0.srq = x.srq
        /\ k0.mnum = x.mnum /\ k0.mstale = x.mstale /\ k0.ev = x.ev /\ k0.pset = x.pset
    BY <1>1, <1>2, <1>4 DEF KType, Fields
  <2>2. /\ \A u \in Task : k0.mid[u] = IF u = o THEN InvalidId ELSE x.mid[u]
        /\ \A n \in Mutex : k0.mx[n].list = x.mx[n].list /\ k0.mx[n].orig = x.mx[n].orig
    BY <1>1, <1>4, <2>1 DEF KType
  <2>3. Typed(k0)
    <3>1. ASSUME NEW u \in Task, k0.mid[u] # InvalidId PROVE k0.mx[k0.mid[u]].orig \in 0 .. Lowest
      <4>1. x.mid[u] \in Mutex /\ k0.mid[u] = x.mid[u] /\ x.mx[x.mid[u]].orig \in 0 .. Lowest
        BY <1>1, <2>2, <3>1 DEF Typed, KType
      <4> QED BY <2>2, <4>1
    <3> QED BY <1>1, <2>1, <3>1 DEF Typed
  <2>4. Placed(k0, {})
    <3>1. \A n \in Mutex : ToSet(x.mx[n].list) \subseteq Task \ {o}
      <4>1. \A n \in Mutex : ToSet(x.mx[n].list) \subseteq Task
        BY <1>1, Elements DEF KType, MutexType
      <4>2. \A n \in Mutex : n # m => o \notin ToSet(x.mx[n].list)
        BY <1>1, <1>2 DEF Placed
      <4> QED BY <1>2, <4>1, <4>2
    <3> QED BY <1>1, <2>1, <2>2, <3>1 DEF Placed
  <2>5. Timed(k0, l)
    BY <1>1, <2>1 DEF Timed
  <2> QED BY <2>1, <2>3, <2>4, <2>5
<1>5. CASE list = << >>
  <2> DEFINE b == [x.mx[m] EXCEPT !.own = InvalidId]
  <2>1. b \in MutexType /\ b.list = list /\ b.own = InvalidId /\ b.orig = x.mx[m].orig
    BY <1>2 DEF MutexType
  <2>2. z = [x EXCEPT !.mid[o] = InvalidId, !.mx[m] = b]
    <3>1. z = [[x EXCEPT !.mid[o] = InvalidId] EXCEPT !.mx[m].own = InvalidId]
      BY <1>5 DEF LeaveMutex
    <3> QED BY <1>1, <3>1 DEF KType, Fields
  <2> HIDE DEF b, z, o
  <2>3. /\ Typed(z) /\ Placed(z, {}) /\ Timed(z, l)
        /\ z.mid = [x.mid EXCEPT ![o] = InvalidId] /\ z.mx = [x.mx EXCEPT ![m] = b]
        /\ z.run = x.run /\ z.lock = x.lock /\ z.free = x.free
        /\ z.mnum = x.mnum /\ z.inside = x.inside /\ z.st = x.st
    BY <1>4, <2>1, <2>2
  <2>4. \A n \in Mutex : z.mx[n] = IF n = m THEN b ELSE x.mx[n]
    BY <1>1, <2>3 DEF KType
  <2> QED BY <1>5, <2>1, <2>3, <2>4
<1>6. CASE list # << >>
  <2> DEFINE h == IF x.mx[m].hipri = o THEN Highest(x, list, x.prio[t], o)
                                       ELSE [id |-> x.mx[m].hipri, prio |-> x.prio[o]]
             b0 == [x.mx[m] EXCEPT !.own = InvalidId, !.hipri = h.id]
             k0 == [x EXCEPT !.mid[o] = InvalidId, !.mx[m] = b0]
             k2 == SetPriority(k0, o, x.mx[m].orig)
             mstale == (k2.mstale \ {t}) \cup {list[i] : i \in DOMAIN list \cap {2}}
             b == [k2.mx[m] EXCEPT !.own = t, !.orig = k2.prio[t], !.list = Tail(list)]
             k3 == [k2 EXCEPT !.mx[m] = b, !.prio[t] = h.prio, !.mstale = mstale]
  <2>1. /\ t \in ToSet(list) /\ t \in Task /\ Tail(list) \in Seq(Task) /\ IsInjective(Tail(list))
        /\ ToSet(Tail(list)) = ToSet(list) \ {t}
        /\ x.st[t] = "WAITING" /\ x.tick[t] = Invalid /\ x.mid[t] = m
    BY <1>1, <1>2, <1>6, HeadOnce DEF Placed
  <2>2. x.prio \in [Task -> 0 .. Lowest] /\ x.mx[m].hipri \in Task \cup {InvalidId}
    BY <1>1, <1>2 DEF Typed, MutexType
  <2>3. h.id \in Task \cup {InvalidId} /\ h.prio \in 0 .. Lowest
    BY SMTT(30), <1>1, <1>2, <2>1, <2>2, HighestRange
  <2>4. z = InsertToTCBRdyList(k3, t)
    <3>1. k0 = [[x EXCEPT !.mid[o] = InvalidId] EXCEPT
                  !.mx[m] = [@ EXCEPT !.own = InvalidId, !.hipri = h.id]]
      BY SMTT(30), <1>1 DEF KType, Fields
    <3> QED BY <1>6, <3>1 DEF LeaveMutex
  <2>5. b0 \in MutexType /\ b0.list = list /\ b0.own = InvalidId /\ b0.orig = x.mx[m].orig
    BY <1>2, <2>3 DEF MutexType
  <2> HIDE DEF h, b0, t, z
  <2>6. /\ Typed(k0) /\ Placed(k0, {}) /\ Timed(k0, l)
        /\ k0.mid = [x.mid EXCEPT ![o] = InvalidId] /\ k0.mx = [x.mx EXCEPT ![m] = b0]
        /\ k0.run = x.run /\ k0.lock = x.lock /\ k0.free = x.free
        /\ k0.mnum = x.mnum /\ k0.inside = x.inside /\ k0.st = x.st
        /\ k0.tick = x.tick /\ k0.dly = x.dly
    BY <1>4, <2>5
  <2> HIDE DEF k0
  <2>7. Shuffled(k0, k2)
    BY <1>2, <1>3, <2>6, SetPriorityShuffled
  <2> HIDE DEF k2, mstale
  <2>8. /\ Typed(k2) /\ Placed(k2, {}) /\ KType(k2) /\ Frame(k0, k2)
        /\ k2.st = x.st /\ k2.tick = x.tick /\ k2.dly = x.dly
    BY <2>6, <2>7 DEF Shuffled, Typed
  <2>9. \A n \in Mutex : k0.mx[n] = IF n = m THEN b0 ELSE x.mx[n]
    BY <1>1, <2>6 DEF KType
  <2>10. /\ \A n \in Mutex : k2.mx[n].list = x.mx[n].list
         /\ \A n \in Mutex : n # m => k2.mx[n].own = x.mx[n].own
    BY <2>5, <2>8, <2>9 DEF Frame
  <2>11. k2.mx[m] \in MutexType /\ k2.prio[t] \in 0 .. Lowest
    BY <2>1, <2>8 DEF Typed, KType
  <2>12. b \in MutexType /\ b.own = t /\ b.list = Tail(list) /\ b.orig = k2.prio[t]
    <3>1. k2.prio[t] \in Nat
      BY <2>11
    <3> QED BY <2>1, <2>11, <3>1 DEF MutexType
  <2> HIDE DEF b
  <2>13. /\ KType(k3) /\ k3.mx = [k2.mx EXCEPT ![m] = b] /\ k3.prio = [k2.prio EXCEPT ![t] = h.prio]
         /\ k3.mid = k2.mid /\ k3.inside = k2.inside /\ k3.tick = k2.tick
         /\ k3.lock = k2.lock /\ k3.st = k2.st /\ k3.run = k2.run /\ k3.timeReq = k2.timeReq
         /\ k3.free = k2.free /\ k3.rdy = k2.rdy /\ k3.dly = k2.dly /\ k3.slice = k2.slice
         /\ k3.req = k2.req /\ k3.intact = k2.intact /\ k3.flg = k2.flg /\ k3.srq = k2.srq
         /\ k3.mnum = k2.mnum /\ k3.ev = k2.ev /\ k3.pset = k2.pset
    <3>1. h.prio \in Nat
      BY <2>3
    <3> QED BY <2>1, <2>8, <2>12, <3>1 DEF KType, Fields
  <2> HIDE DEF k3
  <2>14. \A n \in Mutex : k3.mx[n] = IF n = m THEN b ELSE k2.mx[n]
    BY <2>8, <2>13 DEF KType
  <2>15. k3.mid = [x.mid EXCEPT ![o] = InvalidId]
         /\ \A u \in Task : k3.mid[u] = IF u = o THEN InvalidId ELSE x.mid[u]
    <3>1. k3.mid = [x.mid EXCEPT ![o] = InvalidId]
      BY <2>6, <2>8, <2>13 DEF Frame
    <3>2. x.mid \in [Task -> Mutex \cup {InvalidId}]
      BY <1>1 DEF KType
    <3> QED BY <3>1, <3>2
  <2>16. Typed(k3)
    <3>1. k3.prio \in [Task -> 0 .. Lowest]
      BY ZenonT(60), <2>3, <2>8, <2>13 DEF Typed
    <3>2. ASSUME NEW u \in Task, k3.mid[u] # InvalidId PROVE k3.mx[k3.mid[u]].orig \in 0 .. Lowest
      <4>1. k2.mid[u] \in Mutex /\ k3.mid[u] = k2.mid[u] /\ k2.mx[k2.mid[u]].orig \in 0 .. Lowest
        BY <2>8, <2>13, <3>2 DEF Typed, KType
      <4> QED BY <2>11, <2>12, <2>14, <4>1
    <3> QED BY <2>8, <2>13, <3>1, <3>2 DEF Typed
  <2>17. Placed(k3, {})
    <3>1. ASSUME NEW n \in Mutex
          PROVE  /\ IsInjective(k3.mx[n].list)
                 /\ \A u \in ToSet(k3.mx[n].list) :
                      k3.st[u] = "WAITING" /\ k3.tick[u] = Invalid /\ k3.mid[u] = n
      <4>1. /\ IsInjective(k2.mx[n].list)
            /\ \A u \in ToSet(k2.mx[n].list) :
                 k3.st[u] = "WAITING" /\ k3.tick[u] = Invalid /\ k3.mid[u] = n
        BY <2>8, <2>13 DEF Placed
      <4>2. CASE n = m
        BY <2>1, <2>10, <2>12, <2>14, <4>1, <4>2
      <4>3. CASE n # m
        BY <2>14, <4>1, <4>3
      <4> QED BY <4>2, <4>3
    <3> QED BY <2>8, <2>13, <3>1 DEF Placed
  <2>18. k3.st[t] = "WAITING" /\ k3.tick[t] = Invalid /\ t \notin ToSet(k3.free)
    BY <2>1, <2>8, <2>13, <2>17 DEF Placed
  <2>19. \A n \in Mutex : t \notin ToSet(k3.mx[n].list)
    <3> TAKE n \in Mutex
    <3>1. CASE n = m
      BY <2>1, <2>12, <2>14, <3>1
    <3>2. CASE n # m
      BY <1>1, <2>1, <2>10, <2>14, <3>2 DEF Placed
    <3> QED BY <3>1, <3>2
  <2>20. /\ Typed(z) /\ Placed(z, {}) /\ Frame(k3, z)
         /\ z.st = [k3.st EXCEPT ![t] = "READY"]
         /\ z.tick = k3.tick /\ z.dly = k3.dly /\ z.mx = k3.mx
    <3>1. Placed(k3, {t})
      BY <2>1, <2>17, <2>18, NotReady
    <3> QED BY <2>1, <2>4, <2>16, <2>18, <2>19, <3>1, ReadyIn
  <2>21. Timed(z, l)
    BY <1>1, <2>8, <2>13, <2>20 DEF Timed
  <2>22. /\ z.run = x.run /\ z.lock = x.lock /\ z.free = x.free /\ z.mnum = x.mnum
         /\ z.inside = x.inside /\ z.mid = [x.mid EXCEPT ![o] = InvalidId]
         /\ z.st = [x.st EXCEPT ![t] = "READY"]
    BY <2>6, <2>8, <2>13, <2>15, <2>20 DEF Frame
  <2>23. \A n \in Mutex : n # m => z.mx[n].own = x.mx[n].own /\ z.mx[n].list = x.mx[n].list
    BY <2>10, <2>14, <2>20
  <2>24. z.mx[m].own = t /\ z.mx[m].list = Tail(list)
    BY <2>12, <2>14, <2>20
  <2> QED BY <1>6, <2>20, <2>21, <2>22, <2>23, <2>24
<1> QED BY <1>5, <1>6

\* y is z when the program of t is in no mutex.
Outside(z, t, y) ==
  /\ KType(y) /\ y.inside = [z.inside EXCEPT ![t] = {}] /\ y.mid = z.mid /\ y.mx = z.mx
  /\ y.prio = z.prio /\ y.tick = z.tick
  /\ y.lock = z.lock /\ y.st = z.st /\ y.run = z.run /\ y.timeReq = z.timeReq
  /\ y.free = z.free /\ y.rdy = z.rdy /\ y.dly = z.dly /\ y.slice = z.slice /\ y.req = z.req
  /\ y.intact = z.intact /\ y.flg = z.flg /\ y.srq = z.srq
  /\ y.mnum = z.mnum /\ y.mstale = z.mstale /\ y.ev = z.ev /\ y.pset = z.pset

LEMMA OutsideIs ==
    ASSUME NEW z, Typed(z), NEW t \in Task
    PROVE  Outside(z, t, [z EXCEPT !.inside[t] = {}])
BY DEF Typed, KType, Fields, Outside

\* The owner of a mutex leaves it, or is made to leave it by the task that is
\* about to delete it.
LEMMA LeftWhole ==
    ASSUME Sound, NEW m \in Mutex, NEW o \in Task, k.mx[m].own = o, NEW d, NEW y,
           Outside(LeaveMutex(k, m), o, y),
           d = [t \in Task |-> d[t]], \A t \in Task \ {k.run} : d[t] = call[t],
           call[k.run].op \notin {"create", "enter", "delete"},
           \/ d[k.run] = NoCall /\ o = k.run
           \/ /\ d[k.run] = [op |-> "delete", task |-> o] /\ o # Idle
              /\ o = k.run => k.lock = 0
              /\ o # k.run => k.lock > 0
    PROVE  Whole(y, d, left) /\ Going(y)
<1> DEFINE z == LeaveMutex(k, m)
           list == k.mx[m].list
           h == Head(list)
<1>1. /\ Typed(k) /\ Placed(k, {}) /\ States(k, call) /\ Owned(k, call) /\ Calls(k, call)
      /\ Timed(k, left) /\ KType(k) /\ k.run \in Task /\ k.st[k.run] = "RUNNING" /\ Whole(k, call, left)
  BY SoundParts
<1>2. InvalidId \notin Task /\ InvalidId \notin Mutex
  BY KernelAssumption
<1>3. /\ k.mid[o] = m /\ o \notin ToSet(list) /\ list \in Seq(Task) /\ IsInjective(list)
      /\ ToSet(list) \subseteq Task \ {o, k.run}
  <2>1. k.mid[o] = m /\ o \notin ToSet(list)
    BY <1>1, <1>2 DEF Owned
  <2>2. list \in Seq(Task)
    BY <1>1 DEF KType, MutexType
  <2>3. ToSet(list) \subseteq Task
    BY <2>2, Elements
  <2> QED BY <1>1, <2>1, <2>2, <2>3, RunFree DEF Placed
<1>4. list # << >> => /\ h \in ToSet(list) /\ Tail(list) \in Seq(Task)
                      /\ ToSet(Tail(list)) = ToSet(list) \ {h}
  BY <1>3, HeadOnce
<1> HIDE DEF z, list, h
<1>5. /\ Typed(z) /\ Placed(z, {}) /\ Timed(z, left)
      /\ z.run = k.run /\ z.lock = k.lock /\ z.free = k.free
      /\ z.mnum = k.mnum /\ z.inside = k.inside /\ z.mid = [k.mid EXCEPT ![o] = InvalidId]
      /\ \A n \in Mutex : n # m => z.mx[n].own = k.mx[n].own /\ z.mx[n].list = k.mx[n].list
      /\ list = << >> => z.mx[m].own = InvalidId /\ z.mx[m].list = << >> /\ z.st = k.st
      /\ list # << >> => z.mx[m].own = h /\ z.mx[m].list = Tail(list)
                         /\ z.st = [k.st EXCEPT ![h] = "READY"]
  <2>1. k.mx[m].own # InvalidId
    BY <1>2
  <2> QED BY <1>1, <2>1, Left DEF z, list, h
<1>6. /\ KType(y) /\ y.inside = [z.inside EXCEPT ![o] = {}] /\ y.mid = z.mid /\ y.mx = z.mx
      /\ y.prio = z.prio /\ y.tick = z.tick
      /\ y.lock = z.lock /\ y.st = z.st /\ y.run = z.run /\ y.timeReq = z.timeReq
      /\ y.free = z.free /\ y.rdy = z.rdy /\ y.dly = z.dly /\ y.slice = z.slice /\ y.req = z.req
      /\ y.intact = z.intact /\ y.flg = z.flg /\ y.srq = z.srq
      /\ y.mnum = z.mnum /\ y.mstale = z.mstale /\ y.ev = z.ev /\ y.pset = z.pset
  BY DEF Outside, z
<1>7. /\ \A t \in Task : y.mid[t] = IF t = o THEN InvalidId ELSE k.mid[t]
      /\ \A t \in Task : y.inside[t] = IF t = o THEN {} ELSE k.inside[t]
      /\ y.inside \in [Task -> SUBSET Mutex]
  <2>1. k.inside \in [Task -> SUBSET Mutex] /\ k.mid \in [Task -> Mutex \cup {InvalidId}]
    BY <1>1 DEF Typed, KType
  <2>2. y.inside = [k.inside EXCEPT ![o] = {}]
    BY <1>5, <1>6
  <2>3. y.mid = [k.mid EXCEPT ![o] = InvalidId]
    BY <1>5, <1>6
  <2>4. \A t \in Task : y.mid[t] = IF t = o THEN InvalidId ELSE k.mid[t]
    BY <2>1, <2>3
  <2>5. /\ \A t \in Task : y.inside[t] = IF t = o THEN {} ELSE k.inside[t]
        /\ y.inside \in [Task -> SUBSET Mutex]
    BY <2>1, <2>2
  <2> QED BY <2>4, <2>5
<1>8. \A t \in Task : y.st[t] # k.st[t] => /\ k.st[t] = "WAITING" /\ y.st[t] = "READY"
  <2>1. CASE list = << >>
    BY <1>5, <1>6, <2>1
  <2>2. CASE list # << >>
    <3>1. k.st[h] = "WAITING"
      BY <1>1, <1>4, <2>2 DEF Placed, list
    <3>2. k.st \in [Task -> Alive \cup {"DORMANT"}]
      BY <1>1 DEF KType
    <3> QED BY <1>5, <1>6, <2>2, <3>1, <3>2
  <2> QED BY <2>1, <2>2
<1>9. Typed(y)
  BY <1>5, <1>6, <1>7 DEF Typed
<1>10. Placed(y, {})
  <2>1. Placed(z, {})
    BY <1>5
  <2>2. /\ y.intact = z.intact /\ y.rdy = z.rdy /\ y.dly = z.dly /\ y.free = z.free
        /\ y.st = z.st /\ y.tick = z.tick /\ y.mid = z.mid /\ y.mx = z.mx
    BY <1>6
  <2> QED BY <2>1, <2>2 DEF Placed
<1>11. Timed(y, left)
  BY <1>5, <1>6 DEF Timed
<1>12. d[k.run].op \in {"none", "delete"}
  BY DEF NoCall
<1>13. States(y, d)
  <2>1. k.st[o] # "DORMANT"
    BY <1>1, <1>2, <1>3 DEF States
  <2>2. \A t \in Task : k.st[t] = "DORMANT" => y.mid[t] = k.mid[t]
    BY <1>7, <2>1
  <2>3. \A t \in Task : y.st[t] # k.st[t] =>
             /\ k.st[t] # "DORMANT" /\ y.st[t] \in {"READY", "WAITING"}
             /\ t = Idle => y.st[t] = "READY"
    BY <1>8
  <2>4. y.run = k.run /\ y.free = k.free
    BY <1>5, <1>6
  <2>5. /\ KType(k) /\ States(k, call) /\ k.st[k.run] = "RUNNING"
        /\ call[k.run].op # "create" /\ d[k.run].op # "create"
    BY <1>1, <1>12
  <2>6. \A t \in Task \ {k.run} : d[t] = call[t]
    OBVIOUS
  <2> QED BY <2>2, <2>3, <2>4, <2>5, <2>6, StatesKept
\* Who owns and waits, after the step.
<1>14. /\ \A n \in Mutex : n # m => y.mx[n].own = k.mx[n].own /\ y.mx[n].list = k.mx[n].list
       /\ list = << >> => y.mx[m].own = InvalidId /\ y.mx[m].list = << >>
       /\ list # << >> => y.mx[m].own = h /\ y.mx[m].list = Tail(list)
  BY <1>5, <1>6
<1>15. \A n \in Mutex : ToSet(k.mx[n].list) \subseteq Task \ {k.run} /\ k.mx[n].own \in Task \cup {InvalidId}
  <2>1. \A n \in Mutex : ToSet(k.mx[n].list) \subseteq Task /\ k.mx[n].own \in Task \cup {InvalidId}
    BY <1>1, Elements DEF KType, MutexType
  <2> QED BY <2>1, RunFree
<1>16. \A t \in Task, n \in Mutex : call[t] = EnterCall(n) => d[t] = EnterCall(n)
  BY DEF EnterCall
<1>17. \A n \in Mutex : n # m => k.mx[n].own # o
  BY <1>1, <1>2, <1>3 DEF Owned
<1>18. Owned(y, d)
  <2>1. ASSUME NEW n \in Mutex
        PROVE  /\ y.mx[n].own # InvalidId =>
                    /\ y.mid[y.mx[n].own] = n /\ y.mx[n].own \notin ToSet(y.mx[n].list)
                    /\ n \in y.inside[y.mx[n].own] \/ d[y.mx[n].own] = EnterCall(n)
               /\ y.mx[n].own = InvalidId => y.mx[n].list = << >>
               /\ n > y.mnum => y.mx[n].own = InvalidId
               /\ \A t \in ToSet(y.mx[n].list) : d[t] = EnterCall(n)
    <3>1. CASE n # m
      <4>1. y.mx[n].own = k.mx[n].own /\ y.mx[n].list = k.mx[n].list /\ k.mx[n].own # o /\ y.mnum = k.mnum
        BY <1>5, <1>6, <1>14, <1>17, <3>1
      <4> QED BY <1>1, <1>7, <1>15, <1>16, <4>1 DEF Owned
    <3>2. CASE n = m
      <4>0. ~(n > y.mnum)
        BY <1>1, <1>2, <1>5, <1>6, <3>2 DEF Owned
      <4>1. CASE list = << >>
        <5>1. ToSet(list) = {}
          BY <1>3, <4>1, Elements
        <5>2. y.mx[n].own = InvalidId /\ y.mx[n].list = list
          BY <1>14, <3>2, <4>1
        <5> QED BY <4>0, <4>1, <5>1, <5>2
      <4>2. CASE list # << >>
        <5>1. y.mx[n].own = h /\ y.mx[n].list = Tail(list) /\ h \in ToSet(list) /\ h \in Task /\ h # o
          BY <1>3, <1>4, <1>14, <3>2, <4>2
        <5>2. k.mid[h] = m /\ \A t \in ToSet(list) : call[t] = EnterCall(m)
          BY <1>1, <5>1 DEF Placed, Owned, list
        <5>3. h \notin ToSet(Tail(list)) /\ ToSet(Tail(list)) \subseteq ToSet(list)
          BY <1>4, <4>2
        <5>4. y.mid[h] = m /\ h # InvalidId
          BY <1>2, <1>7, <5>1, <5>2
        <5>5. \A t \in ToSet(list) : t \in Task /\ d[t] = EnterCall(m)
          BY <1>3, <1>16, <5>2
        <5> QED BY <3>2, <4>0, <5>1, <5>3, <5>4, <5>5
      <4> QED BY <4>1, <4>2
    <3> QED BY <3>1, <3>2
  <2>2. ASSUME NEW t \in Task, y.mid[t] # InvalidId
        PROVE  y.mx[y.mid[t]].own = t \/ t \in ToSet(y.mx[y.mid[t]].list)
    <3>1. t # o /\ y.mid[t] = k.mid[t] /\ k.mid[t] \in Mutex
      BY <1>1, <1>7, <2>2 DEF KType
    <3>2. k.mx[k.mid[t]].own = t \/ t \in ToSet(k.mx[k.mid[t]].list)
      BY <1>1, <2>2, <3>1 DEF Owned
    <3>3. CASE k.mid[t] # m
      BY <1>14, <3>1, <3>2, <3>3
    <3>4. CASE k.mid[t] = m
      <4>1. t \in ToSet(list)
        BY <3>1, <3>2, <3>4 DEF list
      <4>2. list # << >>
        BY <1>3, <4>1, Elements
      <4> QED BY <1>4, <1>14, <3>1, <3>4, <4>1, <4>2
    <3> QED BY <3>3, <3>4
  <2>3. ASSUME NEW t \in Task, NEW n \in Mutex, n \in y.inside[t] PROVE y.mx[n].own = t
    <3>1. t # o /\ k.mx[n].own = t
      BY <1>1, <1>7, <2>3 DEF Owned
    <3>2. n # m
      BY <3>1
    <3> QED BY <1>14, <3>1, <3>2
  <2> QED BY <2>1, <2>2, <2>3 DEF Owned
<1>19. Calls(y, d)
  <2>1. \A t \in Task : ~Doomed(k, call, t)
    BY DEF Doomed
  <2>2. Alone(y, d, k.run) \/ Locked(y, d, k.run)
    <3>1. CASE d[k.run] = NoCall
      BY <3>1 DEF Alone
    <3>2. CASE d[k.run] = [op |-> "delete", task |-> o] /\ o # Idle /\ o = k.run /\ k.lock = 0
      <4>1. y.mid[k.run] = InvalidId /\ y.lock = 0
        BY <1>5, <1>6, <1>7, <3>2
      <4> QED BY <3>2, <4>1 DEF Alone
    <3>3. CASE d[k.run] = [op |-> "delete", task |-> o] /\ o # Idle /\ o # k.run /\ k.lock > 0
      <4>1. y.mid[o] = InvalidId /\ y.lock > 0 /\ y.run = k.run /\ y.st[o] # "DORMANT"
        <5>1. k.st[o] # "DORMANT"
          BY <1>1, <1>2, <1>3 DEF States
        <5> QED BY <1>5, <1>6, <1>7, <1>8, <3>3, <5>1
      <4>2. Other(y, d, k.run, o)
        BY <3>3, <4>1 DEF Other
      <4> QED BY <3>3, <4>1, <4>2 DEF Locked
    <3> QED BY <3>1, <3>2, <3>3
  <2>3. \A t \in Task \ {k.run} : k.mid[t] = InvalidId => y.mid[t] = InvalidId
    BY <1>7
  <2>4. ASSUME NEW t \in Task \ {k.run}, NEW n \in Mutex
        PROVE  /\ k.mx[n].own = t => y.mx[n].own = t \/ Doomed(y, d, t)
               /\ t \in ToSet(k.mx[n].list) => y.mx[n].own = t \/ t \in ToSet(y.mx[n].list)
    <3>1. CASE n # m
      BY <1>14, <3>1
    <3>2. CASE n = m
      <4>1. k.mx[n].own = t => Doomed(y, d, t)
        <5> SUFFICES ASSUME k.mx[n].own = t PROVE Doomed(y, d, t)
          OBVIOUS
        <5>1. t = o /\ d[k.run] = [op |-> "delete", task |-> o] /\ y.run = k.run
          BY <1>5, <1>6, <3>2
        <5> QED BY <5>1 DEF Doomed
      <4>2. ASSUME t \in ToSet(list) PROVE y.mx[m].own = t \/ t \in ToSet(y.mx[m].list)
        <5>1. list # << >>
          BY <1>3, <4>2, Elements
        <5> QED BY <1>4, <1>14, <4>2, <5>1
      <4> QED BY <3>2, <4>1, <4>2 DEF list
    <3> QED BY <3>1, <3>2
  <2>5. KType(k) /\ Calls(k, call) /\ y.run = k.run
    BY <1>1, <1>5, <1>6
  <2> QED BY <2>1, <2>2, <2>3, <2>4, <2>5, CallsKept
<1>20. Going(y)
  <2>1. y.run = k.run
    BY <1>5, <1>6
  <2> QED BY <1>1, <1>8, <2>1 DEF Going
<1> QED BY <1>9, <1>10, <1>11, <1>13, <1>18, <1>19, <1>20 DEF Whole

LEMMA StepLeave ==
    ASSUME Sound, UNCHANGED prog, NEW m \in Mutex, CoLeaveMutexSection(m)
    PROVE  Sound'
<1> DEFINE y == [LeaveMutex(k, m) EXCEPT !.inside[k.run] = {}]
<1>1. call[k.run] = NoCall /\ m \in k.inside[k.run] /\ call' = call /\ left' = left
  BY DEF CoLeaveMutexSection, Caller
<1>2. k.run \in Task /\ k.mx[m].own = k.run
  BY <1>1, SoundParts DEF Owned
<1>3. LeaveMutex(k, m).inside = k.inside
  <2>1. Whole(k, call, left) /\ k.mx[m].own # InvalidId
    BY <1>2, SoundParts, KernelAssumption
  <2> QED BY <2>1, Left
<1>4. k.inside[k.run] \ {m} = {}
  <2>1. \A n \in k.inside[k.run] : n \in Mutex /\ k.mx[n].own = k.run
    BY <1>2, SoundParts DEF Typed, Owned
  <2>2. \A n \in k.inside[k.run] : n = k.mid[k.run]
    BY <1>2, <2>1, SoundParts, KernelAssumption DEF Owned
  <2> QED BY <1>1, <2>2
<1>5. k' = OsSchedUnlock(y)
  BY <1>3, <1>4 DEF CoLeaveMutexSection
<1>6. Whole(y, call, left) /\ Going(y)
  <2> HIDE DEF y
  <2>1. call = [t \in Task |-> call[t]] /\ call[k.run].op = "none"
    BY <1>1, SoundParts DEF NoCall
  <2>2. Outside(LeaveMutex(k, m), k.run, y)
    <3>1. Typed(LeaveMutex(k, m))
      <4>1. Whole(k, call, left) /\ k.mx[m].own # InvalidId
        BY <1>2, SoundParts, KernelAssumption
      <4> QED BY <4>1, Left
    <3> QED BY <1>2, <3>1, OutsideIs DEF y
  <2> QED BY <1>1, <1>2, <2>1, <2>2, LeftWhole
<1> HIDE DEF y
<1> QED BY <1>1, <1>5, <1>6, Ended

LEMMA StepDelLeave ==
    ASSUME Sound, UNCHANGED prog, DelLeave
    PROVE  Sound'
<1> DEFINE t == call[k.run].task
           m == call[k.run].mutex
           v == [op |-> "delete", task |-> t]
           y == [LeaveMutex(k, m) EXCEPT !.inside[t] = {}]
<1>1. call[k.run].op = "delleave" /\ k' = OsSchedUnlock(y) /\ Begin(v) /\ left' = left
  BY DEF DelLeave, Pending
<1>2. /\ t \in Task \ {Idle} /\ m \in Mutex /\ k.mx[m].own = t
      /\ t = k.run => k.lock = 0
      /\ t # k.run => k.lock > 0
  <2>1. CASE Alone(k, call, k.run)
    <3>1. ~Doomed(k, call, k.run)
      BY <1>1 DEF Doomed
    <3> QED BY <1>1, <2>1, <3>1, SoundParts, AloneCall
  <2>2. ASSUME NEW u \in Task \ {Idle, k.run}, Other(k, call, k.run, u), k.lock > 0
        PROVE  /\ t \in Task \ {Idle, k.run} /\ m \in Mutex /\ k.mx[m].own = t /\ k.lock > 0
    BY <1>1, <2>2, OtherCall
  <2>3. call[k.run].op # "none"
    BY <1>1
  <2> QED BY <2>1, <2>2, <2>3, SoundParts, RunCall
<1>3. /\ call' = [u \in Task |-> call'[u]] /\ call'[k.run] = v
      /\ \A u \in Task \ {k.run} : call'[u] = call[u]
  BY <1>1, Called
<1>5. Outside(LeaveMutex(k, m), t, y)
  <2>1. Typed(LeaveMutex(k, m))
    <3>1. Whole(k, call, left) /\ k.mx[m].own # InvalidId
      BY <1>2, SoundParts, KernelAssumption
    <3> QED BY <1>2, <3>1, Left
  <2> QED BY <1>2, <2>1, OutsideIs DEF y
<1> HIDE DEF t, m
<1>4. Whole(y, call', left) /\ Going(y)
  <2> HIDE DEF y
  <2>1. t \in Task /\ m \in Mutex /\ Outside(LeaveMutex(k, m), t, y)
    BY <1>2, <1>5
  <2>2. call[k.run].op \notin {"create", "enter", "delete"}
    BY <1>1
  <2>3. /\ call'[k.run] = [op |-> "delete", task |-> t] /\ t # Idle
        /\ t = k.run => k.lock = 0
        /\ t # k.run => k.lock > 0
    BY <1>2, <1>3
  <2>4. k.mx[m].own = t
    BY <1>2
  <2> QED BY <1>3, <2>1, <2>2, <2>3, <2>4, LeftWhole
<1> HIDE DEF y
<1> QED BY <1>1, <1>4, Ended

\* A mutex block with another owner or another hipriTaskID.
LEMMA Reblocked ==
    ASSUME NEW x, Typed(x), Placed(x, {}), NEW l, Timed(x, l), NEW m \in Mutex,
           NEW b \in MutexType, b.list = x.mx[m].list, b.orig = x.mx[m].orig
    PROVE  LET y == [x EXCEPT !.mx[m] = b]
           IN /\ Typed(y) /\ Placed(y, {}) /\ Timed(y, l)
              /\ \A n \in Mutex : y.mx[n] = IF n = m THEN b ELSE x.mx[n]
              /\ y.run = x.run /\ y.lock = x.lock /\ y.free = x.free /\ y.mid = x.mid
              /\ y.mnum = x.mnum /\ y.inside = x.inside /\ y.st = x.st
              /\ y.tick = x.tick /\ y.dly = x.dly
<1> DEFINE y == [x EXCEPT !.mx[m] = b]
<1>1. KType(x)
  BY DEF Typed
<1>2. /\ KType(y) /\ y.mid = x.mid /\ y.mx = [x.mx EXCEPT ![m] = b]
      /\ y.inside = x.inside /\ y.prio = x.prio /\ y.tick = x.tick
      /\ y.lock = x.lock /\ y.st = x.st /\ y.run = x.run /\ y.timeReq = x.timeReq
      /\ y.free = x.free /\ y.rdy = x.rdy /\ y.dly = x.dly /\ y.slice = x.slice /\ y.req = x.req
      /\ y.intact = x.intact /\ y.flg = x.flg /\ y.srq = x.srq
      /\ y.mnum = x.mnum /\ y.mstale = x.mstale /\ y.ev = x.ev /\ y.pset = x.pset
  BY <1>1 DEF KType, Fields
<1> HIDE DEF y
<1>3. \A n \in Mutex : y.mx[n] = IF n = m THEN b ELSE x.mx[n]
  BY <1>1, <1>2 DEF KType
<1>4. \A n \in Mutex : y.mx[n].list = x.mx[n].list /\ y.mx[n].orig = x.mx[n].orig
  BY <1>3
<1>5. Typed(y)
  <2>1. \A u \in Task : y.mid[u] # InvalidId => y.mx[y.mid[u]].orig \in 0 .. Lowest
    BY <1>1, <1>2, <1>4 DEF Typed, KType
  <2> QED BY <1>2, <2>1 DEF Typed
<1>6. Placed(y, {})
  BY <1>2, <1>4 DEF Placed
<1>7. Timed(y, l)
  BY <1>2 DEF Timed
<1> QED BY <1>2, <1>3, <1>5, <1>6, <1>7 DEF y

\* A task that waits for a mutex is taken from its list.
LEMMA Unwaited ==
    ASSUME NEW x, NEW c, NEW l, Whole(x, c, l), NEW t \in Task, x.mid[t] # InvalidId,
           x.mx[x.mid[t]].own # t, ~Misses(x, t)
    PROVE  LET z == RemoveMutexList(x, t)
               m == x.mid[t]
           IN /\ Typed(z) /\ Placed(z, {}) /\ Timed(z, l)
              /\ z.run = x.run /\ z.lock = x.lock /\ z.free = x.free
              /\ z.mnum = x.mnum /\ z.inside = x.inside /\ z.mid = [x.mid EXCEPT ![t] = InvalidId]
              /\ z.st = x.st /\ z.tick = x.tick
              /\ \A n \in Mutex : n # m => z.mx[n].own = x.mx[n].own /\ z.mx[n].list = x.mx[n].list
              /\ z.mx[m].own = x.mx[m].own /\ ToSet(z.mx[m].list) = ToSet(x.mx[m].list) \ {t}
              /\ t \in ToSet(x.mx[m].list) /\ m \in Mutex
<1> DEFINE m == x.mid[t]
           o == x.mx[m].own
           list == Unlinked(x.mx[m].list, t)
           z == RemoveMutexList(x, t)
           Goal(y) ==
              /\ Typed(y) /\ Placed(y, {}) /\ Timed(y, l)
              /\ y.run = x.run /\ y.lock = x.lock /\ y.free = x.free
              /\ y.mnum = x.mnum /\ y.inside = x.inside /\ y.mid = [x.mid EXCEPT ![t] = InvalidId]
              /\ y.st = x.st /\ y.tick = x.tick
              /\ \A n \in Mutex : n # m => y.mx[n].own = x.mx[n].own /\ y.mx[n].list = x.mx[n].list
              /\ y.mx[m].own = o /\ ToSet(y.mx[m].list) = ToSet(x.mx[m].list) \ {t}
           ko == [x.mx[m] EXCEPT !.list = list]
           mstale == x.mstale \ {t}
           intact == x.intact /\ ~Misses(x, t)
           k1 == [x EXCEPT !.mx[m] = ko, !.mid[t] = InvalidId, !.mstale = mstale, !.intact = intact]
           h == Highest(k1, k1.mx[m].list, x.mx[m].orig, o)
           b0 == [k1.mx[m] EXCEPT !.own = InvalidId, !.hipri = h.id]
           k0 == [k1 EXCEPT !.mx[m] = b0]
           k2 == SetPriority(k0, o, h.prio)
           b == [k2.mx[m] EXCEPT !.own = o]
           k3 == [k2 EXCEPT !.mx[m] = b]
<1> SUFFICES Goal(z) /\ t \in ToSet(x.mx[m].list) /\ m \in Mutex
  OBVIOUS
<1>1. /\ Typed(x) /\ Placed(x, {}) /\ Owned(x, c) /\ Timed(x, l) /\ KType(x)
  BY DEF Whole, Typed
<1>2. m \in Mutex /\ x.mx[m] \in MutexType
  BY <1>1 DEF KType
<1>3. /\ x.mx[m].list \in Seq(Task) /\ o \in Task \cup {InvalidId} /\ IsInjective(x.mx[m].list)
      /\ ToSet(x.mx[m].list) \subseteq Task
  <2>1. x.mx[m].list \in Seq(Task) /\ o \in Task \cup {InvalidId}
    BY <1>2 DEF MutexType
  <2> QED BY <1>1, <1>2, <2>1, Elements DEF Placed
<1>4. t \in ToSet(x.mx[m].list)
  BY <1>1 DEF Owned
<1>5. list \in Seq(Task) /\ IsInjective(list) /\ ToSet(list) = ToSet(x.mx[m].list) \ {t}
  BY <1>3, UnlinkedOnce
<1>6. x.mx[m].orig \in 0 .. Lowest
  BY SMTT(30), <1>1 DEF Typed
<1>7. z = IF x.mx[m].hipri = t THEN k3 ELSE k1
  <2>1. k1 = [x EXCEPT !.mx[m].list = list, !.mid[t] = InvalidId,
                       !.mstale = @ \ {t}, !.intact = @ /\ ~Misses(x, t)]
    OBVIOUS
  <2>2. k3 = [k2 EXCEPT !.mx[m].own = o]
    OBVIOUS
  <2> HIDE DEF b, ko
  <2> QED BY <2>1, <2>2 DEF RemoveMutexList
<1>8. ko \in MutexType /\ ko.list = list /\ ko.orig = x.mx[m].orig /\ ko.own = o
  BY <1>2, <1>5 DEF MutexType
<1> HIDE DEF z, list, ko
<1>9. /\ KType(k1) /\ k1.mid = [x.mid EXCEPT ![t] = InvalidId] /\ k1.mx = [x.mx EXCEPT ![m] = ko]
      /\ k1.inside = x.inside /\ k1.prio = x.prio /\ k1.tick = x.tick
      /\ k1.lock = x.lock /\ k1.st = x.st /\ k1.run = x.run /\ k1.timeReq = x.timeReq
      /\ k1.free = x.free /\ k1.rdy = x.rdy /\ k1.dly = x.dly /\ k1.slice = x.slice /\ k1.req = x.req
      /\ k1.intact /\ k1.flg = x.flg /\ k1.srq = x.srq
      /\ k1.mnum = x.mnum /\ k1.ev = x.ev /\ k1.pset = x.pset
  <2>1. intact
    BY <1>1 DEF Placed
  <2> HIDE DEF mstale, intact
  <2>2. KType(k1)
    BY <1>1, <1>2, <1>8, <2>1 DEF KType, Fields
  <2> QED BY <1>1, <2>1, <2>2 DEF KType, Fields
<1> HIDE DEF k1
<1>10. /\ \A u \in Task : k1.mid[u] = IF u = t THEN InvalidId ELSE x.mid[u]
       /\ \A n \in Mutex : k1.mx[n] = IF n = m THEN ko ELSE x.mx[n]
  <2>1. x.mid \in [Task -> Mutex \cup {InvalidId}] /\ x.mx \in [Mutex -> MutexType]
    BY <1>1 DEF KType
  <2>2. \A u \in Task : k1.mid[u] = IF u = t THEN InvalidId ELSE x.mid[u]
    BY <1>9, <2>1
  <2>3. \A n \in Mutex : k1.mx[n] = IF n = m THEN ko ELSE x.mx[n]
    BY <1>9, <2>1
  <2> QED BY <2>2, <2>3
<1>11. Typed(k1)
  <2>1. ASSUME NEW u \in Task, k1.mid[u] # InvalidId PROVE k1.mx[k1.mid[u]].orig \in 0 .. Lowest
    <3>1. x.mid[u] \in Mutex /\ k1.mid[u] = x.mid[u] /\ x.mx[x.mid[u]].orig \in 0 .. Lowest
      BY <1>1, <1>10, <2>1 DEF Typed, KType
    <3> QED BY <1>8, <1>10, <3>1
  <2> QED BY <1>1, <1>9, <2>1 DEF Typed
<1>12. Placed(k1, {})
  <2>1. ASSUME NEW n \in Mutex
        PROVE  /\ IsInjective(k1.mx[n].list)
               /\ \A u \in ToSet(k1.mx[n].list) :
                    k1.st[u] = "WAITING" /\ k1.tick[u] = Invalid /\ k1.mid[u] = n
    <3>0. /\ IsInjective(x.mx[n].list) /\ ToSet(x.mx[n].list) \subseteq Task
          /\ \A u \in ToSet(x.mx[n].list) : k1.st[u] = "WAITING" /\ k1.tick[u] = Invalid /\ x.mid[u] = n
      <4>1. ToSet(x.mx[n].list) \subseteq Task
        BY <1>1, Elements DEF KType, MutexType
      <4> QED BY <1>1, <1>9, <4>1 DEF Placed
    <3>1. CASE n = m
      <4>1. k1.mx[n].list = list
        BY <1>8, <1>10, <3>1
      <4> QED BY <1>5, <1>10, <3>0, <3>1, <4>1
    <3>2. CASE n # m
      <4>1. k1.mx[n].list = x.mx[n].list /\ t \notin ToSet(x.mx[n].list)
        BY <1>10, <3>0, <3>2
      <4> QED BY <1>10, <3>0, <4>1
    <3> QED BY <3>1, <3>2
  <2> QED BY <1>1, <1>9, <2>1 DEF Placed
<1>13. Timed(k1, l)
  BY <1>1, <1>9 DEF Timed
<1>14. Goal(k1)
  <2>1. k1.mx[m] = ko /\ \A n \in Mutex : n # m => k1.mx[n] = x.mx[n]
    BY <1>2, <1>10
  <2>2. k1.mx[m].own = o /\ ToSet(k1.mx[m].list) = ToSet(x.mx[m].list) \ {t}
    BY <1>5, <1>8, <2>1
  <2>3. \A n \in Mutex : n # m => k1.mx[n].own = x.mx[n].own /\ k1.mx[n].list = x.mx[n].list
    BY <2>1
  <2>4. /\ k1.run = x.run /\ k1.lock = x.lock /\ k1.free = x.free
        /\ k1.mnum = x.mnum /\ k1.inside = x.inside /\ k1.mid = [x.mid EXCEPT ![t] = InvalidId]
        /\ k1.st = x.st /\ k1.tick = x.tick
    BY <1>9
  <2> QED BY <1>11, <1>12, <1>13, <2>2, <2>3, <2>4
<1>15. Goal(k3)
  <2>1. k1.mx[m] = ko /\ k1.mx[m].list = list
    BY <1>2, <1>8, <1>10
  <2>2. h.id \in Task \cup {InvalidId} /\ h.prio \in 0 .. Lowest
    BY <1>3, <1>5, <1>6, <1>11, <2>1, HighestRange
  <2> HIDE DEF h
  <2>3. b0 \in MutexType /\ b0.list = list /\ b0.orig = k1.mx[m].orig
    BY <1>8, <2>1, <2>2 DEF MutexType
  <2> HIDE DEF b0
  <2>4. /\ Typed(k0) /\ Placed(k0, {}) /\ Timed(k0, l)
        /\ \A n \in Mutex : k0.mx[n] = IF n = m THEN b0 ELSE k1.mx[n]
        /\ k0.run = k1.run /\ k0.lock = k1.lock /\ k0.free = k1.free /\ k0.mid = k1.mid
        /\ k0.mnum = k1.mnum /\ k0.inside = k1.inside /\ k0.st = k1.st
        /\ k0.tick = k1.tick /\ k0.dly = k1.dly
    BY <1>2, <1>11, <1>12, <1>13, <2>1, <2>3, Reblocked
  <2> HIDE DEF k0
  <2>5. Shuffled(k0, k2)
    BY <1>3, <2>2, <2>4, SetPriorityShuffled
  <2> HIDE DEF k2
  <2>6. /\ Typed(k2) /\ Placed(k2, {}) /\ KType(k2) /\ Frame(k0, k2)
        /\ k2.st = x.st /\ k2.tick = x.tick /\ k2.dly = x.dly
    BY <1>9, <2>4, <2>5 DEF Shuffled, Typed
  <2>7. Timed(k2, l)
    BY <1>1, <2>6 DEF Timed
  <2>8. k2.mx[m] \in MutexType
    BY <1>2, <2>6 DEF KType
  <2>9. b \in MutexType /\ b.list = k2.mx[m].list /\ b.orig = k2.mx[m].orig /\ b.own = o
    BY <1>3, <2>8 DEF MutexType
  <2> HIDE DEF b
  <2>10. /\ Typed(k3) /\ Placed(k3, {}) /\ Timed(k3, l)
         /\ \A n \in Mutex : k3.mx[n] = IF n = m THEN b ELSE k2.mx[n]
         /\ k3.run = k2.run /\ k3.lock = k2.lock /\ k3.free = k2.free /\ k3.mid = k2.mid
         /\ k3.mnum = k2.mnum /\ k3.inside = k2.inside /\ k3.st = k2.st
         /\ k3.tick = k2.tick /\ k3.dly = k2.dly
    BY <1>2, <2>6, <2>7, <2>9, Reblocked
  <2> HIDE DEF k3
  <2>11. /\ k2.run = k0.run /\ k2.lock = k0.lock /\ k2.free = k0.free /\ k2.mid = k0.mid
         /\ k2.mnum = k0.mnum /\ k2.inside = k0.inside
         /\ \A n \in Mutex : k2.mx[n].own = k0.mx[n].own /\ k2.mx[n].list = k0.mx[n].list
    BY <2>6 DEF Frame
  <2>12. \A n \in Mutex : n # m => k3.mx[n].own = x.mx[n].own /\ k3.mx[n].list = x.mx[n].list
    BY <1>10, <2>4, <2>10, <2>11
  <2>13. k3.mx[m].own = o /\ k3.mx[m].list = list
    BY <1>2, <2>3, <2>4, <2>9, <2>10, <2>11
  <2>14. /\ k3.run = x.run /\ k3.lock = x.lock /\ k3.free = x.free
         /\ k3.mnum = x.mnum /\ k3.inside = x.inside /\ k3.mid = [x.mid EXCEPT ![t] = InvalidId]
         /\ k3.st = x.st /\ k3.tick = x.tick
    BY <1>9, <2>4, <2>6, <2>10, <2>11
  <2> QED BY <1>5, <2>10, <2>12, <2>13, <2>14
<1> QED BY <1>2, <1>4, <1>7, <1>14, <1>15

\* The task is in no list any more.
Detached(x, y, t) ==
  /\ Typed(y) /\ Placed(y, {t}) /\ y.tick[t] = Invalid
  /\ y.st = x.st /\ y.run = x.run /\ y.lock = x.lock /\ y.free = x.free
  /\ y.mnum = x.mnum /\ y.inside = x.inside
  /\ \A u \in Task : y.mid[u] = IF u = t THEN InvalidId ELSE x.mid[u]
  /\ \A n \in Mutex : /\ y.mx[n].own = x.mx[n].own
                      /\ ToSet(y.mx[n].list) = ToSet(x.mx[n].list) \ {t}
                      /\ y.mx[n].own = InvalidId => y.mx[n].list = << >>
                      /\ y.mx[n].own # t

\* What CoDelTask unlinks the task from.
LEMMA Undone ==
    ASSUME Sound, NEW t \in Task, k.st[t] # "DORMANT", t # k.run \/ k.mid[t] = InvalidId,
           k.mid[t] # InvalidId => k.mx[k.mid[t]].own # t /\ ~Misses(k, t)
    PROVE  Detached(k, Unlink(t), t) /\ Timed(Unlink(t), left)
<1> DEFINE k1 == IF k.tick[t] # Invalid THEN RemoveDelayList(k, t) ELSE k
           k4 == IF k.mid[t] # InvalidId THEN RemoveMutexList(k1, t) ELSE k1
           y == Unlink(t)
<1>1. /\ Typed(k) /\ Placed(k, {}) /\ Owned(k, call) /\ Timed(k, left) /\ KType(k) /\ Whole(k, call, left)
      /\ \A u \in Task : k.st[u] = "RUNNING" => u = k.run
  BY SoundParts DEF States
<1>2. InvalidId \notin Task /\ InvalidId \notin Mutex
  BY KernelAssumption
<1>3. k.ev[t] = InvalidId /\ ~Pnode(k, t)
  <2>1. << >> \in Seq(Task)
    OBVIOUS
  <2>2. ToSet(<< >>) = {}
    BY <2>1, Elements
  <2>3. k.flg.list = << >>
    BY <1>1 DEF Typed
  <2> QED BY <1>1, <2>2, <2>3 DEF Typed, Pnode
<1>4. y = CASE k.st[t] = "READY" -> RemoveFromTCBRdyList(k, t)
            [] k.st[t] = "WAITING" -> k4
            [] OTHER -> k
  BY <1>3 DEF Unlink
<1>5. \A n \in Mutex : k.mx[n].own # t
  BY <1>1, <1>2 DEF Owned
<1>6. \A n \in Mutex : /\ k.mx[n].list \in Seq(Task) /\ ToSet(k.mx[n].list) \subseteq Task
                       /\ k.mx[n].own = InvalidId => k.mx[n].list = << >>
  <2>1. \A n \in Mutex : k.mx[n].list \in Seq(Task)
    BY <1>1 DEF KType, MutexType
  <2>2. \A n \in Mutex : ToSet(k.mx[n].list) \subseteq Task
    BY <2>1, Elements
  <2>3. \A n \in Mutex : k.mx[n].own = InvalidId => k.mx[n].list = << >>
    BY <1>1 DEF Owned
  <2> QED BY <2>1, <2>2, <2>3
\* The lists of mutexes are untouched.
<1>7. ASSUME NEW x, Typed(x), Placed(x, {t}), x.tick[t] = Invalid, Frame(k, x), x.st = k.st,
             k.mid[t] = InvalidId
      PROVE  Detached(k, x, t)
  <2>1. \A n \in Mutex : t \notin ToSet(k.mx[n].list)
    BY <1>1, <1>2, <1>7 DEF Placed
  <2>2. \A n \in Mutex : ToSet(k.mx[n].list) = ToSet(k.mx[n].list) \ {t}
    BY <2>1
  <2>3. /\ x.run = k.run /\ x.lock = k.lock /\ x.free = k.free /\ x.mnum = k.mnum
        /\ x.inside = k.inside /\ x.mid = k.mid
        /\ \A n \in Mutex : x.mx[n].own = k.mx[n].own /\ x.mx[n].list = k.mx[n].list
    BY <1>7 DEF Frame
  <2> QED BY <1>5, <1>6, <1>7, <2>2, <2>3 DEF Detached
<1> HIDE DEF y
<1>8. CASE k.st[t] = "READY"
  <2> DEFINE z == RemoveFromTCBRdyList(k, t)
  <2>1. y = z
    BY <1>4, <1>8
  <2>2. /\ Typed(z) /\ Placed(z, {t}) /\ Frame(k, z)
        /\ z.st = k.st /\ z.tick = k.tick /\ z.dly = k.dly
    BY <1>1, <1>8, ReadyOut
  <2> HIDE DEF z
  <2>3. k.mid[t] = InvalidId
    <3>1. k.mid[t] # InvalidId => t \in ToSet(k.mx[k.mid[t]].list) /\ k.mid[t] \in Mutex
      BY <1>1 DEF Owned, KType
    <3>2. \A n \in Mutex : t \notin ToSet(k.mx[n].list)
      BY <1>1, <1>8 DEF Placed
    <3> QED BY <3>1, <3>2
  <2>4. k.tick[t] = Invalid
    BY <1>1, <1>8 DEF Placed
  <2>5. Timed(z, left)
    BY <1>1, <2>2 DEF Timed
  <2>6. z.tick[t] = Invalid
    BY <2>2, <2>4
  <2> QED BY <1>7, <2>1, <2>2, <2>3, <2>5, <2>6 DEF y
<1>9. CASE k.st[t] = "WAITING" /\ k.mid[t] = InvalidId
  <2>1. y = k1
    BY <1>4, <1>9
  <2>2. /\ Typed(k1) /\ Placed(k1, {}) /\ Timed(k1, left) /\ Frame(k, k1) /\ k1.st = k.st
        /\ k1.tick[t] = Invalid
    <3>1. CASE k.tick[t] = Invalid
      BY <1>1, <3>1, FrameSelf
    <3>2. CASE k.tick[t] # Invalid
      <4>1. k1 = RemoveDelayList(k, t)
        BY <3>2
      <4> HIDE DEF k1
      <4> QED BY <1>1, <3>2, <4>1, DelayOut
    <3> QED BY <3>1, <3>2
  <2> HIDE DEF k1
  <2>3. Placed(k1, {t})
    BY <1>9, <2>2, NotReady
  <2> QED BY <1>7, <1>9, <2>1, <2>2, <2>3 DEF y
<1>10. CASE k.st[t] = "WAITING" /\ k.mid[t] # InvalidId
  <2> DEFINE m == k.mid[t]
             z == RemoveMutexList(k, t)
  <2>1. /\ Typed(z) /\ Placed(z, {}) /\ Timed(z, left)
        /\ z.run = k.run /\ z.lock = k.lock /\ z.free = k.free
        /\ z.mnum = k.mnum /\ z.inside = k.inside /\ z.mid = [k.mid EXCEPT ![t] = InvalidId]
        /\ z.st = k.st /\ z.tick = k.tick
        /\ \A n \in Mutex : n # m => z.mx[n].own = k.mx[n].own /\ z.mx[n].list = k.mx[n].list
        /\ z.mx[m].own = k.mx[m].own /\ ToSet(z.mx[m].list) = ToSet(k.mx[m].list) \ {t}
        /\ t \in ToSet(k.mx[m].list) /\ m \in Mutex
    <3> HIDE DEF z
    <3>1. k.mx[k.mid[t]].own # t /\ ~Misses(k, t)
      BY <1>10
    <3> QED BY <1>1, <1>10, <3>1, Unwaited DEF z
  <2>2. k.tick[t] = Invalid
    BY <1>1, <2>1 DEF Placed
  <2>3. y = z
    BY <1>4, <1>10, <2>2
  <2> HIDE DEF z
  <2>4. \A u \in Task : z.mid[u] = IF u = t THEN InvalidId ELSE k.mid[u]
    <3>1. k.mid \in [Task -> Mutex \cup {InvalidId}]
      BY <1>1 DEF KType
    <3>2. z.mid = [k.mid EXCEPT ![t] = InvalidId]
      BY <2>1
    <3> QED BY <3>1, <3>2
  <2>5. Placed(z, {t}) /\ z.tick[t] = Invalid
    BY <1>10, <2>1, <2>2, NotReady
  <2> HIDE DEF m
  <2>6. ASSUME NEW n \in Mutex
        PROVE  /\ z.mx[n].own = k.mx[n].own
               /\ ToSet(z.mx[n].list) = ToSet(k.mx[n].list) \ {t}
               /\ z.mx[n].own = InvalidId => z.mx[n].list = << >>
    <3>1. CASE n = m
      <4>1. k.mx[m].own # InvalidId
        BY <1>6, <2>1, Elements
      <4> QED BY <2>1, <3>1, <4>1
    <3>2. CASE n # m
      <4>1. t \notin ToSet(k.mx[n].list)
        BY <1>1, <3>2 DEF Placed, m
      <4> QED BY <1>6, <2>1, <3>2, <4>1
    <3> QED BY <3>1, <3>2
  <2>7. Detached(k, z, t)
    BY <1>5, <2>1, <2>4, <2>5, <2>6 DEF Detached
  <2> QED BY <2>1, <2>3, <2>7 DEF y
<1>11. CASE k.st[t] \notin {"READY", "WAITING"}
  <2>1. y = k /\ k.st[t] = "RUNNING"
    <3>1. k.st \in [Task -> Alive \cup {"DORMANT"}]
      BY <1>1 DEF KType
    <3> QED BY <1>4, <1>11, <3>1 DEF Alive
  <2>2. k.mid[t] = InvalidId
    BY <1>1, <2>1
  <2>3. k.tick[t] = Invalid
    BY <1>1, <2>1 DEF Placed
  <2>4. Placed(k, {t})
    BY <1>1, <2>1, NotReady
  <2>5. Frame(k, k)
    BY FrameSelf
  <2>6. Detached(k, k, t)
    BY <1>1, <1>7, <2>2, <2>3, <2>4, <2>5
  <2> QED BY <1>1, <2>1, <2>6 DEF y
<1> QED BY <1>8, <1>9, <1>10, <1>11

LEMMA StepDelete ==
    ASSUME Sound, UNCHANGED prog, CoDelTask
    PROVE  Sound'
<1> DEFINE t == call[k.run].task
           k1 == Unlink(t)
           free == <<t>> \o k1.free
           intact == k1.intact /\ t \notin Linked(k1)
           y == [k1 EXCEPT !.st[t] = "DORMANT", !.req = TRUE, !.free = free, !.intact = intact]
<1>1. /\ call[k.run].op = "delete" /\ call' = [call EXCEPT ![k.run] = NoCall, ![t] = NoCall]
      /\ left' = [left EXCEPT ![t] = 0] /\ k' = OsSchedUnlock(y)
  BY DEF CoDelTask, Pending
<1>2. /\ Typed(k) /\ Placed(k, {}) /\ States(k, call) /\ Owned(k, call) /\ Calls(k, call)
      /\ KType(k) /\ k.run \in Task /\ k.st[k.run] = "RUNNING"
      /\ call = [u \in Task |-> call[u]]
  BY SoundParts
<1>3. /\ t \in Task \ {Idle} /\ k.st[t] # "DORMANT"
      /\ t # k.run \/ k.mid[t] = InvalidId
      /\ k.mid[t] # InvalidId => k.mx[k.mid[t]].own # t /\ ~Misses(k, t)
      /\ t = k.run => k.lock = 0
  <2>1. CASE Alone(k, call, k.run)
    <3>1. t = k.run /\ t # Idle /\ k.lock = 0 /\ k.mid[t] = InvalidId
      BY <1>1, <2>1, AloneCall
    <3> QED BY <1>2, <3>1
  <2>2. ASSUME NEW u \in Task \ {Idle, k.run}, Other(k, call, k.run, u)
        PROVE  /\ t = u /\ k.st[u] # "DORMANT"
               /\ k.mid[u] # InvalidId => k.mx[k.mid[u]].own # u /\ ~Misses(k, u)
    BY <1>1, <2>2, OtherCall
  <2>3. CASE \E u \in Task \ {Idle, k.run} : Other(k, call, k.run, u)
    BY <2>2, <2>3
  <2>4. call[k.run].op # "none"
    BY SMTT(30), <1>1
  <2> QED BY <1>2, <2>1, <2>3, <2>4, RunCall
<1>4. /\ call' = [u \in Task |-> call'[u]] /\ call'[k.run] = NoCall /\ call'[t] = NoCall
      /\ \A u \in Task \ {k.run, t} : call'[u] = call[u]
  BY <1>1, <1>2, <1>3
<1> HIDE DEF t
<1>5. Detached(k, k1, t) /\ Timed(k1, left)
  BY <1>3, Undone
<1> HIDE DEF k1
<1>6. /\ Typed(k1) /\ KType(k1) /\ Placed(k1, {t}) /\ k1.tick[t] = Invalid /\ k1.st = k.st
      /\ k1.run = k.run /\ k1.lock = k.lock /\ k1.free = k.free
      /\ k1.mnum = k.mnum /\ k1.inside = k.inside
      /\ \A u \in Task : k1.mid[u] = IF u = t THEN InvalidId ELSE k.mid[u]
  BY <1>5 DEF Detached, Typed
<1>7. \A n \in Mutex : /\ k1.mx[n].own = k.mx[n].own
                       /\ ToSet(k1.mx[n].list) = ToSet(k.mx[n].list) \ {t}
                       /\ k1.mx[n].own = InvalidId => k1.mx[n].list = << >>
                       /\ k1.mx[n].own # t
  BY <1>5 DEF Detached
<1>8. t \notin ToSet(k1.rdy) /\ t \notin ToSet(k1.dly) /\ t \notin ToSet(k1.free)
      /\ \A n \in Mutex : t \notin ToSet(k1.mx[n].list)
  BY <1>3, <1>6, <1>7 DEF Placed
<1>9. free \in Seq(Task) /\ ToSet(free) = ToSet(k1.free) \cup {t} /\ IsInjective(free)
  <2>1. k1.free \in Seq(Task) /\ IsInjective(k1.free)
    BY <1>6 DEF KType, Placed
  <2> QED BY <1>3, <1>8, <2>1, Pushed
<1>10. intact
  BY <1>6, <1>8 DEF Linked, Placed
<1> HIDE DEF free, intact
<1>11. /\ KType(y) /\ y.st = [k.st EXCEPT ![t] = "DORMANT"] /\ y.req = TRUE /\ y.free = free
       /\ y.intact /\ y.rdy = k1.rdy /\ y.dly = k1.dly /\ y.tick = k1.tick /\ y.prio = k1.prio
       /\ y.mid = k1.mid /\ y.mx = k1.mx /\ y.inside = k1.inside /\ y.lock = k1.lock
       /\ y.run = k1.run /\ y.timeReq = k1.timeReq /\ y.slice = k1.slice /\ y.flg = k1.flg
       /\ y.srq = k1.srq /\ y.mnum = k1.mnum /\ y.ev = k1.ev /\ y.pset = k1.pset
  <2>1. KType(y)
    BY <1>3, <1>6, <1>9 DEF KType, Fields
  <2> QED BY <1>6, <1>10, <2>1 DEF KType, Fields
<1> HIDE DEF y
<1>12. \A u \in Task : y.st[u] = IF u = t THEN "DORMANT" ELSE k.st[u]
  BY SMTT(30), <1>2, <1>11 DEF KType
<1>13. Typed(y)
  BY <1>6, <1>11 DEF Typed
<1>14. Placed(y, {})
  <2>1. ToSet(y.rdy) = {u \in Task : y.st[u] = "READY"}
    BY <1>6, <1>11, <1>12 DEF Placed
  <2>2. \A u \in Task : y.tick[u] # Invalid => y.st[u] = "WAITING"
    BY <1>6, <1>11, <1>12 DEF Placed
  <2>3. \A u \in ToSet(y.free) : y.st[u] = "DORMANT"
    <3>1. ToSet(k1.free) \subseteq Task
      BY <1>6, Elements DEF KType
    <3> QED BY <1>3, <1>6, <1>9, <1>11, <1>12, <3>1 DEF Placed
  <2>4. ASSUME NEW n \in Mutex
        PROVE  /\ IsInjective(y.mx[n].list)
               /\ \A u \in ToSet(y.mx[n].list) : y.st[u] = "WAITING" /\ y.tick[u] = Invalid /\ y.mid[u] = n
    <3>1. ToSet(k1.mx[n].list) \subseteq Task
      BY <1>6, Elements DEF KType, MutexType
    <3> QED BY <1>6, <1>8, <1>11, <1>12, <3>1 DEF Placed
  <2> QED BY <1>6, <1>9, <1>11, <2>1, <2>2, <2>3, <2>4 DEF Placed
<1>15. Timed(y, left')
  <2>1. 0 \in 0 .. Short
    BY Range32
  <2>2. Timed(k1, left')
    BY <1>1, <1>3, <1>5, <1>6, <1>8, <2>1, TimedElse
  <2> QED BY <1>11, <2>2 DEF Timed
<1>16. States(y, call')
  <2>1. \A u \in Task : call[u].op # "create" /\ call'[u].op # "create"
    <3>1. \A u \in Task \ {k.run} : call[u].op # "create"
      BY OneCreates
    <3> QED BY <1>1, <1>4, <3>1 DEF NoCall
  <2>2. {u \in Task : k.st[u] = "DORMANT"} = ToSet(k.free)
    BY <1>2, <2>1 DEF States
  <2>3. {u \in Task : y.st[u] = "DORMANT"} = ToSet(y.free)
    BY <1>3, <1>6, <1>9, <1>11, <1>12, <2>2
  <2>4. ASSUME NEW u \in Task, y.st[u] = "DORMANT" PROVE call'[u] = NoCall /\ y.mid[u] = InvalidId
    <3>1. CASE u = t
      BY <1>4, <1>6, <1>11, <3>1
    <3>2. CASE u # t
      <4>1. k.st[u] = "DORMANT" /\ u # k.run
        BY <1>2, <1>12, <2>4, <3>2
      <4>2. call[u] = NoCall /\ k.mid[u] = InvalidId
        BY <1>2, <4>1 DEF States
      <4>3. y.mid[u] = k.mid[u]
        BY <1>6, <1>11, <3>2
      <4>4. call'[u] = call[u]
        BY <1>4, <3>2, <4>1
      <4> QED BY <4>2, <4>3, <4>4
    <3> QED BY <3>1, <3>2
  <2>5. \A u \in Task : y.st[u] = "RUNNING" => u = y.run
    BY <1>2, <1>6, <1>11, <1>12 DEF States
  <2>6. y.st[Idle] \in {"READY", "RUNNING"}
    BY <1>2, <1>3, <1>12, KernelAssumption DEF States
  <2> QED BY <2>1, <2>3, <2>4, <2>5, <2>6 DEF States
<1>17. Owned(y, call')
  <2>0. InvalidId \notin Task
    BY KernelAssumption
  <2>1. /\ \A n \in Mutex : k.mx[n].own \in Task \cup {InvalidId} /\ ToSet(k.mx[n].list) \subseteq Task \ {k.run}
        /\ \A u \in Task, n \in Mutex : u # t /\ call[u] = EnterCall(n) => call'[u] = EnterCall(n)
    <3>1. \A n \in Mutex : k.mx[n].own \in Task \cup {InvalidId} /\ ToSet(k.mx[n].list) \subseteq Task
      BY <1>2, Elements DEF KType, MutexType
    <3>2. \A n \in Mutex : call[k.run] # EnterCall(n)
      BY <1>1 DEF EnterCall
    <3> QED BY <1>4, <3>1, <3>2, RunFree
  <2>2. ASSUME NEW n \in Mutex
        PROVE  /\ y.mx[n].own # InvalidId =>
                    /\ y.mid[y.mx[n].own] = n /\ y.mx[n].own \notin ToSet(y.mx[n].list)
                    /\ n \in y.inside[y.mx[n].own] \/ call'[y.mx[n].own] = EnterCall(n)
               /\ y.mx[n].own = InvalidId => y.mx[n].list = << >>
               /\ n > y.mnum => y.mx[n].own = InvalidId
               /\ \A u \in ToSet(y.mx[n].list) : call'[u] = EnterCall(n)
    <3>1. /\ y.mx[n].own = k.mx[n].own /\ k.mx[n].own # t
          /\ ToSet(y.mx[n].list) = ToSet(k.mx[n].list) \ {t}
          /\ y.mx[n].own = InvalidId => y.mx[n].list = << >>
      BY <1>7, <1>11
    <3>2. ASSUME y.mx[n].own # InvalidId
          PROVE  /\ y.mid[y.mx[n].own] = n /\ y.mx[n].own \notin ToSet(y.mx[n].list)
                 /\ n \in y.inside[y.mx[n].own] \/ call'[y.mx[n].own] = EnterCall(n)
      <4>1. k.mx[n].own \in Task
        BY <2>1, <3>1, <3>2
      <4>2. /\ k.mid[k.mx[n].own] = n /\ k.mx[n].own \notin ToSet(k.mx[n].list)
            /\ n \in k.inside[k.mx[n].own] \/ call[k.mx[n].own] = EnterCall(n)
        BY <1>2, <3>1, <3>2 DEF Owned
      <4> QED BY <1>6, <1>11, <2>1, <3>1, <4>1, <4>2
    <3>3. n > y.mnum => y.mx[n].own = InvalidId
      BY <1>2, <1>6, <1>11, <3>1 DEF Owned
    <3>4. \A u \in ToSet(y.mx[n].list) : call'[u] = EnterCall(n)
      <4>1. \A u \in ToSet(k.mx[n].list) : u \in Task /\ call[u] = EnterCall(n)
        BY <1>2, <2>1 DEF Owned
      <4> QED BY <2>1, <3>1, <4>1
    <3> QED BY <3>1, <3>2, <3>3, <3>4
  <2>3. ASSUME NEW u \in Task, y.mid[u] # InvalidId
        PROVE  y.mx[y.mid[u]].own = u \/ u \in ToSet(y.mx[y.mid[u]].list)
    <3>1. u # t /\ y.mid[u] = k.mid[u] /\ k.mid[u] \in Mutex
      BY <1>2, <1>6, <1>11, <2>3 DEF KType
    <3>2. k.mx[k.mid[u]].own = u \/ u \in ToSet(k.mx[k.mid[u]].list)
      BY <1>2, <2>3, <3>1 DEF Owned
    <3> QED BY <1>7, <1>11, <3>1, <3>2
  <2>4. ASSUME NEW u \in Task, NEW n \in Mutex, n \in y.inside[u] PROVE y.mx[n].own = u
    <3>1. k.mx[n].own = u
      BY <1>2, <1>6, <1>11, <2>4 DEF Owned
    <3> QED BY <1>7, <1>11, <3>1
  <2> QED BY <2>2, <2>3, <2>4 DEF Owned
<1>18. Calls(y, call')
  <2>1. \A u \in Task \ {k.run} : call'[u] = call[u] \/ call'[u] = NoCall
    BY <1>4
  <2>2. \A u \in Task \ {k.run} : k.mid[u] = InvalidId => y.mid[u] = InvalidId
    BY <1>6, <1>11
  <2>3. \A u \in Task \ {k.run} : Doomed(k, call, u) => call'[u] = NoCall
    BY <1>4 DEF Doomed, t
  <2>4. \A u \in Task \ {k.run}, n \in Mutex :
          call'[u] # NoCall =>
          /\ k.mx[n].own = u => y.mx[n].own = u \/ Doomed(y, call', u)
          /\ u \in ToSet(k.mx[n].list) =>
               y.mx[n].own = u \/ u \in ToSet(y.mx[n].list) \/ Doomed(y, call', u)
    <3> SUFFICES ASSUME NEW u \in Task \ {k.run}, NEW n \in Mutex, call'[u] # NoCall
                 PROVE  /\ k.mx[n].own = u => y.mx[n].own = u
                        /\ u \in ToSet(k.mx[n].list) => u \in ToSet(y.mx[n].list)
      OBVIOUS
    <3>1. u # t
      BY <1>4
    <3> QED BY <1>7, <1>11, <3>1
  <2>5. Alone(y, call', k.run)
    BY <1>4 DEF Alone
  <2>6. y.run = k.run
    BY <1>6, <1>11
  <2> QED BY <1>2, <1>4, <2>1, <2>2, <2>3, <2>4, <2>5, <2>6, CallsKept
<1>19. Going(y)
  <2>1. y.run = k.run /\ y.lock = k.lock
    BY <1>6, <1>11
  <2>2. CASE t = k.run
    BY <1>3, <1>11, <2>1, <2>2 DEF Going
  <2>3. CASE t # k.run
    BY <1>2, <1>12, <2>1, <2>3 DEF Going
  <2> QED BY <2>2, <2>3
<1>20. Whole(y, call', left')
  BY <1>13, <1>14, <1>15, <1>16, <1>17, <1>18 DEF Whole
<1> QED BY <1>1, <1>19, <1>20, Ended

(***************************************************************************)
(* Part 9.  The tick.                                                      *)
(***************************************************************************)

\* Calls does not depend on the time.
LEMMA CallsSame ==
    ASSUME NEW x, NEW y, NEW c, KType(x), Calls(x, c), y.run = x.run, y.lock = x.lock, y.st = x.st,
           y.free = x.free, y.mid = x.mid, y.mx = x.mx, y.mstale = x.mstale,
           \A t \in Task : x.tick[t] = Invalid <=> y.tick[t] = Invalid
    PROVE  Calls(y, c)
<1>1. \A t \in Task : Alone(x, c, t) => Alone(y, c, t)
  BY DEF Alone, Doomed
<1>2. ASSUME NEW t \in Task, NEW u \in Task, Other(x, c, t, u) PROVE Other(y, c, t, u)
  <2>1. Misses(x, u) <=> Misses(y, u)
    BY DEF Misses
  <2> QED BY <1>2, <2>1 DEF Other
<1>3. \A t \in Task : Locked(x, c, t) => Locked(y, c, t)
  BY <1>2 DEF Locked
<1> QED BY <1>1, <1>3 DEF Calls

\* y is x with another delayTick, OSCheckTime and TimeReq.
Timely(x, y, tick) ==
  /\ KType(y) /\ y.rdy = x.rdy /\ y.dly = x.dly /\ y.tick = tick /\ y.prio = x.prio
  /\ y.mid = x.mid /\ y.mx = x.mx /\ y.inside = x.inside /\ y.lock = x.lock
  /\ y.run = x.run /\ y.st = x.st /\ y.timeReq \in BOOLEAN /\ y.slice \in -1 .. TimeSlice
  /\ y.flg = x.flg /\ y.free = x.free /\ y.req = TRUE /\ y.intact = x.intact
  /\ y.srq = x.srq /\ y.mnum = x.mnum /\ y.ev = x.ev /\ y.pset = x.pset /\ y.mstale = x.mstale

LEMMA TimelyIs ==
    ASSUME NEW x, KType(x), NEW tick \in [Task -> 0 .. Invalid], NEW slice \in -1 .. TimeSlice,
           NEW time \in BOOLEAN
    PROVE  Timely(x, [x EXCEPT !.slice = slice, !.req = TRUE, !.tick = tick, !.timeReq = time], tick)
<1>1. tick \in [Task -> Nat]
  BY Range32
<1> QED BY <1>1 DEF KType, Fields, Timely

\* The part of the tick that does not end delays.
LEMMA Ticked ==
    ASSUME NEW x, NEW c, NEW l, Whole(x, c, l), NEW y, NEW n, Timed(y, n),
           NEW tick \in [Task -> 0 .. Invalid], Timely(x, y, tick),
           \A t \in Task : x.tick[t] = Invalid <=> tick[t] = Invalid
    PROVE  Whole(y, c, n) /\ y.st = x.st /\ y.run = x.run /\ y.lock = x.lock
<1>1. /\ Typed(x) /\ KType(x) /\ Placed(x, {}) /\ States(x, c) /\ Owned(x, c) /\ Calls(x, c)
  BY DEF Whole, Typed
<1>3. /\ KType(y) /\ y.rdy = x.rdy /\ y.dly = x.dly /\ y.tick = tick /\ y.prio = x.prio
      /\ y.mid = x.mid /\ y.mx = x.mx /\ y.inside = x.inside /\ y.lock = x.lock
      /\ y.run = x.run /\ y.st = x.st /\ y.timeReq \in BOOLEAN /\ y.slice \in -1 .. TimeSlice
      /\ y.flg = x.flg /\ y.free = x.free /\ y.req = TRUE /\ y.intact = x.intact
      /\ y.srq = x.srq /\ y.mnum = x.mnum /\ y.ev = x.ev /\ y.pset = x.pset /\ y.mstale = x.mstale
  BY DEF Timely
<1>5. Typed(y)
  <2>1. Typed(x)
    BY <1>1
  <2> HIDE DEF Whole
  <2> QED BY <1>3, <2>1 DEF Typed
<1>6. Placed(y, {})
  <2>1. \A t \in Task : x.tick[t] = Invalid <=> y.tick[t] = Invalid
    BY <1>3
  <2>2. ToSet(y.dly) = {t \in Task : y.tick[t] # Invalid}
    <3>1. ToSet(y.dly) = {t \in Task : x.tick[t] # Invalid}
      BY <1>1, <1>3 DEF Placed
    <3> QED BY <2>1, <3>1
  <2>3. \A t \in Task : y.tick[t] # Invalid => y.st[t] = "WAITING"
    BY <1>1, <1>3, <2>1 DEF Placed
  <2>4. ASSUME NEW m \in Mutex
        PROVE  /\ IsInjective(y.mx[m].list)
               /\ \A t \in ToSet(y.mx[m].list) :
                    y.st[t] = "WAITING" /\ y.tick[t] = Invalid /\ y.mid[t] = m
    <3>1. ToSet(x.mx[m].list) \subseteq Task
      BY <1>1, Elements DEF KType, MutexType
    <3> QED BY <1>1, <1>3, <2>1, <3>1 DEF Placed
  <2>5. /\ y.rdy = x.rdy /\ y.dly = x.dly /\ y.free = x.free /\ y.st = x.st /\ y.intact = x.intact
        /\ Placed(x, {})
    BY <1>1, <1>3
  <2> QED BY <2>2, <2>3, <2>4, <2>5 DEF Placed
<1>7. States(y, c)
  BY <1>1, <1>3 DEF States
<1>8. Owned(y, c)
  BY <1>1, <1>3 DEF Owned
<1>9. Calls(y, c)
  BY <1>1, <1>3, CallsSame
<1> QED BY <1>3, <1>5, <1>6, <1>7, <1>8, <1>9 DEF Whole

\* A tick that is not held back takes one from the delay of every task in the
\* delay list.
LEMMA Counted ==
    ASSUME NEW x, Typed(x), IsInjective(x.dly), NEW l, Timed(x, l), x.dly # << >>,
           NEW h, h = x.dly[1], NEW n,
           n = [t \in Task |-> IF l[t] > 0 /\ x.tick[h] # 0 THEN l[t] - 1 ELSE l[t]],
           NEW y, y.dly = x.dly,
           y.tick = [x.tick EXCEPT ![h] = IF x.tick[h] > 1 THEN x.tick[h] - 1 ELSE 0]
    PROVE  h \in Task /\ x.tick[h] \in 0 .. Short /\ Timed(y, n)
<1> DEFINE s == x.dly
           r == IF x.tick[h] > 1 THEN x.tick[h] - 1 ELSE 0
<1>1. s \in Seq(Task) /\ x.tick \in [Task -> 0 .. Invalid]
  BY DEF Typed, KType
<1>2. Len(s) \in Nat \ {0} /\ DOMAIN s = 1 .. Len(s) /\ 1 \in 1 .. Len(s) /\ \A i \in 1 .. Len(s) : s[i] \in Task
  <2>1. Len(s) \in Nat /\ DOMAIN s = 1 .. Len(s) /\ Len(s) # 0
    BY <1>1, Elements
  <2> QED BY <1>1, <2>1, ElementOfSeq
<1>3. /\ l \in [Task -> 0 .. Short]
      /\ \A i \in 1 .. Len(s) : x.tick[s[i]] = l[s[i]] - (IF i = 1 THEN 0 ELSE l[s[i - 1]])
      /\ \A i, j \in 1 .. Len(s) : i < j => l[s[i]] <= l[s[j]]
  BY <1>2 DEF Timed
<1>4. h \in Task /\ x.tick[h] = l[h] /\ l[h] \in 0 .. Short
  <2>1. h \in Task
    BY <1>2
  <2>2. l[h] \in 0 .. Short
    BY <1>3, <2>1
  <2>3. x.tick[h] = l[h] - 0
    BY <1>2, <1>3
  <2> QED BY <2>1, <2>2, <2>3, Range32
<1>5. \A i \in 1 .. Len(s) : l[h] <= l[s[i]] /\ l[s[i]] \in 0 .. Short
  <2> TAKE i \in 1 .. Len(s)
  <2>1. l[s[i]] \in 0 .. Short
    BY <1>2, <1>3
  <2>2. CASE i = 1
    BY <1>4, <2>1, <2>2, Range32
  <2>3. CASE i # 1
    <3>1. 1 < i /\ 1 \in 1 .. Len(s)
      BY <1>2, <2>3
    <3> QED BY <1>3, <2>1, <3>1
  <2> QED BY <2>2, <2>3
<1>6. n \in [Task -> 0 .. Short]
  <2>1. \A t \in Task : l[t] \in 0 .. Short
    BY <1>3
  <2>2. \A t \in Task : (IF l[t] > 0 /\ x.tick[h] # 0 THEN l[t] - 1 ELSE l[t]) \in 0 .. Short
    BY <2>1, Range32
  <2> QED BY <2>2
<1>7. ASSUME NEW i \in 1 .. Len(s)
      PROVE  n[s[i]] = IF l[h] = 0 THEN l[s[i]] ELSE l[s[i]] - 1
  <2>1. n[s[i]] = IF l[s[i]] > 0 /\ l[h] # 0 THEN l[s[i]] - 1 ELSE l[s[i]]
    BY <1>2, <1>4
  <2>2. l[h] <= l[s[i]] /\ l[s[i]] \in 0 .. Short /\ l[h] \in 0 .. Short
    BY <1>4, <1>5
  <2> QED BY <2>1, <2>2, Range32
<1>8. \A i \in 1 .. Len(s) : y.tick[s[i]] = IF i = 1 THEN r ELSE x.tick[s[i]]
  <2> TAKE i \in 1 .. Len(s)
  <2>1. s[i] = h <=> i = 1
    BY <1>2 DEF IsInjective
  <2> QED BY <1>1, <1>2, <2>1
<1> HIDE DEF s
<1>9. ASSUME NEW i \in 1 .. Len(s)
      PROVE  y.tick[s[i]] = n[s[i]] - (IF i = 1 THEN 0 ELSE n[s[i - 1]])
  <2>1. l[h] \in Nat /\ l[s[i]] \in Nat /\ r = IF l[h] > 1 THEN l[h] - 1 ELSE 0
    BY <1>4, <1>5, Range32
  <2>2. CASE i = 1
    <3>1. s[i] = h
      BY <2>2 DEF s
    <3> QED BY <1>7, <1>8, <2>1, <2>2, <3>1
  <2>3. CASE i # 1
    <3>1. i - 1 \in 1 .. Len(s)
      BY <1>2, <2>3
    <3>2. l[s[i - 1]] \in Nat
      BY <1>5, <3>1, Range32
    <3>3. y.tick[s[i]] = l[s[i]] - l[s[i - 1]]
      BY <1>3, <1>8, <2>3
    <3>4. n[s[i - 1]] = IF l[h] = 0 THEN l[s[i - 1]] ELSE l[s[i - 1]] - 1
      BY <1>7, <3>1
    <3>5. n[s[i]] = IF l[h] = 0 THEN l[s[i]] ELSE l[s[i]] - 1
      BY <1>7
    <3>6. l[s[i]] - l[s[i - 1]] = (l[s[i]] - 1) - (l[s[i - 1]] - 1)
      <4>1. \A p, q \in Nat : p - q = (p - 1) - (q - 1)
        OBVIOUS
      <4> QED BY <2>1, <3>2, <4>1
    <3>7. y.tick[s[i]] = n[s[i]] - n[s[i - 1]]
      BY <3>3, <3>4, <3>5, <3>6
    <3> QED BY <2>3, <3>7
  <2> QED BY <2>2, <2>3
<1>10. ASSUME NEW i \in 1 .. Len(s), NEW j \in 1 .. Len(s), i < j PROVE n[s[i]] <= n[s[j]]
  <2>1. l[s[i]] <= l[s[j]] /\ l[s[i]] \in Nat /\ l[s[j]] \in Nat
    BY <1>3, <1>5, <1>10, Range32
  <2>2. n[s[i]] = (IF l[h] = 0 THEN l[s[i]] ELSE l[s[i]] - 1)
    BY <1>7
  <2>3. n[s[j]] = (IF l[h] = 0 THEN l[s[j]] ELSE l[s[j]] - 1)
    BY <1>7
  <2> QED BY <2>1, <2>2, <2>3
<1>11. y.dly = s
  BY DEF s
<1>12. Timed(y, n)
  <2>1. DOMAIN y.dly = 1 .. Len(s)
    BY <1>2, <1>11 DEF s
  <2>2. \A i \in DOMAIN y.dly :
          y.tick[y.dly[i]] = n[y.dly[i]] - (IF i = 1 THEN 0 ELSE n[y.dly[i - 1]])
    <3> TAKE i \in DOMAIN y.dly
    <3>1. i \in 1 .. Len(s) /\ y.dly[i] = s[i] /\ y.dly[i - 1] = s[i - 1]
      BY <1>11, <2>1
    <3>2. y.tick[s[i]] = n[s[i]] - (IF i = 1 THEN 0 ELSE n[s[i - 1]])
      BY <1>9, <3>1
    <3> QED BY <3>1, <3>2
  <2>3. \A i, j \in DOMAIN y.dly : i < j => n[y.dly[i]] <= n[y.dly[j]]
    BY <1>10, <1>11, <2>1
  <2> QED BY <1>6, <2>2, <2>3 DEF Timed
<1> QED BY <1>4, <1>12

\* Ending delays leaves the owners of mutexes and the pending calls alone.
LEMMA AdvancedWhole ==
    ASSUME NEW x, NEW c, NEW l, Whole(x, c, l), x.st[x.run] = "RUNNING", x.lock = 0,
           NEW y, Advanced(x, y, l)
    PROVE  Whole(y, c, l) /\ y.st[y.run] = "RUNNING"
<1>1. /\ Typed(x) /\ KType(x) /\ Placed(x, {}) /\ States(x, c) /\ Owned(x, c) /\ Calls(x, c)
      /\ x.run \in Task
  BY DEF Whole, Typed, KType
<1>2. /\ Typed(y) /\ Placed(y, {}) /\ Timed(y, l) /\ y.mx = x.mx
      /\ \A t \in Task : y.st[t] # x.st[t] => x.st[t] = "WAITING" /\ y.st[t] = "READY"
      /\ y.run = x.run /\ y.lock = x.lock /\ y.free = x.free /\ y.mid = x.mid
      /\ y.mnum = x.mnum /\ y.inside = x.inside
  BY DEF Advanced, Frame
<1>3. y.st[y.run] = "RUNNING"
  BY <1>1, <1>2
<1>4. Calls(y, c)
  BY <1>1, <1>2, LoneCalls
<1>5. Owned(y, c)
  BY <1>1, <1>2 DEF Owned
<1>6. States(y, c)
  <2>1. c[x.run].op # "create"
    <3>1. Alone(x, c, x.run)
      BY <1>1 DEF Calls, Locked
    <3> QED BY <3>1, AloneCall
  <2>2. \A t \in Task : y.st[t] # x.st[t] =>
             /\ x.st[t] # "DORMANT" /\ y.st[t] \in {"READY", "WAITING"}
             /\ t = Idle => y.st[t] = "READY"
    BY <1>2
  <2>3. \A t \in Task : x.st[t] = "DORMANT" => y.mid[t] = x.mid[t]
    BY <1>2
  <2>4. y.run = x.run /\ y.free = x.free
    BY <1>2
  <2> QED BY <1>1, <2>1, <2>2, <2>3, <2>4, StatesKept
<1> QED BY <1>2, <1>3, <1>4, <1>5, <1>6 DEF Whole

LEMMA StepTick ==
    ASSUME Sound, UNCHANGED prog, Tick
    PROVE  Sound'
<1> DEFINE slice == IF k.slice < 0 THEN k.slice ELSE k.slice - 1
           h == k.dly[1]
           r == IF k.tick[h] > 1 THEN k.tick[h] - 1 ELSE 0
           time == k.timeReq \/ (k.tick[h] <= 1 /\ k.lock > 0)
           tick == [k.tick EXCEPT ![h] = r]
           k1 == [k EXCEPT !.slice = slice, !.req = TRUE, !.tick = k.tick, !.timeReq = k.timeReq]
           k2 == [k EXCEPT !.slice = slice, !.req = TRUE, !.tick = tick, !.timeReq = time]
           y == IF k.dly = << >> THEN k1
                ELSE IF k.tick[h] <= 1 /\ k.lock = 0 THEN TimeDispose(k2) ELSE k2
<1>1. /\ Typed(k) /\ KType(k) /\ Placed(k, {}) /\ Timed(k, left) /\ k.run \in Task
      /\ k.st[k.run] = "RUNNING" /\ Whole(k, call, left) /\ k.lock \in Nat
  BY SoundParts
<1>2. slice \in -1 .. TimeSlice
  <2>1. k.slice \in -1 .. TimeSlice
    BY <1>1 DEF Typed
  <2> QED BY <2>1, KernelAssumption
<1>3. call' = call /\ left' = [t \in Task |-> IF left[t] > 0 /\ ~Held THEN left[t] - 1 ELSE left[t]]
  BY DEF Tick
<1>4. ASSUME k.dly # << >>
      PROVE  /\ h \in Task /\ k.tick[h] \in 0 .. Short
             /\ \A z : z.dly = k.dly /\ z.tick = tick => Timed(z, left')
  <2>1. left' = [t \in Task |-> IF left[t] > 0 /\ k.tick[h] # 0 THEN left[t] - 1 ELSE left[t]]
    BY <1>3, <1>4 DEF Held
  <2>2. IsInjective(k.dly)
    BY <1>1 DEF Placed
  <2> HIDE DEF h
  <2>3. \A z : z.dly = k.dly /\ z.tick = [k.tick EXCEPT ![h] = IF k.tick[h] > 1 THEN k.tick[h] - 1 ELSE 0]
               => h \in Task /\ k.tick[h] \in 0 .. Short /\ Timed(z, left')
    BY <1>1, <1>4, <2>1, <2>2, Counted DEF h
  <2>4. \A z : z.dly = k.dly /\ z.tick = tick => h \in Task /\ k.tick[h] \in 0 .. Short /\ Timed(z, left')
    BY <2>3
  <2> DEFINE z == [dly |-> k.dly, tick |-> tick]
  <2>5. z.dly = k.dly /\ z.tick = tick
    OBVIOUS
  <2> QED BY <2>4, <2>5
<1>5. k' = OsSchedUnlock(y)
  <2> DEFINE j1 == [k EXCEPT !.slice = IF @ < 0 THEN @ ELSE @ - 1, !.req = TRUE]
             j2 == IF k.tick[h] > 1 THEN [j1 EXCEPT !.tick[h] = @ - 1]
                   ELSE IF k.lock > 0 THEN [j1 EXCEPT !.tick[h] = 0, !.timeReq = TRUE]
                   ELSE TimeDispose([j1 EXCEPT !.tick[h] = 0])
  <2>1. k' = OsSchedUnlock(IF k.dly = << >> THEN j1 ELSE j2)
    BY DEF Tick, SysTick
  <2>5. j1 = [k EXCEPT !.slice = slice, !.req = TRUE]
    OBVIOUS
  <2>2. j1 = k1
    BY <1>1 DEF KType, Fields
  <2>3. CASE k.dly = << >>
    BY <2>1, <2>2, <2>3
  <2>4. CASE k.dly # << >>
    <3>1. k.tick[h] \in Nat /\ k.timeReq \in BOOLEAN
      BY <1>1, <1>4, <2>4, Range32 DEF Typed
    <3>2. CASE k.tick[h] > 1
      <4>0. r = k.tick[h] - 1 /\ time = k.timeReq
        BY <3>1, <3>2
      <4>1. [j1 EXCEPT !.tick[h] = @ - 1] = k2
        <5> HIDE DEF r, time, slice, h, j1
        <5> QED BY <1>1, <2>5, <4>0 DEF KType, Fields
      <4> HIDE DEF k2, j1
      <4> QED BY <2>1, <2>4, <3>1, <3>2, <4>1
    <3>3. CASE k.tick[h] <= 1 /\ k.lock > 0
      <4>0. r = 0 /\ time = TRUE
        BY <3>1, <3>3
      <4>1. [j1 EXCEPT !.tick[h] = 0, !.timeReq = TRUE] = k2
        <5> HIDE DEF r, time, slice, h, j1
        <5> QED BY <1>1, <2>5, <4>0 DEF KType, Fields
      <4> HIDE DEF k2, j1
      <4> QED BY <1>1, <2>1, <2>4, <3>1, <3>3, <4>1
    <3>4. CASE k.tick[h] <= 1 /\ k.lock = 0
      <4>0. r = 0 /\ time = k.timeReq
        BY <3>1, <3>4
      <4>1. [j1 EXCEPT !.tick[h] = 0] = k2
        <5> HIDE DEF r, time, slice, h, j1
        <5> QED BY <1>1, <2>5, <4>0 DEF KType, Fields
      <4> HIDE DEF k2, j1
      <4> QED BY <2>1, <2>4, <3>1, <3>4, <4>1
    <3> QED BY <1>1, <3>1, <3>2, <3>3, <3>4
  <2> QED BY <2>3, <2>4
<1>6. Whole(y, call', left') /\ y.st[y.run] = "RUNNING"
  <2> HIDE DEF slice
  <2>1. CASE k.dly = << >>
    <3>1. y = k1
      BY <2>1
    <3>2. k.timeReq \in BOOLEAN /\ k.tick \in [Task -> 0 .. Invalid]
      BY <1>1 DEF Typed
    <3>3. Timely(k, k1, k.tick)
      BY <1>1, <1>2, <3>2, TimelyIs
    <3> HIDE DEF k1, y
    <3>4. Timed(k1, left')
      <4>1. k1.dly = << >> /\ DOMAIN k1.dly = {}
        <5>1. k1.dly = << >>
          BY <2>1, <3>3 DEF Timely
        <5>2. << >> \in Seq(Task) /\ Len(<< >>) = 0
          OBVIOUS
        <5>3. DOMAIN << >> = 1 .. Len(<< >>)
          BY <5>2, Elements
        <5> QED BY <5>1, <5>2, <5>3
      <4>2. left \in [Task -> 0 .. Short]
        BY <1>1 DEF Timed
      <4>3. \A t \in Task : (IF left[t] > 0 /\ ~Held THEN left[t] - 1 ELSE left[t]) \in 0 .. Short
        <5>1. \A t \in Task : left[t] \in 0 .. Short
          BY <4>2
        <5> HIDE DEF Held
        <5> QED BY <5>1, Range32
      <4>4. left' \in [Task -> 0 .. Short]
        BY <1>3, <4>3
      <4> QED BY <4>1, <4>4 DEF Timed
    <3>5. Whole(k1, call, left') /\ k1.st = k.st /\ k1.run = k.run
      BY <1>1, <3>2, <3>3, <3>4, Ticked
    <3> QED BY <1>1, <1>3, <3>1, <3>5
  <2>2. CASE k.dly # << >>
    <3>1. h \in Task /\ k.tick[h] \in 0 .. Short
      BY <1>4, <2>2
    <3>2. r \in 0 .. Short /\ Invalid \notin 0 .. Short /\ 0 .. Short \subseteq 0 .. Invalid
      BY <3>1, Range32
    <3>3. k.timeReq \in BOOLEAN /\ k.tick \in [Task -> 0 .. Invalid]
      BY <1>1 DEF Typed
    <3>4. time \in BOOLEAN
      BY <3>3
    <3> HIDE DEF r, time, h
    <3>5. /\ tick \in [Task -> 0 .. Invalid]
          /\ \A t \in Task : tick[t] = IF t = h THEN r ELSE k.tick[t]
      BY <3>1, <3>2, <3>3
    <3> HIDE DEF tick
    <3>6. Timely(k, k2, tick)
      BY <1>1, <1>2, <3>4, <3>5, TimelyIs
    <3>7. \A t \in Task : k.tick[t] = Invalid <=> tick[t] = Invalid
      BY <3>1, <3>2, <3>5
    <3> HIDE DEF k2, k1
    <3>8. Timed(k2, left')
      <4>1. k2.dly = k.dly /\ k2.tick = tick
        BY <3>6 DEF Timely
      <4> QED BY <1>4, <2>2, <4>1
    <3>9. Whole(k2, call, left') /\ k2.st = k.st /\ k2.run = k.run /\ k2.lock = k.lock
      BY <1>1, <3>5, <3>6, <3>7, <3>8, Ticked
    <3>10. CASE k.tick[h] <= 1 /\ k.lock = 0
      <4>1. y = TimeDispose(k2)
        BY <2>2, <3>10
      <4>2. Advanced(k2, TimeDispose(k2), left')
        BY <3>9, Disposed DEF Whole
      <4>3. k2.st[k2.run] = "RUNNING" /\ k2.lock = 0
        BY <1>1, <3>9, <3>10
      <4> HIDE DEF y
      <4> QED BY <1>3, <3>9, <4>1, <4>2, <4>3, AdvancedWhole
    <3>11. CASE ~(k.tick[h] <= 1 /\ k.lock = 0)
      <4>1. y = k2
        BY <2>2, <3>11
      <4> HIDE DEF y
      <4> QED BY <1>1, <1>3, <3>9, <4>1
    <3> QED BY <3>10, <3>11
  <2> QED BY <2>1, <2>2
<1> HIDE DEF y
<1>7. Going(y)
  BY <1>6 DEF Going
<1> QED BY <1>5, <1>6, <1>7, Ended

(***************************************************************************)
(* Part 10.  The kernel after CoStartOS.                                   *)
(***************************************************************************)

LEMMA SpareAll ==
    ASSUME NEW p, DOMAIN p \subseteq Task, NEW spare \in Spare(p)
    PROVE  /\ spare \in Seq(Task) /\ IsInjective(spare)
           /\ ToSet(spare) = Task \ ({Idle} \cup DOMAIN p)
<1> DEFINE rest == Task \ ({Idle} \cup DOMAIN p)
           n == Cardinality(rest)
<1>1. IsFiniteSet(rest) /\ n \in Nat
  BY KernelAssumption, FS_Subset, FS_CardinalityType
<1> HIDE DEF n
<1>2. spare \in [1 .. n -> rest] /\ \A i, j \in 1 .. n : i < j => spare[i] < spare[j]
  BY DEF Spare, n
<1>3. rest \subseteq Nat /\ rest \subseteq Task
  BY TaskSchedAssumption
<1> HIDE DEF rest
<1>4. spare \in Seq(Task) /\ DOMAIN spare = 1 .. n
  <2>1. DOMAIN spare = 1 .. n /\ spare \in [1 .. n -> Task]
    BY <1>2, <1>3
  <2>2. Seq(Task) = UNION {[1 .. m -> Task] : m \in Nat}
    BY SeqDef
  <2> QED BY <1>1, <2>1, <2>2
<1>5. \A i, j \in 1 .. n : spare[i] = spare[j] => i = j
  <2> SUFFICES ASSUME NEW i \in 1 .. n, NEW j \in 1 .. n, spare[i] = spare[j] PROVE i = j
    OBVIOUS
  <2>1. spare[i] \in Nat /\ spare[j] \in Nat
    BY <1>2, <1>3
  <2>2. ~(i < j) /\ ~(j < i)
    BY <1>2, <2>1
  <2> QED BY <1>1, <2>2
<1>6. IsInjective(spare)
  BY <1>4, <1>5 DEF IsInjective
<1>7. spare \in Injection(1 .. n, rest)
  BY <1>2, <1>6 DEF Injection
<1>8. Cardinality(1 .. n) = n
  BY <1>1, FS_Interval
<1>9. spare \in Surjection(1 .. n, rest)
  BY <1>1, <1>7, <1>8, FS_Injection DEF n
<1>10. ToSet(spare) = rest
  BY <1>2, <1>4, <1>9 DEF Surjection, ToSet
<1> QED BY <1>4, <1>6, <1>10 DEF rest

\* The kernel while CoStartOS has not run, with the tasks up to i created.
Booting(y, spare, i) ==
  /\ Typed(y) /\ Placed(y, {})
  /\ y.run = Idle /\ y.lock = 0 /\ y.free = spare /\ y.dly = << >>
  /\ y.tick = [t \in Task |-> Invalid] /\ y.mid = [t \in Task |-> InvalidId]
  /\ y.inside = [t \in Task |-> {}]
  /\ \A m \in Mutex : y.mx[m].own = InvalidId /\ y.mx[m].list = << >>
  /\ \A t \in Task : y.st[t] = IF t = Idle THEN "RUNNING"
                               ELSE IF t \in 1 .. i THEN "READY" ELSE "DORMANT"

LEMMA BootFirst ==
    ASSUME NEW spare \in Seq(Task), IsInjective(spare), Idle \notin ToSet(spare)
    PROVE  Booting(CoInitOS(spare), spare, 0)
<1> DEFINE x == CoInitOS(spare)
<1>1. KType(x)
  BY InitType
<1>2. /\ x.st = [t \in Task |-> IF t = Idle THEN "RUNNING" ELSE "DORMANT"]
      /\ x.prio = [t \in Task |-> Lowest] /\ x.tick = [t \in Task |-> Invalid]
      /\ x.rdy = << >> /\ x.dly = << >> /\ x.free = spare
      /\ x.ev = [t \in Task |-> InvalidId]
      /\ x.run = Idle /\ x.req = FALSE /\ x.timeReq = FALSE /\ x.slice = 0 /\ x.lock = 0
      /\ x.mid = [t \in Task |-> InvalidId] /\ x.mx = [m \in Mutex |-> NewMutex] /\ x.mnum = 0
      /\ x.inside = [t \in Task |-> {}] /\ x.pset = {}
      /\ x.flg = NewFlags /\ x.srq = << >> /\ x.intact = TRUE
  BY DEF CoInitOS
<1> HIDE DEF x
<1>3. << >> \in Seq(Task) /\ ToSet(<< >>) = {} /\ IsInjective(<< >>) /\ DOMAIN << >> = {}
  <2>1. << >> \in Seq(Task) /\ Len(<< >>) = 0
    OBVIOUS
  <2>2. ToSet(<< >>) = {} /\ DOMAIN << >> = 1 .. 0
    BY <2>1, Elements
  <2>3. DOMAIN << >> = {}
    BY <2>2
  <2> QED BY <2>1, <2>2, <2>3 DEF IsInjective
<1>4. \A m \in Mutex : x.mx[m].own = InvalidId /\ x.mx[m].list = << >>
  BY <1>2 DEF NewMutex
<1>5. Cardinality(Mutex) \in Nat /\ MaxLock \in Nat /\ TimeSlice \in Nat /\ Lowest \in Nat /\ Invalid \in Nat
  BY KernelAssumption, TaskSchedAssumption, FS_CardinalityType, Range32
<1>6. Typed(x)
  <2>1. x.prio \in [Task -> 0 .. Lowest] /\ x.tick \in [Task -> 0 .. Invalid]
    BY <1>2, <1>5
  <2>2. x.slice \in -1 .. TimeSlice /\ x.lock \in 0 .. MaxLock /\ x.mnum \in 0 .. Cardinality(Mutex)
    BY <1>2, <1>5
  <2>3. x.flg.list = << >>
    BY <1>2 DEF NewFlags
  <2>4. x.inside \in [Task -> SUBSET Mutex] /\ \A t \in Task : x.mid[t] = InvalidId
    BY <1>2
  <2> QED BY <1>1, <1>2, <2>1, <2>2, <2>3, <2>4 DEF Typed
<1>7. Placed(x, {})
  <2>1. \A t \in Task : x.st[t] # "READY" /\ x.tick[t] = Invalid
    BY <1>2
  <2>2. {t \in Task : x.st[t] = "READY"} \ {} = {} /\ {t \in Task : x.tick[t] # Invalid} = {}
    BY <2>1
  <2>3. \A t \in ToSet(x.free) : x.st[t] = "DORMANT"
    <3>1. ToSet(spare) \subseteq Task
      BY Elements
    <3> QED BY <1>2, <3>1
  <2>4. \A m \in Mutex : IsInjective(x.mx[m].list) /\ ToSet(x.mx[m].list) = {}
    BY <1>3, <1>4
  <2>5. /\ x.intact /\ IsInjective(x.rdy) /\ IsInjective(x.dly) /\ IsInjective(x.free)
        /\ ToSet(x.rdy) = {} /\ ToSet(x.dly) = {}
    BY <1>2, <1>3
  <2> QED BY <2>1, <2>2, <2>3, <2>4, <2>5 DEF Placed
<1>8. \A t \in Task : x.st[t] = IF t = Idle THEN "RUNNING" ELSE IF t \in 1 .. 0 THEN "READY" ELSE "DORMANT"
  BY <1>2
<1> QED BY <1>2, <1>4, <1>6, <1>7, <1>8 DEF Booting, x

LEMMA BootNext ==
    ASSUME NEW x, NEW spare, NEW i \in Nat, Booting(x, spare, i), i + 1 \in Task \ {Idle},
           i + 1 \notin ToSet(spare), NEW p, p[i + 1] \in 0 .. Lowest
    PROVE  Booting(BootOne(x, p, i + 1), spare, i + 1)
<1> DEFINE t == i + 1
           y == [x EXCEPT !.prio[t] = p[t], !.base[t] = p[t]]
           z == BootOne(x, p, t)
<1>1. /\ Typed(x) /\ KType(x) /\ Placed(x, {}) /\ x.prio \in [Task -> 0 .. Lowest]
      /\ x.run = Idle /\ x.lock = 0 /\ x.free = spare /\ x.dly = << >>
      /\ x.tick = [u \in Task |-> Invalid] /\ x.mid = [u \in Task |-> InvalidId]
      /\ x.inside = [u \in Task |-> {}]
      /\ \A m \in Mutex : x.mx[m].own = InvalidId /\ x.mx[m].list = << >>
      /\ \A u \in Task : x.st[u] = IF u = Idle THEN "RUNNING"
                                   ELSE IF u \in 1 .. i THEN "READY" ELSE "DORMANT"
  BY DEF Booting, Typed
<1>2. t \in Task /\ t # Idle /\ t \notin 1 .. i /\ p[t] \in 0 .. Lowest /\ p[t] \in Nat
  BY KernelAssumption
<1> HIDE DEF t
<1>3. /\ KType(y) /\ y.prio = [x.prio EXCEPT ![t] = p[t]]
      /\ y.mid = x.mid /\ y.mx = x.mx /\ y.inside = x.inside /\ y.tick = x.tick
      /\ y.lock = x.lock /\ y.st = x.st /\ y.run = x.run /\ y.timeReq = x.timeReq
      /\ y.free = x.free /\ y.rdy = x.rdy /\ y.dly = x.dly /\ y.slice = x.slice /\ y.req = x.req
      /\ y.intact = x.intact /\ y.flg = x.flg /\ y.srq = x.srq
      /\ y.mnum = x.mnum /\ y.mstale = x.mstale /\ y.ev = x.ev /\ y.pset = x.pset
  BY <1>1, <1>2 DEF KType, Fields
<1>4. z = InsertToTCBRdyList(y, t)
  BY DEF BootOne
<1> HIDE DEF y, z
<1>5. Typed(y)
  <2>1. y.prio \in [Task -> 0 .. Lowest]
    BY <1>1, <1>2, <1>3
  <2>2. Typed(x)
    BY <1>1
  <2> QED BY <1>3, <2>1, <2>2 DEF Typed
<1>6. Placed(y, {t})
  <2>1. Placed(y, {})
    BY <1>1, <1>3 DEF Placed
  <2>2. y.st[t] # "READY"
    BY <1>1, <1>2, <1>3
  <2> QED BY <1>2, <2>1, <2>2, NotReady
<1>7. y.tick[t] = Invalid /\ t \notin ToSet(y.free) /\ \A m \in Mutex : t \notin ToSet(y.mx[m].list)
  <2>1. << >> \in Seq(Task)
    OBVIOUS
  <2>2. ToSet(<< >>) = {}
    BY <2>1, Elements
  <2>3. \A m \in Mutex : ToSet(y.mx[m].list) = {}
    BY <1>1, <1>3, <2>2
  <2>4. y.tick[t] = Invalid /\ t \notin ToSet(y.free)
    BY <1>1, <1>2, <1>3 DEF t
  <2> QED BY <2>3, <2>4
<1>8. /\ Typed(z) /\ Placed(z, {}) /\ Frame(y, z) /\ z.st = [y.st EXCEPT ![t] = "READY"]
      /\ z.tick = y.tick /\ z.dly = y.dly /\ z.mx = y.mx
  BY <1>2, <1>4, <1>5, <1>6, <1>7, ReadyIn
<1>9. \A u \in Task : z.st[u] = IF u = t THEN "READY" ELSE x.st[u]
  BY <1>1, <1>3, <1>8 DEF KType
<1>10. \A u \in Task : z.st[u] = IF u = Idle THEN "RUNNING"
                                 ELSE IF u \in 1 .. t THEN "READY" ELSE "DORMANT"
  <2> TAKE u \in Task
  <2>1. u \in 1 .. t <=> u = t \/ u \in 1 .. i
    BY TaskSchedAssumption DEF t
  <2> QED BY <1>1, <1>2, <1>9, <2>1
<1>11. /\ z.run = Idle /\ z.lock = 0 /\ z.free = spare /\ z.dly = << >>
       /\ z.tick = [u \in Task |-> Invalid] /\ z.mid = [u \in Task |-> InvalidId]
       /\ z.inside = [u \in Task |-> {}]
       /\ \A m \in Mutex : z.mx[m].own = InvalidId /\ z.mx[m].list = << >>
  BY <1>1, <1>3, <1>8 DEF Frame
<1> QED BY <1>8, <1>10, <1>11 DEF Booting, z, t

LEMMA BootSound ==
    ASSUME NEW p \in Seq(0 .. Lowest), DOMAIN p \subseteq Task \ {Idle}, NEW spare \in Spare(p),
           NEW c, c = [t \in Task |-> NoCall], NEW l, l = [t \in Task |-> 0]
    PROVE  LET x == Boot(p, spare) IN Whole(x, c, l) /\ x.st[x.run] = "RUNNING"
<1> DEFINE n == Len(p)
           s == [i \in DOMAIN p |-> i]
           x == CoInitOS(spare)
           Loop(g, m) == g = [i \in 0 .. m |-> IF i = 0 THEN x ELSE BootOne(g[i - 1], p, s[i])]
           h == CHOOSE g : Loop(g, Len(s))
<1>1. n \in Nat /\ DOMAIN p = 1 .. n
  BY LenProperties
<1>2. Len(s) = n /\ \A i \in 1 .. n : s[i] = i
  BY <1>1
<1>3. Boot(p, spare) = OsSchedUnlock(h[Len(s)])
  BY DEF Boot, Each, BootOne
<1>4. /\ spare \in Seq(Task) /\ IsInjective(spare)
      /\ ToSet(spare) = Task \ ({Idle} \cup 1 .. n)
  BY <1>1, SpareAll
<1>5. Booting(x, spare, 0)
  BY <1>4, BootFirst
<1> HIDE DEF n, s, x
<1>6. \E g : Loop(g, n)
  <2> DEFINE I == {m \in 0 .. n : \E g : Loop(g, m)}
  <2>1. 0 \in I
    <3>1. Loop([i \in 0 .. 0 |-> x], 0)
      OBVIOUS
    <3> HIDE DEF Loop
    <3> QED BY <1>1, <3>1
  <2>2. ASSUME NEW m \in 0 .. n - 1, m \in I PROVE m + 1 \in I
    <3>1. PICK g : Loop(g, m)
      BY <2>2
    <3> DEFINE gg == [i \in 0 .. m + 1 |-> IF i <= m THEN g[i] ELSE BootOne(g[m], p, s[m + 1])]
    <3>2. Loop(gg, m + 1)
      BY <1>1, <3>1
    <3> HIDE DEF Loop, gg
    <3> QED BY <1>1, <3>2
  <2> HIDE DEF I
  <2>3. n \in I
    BY <1>1, <2>1, <2>2, Rounds
  <2> QED BY <2>3 DEF I
<1>7. Loop(h, n)
  BY <1>2, <1>6
<1> HIDE DEF h
<1> DEFINE I == {i \in 0 .. n : Booting(h[i], spare, i)}
<1>8. 0 \in I
  <2>1. h[0] = x /\ 0 \in 0 .. n
    BY <1>1, <1>7
  <2> QED BY <1>5, <2>1
<1>9. ASSUME NEW i \in 0 .. n - 1, i \in I PROVE i + 1 \in I
  <2>1. h[i + 1] = BootOne(h[i], p, i + 1) /\ i \in Nat
    BY <1>1, <1>2, <1>7
  <2>2. i + 1 \in Task \ {Idle} /\ p[i + 1] \in 0 .. Lowest /\ i + 1 \notin ToSet(spare)
    <3>1. i + 1 \in 1 .. n
      BY <1>1
    <3> QED BY <1>1, <1>4, <3>1, ElementOfSeq DEF n
  <2>3. Booting(h[i], spare, i)
    BY <1>9
  <2>4. Booting(h[i + 1], spare, i + 1)
    BY <2>1, <2>2, <2>3, BootNext
  <2> QED BY <1>1, <2>4
<1> HIDE DEF I
<1>10. n \in I
  BY <1>1, <1>8, <1>9, Rounds
<1> DEFINE y == h[n]
<1>11. Booting(y, spare, n)
  BY <1>10 DEF I
<1> HIDE DEF y
<1>12. /\ Typed(y) /\ Placed(y, {}) /\ KType(y)
       /\ y.run = Idle /\ y.lock = 0 /\ y.free = spare /\ y.dly = << >>
       /\ y.mid = [t \in Task |-> InvalidId] /\ y.inside = [t \in Task |-> {}]
       /\ \A m \in Mutex : y.mx[m].own = InvalidId /\ y.mx[m].list = << >>
       /\ \A t \in Task : y.st[t] = IF t = Idle THEN "RUNNING"
                                    ELSE IF t \in 1 .. n THEN "READY" ELSE "DORMANT"
  BY <1>11 DEF Booting, Typed
<1>13. << >> \in Seq(Task) /\ ToSet(<< >>) = {} /\ DOMAIN << >> = {}
  <2>1. << >> \in Seq(Task) /\ Len(<< >>) = 0
    OBVIOUS
  <2>2. ToSet(<< >>) = {} /\ DOMAIN << >> = 1 .. 0
    BY <2>1, Elements
  <2>3. DOMAIN << >> = {}
    BY <2>2
  <2> QED BY <2>1, <2>2, <2>3
<1>14. Timed(y, l)
  <2>1. l \in [Task -> 0 .. Short]
    BY Range32
  <2>2. DOMAIN y.dly = {}
    BY <1>12, <1>13
  <2> QED BY <2>1, <2>2 DEF Timed
<1>15. \A t \in Task : c[t] = NoCall
  OBVIOUS
<1>16. States(y, c)
  <2>1. Idle \in Task /\ Idle \notin 1 .. n
    BY <1>1, KernelAssumption
  <2>2. {t \in Task : y.st[t] = "DORMANT"} = Task \ ({Idle} \cup 1 .. n)
    BY <1>12
  <2>3. {u \in Task : c[u].op = "create"} = {}
    BY <1>15 DEF NoCall
  <2>4. {t \in Task : y.st[t] = "DORMANT"} = ToSet(y.free)
    BY <1>4, <1>12, <2>2
  <2>5. /\ \A t \in Task : y.st[t] = "RUNNING" => t = y.run
        /\ y.st[Idle] \in {"READY", "RUNNING"}
        /\ \A t \in Task : y.mid[t] = InvalidId
    BY <1>12, <2>1
  <2> QED BY <1>15, <2>3, <2>4, <2>5 DEF States
<1>17. Owned(y, c)
  <2>1. \A m \in Mutex : ToSet(y.mx[m].list) = {}
    BY <1>12, <1>13
  <2>2. \A t \in Task : y.mid[t] = InvalidId /\ y.inside[t] = {}
    BY <1>12
  <2> QED BY <1>12, <2>1, <2>2 DEF Owned
<1>18. Calls(y, c)
  BY <1>15 DEF Calls, Alone
<1>19. Whole(y, c, l)
  BY <1>12, <1>14, <1>16, <1>17, <1>18 DEF Whole
<1>20. Going(y)
  BY <1>12, KernelAssumption DEF Going
<1>21. Boot(p, spare) = OsSchedUnlock(y)
  BY <1>2, <1>3 DEF y
<1> QED BY <1>19, <1>20, <1>21, Unlocked

(***************************************************************************)
(* Part 11.  The invariant, and what it says.                              *)
(***************************************************************************)

LEMMA InitSound ==
    ASSUME Init
    PROVE  Sound
<1>1. PICK p \in prog.boot : \E spare \in Spare(p) : k = Boot(p, spare)
  BY DEF Init
<1>2. PICK spare \in Spare(p) : k = Boot(p, spare)
  BY <1>1
<1>3. prog \in Programs /\ call = [t \in Task |-> NoCall] /\ left = [t \in Task |-> 0]
  BY DEF Init
<1>4. p \in Seq(0 .. Lowest) /\ DOMAIN p \subseteq Task \ {Idle}
  BY <1>3, TaskSchedAssumption
<1>5. Whole(k, call, left) /\ k.st[k.run] = "RUNNING"
  BY <1>2, <1>3, <1>4, BootSound
<1> QED BY <1>3, <1>5 DEF Sound

LEMMA NextSound ==
    ASSUME Guarded, ShortDelays, Sound, [Next]_vars
    PROVE  Sound'
<1>1. CASE UNCHANGED vars
  BY <1>1 DEF vars, Sound
<1>2. CASE Next
  <2>1. UNCHANGED prog /\ (Program \/ Tick)
    BY <1>2 DEF Next
  <2>2. ASSUME NEW p \in prog.prio, NEW w \in BOOLEAN, AssignTCB(p, w) PROVE Sound'
    BY <2>1, <2>2, StepAssign
  <2>3. ASSUME NEW t \in Task, DelTest(t) \/ SuspendTest(t) \/ AwakeTest(t) PROVE Sound'
    BY <2>1, <2>3, StepDelTest, StepSuspendTest, StepAwakeTest
  <2>4. ASSUME NEW t \in Task, NEW p \in prog.prio, SetPrioTest(t, p) PROVE Sound'
    BY <2>1, <2>4, StepSetPrioTest
  <2>5. ASSUME NEW n \in prog.delays, CoTickDelay(n) PROVE Sound'
    BY <2>1, <2>5, StepDelay
  <2>6. ASSUME NEW t \in Task, NEW n \in prog.delays \cup {0}, ResetDelayTest(t, n) PROVE Sound'
    BY <2>1, <2>6, StepResetTest
  <2>7. CASE CreateTask \/ DelLeave \/ CoDelTask
    BY <2>1, <2>7, StepCreate, StepDelLeave, StepDelete
  <2>8. CASE CoSuspendTask \/ CoAwakeTask \/ CoSetPriority \/ CoResetTaskDelayTick
    BY <2>1, <2>8, StepSuspend, StepAwake, StepSetPriority, StepReset
  <2>9. CASE CoCreateMutex \/ EnterReturn
    BY <2>1, <2>9, StepCreateMutex, StepEnterReturn
  <2>10. ASSUME NEW m \in Mutex, CoEnterMutexSection(m) \/ CoLeaveMutexSection(m) PROVE Sound'
    BY <2>1, <2>10, StepEnter, StepLeave
  <2>11. CASE CoSchedLock \/ CoSchedUnlock
    BY <2>1, <2>11, StepLock, StepUnlock
  <2>12. CASE Tick
    BY <2>1, <2>12, StepTick
  <2> QED BY <2>1, <2>2, <2>3, <2>4, <2>5, <2>6, <2>7, <2>8, <2>9, <2>10, <2>11, <2>12 DEF Program
<1> QED BY <1>1, <1>2

\* The positions of a list in which nothing is twice are as many as its
\* elements.
LEMMA Counting ==
    ASSUME NEW s \in Seq(Task), IsInjective(s), NEW S, ToSet(s) = S
    PROVE  s \in [1 .. Cardinality(S) -> S]
<1>1. DOMAIN s = 1 .. Len(s) /\ Len(s) \in Nat /\ ToSet(s) = {s[i] : i \in 1 .. Len(s)}
  BY Elements
<1>2. s = [i \in 1 .. Len(s) |-> s[i]]
  BY <1>1
<1>3. s \in [1 .. Len(s) -> S]
  BY <1>1, <1>2
<1>4. s \in Bijection(1 .. Len(s), S)
  BY <1>1, <1>3 DEF Bijection, Injection, Surjection, IsInjective
<1>5. Cardinality(S) = Len(s)
  BY <1>1, <1>4, FS_CountingElements DEF ExistsBijection
<1> QED BY <1>3, <1>5

LEMMA SoundLists ==
    ASSUME Sound
    PROVE  ListsMatchStates
<1>1. /\ Typed(k) /\ KType(k) /\ Placed(k, {}) /\ States(k, call) /\ Timed(k, left)
      /\ k.st[k.run] = "RUNNING" /\ k.run \in Task /\ call = [t \in Task |-> call[t]]
  BY SoundParts
<1>2. k.rdy \in Seq(Task) /\ k.dly \in Seq(Task) /\ k.free \in Seq(Task)
  BY <1>1 DEF KType
<1>3. ToSet(k.rdy) \subseteq Task /\ ToSet(k.dly) \subseteq Task /\ ToSet(k.free) \subseteq Task
  BY <1>2, Elements
<1>4. TypeOK
  <2>1. k.st \in [Task -> {"DORMANT", "READY", "RUNNING", "WAITING"}]
    BY <1>1 DEF KType, Alive
  <2>2. \A m \in Mutex : k.mx[m].own \in Task \cup {InvalidId}
    BY <1>1 DEF KType, MutexType
  <2>3. left \in [Task -> 0 .. (Invalid - 1)]
    <3>1. 0 .. Short \subseteq 0 .. (Invalid - 1)
      BY Range32
    <3> QED BY <1>1, <3>1 DEF Timed
  <2>4. call \in [Task -> [op : {"none", "create", "delete", "suspend", "awake", "prio", "reset"}]
                          \cup {call[t] : t \in Task}]
    BY <1>1
  <2>5. k.mid \in [Task -> Mutex \cup {InvalidId}]
    BY <1>1 DEF KType
  <2> QED BY <1>1, <1>3, <2>1, <2>2, <2>3, <2>4, <2>5 DEF TypeOK, Typed
<1>5. /\ IsInjective(k.rdy) /\ IsInjective(k.dly) /\ k.intact
      /\ ToSet(k.rdy) = {t \in Task : k.st[t] = "READY"}
      /\ ToSet(k.dly) = {t \in Task : k.tick[t] # Invalid}
      /\ \A t \in Task : k.tick[t] # Invalid => k.st[t] = "WAITING"
  BY <1>1 DEF Placed
<1>6. k.rdy \in [1 .. Cardinality(ToSet(k.rdy)) -> {t \in Task : k.st[t] = "READY"}]
  BY <1>2, <1>5, Counting
<1>7. k.dly \in [1 .. Cardinality(ToSet(k.dly)) ->
                  {t \in Task : k.st[t] = "WAITING" /\ k.tick[t] # Invalid}]
  <2>1. ToSet(k.dly) = {t \in Task : k.st[t] = "WAITING" /\ k.tick[t] # Invalid}
    BY <1>5
  <2> QED BY <1>2, <1>5, <2>1, Counting
<1>8. {t \in Task : k.st[t] = "RUNNING"} = {k.run}
  BY <1>1 DEF States
<1>9. {t \in Task : k.st[t] = "DORMANT"} = ToSet(k.free) \cup {call[t].task : t \in InCall("create")}
  BY <1>1 DEF States, InCall
<1> QED BY <1>4, <1>5, <1>6, <1>7, <1>8, <1>9 DEF ListsMatchStates

LEMMA SoundDelays ==
    ASSUME Sound
    PROVE  DelayExact
<1>1. k.dly \in Seq(Task) /\ Timed(k, left)
  BY SoundParts DEF KType
<1>2. ASSUME NEW i \in DOMAIN k.dly PROVE Due(k, i) = left[k.dly[i]]
  <2>1. i \in 0 .. Len(k.dly) /\ i # 0
    BY <1>1, Elements
  <2> QED BY <1>1, <2>1, DueLeft
<1> QED BY <1>2 DEF DelayExact

LEMMA SoundMutexes ==
    ASSUME Sound
    PROVE  MutexKept
<1>1. KType(k) /\ States(k, call) /\ Owned(k, call) /\ Calls(k, call) /\ k.run \in Task
  BY SoundParts
<1>2. InvalidId \notin Task /\ InvalidId \notin Mutex
  BY KernelAssumption
<1>3. \A t \in Task, m \in Mutex : m \in k.inside[t] => k.mx[m].own = t
  BY <1>1 DEF Owned
<1>4. ASSUME NEW m \in Mutex
      PROVE  LET o == k.mx[m].own
             IN /\ o # InvalidId => /\ k.st[o] # "DORMANT"
                                    /\ m \in k.inside[o] \/ call[o] = [op |-> "enter", mutex |-> m]
                /\ k.mx[m].list # << >> => o # InvalidId
  <2> DEFINE o == k.mx[m].own
  <2>1. o \in Task \cup {InvalidId}
    BY <1>1 DEF KType, MutexType
  <2>2. o # InvalidId => k.mid[o] = m /\ (m \in k.inside[o] \/ call[o] = EnterCall(m))
    BY <1>1 DEF Owned
  <2>3. o = InvalidId => k.mx[m].list = << >>
    BY <1>1 DEF Owned
  <2>4. ASSUME o # InvalidId PROVE k.st[o] # "DORMANT"
    <3>1. o \in Task /\ k.mid[o] # InvalidId
      BY <1>2, <2>1, <2>2, <2>4
    <3> QED BY <1>1, <3>1 DEF States
  <2> QED BY <2>2, <2>3, <2>4 DEF EnterCall
<1>5. ASSUME NEW t \in InCall("enter") \ {call[u].task : u \in InCall("delete")}
      PROVE  k.mx[call[t].mutex].own = t \/ t \in ToSet(k.mx[call[t].mutex].list)
  <2>1. t \in Task /\ call[t].op = "enter"
    BY DEF InCall
  <2>2. Alone(k, call, t)
    <3>1. ASSUME Locked(k, call, t) PROVE FALSE
      BY <2>1, <3>1, OtherCall DEF Locked
    <3> QED BY <1>1, <2>1, <3>1 DEF Calls
  <2>3. ~Doomed(k, call, t)
    <3>1. \A u \in InCall("delete") : call[u].task # t
      OBVIOUS
    <3>2. call[k.run].op = "delete" => k.run \in InCall("delete")
      BY <1>1 DEF InCall
    <3> QED BY <3>1, <3>2 DEF Doomed
  <2> QED BY <2>1, <2>2, <2>3, AloneCall
<1> QED BY <1>3, <1>4, <1>5 DEF MutexKept

\* The lists that task.c and time.c keep through the same two link fields stay
\* well formed and say what the states of the tasks say, whatever the tasks of
\* Guarded programs do to each other between their two steps.
THEOREM ListsSpec == Guarded /\ ShortDelays => (Spec => []ListsMatchStates)
<1> SUFFICES ASSUME Guarded, ShortDelays PROVE Spec => []ListsMatchStates
  OBVIOUS
<1>1. Init => Sound
  BY InitSound
<1>2. Sound /\ [Next]_vars => Sound'
  BY NextSound
<1>3. Sound => ListsMatchStates
  BY SoundLists
<1> QED BY <1>1, <1>2, <1>3, PTL DEF Spec

\* A task is due after exactly the ticks that it asked for, whatever is
\* inserted into and removed from the delay list in front of it.
THEOREM DelaySpec == Guarded /\ ShortDelays => (Spec => []DelayExact)
<1> SUFFICES ASSUME Guarded, ShortDelays PROVE Spec => []DelayExact
  OBVIOUS
<1>1. Init => Sound
  BY InitSound
<1>2. Sound /\ [Next]_vars => Sound'
  BY NextSound
<1>3. Sound => DelayExact
  BY SoundDelays
<1> QED BY <1>1, <1>2, <1>3, PTL DEF Spec

\* Who is inside of a mutex owns it, and no owner and no waiting task is lost,
\* although CoDelTask takes both out of their mutexes.
THEOREM MutexSpec == Guarded /\ ShortDelays => (Spec => []MutexKept)
<1> SUFFICES ASSUME Guarded, ShortDelays PROVE Spec => []MutexKept
  OBVIOUS
<1>1. Init => Sound
  BY InitSound
<1>2. Sound /\ [Next]_vars => Sound'
  BY NextSound
<1>3. Sound => MutexKept
  BY SoundMutexes
<1> QED BY <1>1, <1>2, <1>3, PTL DEF Spec
=============================================================================
