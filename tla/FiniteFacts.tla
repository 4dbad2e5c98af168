--------------------------- MODULE FiniteFacts -----------------------------
(***************************************************************************)
(* Facts about sequences that hold each element once, as the databases of  *)
(* states do: what they contain after their first or last element has been *)
(* taken or another one has been inserted, how often, and how many there   *)
(* can be; the extremes of finite sets of integers; and folds over such    *)
(* sets and recursion on numbers and sequences.                            *)
(***************************************************************************)
EXTENDS Integers, SequencesExt, SequenceTheorems, FiniteSetTheorems, WellFoundedInduction, TLAPS

Distinct(seq) == \A i, j \in 1 .. Len(seq) : seq[i] = seq[j] => i = j

\* What the set of a sequence's elements is.
LEMMA Members ==
  ASSUME NEW S, NEW seq \in Seq(S)
  PROVE  /\ Len(seq) \in Nat /\ DOMAIN seq = 1 .. Len(seq)
         /\ \A x : x \in ToSet(seq) <=> \E i \in 1 .. Len(seq) : seq[i] = x
         /\ \A i \in 1 .. Len(seq) : seq[i] \in ToSet(seq)
         /\ ToSet(seq) \subseteq S
         /\ seq = <<>> <=> ToSet(seq) = {}
         /\ seq = <<>> <=> Len(seq) = 0
  <1>1. Len(seq) \in Nat /\ DOMAIN seq = 1 .. Len(seq)
    BY LenProperties
  <1>2. \A i \in 1 .. Len(seq) : seq[i] \in S
    BY ElementOfSeq
  <1>3. seq = <<>> <=> Len(seq) = 0
    BY <1>1, EmptySeq
  <1>4. \A x : x \in ToSet(seq) <=> \E i \in 1 .. Len(seq) : seq[i] = x
    BY <1>1 DEF ToSet
  <1>5. Len(seq) # 0 => 1 \in 1 .. Len(seq)
    BY <1>1
  <1> QED
    BY <1>1, <1>2, <1>3, <1>4, <1>5

\* There are no more of them than there are elements.
LEMMA DistinctLength ==
  ASSUME NEW S, IsFiniteSet(S), NEW seq \in Seq(S), Distinct(seq)
  PROVE  Len(seq) <= Cardinality(S)
  <1> DEFINE positions == 1 .. Len(seq)
             f == [i \in positions |-> seq[i]]
  <1>1. Len(seq) \in Nat /\ f \in [positions -> S]
    BY Members, ElementOfSeq
  <1>2. IsFiniteSet(positions) /\ Cardinality(positions) = Len(seq) /\ Cardinality(S) \in Nat
    <2>1. /\ IsFiniteSet(positions)
          /\ Cardinality(positions) = IF 1 > Len(seq) THEN 0 ELSE Len(seq) - 1 + 1
      BY <1>1, FS_Interval
    <2>2. Cardinality(positions) = Len(seq)
      BY ONLY <1>1, <2>1
    <2> QED
      BY <2>1, <2>2, FS_CardinalityType
  <1>3. ~\E i, j \in positions : i # j /\ f[i] = f[j]
    BY DEF Distinct
  <1>4. ~(Cardinality(S) < Cardinality(positions))
    <2> HIDE DEF f, positions
    <2> QED
      BY <1>1, <1>2, <1>3, FS_PigeonHole
  <1> QED
    BY <1>1, <1>2, <1>4

\* The first element is taken.
LEMMA TailFacts ==
  ASSUME NEW S, NEW seq \in Seq(S), seq # <<>>, Distinct(seq)
  PROVE  /\ Tail(seq) \in Seq(S) /\ Distinct(Tail(seq))
         /\ Head(seq) \in ToSet(seq)
         /\ ToSet(Tail(seq)) = ToSet(seq) \ {Head(seq)}
         /\ Len(Tail(seq)) = Len(seq) - 1
         /\ \A i \in 1 .. Len(seq) - 1 : Tail(seq)[i] = seq[i + 1]
  <1>1. Len(seq) \in Nat \ {0} /\ Head(seq) = seq[1]
    BY EmptySeq
  <1>2. /\ Tail(seq) \in Seq(S) /\ Len(Tail(seq)) = Len(seq) - 1
        /\ \A i \in 1 .. Len(seq) - 1 : Tail(seq)[i] = seq[i + 1]
    BY HeadTailProperties
  <1>3. Distinct(Tail(seq))
    BY <1>1, <1>2 DEF Distinct
  <1>4. ASSUME NEW x
        PROVE  x \in ToSet(Tail(seq)) <=> x \in ToSet(seq) \ {Head(seq)}
    <2>0. x \in ToSet(Tail(seq)) <=> \E i \in 1 .. Len(Tail(seq)) : Tail(seq)[i] = x
      BY <1>2, Members
    <2>1. x \in ToSet(Tail(seq)) <=> \E i \in 1 .. Len(seq) - 1 : seq[i + 1] = x
      BY <1>2, <2>0
    <2>2. x \in ToSet(seq) <=> \E i \in 1 .. Len(seq) : seq[i] = x
      BY Members
    <2>3. ASSUME NEW i \in 1 .. Len(seq) - 1, seq[i + 1] = x
          PROVE  x \in ToSet(seq) \ {Head(seq)}
      <3>1. i + 1 \in 1 .. Len(seq) /\ i + 1 # 1
        BY <1>1
      <3> QED
        BY <1>1, <2>2, <2>3, <3>1 DEF Distinct
    <2>4. ASSUME NEW i \in 1 .. Len(seq), seq[i] = x, x # Head(seq)
          PROVE  x \in ToSet(Tail(seq))
      <3>1. i - 1 \in 1 .. Len(seq) - 1 /\ seq[(i - 1) + 1] = x
        BY <1>1, <2>4
      <3> QED
        BY <2>1, <3>1
    <2> QED
      BY <2>1, <2>2, <2>3, <2>4
  <1>5. Head(seq) \in ToSet(seq)
    BY <1>1, Members
  <1> QED
    BY <1>2, <1>3, <1>4, <1>5

\* The last element is taken.
LEMMA FrontFacts ==
  ASSUME NEW S, NEW seq \in Seq(S), seq # <<>>, Distinct(seq)
  PROVE  /\ Front(seq) \in Seq(S) /\ Distinct(Front(seq))
         /\ Last(seq) \in ToSet(seq)
         /\ ToSet(Front(seq)) = ToSet(seq) \ {Last(seq)}
         /\ Len(Front(seq)) = Len(seq) - 1
         /\ \A i \in 1 .. Len(seq) - 1 : Front(seq)[i] = seq[i]
  <1>1. Len(seq) \in Nat \ {0} /\ Last(seq) = seq[Len(seq)]
    BY EmptySeq DEF Last
  <1>2. \A i \in 1 .. Len(seq) - 1 : seq[i] \in S
    BY <1>1, ElementOfSeq
  <1>3. /\ Front(seq) \in Seq(S) /\ Len(Front(seq)) = Len(seq) - 1
        /\ \A i \in 1 .. Len(seq) - 1 : Front(seq)[i] = seq[i]
    <2>1. 1 \in Int /\ Len(seq) - 1 \in Int
      BY <1>1
    <2> DEFINE front == SubSeq(seq, 1, Len(seq) - 1)
    <2>2. /\ front \in Seq(S) /\ Len(front) = IF 1 <= Len(seq) - 1 THEN Len(seq) - 1 - 1 + 1 ELSE 0
          /\ \A i \in 1 .. Len(seq) - 1 - 1 + 1 : front[i] = seq[1 + i - 1]
      BY <1>2, <2>1, SubSeqProperties
    <2> HIDE DEF front
    <2>3. Len(front) = Len(seq) - 1
      <3> DEFINE n == Len(seq)
      <3>1. n \in Nat /\ n # 0
        BY <1>1
      <3>2. Len(front) = IF 1 <= n - 1 THEN n - 1 - 1 + 1 ELSE 0
        BY <2>2
      <3> HIDE DEF n
      <3>3. (IF 1 <= n - 1 THEN n - 1 - 1 + 1 ELSE 0) = n - 1
        BY <3>1
      <3>4. Len(front) = n - 1
        BY <3>2, <3>3
      <3> QED
        BY <3>4 DEF n
    <2>4. ASSUME NEW i \in 1 .. Len(seq) - 1 PROVE front[i] = seq[i]
      <3>1. i \in 1 .. Len(seq) - 1 - 1 + 1 /\ 1 + i - 1 = i
        BY <1>1
      <3> QED
        BY <2>2, <3>1
    <2>5. front = Front(seq)
      BY DEF front, Front
    <2> QED
      BY <2>2, <2>3, <2>4, <2>5
  <1>4. Distinct(Front(seq))
    BY <1>1, <1>3 DEF Distinct
  <1>5. ASSUME NEW x
        PROVE  x \in ToSet(Front(seq)) <=> x \in ToSet(seq) \ {Last(seq)}
    <2>0. x \in ToSet(Front(seq)) <=> \E i \in 1 .. Len(Front(seq)) : Front(seq)[i] = x
      BY <1>3, Members
    <2>1. x \in ToSet(Front(seq)) <=> \E i \in 1 .. Len(seq) - 1 : seq[i] = x
      BY <1>3, <2>0
    <2>2. x \in ToSet(seq) <=> \E i \in 1 .. Len(seq) : seq[i] = x
      BY Members
    <2> QED
      BY <1>1, <2>1, <2>2 DEF Distinct
  <1>6. Last(seq) \in ToSet(seq)
    BY <1>1, Members
  <1> QED
    BY <1>3, <1>4, <1>5, <1>6

\* Another element is inserted.
LEMMA InsertFacts ==
  ASSUME NEW S, NEW seq \in Seq(S), NEW e \in S, NEW i \in 1 .. Len(seq) + 1
  PROVE  LET new == InsertAt(seq, i, e) IN
         /\ new \in Seq(S)
         /\ Len(new) = Len(seq) + 1
         /\ \A k \in 1 .. Len(seq) + 1 :
               new[k] = IF k < i THEN seq[k] ELSE IF k = i THEN e ELSE seq[k - 1]
         /\ ToSet(new) = ToSet(seq) \union {e}
         /\ Distinct(seq) /\ e \notin ToSet(seq) => Distinct(new)
  <1> DEFINE front == SubSeq(seq, 1, i - 1)
             back  == SubSeq(seq, i, Len(seq))
             new   == InsertAt(seq, i, e)
  <1>0. Len(seq) \in Nat /\ \A k \in 1 .. Len(seq) : seq[k] \in S
    BY LenProperties, ElementOfSeq
  <1>1. /\ front \in Seq(S) /\ Len(front) = i - 1
        /\ \A k \in 1 .. i - 1 : front[k] = seq[k]
    BY <1>0, SubSeqProperties
  <1>2. /\ back \in Seq(S) /\ Len(back) = Len(seq) - i + 1
        /\ \A k \in 1 .. Len(seq) - i + 1 : back[k] = seq[i + k - 1]
    BY <1>0, SubSeqProperties
  <1>3. /\ front \o <<e>> \in Seq(S) /\ Len(front \o <<e>>) = i
        /\ \A k \in 1 .. i : (front \o <<e>>)[k] = IF k < i THEN seq[k] ELSE e
    <2>1. /\ <<e>> \in Seq(S) /\ Len(<<e>>) = 1 /\ <<e>>[1] = e
      OBVIOUS
    <2> HIDE DEF front
    <2> QED
      BY <1>0, <1>1, <2>1, ConcatProperties
  <1>4. /\ new \in Seq(S) /\ Len(new) = Len(seq) + 1
        /\ \A k \in 1 .. Len(seq) + 1 :
              new[k] = IF k < i THEN seq[k] ELSE IF k = i THEN e ELSE seq[k - 1]
    <2>1. new = (front \o <<e>>) \o back
      BY DEF InsertAt
    <2> HIDE DEF front, back, new
    <2> DEFINE upTo == front \o <<e>>
    <2> HIDE DEF upTo
    <2>a. /\ upTo \in Seq(S) /\ Len(upTo) = i
          /\ \A k \in 1 .. i : upTo[k] = IF k < i THEN seq[k] ELSE e
      BY <1>3 DEF upTo
    <2>b. /\ new \in Seq(S) /\ Len(new) = Len(upTo) + Len(back)
          /\ \A k \in 1 .. Len(upTo) + Len(back) :
                new[k] = IF k <= Len(upTo) THEN upTo[k] ELSE back[k - Len(upTo)]
      <3>1. new = upTo \o back
        BY <2>1 DEF upTo
      <3> QED
        BY <1>2, <2>a, <3>1, ConcatProperties
    <2>c. Len(upTo) + Len(back) = Len(seq) + 1
      BY <1>0, <1>2, <2>a
    <2>2. /\ new \in Seq(S) /\ Len(new) = Len(seq) + 1
          /\ \A k \in 1 .. Len(seq) + 1 :
                new[k] = IF k <= i THEN upTo[k] ELSE back[k - i]
      BY <2>a, <2>b, <2>c
    <2>3. ASSUME NEW k \in 1 .. Len(seq) + 1, k > i PROVE back[k - i] = seq[k - 1]
      <3>1. k - i \in 1 .. Len(seq) - i + 1 /\ i + (k - i) - 1 = k - 1
        BY <1>0, <2>3
      <3> QED
        BY <1>2, <3>1
    <2>4. ASSUME NEW k \in 1 .. Len(seq) + 1, k <= i
          PROVE  new[k] = IF k < i THEN seq[k] ELSE e
      BY <1>0, <2>2, <2>4, <2>a
    <2> QED
      BY <1>0, <2>2, <2>3, <2>4
  <1> HIDE DEF front, back, new
  <1>5. ASSUME NEW x PROVE x \in ToSet(new) <=> x \in ToSet(seq) \union {e}
    <2>1. x \in ToSet(new) <=> \E k \in 1 .. Len(seq) + 1 : new[k] = x
      BY <1>4, Members
    <2>2. x \in ToSet(seq) <=> \E k \in 1 .. Len(seq) : seq[k] = x
      BY Members
    <2>3. ASSUME NEW k \in 1 .. Len(seq) + 1, new[k] = x
          PROVE  x \in ToSet(seq) \union {e}
      <3>1. k < i => k \in 1 .. Len(seq)
        BY <1>0
      <3>2. k > i => k - 1 \in 1 .. Len(seq)
        BY <1>0
      <3> QED
        BY <1>0, <1>4, <2>2, <2>3, <3>1, <3>2
    <2>4. ASSUME NEW k \in 1 .. Len(seq), seq[k] = x PROVE x \in ToSet(new)
      <3>1. CASE k < i
        BY <1>0, <1>4, <2>1, <2>4, <3>1
      <3>2. CASE ~(k < i)
        <4>1. k + 1 \in 1 .. Len(seq) + 1 /\ k + 1 > i /\ (k + 1) - 1 = k
          BY <1>0, <3>2
        <4>2. new[k + 1] = seq[k]
          BY <1>0, <1>4, <4>1
        <4> QED
          BY <2>1, <2>4, <4>1, <4>2
      <3> QED
        BY <3>1, <3>2
    <2>5. e \in ToSet(new)
      BY <1>0, <1>4, Members
    <2> QED
      BY <2>1, <2>2, <2>3, <2>4, <2>5
  <1>6. ASSUME Distinct(seq), e \notin ToSet(seq) PROVE Distinct(new)
    <2>1. \A k \in 1 .. Len(seq) : seq[k] # e
      BY <1>6, Members
    <2>2. SUFFICES ASSUME NEW k \in 1 .. Len(seq) + 1, NEW m \in 1 .. Len(seq) + 1, k < m
                   PROVE  new[k] # new[m]
      BY <1>0, <1>4 DEF Distinct
    <2>3. m > i => m - 1 \in 1 .. Len(seq)
      BY <1>0
    <2>4. k > i => k - 1 \in 1 .. Len(seq)
      BY <1>0
    <2>5. k < i => k \in 1 .. Len(seq)
      BY <1>0
    <2>6. m < i => m \in 1 .. Len(seq)
      BY <1>0
    <2>7. /\ new[k] = IF k < i THEN seq[k] ELSE IF k = i THEN e ELSE seq[k - 1]
          /\ new[m] = IF m < i THEN seq[m] ELSE IF m = i THEN e ELSE seq[m - 1]
      BY <1>4
    <2>8. \A a, b \in 1 .. Len(seq) : a # b => seq[a] # seq[b]
      BY <1>6 DEF Distinct
    <2>9. CASE k < i /\ m > i
      <3>1. k # m - 1
        BY <1>0, <2>9
      <3> QED
        BY <1>0, <2>3, <2>5, <2>7, <2>8, <2>9, <3>1
    <2>10. CASE ~(k < i /\ m > i)
      BY <1>0, <2>1, <2>2, <2>3, <2>4, <2>5, <2>6, <2>7, <2>8, <2>10
    <2> QED
      BY <2>9, <2>10
  <1> QED
    BY <1>4, <1>5, <1>6 DEF new

\* Another element is put in front.
LEMMA PrependFacts ==
  ASSUME NEW S, NEW seq \in Seq(S), NEW e \in S, Distinct(seq), e \notin ToSet(seq)
  PROVE  /\ <<e>> \o seq \in Seq(S) /\ Distinct(<<e>> \o seq) /\ <<e>> \o seq # <<>>
         /\ ToSet(<<e>> \o seq) = ToSet(seq) \union {e}
  <1> DEFINE new == <<e>> \o seq
  <1>0. Len(seq) \in Nat
    BY LenProperties
  <1>1. /\ new \in Seq(S) /\ Len(new) = Len(seq) + 1
        /\ \A k \in 1 .. Len(seq) + 1 : new[k] = IF k = 1 THEN e ELSE seq[k - 1]
    <2>1. <<e>> \in Seq(S) /\ Len(<<e>>) = 1 /\ <<e>>[1] = e
      OBVIOUS
    <2>2. /\ new \in Seq(S) /\ Len(new) = Len(<<e>>) + Len(seq)
          /\ \A k \in 1 .. Len(<<e>>) + Len(seq) :
                new[k] = IF k <= Len(<<e>>) THEN <<e>>[k] ELSE seq[k - Len(<<e>>)]
      BY <2>1, ConcatProperties
    <2> HIDE DEF new
    <2> QED
      BY <1>0, <2>1, <2>2
  <1> HIDE DEF new
  <1>2. \A k \in 1 .. Len(seq) : seq[k] # e
    BY Members
  <1>3. Distinct(new)
    <2>0. SUFFICES ASSUME NEW k \in 1 .. Len(seq) + 1, NEW m \in 1 .. Len(seq) + 1, k < m
                   PROVE  new[k] # new[m]
      <3>1. \A k, m \in 1 .. Len(seq) + 1 : k < m \/ m < k \/ k = m
        BY ONLY <1>0
      <3> QED
        BY ONLY <1>1, <2>0, <3>1 DEF Distinct
    <2>1. m - 1 \in 1 .. Len(seq) /\ new[m] = seq[m - 1]
      BY <1>0, <1>1, <2>0
    <2>2. CASE k = 1
      BY <1>1, <1>2, <2>1, <2>2
    <2>3. CASE k # 1
      <3>1. k - 1 \in 1 .. Len(seq) /\ new[k] = seq[k - 1] /\ k - 1 # m - 1
        BY <1>0, <1>1, <2>0, <2>3
      <3> QED
        BY <2>1, <3>1 DEF Distinct
    <2> QED
      BY <2>2, <2>3
  <1>4. ASSUME NEW x PROVE x \in ToSet(new) <=> x \in ToSet(seq) \union {e}
    <2>1. x \in ToSet(new) <=> \E k \in 1 .. Len(seq) + 1 : new[k] = x
      BY <1>1, Members
    <2>2. x \in ToSet(seq) <=> \E k \in 1 .. Len(seq) : seq[k] = x
      BY Members
    <2>3. ASSUME NEW k \in 1 .. Len(seq) + 1, new[k] = x PROVE x \in ToSet(seq) \union {e}
      <3>1. k # 1 => k - 1 \in 1 .. Len(seq)
        BY <1>0
      <3> QED
        BY <1>1, <2>2, <2>3, <3>1
    <2>4. ASSUME NEW k \in 1 .. Len(seq), seq[k] = x PROVE x \in ToSet(new)
      <3>1. k + 1 \in 1 .. Len(seq) + 1 /\ k + 1 # 1 /\ (k + 1) - 1 = k
        BY <1>0
      <3>2. new[k + 1] = seq[k]
        BY <1>1, <3>1
      <3> QED
        BY <2>1, <2>4, <3>1, <3>2
    <2>5. 1 \in 1 .. Len(seq) + 1 /\ new[1] = e
      BY <1>0, <1>1
    <2> QED
      BY <2>1, <2>2, <2>3, <2>4, <2>5
  <1>5. new # <<>>
    <2>1. e \in ToSet(new)
      BY <1>4
    <2> QED
      BY <1>1, <2>1, Members
  <1> QED
    BY <1>1, <1>3, <1>4, <1>5 DEF new

\* Each element is found once.
LEMMA AtMostOne ==
  ASSUME NEW S, \A x, y \in S : x = y
  PROVE  Cardinality(S) = IF S = {} THEN 0 ELSE 1
  <1>1. CASE S = {}
    BY <1>1, FS_EmptySet
  <1>2. CASE S # {}
    <2>1. PICK x \in S : S = {x}
      BY <1>2
    <2> QED
      BY <1>2, <2>1, FS_Singleton
  <1> QED
    BY <1>1, <1>2

LEMMA OccurrenceFacts ==
  ASSUME NEW S, NEW seq \in Seq(S), Distinct(seq), NEW x
  PROVE  Cardinality({i \in DOMAIN seq : seq[i] = x}) = IF x \in ToSet(seq) THEN 1 ELSE 0
  <1> DEFINE A == {i \in DOMAIN seq : seq[i] = x}
  <1>1. DOMAIN seq = 1 .. Len(seq) /\ (x \in ToSet(seq) <=> \E i \in 1 .. Len(seq) : seq[i] = x)
    BY Members
  <1>2. \A i, j \in A : i = j
    BY <1>1 DEF Distinct
  <1>3. A = {} <=> x \notin ToSet(seq)
    BY <1>1
  <1> HIDE DEF A
  <1>4. Cardinality(A) = IF x \in ToSet(seq) THEN 1 ELSE 0
    BY <1>2, <1>3, AtMostOne
  <1> QED
    BY <1>4 DEF A
-----------------------------------------------------------------------------
(* Sequences that are sorted by the rewards that f gives their elements,   *)
(* the largest first.                                                      *)

Descending(f, seq) ==
    \A i, j \in 1 .. Len(seq) : i < j => f[seq[i]].reward >= f[seq[j]].reward

\* An element is inserted where its reward belongs; those of the others are kept.
LEMMA InsertDescending ==
  ASSUME NEW S, NEW seq \in Seq(S), NEW e \in S, NEW i \in 1 .. Len(seq) + 1, NEW f, NEW g,
         \A k \in 1 .. Len(seq) : g[seq[k]] = f[seq[k]] /\ f[seq[k]].reward \in Int,
         g[e].reward \in Int,
         \A k \in 1 .. Len(seq) : /\ k < i => f[seq[k]].reward >= g[e].reward
                                  /\ k >= i => f[seq[k]].reward <= g[e].reward,
         Descending(f, seq)
  PROVE  Descending(g, InsertAt(seq, i, e))
  <1> DEFINE n       == Len(seq)
             new     == InsertAt(seq, i, e)
             old(k)  == f[seq[k]].reward
             r       == g[e].reward
  <1>1. n \in Nat /\ i \in 1 .. n + 1 /\ r \in Int
    BY LenProperties
  <1>2. \A k \in 1 .. n : /\ old(k) \in Int /\ g[seq[k]].reward = old(k)
                          /\ k < i => old(k) >= r
                          /\ k >= i => old(k) <= r
    OBVIOUS
  <1>3. \A a, b \in 1 .. n : a < b => old(a) >= old(b)
    BY DEF Descending
  <1>4. /\ Len(new) = n + 1
        /\ \A k \in 1 .. n + 1 :
              new[k] = IF k < i THEN seq[k] ELSE IF k = i THEN e ELSE seq[k - 1]
    BY InsertFacts
  <1>5. SUFFICES ASSUME NEW k \in 1 .. n + 1, NEW m \in 1 .. n + 1, k < m
                 PROVE  g[new[k]].reward >= g[new[m]].reward
    BY ONLY <1>1, <1>4, <1>5 DEF Descending
  <1>6. \A j \in 1 .. n + 1 : /\ j < i => j \in 1 .. n
                              /\ j > i => j - 1 \in 1 .. n
    BY ONLY <1>1
  <1>7. \A j \in 1 .. n + 1 :
           g[new[j]].reward = IF j < i THEN old(j) ELSE IF j = i THEN r ELSE old(j - 1)
    <2> TAKE j \in 1 .. n + 1
    <2>1. new[j] = IF j < i THEN seq[j] ELSE IF j = i THEN e ELSE seq[j - 1]
      BY <1>4
    <2>2. CASE j < i
      BY <1>2, <1>6, <2>1, <2>2
    <2>3. CASE j = i
      BY <2>1, <2>3
    <2>4. CASE j > i
      <3>1. j - 1 \in 1 .. n /\ new[j] = seq[j - 1]
        BY ONLY <1>1, <1>6, <2>1, <2>4
      <3> QED
        BY <1>1, <1>2, <2>4, <3>1
    <2> QED
      BY ONLY <1>1, <2>2, <2>3, <2>4
  <1> HIDE DEF old, new, r, n
  <1>8. CASE m <= i
    BY ONLY <1>1, <1>2, <1>3, <1>5, <1>6, <1>7, <1>8
  <1>9. CASE k < i /\ m > i
    <2>1. old(k) >= r /\ old(m - 1) <= r
      BY ONLY <1>1, <1>2, <1>5, <1>6, <1>9
    <2> QED
      BY ONLY <1>1, <1>2, <1>5, <1>6, <1>7, <1>9, <2>1
  <1>10. CASE k >= i
    <2>1. m > i /\ old(m - 1) <= r /\ old(m - 1) \in Int
      BY ONLY <1>1, <1>2, <1>5, <1>6, <1>10
    <2>2. CASE k = i
      BY ONLY <1>1, <1>5, <1>7, <2>1, <2>2
    <2>3. CASE k > i
      <3>1. old(k - 1) >= old(m - 1)
        BY ONLY <1>1, <1>3, <1>5, <1>6, <2>1, <2>3
      <3> QED
        BY ONLY <1>1, <1>5, <1>7, <2>1, <2>3, <3>1
    <2> QED
      BY ONLY <1>1, <1>10, <2>2, <2>3
  <1> QED
    BY ONLY <1>1, <1>5, <1>8, <1>9, <1>10
-----------------------------------------------------------------------------
\* A non-empty finite set of integers has a greatest and a least element.
LEMMA Extremes ==
  ASSUME NEW S, IsFiniteSet(S), S \subseteq Int, S # {}
  PROVE  /\ Max(S) \in S /\ \A y \in S : Max(S) >= y
         /\ Min(S) \in S /\ \A y \in S : Min(S) <= y
  <1> DEFINE Bounded(T) == /\ \E x \in T : \A y \in T : x >= y
                           /\ \E x \in T : \A y \in T : x <= y
             Bad == {T \in SUBSET S : T # {} /\ ~Bounded(T)}
             sizes == {Cardinality(T) : T \in Bad}
  <1>1. \A T \in SUBSET S : IsFiniteSet(T) /\ Cardinality(T) \in Nat /\ T \subseteq Int
    BY FS_Subset, FS_CardinalityType
  <1>2. ASSUME Bad # {} PROVE FALSE
    <2> DEFINE Less == OpToRel(<, Nat)
    <2>1. sizes \subseteq Nat /\ sizes # {}
      BY <1>1, <1>2
    <2>2. \E n \in sizes : \A m \in sizes : <<m, n>> \notin Less
      <3> HIDE DEF sizes, Less
      <3>1. IsWellFoundedOn(Less, Nat)
        BY NatLessThanWellFounded DEF Less
      <3> QED
        BY <2>1, <3>1, WFMin
    <2>3. PICK T \in Bad : \A U \in Bad : ~(Cardinality(U) < Cardinality(T))
      BY <1>1, <2>1, <2>2 DEF OpToRel
    <2>4. PICK e \in T : TRUE
      OBVIOUS
    <2>5. /\ T \ {e} \in SUBSET S /\ e \in Int
          /\ Cardinality(T \ {e}) = Cardinality(T) - 1
          /\ Cardinality(T) \in Nat
      BY <1>1, <2>4, FS_RemoveElement
    <2>6. T \ {e} \notin Bad
      <3>1. Cardinality(T \ {e}) < Cardinality(T)
        BY <2>5
      <3> HIDE DEF Bad
      <3> QED
        BY <2>3, <3>1
    <2>7. CASE T \ {e} = {}
      <3>1. T = {e}
        BY <2>4, <2>7
      <3> QED
        BY <2>5, <3>1
    <2>8. CASE T \ {e} # {}
      <3>1. Bounded(T \ {e})
        BY <2>5, <2>6, <2>8
      <3>2. PICK hi \in T \ {e} : \A y \in T \ {e} : hi >= y
        BY <3>1
      <3>3. PICK lo \in T \ {e} : \A y \in T \ {e} : lo <= y
        BY <3>1
      <3>4. T \subseteq Int /\ hi \in Int /\ lo \in Int
        BY <1>1
      <3>5. \E x \in T : \A y \in T : x >= y
        BY <2>4, <2>5, <3>2, <3>4
      <3>6. \E x \in T : \A y \in T : x <= y
        BY <2>4, <2>5, <3>3, <3>4
      <3> QED
        BY <3>5, <3>6
    <2> QED
      BY <2>7, <2>8
  <1>3. Bounded(S)
    BY <1>2
  <1> QED
    BY <1>3 DEF Max, Min
-----------------------------------------------------------------------------
(* Induction and recursion over finite sets, as folds do them.             *)

LEMMA NatSetInduction ==
  ASSUME NEW Good, 0 \in Good, \A n \in Nat : n \in Good => n + 1 \in Good
  PROVE  Nat \subseteq Good
  <1> DEFINE Less == OpToRel(<, Nat)
             Bad == Nat \ Good
  <1>1. ASSUME Bad # {} PROVE FALSE
    <2>1. PICK n \in Bad : \A m \in Bad : <<m, n>> \notin Less
      <3>1. IsWellFoundedOn(Less, Nat)
        BY NatLessThanWellFounded DEF Less
      <3>2. Bad \subseteq Nat
        OBVIOUS
      <3> HIDE DEF Less, Bad
      <3> QED
        BY <1>1, <3>1, <3>2, WFMin
    <2>2. n \in Nat /\ n # 0 /\ n - 1 \in Nat /\ (n - 1) + 1 = n
      OBVIOUS
    <2>3. <<n - 1, n>> \in Less
      BY <2>2 DEF OpToRel
    <2>4. n - 1 \in Good
      BY <2>1, <2>2, <2>3
    <2> QED
      BY <2>2, <2>4
  <1> QED
    BY <1>1

\* A set of subsets that holds each subset whose smaller ones, by one element, it holds.
LEMMA SubsetInduction ==
  ASSUME NEW S, IsFiniteSet(S), NEW Good, {} \in Good,
         \A T \in SUBSET S : T # {} /\ (\A x \in T : T \ {x} \in Good) => T \in Good
  PROVE  SUBSET S \subseteq Good
  <1> DEFINE Sizes == {n \in Nat : \A T \in SUBSET S : Cardinality(T) = n => T \in Good}
  <1>1. \A T \in SUBSET S : IsFiniteSet(T) /\ Cardinality(T) \in Nat
    BY FS_Subset, FS_CardinalityType
  <1>2. 0 \in Sizes
    BY <1>1, FS_EmptySet
  <1>3. ASSUME NEW n \in Nat, n \in Sizes PROVE n + 1 \in Sizes
    <2>1. ASSUME NEW T \in SUBSET S, Cardinality(T) = n + 1 PROVE T \in Good
      <3>1. T # {}
        BY <2>1, FS_EmptySet
      <3>2. ASSUME NEW x \in T PROVE T \ {x} \in Good
        <4>1. Cardinality(T \ {x}) = n
          <5>1. Cardinality(T \ {x}) = Cardinality(T) - 1
            BY <1>1, FS_RemoveElement
          <5> QED
            BY <2>1, <5>1
        <4> QED
          BY <1>3, <4>1
      <3> QED
        BY <3>1, <3>2
    <2> QED
      BY <2>1
  <1>4. Nat \subseteq Sizes
    <2> HIDE DEF Sizes
    <2> QED
      BY <1>2, <1>3, NatSetInduction
  <1> QED
    BY <1>1, <1>4

\* A function that picks an element of each subset, and the one that takes elements in
\* the order that it picks them, as folds do.
Picks(c, S) == \A T \in SUBSET S : T # {} => c[T] \in T
Folds(it, S, c, b, G) == \A T \in SUBSET S : it[T] = IF T = {} THEN b ELSE G[c[T]][it[T \ {c[T]}]]

LEMMA FoldExists ==
  ASSUME NEW S, IsFiniteSet(S), NEW c, Picks(c, S),
         NEW A, NEW b \in A, NEW G, \A x \in S, y \in A : G[x][y] \in A
  PROVE  \E it \in [SUBSET S -> A] : Folds(it, S, c, b, G)
  <1> DEFINE FoldsTo(it, n) == \A s \in SUBSET S : Cardinality(s) <= n =>
                                  it[s] = IF s = {} THEN b ELSE G[c[s]][it[s \ {c[s]}]]
             Good == {n \in Nat : \E it \in [SUBSET S -> A] : FoldsTo(it, n)}
  <1>1. \A T \in SUBSET S : IsFiniteSet(T) /\ Cardinality(T) \in Nat
    BY FS_Subset, FS_CardinalityType
  <1>2. 0 \in Good
    <2> DEFINE it == [s \in SUBSET S |-> b]
    <2>1. it \in [SUBSET S -> A]
      OBVIOUS
    <2>2. \A s \in SUBSET S : Cardinality(s) <= 0 => s = {}
      BY <1>1, FS_EmptySet
    <2>3. FoldsTo(it, 0)
      BY <2>2
    <2> QED
      BY <2>1, <2>3
  <1>3. ASSUME NEW n \in Nat, n \in Good PROVE n + 1 \in Good
    <2>1. PICK old \in [SUBSET S -> A] : FoldsTo(old, n)
      BY <1>3
    <2> DEFINE it == [s \in SUBSET S |-> IF Cardinality(s) = n + 1 THEN G[c[s]][old[s \ {c[s]}]]
                                                                   ELSE old[s]]
    <2>2. \A s \in SUBSET S : s # {} => /\ c[s] \in s /\ c[s] \in S /\ s \ {c[s]} \in SUBSET S
                                        /\ Cardinality(s \ {c[s]}) = Cardinality(s) - 1
      BY <1>1, FS_RemoveElement DEF Picks
    <2>3. \A s \in SUBSET S : Cardinality(s) = n + 1 => s # {}
      BY FS_EmptySet
    <2>4. it \in [SUBSET S -> A]
      <3>1. ASSUME NEW s \in SUBSET S, Cardinality(s) = n + 1 PROVE G[c[s]][old[s \ {c[s]}]] \in A
        BY <2>2, <2>3, <3>1
      <3> QED
        BY <3>1
    <2>5. ASSUME NEW s \in SUBSET S, Cardinality(s) <= n + 1
          PROVE  it[s] = IF s = {} THEN b ELSE G[c[s]][it[s \ {c[s]}]]
      <3>1. CASE s = {}
        <4>1. Cardinality(s) = 0 /\ Cardinality(s) # n + 1 /\ Cardinality(s) <= n
          BY <3>1, FS_EmptySet
        <4>2. it[s] = old[s]
          BY <4>1
        <4>3. old[s] = b
          BY <2>1, <3>1, <4>1
        <4> QED
          <5> HIDE DEF it
          <5> QED
            BY <3>1, <4>2, <4>3
      <3>2. CASE s # {}
        <4>1. it[s \ {c[s]}] = old[s \ {c[s]}]
          <5>1. Cardinality(s \ {c[s]}) # n + 1
            BY <1>1, <2>2, <2>5, <3>2
          <5> QED
            BY <2>2, <3>2, <5>1
        <4>2. CASE Cardinality(s) = n + 1
          BY <3>2, <4>1, <4>2
        <4>3. CASE Cardinality(s) # n + 1
          <5>1. Cardinality(s) <= n
            BY <1>1, <2>5, <4>3
          <5>2. it[s] = old[s]
            BY <4>3
          <5> QED
            BY <2>1, <3>2, <4>1, <5>1, <5>2
        <4> QED
          BY <4>2, <4>3
      <3> QED
        BY <3>1, <3>2
    <2>6. FoldsTo(it, n + 1)
      <3> HIDE DEF it
      <3> QED
        BY <2>5
    <2> QED
      <3> HIDE DEF it, FoldsTo
      <3> QED
        BY <2>4, <2>6
  <1>4. Nat \subseteq Good
    <2> HIDE DEF Good
    <2> QED
      BY <1>2, <1>3, NatSetInduction
  <1>5. PICK it \in [SUBSET S -> A] : FoldsTo(it, Cardinality(S))
    BY <1>1, <1>4
  <1>6. \A s \in SUBSET S : Cardinality(s) <= Cardinality(S)
    BY FS_Subset
  <1> QED
    BY <1>5, <1>6 DEF Folds

\* What a fold computes stays in a set that no step leaves.
LEMMA FoldStays ==
  ASSUME NEW S, IsFiniteSet(S), NEW c, Picks(c, S), NEW A, NEW it, it[{}] \in A,
         \A T \in SUBSET S : T # {} /\ it[T \ {c[T]}] \in A => it[T] \in A
  PROVE  it[S] \in A /\ \A T \in SUBSET S : it[T] \in A
  <1> DEFINE Good == {T \in SUBSET S : it[T] \in A}
  <1>1. {} \in Good
    OBVIOUS
  <1>2. \A T \in SUBSET S : T # {} /\ (\A x \in T : T \ {x} \in Good) => T \in Good
    BY DEF Picks
  <1>3. SUBSET S \subseteq Good
    <2> HIDE DEF Good
    <2> QED
      BY <1>1, <1>2, SubsetInduction
  <1> QED
    BY <1>3

\* The pick of those that go through numbers, or a sequence, in order: the last comes first.
Latest(S) == [T \in SUBSET S |-> Max(T)]
LEMMA LatestPicks ==
  ASSUME NEW S, IsFiniteSet(S), S \subseteq Int
  PROVE  /\ Picks(Latest(S), S)
         /\ \A T \in SUBSET S : T # {} => /\ Latest(S)[T] = Max(T) /\ Max(T) \in T /\ Max(T) \in S
                                        /\ T \ {Max(T)} \in SUBSET S
  <1>1. ASSUME NEW T \in SUBSET S, T # {}
        PROVE  Max(T) \in T
    <2>1. IsFiniteSet(T) /\ T \subseteq Int
      BY FS_Subset
    <2> QED
      BY <1>1, <2>1, Extremes
  <1>2. \A T \in SUBSET S : Latest(S)[T] = Max(T)
    BY DEF Latest
  <1> HIDE DEF Latest
  <1> QED
    BY <1>1, <1>2 DEF Picks

\* Both for a fold that takes the greatest last.
IsLatestFold(it, S, A, b, G) ==
    /\ it \in [SUBSET S -> A] /\ it[{}] = b
    /\ \A T \in SUBSET S : T # {} => /\ Max(T) \in S /\ it[T \ {Max(T)}] \in A
                                     /\ it[T] = G[Max(T)][it[T \ {Max(T)}]]
LEMMA LatestExists ==
  ASSUME NEW S, IsFiniteSet(S), S \subseteq Int,
         NEW A, NEW b \in A, NEW G, \A x \in S, y \in A : G[x][y] \in A
  PROVE  \E it : IsLatestFold(it, S, A, b, G)
  <1>1. PICK it \in [SUBSET S -> A] : Folds(it, S, Latest(S), b, G)
    BY LatestPicks, FoldExists
  <1>2. it[{}] = b
    BY <1>1 DEF Folds
  <1>3. ASSUME NEW T \in SUBSET S, T # {}
        PROVE  Max(T) \in S /\ it[T \ {Max(T)}] \in A /\ it[T] = G[Max(T)][it[T \ {Max(T)}]]
    <2>1. Latest(S)[T] = Max(T) /\ Max(T) \in S /\ T \ {Max(T)} \in SUBSET S
      BY <1>3, LatestPicks
    <2> QED
      BY <1>1, <1>3, <2>1 DEF Folds
  <1> QED
    BY <1>1, <1>2, <1>3 DEF IsLatestFold

LEMMA LatestStays ==
  ASSUME NEW S, IsFiniteSet(S), S \subseteq Int, NEW A, NEW it, it[{}] \in A,
         \A T \in SUBSET S : T # {} /\ Max(T) \in T /\ it[T \ {Max(T)}] \in A => it[T] \in A
  PROVE  it[S] \in A /\ \A T \in SUBSET S : it[T] \in A
  <1>1. Picks(Latest(S), S)
    BY LatestPicks
  <1>2. ASSUME NEW T \in SUBSET S, T # {}, it[T \ {Latest(S)[T]}] \in A PROVE it[T] \in A
    <2>1. Latest(S)[T] = Max(T) /\ Max(T) \in T
      BY <1>2, LatestPicks
    <2> QED
      BY <1>2, <2>1
  <1> QED
    BY <1>1, <1>2, FoldStays

\* What holds of no position, and of the first ones if it holds of those before the last,
\* holds of all.
LEMMA LatestInduction ==
  ASSUME NEW S, IsFiniteSet(S), S \subseteq Int, NEW Good, {} \in Good,
         \A T \in SUBSET S : T # {} /\ Max(T) \in T /\ T \ {Max(T)} \in Good => T \in Good
  PROVE  SUBSET S \subseteq Good
  <1> DEFINE it == [T \in SUBSET S |-> T]
  <1>1. it[{}] \in Good
    OBVIOUS
  <1>2. \A T \in SUBSET S : T # {} /\ Max(T) \in T /\ it[T \ {Max(T)}] \in Good => it[T] \in Good
    OBVIOUS
  <1>3. \A T \in SUBSET S : it[T] = T
    OBVIOUS
  <1> HIDE DEF it
  <1>4. \A T \in SUBSET S : it[T] \in Good
    BY <1>1, <1>2, LatestStays
  <1> QED
    BY <1>3, <1>4

\* A sum of whole numbers is one.
LEMMA SumIsInt ==
  ASSUME NEW f, IsFiniteSet(DOMAIN f), \A x \in DOMAIN f : f[x] \in Int
  PROVE  SumFunction(f) \in Int
  <1> DEFINE S == DOMAIN f
             c == [T \in SUBSET S |-> CHOOSE x \in T : TRUE]
             G == [x \in S |-> [y \in Int |-> f[x] + y]]
             IsFold(it) == it = [T \in SUBSET S |-> IF T = {} THEN 0
                                    ELSE f[CHOOSE x \in T : TRUE] + it[T \ {CHOOSE x \in T : TRUE}]]
             fold == CHOOSE it : IsFold(it)
  <1>1. SumFunction(f) = fold[S]
    BY DEF SumFunction, SumFunctionOnSet, FoldFunctionOnSet, MapThenFoldSet
  <1>2. Picks(c, S) /\ \A T \in SUBSET S : c[T] = CHOOSE x \in T : TRUE
    BY DEF Picks
  <1>3. \A x \in S, y \in Int : G[x][y] = f[x] + y /\ G[x][y] \in Int
    OBVIOUS
  <1>0. IsFiniteSet(S)
    OBVIOUS
  <1> HIDE DEF S, c, G
  <1>4. PICK it \in [SUBSET S -> Int] : Folds(it, S, c, 0, G)
    <2>1. 0 \in Int /\ Picks(c, S) /\ \A x \in S, y \in Int : G[x][y] \in Int
      BY <1>2, <1>3
    <2> QED
      BY <1>0, <2>1, FoldExists
  <1>5. \A T \in SUBSET S : T # {} => c[T] \in S /\ it[T \ {c[T]}] \in Int
    BY <1>2, <1>4 DEF Picks
  <1>6. \A T \in SUBSET S : it[T] = IF T = {} THEN 0
                                    ELSE f[CHOOSE x \in T : TRUE] + it[T \ {CHOOSE x \in T : TRUE}]
    <2> SUFFICES ASSUME NEW T \in SUBSET S, T # {}
                 PROVE  it[T] = f[CHOOSE x \in T : TRUE] + it[T \ {CHOOSE x \in T : TRUE}]
      BY <1>4 DEF Folds
    <2>1. it[T] = G[c[T]][it[T \ {c[T]}]]
      BY <1>4 DEF Folds
    <2>2. it[T] = f[c[T]] + it[T \ {c[T]}]
      BY <1>3, <1>5, <2>1
    <2> QED
      BY <1>2, <2>2
  <1>7. \E jt : IsFold(jt)
    BY <1>4, <1>6
  <1>8. /\ fold[{}] = 0
        /\ \A T \in SUBSET S : T # {} => fold[T] = f[CHOOSE x \in T : TRUE] + fold[T \ {CHOOSE x \in T : TRUE}]
    <2>1. IsFold(fold)
      BY <1>7
    <2> HIDE DEF fold
    <2> QED
      BY <2>1
  <1>9. fold[S] \in Int
    <2> HIDE DEF fold
    <2>1. ASSUME NEW T \in SUBSET S, T # {}, fold[T \ {c[T]}] \in Int PROVE fold[T] \in Int
      BY <1>2, <1>8, <2>1 DEF S, Picks
    <2> QED
      BY <1>0, <1>2, <1>8, <2>1, FoldStays
  <1> QED
    BY <1>1, <1>9

\* A function on numbers, and one on sequences, that is defined from its value before.
StepsWithin(G, S, A) == \A n \in S, y \in A : G[n][y] \in A
IsRecursion(f, b, G) == f[0] = b /\ \A n \in Nat : f[n + 1] = G[n][f[n]]
LEMMA NatRecursion ==
  ASSUME NEW A, NEW b \in A, NEW G, StepsWithin(G, Nat, A)
  PROVE  \E f \in [Nat -> A] : IsRecursion(f, b, G)
  <1> USE DEF StepsWithin, IsRecursion
  <1> DEFINE UpTo(f, n) == f[0] = b /\ \A m \in Nat : m < n => f[m + 1] = G[m][f[m]]
             Good == {n \in Nat : \E f \in [Nat -> A] : UpTo(f, n)}
             F(n) == CHOOSE f \in [Nat -> A] : UpTo(f, n)
             h == [n \in Nat |-> F(n)[n]]
  <1>1. 0 \in Good
    <2> DEFINE f == [n \in Nat |-> b]
    <2>1. f \in [Nat -> A] /\ UpTo(f, 0)
      OBVIOUS
    <2> QED
      BY <2>1
  <1>2. ASSUME NEW n \in Nat, n \in Good PROVE n + 1 \in Good
    <2>1. PICK old \in [Nat -> A] : UpTo(old, n)
      BY <1>2
    <2> DEFINE f == [m \in Nat |-> IF m = n + 1 THEN G[n][old[n]] ELSE old[m]]
    <2>2. f \in [Nat -> A]
      BY <2>1
    <2>3. UpTo(f, n + 1)
      <3>1. f[0] = b
        BY <2>1
      <3>2. ASSUME NEW m \in Nat, m < n + 1 PROVE f[m + 1] = G[m][f[m]]
        <4>1. f[m] = old[m]
          BY <3>2
        <4>2. CASE m = n
          BY <4>1, <4>2
        <4>3. CASE m # n
          BY <2>1, <3>2, <4>1, <4>3
        <4> QED
          BY <4>2, <4>3
      <3> HIDE DEF f
      <3> QED
        BY <3>1, <3>2
    <2> HIDE DEF f, UpTo
    <2> QED
      BY <2>2, <2>3
  <1>3. Nat \subseteq Good
    <2> HIDE DEF Good
    <2> QED
      BY <1>1, <1>2, NatSetInduction
  <1>4. \A n \in Nat : F(n) \in [Nat -> A] /\ UpTo(F(n), n)
    <2> HIDE DEF UpTo
    <2> QED
      BY <1>3
  <1> HIDE DEF F
  <1>5. ASSUME NEW n \in Nat PROVE F(n + 1)[n] = F(n)[n]
    <2> DEFINE f == F(n)
               g == F(n + 1)
               Same == {m \in Nat : m <= n => g[m] = f[m]}
    <2>1. /\ f[0] = b /\ \A m \in Nat : m < n => f[m + 1] = G[m][f[m]]
          /\ g[0] = b /\ \A m \in Nat : m < n => g[m + 1] = G[m][g[m]]
      BY <1>4
    <2> HIDE DEF f, g
    <2>2. 0 \in Same
      BY <2>1
    <2>3. ASSUME NEW m \in Nat, m \in Same PROVE m + 1 \in Same
      BY <2>1, <2>3
    <2>4. Nat \subseteq Same
      <3> HIDE DEF Same
      <3> QED
        BY <2>2, <2>3, NatSetInduction
    <2>5. g[n] = f[n]
      BY <2>4
    <2> QED
      BY <2>5 DEF f, g
  <1>6. h \in [Nat -> A] /\ h[0] = b
    BY <1>4
  <1>7. ASSUME NEW n \in Nat PROVE h[n + 1] = G[n][h[n]]
    <2>1. h[n + 1] = F(n + 1)[n + 1] /\ h[n] = F(n)[n]
      OBVIOUS
    <2>2. F(n + 1)[n + 1] = G[n][F(n + 1)[n]]
      BY <1>4
    <2> QED
      BY <1>5, <2>1, <2>2
  <1> HIDE DEF h
  <1> QED
    BY <1>6, <1>7

LEMMA FrontLast ==
  ASSUME NEW I, NEW p \in Seq(I), p # <<>>
  PROVE  /\ Front(p) \in Seq(I) /\ Last(p) \in I
         /\ Len(Front(p)) = Len(p) - 1 /\ Len(p) \in Nat \ {0}
         /\ p = Append(Front(p), Last(p))
         /\ \A k \in 1 .. Len(p) - 1 : Front(p)[k] = p[k]
  <1>1. Len(p) \in Nat \ {0}
    BY LenProperties, EmptySeq
  <1>2. Front(p) = SubSeq(p, 1, Len(p) - 1) /\ Last(p) = p[Len(p)]
    BY DEF Front, Last
  <1>3. /\ SubSeq(p, 1, Len(p) - 1) \in Seq(I) /\ Len(SubSeq(p, 1, Len(p) - 1)) = Len(p) - 1
        /\ \A k \in 1 .. Len(p) - 1 : SubSeq(p, 1, Len(p) - 1)[k] = p[k]
    <2> DEFINE m == 1
               n == Len(p) - 1
    <2>1. m \in Int /\ n \in Int /\ n \in Nat /\ m = 1 /\ n = Len(p) - 1
      BY <1>1
    <2> HIDE DEF m, n
    <2>2. \A i \in m .. n : p[i] \in I
      BY <1>1, <2>1, ElementOfSeq
    <2>3. /\ SubSeq(p, m, n) \in Seq(I)
          /\ Len(SubSeq(p, m, n)) = IF m <= n THEN n - m + 1 ELSE 0
          /\ \A i \in 1 .. n - m + 1 : SubSeq(p, m, n)[i] = p[m + i - 1]
      BY <2>1, <2>2, SubSeqProperties
    <2>4. Len(SubSeq(p, m, n)) = n
      BY <2>1, <2>3
    <2>5. ASSUME NEW k \in 1 .. n PROVE SubSeq(p, m, n)[k] = p[k]
      BY <2>1, <2>3
    <2> QED
      BY <2>3, <2>4, <2>5 DEF m, n
  <1>4. p[Len(p)] \in I
    BY <1>1, ElementOfSeq
  <1>5. p = Append(Front(p), Last(p))
    <2> DEFINE front == SubSeq(p, 1, Len(p) - 1)
               last == p[Len(p)]
    <2>1. front \in Seq(I) /\ last \in I
      BY <1>3, <1>4
    <2>2. /\ Append(front, last) \in Seq(I) /\ Len(Append(front, last)) = Len(front) + 1
          /\ \A k \in 1 .. Len(front) : Append(front, last)[k] = front[k]
          /\ Append(front, last)[Len(front) + 1] = last
      BY <2>1, AppendProperties
    <2>3. Len(Append(front, last)) = Len(p) /\ \A k \in 1 .. Len(p) : Append(front, last)[k] = p[k]
      BY <1>1, <1>3, <2>2
    <2> HIDE DEF front, last
    <2>4. p = Append(front, last)
      BY <2>2, <2>3, SeqEqual
    <2> QED
      BY <1>2, <2>4 DEF front, last
  <1> QED
    BY <1>1, <1>2, <1>3, <1>4, <1>5

IsSeqRecursion(f, I, b, G) ==
  \A p \in Seq(I) : f[p] = IF p = <<>> THEN b ELSE G[p][f[Front(p)]]
LEMMA SeqRecursion ==
  ASSUME NEW I, NEW A, NEW b \in A, NEW G, StepsWithin(G, Seq(I), A)
  PROVE  \E f \in [Seq(I) -> A] : IsSeqRecursion(f, I, b, G)
  <1> DEFINE B == [Seq(I) -> A]
             first == [p \in Seq(I) |-> b]
             Next1(n, f) == [p \in Seq(I) |-> IF Len(p) = n + 1 THEN G[p][f[Front(p)]] ELSE f[p]]
             H == [n \in Nat |-> [f \in B |-> Next1(n, f)]]
  <1>1. first \in B
    OBVIOUS
  <1>2. ASSUME NEW n \in Nat, NEW f \in B
        PROVE  Next1(n, f) \in B
    <2>1. \A p \in Seq(I) : Len(p) = n + 1 => p # <<>>
      BY EmptySeq
    <2>2. \A p \in Seq(I) : Len(p) = n + 1 => Last(p) \in I /\ Front(p) \in Seq(I)
      BY <2>1, FrontLast
    <2> QED
      BY <2>2 DEF StepsWithin
  <1>3. \A n \in Nat, f \in B : H[n][f] = Next1(n, f) /\ H[n][f] \in B
    BY <1>2
  <1> HIDE DEF H, B, first
  <1>4. PICK F \in [Nat -> B] : F[0] = first /\ \A n \in Nat : F[n + 1] = H[n][F[n]]
    <2>1. StepsWithin(H, Nat, B)
      BY <1>3 DEF StepsWithin
    <2>2. \E F \in [Nat -> B] : IsRecursion(F, first, H)
      BY <1>1, <2>1, NatRecursion
    <2> QED
      BY <2>2 DEF IsRecursion
  <1> DEFINE h == [p \in Seq(I) |-> F[Len(p)][p]]
  <1>5. ASSUME NEW p \in Seq(I)
        PROVE  h[p] \in A /\ h[p] = IF p = <<>> THEN b ELSE G[p][h[Front(p)]]
    <2>1. h[p] = F[Len(p)][p] /\ Len(p) \in Nat
      BY LenProperties
    <2>2. F[Len(p)] \in B
      BY <1>4, <2>1
    <2>3. h[p] \in A
      BY <2>1, <2>2 DEF B
    <2>4. CASE p = <<>>
      <3>1. Len(p) = 0
        BY <2>4
      <3>2. h[p] = first[p]
        BY <1>4, <2>1, <3>1
      <3> QED
        BY <2>3, <2>4, <3>2 DEF first
    <2>5. CASE p # <<>>
      <3>1. Front(p) \in Seq(I) /\ Len(Front(p)) = Len(p) - 1 /\ Len(p) \in Nat \ {0} /\ Len(p) - 1 \in Nat
        BY <2>5, FrontLast
      <3> DEFINE n == Len(p) - 1
      <3>2. n \in Nat /\ Len(p) = n + 1 /\ F[n] \in B
        BY <1>4, <3>1
      <3>3. F[n + 1] = Next1(n, F[n])
        BY <1>3, <1>4, <3>2
      <3>4. Next1(n, F[n])[p] = G[p][F[n][Front(p)]]
        BY <3>2
      <3>5. F[n][Front(p)] = h[Front(p)]
        BY <3>1
      <3> HIDE DEF n, Next1, h
      <3> QED
        BY <2>1, <2>3, <2>5, <3>2, <3>3, <3>4, <3>5
    <2> QED
      BY <2>4, <2>5
  <1>6. h \in [Seq(I) -> A]
    BY <1>5
  <1> HIDE DEF h
  <1> QED
    BY <1>5, <1>6 DEF IsSeqRecursion

LEMMA FrontOfAppend ==
  ASSUME NEW I, NEW p \in Seq(I), NEW x \in I
  PROVE  /\ Append(p, x) \in Seq(I) /\ Append(p, x) # <<>>
         /\ Front(Append(p, x)) = p /\ Last(Append(p, x)) = x
  <1> DEFINE q == Append(p, x)
  <1>1. q \in Seq(I) /\ q # <<>>
    BY AppendProperties
  <1> HIDE DEF q
  <1>2. Front(q) \in Seq(I) /\ Last(q) \in I /\ q = Append(Front(q), Last(q))
    BY <1>1, FrontLast
  <1>3. Append(p, x) = Append(Front(q), Last(q))
    BY <1>2 DEF q
  <1>4. p = Front(q) /\ x = Last(q)
    BY <1>2, <1>3, AppendInjective
  <1> QED
    BY <1>1, <1>4 DEF q

LEMMA PrefixFacts ==
  ASSUME NEW I, NEW p \in Seq(I), NEW k \in 0 .. Len(p)
  PROVE  /\ SubSeq(p, 1, k) \in Seq(I) /\ Len(SubSeq(p, 1, k)) = k
         /\ k = 0 => SubSeq(p, 1, k) = <<>>
         /\ \A j \in 1 .. k : SubSeq(p, 1, k)[j] = p[j]
         /\ k < Len(p) => p[k + 1] \in I /\ SubSeq(p, 1, k + 1) = Append(SubSeq(p, 1, k), p[k + 1])
  <1>1. Len(p) \in Nat /\ k \in Nat /\ k <= Len(p)
    BY LenProperties
  <1>2. ASSUME NEW n \in 0 .. Len(p)
        PROVE  SubSeq(p, 1, n) \in Seq(I) /\ Len(SubSeq(p, 1, n)) = n /\ \A j \in 1 .. n : SubSeq(p, 1, n)[j] = p[j]
    <2> DEFINE m == 1
    <2>1. m \in Int /\ n \in Int /\ m = 1 /\ n \in Nat
      BY <1>1
    <2> HIDE DEF m
    <2>2. \A i \in m .. n : p[i] \in I
      BY <1>1, <2>1, ElementOfSeq
    <2>3. /\ SubSeq(p, m, n) \in Seq(I)
          /\ Len(SubSeq(p, m, n)) = IF m <= n THEN n - m + 1 ELSE 0
          /\ \A i \in 1 .. n - m + 1 : SubSeq(p, m, n)[i] = p[m + i - 1]
      BY <2>1, <2>2, SubSeqProperties
    <2>4. Len(SubSeq(p, m, n)) = n
      BY <2>1, <2>3
    <2>5. ASSUME NEW j \in 1 .. n PROVE SubSeq(p, m, n)[j] = p[j]
      BY <2>1, <2>3
    <2> QED
      BY <2>3, <2>4, <2>5 DEF m
  <1>3. k = 0 => SubSeq(p, 1, k) = <<>>
    BY <1>2, EmptySeq
  <1>4. ASSUME k < Len(p)
        PROVE  p[k + 1] \in I /\ SubSeq(p, 1, k + 1) = Append(SubSeq(p, 1, k), p[k + 1])
    <2> DEFINE a == SubSeq(p, 1, k)
               b == SubSeq(p, 1, k + 1)
               x == p[k + 1]
    <2>1. k + 1 \in 0 .. Len(p) /\ k + 1 \in 1 .. Len(p)
      BY <1>1, <1>4
    <2>2. x \in I
      BY <2>1, ElementOfSeq
    <2>3. a \in Seq(I) /\ Len(a) = k /\ \A j \in 1 .. k : a[j] = p[j]
      BY <1>2
    <2>4. b \in Seq(I) /\ Len(b) = k + 1 /\ \A j \in 1 .. k + 1 : b[j] = p[j]
      BY <1>2, <2>1
    <2> HIDE DEF a, b
    <2>5. /\ Append(a, x) \in Seq(I) /\ Len(Append(a, x)) = k + 1
          /\ \A j \in 1 .. k : Append(a, x)[j] = a[j]
          /\ Append(a, x)[k + 1] = x
      BY <2>2, <2>3, AppendProperties
    <2>6. \A j \in 1 .. k + 1 : Append(a, x)[j] = b[j]
      BY <1>1, <2>3, <2>4, <2>5
    <2>7. b = Append(a, x)
      BY <2>4, <2>5, <2>6, SeqEqual
    <2> QED
      BY <2>2, <2>7 DEF a, b
  <1> QED
    BY <1>2, <1>3, <1>4
=============================================================================
