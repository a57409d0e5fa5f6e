------------------------------ MODULE QueueProofs ------------------------------
(***************************************************************************)
(* Lemmas about queues: sequences that Trio's code keeps as lists, deques, *)
(* OrderedDicts and dicts.  ToSet (SequencesExt) is what a queue holds and *)
(* IsInjective (Functions) says that it holds nothing twice.               *)
(***************************************************************************)
EXTENDS Integers, Sequences, SequencesExt, SequenceTheorems,
        FiniteSetTheorems, WellFoundedInduction, TLAPS

\* A new queue.
LEMMA EmptyQueue ==
    /\ ToSet(<<>>) = {}
    /\ IsInjective(<<>>)
    BY DEF ToSet, IsInjective

\* The empty queue is the one of length 0.
LEMMA EmptyLen ==
    ASSUME NEW S, NEW q \in Seq(S)
    PROVE  q = <<>> <=> Len(q) = 0
    BY EmptySeq

\* append(): the queue also holds the new element, and it is the last one.
LEMMA AppendQueue ==
    ASSUME NEW S, NEW q \in Seq(S), NEW e \in S
    PROVE  /\ Append(q, e) \in Seq(S)
           /\ Append(q, e) # <<>>
           /\ Len(Append(q, e)) = Len(q) + 1
           /\ \A i \in 1 .. Len(q) : Append(q, e)[i] = q[i]
           /\ Append(q, e)[Len(q) + 1] = e
           /\ ToSet(Append(q, e)) = ToSet(q) \cup {e}
<1>1. Append(q, e) \in Seq(S) /\ Len(Append(q, e)) = Len(q) + 1 /\ DOMAIN Append(q, e) = 1 .. Len(q) + 1
    OBVIOUS
<1>2. DOMAIN q = 1 .. Len(q) /\ Len(q) \in Nat
    OBVIOUS
<1>3. \A i \in 1 .. Len(q) : Append(q, e)[i] = q[i]
    OBVIOUS
<1>4. Append(q, e)[Len(q) + 1] = e
    OBVIOUS
<1>5. ToSet(Append(q, e)) = ToSet(q) \cup {e}
    BY <1>1, <1>2, <1>3, <1>4 DEF ToSet
<1> QED
    BY <1>1, <1>3, <1>4, <1>5

\* append() of what the queue does not hold leaves it without duplicates.
LEMMA AppendDistinct ==
    ASSUME NEW S, NEW q \in Seq(S), NEW e \in S, IsInjective(q), e \notin ToSet(q)
    PROVE  IsInjective(Append(q, e))
<1>1. DOMAIN Append(q, e) = 1 .. Len(q) + 1 /\ DOMAIN q = 1 .. Len(q)
    OBVIOUS
<1>2. \A i \in 1 .. Len(q) : Append(q, e)[i] = q[i] /\ q[i] # e
    BY <1>1 DEF ToSet
<1> QED
    BY <1>1, <1>2 DEF IsInjective

\* popleft(): the first element is gone, the others move up.
LEMMA TailQueue ==
    ASSUME NEW S, NEW q \in Seq(S), q # <<>>
    PROVE  /\ Head(q) \in S /\ Head(q) = q[1] /\ Head(q) \in ToSet(q)
           /\ Len(q) \in Nat \ {0} /\ 1 \in DOMAIN q
           /\ Tail(q) \in Seq(S) /\ Len(Tail(q)) = Len(q) - 1
           /\ \A i \in 1 .. Len(q) - 1 : Tail(q)[i] = q[i + 1]
           /\ ToSet(q) = ToSet(Tail(q)) \cup {Head(q)}
<1>1. Tail(q) \in Seq(S) /\ Len(Tail(q)) = Len(q) - 1 /\ Len(q) \in Nat \ {0}
    OBVIOUS
<1>2. DOMAIN q = 1 .. Len(q) /\ DOMAIN Tail(q) = 1 .. Len(q) - 1
    BY <1>1
<1>3. \A i \in 1 .. Len(q) - 1 : Tail(q)[i] = q[i + 1]
    BY <1>1
<1>4. Head(q) = q[1] /\ Head(q) \in S /\ 1 \in DOMAIN q
    BY <1>1, <1>2
<1>5. ToSet(q) = ToSet(Tail(q)) \cup {Head(q)}
    <2>1. ASSUME NEW x \in ToSet(q), x # Head(q)
          PROVE  x \in ToSet(Tail(q))
        <3>1. PICK i \in 1 .. Len(q) : x = q[i]
            BY <1>2 DEF ToSet
        <3>2. i # 1 /\ i - 1 \in 1 .. Len(q) - 1
            BY <1>4, <2>1, <3>1
        <3>3. Tail(q)[i - 1] = q[i]
            BY <1>1, <1>3, <3>1, <3>2
        <3> QED
            BY <1>2, <3>1, <3>2, <3>3 DEF ToSet
    <2>2. ASSUME NEW x \in ToSet(Tail(q))
          PROVE  x \in ToSet(q)
        BY <1>1, <1>2, <1>3 DEF ToSet
    <2>3. Head(q) \in ToSet(q)
        BY <1>4 DEF ToSet
    <2> QED
        BY <2>1, <2>2, <2>3
<1>6. Head(q) \in ToSet(q)
    BY <1>4 DEF ToSet
<1> QED
    BY <1>1, <1>3, <1>4, <1>5, <1>6

\* popleft() from a queue without duplicates: the element is not in the rest.
LEMMA TailDistinct ==
    ASSUME NEW S, NEW q \in Seq(S), q # <<>>, IsInjective(q)
    PROVE  /\ IsInjective(Tail(q))
           /\ ToSet(Tail(q)) = ToSet(q) \ {Head(q)}
<1>1. Tail(q) \in Seq(S) /\ Len(Tail(q)) = Len(q) - 1 /\ Len(q) \in Nat \ {0}
    OBVIOUS
<1>2. DOMAIN q = 1 .. Len(q) /\ DOMAIN Tail(q) = 1 .. Len(q) - 1
    BY <1>1
<1>3. \A i \in 1 .. Len(q) - 1 : Tail(q)[i] = q[i + 1]
    BY <1>1
<1>4. IsInjective(Tail(q))
    BY <1>1, <1>2, <1>3 DEF IsInjective
<1>5. Head(q) \notin ToSet(Tail(q))
    <2> SUFFICES ASSUME NEW i \in 1 .. Len(q) - 1, q[i + 1] = q[1]
                 PROVE  FALSE
        BY <1>1, <1>2, <1>3 DEF ToSet
    <2> QED
        BY <1>1, <1>2 DEF IsInjective
<1> QED
    BY <1>4, <1>5, TailQueue

\* popleft() of anything but the last element leaves the last one in place.
LEMMA LastOfTail ==
    ASSUME NEW S, NEW q \in Seq(S), q # <<>>, Head(q) # Last(q)
    PROVE  Tail(q) # <<>> /\ Last(Tail(q)) = Last(q)
<1>1. Len(q) \in Nat \ {0, 1} /\ Len(Tail(q)) = Len(q) - 1
    BY DEF Last
<1>2. Tail(q)[Len(q) - 1] = q[Len(q)]
    BY <1>1, TailQueue
<1>3. Tail(q) \in Seq(S) /\ Len(Tail(q)) # 0
    BY <1>1
<1>4. Tail(q) # <<>>
    BY ONLY <1>3, EmptyLen
<1> QED
    BY <1>1, <1>2, <1>4 DEF Last

\* Where nothing is queued twice, only a queue of one has its first element last.
LEMMA HeadIsLast ==
    ASSUME NEW S, NEW q \in Seq(S), q # <<>>, IsInjective(q), Head(q) = Last(q)
    PROVE  Len(q) = 1 /\ q = <<Head(q)>> /\ Tail(q) = <<>>
<1>1. Len(q) \in Nat \ {0} /\ DOMAIN q = 1 .. Len(q)
    OBVIOUS
<1>2. Len(q) = 1
    BY <1>1 DEF IsInjective, Last
<1>3. q = <<Head(q)>>
    BY <1>1, <1>2
<1>4. Tail(q) \in Seq(S) /\ Len(Tail(q)) = 0
    BY <1>2
<1>5. Tail(q) = <<>>
    BY ONLY <1>4, EmptyLen
<1> QED
    BY <1>2, <1>3, <1>5

\* del q[i]: the element is gone, the others close the gap.
LEMMA RemoveAtQueue ==
    ASSUME NEW S, NEW q \in Seq(S), NEW i \in 1 .. Len(q)
    PROVE  /\ RemoveAt(q, i) \in Seq(S)
           /\ Len(RemoveAt(q, i)) = Len(q) - 1
           /\ \A j \in 1 .. Len(q) - 1 : RemoveAt(q, i)[j] = q[IF j < i THEN j ELSE j + 1]
<1> DEFINE l == SubSeq(q, 1, i - 1)
           r == SubSeq(q, i + 1, Len(q))
<1>1. Len(q) \in Nat /\ i \in 1 .. Len(q) /\ i \in Int
    OBVIOUS
<1>2. l \in Seq(S) /\ Len(l) = i - 1 /\ \A j \in 1 .. i - 1 : l[j] = q[j]
    BY <1>1, SubSeqProperties
<1>3. r \in Seq(S) /\ Len(r) = Len(q) - i /\ \A j \in 1 .. Len(q) - i : r[j] = q[i + j]
    <2>1. CASE i = Len(q)
        BY <1>1, <2>1
    <2>2. CASE i < Len(q)
        BY <1>1, <2>2, SubSeqProperties
    <2> QED
        BY <1>1, <2>1, <2>2
<1> HIDE DEF l, r
<1>4. /\ l \o r \in Seq(S) /\ Len(l \o r) = Len(q) - 1
      /\ \A j \in 1 .. Len(q) - 1 : (l \o r)[j] = IF j <= i - 1 THEN l[j] ELSE r[j - (i - 1)]
    <2>1. l \in Seq(S) /\ r \in Seq(S) /\ Len(l) = i - 1 /\ Len(l) + Len(r) = Len(q) - 1
        BY <1>1, <1>2, <1>3
    <2>2. /\ l \o r \in Seq(S) /\ Len(l \o r) = Len(l) + Len(r)
          /\ \A j \in 1 .. Len(l) + Len(r) : (l \o r)[j] = IF j <= Len(l) THEN l[j] ELSE r[j - Len(l)]
        BY ONLY <2>1, ConcatProperties
    <2> QED
        BY <2>1, <2>2
<1>5. ASSUME NEW j \in 1 .. Len(q) - 1
      PROVE  (l \o r)[j] = q[IF j < i THEN j ELSE j + 1]
    <2>1. CASE j < i
        BY <1>1, <1>2, <1>4, <2>1
    <2>2. CASE ~(j < i)
        <3>1. (l \o r)[j] = r[j - (i - 1)] /\ j - (i - 1) \in 1 .. Len(q) - i
            BY <1>1, <1>4, <2>2
        <3>2. r[j - (i - 1)] = q[i + (j - (i - 1))] /\ i + (j - (i - 1)) = j + 1
            BY <1>1, <1>3, <3>1
        <3> QED
            BY <2>2, <3>1, <3>2
    <2> QED
        BY <2>1, <2>2
<1> QED
    BY <1>4, <1>5 DEF l, r, RemoveAt

\* remove() from a queue without duplicates: it holds all but that element.
LEMMA RemoveAtDistinct ==
    ASSUME NEW S, NEW q \in Seq(S), NEW i \in 1 .. Len(q), IsInjective(q)
    PROVE  /\ IsInjective(RemoveAt(q, i))
           /\ ToSet(RemoveAt(q, i)) = ToSet(q) \ {q[i]}
<1> DEFINE p == RemoveAt(q, i)
<1>1. /\ p \in Seq(S) /\ DOMAIN p = 1 .. Len(q) - 1 /\ DOMAIN q = 1 .. Len(q) /\ Len(q) \in Nat
      /\ \A j \in 1 .. Len(q) - 1 : p[j] = q[IF j < i THEN j ELSE j + 1]
    BY RemoveAtQueue
<1> HIDE DEF p
<1>2. IsInjective(p)
    <2> SUFFICES ASSUME NEW j \in 1 .. Len(q) - 1, NEW k \in 1 .. Len(q) - 1, p[j] = p[k]
                 PROVE  j = k
        BY <1>1 DEF IsInjective
    <2>1. q[IF j < i THEN j ELSE j + 1] = q[IF k < i THEN k ELSE k + 1]
        BY <1>1
    <2>2. (IF j < i THEN j ELSE j + 1) \in DOMAIN q /\ (IF k < i THEN k ELSE k + 1) \in DOMAIN q
        BY <1>1
    <2>3. (IF j < i THEN j ELSE j + 1) = (IF k < i THEN k ELSE k + 1)
        BY <2>1, <2>2 DEF IsInjective
    <2> QED
        BY <2>3
<1>3. ASSUME NEW x \in ToSet(p)
      PROVE  x \in ToSet(q) /\ x # q[i]
    <2>1. PICK j \in 1 .. Len(q) - 1 : x = p[j]
        BY <1>1 DEF ToSet
    <2>2. x = q[IF j < i THEN j ELSE j + 1] /\ (IF j < i THEN j ELSE j + 1) \in DOMAIN q
        BY <1>1, <2>1
    <2>3. (IF j < i THEN j ELSE j + 1) # i /\ i \in DOMAIN q
        BY <1>1
    <2> QED
        BY <2>2, <2>3 DEF ToSet, IsInjective
<1>4. ASSUME NEW x \in ToSet(q), x # q[i]
      PROVE  x \in ToSet(p)
    <2>1. PICK k \in 1 .. Len(q) : x = q[k]
        BY <1>1 DEF ToSet
    <2>2. CASE k < i
        <3>1. k \in 1 .. Len(q) - 1 /\ p[k] = q[k]
            BY <1>1, <2>2
        <3> QED
            BY <1>1, <2>1, <3>1 DEF ToSet
    <2>3. CASE k > i
        <3>1. k - 1 \in 1 .. Len(q) - 1 /\ ~(k - 1 < i) /\ (k - 1) + 1 = k
            BY <1>1, <2>3
        <3>2. p[k - 1] = q[k]
            BY <1>1, <3>1
        <3> QED
            BY <1>1, <2>1, <3>1, <3>2 DEF ToSet
    <2> QED
        BY <1>4, <2>1, <2>2, <2>3
<1>5. ToSet(p) = ToSet(q) \ {q[i]}
    BY <1>3, <1>4
<1> QED
    BY <1>2, <1>5 DEF p

(***************************************************************************)
(* Every non-empty set of natural numbers has a least element, so Min is   *)
(* what its name says.                                                     *)
(***************************************************************************)
LEMMA MinIsLeast ==
    ASSUME NEW S \in SUBSET Nat, S # {}
    PROVE  Min(S) \in S /\ \A x \in S : Min(S) <= x
<1> DEFINE R == OpToRel(<, Nat)
<1>1. R = {ss \in Nat \X Nat : ss[1] < ss[2]}
    BY DEF OpToRel
<1>2. IsWellFoundedOn(R, Nat)
    BY NatLessThanWellFounded
<1> HIDE DEF R
<1>3. PICK x \in S : \A y \in S : ~ (<<y, x>> \in R)
    BY <1>2, WFMin
<1>4. ASSUME NEW y \in S
      PROVE  x <= y
    <2>1. x \in Nat /\ y \in Nat /\ <<y, x>> \notin R
        BY <1>3
    <2>2. ~ (y < x)
        BY <1>1, <2>1
    <2> QED
        BY <2>1, <2>2
<1> QED
    BY <1>4 DEF Min

\* popitem() of a dict: the last key is gone.
LEMMA FrontDistinct ==
    ASSUME NEW S, NEW q \in Seq(S), Len(q) > 0, IsInjective(q)
    PROVE  /\ SubSeq(q, 1, Len(q) - 1) \in Seq(S)
           /\ IsInjective(SubSeq(q, 1, Len(q) - 1))
           /\ ToSet(SubSeq(q, 1, Len(q) - 1)) = ToSet(q) \ {q[Len(q)]}
           /\ q[Len(q)] \in ToSet(q)
<1>1. Len(q) \in 1 .. Len(q) /\ DOMAIN q = 1 .. Len(q) /\ Len(q) \in Nat
    OBVIOUS
<1>2. SubSeq(q, 1, Len(q) - 1) \in Seq(S)
    BY <1>1
<1>3. SubSeq(q, Len(q) + 1, Len(q)) = <<>>
    BY <1>1, SubSeqEmpty
<1>4. RemoveAt(q, Len(q)) = SubSeq(q, 1, Len(q) - 1)
    BY <1>2, <1>3, ConcatEmptySeq DEF RemoveAt
<1>5. q[Len(q)] \in ToSet(q)
    BY <1>1 DEF ToSet
<1>6. IsInjective(RemoveAt(q, Len(q))) /\ ToSet(RemoveAt(q, Len(q))) = ToSet(q) \ {q[Len(q)]}
    BY ONLY <1>1, q \in Seq(S), IsInjective(q), RemoveAtDistinct
<1> QED
    BY ONLY <1>2, <1>4, <1>5, <1>6

\* A queue without duplicates is as long as it has elements.
LEMMA LenIsCardinality ==
    ASSUME NEW S, NEW q \in Seq(S), IsInjective(q)
    PROVE  IsFiniteSet(ToSet(q)) /\ Cardinality(ToSet(q)) = Len(q)
<1>1. DOMAIN q = 1 .. Len(q) /\ Len(q) \in Nat /\ q \in [1 .. Len(q) -> S]
    OBVIOUS
<1>2. q \in [1 .. Len(q) -> ToSet(q)]
    BY <1>1 DEF ToSet
<1>3. q \in Bijection(1 .. Len(q), ToSet(q))
    BY <1>1, <1>2 DEF Bijection, Injection, Surjection, ToSet
<1>4. ExistsBijection(1 .. Len(q), ToSet(q))
    BY <1>3 DEF ExistsBijection
<1>5. IsFiniteSet(1 .. Len(q)) /\ Cardinality(1 .. Len(q)) = Len(q)
    BY <1>1, FS_Interval, SMTT(20)
<1> QED
    BY <1>4, <1>5, FS_Bijection

\* A queue cut in two: popping several leaves the rest.
LEMMA CutQueue ==
    ASSUME NEW S, NEW q \in Seq(S), NEW n \in 0 .. Len(q), IsInjective(q)
    PROVE  /\ SubSeq(q, 1, n) \in Seq(S) /\ SubSeq(q, n + 1, Len(q)) \in Seq(S)
           /\ Len(SubSeq(q, 1, n)) = n /\ Len(SubSeq(q, n + 1, Len(q))) = Len(q) - n
           /\ IsInjective(SubSeq(q, 1, n)) /\ IsInjective(SubSeq(q, n + 1, Len(q)))
           /\ ToSet(SubSeq(q, n + 1, Len(q))) = ToSet(q) \ ToSet(SubSeq(q, 1, n))
           /\ ToSet(SubSeq(q, 1, n)) \subseteq ToSet(q)
           /\ n > 0 => SubSeq(q, 1, n)[1] = Head(q)
<1> DEFINE l == SubSeq(q, 1, n)
           r == SubSeq(q, n + 1, Len(q))
<1>1. Len(q) \in Nat /\ n \in Nat /\ n <= Len(q) /\ DOMAIN q = 1 .. Len(q)
    OBVIOUS
<1>2. l \in Seq(S) /\ Len(l) = n /\ DOMAIN l = 1 .. n /\ \A j \in 1 .. n : l[j] = q[j]
    BY <1>1
<1>3. r \in Seq(S) /\ Len(r) = Len(q) - n /\ \A j \in 1 .. Len(q) - n : r[j] = q[n + j]
    <2>1. CASE n = Len(q)
        <3>1. r = <<>>
            BY <1>1, <2>1, SubSeqEmpty
        <3> QED
            BY <1>1, <2>1, <3>1
    <2>2. CASE n < Len(q)
        <3>1. n + 1 \in 1 .. Len(q) /\ Len(q) \in n .. Len(q)
            BY <1>1, <2>2
        <3> QED
            BY <1>1, <3>1, SubSeqProperties
    <2>3. n = Len(q) \/ n < Len(q)
        <3>1. \A a, b \in Nat : a <= b => a = b \/ a < b
            BY ONLY SMT
        <3> QED
            BY ONLY <1>1, <3>1, Zenon
    <2> HIDE DEF r
    <2> QED
        BY ONLY <2>1, <2>2, <2>3
<1> HIDE DEF l, r
<1>4. DOMAIN r = 1 .. Len(q) - n
    BY ONLY <1>3
<1>5. IsInjective(l)
    BY <1>1, <1>2 DEF IsInjective
<1>6. IsInjective(r)
    <2> SUFFICES ASSUME NEW i \in 1 .. Len(q) - n, NEW j \in 1 .. Len(q) - n, r[i] = r[j]
                 PROVE  i = j
        BY <1>4 DEF IsInjective
    <2>1. n + i \in DOMAIN q /\ n + j \in DOMAIN q /\ q[n + i] = q[n + j]
        BY <1>1, <1>3
    <2> QED
        BY <1>1, <2>1 DEF IsInjective
<1>7. \A x : x \in ToSet(l) <=> \E i \in 1 .. n : x = q[i]
    BY <1>2, Zenon DEF ToSet
<1>8. \A x : x \in ToSet(r) <=> \E i \in n + 1 .. Len(q) : x = q[i]
    <2>1. ASSUME NEW x, x \in ToSet(r) PROVE \E i \in n + 1 .. Len(q) : x = q[i]
        <3>1. PICK j \in 1 .. Len(q) - n : x = r[j]
            BY <1>4, <2>1 DEF ToSet
        <3>2. n + j \in n + 1 .. Len(q) /\ x = q[n + j]
            BY <1>1, <1>3, <3>1
        <3> QED
            BY <3>2
    <2>2. ASSUME NEW i \in n + 1 .. Len(q) PROVE q[i] \in ToSet(r)
        <3>1. i - n \in 1 .. Len(q) - n /\ r[i - n] = q[i]
            BY <1>1, <1>3
        <3> QED
            BY <1>4, <3>1 DEF ToSet
    <2> QED
        BY <2>1, <2>2
<1>9. \A x : x \in ToSet(q) <=> \E i \in 1 .. Len(q) : x = q[i]
    BY <1>1, Zenon DEF ToSet
<1>10. \A i \in 1 .. n, j \in n + 1 .. Len(q) : q[i] # q[j]
    BY <1>1 DEF IsInjective
<1>11. ToSet(r) = ToSet(q) \ ToSet(l) /\ ToSet(l) \subseteq ToSet(q)
    <2>1. ASSUME NEW x, x \in ToSet(r) PROVE x \in ToSet(q) /\ x \notin ToSet(l)
        <3>1. PICK i \in n + 1 .. Len(q) : x = q[i]
            BY <1>8, <2>1
        <3> QED
            BY <1>1, <1>7, <1>9, <1>10, <3>1
    <2>2. ASSUME NEW x, x \in ToSet(q), x \notin ToSet(l) PROVE x \in ToSet(r)
        <3>1. PICK i \in 1 .. Len(q) : x = q[i]
            BY <1>9, <2>2
        <3>2. i \in n + 1 .. Len(q)
            BY <1>1, <1>7, <2>2, <3>1
        <3> QED
            BY <1>8, <3>1, <3>2
    <2>3. ASSUME NEW x, x \in ToSet(l) PROVE x \in ToSet(q)
        <3>1. PICK i \in 1 .. n : x = q[i]
            BY <1>7, <2>3
        <3> QED
            BY <1>1, <1>9, <3>1
    <2> QED
        BY <2>1, <2>2, <2>3
<1>12. n > 0 => l[1] = Head(q)
    BY <1>1, <1>2
<1> QED
    BY <1>2, <1>3, <1>5, <1>6, <1>11, <1>12 DEF l, r

\* One queue behind the other.
LEMMA ConcatDistinct ==
    ASSUME NEW S, NEW p \in Seq(S), NEW q \in Seq(S), IsInjective(p), IsInjective(q),
           ToSet(p) \cap ToSet(q) = {}
    PROVE  /\ p \o q \in Seq(S) /\ IsInjective(p \o q)
           /\ ToSet(p \o q) = ToSet(p) \cup ToSet(q)
<1> DEFINE r == p \o q
<1>1. /\ r \in Seq(S) /\ Len(r) = Len(p) + Len(q) /\ Len(p) \in Nat /\ Len(q) \in Nat
      /\ \A i \in 1 .. Len(p) : r[i] = p[i]
      /\ \A i \in 1 .. Len(q) : r[Len(p) + i] = q[i]
    BY ConcatProperties
<1> HIDE DEF r
<1>2. DOMAIN r = 1 .. Len(p) + Len(q) /\ DOMAIN p = 1 .. Len(p) /\ DOMAIN q = 1 .. Len(q)
    BY <1>1
<1>3. ASSUME NEW i \in 1 .. Len(p) + Len(q)
      PROVE  \/ i \in 1 .. Len(p) /\ r[i] = p[i] /\ r[i] \in ToSet(p)
             \/ i - Len(p) \in 1 .. Len(q) /\ r[i] = q[i - Len(p)] /\ r[i] \in ToSet(q)
    <2>1. CASE i <= Len(p)
        BY <1>1, <1>2, <2>1 DEF ToSet
    <2>2. CASE i > Len(p)
        <3>1. i - Len(p) \in 1 .. Len(q) /\ Len(p) + (i - Len(p)) = i
            BY <1>1, <2>2
        <3>2. r[i] = q[i - Len(p)]
            BY <1>1, <3>1
        <3> QED
            BY <1>2, <3>1, <3>2 DEF ToSet
    <2> QED
        BY <1>1, <2>1, <2>2
<1>4. IsInjective(r)
    <2> SUFFICES ASSUME NEW i \in 1 .. Len(p) + Len(q), NEW j \in 1 .. Len(p) + Len(q), r[i] = r[j]
                 PROVE  i = j
        BY <1>2 DEF IsInjective
    <2>1. CASE i \in 1 .. Len(p) /\ j \in 1 .. Len(p)
        BY <1>1, <1>2, <2>1 DEF IsInjective
    <2>2. CASE i - Len(p) \in 1 .. Len(q) /\ j - Len(p) \in 1 .. Len(q)
        <3>1. q[i - Len(p)] = q[j - Len(p)]
            BY <1>1, <1>3, <2>2
        <3>2. i - Len(p) = j - Len(p)
            BY <1>2, <2>2, <3>1 DEF IsInjective
        <3> QED
            BY <1>1, <3>2
    <2> QED
        BY <1>3, <2>1, <2>2
<1>5. ToSet(r) = ToSet(p) \cup ToSet(q)
    <2>1. ToSet(r) \subseteq ToSet(p) \cup ToSet(q)
        BY <1>2, <1>3 DEF ToSet
    <2>2. ToSet(p) \subseteq ToSet(r)
        BY <1>1, <1>2 DEF ToSet
    <2>3. ASSUME NEW i \in 1 .. Len(q) PROVE q[i] \in ToSet(r)
        <3>1. Len(p) + i \in DOMAIN r /\ r[Len(p) + i] = q[i]
            BY <1>1, <1>2
        <3> QED
            BY <3>1 DEF ToSet
    <2>4. ToSet(q) \subseteq ToSet(r)
        BY <1>2, <2>3 DEF ToSet
    <2> QED
        BY <2>1, <2>2, <2>4
<1> QED
    BY <1>1, <1>4, <1>5 DEF r

\* A queue cut in two: what is taken from its front and what is left of it.
LEMMA SplitQueue ==
    ASSUME NEW S, NEW q \in Seq(S), NEW n \in 0 .. Len(q)
    PROVE  /\ SubSeq(q, 1, n) \in Seq(S) /\ SubSeq(q, n + 1, Len(q)) \in Seq(S)
           /\ SubSeq(q, 1, n) \o SubSeq(q, n + 1, Len(q)) = q
<1> DEFINE l == SubSeq(q, 1, n)
           r == SubSeq(q, n + 1, Len(q))
<1>1. Len(q) \in Nat /\ n \in Int /\ n <= Len(q) /\ \A i \in 1 .. Len(q) : q[i] \in S
    OBVIOUS
<1>2. l \in Seq(S) /\ Len(l) = n /\ \A i \in 1 .. n : l[i] = q[i]
    BY <1>1, SubSeqProperties
<1>3. r \in Seq(S) /\ Len(r) = Len(q) - n /\ \A i \in 1 .. Len(q) - n : r[i] = q[n + i]
    BY <1>1, SubSeqProperties
<1> HIDE DEF l, r
<1>4. l \o r \in Seq(S) /\ Len(l \o r) = Len(q)
      /\ \A i \in 1 .. Len(q) : (l \o r)[i] = IF i <= n THEN l[i] ELSE r[i - n]
    BY <1>1, <1>2, <1>3, ConcatProperties
<1>5. \A i \in 1 .. Len(q) : (l \o r)[i] = q[i]
    BY <1>1, <1>2, <1>3, <1>4
<1>6. l \o r = q
    BY <1>4, <1>5, SeqEqual
<1> QED
    BY <1>2, <1>3, <1>6 DEF l, r
================================================================================
