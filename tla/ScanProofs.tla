------------------------------- MODULE ScanProofs -------------------------------
(***************************************************************************)
(* Proofs about OddsCollection, ScanAnalysis and ScanRun, for any          *)
(* provider world, files, clock and number of runs.  In order: what the    *)
(* operators on sequences and prices return; the inductive invariant of a  *)
(* collection, which says of every event it was told of that it left its   *)
(* mark or is still in hand; the soundness of an analysis of any prices;   *)
(* and the invariant of a run, which carries the ids and the types of a    *)
(* batch from its collection to its document.                              *)
(***************************************************************************)
EXTENDS ScanRun, DataTheorems, SequenceTheorems, TLAPS

\* The rank of an index among the kept ones runs through 1..Cardinality.
LEMMA Ranks ==
    ASSUME NEW N \in Nat, NEW is \in SUBSET (1..N)
    PROVE  /\ IsFiniteSet(is) /\ Cardinality(is) \in Nat
           /\ \A i \in is : Cardinality({j \in is : j <= i}) \in 1..Cardinality(is)
           /\ \A n \in 1..Cardinality(is) : \E i \in is : Cardinality({j \in is : j <= i}) = n
<1> DEFINE below(i) == {j \in is : j <= i}
           rank == [i \in is |-> Cardinality(below(i))]
<1>1. IsFiniteSet(is) /\ Cardinality(is) \in Nat
  <2>1. IsFiniteSet(1..N)
    BY FS_Interval
  <2> QED
    BY <2>1, FS_Subset, FS_CardinalityType
<1>2. \A i \in is : /\ below(i) \in SUBSET is
                    /\ IsFiniteSet(below(i)) /\ Cardinality(below(i)) \in Nat
                    /\ Cardinality(below(i)) <= Cardinality(is)
                    /\ i \in below(i)
  <2> TAKE i \in is
  <2>1. below(i) \in SUBSET is /\ i \in below(i)
    OBVIOUS
  <2> HIDE DEF below
  <2> QED
    BY <1>1, <2>1, FS_Subset, FS_CardinalityType
<1>3. \A i \in is : Cardinality(below(i)) \in 1..Cardinality(is)
  <2> TAKE i \in is
  <2>1. below(i) # {} /\ IsFiniteSet(below(i)) /\ Cardinality(below(i)) \in Nat
    BY <1>2
  <2>2. Cardinality(below(i)) # 0
    BY <2>1, FS_EmptySet
  <2> HIDE DEF below
  <2> QED
    BY <1>1, <1>2, <2>1, <2>2
<1>4. ASSUME NEW i \in is, NEW k \in is, i < k
      PROVE  Cardinality(below(i)) # Cardinality(below(k))
  <2>1. below(i) \in SUBSET below(k) /\ k \in below(k) /\ k \notin below(i)
    <3>1. i \in Int /\ k \in Int /\ \A j \in is : j \in Int
      OBVIOUS
    <3>2. \A j \in below(i) : j \in below(k)
      <4> TAKE j \in below(i)
      <4>1. j \in is /\ j <= i
        OBVIOUS
      <4>2. j <= k
        BY <1>4, <3>1, <4>1
      <4> QED
        BY <4>1, <4>2
    <3>3. k \in below(k) /\ k \notin below(i)
      BY <1>4, <3>1
    <3> HIDE DEF below
    <3> QED
      BY <3>2, <3>3
  <2>2. IsFiniteSet(below(k))
    BY <1>2
  <2> HIDE DEF below
  <2> QED
    BY <2>1, <2>2, FS_Subset
<1>5. rank \in Injection(is, 1..Cardinality(is))
  <2>1. rank \in [is -> 1..Cardinality(is)]
    BY <1>3
  <2>2. \A i, k \in is : i < k \/ k < i \/ i = k
    OBVIOUS
  <2>3. \A i, k \in is : rank[i] = rank[k] => i = k
    <3> HIDE DEF below
    <3> QED
      BY <1>4, <2>2
  <2> QED
    BY <2>1, <2>3 DEF Injection, IsInjective
<1>6. IsFiniteSet(1..Cardinality(is)) /\ Cardinality(1..Cardinality(is)) = Cardinality(is)
  BY <1>1, FS_Interval
<1>7. rank \in Surjection(is, 1..Cardinality(is))
  <2> HIDE DEF rank
  <2> QED
    BY <1>5, <1>6, FS_Injection
<1>8. \A n \in 1..Cardinality(is) : \E i \in is : rank[i] = n
  BY <1>7 DEF Surjection
<1> QED
  BY <1>1, <1>3, <1>8

\* Keep keeps the elements of the indices it is given, and nothing else.
LEMMA Kept ==
    ASSUME NEW T, NEW s \in Seq(T), NEW is \in SUBSET (DOMAIN s)
    PROVE  /\ Keep(s, is) \in Seq(T)
           /\ \A n \in DOMAIN Keep(s, is) : \E i \in is : Keep(s, is)[n] = s[i]
           /\ \A i \in is : \E n \in DOMAIN Keep(s, is) : Keep(s, is)[n] = s[i]
           /\ Keep(s, is) = <<>> <=> is = {}
<1> DEFINE N == Cardinality(is)
           at(n) == CHOOSE i \in is : Cardinality({j \in is : j <= i}) = n
<1>1. Len(s) \in Nat /\ DOMAIN s = 1..Len(s)
  OBVIOUS
<1>2. /\ IsFiniteSet(is) /\ N \in Nat
      /\ \A i \in is : Cardinality({j \in is : j <= i}) \in 1..N
      /\ \A n \in 1..N : \E i \in is : Cardinality({j \in is : j <= i}) = n
  BY <1>1, Ranks
<1>3. \A n \in 1..N : at(n) \in is /\ Cardinality({j \in is : j <= at(n)}) = n
  BY <1>2
<1>4. Keep(s, is) = [n \in 1..N |-> s[at(n)]]
  BY DEF Keep
<1>5. ASSUME NEW i \in is, NEW k \in is,
             Cardinality({j \in is : j <= i}) = Cardinality({j \in is : j <= k}), i < k
      PROVE  FALSE
  <2>1. PICK A : A = {j \in is : j <= i}
    OBVIOUS
  <2>2. PICK B : B = {j \in is : j <= k}
    OBVIOUS
  <2>3. A \in SUBSET B /\ k \in B /\ k \notin A /\ B \in SUBSET is
    BY <1>5, <2>1, <2>2
  <2>4. Cardinality(A) = Cardinality(B) /\ IsFiniteSet(B)
    BY <1>2, <1>5, <2>1, <2>2, <2>3, FS_Subset
  <2> QED
    BY <2>3, <2>4, FS_Subset
<1>6. \A i \in is : \E n \in 1..N : at(n) = i
  <2> TAKE i \in is
  <2>1. PICK n \in 1..N : n = Cardinality({j \in is : j <= i})
    BY <1>2
  <2>2. at(n) \in is /\ Cardinality({j \in is : j <= at(n)}) = Cardinality({j \in is : j <= i})
    BY <1>3, <2>1
  <2> HIDE DEF at
  <2>3. at(n) = i
    <3>1. at(n) \in Int /\ i \in Int
      BY <1>1, <2>2
    <3>2. ~(at(n) < i) /\ ~(i < at(n))
      BY <1>5, <2>2
    <3> QED
      BY <3>1, <3>2
  <2> QED
    BY <2>3
<1>7. Keep(s, is) \in Seq(T)
  <2>1. \A n \in 1..N : s[at(n)] \in T
    <3> HIDE DEF at
    <3>1. \A n \in 1..N : at(n) \in 1..Len(s)
      BY <1>1, <1>3
    <3> QED
      BY <3>1, ElementOfSeq
  <2> HIDE DEF at
  <2>2. [n \in 1..N |-> s[at(n)]] \in [1..N -> T]
    BY <2>1
  <2> QED
    BY <1>2, <1>4, <2>2
<1>8. N = 0 <=> is = {}
  BY <1>2, FS_EmptySet
<1>9. Keep(s, is) = <<>> <=> N = 0
  <2>1. Len(Keep(s, is)) = N
    BY <1>2, <1>4, <1>7
  <2> HIDE DEF N
  <2> QED
    BY <1>7, <2>1, EmptySeq
<1> HIDE DEF at, N
<1> QED
  BY <1>3, <1>4, <1>6, <1>7, <1>8, <1>9

\* Flattening sequences of elements of T gives one sequence of them.
LEMMA Flattened ==
    ASSUME NEW T, NEW ss \in Seq(Seq(T))
    PROVE  FlattenSeq(ss) \in Seq(T)
<1> DEFINE n == Len(ss)
           Unfolds(g, k) == g = [i \in 1..k |-> IF i = 1 THEN ss[i] ELSE g[i - 1] \o ss[i]]
           Typed(g, k) == \A i \in 1..k : g[i] \in Seq(T)
<1>1. n \in Nat /\ ss \in [1..n -> Seq(T)]
  BY LenProperties
<1> HIDE DEF n
<1>2. ASSUME NEW k \in 0..n, NEW g, Unfolds(g, k) PROVE Typed(g, k)
  <2> DEFINE bad == {i \in 1..k : g[i] \notin Seq(T)}
  <2>1. SUFFICES ASSUME bad # {} PROVE FALSE
    OBVIOUS
  <2>2. bad \in SUBSET Nat
    <3>1. 1..k \in SUBSET Nat
      BY <1>1
    <3> HIDE DEF Unfolds, Typed
    <3> QED
      BY <3>1
  <2>3. PICK i \in bad : \A j \in bad : i <= j
    BY <2>1, <2>2, LeastNatural
  <2>4. i \in 1..k /\ g[i] = IF i = 1 THEN ss[i] ELSE g[i - 1] \o ss[i]
    BY <1>2
  <2>5. i # 1 => g[i - 1] \in Seq(T)
    <3>1. i # 1 => i - 1 \in 1..k
      BY <2>4
    <3>2. i - 1 \notin bad
      BY <2>3, <2>4
    <3> QED
      BY <3>1, <3>2
  <2>6. ss[i] \in Seq(T)
    BY <1>1, <2>4
  <2>7. g[i] \in Seq(T)
    <3> HIDE DEF bad, Unfolds, Typed
    <3> QED
      BY <2>4, <2>5, <2>6, ConcatProperties
  <2> QED
    BY <2>3, <2>7
<1>3. \A k \in 0..n : \E g : Unfolds(g, k)
  <2> DEFINE bad == {k \in 0..n : ~ \E g : Unfolds(g, k)}
  <2>1. SUFFICES ASSUME bad # {} PROVE FALSE
    OBVIOUS
  <2>2. bad \in SUBSET Nat
    <3>1. 0..n \in SUBSET Nat
      BY <1>1
    <3> HIDE DEF Unfolds
    <3> QED
      BY <3>1
  <2>3. PICK k \in bad : \A j \in bad : k <= j
    <3> HIDE DEF bad
    <3> QED
      BY <2>1, <2>2, LeastNatural
  <2>4. k \in 0..n /\ ~ \E g : Unfolds(g, k)
    OBVIOUS
  <2>5. k # 0
    <3>1. SUFFICES ASSUME k = 0 PROVE FALSE
      OBVIOUS
    <3> DEFINE e == [i \in 1..0 |-> 0]
    <3>2. Unfolds(e, 0)
      OBVIOUS
    <3> QED
      BY <2>4, <3>1, <3>2
  <2>6. PICK g : Unfolds(g, k - 1)
    <3>1. k - 1 \in 0..n /\ k - 1 \notin bad
      <4> HIDE DEF bad
      <4> QED
        BY <1>1, <2>3, <2>4, <2>5
    <3> QED
      BY <3>1
  <2> DEFINE h == [i \in 1..k |-> IF i = 1 THEN ss[i] ELSE g[i - 1] \o ss[i]]
  <2>7. \A i \in 1..(k - 1) : h[i] = g[i]
    <3> TAKE i \in 1..(k - 1)
    <3>1. i \in 1..k /\ k \in Nat
      BY <1>1, <2>4
    <3>2. g[i] = IF i = 1 THEN ss[i] ELSE g[i - 1] \o ss[i]
      BY <2>6
    <3>3. h[i] = IF i = 1 THEN ss[i] ELSE g[i - 1] \o ss[i]
      BY <3>1
    <3> HIDE DEF h
    <3> QED
      BY <3>2, <3>3
  <2>8. \A i \in 1..k : i # 1 => h[i - 1] = g[i - 1]
    <3>1. \A i \in 1..k : i # 1 => i - 1 \in 1..(k - 1)
      BY <2>4, <2>5
    <3> HIDE DEF h, Unfolds
    <3> QED
      BY <2>7, <3>1
  <2>9. Unfolds(h, k)
    <3>1. \A i \in 1..k : h[i] = IF i = 1 THEN ss[i] ELSE h[i - 1] \o ss[i]
      BY <2>8
    <3>2. h = [i \in 1..k |-> h[i]]
      OBVIOUS
    <3> HIDE DEF h
    <3> QED
      BY <3>1, <3>2
  <2> QED
    BY <2>4, <2>9
<1>4. CASE n = 0
  BY <1>4, <1>1 DEF FlattenSeq, n
<1>5. CASE n # 0
  <2> DEFINE flatten == CHOOSE g : Unfolds(g, n)
  <2>1. Unfolds(flatten, n)
    <3>1. \E g : Unfolds(g, n)
      <4>1. n \in 0..n
        BY <1>1
      <4> HIDE DEF Unfolds
      <4> QED
        BY <4>1, <1>3
    <3> QED
      BY <3>1
  <2>2. FlattenSeq(ss) = flatten[n]
    BY <1>5 DEF FlattenSeq, n
  <2> HIDE DEF flatten
  <2>3. flatten[n] \in Seq(T)
    <3>1. n \in 0..n /\ n \in 1..n
      BY <1>1, <1>5
    <3>2. Typed(flatten, n)
      <4> HIDE DEF Unfolds, Typed
      <4> QED
        BY <1>2, <2>1, <3>1
    <3> QED
      BY <3>1, <3>2
  <2> QED
    BY <2>2, <2>3
<1> QED
  BY <1>4, <1>5

--------------------------------------------------------------------------------
(* The analysis of a batch.                                                   *)

\* The prices of one collection were received at one instant.
ReceivedTogether(prices) ==
    \A i, j \in DOMAIN prices : prices[i].received = prices[j].received

\* Deduplication drops a price only for one of the same fingerprint.
LEMMA Deduplicated ==
    ASSUME NEW ids, NEW prices \in Seq(Quotes(ids))
    PROVE  /\ Deduplicate(prices) \in Seq(Quotes(ids))
           /\ \A n \in DOMAIN Deduplicate(prices) :
                 \E i \in DOMAIN prices : Deduplicate(prices)[n] = prices[i]
           /\ \A i \in DOMAIN prices : \E n \in DOMAIN Deduplicate(prices) :
                 Fingerprint(Deduplicate(prices)[n]) = Fingerprint(prices[i])
<1> DEFINE first == {i \in DOMAIN prices :
                       \A j \in 1..i - 1 : Fingerprint(prices[j]) # Fingerprint(prices[i])}
<1>1. Deduplicate(prices) = Keep(prices, first)
  BY DEF Deduplicate
<1>2. DOMAIN prices = 1..Len(prices) /\ Len(prices) \in Nat
  OBVIOUS
<1>3. first \in SUBSET (DOMAIN prices)
  OBVIOUS
<1>4. \A i \in DOMAIN prices : \E k \in first : Fingerprint(prices[k]) = Fingerprint(prices[i])
  <2> TAKE i \in DOMAIN prices
  <2> DEFINE alike == {k \in DOMAIN prices : Fingerprint(prices[k]) = Fingerprint(prices[i])}
  <2>1. alike \in SUBSET Nat /\ alike # {}
    BY <1>2
  <2>2. PICK k \in alike : \A m \in alike : k <= m
    <3> HIDE DEF alike
    <3> QED
      BY <2>1, LeastNatural
  <2>3. k \in DOMAIN prices /\ k \in 1..Len(prices)
    BY <1>2
  <2>4. \A j \in 1..k - 1 : j \in DOMAIN prices /\ ~(k <= j)
    BY <1>2, <2>3
  <2>5. k \in first
    BY <2>2, <2>3, <2>4
  <2> QED
    BY <2>5
<1> HIDE DEF first
<1>5. /\ Keep(prices, first) \in Seq(Quotes(ids))
      /\ \A n \in DOMAIN Keep(prices, first) : \E i \in first : Keep(prices, first)[n] = prices[i]
      /\ \A i \in first : \E n \in DOMAIN Keep(prices, first) : Keep(prices, first)[n] = prices[i]
  <2>1. PICK T : T = Quotes(ids)
    OBVIOUS
  <2>2. prices \in Seq(T)
    BY <2>1
  <2> QED
    BY ONLY <1>3, <2>1, <2>2, Kept
<1> QED
  BY <1>1, <1>3, <1>4, <1>5

\* Two prices of one fingerprint, received together, are valid together.
LEMMA AlikeAreValid ==
    ASSUME NEW p, NEW q, Fingerprint(p) = Fingerprint(q), p.received = q.received, NEW instant
    PROVE  /\ Valid(p, instant) <=> Valid(q, instant)
           /\ QuoteKey(p) = QuoteKey(q) /\ p.observed = q.observed
BY DEF Fingerprint, SelectionKey, Valid, QuoteKey

\* Whichever price of a selection is current, it is the latest valid one; and a
\* selection with a valid price has a current one.
LEMMA CurrentIsLatest ==
    ASSUME NEW ids, NEW prices \in Seq(Quotes(ids)), ReceivedTogether(prices),
           NEW instant \in Int
    PROVE  /\ \A q \in Current(prices, instant) :
                 /\ Valid(q, instant)
                 /\ \E i \in DOMAIN prices : q = prices[i]
                 /\ \A i \in DOMAIN prices :
                       Valid(prices[i], instant) /\ QuoteKey(prices[i]) = QuoteKey(q)
                          => prices[i].observed <= q.observed
           /\ \A i \in DOMAIN prices :
                 Valid(prices[i], instant) =>
                    \E q \in Current(prices, instant) : QuoteKey(q) = QuoteKey(prices[i])
<1> DEFINE D == Deduplicate(prices)
           valid == {n \in DOMAIN D : Valid(D[n], instant)}
           usable == Keep(D, valid)
           same(i, j) == QuoteKey(usable[i]) = QuoteKey(usable[j])
           beats(j, i) == \/ usable[j].observed > usable[i].observed
                          \/ usable[j].observed = usable[i].observed /\ j < i
           best == {i \in DOMAIN usable : \A j \in DOMAIN usable : same(i, j) => ~beats(j, i)}
<1>1. Current(prices, instant) = {usable[i] : i \in best}
  BY DEF Current, Filtered
<1>2. /\ D \in Seq(Quotes(ids))
      /\ \A n \in DOMAIN D : \E i \in DOMAIN prices : D[n] = prices[i]
      /\ \A i \in DOMAIN prices : \E n \in DOMAIN D : Fingerprint(D[n]) = Fingerprint(prices[i])
  BY Deduplicated
<1> HIDE DEF D
<1>3. /\ usable \in Seq(Quotes(ids))
      /\ \A n \in DOMAIN usable : \E i \in valid : usable[n] = D[i]
      /\ \A i \in valid : \E n \in DOMAIN usable : usable[n] = D[i]
  <2>1. valid \in SUBSET (DOMAIN D)
    OBVIOUS
  <2> HIDE DEF valid
  <2>2. PICK T : T = Quotes(ids)
    OBVIOUS
  <2>3. D \in Seq(T)
    BY <1>2, <2>2
  <2> QED
    BY ONLY <2>1, <2>2, <2>3, Kept
<1> HIDE DEF usable
<1>4. \A n \in DOMAIN usable : /\ Valid(usable[n], instant)
                               /\ \E i \in DOMAIN prices : usable[n] = prices[i]
  BY <1>2, <1>3
<1>5. \A i \in DOMAIN prices : Valid(prices[i], instant) =>
         \E n \in DOMAIN usable : /\ QuoteKey(usable[n]) = QuoteKey(prices[i])
                                  /\ usable[n].observed = prices[i].observed
  <2> TAKE i \in DOMAIN prices
  <2> HAVE Valid(prices[i], instant)
  <2>1. PICK m \in DOMAIN D : Fingerprint(D[m]) = Fingerprint(prices[i])
    BY <1>2
  <2>2. D[m].received = prices[i].received
    <3>1. PICK k \in DOMAIN prices : D[m] = prices[k]
      BY <1>2, <2>1
    <3>2. prices[k].received = prices[i].received
      BY <3>1 DEF ReceivedTogether
    <3> QED
      BY <3>1, <3>2
  <2>3. Valid(D[m], instant) /\ QuoteKey(D[m]) = QuoteKey(prices[i])
        /\ D[m].observed = prices[i].observed
    BY <2>1, <2>2, AlikeAreValid
  <2>4. m \in valid
    BY <2>3
  <2> HIDE DEF valid
  <2>5. PICK n \in DOMAIN usable : usable[n] = D[m]
    BY <1>3, <2>4
  <2> QED
    BY <2>3, <2>5
<1> HIDE DEF valid
<1>6. DOMAIN usable = 1..Len(usable) /\ Len(usable) \in Nat
  BY <1>3
<1>7. \A n \in DOMAIN usable : usable[n].observed \in Int /\ usable[n].observed <= instant
  <2>1. \A n \in DOMAIN usable : usable[n] \in Quotes(ids)
    BY <1>3, <1>6, ElementOfSeq
  <2> QED
    BY <1>4, <2>1 DEF Quotes, Valid
<1>8. \A n \in DOMAIN usable : \E k \in best : same(k, n)
  <2> TAKE n \in DOMAIN usable
  <2> DEFINE alike == {k \in DOMAIN usable : same(k, n)}
             ages == {instant - usable[k].observed : k \in alike}
  <2>1. ages \in SUBSET Nat /\ ages # {}
    BY <1>7
  <2>2. PICK age \in ages : \A a \in ages : age <= a
    <3> HIDE DEF ages
    <3> QED
      BY <2>1, LeastNatural
  <2> DEFINE newest == {k \in alike : instant - usable[k].observed = age}
  <2>3. newest \in SUBSET Nat /\ newest # {}
    BY <1>6
  <2>4. PICK k \in newest : \A m \in newest : k <= m
    <3> HIDE DEF newest
    <3> QED
      BY <2>3, LeastNatural
  <2>5. k \in DOMAIN usable /\ same(k, n) /\ instant - usable[k].observed = age
    OBVIOUS
  <2>6. ASSUME NEW j \in DOMAIN usable, same(k, j) PROVE ~beats(j, k)
    <3>1. j \in alike
      BY <2>5, <2>6
    <3>2. age <= instant - usable[j].observed
      BY <2>2, <3>1
    <3>3. usable[j].observed = usable[k].observed => j \in newest
      BY <2>5, <3>1
    <3>4. usable[j].observed = usable[k].observed => k <= j
      BY <2>4, <3>3
    <3>5. k \in Nat /\ j \in Nat
      BY <1>6, <2>5
    <3> HIDE DEF alike, ages, newest
    <3> QED
      BY <1>7, <2>5, <3>2, <3>4, <3>5
  <2>7. k \in best
    BY <2>5, <2>6
  <2> QED
    BY <2>5, <2>7
<1>9. ASSUME NEW k \in best
      PROVE  /\ k \in DOMAIN usable
             /\ \A i \in DOMAIN prices :
                   Valid(prices[i], instant) /\ QuoteKey(prices[i]) = QuoteKey(usable[k])
                      => prices[i].observed <= usable[k].observed
  <2>1. k \in DOMAIN usable /\ \A j \in DOMAIN usable : same(k, j) => ~beats(j, k)
    OBVIOUS
  <2>2. ASSUME NEW i \in DOMAIN prices, Valid(prices[i], instant),
               QuoteKey(prices[i]) = QuoteKey(usable[k])
        PROVE  prices[i].observed <= usable[k].observed
    <3>1. PICK n \in DOMAIN usable : /\ QuoteKey(usable[n]) = QuoteKey(prices[i])
                                     /\ usable[n].observed = prices[i].observed
      BY <1>5, <2>2
    <3>2. ~(usable[n].observed > usable[k].observed)
      BY <2>1, <2>2, <3>1
    <3> QED
      BY <1>7, <2>1, <3>1, <3>2
  <2> QED
    BY <2>1, <2>2
<1>10. \A q \in Current(prices, instant) : \E k \in best : q = usable[k]
  <2> HIDE DEF best
  <2> QED
    BY <1>1
<1>11. \A k \in best : usable[k] \in Current(prices, instant)
  <2> HIDE DEF best
  <2> QED
    BY <1>1
<1>12. \A i \in DOMAIN prices : Valid(prices[i], instant) =>
          \E q \in Current(prices, instant) : QuoteKey(q) = QuoteKey(prices[i])
  <2> HIDE DEF best
  <2> QED
    BY <1>5, <1>8, <1>11
<1> HIDE DEF best
<1> QED
  BY <1>4, <1>9, <1>10, <1>12

\* Every current price is in a book, and a book holds the prices of one event.
LEMMA BooksCoverCurrent ==
    ASSUME NEW prices, NEW instant
    PROVE  /\ \A q \in Current(prices, instant) :
                 \E b \in AssembleBooks(prices, instant) : q \in b
           /\ \A b \in AssembleBooks(prices, instant) :
                 /\ b \subseteq Current(prices, instant)
                 /\ \A p \in b : EventOfBook(b) = p.event
<1> DEFINE current == Current(prices, instant)
           bookOf(p) == {q \in current : BookKey(q) = BookKey(p)}
<1>1. AssembleBooks(prices, instant) = {bookOf(p) : p \in current}
  BY DEF AssembleBooks
<1>2. \A q \in current : q \in bookOf(q)
  OBVIOUS
<1>3. ASSUME NEW p \in current
      PROVE  /\ bookOf(p) \subseteq current
             /\ \A q \in bookOf(p) : EventOfBook(bookOf(p)) = q.event
  <2>1. \A q \in bookOf(p) : q.event = p.event
    BY DEF BookKey
  <2>2. bookOf(p) # {}
    BY <1>2
  <2> HIDE DEF bookOf
  <2>3. (CHOOSE q \in bookOf(p) : TRUE) \in bookOf(p)
    BY <2>2
  <2>4. \A q \in bookOf(p) : EventOfBook(bookOf(p)) = q.event
    BY <2>1, <2>3 DEF EventOfBook
  <2> QED
    BY <2>4 DEF bookOf
<1> HIDE DEF current, bookOf
<1>4. \A b \in AssembleBooks(prices, instant) : \E p \in current : b = bookOf(p)
  BY <1>1
<1>5. \A p \in current : bookOf(p) \in AssembleBooks(prices, instant)
  BY <1>1
<1> QED
  BY <1>2, <1>3, <1>4, <1>5 DEF current

\* Every valid price of an event that is analysed ends as a candidate of its
\* bookmaker or as a coded rejection of its selection.
LEMMA NothingVanishes ==
    ASSUME NEW ids, NEW prices \in Seq(Quotes(ids)), ReceivedTogether(prices),
           NEW events, NEW all, NEW md, NEW models, NEW instant \in Int, NEW hours,
           NEW e \in events, NEW i \in DOMAIN prices, prices[i].event = e.id,
           Valid(prices[i], instant)
    PROVE  \/ \E c \in Analyse(events, all, prices, md, models, instant, hours).candidates :
                 /\ QuoteKey(c.price) = QuoteKey(prices[i])
                 /\ c.event \in events /\ c.event.id = e.id
           \/ \E r \in Analyse(events, all, prices, md, models, instant, hours).rejections :
                 r.event = e.id /\ r.selection = SelectionKey(prices[i])
<1> DEFINE books == AssembleBooks(prices, instant)
           scored == {b \in books : \E f \in events : f.id = EventOfBook(b)}
           eventOf(b) == CHOOSE f \in events : f.id = EventOfBook(b)
           verdictsOf(b) == {[price |-> p, book |-> b] : p \in b}
           verdicts == UNION {verdictsOf(b) : b \in scored}
           refusals(v) == Refusals(v.price, v.book, eventOf(v.book), md, models, instant)
           published == {v \in verdicts : refusals(v) = {}}
           candidateOf(v) == Candidate(v.price, v.book, eventOf(v.book), md, models, instant)
           rejectionsOf(v) == {Rejection(v.price.event, SelectionKey(v.price), code) :
                                 code \in refusals(v)}
<1>1. Analyse(events, all, prices, md, models, instant, hours) =
        [candidates |-> {candidateOf(v) : v \in published},
         rejections |-> OutsideWindow(events, all, instant, hours)
                          \cup UNION {rejectionsOf(v) : v \in verdicts}]
  BY DEF Analyse
<1>2. PICK q \in Current(prices, instant) : QuoteKey(q) = QuoteKey(prices[i])
  BY CurrentIsLatest
<1>3. q.event = e.id /\ SelectionKey(q) = SelectionKey(prices[i])
  BY <1>2 DEF QuoteKey
<1>4. PICK b \in books : q \in b /\ EventOfBook(b) = e.id
  BY <1>2, <1>3, BooksCoverCurrent
<1>5. b \in scored /\ eventOf(b) \in events /\ eventOf(b).id = e.id
  BY <1>4
<1> DEFINE v == [price |-> q, book |-> b]
<1>6. v \in verdictsOf(b)
  BY <1>4
<1>7. v \in verdicts
  <2> HIDE DEF verdictsOf, scored, v
  <2> QED
    BY <1>5, <1>6
<1>8. v.price = q /\ v.book = b
  OBVIOUS
<1> HIDE DEF v, verdicts, eventOf
<1>9. CASE refusals(v) = {}
  <2>1. candidateOf(v).price = q /\ candidateOf(v).event = eventOf(b)
    BY <1>8 DEF Candidate
  <2>2. v \in published
    BY <1>7, <1>9
  <2> HIDE DEF candidateOf, published
  <2>3. candidateOf(v) \in {candidateOf(w) : w \in published}
    BY <2>2
  <2>4. candidateOf(v) \in Analyse(events, all, prices, md, models, instant, hours).candidates
    BY <1>1, <2>3
  <2> QED
    BY <1>2, <1>5, <2>1, <2>4
<1>10. CASE refusals(v) # {}
  <2>1. PICK code : code \in refusals(v)
    BY <1>10
  <2> DEFINE r == Rejection(v.price.event, SelectionKey(v.price), code)
  <2> HIDE DEF refusals
  <2>2. r \in rejectionsOf(v)
    BY <2>1
  <2>3. r.event = e.id /\ r.selection = SelectionKey(prices[i])
    BY <1>3, <1>8 DEF Rejection
  <2> HIDE DEF r, rejectionsOf
  <2>4. r \in UNION {rejectionsOf(w) : w \in verdicts}
    BY <1>7, <2>2
  <2>5. r \in Analyse(events, all, prices, md, models, instant, hours).rejections
    <3> HIDE DEF published, candidateOf
    <3> QED
      BY <1>1, <2>4
  <2> QED
    BY <2>3, <2>5
<1> QED
  BY <1>9, <1>10

\* The greatest and the least of a few integers.
LEMMA MaxOfTwo ==
    ASSUME NEW a \in Int, NEW b \in Int
    PROVE  /\ Max({a, b}) \in {a, b} /\ Max({a, b}) >= a /\ Max({a, b}) >= b
           /\ Min({a, b}) \in {a, b} /\ Min({a, b}) <= a /\ Min({a, b}) <= b
<1>1. \E x \in {a, b} : \A y \in {a, b} : x >= y
  OBVIOUS
<1>2. \E x \in {a, b} : \A y \in {a, b} : x <= y
  OBVIOUS
<1> QED
  BY <1>1, <1>2 DEF Max, Min

\* The least of three integers is one of them and none is smaller.
LEMMA MinOfThree ==
    ASSUME NEW a \in Int, NEW b \in Int, NEW c \in Int
    PROVE  /\ Min({a, b, c}) \in Int
           /\ Min({a, b, c}) <= a /\ Min({a, b, c}) <= b /\ Min({a, b, c}) <= c
<1>1. \E x \in {a, b, c} : \A y \in {a, b, c} : x <= y
  OBVIOUS
<1> QED
  BY <1>1 DEF Min

\* An amount to the nearest cent is an integer, and exceeds it by half a cent at most.
LEMMA CentsAreNear ==
    ASSUME NEW n \in Int, NEW d \in Int, d > 0
    PROVE  Cents(n, d) \in Int /\ 2 * (d * Cents(n, d)) <= 2 * n + d
<1>1. 2 * n + d \in Int /\ 2 * d \in Int /\ 2 * d > 0
  OBVIOUS
<1>2. PICK q : q = (2 * n + d) \div (2 * d)
  OBVIOUS
<1>3. q \in Int /\ (2 * d) * q <= 2 * n + d
  BY <1>1, <1>2
<1>4. (2 * d) * q = 2 * (d * q)
  BY <1>3
<1> QED
  BY <1>2, <1>3, <1>4 DEF Cents

\* The stake passes the cap by the rounding of a cent at most, whatever Kelly says.
LEMMA StakeIsCapped ==
    ASSUME NEW u, u.lower \in Int, NEW odds \in Int, odds > 100
    PROVE  10000 * Stake(u, odds, 0) <= Settings.bankroll * Settings.max_stake + 5000
<1> DEFINE B == Settings.bankroll
           m == Settings.max_stake
           edge == KellyEdge(u.lower, odds)
           room == B * Settings.max_daily_exposure - 10000 * 0
           fractional == Cents(B * Settings.kelly_fraction * edge, 10000 * (odds - 100))
           capped == Cents(B * m, 10000)
           left == Cents(room, 10000)
<1>1. B \in Nat /\ m \in Nat /\ B * m \in Nat
  BY AnalysisAssumption
<1>2. CASE Stake(u, odds, 0) = 0
  BY <1>1, <1>2
<1>3. CASE Stake(u, odds, 0) # 0
  <2>1. Stake(u, odds, 0) = Min({fractional, capped, left})
    BY <1>3 DEF Stake
  <2>2. fractional \in Int
    <3>1. edge \in Int
      BY DEF KellyEdge
    <3> HIDE DEF edge
    <3>2. B * Settings.kelly_fraction * edge \in Int
      BY <3>1, AnalysisAssumption
    <3>3. 10000 * (odds - 100) \in Int /\ 10000 * (odds - 100) > 0
      OBVIOUS
    <3> QED
      BY <3>2, <3>3, CentsAreNear
  <2>3. left \in Int
    <3>1. room \in Int
      BY <1>1, AnalysisAssumption
    <3> HIDE DEF room
    <3> QED
      BY <3>1, CentsAreNear
  <2>4. capped \in Int /\ 2 * (10000 * capped) <= 2 * (B * m) + 10000
    BY <1>1, CentsAreNear
  <2> HIDE DEF fractional, capped, left
  <2>5. PICK least : least = Min({fractional, capped, left})
    OBVIOUS
  <2>6. least \in Int /\ least <= capped
    <3>1. PICK x \in Int : x = fractional
      BY <2>2
    <3>2. PICK y \in Int : y = capped
      BY <2>4
    <3>3. PICK z \in Int : z = left
      BY <2>3
    <3>4. least = Min({x, y, z})
      BY <2>5, <3>1, <3>2, <3>3
    <3> QED
      BY <3>2, <3>4, MinOfThree
  <2> QED
    BY <1>1, <2>1, <2>4, <2>5, <2>6
<1> QED
  BY <1>2, <1>3

\* What passes the gate fails none of its checks.
LEMMA GateIsStrict ==
    ASSUME NEW g, GateFailures(g) = {}
    PROVE  /\ ~(g.age > Settings.max_odds_age)
           /\ g.uncertainty.status # "UNAVAILABLE"
           /\ g.uncertainty.status = "SYNTHETIC" => g.mode = "demo"
<1>1. ASSUME NEW y \in Checks(g) PROVE ~y.fails
  BY <1>1 DEF GateFailures
<1> DEFINE bounded == /\ g.uncertainty.status # "UNAVAILABLE"
                      /\ g.uncertainty.status = "SYNTHETIC" => g.mode = "demo"
           stale == g.age > Settings.max_odds_age
<1>2. /\ [code |-> "ODDS_STALE", fails |-> stale] \in Checks(g)
      /\ [code |-> "UNCERTAINTY_UNAVAILABLE", fails |-> ~bounded] \in Checks(g)
  BY Zenon DEF Checks
<1>3. ~[code |-> "ODDS_STALE", fails |-> stale].fails
  BY <1>1, <1>2
<1>4. ~[code |-> "UNCERTAINTY_UNAVAILABLE", fails |-> ~bounded].fails
  BY <1>1, <1>2
<1>5. ~stale
  BY <1>3, Zenon
<1>6. bounded
  BY <1>4, Zenon
<1> QED
  BY <1>5, <1>6

\* A payoff that can be valued is one of a bet that is sometimes decided.
LEMMA PayoffIsDecided ==
    ASSUME NEW k \in DOMAIN Predictions, NEW code, Payoff(Predictions[k], code) # NoPayoff
    PROVE  ConditionalWin(Payoff(Predictions[k], code)) \in Int
<1> DEFINE prediction == Predictions[k]
           win == prediction.win[code]
           push == IF code \in DOMAIN prediction.push THEN prediction.push[code] ELSE 0
<1>1. code \in DOMAIN prediction.win /\ win \in 1..99 /\ ~(win + push > 100)
      /\ Payoff(prediction, code) = [win |-> win, push |-> push, loss |-> 100 - win - push]
  BY DEF Payoff
<1>2. push \in Nat
  BY AnalysisAssumption
<1> HIDE DEF win, push
<1>3. 100 - win - push \in Nat
  BY <1>1, <1>2
<1>4. ConditionalWin(Payoff(prediction, code)) = (100 * win) \div (win + (100 - win - push))
  BY <1>1 DEF ConditionalWin
<1> QED
  BY <1>1, <1>2, <1>3, <1>4

\* Only demo mode claims any precision.
LEMMA OnlyDemoIsPrecise ==
    ASSUME NEW md, NEW p \in Int, NEW spread \in Nat,
           UncertaintyForMode(md, p, spread).status # "UNAVAILABLE"
    PROVE  /\ md = "demo"
           /\ UncertaintyForMode(md, p, spread).status = "SYNTHETIC"
           /\ UncertaintyForMode(md, p, spread).lower \in Int
<1>1. md = "demo" /\ spread > 0
  BY DEF UncertaintyForMode, Unavailable
<1>2. Max({1, p - spread}) \in Int
  <2>1. PICK x \in Int : x = p - spread
    OBVIOUS
  <2>2. PICK one \in Int : one = 1
    OBVIOUS
  <2>3. Max({one, x}) \in {one, x}
    BY MaxOfTwo
  <2> QED
    BY <2>1, <2>2, <2>3
<1>3. UncertaintyForMode(md, p, spread) =
        [status |-> "SYNTHETIC", lower |-> Max({1, p - spread}), upper |-> Min({99, p + spread})]
  BY <1>1 DEF UncertaintyForMode
<1> QED
  BY <1>1, <1>2, <1>3

\* The prices of a book are of one market, period and line.
LEMMA BooksAreOfOneMarket ==
    ASSUME NEW prices, NEW instant, NEW b \in AssembleBooks(prices, instant), NEW p \in b, NEW event
    PROVE  Prediction(event, CHOOSE q \in b : TRUE) = Prediction(event, p)
<1>1. PICK r \in Current(prices, instant) :
        b = {q \in Current(prices, instant) : BookKey(q) = BookKey(r)}
  BY DEF AssembleBooks
<1>2. (CHOOSE q \in b : TRUE) \in b
  OBVIOUS
<1> DEFINE q == CHOOSE q \in b : TRUE
<1> HIDE DEF q
<1>3. BookKey(q) = BookKey(p)
  BY <1>1, <1>2 DEF q
<1>4. Prediction(event, q) = Prediction(event, p)
  BY <1>3 DEF BookKey, Prediction
<1> QED
  BY <1>4 DEF q

\* A price that nothing refuses is priced by a model, in demo mode, and fresh.
LEMMA UnrefusedIsFresh ==
    ASSUME NEW p, NEW b, NEW e, NEW md, NEW models, NEW instant \in Int,
           Prediction(e, CHOOSE q \in b : TRUE) = Prediction(e, p),
           p.observed \in Int, p.odds \in Int, p.odds > 100,
           Refusals(p, b, e, md, models, instant) = {}
    PROVE  /\ md = "demo"
           /\ instant - p.observed <= Settings.max_odds_age
           /\ 10000 * Candidate(p, b, e, md, models, instant).stake
                <= Settings.bankroll * Settings.max_stake + 5000
<1> DEFINE k == Prediction(e, p)
           payoff == Payoff(Predictions[k], p.code)
           assessed == Assess(p, b, e, md, models, instant)
           u == UncertaintyForMode(md, ConditionalWin(payoff), Predictions[k].spread)
<1>1. /\ BookFailure(b, e, models) = {}
      /\ payoff # NoPayoff
      /\ GateFailures(assessed) = {}
  <2>1. BookFailure(b, e, models) = {}
    BY DEF Refusals
  <2>2. payoff # NoPayoff
    <3>1. payoff = NoPayoff => Refusals(p, b, e, md, models, instant) = {"NO_MODEL_AVAILABLE"}
      BY <2>1 DEF Refusals
    <3> QED
      BY <3>1
  <2>3. Refusals(p, b, e, md, models, instant) = GateFailures(assessed)
    BY <2>1, <2>2 DEF Refusals
  <2> QED
    BY <2>1, <2>2, <2>3
<1>2. k \in DOMAIN Predictions
  <2> HIDE DEF k
  <2>1. Prediction(e, CHOOSE q \in b : TRUE) = k
    BY DEF k
  <2> QED
    BY <1>1, <2>1 DEF BookFailure
<1>3. assessed.uncertainty = u /\ assessed.age = AgeOf(p, instant) /\ assessed.mode = md
  BY DEF Assess
<1> HIDE DEF assessed
<1>4. /\ ~(AgeOf(p, instant) > Settings.max_odds_age)
      /\ u.status # "UNAVAILABLE"
  BY <1>1, <1>3, GateIsStrict
<1>5. ConditionalWin(payoff) \in Int /\ Predictions[k].spread \in Nat
  <2> HIDE DEF k
  <2> QED
    BY <1>1, <1>2, PayoffIsDecided, AnalysisAssumption
<1> HIDE DEF payoff, k
<1>6. md = "demo" /\ u.lower \in Int
  BY <1>4, <1>5, OnlyDemoIsPrecise
<1>7. instant - p.observed <= Settings.max_odds_age
  <2>1. PICK a \in Int : a = instant - p.observed
    OBVIOUS
  <2>2. AgeOf(p, instant) = Max({0, a})
    BY <2>1 DEF AgeOf
  <2>3. Max({0, a}) \in Int /\ Max({0, a}) >= a
    <3>1. PICK zero \in Int : zero = 0
      OBVIOUS
    <3>2. Max({zero, a}) \in {zero, a} /\ Max({zero, a}) >= a
      BY MaxOfTwo
    <3> QED
      BY <3>1, <3>2
  <2>4. Settings.max_odds_age \in Int
    BY AnalysisAssumption
  <2> HIDE DEF u
  <2> QED
    BY <1>4, <2>1, <2>2, <2>3, <2>4
<1> HIDE DEF u
<1>8. Candidate(p, b, e, md, models, instant).stake = Stake(u, p.odds, 0)
  BY <1>3 DEF Candidate, assessed
<1> QED
  BY <1>6, <1>7, <1>8, StakeIsCapped

\* What an analysis publishes can be acted on.
LEMMA CandidatesAreSafe ==
    ASSUME NEW ids, NEW prices \in Seq(Quotes(ids)), ReceivedTogether(prices),
           NEW events, NEW all, NEW md, NEW models, NEW instant \in Int, NEW hours,
           NEW c \in Analyse(events, all, prices, md, models, instant, hours).candidates
    PROVE  /\ md = "demo"
           /\ c.event \in events
           /\ c.price.observed <= instant
           /\ instant - c.price.observed <= Settings.max_odds_age
           /\ \A i \in DOMAIN prices :
                 Valid(prices[i], instant) /\ QuoteKey(prices[i]) = QuoteKey(c.price)
                    => prices[i].observed <= c.price.observed
           /\ 10000 * c.stake <= Settings.bankroll * Settings.max_stake + 5000
<1> DEFINE books == AssembleBooks(prices, instant)
           scored == {b \in books : \E f \in events : f.id = EventOfBook(b)}
           eventOf(b) == CHOOSE f \in events : f.id = EventOfBook(b)
           verdictsOf(b) == {[price |-> p, book |-> b] : p \in b}
           verdicts == UNION {verdictsOf(b) : b \in scored}
           refusals(v) == Refusals(v.price, v.book, eventOf(v.book), md, models, instant)
           published == {v \in verdicts : refusals(v) = {}}
           candidateOf(v) == Candidate(v.price, v.book, eventOf(v.book), md, models, instant)
<1>1. Analyse(events, all, prices, md, models, instant, hours).candidates =
        {candidateOf(v) : v \in published}
  BY DEF Analyse
<1>2. PICK v \in published : c = candidateOf(v)
  <2> HIDE DEF candidateOf, published
  <2> QED
    BY <1>1
<1>3. v \in verdicts /\ refusals(v) = {}
  BY <1>2
<1>4. PICK b \in scored : v \in verdictsOf(b)
  <2> HIDE DEF verdictsOf, scored
  <2> QED
    BY <1>3
<1>5. PICK p \in b : v = [price |-> p, book |-> b]
  BY <1>4
<1>6. v.price = p /\ v.book = b /\ b \in books
  BY <1>4, <1>5
<1>7. eventOf(b) \in events
  BY <1>4
<1>8. p \in Current(prices, instant) /\ EventOfBook(b) = p.event
  BY <1>6, BooksCoverCurrent
<1>9. /\ Valid(p, instant)
      /\ \E i \in DOMAIN prices : p = prices[i]
      /\ \A i \in DOMAIN prices :
            Valid(prices[i], instant) /\ QuoteKey(prices[i]) = QuoteKey(p)
               => prices[i].observed <= p.observed
  BY <1>8, CurrentIsLatest
<1>10. p \in Quotes(ids)
  <2>1. DOMAIN prices = 1..Len(prices)
    OBVIOUS
  <2> QED
    BY <1>9, <2>1, ElementOfSeq
<1>11. p.observed \in Int /\ p.odds \in Int /\ p.odds > 100 /\ p.observed <= instant
  BY <1>9, <1>10 DEF Quotes, Valid
<1> DEFINE e == eventOf(b)
<1>12. Prediction(e, CHOOSE q \in b : TRUE) = Prediction(e, p)
  <2> HIDE DEF e
  <2> QED
    BY <1>6, BooksAreOfOneMarket
<1>13. /\ Refusals(p, b, e, md, models, instant) = {}
       /\ c = Candidate(p, b, e, md, models, instant)
  BY <1>2, <1>3, <1>6
<1>14. e \in events
  BY <1>7
<1> HIDE DEF e
<1>15. c.price = p /\ c.event = e
  BY <1>13 DEF Candidate
<1>16. /\ md = "demo"
       /\ instant - p.observed <= Settings.max_odds_age
       /\ 10000 * c.stake <= Settings.bankroll * Settings.max_stake + 5000
  BY <1>11, <1>12, <1>13, UnrefusedIsFresh
<1> QED
  BY <1>9, <1>11, <1>14, <1>15, <1>16

\* Every market of the provider that is mapped has a type and a period.
LEMMA MarketsAreNamed ==
    \A x \in DOMAIN MARKET_MAP : MARKET_MAP[x] \in MarketTypes \X Periods
<1>1. \A m \in MappedMarkets : m[3] \in MarketTypes /\ m[4] \in Periods
  BY DEF MappedMarkets, MarketTypes, Periods
<1> SUFFICES ASSUME NEW x \in DOMAIN MARKET_MAP
             PROVE  MARKET_MAP[x] \in MarketTypes \X Periods
  OBVIOUS
<1> DEFINE target == CHOOSE m \in MappedMarkets : <<m[1], m[2]>> = x
<1>2. /\ \E m \in MappedMarkets : <<m[1], m[2]>> = x
      /\ MARKET_MAP[x] = <<target[3], target[4]>>
  BY DEF MARKET_MAP
<1>3. target \in MappedMarkets
  BY <1>2
<1> HIDE DEF target
<1> QED
  BY <1>1, <1>2, <1>3

--------------------------------------------------------------------------------
(* A collection.                                                              *)

\* The competitions of a known sport, and the shape of an answer.
Asked == {key \in SportKeys : HasSport(key)}

Outcomes == [name : STRING, price : Int, point : Int]
Markets == [key : STRING, stamp : Int, outcomes : Seq(Outcomes)]
Books == [key : STRING, stamp : Int, markets : Seq(Markets)]

\* An answer has these fields.
LEMMA PayloadsAre == Payloads = [id : STRING, complete : BOOLEAN, start : Int, books : Seq(Books)]
BY DEF Payloads, Books, Markets, Outcomes

\* The prices of a payload are quotes that were received at the instant of the
\* collection.
ReceivedNow == {p \in Quotes(STRING) : p.received = moment}

\* The prices read off a market are quotes, received now.
LEMMA MarketPricesAreQuotes ==
    ASSUME NEW raw \in Payloads, NEW key \in Asked, NEW book \in Books, NEW market \in Markets,
           NEW shape, moment \in Int
    PROVE  MarketPrices(raw, ClassifySport(key), book, market, shape) \in Seq(ReceivedNow)
<1> DEFINE sport == ClassifySport(key)
           target == MARKET_MAP[market.key, sport]
           mapped == MapMarket(market.key, sport, market.outcomes)
           quote(i) == [provider |-> "the_odds_api", book |-> book.key, event |-> raw.id,
                 market |-> mapped[i].market, period |-> mapped[i].period,
                 line |-> mapped[i].line, code |-> mapped[i].code, odds |-> mapped[i].odds,
                 observed |-> StampOf(book, market, shape), received |-> moment]
<1>1. CASE StampOf(book, market, shape) # Unreadable /\ Mappable(market.key, sport, market.outcomes)
  <2>1. MarketPrices(raw, sport, book, market, shape) = [i \in DOMAIN mapped |-> quote(i)]
    BY <1>1, Zenon DEF MarketPrices
  <2>2. target \in MarketTypes \X Periods
    BY <1>1, MarketsAreNamed DEF Mappable
  <2>3. StampOf(book, market, shape) \in Int
    BY DEF StampOf, Books, Markets
  <2>4. /\ market.outcomes \in Seq(Outcomes) /\ market.key \in STRING
        /\ book.key \in STRING /\ raw.id \in STRING
    BY PayloadsAre DEF Markets, Books
  <2>5. /\ DOMAIN market.outcomes = 1..Len(market.outcomes)
        /\ Len(market.outcomes) \in Nat
    <3>1. PICK s \in Seq(Outcomes) : s = market.outcomes
      BY <2>4
    <3>2. DOMAIN s = 1..Len(s) /\ Len(s) \in Nat
      OBVIOUS
    <3> QED
      BY <3>1, <3>2
  <2>6. DOMAIN mapped = DOMAIN market.outcomes
    BY DEF MapMarket
  <2>7. ASSUME NEW i \in DOMAIN mapped PROVE quote(i) \in ReceivedNow
    <3>1. market.outcomes[i] \in Outcomes
      BY <2>4, <2>5, <2>6, ElementOfSeq
    <3>2. mapped[i] = [market |-> target[1], period |-> target[2],
                       code |-> market.outcomes[i].name, odds |-> market.outcomes[i].price,
                       line |-> IF target[1] \in LINE_REQUIRED_MARKETS
                                THEN market.outcomes[i].point ELSE NoLine]
      BY <2>6 DEF MapMarket
    <3> HIDE DEF mapped, target
    <3>3. /\ mapped[i].market \in MarketTypes /\ mapped[i].period \in Periods
          /\ mapped[i].code \in STRING /\ mapped[i].odds \in Int /\ mapped[i].line \in Int
      BY <2>2, <3>1, <3>2 DEF Outcomes, NoLine
    <3>4. PICK m, t, k, l, o : /\ m = mapped[i].market /\ t = mapped[i].period
                               /\ k = mapped[i].code /\ l = mapped[i].line
                               /\ o = mapped[i].odds
      OBVIOUS
    <3>5. PICK at : at = StampOf(book, market, shape)
      OBVIOUS
    <3>6. quote(i) = [provider |-> "the_odds_api", book |-> book.key, event |-> raw.id,
                      market |-> m, period |-> t, line |-> l, code |-> k, odds |-> o,
                      observed |-> at, received |-> moment]
      BY <3>4, <3>5
    <3>7. m \in MarketTypes /\ t \in Periods /\ k \in STRING /\ l \in Int /\ o \in Int /\ at \in Int
      BY <2>3, <3>3, <3>4, <3>5
    <3> HIDE DEF quote
    <3>8. quote(i) \in Quotes(STRING) /\ quote(i).received = moment
      BY <2>4, <3>6, <3>7 DEF Quotes, Providers
    <3> QED
      BY <3>8 DEF ReceivedNow
  <2> HIDE DEF quote, mapped
  <2>8. [i \in DOMAIN mapped |-> quote(i)] \in [1..Len(market.outcomes) -> ReceivedNow]
    BY <2>5, <2>6, <2>7
  <2> QED
    BY <2>1, <2>5, <2>8
<1>2. CASE ~(StampOf(book, market, shape) # Unreadable
              /\ Mappable(market.key, sport, market.outcomes))
  <2>1. MarketPrices(raw, sport, book, market, shape) = <<>>
    BY <1>2 DEF MarketPrices
  <2> QED
    BY <2>1
<1> QED
  BY <1>1, <1>2

\* And so are the prices read off an event.
LEMMA EventPricesAreQuotes ==
    ASSUME NEW raw \in Payloads, NEW key \in Asked, NEW shape, moment \in Int
    PROVE  EventPrices(raw, ClassifySport(key), shape) \in Seq(ReceivedNow)
<1> DEFINE sport == ClassifySport(key)
           books == FollowedBooks(raw)
           ofMarkets(b) == [k \in DOMAIN books[b].markets |->
                              MarketPrices(raw, sport, books[b], books[b].markets[k], shape)]
           ofBook(b) == FlattenSeq(ofMarkets(b))
           ofBooks == [b \in DOMAIN books |-> ofBook(b)]
<1>1. EventPrices(raw, sport, shape) = FlattenSeq(ofBooks)
  BY DEF EventPrices
<1>2. books \in Seq(Books)
  <2>1. raw.books \in Seq(Books)
    BY PayloadsAre
  <2>2. PICK s \in Seq(Books) : s = raw.books
    BY <2>1
  <2>3. FollowedBooks(raw) = Keep(s, {i \in DOMAIN s : Followed(s[i])})
    BY <2>2 DEF FollowedBooks, Filtered
  <2>4. PICK is \in SUBSET (DOMAIN s) : is = {i \in DOMAIN s : Followed(s[i])}
    OBVIOUS
  <2>5. PICK T : T = Books
    OBVIOUS
  <2>6. s \in Seq(T)
    BY <2>5
  <2>7. Keep(s, is) \in Seq(T)
    BY ONLY <2>4, <2>6, Kept
  <2> QED
    BY <2>3, <2>4, <2>5, <2>7
<1> HIDE DEF books
<1>3. ASSUME NEW b \in DOMAIN books PROVE ofBook(b) \in Seq(ReceivedNow)
  <2>1. books[b] \in Books
    BY <1>2, ElementOfSeq
  <2>2. books[b].markets \in Seq(Markets)
    BY <2>1 DEF Books
  <2>3. DOMAIN books[b].markets = 1..Len(books[b].markets) /\ Len(books[b].markets) \in Nat
    BY <2>2
  <2>4. ASSUME NEW k \in DOMAIN books[b].markets
        PROVE  MarketPrices(raw, sport, books[b], books[b].markets[k], shape) \in Seq(ReceivedNow)
    <3>1. books[b].markets[k] \in Markets
      BY <2>2, <2>3, ElementOfSeq
    <3> QED
      BY <2>1, <3>1, MarketPricesAreQuotes
  <2>5. ofMarkets(b) \in [1..Len(books[b].markets) -> Seq(ReceivedNow)]
    BY <2>3, <2>4
  <2>6. ofMarkets(b) \in Seq(Seq(ReceivedNow))
    BY <2>3, <2>5
  <2> HIDE DEF ofMarkets
  <2> QED
    BY <2>6, Flattened
<1> HIDE DEF ofBook
<1>4. ofBooks \in [1..Len(books) -> Seq(ReceivedNow)] /\ Len(books) \in Nat
  <2>1. DOMAIN books = 1..Len(books) /\ Len(books) \in Nat
    BY <1>2
  <2> QED
    BY <1>3, <2>1
<1>5. ofBooks \in Seq(Seq(ReceivedNow))
  BY <1>4
<1> HIDE DEF ofBooks
<1> QED
  BY <1>1, <1>5, Flattened

--------------------------------------------------------------------------------
(* The inductive invariant of a collection, and its steps.                    *)

\* What the variables of a collection hold.
Stages == {"idle", "listing", "polling", "ingesting", "extras", "raised", "ended"}
Coverages == {"OK", "NO_CANDIDATE", "COVERAGE_MISSING", "PROVIDER_ERROR"}

\* A batch whose events and prices are under some ids.
Batches(ids, prices) ==
    [provider : Providers, events : SUBSET Events(ids), prices : Seq(prices),
     coverage : Coverages]

\* No two events of a batch share an id.
OneEventPerId(b) == \A e, f \in b.events : e.id = f.id => e = f

\* The type of a collection, and its events one per id.
CollectionTyped ==
    /\ stage \in Stages
    /\ moment \in Int
    /\ queue \in Seq(Asked)
    /\ pending \in Seq(Payloads)
    /\ tally \in [attempted : Nat, failed : Nat, event : BOOLEAN, book : BOOLEAN]
    /\ batch \in Batches(STRING, ReceivedNow)
    /\ OneEventPerId(batch)
    /\ answered \subseteq [key : Asked, payload : Seq(Payloads)]

\* An answer is in hand; an event of it is still waiting; an event had something to tell.
Asking == stage \in {"ingesting", "extras"}
Waiting(t) == t.key = Key /\ \E i \in DOMAIN pending : t.raw = pending[i]
Tells(t) == EventPrices(t.raw, ClassifySport(t.key), "grouped") # <<>>

\* The tally and the batch show what an event had to show.
Treated(t) ==
    /\ tally.event
    /\ SeesBook(t.raw) => tally.book
    /\ Ingestible(t.raw) /\ Tells(t) => batch.prices # <<>>

\* The failures are the requests that were not answered.
AnswersCounted ==
    /\ tally.failed <= tally.attempted
    /\ answered = {} <=> tally.failed = tally.attempted

\* The answer in hand is one that was told, and so is the event its additional
\* markets are asked for.
AnswerInHand ==
    Asking =>
        /\ queue # <<>> /\ pending # <<>>
        /\ \A i \in DOMAIN pending : [raw |-> pending[i], key |-> Key] \in Told
        /\ stage = "extras" =>
              \E t \in Told : /\ t.raw = Head(pending) /\ t.key = Key
                             /\ SeesBook(t.raw) /\ Treated(t)

\* Every event that was told left its mark, or is still waiting.
NothingForgotten ==
    stage # "raised" => \A t \in Told : Treated(t) \/ (Asking /\ Waiting(t))

\* And every mark comes from an event that was told.
NothingInvented ==
    /\ tally.event => Told # {}
    /\ batch.prices # <<>> => \E t \in Told : Tells(t) \/ SeesBook(t.raw)

\* Nothing is told before the first competition is asked.
Untouched ==
    stage \in {"idle", "listing"} => answered = {} /\ batch = EmptyBatch /\ ~tally.event

\* A collection that ended has the coverage of what it was told.
Classified == stage = "ended" => batch.coverage = Coverage

\* The inductive invariant of a collection.
CollectionInv ==
    /\ CollectionTyped /\ AnswersCounted /\ AnswerInHand /\ NothingForgotten
    /\ NothingInvented /\ Untouched /\ Classified

\* What an answer says depends on the instant of its collection and on nothing else
\* that changes.
LEMMA Unmoved ==
    ASSUME moment' = moment
    PROVE  /\ \A t : Tells(t)' <=> Tells(t)
           /\ \A raw : (SeesBook(raw)' <=> SeesBook(raw)) /\ (Ingestible(raw)' <=> Ingestible(raw))
           /\ ReceivedNow' = ReceivedNow
<1>1. ASSUME NEW t PROVE Tells(t)' <=> Tells(t)
  BY SMT DEF Tells, EventPrices, FollowedBooks, MarketPrices, StampOf
<1>2. ASSUME NEW raw
      PROVE (SeesBook(raw)' <=> SeesBook(raw)) /\ (Ingestible(raw)' <=> Ingestible(raw))
  BY DEF SeesBook, Ingestible
<1>3. ReceivedNow' = ReceivedNow
  BY DEF ReceivedNow
<1> QED
  BY <1>1, <1>2, <1>3

\* Only competitions of a known sport are asked.
LEMMA WantedAreAsked ==
    Wanted \in Seq(Asked) /\ \A active : Selected(active) \in Seq(Asked)
<1>1. ASSUME NEW T, NEW s \in Seq(T), NEW is \in SUBSET (DOMAIN s), NEW U,
             \A i \in is : s[i] \in U
      PROVE  Keep(s, is) \in Seq(U)
  <2>1. PICK k \in Seq(T) : k = Keep(s, is)
    BY Kept
  <2>2. \A n \in DOMAIN k : k[n] \in U
    BY <1>1, <2>1, Kept
  <2>3. k \in [1..Len(k) -> U] /\ Len(k) \in Nat
    BY <2>2
  <2> QED
    BY <2>1, <2>3
<1>2. Wanted \in Seq(Asked)
  <2>1. PICK s \in Seq(SportKeys) : s = Allowlist
    BY CollectionAssumption
  <2>2. PICK is \in SUBSET (DOMAIN s) : is = {i \in DOMAIN s : HasSport(s[i])}
    OBVIOUS
  <2>3. \A i \in is : s[i] \in Asked
    BY <2>2, ElementOfSeq DEF Asked
  <2>4. Keep(s, is) \in Seq(Asked)
    BY ONLY <2>1, <2>3, <1>1
  <2> QED
    BY <2>1, <2>2, <2>4 DEF Wanted, Filtered
<1>3. ASSUME NEW active PROVE Selected(active) \in Seq(Asked)
  <2>1. PICK s \in Seq(Asked) : s = Wanted
    BY <1>2
  <2>2. PICK is \in SUBSET (DOMAIN s) : is = {i \in DOMAIN s : s[i] \in active}
    OBVIOUS
  <2>3. \A i \in is : s[i] \in Asked
    BY <2>2, ElementOfSeq
  <2>4. Keep(s, is) \in Seq(Asked)
    BY ONLY <2>1, <2>3, <1>1
  <2>5. CASE active = Unlisted
    BY <1>2, <2>5 DEF Selected
  <2>6. CASE active # Unlisted
    BY <2>1, <2>2, <2>4, <2>6 DEF Selected, Filtered
  <2> QED
    BY <2>5, <2>6
<1> QED
  BY <1>2, <1>3

\* An event that is ingested adds its prices and at most itself; an event that had
\* something to tell leaves the batch with prices, and no other event does.
LEMMA IngestedAdds ==
    ASSUME CollectionTyped, NEW raw \in Payloads, NEW key \in Asked, NEW shape
    PROVE  LET new == Ingested(raw, ClassifySport(key), shape)
               tells == Ingestible(raw) /\ EventPrices(raw, ClassifySport(key), shape) # <<>>
           IN  /\ new \in Batches(STRING, ReceivedNow)
               /\ OneEventPerId(new)
               /\ new.prices # <<>> <=> batch.prices # <<>> \/ tells
<1> DEFINE sport == ClassifySport(key)
           prices == EventPrices(raw, sport, shape)
           known == {Fingerprint(batch.prices[i]) : i \in DOMAIN batch.prices}
           fresh == Filtered(prices, LAMBDA p : Fingerprint(p) \notin known)
           events == IF \E e \in batch.events : e.id = raw.id THEN batch.events
                     ELSE batch.events \cup {CanonicalEvent(raw, sport)}
<1>1. CASE ~(Ingestible(raw) /\ prices # <<>>)
  <2>1. Ingested(raw, sport, shape) = batch
    BY <1>1 DEF Ingested, WithPrices
  <2> HIDE DEF prices
  <2> QED
    BY <1>1, <2>1 DEF CollectionTyped, prices
<1>2. CASE Ingestible(raw) /\ prices # <<>>
  <2>1. Ingested(raw, sport, shape)
          = [batch EXCEPT !.events = events, !.prices = batch.prices \o fresh]
    BY <1>2, Zenon DEF Ingested, WithPrices
  <2>2. /\ batch \in [provider : Providers, events : SUBSET Events(STRING),
                      prices : Seq(ReceivedNow), coverage : Coverages]
        /\ moment \in Int /\ OneEventPerId(batch)
    BY DEF CollectionTyped, Batches
  <2>3. PICK ps \in Seq(ReceivedNow) : ps = prices
    BY <2>2, EventPricesAreQuotes
  <2>4. PICK is \in SUBSET (DOMAIN ps) : is = {i \in DOMAIN ps : Fingerprint(ps[i]) \notin known}
    OBVIOUS
  <2>5. fresh = Keep(ps, is)
    BY <2>3, <2>4 DEF Filtered
  <2> HIDE DEF prices, fresh
  <2>6. fresh \in Seq(ReceivedNow) /\ (fresh = <<>> <=> is = {})
    BY <2>3, <2>4, <2>5, Kept
  <2>7. PICK bs \in Seq(ReceivedNow) : bs = batch.prices
    BY <2>2
  <2>8. bs \o fresh \in Seq(ReceivedNow) /\ (bs # <<>> => bs \o fresh # <<>>)
    BY <2>6
  <2>9. bs = <<>> => bs \o fresh # <<>>
    <3>1. ASSUME bs = <<>> PROVE is # {}
      <4>1. known = {}
        BY <2>7, <3>1
      <4>2. 1 \in DOMAIN ps
        BY <1>2, <2>3
      <4> QED
        BY <2>4, <4>1, <4>2
    <3> HIDE DEF known
    <3> QED
      BY <2>6, <3>1
  <2>10. CanonicalEvent(raw, sport) \in Events(STRING) /\ CanonicalEvent(raw, sport).id = raw.id
    <3>1. sport \in Sports
      BY MappingAssumption DEF Asked, HasSport, ClassifySport, Sports
    <3>2. raw.id \in STRING /\ raw.start \in Int
      BY PayloadsAre
    <3> HIDE DEF sport
    <3> QED
      BY <3>1, <3>2 DEF CanonicalEvent, Events, EventStatuses
  <2>11. events \in SUBSET Events(STRING) /\ \A e, f \in events : e.id = f.id => e = f
    BY <2>2, <2>10 DEF OneEventPerId
  <2> HIDE DEF events
  <2>12. PICK b : b = Ingested(raw, sport, shape)
    OBVIOUS
  <2>13. /\ b \in [provider : Providers, events : SUBSET Events(STRING),
                   prices : Seq(ReceivedNow), coverage : Coverages]
         /\ b.events = events /\ b.prices = bs \o fresh
    BY <2>1, <2>2, <2>7, <2>8, <2>11, <2>12
  <2>14. b.prices # <<>>
    BY <2>8, <2>9, <2>13
  <2> QED
    BY <1>2, <2>11, <2>12, <2>13, <2>14 DEF Batches, OneEventPerId, prices
<1> QED
  BY <1>1, <1>2

\* A collection that is not running.
LEMMA IdleCollection ==
    ASSUME stage = "idle", queue = <<>>, pending = <<>>, tally = NothingTallied,
           batch = EmptyBatch, answered = {}, moment \in Int
    PROVE  CollectionInv
<1>1. /\ tally \in [attempted : Nat, failed : Nat, event : BOOLEAN, book : BOOLEAN]
      /\ tally.attempted = 0 /\ tally.failed = 0 /\ ~tally.event
  BY DEF NothingTallied
<1>2. batch \in Batches(STRING, ReceivedNow) /\ batch.events = {} /\ batch.prices = <<>>
  BY DEF EmptyBatch, Batches, Providers, Coverages
<1>3. CollectionTyped
  BY <1>1, <1>2 DEF CollectionTyped, Stages, OneEventPerId
<1>4. Told = {}
  BY DEF Told
<1> QED
  BY <1>1, <1>2, <1>3, <1>4
  DEF CollectionInv, AnswersCounted, AnswerInHand, NothingForgotten, NothingInvented, Untouched,
      Classified, Asking

\* A collection that is dropped, and the charge of another process.
LEMMA ReleasedKeeps ==
    ASSUME Released PROVE CollectionInv'
<1>1. /\ stage' = "idle" /\ queue' = <<>> /\ pending' = <<>> /\ tally' = NothingTallied
      /\ batch' = EmptyBatch /\ answered' = {} /\ moment' = 0
  BY DEF Released
<1>2. /\ tally' \in [attempted : Nat, failed : Nat, event : BOOLEAN, book : BOOLEAN]
      /\ tally'.attempted = 0 /\ tally'.failed = 0 /\ ~tally'.event
  BY <1>1 DEF NothingTallied
<1>3. batch' \in Batches(STRING, ReceivedNow') /\ batch'.events = {} /\ batch'.prices = <<>>
  BY <1>1 DEF EmptyBatch, Batches, Providers, Coverages
<1>4. CollectionTyped'
  BY <1>1, <1>2, <1>3 DEF CollectionTyped, Stages, OneEventPerId
<1>5. Told' = {}
  BY <1>1 DEF Told
<1> QED
  BY <1>1, <1>2, <1>3, <1>4, <1>5
  DEF CollectionInv, AnswersCounted, AnswerInHand, NothingForgotten, NothingInvented, Untouched,
      Classified, Asking

\* The invariant says nothing of the budgets.
LEMMA BudgetsAside ==
    ASSUME CollectionInv,
           UNCHANGED <<stage, moment, queue, pending, tally, batch, answered>>
    PROVE  CollectionInv'
<1>1. /\ \A t : Tells(t)' <=> Tells(t)
      /\ \A raw : (SeesBook(raw)' <=> SeesBook(raw)) /\ (Ingestible(raw)' <=> Ingestible(raw))
      /\ ReceivedNow' = ReceivedNow
  BY Unmoved
<1>2. /\ Told' = Told /\ Asking' = Asking /\ Key' = Key /\ Coverage' = Coverage
      /\ \A t : Waiting(t)' <=> Waiting(t)
  BY DEF Told, Asking, Key, Coverage, Waiting
<1>3. \A t : Treated(t)' <=> Treated(t)
  BY <1>1 DEF Treated
<1>4. CollectionTyped'
  BY <1>1 DEF CollectionInv, CollectionTyped, OneEventPerId
<1>5. AnswersCounted' /\ Untouched' /\ Classified'
  BY <1>2 DEF CollectionInv, AnswersCounted, Untouched, Classified
<1>6. AnswerInHand'
  BY <1>1, <1>2, <1>3 DEF CollectionInv, AnswerInHand
<1>7. NothingForgotten' /\ NothingInvented'
  BY <1>1, <1>2, <1>3 DEF CollectionInv, NothingForgotten, NothingInvented
<1> QED
  BY <1>4, <1>5, <1>6, <1>7 DEF CollectionInv

\* A collection that starts.
LEMMA StartKeeps ==
    ASSUME CollectionInv, NEW instant \in Int, StartCollection(instant)
    PROVE  CollectionInv'
<1>1. /\ stage = "idle" /\ stage' = "listing" /\ moment' = instant
      /\ UNCHANGED <<queue, pending, tally, batch, answered>>
  BY DEF StartCollection
<1>2. answered = {} /\ batch = EmptyBatch /\ ~tally.event
  BY <1>1 DEF CollectionInv, Untouched
<1>3. batch' \in Batches(STRING, ReceivedNow') /\ batch.events = {} /\ batch.prices = <<>>
  BY <1>1, <1>2 DEF EmptyBatch, Batches, Providers, Coverages
<1>4. CollectionTyped'
  BY <1>1, <1>2, <1>3 DEF CollectionInv, CollectionTyped, Stages, OneEventPerId
<1>5. Told' = {}
  BY <1>1, <1>2 DEF Told
<1> QED
  BY <1>1, <1>2, <1>3, <1>4, <1>5
  DEF CollectionInv, AnswersCounted, AnswerInHand, NothingForgotten, NothingInvented, Untouched,
      Classified, Asking

\* Before the first competition is asked, and when an authentication error leaves.
LEMMA ListingKeeps ==
    ASSUME CollectionInv, SportKeysToPoll PROVE CollectionInv'
<1>1. /\ stage = "listing" /\ stage' = "polling"
      /\ UNCHANGED <<moment, pending, tally, batch, answered>>
  BY DEF SportKeysToPoll
<1>2. answered = {} /\ batch = EmptyBatch /\ ~tally.event
  BY <1>1 DEF CollectionInv, Untouched
<1>3. queue' \in Seq(Asked)
  BY WantedAreAsked DEF SportKeysToPoll
<1>4. ReceivedNow' = ReceivedNow
  BY <1>1, Unmoved
<1>5. CollectionTyped'
  BY <1>1, <1>3, <1>4 DEF CollectionInv, CollectionTyped, Stages, OneEventPerId
<1>6. Told' = {} /\ batch'.prices = <<>>
  BY <1>1, <1>2 DEF Told, EmptyBatch
<1> QED
  BY <1>1, <1>2, <1>5, <1>6
  DEF CollectionInv, AnswersCounted, AnswerInHand, NothingForgotten, NothingInvented, Untouched,
      Classified, Asking

\* An authentication error leaves the collection.
LEMMA RaisedKeeps ==
    ASSUME CollectionInv, RaiseAuthError PROVE CollectionInv'
<1>1. /\ stage' = "raised"
      /\ UNCHANGED <<moment, queue, pending, tally, batch, answered>>
  BY DEF RaiseAuthError
<1>2. /\ \A t : Tells(t)' <=> Tells(t)
      /\ \A raw : SeesBook(raw)' <=> SeesBook(raw)
      /\ ReceivedNow' = ReceivedNow
  BY <1>1, Unmoved
<1>3. Told' = Told
  BY <1>1 DEF Told
<1>4. CollectionTyped'
  BY <1>1, <1>2 DEF CollectionInv, CollectionTyped, Stages, OneEventPerId
<1>5. NothingInvented'
  BY <1>1, <1>2, <1>3 DEF CollectionInv, NothingInvented
<1> QED
  BY <1>1, <1>4, <1>5
  DEF CollectionInv, AnswersCounted, AnswerInHand, NothingForgotten, Untouched, Classified, Asking

\* A collection that ends takes the coverage of its tally.
LEMMA EndKeeps ==
    ASSUME CollectionInv, EndCollection PROVE CollectionInv'
<1>1. /\ stage = "polling" /\ stage' = "ended"
      /\ batch' = [batch EXCEPT !.coverage = Coverage]
      /\ UNCHANGED <<moment, queue, pending, tally, answered>>
  BY DEF EndCollection
<1>2. /\ \A t : Tells(t)' <=> Tells(t)
      /\ \A raw : (SeesBook(raw)' <=> SeesBook(raw)) /\ (Ingestible(raw)' <=> Ingestible(raw))
      /\ ReceivedNow' = ReceivedNow
  BY <1>1, Unmoved
<1>3. Coverage \in Coverages
  BY DEF Coverage, Coverages
<1>4. batch \in [provider : Providers, events : SUBSET Events(STRING),
                 prices : Seq(ReceivedNow), coverage : Coverages]
  BY DEF CollectionInv, CollectionTyped, Batches
<1>5. /\ batch' \in Batches(STRING, ReceivedNow)
      /\ batch'.events = batch.events /\ batch'.prices = batch.prices
      /\ batch'.coverage = Coverage
  BY <1>1, <1>3, <1>4 DEF Batches
<1>6. Coverage' = Coverage
  BY <1>1, <1>5 DEF Coverage
<1>7. Told' = Told
  BY <1>1 DEF Told
<1>8. CollectionTyped'
  BY <1>1, <1>2, <1>5 DEF CollectionInv, CollectionTyped, Stages, OneEventPerId
<1>9. \A t : Treated(t)' <=> Treated(t)
  BY <1>1, <1>2, <1>5 DEF Treated
<1>10. NothingForgotten' /\ NothingInvented'
  BY <1>1, <1>2, <1>5, <1>7, <1>9 DEF CollectionInv, NothingForgotten, NothingInvented, Asking
<1> QED
  BY <1>1, <1>5, <1>6, <1>8, <1>10
  DEF CollectionInv, AnswersCounted, AnswerInHand, Untouched, Classified, Asking

\* A competition that is refused or fails is counted as failed.
LEMMA FailureKeeps ==
    ASSUME CollectionInv, CompetitionRefused \/ CompetitionFails PROVE CollectionInv'
<1>1. /\ stage = "polling" /\ stage' = "polling" /\ queue # <<>>
      /\ queue' = Tail(queue)
      /\ tally' = [tally EXCEPT !.attempted = @ + 1, !.failed = @ + 1]
      /\ UNCHANGED <<moment, pending, batch, answered>>
  BY DEF CompetitionRefused, CompetitionFails, NextCompetition
<1>2. /\ \A t : Tells(t)' <=> Tells(t)
      /\ \A raw : (SeesBook(raw)' <=> SeesBook(raw)) /\ (Ingestible(raw)' <=> Ingestible(raw))
      /\ ReceivedNow' = ReceivedNow
  BY <1>1, Unmoved
<1>3. tally \in [attempted : Nat, failed : Nat, event : BOOLEAN, book : BOOLEAN]
  BY DEF CollectionInv, CollectionTyped
<1>4. /\ tally' \in [attempted : Nat, failed : Nat, event : BOOLEAN, book : BOOLEAN]
      /\ tally'.attempted = tally.attempted + 1 /\ tally'.failed = tally.failed + 1
      /\ tally'.event = tally.event /\ tally'.book = tally.book
  <2>1. PICK a \in Nat, f \in Nat : a = tally.attempted + 1 /\ f = tally.failed + 1
    BY <1>3
  <2>2. tally' = [attempted |-> a, failed |-> f, event |-> tally.event, book |-> tally.book]
    BY <1>1, <1>3, <2>1, Zenon
  <2> QED
    BY <1>3, <2>1, <2>2, Zenon
<1>5. queue' \in Seq(Asked)
  BY <1>1 DEF CollectionInv, CollectionTyped
<1>6. Told' = Told
  BY <1>1 DEF Told
<1>7. CollectionTyped'
  BY <1>1, <1>2, <1>4, <1>5 DEF CollectionInv, CollectionTyped, OneEventPerId
<1>8. AnswersCounted'
  BY <1>1, <1>3, <1>4 DEF CollectionInv, AnswersCounted
<1>9. \A t : Treated(t)' <=> Treated(t)
  BY <1>1, <1>2, <1>4 DEF Treated
<1>10. NothingForgotten' /\ NothingInvented'
  BY <1>1, <1>2, <1>4, <1>6, <1>9 DEF CollectionInv, NothingForgotten, NothingInvented, Asking
<1> QED
  BY <1>1, <1>7, <1>8, <1>10 DEF CollectionInv, AnswerInHand, Untouched, Classified, Asking

\* A competition that answers is told with its events, which are then in hand.
LEMMA AnswerKeeps ==
    ASSUME CollectionInv, CompetitionAnswers PROVE CollectionInv'
<1>1. /\ stage = "polling" /\ queue # <<>>
      /\ tally' = [tally EXCEPT !.attempted = @ + 1]
      /\ UNCHANGED <<moment, batch>>
  BY DEF CompetitionAnswers
<1>2. PICK payload \in Answers[Key] :
        /\ answered' = answered \cup {[key |-> Key, payload |-> payload]}
        /\ pending' = payload
        /\ IF payload = <<>> THEN queue' = Tail(queue) /\ stage' = stage
           ELSE queue' = queue /\ stage' = "ingesting"
  BY DEF CompetitionAnswers
<1>3. /\ \A t : Tells(t)' <=> Tells(t)
      /\ \A raw : (SeesBook(raw)' <=> SeesBook(raw)) /\ (Ingestible(raw)' <=> Ingestible(raw))
      /\ ReceivedNow' = ReceivedNow
  BY <1>1, Unmoved
<1>4. Key \in Asked
  <2>1. queue \in Seq(Asked)
    BY DEF CollectionInv, CollectionTyped
  <2> QED
    BY <1>1, <2>1 DEF Key
<1>5. payload \in Seq(Payloads)
  BY <1>2, <1>4, CollectionAssumption DEF Asked, HasSport, ClassifySport
<1>6. tally \in [attempted : Nat, failed : Nat, event : BOOLEAN, book : BOOLEAN]
  BY DEF CollectionInv, CollectionTyped
<1>7. /\ tally' \in [attempted : Nat, failed : Nat, event : BOOLEAN, book : BOOLEAN]
      /\ tally'.attempted = tally.attempted + 1 /\ tally'.failed = tally.failed
      /\ tally'.event = tally.event /\ tally'.book = tally.book
  <2>1. PICK a \in Nat, f \in Nat : a = tally.attempted + 1 /\ f = tally.failed
    BY <1>6
  <2>2. tally' = [attempted |-> a, failed |-> f, event |-> tally.event, book |-> tally.book]
    BY <1>1, <1>6, <2>1, Zenon
  <2> QED
    BY <1>6, <2>1, <2>2, Zenon
<1>8. queue' \in Seq(Asked) /\ stage' \in {"polling", "ingesting"}
  <2>1. PICK q \in Seq(Asked) : q = queue /\ q # <<>>
    BY <1>1 DEF CollectionInv, CollectionTyped
  <2>2. Tail(q) \in Seq(Asked)
    BY <2>1
  <2> QED
    BY <1>1, <1>2, <2>1, <2>2
<1>9. CollectionTyped'
  <2>1. [key |-> Key, payload |-> payload] \in [key : Asked, payload : Seq(Payloads)]
    BY <1>4, <1>5
  <2>2. answered' \subseteq [key : Asked, payload : Seq(Payloads)]
    BY <1>2, <2>1 DEF CollectionInv, CollectionTyped
  <2> QED
    BY <1>1, <1>2, <1>3, <1>5, <1>7, <1>8, <2>2
    DEF CollectionInv, CollectionTyped, Stages, OneEventPerId
<1>10. AnswersCounted'
  <2>1. answered' # {} /\ tally.failed <= tally.attempted
    BY <1>2 DEF CollectionInv, AnswersCounted
  <2>2. tally'.failed <= tally'.attempted /\ tally'.failed # tally'.attempted
    <3>1. PICK a \in Nat, f \in Nat : a = tally.attempted /\ f = tally.failed
      BY <1>6
    <3> QED
      BY <1>7, <2>1, <3>1
  <2> QED
    BY <2>1, <2>2 DEF AnswersCounted
<1>11. \A t : Treated(t)' <=> Treated(t)
  BY <1>1, <1>3, <1>7 DEF Treated
<1>12. Told' = Told \cup {[raw |-> payload[i], key |-> Key] : i \in DOMAIN payload}
  <2>1. PICK new : new = [key |-> Key, payload |-> payload]
    OBVIOUS
  <2>2. PICK old, all : old = answered /\ all = answered' /\ all = old \cup {new}
    BY <1>2, <2>1
  <2> DEFINE of(a) == {[raw |-> a.payload[i], key |-> a.key] : i \in DOMAIN a.payload}
  <2>3. of(new) = {[raw |-> payload[i], key |-> Key] : i \in DOMAIN payload}
    BY <2>1
  <2>4. Told = UNION {of(a) : a \in old} /\ Told' = UNION {of(a) : a \in all}
    BY <2>2 DEF Told
  <2> HIDE DEF of
  <2>5. PICK A, B, C : A = Told' /\ B = Told /\ C = of(new)
    OBVIOUS
  <2>6. \A t : t \in A <=> \E a \in all : t \in of(a)
    BY <2>4, <2>5
  <2>7. \A t : t \in B <=> \E a \in old : t \in of(a)
    BY <2>4, <2>5
  <2>8. \A t : t \in A <=> t \in B \/ t \in C
    BY ONLY <2>2, <2>5, <2>6, <2>7, Zenon
  <2>9. A = B \cup C
    BY ONLY <2>8
  <2> QED
    BY <2>3, <2>5, <2>9
<1>13. stage' = "ingesting" =>
         /\ queue' # <<>> /\ pending' # <<>> /\ Key' = Key
  BY <1>1, <1>2 DEF Key
<1>14. AnswerInHand'
  <2>1. ASSUME Asking'
        PROVE  /\ queue' # <<>> /\ pending' # <<>>
               /\ \A i \in DOMAIN pending' : [raw |-> pending'[i], key |-> Key'] \in Told'
    <3>1. stage' = "ingesting"
      BY <1>8, <2>1 DEF Asking
    <3> QED
      BY <1>2, <1>12, <1>13, <3>1
  <2> QED
    BY <1>8, <2>1 DEF AnswerInHand, Asking
<1>15. NothingForgotten'
  <2> SUFFICES ASSUME NEW t \in Told' PROVE Treated(t)' \/ (Asking' /\ Waiting(t)')
    BY DEF NothingForgotten
  <2>1. CASE t \in Told
    BY <1>1, <1>11, <2>1 DEF CollectionInv, NothingForgotten, Asking
  <2>2. CASE t \notin Told
    <3>1. PICK i \in DOMAIN payload : t = [raw |-> payload[i], key |-> Key]
      BY <1>12, <2>2
    <3>2. payload # <<>>
      BY <3>1
    <3>3. stage' = "ingesting" /\ Key' = Key
      BY <1>2, <1>13, <3>2
    <3> QED
      BY <1>2, <3>1, <3>3 DEF Asking, Waiting
  <2> QED
    BY <2>1, <2>2
<1>16. NothingInvented'
  BY <1>1, <1>3, <1>7, <1>12 DEF CollectionInv, NothingInvented
<1> QED
  BY <1>8, <1>9, <1>10, <1>14, <1>15, <1>16 DEF CollectionInv, Untouched, Classified

\* The next event is in hand, or the next competition is asked: whatever was not
\* looked at yet is still waiting.
LEMMA NextEventWaits ==
    ASSUME CollectionInv, Asking, NextEvent
    PROVE  /\ queue' \in Seq(Asked) /\ pending' \in Seq(Payloads)
           /\ stage' \in {"polling", "ingesting"}
           /\ Asking' => /\ queue' # <<>> /\ pending' # <<>> /\ Key' = Key
                         /\ \A i \in DOMAIN pending' : \E j \in DOMAIN pending :
                              pending'[i] = pending[j]
           /\ \A t : Waiting(t) => t.raw = Head(pending) \/ (Asking' /\ Waiting(t)')
<1>1. PICK p \in Seq(Payloads), q \in Seq(Asked) :
        p = pending /\ q = queue /\ p # <<>> /\ q # <<>>
  BY DEF CollectionInv, CollectionTyped, AnswerInHand
<1>2. /\ pending' = Tail(p)
      /\ IF Len(p) = 1 THEN stage' = "polling" /\ queue' = Tail(q)
         ELSE stage' = "ingesting" /\ queue' = q
  BY <1>1 DEF NextEvent
<1>3. /\ Tail(p) \in Seq(Payloads) /\ Tail(q) \in Seq(Asked)
      /\ Len(Tail(p)) = Len(p) - 1 /\ Len(p) \in Nat \ {0}
      /\ \A i \in 1..Len(p) - 1 : Tail(p)[i] = p[i + 1]
      /\ Head(p) = p[1] /\ DOMAIN p = 1..Len(p) /\ DOMAIN Tail(p) = 1..Len(p) - 1
  BY <1>1
<1>4. /\ queue' \in Seq(Asked) /\ pending' \in Seq(Payloads)
      /\ stage' \in {"polling", "ingesting"}
  BY <1>2, <1>3
<1>5. Asking' => Len(p) # 1 /\ queue' = q /\ Key' = Key
  BY <1>1, <1>2 DEF Asking, Key
<1>6. Asking' => /\ queue' # <<>> /\ pending' # <<>>
                 /\ \A i \in DOMAIN pending' : \E j \in DOMAIN pending : pending'[i] = pending[j]
  <2> SUFFICES ASSUME Asking' PROVE /\ queue' # <<>> /\ pending' # <<>>
                 /\ \A i \in DOMAIN pending' : \E j \in DOMAIN pending : pending'[i] = pending[j]
    OBVIOUS
  <2>1. Len(p) # 1 /\ queue' = q
    BY <1>5
  <2>2. pending' # <<>>
    <3>1. PICK rest \in Seq(Payloads) : rest = Tail(p)
      BY <1>3
    <3>2. rest # <<>>
      <4>1. Len(rest) = Len(p) - 1 /\ Len(p) \in Nat /\ Len(p) # 1
        BY <1>3, <2>1, <3>1
      <4> QED
        BY <4>1
    <3> QED
      BY <1>2, <3>1, <3>2
  <2>3. ASSUME NEW i \in DOMAIN pending' PROVE \E j \in DOMAIN pending : pending'[i] = pending[j]
    <3>1. i \in 1..Len(p) - 1 /\ pending'[i] = p[i + 1]
      BY <1>2, <1>3, <2>3
    <3>2. i + 1 \in 1..Len(p)
      BY <1>3, <3>1
    <3> QED
      BY <1>1, <1>3, <3>1, <3>2
  <2> QED
    BY <1>1, <2>1, <2>2, <2>3
<1>7. ASSUME NEW t, Waiting(t), t.raw # Head(pending) PROVE Asking' /\ Waiting(t)'
  <2>1. PICK i \in 1..Len(p) : t.raw = p[i] /\ t.key = Key
    BY <1>1, <1>3, <1>7 DEF Waiting
  <2>2. i # 1
    BY <1>1, <1>3, <1>7, <2>1
  <2>3. i - 1 \in 1..Len(p) - 1 /\ Len(p) # 1
    BY <1>3, <2>1, <2>2
  <2>4. i - 1 \in DOMAIN pending' /\ pending'[i - 1] = t.raw
    BY <1>2, <1>3, <2>1, <2>3
  <2>5. Asking'
    BY <1>2, <2>3 DEF Asking
  <2> QED
    BY <1>5, <2>1, <2>4, <2>5 DEF Waiting
<1> QED
  BY <1>4, <1>5, <1>6, <1>7

\* An event in hand is treated, and it stays in hand while its additional markets are
\* asked for.
LEMMA IngestKeeps ==
    ASSUME CollectionInv, IngestEvent PROVE CollectionInv'
<1>0. PICK raw, key : raw = Head(pending) /\ key = Key
  OBVIOUS
<1> DEFINE head == [raw |-> raw, key |-> key]
<1>1. /\ stage = "ingesting" /\ Asking
      /\ batch' = Ingested(raw, Sport, "grouped")
      /\ tally' = [tally EXCEPT !.event = TRUE, !.book = @ \/ SeesBook(raw)]
      /\ IF SeesBook(raw) /\ AdditionalMarkets(Sport) # {}
         THEN stage' = "extras" /\ UNCHANGED <<pending, queue>>
         ELSE NextEvent
      /\ UNCHANGED <<moment, answered>>
  BY <1>0 DEF IngestEvent, Asking
<1>2. /\ \A t : Tells(t)' <=> Tells(t)
      /\ \A r : (SeesBook(r)' <=> SeesBook(r)) /\ (Ingestible(r)' <=> Ingestible(r))
      /\ ReceivedNow' = ReceivedNow
  BY <1>1, Unmoved
<1>3. Told' = Told
  BY <1>1 DEF Told
<1>4. PICK p \in Seq(Payloads), q \in Seq(Asked) :
        p = pending /\ q = queue /\ p # <<>> /\ q # <<>>
  BY <1>1 DEF CollectionInv, CollectionTyped, AnswerInHand
<1>5. raw \in Payloads /\ key \in Asked /\ 1 \in DOMAIN pending /\ raw = pending[1]
  BY <1>0, <1>4 DEF Key
<1>6. head \in Told
  BY <1>0, <1>1, <1>5 DEF CollectionInv, AnswerInHand
<1>7. /\ batch' \in Batches(STRING, ReceivedNow)
      /\ OneEventPerId(batch')
      /\ batch'.prices # <<>> <=> batch.prices # <<>> \/ (Ingestible(raw) /\ Tells(head))
  <2>1. CollectionTyped /\ Sport = ClassifySport(key)
    BY <1>0 DEF CollectionInv, Sport
  <2>2. EventPrices(raw, ClassifySport(key), "grouped") # <<>> <=> Tells(head)
    BY DEF Tells
  <2> QED
    BY <1>1, <1>5, <2>1, <2>2, IngestedAdds
<1>8. tally \in [attempted : Nat, failed : Nat, event : BOOLEAN, book : BOOLEAN]
  BY DEF CollectionInv, CollectionTyped
<1>9. /\ tally' \in [attempted : Nat, failed : Nat, event : BOOLEAN, book : BOOLEAN]
      /\ tally'.attempted = tally.attempted /\ tally'.failed = tally.failed
      /\ tally'.event /\ (tally.book => tally'.book) /\ (SeesBook(raw) => tally'.book)
  <2>1. PICK s \in BOOLEAN : s <=> SeesBook(raw)
    OBVIOUS
  <2>2. tally.book \/ SeesBook(raw) \in BOOLEAN
    BY DEF SeesBook
  <2>3. /\ tally'.attempted = tally.attempted /\ tally'.failed = tally.failed
        /\ tally'.event = TRUE /\ tally'.book = (tally.book \/ SeesBook(raw))
        /\ tally' = [attempted |-> tally.attempted, failed |-> tally.failed,
                     event |-> TRUE, book |-> tally.book \/ SeesBook(raw)]
    BY <1>1, <1>8, Zenon
  <2> QED
    BY <1>8, <2>2, <2>3, Zenon
<1>10. \A t : Treated(t) \/ t = head => Treated(t)'
  BY <1>1, <1>2, <1>7, <1>9 DEF Treated
<1>11. /\ queue' \in Seq(Asked) /\ pending' \in Seq(Payloads)
       /\ stage' \in {"polling", "ingesting", "extras"}
       /\ Asking' => /\ queue' # <<>> /\ pending' # <<>> /\ Key' = Key
                     /\ \A i \in DOMAIN pending' : \E j \in DOMAIN pending :
                          pending'[i] = pending[j]
       /\ \A t : Waiting(t) => t.raw = raw \/ (Asking' /\ Waiting(t)')
       /\ stage' = "extras" => SeesBook(raw) /\ pending' = pending /\ Key' = key
  <2>1. CASE SeesBook(raw) /\ AdditionalMarkets(Sport) # {}
    <3>1. stage' = "extras" /\ pending' = pending /\ queue' = queue
      BY <1>1, <2>1
    <3>2. Key' = Key /\ Asking' /\ \A t : Waiting(t) => Waiting(t)'
      BY <3>1 DEF Key, Asking, Waiting
    <3> QED
      BY <1>0, <1>4, <2>1, <3>1, <3>2
  <2>2. CASE ~(SeesBook(raw) /\ AdditionalMarkets(Sport) # {})
    <3>1. NextEvent
      BY <1>1, <2>2
    <3> QED
      BY <1>0, <1>1, <3>1, NextEventWaits
  <2> QED
    BY <2>1, <2>2
<1>12. CollectionTyped'
  BY <1>1, <1>2, <1>7, <1>9, <1>11 DEF CollectionInv, CollectionTyped, Stages, OneEventPerId
<1>13. AnswersCounted'
  BY <1>1, <1>9 DEF CollectionInv, AnswersCounted
<1>14. AnswerInHand'
  <2>1. Asking' => /\ queue' # <<>> /\ pending' # <<>>
                   /\ \A i \in DOMAIN pending' : [raw |-> pending'[i], key |-> Key'] \in Told'
    BY <1>1, <1>3, <1>11 DEF CollectionInv, AnswerInHand
  <2>2. ASSUME stage' = "extras"
        PROVE  \E t \in Told' : /\ t.raw = Head(pending') /\ t.key = Key'
                                /\ SeesBook(t.raw)' /\ Treated(t)'
    <3>1. PICK t : t = head
      OBVIOUS
    <3>2. t \in Told' /\ t.raw = raw /\ t.key = key /\ Treated(t)' /\ SeesBook(raw)'
      BY <1>2, <1>3, <1>6, <1>10, <1>11, <2>2, <3>1
    <3>3. SeesBook(t.raw)'
      BY <3>2
    <3> QED
      BY <1>0, <1>11, <2>2, <3>2, <3>3
  <2> QED
    BY <2>1, <2>2 DEF AnswerInHand
<1>15. NothingForgotten'
  <2> SUFFICES ASSUME NEW t \in Told' PROVE Treated(t)' \/ (Asking' /\ Waiting(t)')
    BY DEF NothingForgotten
  <2>1. Treated(t) \/ Waiting(t)
    BY <1>1, <1>3 DEF CollectionInv, NothingForgotten
  <2>2. Waiting(t) /\ t.raw = raw => t = head
    <3>1. PICK r, k : t = [raw |-> r, key |-> k]
      BY <1>3 DEF Told
    <3> QED
      BY <1>0, <3>1 DEF Waiting
  <2> QED
    BY <1>10, <1>11, <2>1, <2>2
<1>16. NothingInvented'
  BY <1>1, <1>2, <1>3, <1>6, <1>7 DEF CollectionInv, NothingInvented
<1> QED
  BY <1>11, <1>12, <1>13, <1>14, <1>15, <1>16 DEF CollectionInv, Untouched, Classified

\* The additional markets of an event come on top of what it told, or not at all.
LEMMA ExtrasKeep ==
    ASSUME CollectionInv, ExtrasSkipped \/ ExtrasFail \/ ExtrasAnswer PROVE CollectionInv'
<1>0. PICK raw, key : raw = Head(pending) /\ key = Key
  OBVIOUS
<1>1. /\ stage = "extras" /\ Asking /\ NextEvent
      /\ UNCHANGED <<moment, tally, answered>>
      /\ batch' = batch \/ \E payload \in ExtraAnswers :
            payload # <<>> /\ batch' = Ingested(payload[1], Sport, "event")
  BY DEF ExtrasSkipped, ExtrasFail, ExtrasAnswer, Asking
<1>2. /\ \A t : Tells(t)' <=> Tells(t)
      /\ \A r : (SeesBook(r)' <=> SeesBook(r)) /\ (Ingestible(r)' <=> Ingestible(r))
      /\ ReceivedNow' = ReceivedNow
  BY <1>1, Unmoved
<1>3. Told' = Told
  BY <1>1 DEF Told
<1>4. PICK head \in Told : /\ head.raw = raw /\ head.key = key
                           /\ SeesBook(raw) /\ Treated(head)
  BY <1>0, <1>1 DEF CollectionInv, AnswerInHand
<1>5. key \in Asked
  <2>1. queue \in Seq(Asked) /\ queue # <<>>
    BY <1>1 DEF CollectionInv, CollectionTyped, AnswerInHand
  <2> QED
    BY <1>0, <2>1 DEF Key
<1>6. /\ batch' \in Batches(STRING, ReceivedNow)
      /\ OneEventPerId(batch')
      /\ batch.prices # <<>> => batch'.prices # <<>>
  <2>1. CASE batch' = batch
    BY <2>1 DEF CollectionInv, CollectionTyped
  <2>2. CASE batch' # batch
    <3>1. PICK payload \in ExtraAnswers :
            payload # <<>> /\ batch' = Ingested(payload[1], Sport, "event")
      BY <1>1, <2>2
    <3>2. payload[1] \in Payloads
      BY <3>1, CollectionAssumption
    <3>3. CollectionTyped /\ Sport = ClassifySport(key)
      BY <1>0 DEF CollectionInv, Sport
    <3> QED
      BY <1>5, <3>1, <3>2, <3>3, IngestedAdds
  <2> QED
    BY <2>1, <2>2
<1>7. \A t : Treated(t) => Treated(t)'
  BY <1>1, <1>2, <1>6 DEF Treated
<1>8. /\ queue' \in Seq(Asked) /\ pending' \in Seq(Payloads)
      /\ stage' \in {"polling", "ingesting"}
      /\ Asking' => /\ queue' # <<>> /\ pending' # <<>> /\ Key' = Key
                    /\ \A i \in DOMAIN pending' : \E j \in DOMAIN pending :
                         pending'[i] = pending[j]
      /\ \A t : Waiting(t) => t.raw = raw \/ (Asking' /\ Waiting(t)')
  BY <1>0, <1>1, NextEventWaits
<1>9. CollectionTyped'
  BY <1>1, <1>2, <1>6, <1>8 DEF CollectionInv, CollectionTyped, Stages, OneEventPerId
<1>10. AnswersCounted'
  BY <1>1 DEF CollectionInv, AnswersCounted
<1>11. AnswerInHand'
  <2>1. Asking' => /\ queue' # <<>> /\ pending' # <<>>
                   /\ \A i \in DOMAIN pending' : [raw |-> pending'[i], key |-> Key'] \in Told'
    BY <1>1, <1>3, <1>8 DEF CollectionInv, AnswerInHand
  <2> QED
    BY <1>8, <2>1 DEF AnswerInHand
<1>12. NothingForgotten'
  <2> SUFFICES ASSUME NEW t \in Told' PROVE Treated(t)' \/ (Asking' /\ Waiting(t)')
    BY DEF NothingForgotten
  <2>1. Treated(t) \/ Waiting(t)
    BY <1>1, <1>3 DEF CollectionInv, NothingForgotten
  <2>2. Waiting(t) /\ t.raw = raw => t = head
    <3>1. PICK r, k, r2, k2 : t = [raw |-> r, key |-> k] /\ head = [raw |-> r2, key |-> k2]
      BY <1>3 DEF Told
    <3> QED
      BY <1>0, <1>4, <3>1 DEF Waiting
  <2> QED
    BY <1>4, <1>7, <1>8, <2>1, <2>2
<1>13. NothingInvented'
  <2>1. tally'.event => Told' # {}
    BY <1>1, <1>3 DEF CollectionInv, NothingInvented
  <2>2. \E t \in Told' : Tells(t)' \/ SeesBook(t.raw)'
    BY <1>2, <1>3, <1>4
  <2> QED
    BY <2>1, <2>2 DEF NothingInvented
<1> QED
  BY <1>8, <1>9, <1>10, <1>11, <1>12, <1>13 DEF CollectionInv, Untouched, Classified

\* No step of a collection, nor of another process, breaks the invariant.
LEMMA CollectionStepKeeps ==
    ASSUME CollectionInv, CollectionStep \/ OthersSpend PROVE CollectionInv'
<1>1. CASE OthersSpend
  BY <1>1, BudgetsAside DEF OthersSpend
<1>2. CASE CollectionStep
  BY <1>2, ListingKeeps, RaisedKeeps, FailureKeeps, AnswerKeeps, IngestKeeps, ExtrasKeep, EndKeeps
  DEF CollectionStep
<1> QED
  BY <1>1, <1>2

\* The coverage of a collection that ended is the one of what it was told.
LEMMA InvIsHonest ==
    ASSUME CollectionInv PROVE CoverageIsHonest
<1> SUFFICES ASSUME stage = "ended" PROVE
        /\ batch.coverage = "PROVIDER_ERROR" <=> tally.attempted > 0 /\ answered = {}
        /\ batch.coverage = "COVERAGE_MISSING" =>
              /\ Told # {}
              /\ \A t \in Told : ~SeesBook(t.raw)
        /\ batch.coverage = "OK" =>
              \E t \in Told : Tells(t) \/ SeesBook(t.raw)
        /\ batch.coverage = "NO_CANDIDATE" =>
              \A t \in Told : Ingestible(t.raw) => ~Tells(t)
  BY DEF CoverageIsHonest, Tells
<1> DEFINE failure == tally.attempted > 0 /\ tally.failed = tally.attempted
<1>1. /\ failure => batch.coverage = "PROVIDER_ERROR"
      /\ ~failure /\ batch.prices # <<>> => batch.coverage = "OK"
      /\ ~failure /\ batch.prices = <<>> =>
            batch.coverage = IF tally.event /\ ~tally.book THEN "COVERAGE_MISSING"
                             ELSE "NO_CANDIDATE"
  <2>1. batch.coverage = Coverage
    BY DEF CollectionInv, Classified
  <2>2. Coverage = IF failure THEN "PROVIDER_ERROR"
                   ELSE IF batch.prices # <<>> THEN "OK"
                   ELSE IF tally.event /\ ~tally.book THEN "COVERAGE_MISSING"
                                                      ELSE "NO_CANDIDATE"
    BY DEF Coverage
  <2> QED
    BY <2>1, <2>2
<1>2. failure <=> tally.attempted > 0 /\ answered = {}
  BY DEF CollectionInv, AnswersCounted
<1>3. \A t \in Told : Treated(t)
  BY DEF CollectionInv, NothingForgotten, Asking
<1>4. /\ tally.event => Told # {}
      /\ batch.prices # <<>> => \E t \in Told : Tells(t) \/ SeesBook(t.raw)
  BY DEF CollectionInv, NothingInvented
<1> HIDE DEF failure
<1>5. batch.coverage = "COVERAGE_MISSING" => tally.event /\ ~tally.book
  BY <1>1
<1>6. batch.coverage = "OK" => batch.prices # <<>>
  BY <1>1
<1>7. batch.coverage = "NO_CANDIDATE" => batch.prices = <<>>
  BY <1>1
<1>8. batch.coverage = "PROVIDER_ERROR" <=> failure
  BY <1>1
<1> QED
  BY <1>2, <1>3, <1>4, <1>5, <1>6, <1>7, <1>8 DEF Treated

--------------------------------------------------------------------------------
(* What a source lists, and what an identity makes of it.                     *)

\* The quotes that were received at one instant.
ReceivedAt(ids, instant) == {p \in Quotes(ids) : p.received = instant}

\* The ids of the deployment.
NewIds == {InternalId[s] : s \in STRING}

\* The elements of a sequence that pass a test are those of the sequence.
LEMMA KeptAre ==
    ASSUME NEW T, NEW s \in Seq(T), NEW is \in SUBSET (DOMAIN s)
    PROVE  Keep(s, is) \in Seq({s[i] : i \in is})
<1>1. PICK k \in Seq(T) : k = Keep(s, is)
  BY Kept
<1>2. \A n \in DOMAIN k : k[n] \in {s[i] : i \in is}
  BY <1>1, Kept
<1>3. k \in [1..Len(k) -> {s[i] : i \in is}] /\ Len(k) \in Nat
  BY <1>2
<1> QED
  BY <1>1, <1>3

\* The synthetic world of an instant.
LEMMA DemoIsTyped ==
    ASSUME now \in Int
    PROVE  /\ DemoEvents \in SUBSET Events(STRING)
           /\ \A e, f \in DemoEvents : e.id = f.id => e = f
           /\ DemoPrices \in Seq(ReceivedAt(STRING, now))
<1> DEFINE World == [events : SUBSET Events(STRING), prices : Seq(Quotes(STRING))]
<1>1. PICK w \in World : w = DemoWorld /\ \A e, f \in w.events : e.id = f.id => e = f
  BY RunAssumption
<1> DEFINE shifted(e) == [e EXCEPT !.start = now + @]
<1>2. ASSUME NEW e \in w.events PROVE shifted(e) \in Events(STRING) /\ shifted(e).id = e.id
  <2>1. e \in [id : STRING, source : STRING, sport : Sports, start : Int,
               status : EventStatuses, ambiguous : BOOLEAN]
    BY DEF Events
  <2>2. PICK at \in Int : at = now + e.start
    BY <2>1
  <2>3. shifted(e) = [e EXCEPT !.start = at]
    BY <2>2
  <2> HIDE DEF shifted
  <2> QED
    BY <2>1, <2>3 DEF Events
<1>3. /\ DemoEvents \in SUBSET Events(STRING)
      /\ \A e, f \in DemoEvents : e.id = f.id => e = f
  <2>1. DemoEvents = {shifted(e) : e \in w.events}
    BY <1>1 DEF DemoEvents
  <2> HIDE DEF shifted
  <2> QED
    BY <1>1, <1>2, <2>1
<1>4. PICK ps \in Seq(Quotes(STRING)) : ps = DemoWorld.prices
  BY <1>1
<1>5. DOMAIN ps = 1..Len(ps) /\ Len(ps) \in Nat
  OBVIOUS
<1>6. ASSUME NEW i \in DOMAIN ps
      PROVE  [ps[i] EXCEPT !.observed = now - @, !.received = now] \in ReceivedAt(STRING, now)
  <2>1. PICK p \in Quotes(STRING) : p = ps[i]
    BY <1>5, ElementOfSeq
  <2>2. p \in [provider : Providers, book : STRING, event : STRING, market : MarketTypes,
               period : Periods, line : Int, code : STRING, odds : Int, observed : Int,
               received : Int]
    BY DEF Quotes
  <2>3. PICK at \in Int : at = now - p.observed
    BY <2>2
  <2>4. PICK q : q = [p EXCEPT !.observed = now - @, !.received = now]
    OBVIOUS
  <2>5. q = [provider |-> p.provider, book |-> p.book, event |-> p.event, market |-> p.market,
             period |-> p.period, line |-> p.line, code |-> p.code, odds |-> p.odds,
             observed |-> at, received |-> now]
    BY <2>2, <2>3, <2>4, Zenon
  <2>6. q \in Quotes(STRING) /\ q.received = now
    BY <2>2, <2>3, <2>5, Zenon DEF Quotes
  <2> QED
    BY <2>1, <2>4, <2>6 DEF ReceivedAt
<1>7. DemoPrices = [i \in DOMAIN ps |-> [ps[i] EXCEPT !.observed = now - @, !.received = now]]
  BY <1>4, Zenon DEF DemoPrices
<1>8. DemoPrices \in [1..Len(ps) -> ReceivedAt(STRING, now)]
  BY <1>5, <1>6, <1>7
<1> QED
  BY <1>3, <1>5, <1>8

\* A manual file lists each event once, and prices as of the import.
LEMMA ManualIsTyped ==
    ASSUME NEW file \in ManualFiles, NEW instant \in Int
    PROVE  /\ ParseRows(file, instant).events \in SUBSET Events(STRING)
           /\ \A e, f \in ParseRows(file, instant).events : e.id = f.id => e = f
           /\ ParseRows(file, instant).prices \in Seq(ReceivedAt(STRING, instant))
<1> DEFINE eventRows == Filtered(file, ReadsEvent)
           firsts == {i \in DOMAIN eventRows :
                        \A j \in 1..i - 1 : eventRows[j].event.id # eventRows[i].event.id}
           priced == Filtered(file, ReadsPrice)
<1>1. /\ ParseRows(file, instant).events = {eventRows[i].event : i \in firsts}
      /\ ParseRows(file, instant).prices
           = [i \in DOMAIN priced |-> [priced[i].price EXCEPT !.received = instant]]
  BY Zenon DEF ParseRows
<1>2. PICK rows \in Seq(Rows) : rows = file
  BY RunAssumption
<1>3. PICK es \in Seq(Rows) : es = eventRows
  <2>1. PICK is \in SUBSET (DOMAIN rows) : is = {i \in DOMAIN rows : ReadsEvent(rows[i])}
    OBVIOUS
  <2>2. Keep(rows, is) \in Seq(Rows)
    BY Kept
  <2> QED
    BY <1>2, <2>1, <2>2 DEF Filtered
<1>4. PICK ps \in Seq(Rows) : ps = priced
  <2>1. PICK is \in SUBSET (DOMAIN rows) : is = {i \in DOMAIN rows : ReadsPrice(rows[i])}
    OBVIOUS
  <2>2. Keep(rows, is) \in Seq(Rows)
    BY Kept
  <2> QED
    BY <1>2, <2>1, <2>2 DEF Filtered
<1> HIDE DEF eventRows, priced
<1>5. /\ DOMAIN es = 1..Len(es) /\ Len(es) \in Nat /\ \A i \in DOMAIN es : es[i] \in Rows
      /\ DOMAIN ps = 1..Len(ps) /\ Len(ps) \in Nat /\ \A i \in DOMAIN ps : ps[i] \in Rows
  <2>1. \A s \in Seq(Rows) : DOMAIN s = 1..Len(s) /\ Len(s) \in Nat
    OBVIOUS
  <2>2. \A s \in Seq(Rows) : \A i \in 1..Len(s) : s[i] \in Rows
    BY ElementOfSeq
  <2> QED
    BY <2>1, <2>2
<1>6. {eventRows[i].event : i \in firsts} \in SUBSET Events(STRING)
  <2>1. \A r \in Rows : r.event \in Events(STRING)
    BY DEF Rows
  <2>2. ASSUME NEW i \in firsts PROVE eventRows[i].event \in Events(STRING)
    <3>1. eventRows[i] \in Rows
      BY <1>3, <1>5
    <3> QED
      BY <2>1, <3>1
  <2> QED
    BY <2>2
<1>7. ASSUME NEW i \in firsts, NEW j \in firsts, es[i].event.id = es[j].event.id PROVE i = j
  BY <1>3, <1>5, <1>7
<1>8. \A e, f \in {eventRows[i].event : i \in firsts} : e.id = f.id => e = f
  BY <1>3, <1>7
<1>9. ASSUME NEW i \in DOMAIN ps
      PROVE  [ps[i].price EXCEPT !.received = instant] \in ReceivedAt(STRING, instant)
  <2>1. PICK p \in Quotes(STRING) : p = ps[i].price
    BY <1>5 DEF Rows
  <2>2. p \in [provider : Providers, book : STRING, event : STRING, market : MarketTypes,
               period : Periods, line : Int, code : STRING, odds : Int, observed : Int,
               received : Int]
    BY DEF Quotes
  <2>3. PICK q : q = [p EXCEPT !.received = instant]
    OBVIOUS
  <2>4. q \in Quotes(STRING) /\ q.received = instant
    BY <2>2, <2>3 DEF Quotes
  <2> QED
    BY <2>1, <2>3, <2>4 DEF ReceivedAt
<1>10. [i \in DOMAIN priced |-> [priced[i].price EXCEPT !.received = instant]]
         \in [1..Len(ps) -> ReceivedAt(STRING, instant)]
  BY <1>4, <1>5, <1>9
<1> QED
  BY <1>1, <1>5, <1>6, <1>8, <1>10

\* A source that lists gives its events, and its prices of these.
LEMMA ListedIsTyped ==
    ASSUME NEW source \in {"demo", "manual"}, NEW events \in SUBSET Events(STRING),
           \A e, f \in events : e.id = f.id => e = f,
           NEW instant \in Int, NEW prices \in Seq(ReceivedAt(STRING, instant))
    PROVE  /\ CollectViaListing(source, events, prices)
                \in Batches(STRING, ReceivedAt(STRING, instant))
           /\ OneEventPerId(CollectViaListing(source, events, prices))
<1> DEFINE listed == Filtered(prices, LAMBDA p : \E e \in events : e.id = p.event)
           status == IF listed = <<>> THEN "COVERAGE_MISSING" ELSE "OK"
<1>1. CollectViaListing(source, events, prices)
        = [provider |-> source, events |-> events, prices |-> listed, coverage |-> status]
  BY DEF CollectViaListing
<1>2. PICK is \in SUBSET (DOMAIN prices) :
        is = {i \in DOMAIN prices : \E e \in events : e.id = prices[i].event}
  OBVIOUS
<1>3. listed = Keep(prices, is)
  BY <1>2 DEF Filtered
<1>4. status \in Coverages
  BY DEF Coverages
<1> HIDE DEF listed, status
<1>5. listed \in Seq(ReceivedAt(STRING, instant))
  BY <1>3, Kept
<1> QED
  BY <1>1, <1>4, <1>5 DEF Batches, OneEventPerId, Providers

\* What a listing source lists now.
LEMMA ListingIsTyped ==
    ASSUME now \in Int, NEW source, NEW file,
           source = "demo" \/ (source = "manual" /\ file \in ManualFiles)
    PROVE  /\ Listing(source, file) \in Batches(STRING, ReceivedAt(STRING, now))
           /\ OneEventPerId(Listing(source, file))
<1>1. CASE source = "demo"
  <2>1. Listing(source, file) = CollectViaListing("demo", DemoEvents, DemoPrices)
    BY <1>1 DEF Listing
  <2> QED
    BY <2>1, DemoIsTyped, ListedIsTyped
<1>2. CASE source = "manual" /\ file \in ManualFiles
  <2> DEFINE report == ParseRows(file, now)
             events == {e \in report.events : InScanWindow(e.start, now, WindowHours)}
  <2>1. Listing(source, file) = CollectViaListing("manual", events, report.prices)
    BY <1>2 DEF Listing
  <2>2. /\ report.events \in SUBSET Events(STRING)
        /\ \A e, f \in report.events : e.id = f.id => e = f
        /\ report.prices \in Seq(ReceivedAt(STRING, now))
    BY <1>2, ManualIsTyped
  <2> HIDE DEF report
  <2>3. events \in SUBSET Events(STRING) /\ \A e, f \in events : e.id = f.id => e = f
    BY <2>2
  <2> HIDE DEF events
  <2> QED
    BY <2>1, <2>2, <2>3, ListedIsTyped
<1> QED
  BY <1>1, <1>2

\* An event that is kept is under its internal id, and so are its prices.
LEMMA ResolvedIsAttributed ==
    ASSUME NEW instant \in Int, NEW b \in Batches(STRING, ReceivedAt(STRING, instant)),
           OneEventPerId(b)
    PROVE  /\ ResolveIdentity(b) \in Batches(NewIds, ReceivedAt(NewIds, instant))
           /\ \A e \in ResolveIdentity(b).events : e.id = InternalId[e.source]
           /\ \A i \in DOMAIN ResolveIdentity(b).prices :
                 \E e \in ResolveIdentity(b).events : e.id = ResolveIdentity(b).prices[i].event
<1> DEFINE attributed(p) == \E e \in b.events : e.id = p.event /\ Usable(e)
           sourceOf(p) == (CHOOSE e \in b.events : e.id = p.event).source
           kept == Filtered(b.prices, attributed)
           events == {[e EXCEPT !.id = InternalId[e.source]] : e \in {x \in b.events : Usable(x)}}
           moved(p) == [p EXCEPT !.event = InternalId[sourceOf(p)]]
           prices == [i \in DOMAIN kept |-> moved(kept[i])]
<1>1. ResolveIdentity(b) = [b EXCEPT !.events = events, !.prices = prices]
  BY Zenon DEF ResolveIdentity
<1>2. b \in [provider : Providers, events : SUBSET Events(STRING),
             prices : Seq(ReceivedAt(STRING, instant)), coverage : Coverages]
  BY DEF Batches
<1>3. ASSUME NEW e \in b.events
      PROVE  /\ [e EXCEPT !.id = InternalId[e.source]] \in Events(NewIds)
             /\ [e EXCEPT !.id = InternalId[e.source]].id = InternalId[e.source]
             /\ [e EXCEPT !.id = InternalId[e.source]].source = e.source
  <2>1. e \in [id : STRING, source : STRING, sport : Sports, start : Int,
               status : EventStatuses, ambiguous : BOOLEAN]
    BY <1>2 DEF Events
  <2>2. PICK new \in NewIds : new = InternalId[e.source]
    BY <2>1 DEF NewIds
  <2>3. PICK f : f = [e EXCEPT !.id = new]
    OBVIOUS
  <2>4. f \in Events(NewIds) /\ f.id = new /\ f.source = e.source
    BY <2>1, <2>2, <2>3 DEF Events
  <2> QED
    BY <2>2, <2>3, <2>4
<1>4. events \in SUBSET Events(NewIds) /\ \A e \in events : e.id = InternalId[e.source]
  <2> DEFINE under(e) == [e EXCEPT !.id = InternalId[e.source]]
  <2>1. events = {under(e) : e \in {x \in b.events : Usable(x)}}
    OBVIOUS
  <2>2. \A e \in b.events : /\ under(e) \in Events(NewIds)
                            /\ under(e).id = InternalId[under(e).source]
    BY <1>3
  <2> HIDE DEF under, events
  <2> QED
    BY <2>1, <2>2
<1>5. PICK ps \in Seq(ReceivedAt(STRING, instant)) : ps = b.prices
  BY <1>2
<1>6. PICK is \in SUBSET (DOMAIN ps) : is = {i \in DOMAIN ps : attributed(ps[i])}
  OBVIOUS
<1>7. kept = Keep(ps, is)
  BY <1>5, <1>6 DEF Filtered
<1>8. PICK ks \in Seq({p \in ReceivedAt(STRING, instant) : attributed(p)}) : ks = kept
  <2>1. {ps[i] : i \in is} \subseteq {p \in ReceivedAt(STRING, instant) : attributed(p)}
    <3>1. ASSUME NEW i \in is
          PROVE ps[i] \in ReceivedAt(STRING, instant) /\ attributed(ps[i])
      <4>1. i \in 1..Len(ps) /\ attributed(ps[i])
        BY <1>5, <1>6
      <4> HIDE DEF attributed
      <4> QED
        BY <1>5, <4>1, ElementOfSeq
    <3> HIDE DEF attributed
    <3> QED
      BY <3>1
  <2>2. kept \in Seq({ps[i] : i \in is})
    BY <1>5, <1>7, KeptAre
  <2> HIDE DEF attributed, kept
  <2>3. PICK A, B : /\ A = {ps[i] : i \in is}
                    /\ B = {p \in ReceivedAt(STRING, instant) : attributed(p)}
    OBVIOUS
  <2>4. \A s \in Seq(A) : s \in Seq(B)
    <3>1. A \subseteq B
      BY <2>1, <2>3
    <3> QED
      BY ONLY <3>1
  <2> QED
    BY <2>2, <2>3, <2>4
<1> HIDE DEF kept
<1>9. DOMAIN ks = 1..Len(ks) /\ Len(ks) \in Nat
  OBVIOUS
<1>10. ASSUME NEW i \in DOMAIN ks
       PROVE  /\ moved(ks[i]) \in ReceivedAt(NewIds, instant)
              /\ \E e \in events : e.id = moved(ks[i]).event
  <2>1. PICK p \in ReceivedAt(STRING, instant) : p = ks[i] /\ attributed(p)
    <3> HIDE DEF attributed
    <3> QED
      BY <1>8, <1>9, ElementOfSeq
  <2>2. PICK e \in b.events : e.id = p.event /\ Usable(e)
    BY <2>1
  <2>3. sourceOf(p) = e.source
    <3>1. \A f \in b.events : f.id = p.event => f = e
      BY <2>2 DEF OneEventPerId
    <3> QED
      BY <2>2, <3>1
  <2>4. e.source \in STRING
    BY <1>2, <2>2 DEF Events
  <2> HIDE DEF sourceOf
  <2>5. p \in [provider : Providers, book : STRING, event : STRING, market : MarketTypes,
               period : Periods, line : Int, code : STRING, odds : Int, observed : Int,
               received : Int] /\ p.received = instant
    BY DEF ReceivedAt, Quotes
  <2>6. PICK new \in NewIds : new = InternalId[e.source]
    BY <2>4 DEF NewIds
  <2>7. PICK q : q = [p EXCEPT !.event = new]
    OBVIOUS
  <2>8. q \in Quotes(NewIds) /\ q.received = instant /\ q.event = new
    BY <2>5, <2>6, <2>7 DEF Quotes
  <2>9. moved(ks[i]) = q
    BY <2>1, <2>3, <2>6, <2>7
  <2>10. [e EXCEPT !.id = InternalId[e.source]] \in events
    BY <2>2
  <2> HIDE DEF moved, events
  <2> QED
    BY <1>3, <2>2, <2>6, <2>8, <2>9, <2>10 DEF ReceivedAt
<1>11. prices = [i \in DOMAIN ks |-> moved(ks[i])]
  BY <1>8
<1> HIDE DEF moved, prices, events
<1>12. prices \in [1..Len(ks) -> ReceivedAt(NewIds, instant)]
  BY <1>9, <1>10, <1>11
<1>13. prices \in Seq(ReceivedAt(NewIds, instant)) /\ DOMAIN prices = DOMAIN ks
  BY <1>9, <1>12
<1>14. \A i \in DOMAIN prices : \E e \in events : e.id = prices[i].event
  BY <1>10, <1>11
<1>15. PICK r : r = ResolveIdentity(b)
  OBVIOUS
<1>16. /\ r \in [provider : Providers, events : SUBSET Events(NewIds),
                 prices : Seq(ReceivedAt(NewIds, instant)), coverage : Coverages]
       /\ r.events = events /\ r.prices = prices
  BY <1>1, <1>2, <1>4, <1>13, <1>15
<1> QED
  BY <1>4, <1>14, <1>15, <1>16 DEF Batches

--------------------------------------------------------------------------------
(* A scan document.                                                           *)

\* The three properties of a scan document, of whatever document.
Dropless(s) ==
    /\ \A e \in InScope(s.batch, s.scope, s.moment) :
          \A p \in Offered(s, e) :
             \/ \E c \in s.candidates : QuoteKey(c.price) = QuoteKey(p)
             \/ Rejected(s, e.id, SelectionKey(p))
    /\ \A e \in s.batch.events :
          /\ ~InScanWindow(e.start, s.moment, WindowHours)
          /\ \A f \in InScope(s.batch, s.scope, s.moment) : f.id # e.id
          => Rejected(s, e.id, "-")
    /\ \A e \in s.unattributable : Rejected(s, e.id, "")

Safe(s, md) ==
    \A c \in s.candidates :
        /\ md = "demo"
        /\ s.moment < c.event.start
        /\ c.price.observed <= s.moment
        /\ s.moment - c.price.observed <= Settings.max_odds_age
        /\ \A p \in Offered(s, c.event) :
              QuoteKey(p) = QuoteKey(c.price) => p.observed <= c.price.observed
        /\ 10000 * c.stake <= Settings.bankroll * Settings.max_stake + 5000

Finds(s) ==
    s.scope # NoScope =>
        /\ \A e \in s.batch.events :
              /\ e.source = s.scope.source
              /\ InScanWindow(e.start, s.moment, WindowHours)
              /\ Offered(s, e) # {}
              => \/ \E c \in s.candidates : InternalId[c.event.source] = InternalId[e.source]
                 \/ \E r \in s.rejections : r.event = e.id
        /\ \A c \in s.candidates :
              InternalId[c.event.source] = InternalId[s.scope.source]

Sound(s, md) == Dropless(s) /\ Safe(s, md) /\ Finds(s)

\* The ids of a batch are internal where a scope is set.
ScopeFits(b, scope) ==
    scope # NoScope =>
        /\ scope.id = InternalId[scope.source]
        /\ \A e \in b.events : e.id = InternalId[e.source]

\* A document of nothing is sound.
LEMMA EmptyIsSound ==
    ASSUME NEW s, s.batch = EmptyBatch, s.unattributable = {}, s.candidates = {}, NEW md
    PROVE  Sound(s, md)
<1>1. s.batch.events = {}
  BY DEF EmptyBatch
<1>2. InScope(s.batch, s.scope, s.moment) = {}
  BY <1>1 DEF InScope
<1> QED
  BY <1>1, <1>2 DEF Sound, Dropless, Safe, Finds

\* The document of an analysis is sound.
LEMMA AnalysedIsSound ==
    ASSUME NEW ids, NEW instant \in Int, NEW b \in Batches(ids, ReceivedAt(ids, instant)),
           NEW scope, ScopeFits(b, scope), NEW md, NEW models, NEW unattributable, NEW s,
           s.batch = b, s.scope = scope, s.moment = instant, s.unattributable = unattributable,
           s.candidates = Analyse(InScope(b, scope, instant), b.events, b.prices, md, models,
                                  instant, WindowHours).candidates,
           s.rejections = Analyse(InScope(b, scope, instant), b.events, b.prices, md, models,
                                  instant, WindowHours).rejections
                            \cup AmbiguityRejections(unattributable)
    PROVE  Sound(s, md)
<1>1. PICK events : events = InScope(b, scope, instant)
  OBVIOUS
<1>2. events = {e \in b.events : /\ InScanWindow(e.start, instant, WindowHours)
                                 /\ scope # NoScope => e.id = scope.id}
  BY <1>1 DEF InScope
<1>3. PICK found : found = Analyse(events, b.events, b.prices, md, models, instant, WindowHours)
  OBVIOUS
<1>4. /\ s.candidates = found.candidates
      /\ s.rejections = found.rejections \cup AmbiguityRejections(unattributable)
  BY <1>1, <1>3
<1>5. PICK prices \in Seq(Quotes(ids)) : /\ prices = b.prices
                                         /\ \A i \in DOMAIN prices : prices[i].received = instant
  <2>1. PICK ps \in Seq(ReceivedAt(ids, instant)) : ps = b.prices
    BY DEF Batches
  <2>2. DOMAIN ps = 1..Len(ps) /\ Len(ps) \in Nat
    OBVIOUS
  <2>3. \A i \in 1..Len(ps) : ps[i] \in ReceivedAt(ids, instant)
    BY ElementOfSeq
  <2>4. \A i \in 1..Len(ps) : ps[i] \in Quotes(ids) /\ ps[i].received = instant
    BY <2>3 DEF ReceivedAt
  <2>5. ps \in [1..Len(ps) -> Quotes(ids)]
    BY <2>2, <2>4
  <2>6. ps \in Seq(Quotes(ids))
    BY <2>2, <2>5
  <2> QED
    BY <2>1, <2>2, <2>4, <2>6
<1>6. ReceivedTogether(prices)
  BY <1>5 DEF ReceivedTogether
<1>7. ASSUME NEW e \in events, NEW p \in Offered(s, e)
      PROVE  \/ \E c \in s.candidates : /\ QuoteKey(c.price) = QuoteKey(p)
                                        /\ c.event \in events /\ c.event.id = e.id
             \/ \E r \in s.rejections : r.event = e.id /\ r.selection = SelectionKey(p)
  <2>1. PICK i \in DOMAIN prices : p = prices[i] /\ prices[i].event = e.id
                                   /\ Valid(prices[i], instant)
    BY <1>5, <1>7 DEF Offered
  <2>2. \/ \E c \in found.candidates : /\ QuoteKey(c.price) = QuoteKey(prices[i])
                                       /\ c.event \in events /\ c.event.id = e.id
        \/ \E r \in found.rejections : r.event = e.id /\ r.selection = SelectionKey(prices[i])
    BY <1>3, <1>5, <1>6, <2>1, NothingVanishes
  <2> QED
    BY <1>4, <2>1, <2>2
<1>8. ASSUME NEW c \in s.candidates
      PROVE  /\ md = "demo"
             /\ c.event \in events
             /\ c.price.observed <= instant
             /\ instant - c.price.observed <= Settings.max_odds_age
             /\ \A i \in DOMAIN prices :
                   Valid(prices[i], instant) /\ QuoteKey(prices[i]) = QuoteKey(c.price)
                      => prices[i].observed <= c.price.observed
             /\ 10000 * c.stake <= Settings.bankroll * Settings.max_stake + 5000
  <2>1. c \in Analyse(events, b.events, prices, md, models, instant, WindowHours).candidates
    BY <1>3, <1>4, <1>5
  <2>2. /\ md = "demo"
        /\ c.event \in events
        /\ c.price.observed <= instant
        /\ instant - c.price.observed <= Settings.max_odds_age
        /\ \A i \in DOMAIN prices :
              Valid(prices[i], instant) /\ QuoteKey(prices[i]) = QuoteKey(c.price)
                 => prices[i].observed <= c.price.observed
        /\ 10000 * c.stake <= Settings.bankroll * Settings.max_stake + 5000
    BY ONLY <1>6, <2>1, CandidatesAreSafe, instant \in Int, prices \in Seq(Quotes(ids))
  <2> QED
    BY <2>2
<1>9. Dropless(s)
  <2>1. \A e \in events : \A p \in Offered(s, e) :
             \/ \E c \in s.candidates : QuoteKey(c.price) = QuoteKey(p)
             \/ Rejected(s, e.id, SelectionKey(p))
    BY <1>7 DEF Rejected
  <2>2. ASSUME NEW e \in b.events, ~InScanWindow(e.start, instant, WindowHours),
               \A f \in events : f.id # e.id
        PROVE  Rejected(s, e.id, "-")
    <3>1. Rejection(e.id, "-", "OUTSIDE_WINDOW")
            \in OutsideWindow(events, b.events, instant, WindowHours)
      BY <2>2 DEF OutsideWindow
    <3>2. OutsideWindow(events, b.events, instant, WindowHours) \subseteq found.rejections
      BY <1>3 DEF Analyse
    <3> QED
      BY <1>4, <3>1, <3>2 DEF Rejected, Rejection
  <2>3. ASSUME NEW e \in unattributable PROVE Rejected(s, e.id, "")
    <3>1. Rejection(e.id, "", "EVENT_MAPPING_AMBIGUOUS") \in AmbiguityRejections(unattributable)
      BY DEF AmbiguityRejections
    <3>2. PICK r : r = Rejection(e.id, "", "EVENT_MAPPING_AMBIGUOUS")
      OBVIOUS
    <3>3. r \in s.rejections
      BY <1>4, <3>1, <3>2
    <3>4. r = [event |-> e.id, selection |-> "", code |-> "EVENT_MAPPING_AMBIGUOUS"]
      BY <3>2, Zenon DEF Rejection
    <3>5. r.event = e.id /\ r.selection = ""
      BY <3>4, Zenon
    <3> QED
      BY <3>3, <3>5, Zenon DEF Rejected
  <2> QED
    BY <1>1, <2>1, <2>2, <2>3 DEF Dropless
<1>10. Safe(s, md)
  <2> SUFFICES ASSUME NEW c \in s.candidates
               PROVE  /\ md = "demo"
                      /\ instant < c.event.start
                      /\ c.price.observed <= instant
                      /\ instant - c.price.observed <= Settings.max_odds_age
                      /\ \A p \in Offered(s, c.event) :
                            QuoteKey(p) = QuoteKey(c.price) => p.observed <= c.price.observed
                      /\ 10000 * c.stake <= Settings.bankroll * Settings.max_stake + 5000
    BY DEF Safe
  <2>1. instant < c.event.start
    BY <1>2, <1>8 DEF InScanWindow
  <2>2. \A p \in Offered(s, c.event) : \E i \in DOMAIN prices : p = prices[i] /\ Valid(p, instant)
    BY <1>5 DEF Offered
  <2> QED
    BY <1>8, <2>1, <2>2
<1>11. Finds(s)
  <2> SUFFICES ASSUME scope # NoScope
               PROVE  /\ \A e \in b.events :
                            /\ e.source = scope.source
                            /\ InScanWindow(e.start, instant, WindowHours)
                            /\ Offered(s, e) # {}
                            => \/ \E c \in s.candidates :
                                     InternalId[c.event.source] = InternalId[e.source]
                               \/ \E r \in s.rejections : r.event = e.id
                      /\ \A c \in s.candidates :
                            InternalId[c.event.source] = InternalId[scope.source]
    BY DEF Finds
  <2>1. scope.id = InternalId[scope.source] /\ \A e \in b.events : e.id = InternalId[e.source]
    BY DEF ScopeFits
  <2>2. ASSUME NEW e \in b.events, e.source = scope.source,
               InScanWindow(e.start, instant, WindowHours), Offered(s, e) # {}
        PROVE  \/ \E c \in s.candidates : InternalId[c.event.source] = InternalId[e.source]
               \/ \E r \in s.rejections : r.event = e.id
    <3>1. e \in events
      BY <1>2, <2>1, <2>2
    <3>2. PICK p : p \in Offered(s, e)
      BY <2>2
    <3>3. ASSUME NEW c, c.event \in events, c.event.id = e.id
          PROVE  InternalId[c.event.source] = InternalId[e.source]
      BY <1>2, <2>1, <3>3
    <3> QED
      BY <1>7, <3>1, <3>2, <3>3
  <2>3. ASSUME NEW c \in s.candidates
        PROVE  InternalId[c.event.source] = InternalId[scope.source]
    <3>1. c.event \in events
      BY <1>8
    <3> QED
      BY <1>2, <2>1, <3>1
  <2> QED
    BY <2>2, <2>3
<1> QED
  BY <1>9, <1>10, <1>11 DEF Sound

--------------------------------------------------------------------------------
(* The invariant of a run, and its steps.                                     *)

\* The scopes the jobs of the ledger may have.
Scopes == {[source |-> x, id |-> InternalId[x]] : x \in STRING}

\* The fields of a scan in progress.
Fields ==
    {"purpose", "phase", "scope", "file", "persist", "by", "moment", "batch", "unattributable"}

IsScan(r) == DOMAIN r = Fields /\ r.purpose = "scan"

\* A scan whose provider was built at an instant.
ScanFits(r, built) ==
    /\ IsScan(r)
    /\ r.phase \in {"collecting", "collected", "stored"}
    /\ r.moment \in Int
    /\ r.scope \in Scopes \cup {NoScope}
    /\ r.scope # NoScope => r.persist
    /\ r.phase = "collecting" =>
          /\ built = r.moment
          /\ r.batch = EmptyBatch /\ r.unattributable = {}
    /\ r.phase = "collected" =>
          /\ r.batch \in Batches(STRING, ReceivedAt(STRING, r.moment))
          /\ OneEventPerId(r.batch)
          /\ r.unattributable = {}
    /\ r.phase = "stored" =>
          /\ r.batch \in Batches(NewIds, ReceivedAt(NewIds, r.moment))
          /\ \A e \in r.batch.events : e.id = InternalId[e.source]

\* The run of the process is none, a discovery, or a scan whose provider was built
\* when the collection in progress started.
RunFits == run \in {Idle, [purpose |-> "discovery"]} \/ ScanFits(run, moment)

\* The last document has the three properties.
ScanIsSound == scan # NoScan => Sound(scan, mode)

\* What the process knows, and what it stored and published.
RunInv ==
    /\ now \in Int
    /\ milestones \subseteq Scopes
    /\ RunFits
    /\ StoreIsAttributed
    /\ ScanIsSound

\* The inductive invariant of a run.
ScanInv == CollectionInv /\ RunInv

\* A file makes the source manual, and nothing else does.
LEMMA SourcesAre ==
    ASSUME NEW file
    PROVE  /\ SourceOf(file) \in {"manual", "demo", "the_odds_api", "unavailable"}
           /\ SourceOf(file) = "manual" <=> file # NoFile
<1>1. CASE file # NoFile
  BY <1>1 DEF SourceOf
<1>2. CASE file = NoFile
  BY <1>2 DEF SourceOf
<1> QED
  BY <1>1, <1>2

\* A run that begins fits the instant it begins at.
LEMMA NewRunFits ==
    ASSUME now \in Int, NEW scope \in Scopes \cup {NoScope}, NEW file, NEW persist, NEW by,
           scope # NoScope => persist, NEW r, r = NewRun(scope, file, persist, by)
    PROVE  /\ ScanFits(r, now)
           /\ r.phase = "collecting" /\ r.moment = now /\ r.file = file
           /\ r.batch = EmptyBatch /\ r.unattributable = {}
<1>1. PICK empty, none : empty = EmptyBatch /\ none = {}
  OBVIOUS
<1>2. PICK at \in Int : at = now
  OBVIOUS
<1>3. /\ r.phase = "collecting" /\ r.scope = scope /\ r.file = file /\ r.moment = at
      /\ r.batch = EmptyBatch /\ r.unattributable = {} /\ r.persist = persist
      /\ IsScan(r)
  <2>1. r = [purpose |-> "scan", phase |-> "collecting", scope |-> scope, file |-> file,
             persist |-> persist, by |-> by, moment |-> at, batch |-> empty,
             unattributable |-> none]
    BY <1>1, <1>2, Zenon DEF NewRun
  <2> QED
    BY <1>1, <2>1 DEF IsScan, Fields
<1> QED
  BY <1>2, <1>3 DEF ScanFits

\* The listing of a source that is no service is what the scan collected.
LEMMA ListedRunFits ==
    ASSUME now \in Int, NEW r, NEW s, ScanFits(r, now), r.phase = "collecting", r.moment = now,
           r.file \in ManualFiles \cup {NoFile},
           SourceOf(r.file) \notin {"the_odds_api", "unavailable"},
           s = [r EXCEPT !.phase = "collected", !.batch = Listing(SourceOf(r.file), r.file)],
           NEW built
    PROVE  ScanFits(s, built)
<1>1. PICK b : b = Listing(SourceOf(r.file), r.file)
  OBVIOUS
<1>2. b \in Batches(STRING, ReceivedAt(STRING, now)) /\ OneEventPerId(b)
  <2>1. PICK file \in ManualFiles \cup {NoFile} : file = r.file
    OBVIOUS
  <2>2. PICK source : source = SourceOf(file)
    OBVIOUS
  <2>3. /\ source \in {"manual", "demo", "the_odds_api", "unavailable"}
        /\ source = "manual" <=> file # NoFile
    BY <2>2, SourcesAre
  <2>4. /\ source \notin {"the_odds_api", "unavailable"} /\ b = Listing(source, file)
        /\ file \in ManualFiles \cup {NoFile}
    BY <1>1, <2>1, <2>2
  <2>5. source = "demo" \/ (source = "manual" /\ file \in ManualFiles)
    BY ONLY <2>1, <2>3, <2>4
  <2>6. /\ Listing(source, file) \in Batches(STRING, ReceivedAt(STRING, now))
        /\ OneEventPerId(Listing(source, file))
    BY ONLY now \in Int, <2>5, ListingIsTyped
  <2> QED
    BY <2>4, <2>6
<1>3. IsScan(r)
  BY DEF ScanFits
<1>5. /\ s.phase = "collected" /\ s.scope = r.scope /\ s.moment = r.moment
      /\ s.batch = b /\ s.unattributable = r.unattributable /\ s.persist = r.persist
      /\ IsScan(s)
  <2>1. s = [r EXCEPT !.phase = "collected", !.batch = b]
    BY <1>1
  <2>2. IsScan(r)
    BY <1>1 DEF ScanFits
  <2> QED
    BY ONLY <2>1, <2>2 DEF IsScan, Fields
<1> QED
  BY <1>2, <1>5 DEF ScanFits

\* What a collection gathered is what the scan collected.
LEMMA CollectedRunFits ==
    ASSUME CollectionInv, ScanFits(run, moment), run.phase = "collecting", NEW s,
           s = [run EXCEPT !.phase = "collected", !.batch = batch], NEW built
    PROVE  ScanFits(s, built)
<1>1. PICK b, r : b = batch /\ r = run
  OBVIOUS
<1>2. moment = r.moment /\ r.unattributable = {} /\ IsScan(r)
  BY <1>1 DEF ScanFits
<1>3. b \in Batches(STRING, ReceivedAt(STRING, r.moment)) /\ OneEventPerId(b)
  <2>1. ReceivedNow = ReceivedAt(STRING, moment)
    BY DEF ReceivedNow, ReceivedAt
  <2> QED
    BY <1>1, <1>2, <2>1 DEF CollectionInv, CollectionTyped
<1>5. /\ s.phase = "collected" /\ s.scope = r.scope /\ s.moment = r.moment
      /\ s.batch = b /\ s.unattributable = r.unattributable /\ s.persist = r.persist
      /\ IsScan(s)
  <2>1. s = [r EXCEPT !.phase = "collected", !.batch = b]
    BY <1>1
  <2>2. IsScan(r)
    BY <1>1 DEF ScanFits
  <2> QED
    BY ONLY <2>1, <2>2 DEF IsScan, Fields
<1> QED
  BY <1>1, <1>2, <1>3, <1>5 DEF ScanFits

\* What is stored is under the ids of the deployment.
LEMMA StoredRunFits ==
    ASSUME NEW r, NEW at, ScanFits(r, at), r.phase = "collected", NEW s, NEW gone,
           s = [r EXCEPT !.phase = "stored", !.batch = ResolveIdentity(r.batch),
                         !.unattributable = gone],
           NEW built
    PROVE  ScanFits(s, built)
<1>1. PICK b : b = ResolveIdentity(r.batch)
  OBVIOUS
<1>2. IsScan(r) /\ r.moment \in Int
  BY DEF ScanFits
<1>3. b \in Batches(NewIds, ReceivedAt(NewIds, r.moment))
      /\ \A e \in b.events : e.id = InternalId[e.source]
  BY <1>1, <1>2, ResolvedIsAttributed DEF ScanFits
<1>5. /\ s.phase = "stored" /\ s.scope = r.scope /\ s.moment = r.moment
      /\ s.batch = b /\ s.persist = r.persist /\ IsScan(s)
  <2>1. s = [r EXCEPT !.phase = "stored", !.batch = b, !.unattributable = gone]
    BY <1>1
  <2>2. IsScan(r)
    BY <1>1 DEF ScanFits
  <2> QED
    BY ONLY <2>1, <2>2 DEF IsScan, Fields
<1> QED
  BY <1>2, <1>3, <1>5 DEF ScanFits

\* The invariant holds at the start.
LEMMA InitScanInv == ASSUME Init PROVE ScanInv
<1>1. CollectionInv
  BY IdleCollection DEF Init, CollectionInit
<1>2. /\ now = FirstInstant /\ milestones = {} /\ run = Idle /\ scan = NoScan
      /\ stored = [events |-> {}, prices |-> {}]
  BY DEF Init
<1>3. now \in Int
  <2>1. FirstInstant \in Nat
    BY RunAssumption, Zenon
  <2> QED
    BY <1>2, <2>1
<1>4. stored.prices = {}
  BY <1>2
<1> QED
  BY <1>1, <1>2, <1>3, <1>4 DEF ScanInv, RunInv, RunFits, StoreIsAttributed, ScanIsSound

\* The milestones of the events of a batch have the ids of the deployment.
LEMMA MilestonesAre ==
    ASSUME NEW events \in SUBSET Events(STRING) PROVE Milestones(events) \subseteq Scopes
<1>1. \A e \in events : e.source \in STRING
  BY DEF Events
<1> QED
  BY <1>1 DEF Milestones, Scopes

\* What a step of the run leaves alone.
LEMMA RunAside ==
    ASSUME RunInv,
           now' \in Int, UNCHANGED <<mode, milestones, stored, scan>>, RunFits'
    PROVE  RunInv'
<1>1. StoreIsAttributed' /\ ScanIsSound'
  BY DEF RunInv, StoreIsAttributed, ScanIsSound
<1> QED
  BY <1>1 DEF RunInv

\* A step of a collection leaves its instant alone.
LEMMA MomentStays ==
    ASSUME CollectionStep \/ OthersSpend PROVE moment' = moment
BY DEF CollectionStep, OthersSpend, SportKeysToPoll, RaiseAuthError, CompetitionRefused,
       CompetitionFails, CompetitionAnswers, IngestEvent, ExtrasSkipped, ExtrasFail,
       ExtrasAnswer, EndCollection

\* A discovery adds milestones under internal ids.
LEMMA DiscoveryKeeps ==
    ASSUME ScanInv, BeginDiscovery \/ EndDiscovery PROVE ScanInv'
<1>1. CASE BeginDiscovery
  <2>1. run = Idle /\ UNCHANGED <<mode, now, stored, scan>> /\ now \in Int
    BY <1>1 DEF BeginDiscovery, ScanInv, RunInv
  <2>2. \/ StartCollection(now) /\ run' = [purpose |-> "discovery"] /\ milestones' = milestones
        \/ UNCHANGED <<collectionVars, run, milestones>>
        \/ /\ milestones' = milestones \cup Milestones(Listing("demo", NoFile).events)
           /\ UNCHANGED <<collectionVars, run>>
    <3>1. PICK source : source = SourceOf(NoFile)
      OBVIOUS
    <3>2. CASE source = "the_odds_api"
      BY <1>1, <3>1, <3>2 DEF BeginDiscovery
    <3>3. CASE source = "unavailable"
      BY <1>1, <3>1, <3>3 DEF BeginDiscovery
    <3>4. CASE source # "the_odds_api" /\ source # "unavailable"
      BY <1>1, <3>1, <3>4 DEF BeginDiscovery
    <3> QED
      BY <3>2, <3>3, <3>4
  <2>3. milestones' \subseteq Scopes
    <3>1. Listing("demo", NoFile).events \in SUBSET Events(STRING)
      BY <2>1, ListingIsTyped DEF Batches
    <3> QED
      BY <2>2, <3>1, MilestonesAre DEF ScanInv, RunInv
  <2>4. run' \in {Idle, [purpose |-> "discovery"]}
    BY <2>1, <2>2
  <2>5. CollectionInv'
    <3>1. CASE StartCollection(now)
      BY <2>1, <3>1, StartKeeps DEF ScanInv
    <3>2. CASE UNCHANGED collectionVars
      BY <3>2, BudgetsAside DEF ScanInv, collectionVars
    <3> QED
      BY <2>2, <3>1, <3>2
  <2> QED
    BY <2>1, <2>3, <2>4, <2>5
    DEF ScanInv, RunInv, RunFits, StoreIsAttributed, ScanIsSound
<1>2. CASE EndDiscovery
  <2>1. /\ run' = Idle /\ Released /\ UNCHANGED <<mode, now, stored, scan>>
        /\ milestones' = milestones \cup Milestones(batch.events) \/ milestones' = milestones
    BY <1>2 DEF EndDiscovery
  <2>2. milestones' \subseteq Scopes
    <3>1. batch.events \in SUBSET Events(STRING)
      BY DEF ScanInv, CollectionInv, CollectionTyped, Batches
    <3> QED
      BY <2>1, <3>1, MilestonesAre DEF ScanInv, RunInv
  <2> QED
    BY <2>1, <2>2, ReleasedKeeps DEF ScanInv, RunInv, RunFits, StoreIsAttributed, ScanIsSound
<1> QED
  BY <1>1, <1>2

\* A failed collection publishes an empty document.
LEMMA UnavailabilityIsSound ==
    ASSUME NEW r, r.batch = EmptyBatch, r.unattributable = {}, NEW md
    PROVE  Sound(Unavailability(r), md)
<1>1. PICK s : s = Unavailability(r)
  OBVIOUS
<1>2. /\ s.batch = r.batch /\ s.unattributable = r.unattributable
      /\ s.candidates = NothingAnalysed.candidates
  BY <1>1 DEF Unavailability, Document
<1>3. s.candidates = {}
  BY <1>2 DEF NothingAnalysed
<1> QED
  BY <1>1, <1>2, <1>3, EmptyIsSound

\* A scan that is launched, from whatever source it has.
LEMMA LaunchKeeps ==
    ASSUME ScanInv, run = Idle, UNCHANGED <<mode, now, milestones, stored>>,
           NEW r, ScanFits(r, now), r.phase = "collecting", r.moment = now,
           r.file \in ManualFiles \cup {NoFile}, r.batch = EmptyBatch, r.unattributable = {},
           Launch(r)
    PROVE  ScanInv'
<1>1. now \in Int /\ now' \in Int /\ RunInv /\ CollectionInv
  BY DEF ScanInv, RunInv
<1>2. PICK source : source = SourceOf(r.file)
  OBVIOUS
<1>3. CASE source = "the_odds_api"
  <2>1. StartCollection(now) /\ run' = r /\ scan' = scan
    BY <1>2, <1>3 DEF Launch
  <2>2. moment' = now
    BY <2>1 DEF StartCollection
  <2>3. RunFits'
    BY <2>1, <2>2 DEF RunFits
  <2>4. CollectionInv'
    BY <1>1, <2>1, StartKeeps
  <2> QED
    BY <1>1, <2>1, <2>3, <2>4, RunAside DEF ScanInv
<1>4. CASE source = "unavailable"
  <2>1. Report(Unavailability(r)) /\ UNCHANGED collectionVars
    BY <1>2, <1>4 DEF Launch
  <2>2. scan' = Unavailability(r) /\ run' = Idle
    BY <2>1 DEF Report
  <2>3. ScanIsSound'
    BY <2>2, UnavailabilityIsSound DEF ScanIsSound
  <2>4. CollectionInv'
    BY <1>1, <2>1, BudgetsAside DEF collectionVars
  <2> QED
    BY <1>1, <2>2, <2>3, <2>4 DEF ScanInv, RunInv, RunFits, StoreIsAttributed
<1>5. CASE source = "manual" /\ ~Parses(r.file)
  <2>1. UNCHANGED <<collectionVars, run, scan>>
    BY <1>2, <1>5 DEF Launch
  <2>2. moment' = moment
    BY <2>1 DEF collectionVars
  <2>3. CollectionInv'
    BY <1>1, <2>1, BudgetsAside DEF collectionVars
  <2>4. RunFits'
    BY <2>1, <2>2 DEF RunFits, ScanInv, RunInv
  <2> QED
    BY <1>1, <2>1, <2>3, <2>4, RunAside DEF ScanInv
<1>6. CASE /\ source \notin {"the_odds_api", "unavailable"}
           /\ ~(source = "manual" /\ ~Parses(r.file))
  <2>1. /\ run' = [r EXCEPT !.phase = "collected",
                            !.batch = Listing(SourceOf(r.file), r.file)]
        /\ UNCHANGED <<collectionVars, scan>>
    BY <1>2, <1>6 DEF Launch
  <2>2. PICK s, built : s = run' /\ built = moment'
    OBVIOUS
  <2>3. ScanFits(s, built)
    <3>1. s = [r EXCEPT !.phase = "collected", !.batch = Listing(SourceOf(r.file), r.file)]
      BY <2>1, <2>2
    <3>2. /\ SourceOf(r.file) \notin {"the_odds_api", "unavailable"} /\ now \in Int
          /\ r.file \in ManualFiles \cup {NoFile} /\ ScanFits(r, now)
          /\ r.phase = "collecting" /\ r.moment = now
      BY <1>1, <1>2, <1>6
    <3> QED
      BY ONLY <3>1, <3>2, ListedRunFits
  <2>4. RunFits'
    BY <2>2, <2>3 DEF RunFits
  <2>5. CollectionInv'
    BY <1>1, <2>1, BudgetsAside DEF collectionVars
  <2> QED
    BY <1>1, <2>1, <2>4, <2>5, RunAside DEF ScanInv
<1> QED
  BY <1>3, <1>4, <1>5, <1>6

\* A job's scan or an operator's.
LEMMA BeginScanKeeps ==
    ASSUME ScanInv, BeginScan PROVE ScanInv'
<1>1. /\ run = Idle /\ UNCHANGED <<mode, now, milestones, stored>> /\ now \in Int
      /\ milestones \subseteq Scopes
  BY DEF BeginScan, ScanInv, RunInv
<1>2. \E scope \in Scopes \cup {NoScope}, file \in ManualFiles \cup {NoFile} : \E persist, by :
         /\ scope # NoScope => persist
         /\ Launch(NewRun(scope, file, persist, by))
  <2>1. CASE \E scope \in milestones \cup {NoScope} : Launch(NewRun(scope, NoFile, TRUE, "job"))
    <3>1. PICK scope \in milestones \cup {NoScope} : Launch(NewRun(scope, NoFile, TRUE, "job"))
      BY <2>1
    <3>2. scope \in Scopes \cup {NoScope} /\ NoFile \in ManualFiles \cup {NoFile}
      BY <1>1
    <3> QED
      BY <3>1, <3>2, Zenon
  <2>2. CASE \E file \in ManualFiles \cup {NoFile}, persist \in BOOLEAN :
               Launch(NewRun(NoScope, file, persist, "operator"))
    <3>1. PICK file \in ManualFiles \cup {NoFile}, persist \in BOOLEAN :
            Launch(NewRun(NoScope, file, persist, "operator"))
      BY <2>2
    <3>2. NoScope \in Scopes \cup {NoScope} /\ file \in ManualFiles \cup {NoFile}
      OBVIOUS
    <3> QED
      BY <3>1, <3>2, Zenon
  <2> QED
    BY <2>1, <2>2 DEF BeginScan
<1>3. PICK scope \in Scopes \cup {NoScope}, file \in ManualFiles \cup {NoFile} :
        \E persist, by : (scope # NoScope => persist) /\ Launch(NewRun(scope, file, persist, by))
  BY <1>2
<1>4. PICK persist, by :
        /\ scope # NoScope => persist
        /\ Launch(NewRun(scope, file, persist, by))
  BY <1>3
<1>5. PICK r : r = NewRun(scope, file, persist, by)
  OBVIOUS
<1>6. Launch(r)
  BY <1>4, <1>5
<1>7. /\ ScanFits(r, now) /\ r.phase = "collecting" /\ r.moment = now /\ r.file = file
      /\ r.batch = EmptyBatch /\ r.unattributable = {}
  BY <1>1, <1>4, <1>5, NewRunFits
<1> QED
  BY <1>1, <1>6, <1>7, LaunchKeeps

\* A collection that raised has collected nothing.
LEMMA CollectionRaisedKeeps ==
    ASSUME ScanInv, CollectionRaised PROVE ScanInv'
<1>1. /\ run.purpose = "scan" /\ run.phase = "collecting"
      /\ scan' = Unavailability(run) /\ run' = Idle
      /\ Released /\ UNCHANGED <<mode, now, milestones, stored>>
  BY DEF CollectionRaised, ScanPhase, Report
<1>2. ScanFits(run, moment)
  BY <1>1 DEF ScanInv, RunInv, RunFits, Idle
<1>3. run.batch = EmptyBatch /\ run.unattributable = {}
  BY <1>1, <1>2 DEF ScanFits
<1>4. Sound(Unavailability(run), mode)
  BY <1>3, UnavailabilityIsSound
<1>5. ScanIsSound'
  BY <1>1, <1>4 DEF ScanIsSound
<1> QED
  BY <1>1, <1>5, ReleasedKeeps DEF ScanInv, RunInv, RunFits, StoreIsAttributed

\* The scan takes over what its collection gathered.
LEMMA CollectedKeeps ==
    ASSUME ScanInv, Collected PROVE ScanInv'
<1>1. /\ run.purpose = "scan" /\ run.phase = "collecting"
      /\ run' = [run EXCEPT !.phase = "collected", !.batch = batch]
      /\ Released /\ UNCHANGED <<mode, now, milestones, stored, scan>>
  BY DEF Collected, ScanPhase
<1>2. ScanFits(run, moment)
  BY <1>1 DEF ScanInv, RunInv, RunFits, Idle
<1>3. PICK s, built : s = run' /\ built = moment'
  OBVIOUS
<1>4. ScanFits(s, built)
  <2>1. s = [run EXCEPT !.phase = "collected", !.batch = batch] /\ CollectionInv
    BY <1>1, <1>3 DEF ScanInv
  <2> QED
    BY <1>1, <1>2, <2>1, CollectedRunFits
<1>5. RunFits'
  BY <1>3, <1>4 DEF RunFits
<1> QED
  BY <1>1, <1>5, RunAside, ReleasedKeeps DEF ScanInv, RunInv

\* The prices that are stored belong to the events that are stored with them.
LEMMA StoreBatchKeeps ==
    ASSUME ScanInv, StoreBatch PROVE ScanInv'
<1> DEFINE gone == {e \in run.batch.events : ~Usable(e)}
<1>1. PICK resolved : resolved = ResolveIdentity(run.batch)
  OBVIOUS
<1>2. /\ run.purpose = "scan" /\ run.phase = "collected"
      /\ run' = [run EXCEPT !.phase = "stored", !.batch = ResolveIdentity(run.batch),
                            !.unattributable = gone]
      /\ stored' = [events |-> stored.events \cup {e.id : e \in resolved.events},
                    prices |-> stored.prices \cup {Fingerprint(resolved.prices[i]) :
                                                     i \in DOMAIN resolved.prices}]
      /\ UNCHANGED <<collectionVars, mode, now, milestones, scan>>
  BY <1>1, Zenon DEF StoreBatch, ScanPhase
<1> HIDE DEF gone
<1>3. ScanFits(run, moment)
  BY <1>2 DEF ScanInv, RunInv, RunFits, Idle
<1>4. RunFits'
  <2>1. PICK s, built : s = run' /\ built = moment'
    OBVIOUS
  <2>2. ScanFits(s, built)
    BY <1>2, <1>3, <2>1, StoredRunFits
  <2> QED
    BY <2>1, <2>2 DEF RunFits
<1>5. \A i \in DOMAIN resolved.prices :
         \E e \in resolved.events : e.id = resolved.prices[i].event
  <2>1. /\ run.batch \in Batches(STRING, ReceivedAt(STRING, run.moment))
        /\ OneEventPerId(run.batch) /\ run.moment \in Int
    BY <1>2, <1>3 DEF ScanFits
  <2> QED
    BY <1>1, <2>1, ResolvedIsAttributed
<1>6. StoreIsAttributed'
  <2>1. /\ stored'.events = stored.events \cup {e.id : e \in resolved.events}
        /\ stored'.prices = stored.prices \cup {Fingerprint(resolved.prices[i]) :
                                                  i \in DOMAIN resolved.prices}
    BY <1>2
  <2>2. \A p : Fingerprint(p)[3] = p.event
    BY DEF Fingerprint
  <2>3. \A f \in stored'.prices : f[3] \in stored'.events
    <3> SUFFICES ASSUME NEW f \in stored'.prices PROVE f[3] \in stored'.events
      OBVIOUS
    <3>1. CASE f \in stored.prices
      BY <2>1, <3>1 DEF ScanInv, RunInv, StoreIsAttributed
    <3>2. CASE f \notin stored.prices
      <4>1. PICK i \in DOMAIN resolved.prices : f = Fingerprint(resolved.prices[i])
        BY <2>1, <3>2
      <4>2. PICK e \in resolved.events : e.id = resolved.prices[i].event
        BY <1>5
      <4> QED
        BY <2>1, <2>2, <4>1, <4>2
    <3> QED
      BY <3>1, <3>2
  <2> QED
    BY <2>3 DEF StoreIsAttributed
<1>7. CollectionInv'
  BY <1>2, BudgetsAside DEF ScanInv, collectionVars
<1> QED
  BY <1>2, <1>4, <1>6, <1>7 DEF ScanInv, RunInv, ScanIsSound

\* The document of a scan is sound: its events were stored under internal ids, or the
\* scan has no scope.
LEMMA AnalysisKeeps ==
    ASSUME ScanInv, AnalyseAndSave PROVE ScanInv'
<1> DEFINE analysis == Analyse(InScope(run.batch, run.scope, run.moment), run.batch.events,
                               run.batch.prices, mode, ModelsFor, run.moment, WindowHours)
           all == [analysis EXCEPT !.rejections =
                     @ \cup AmbiguityRejections(run.unattributable)]
<1>1. /\ run.purpose = "scan"
      /\ run.phase = "stored" \/ (run.phase = "collected" /\ ~run.persist)
      /\ UNCHANGED <<collectionVars, mode, now, milestones, stored>>
  BY DEF AnalyseAndSave, ScanPhase
<1>2. \E status, collection : Report(Document(status, collection, "none", run, all))
  BY Zenon DEF AnalyseAndSave
<1>3. PICK status, collection, found :
         /\ found = all
         /\ Report(Document(status, collection, "none", run, found))
  BY <1>2
<1>4. /\ found.candidates = analysis.candidates
      /\ found.rejections = analysis.rejections \cup AmbiguityRejections(run.unattributable)
  <2>1. \E C, R : analysis = [candidates |-> C, rejections |-> R]
    BY Zenon DEF Analyse
  <2> HIDE DEF analysis
  <2> QED
    BY <1>3, <2>1
<1> HIDE DEF analysis, all
<1>5. ScanFits(run, moment)
  BY <1>1 DEF ScanInv, RunInv, RunFits, Idle
<1>6. PICK ids : /\ run.batch \in Batches(ids, ReceivedAt(ids, run.moment))
                 /\ ScopeFits(run.batch, run.scope)
  <2>1. CASE run.phase = "stored"
    <3>1. run.scope # NoScope => run.scope.id = InternalId[run.scope.source]
      BY <1>5 DEF ScanFits, Scopes
    <3> QED
      BY <1>5, <2>1, <3>1 DEF ScanFits, ScopeFits
  <2>2. CASE run.phase = "collected" /\ ~run.persist
    BY <1>5, <2>2 DEF ScanFits, ScopeFits
  <2> QED
    BY <1>1, <2>1, <2>2
<1>7. PICK s : s = Document(status, collection, "none", run, found)
  OBVIOUS
<1>8. Sound(s, mode)
  <2>1. /\ s.batch = run.batch /\ s.scope = run.scope /\ s.moment = run.moment
        /\ s.unattributable = run.unattributable
        /\ s.candidates = found.candidates /\ s.rejections = found.rejections
    BY <1>7 DEF Document
  <2>2. run.moment \in Int
    BY <1>5 DEF ScanFits
  <2>3. PICK b, scope, instant, gone, models :
           /\ b = run.batch /\ scope = run.scope /\ instant = run.moment
           /\ gone = run.unattributable /\ models = ModelsFor
    OBVIOUS
  <2>4. /\ s.candidates = Analyse(InScope(b, scope, instant), b.events, b.prices, mode, models,
                                  instant, WindowHours).candidates
        /\ s.rejections = Analyse(InScope(b, scope, instant), b.events, b.prices, mode, models,
                                  instant, WindowHours).rejections \cup AmbiguityRejections(gone)
    BY <1>4, <2>1, <2>3 DEF analysis
  <2>5. /\ b \in Batches(ids, ReceivedAt(ids, instant)) /\ ScopeFits(b, scope)
        /\ s.batch = b /\ s.scope = scope /\ s.moment = instant /\ s.unattributable = gone
        /\ instant \in Int
    BY <1>6, <2>1, <2>2, <2>3
  <2> QED
    BY ONLY <2>4, <2>5, AnalysedIsSound
<1>9. scan' = s /\ run' = Idle
  BY <1>3, <1>7 DEF Report
<1>10. ScanIsSound'
  BY <1>1, <1>8, <1>9 DEF ScanIsSound
<1>11. CollectionInv'
  BY <1>1, BudgetsAside DEF ScanInv, collectionVars
<1> QED
  BY <1>1, <1>9, <1>10, <1>11 DEF ScanInv, RunInv, RunFits, StoreIsAttributed

\* What an exception or a crash forgets is only what was not stored.
LEMMA CrashKeeps ==
    ASSUME ScanInv, RunRaises \/ Crash PROVE ScanInv'
<1>1. run' = Idle /\ Released /\ UNCHANGED <<mode, now, milestones, stored, scan>>
  BY DEF RunRaises, Crash
<1> QED
  BY <1>1, ReleasedKeeps DEF ScanInv, RunInv, RunFits, StoreIsAttributed, ScanIsSound

\* The steps that leave the run of the process alone.
LEMMA AsideKeeps ==
    ASSUME ScanInv,
           \/ Tick
           \/ CollectionStep /\ UNCHANGED runVars
           \/ OthersSpend /\ UNCHANGED runVars
           \/ UNCHANGED vars
    PROVE  ScanInv'
<1>1. /\ UNCHANGED <<mode, run, milestones, stored, scan>> /\ now' \in Int
      /\ moment' = moment
  <2>1. CASE Tick
    BY <2>1 DEF Tick, ScanInv, RunInv, collectionVars
  <2>2. CASE (CollectionStep \/ OthersSpend) /\ UNCHANGED runVars
    BY <2>2, MomentStays DEF runVars, ScanInv, RunInv
  <2>3. CASE UNCHANGED vars
    BY <2>3 DEF vars, runVars, ScanInv, RunInv, collectionVars
  <2> QED
    BY <2>1, <2>2, <2>3
<1>2. CollectionInv'
  <2>1. CASE CollectionStep \/ OthersSpend
    BY <2>1, CollectionStepKeeps DEF ScanInv
  <2>2. CASE UNCHANGED collectionVars
    BY <2>2, BudgetsAside DEF ScanInv, collectionVars
  <2> QED
    BY <2>1, <2>2 DEF Tick, vars
<1>3. RunFits'
  BY <1>1 DEF ScanInv, RunInv, RunFits
<1> QED
  BY <1>1, <1>2, <1>3, RunAside DEF ScanInv

\* Every step keeps the invariant.
LEMMA NextKeepsScanInv == ScanInv /\ [Next]_vars => ScanInv'
BY DiscoveryKeeps, BeginScanKeeps, CollectionRaisedKeeps, CollectedKeeps, StoreBatchKeeps,
   AnalysisKeeps, CrashKeeps, AsideKeeps DEF Next

\* The inductive invariant of a run and its collection holds throughout.
THEOREM ScansAreSound == Spec => []ScanInv
BY InitScanInv, NextKeepsScanInv, PTL DEF Spec

\* A collection says what happened to it (the_odds_api/service.py, _classify_coverage),
\* whatever its answers were and in whatever order they failed.
THEOREM CoverageSaysWhatHappened == Spec => []CoverageIsHonest
<1>1. ScanInv => CoverageIsHonest
  BY InvIsHonest DEF ScanInv
<1> QED
  BY <1>1, ScansAreSound, PTL

\* A stored price belongs to a stored event (_resolve_identity), for every world of
\* identities and wherever the process died.
THEOREM StoredPricesHaveTheirEvent == Spec => []StoreIsAttributed
<1>1. ScanInv => StoreIsAttributed
  BY DEF ScanInv, RunInv
<1> QED
  BY <1>1, ScansAreSound, PTL

\* Every valid price on an event that a scan analyses is a candidate or refused with a
\* code, and so is every event outside its window or of undetermined identity
\* (engine/scan.py).
THEOREM ScansDropNothing == Spec => []NothingDropped
<1>1. ScanInv => NothingDropped
  BY DEF ScanInv, RunInv, ScanIsSound, Sound, Dropless, NothingDropped
<1> QED
  BY <1>1, ScansAreSound, PTL

\* What is published is fresh, its bookmaker's latest, ahead of its event and, to the
\* rounding of a cent, under the stake cap, and only demo mode publishes (D-019).
THEOREM PublishedCandidatesAreSafe == Spec => []PublishedIsSafe
<1>1. ScanInv => PublishedIsSafe
  BY DEF ScanInv, RunInv, ScanIsSound, Sound, Safe, PublishedIsSafe
<1> QED
  BY <1>1, ScansAreSound, PTL

\* The scan of a milestone has a verdict on the event it was planned for and publishes no
\* other (runner.discover_events).
THEOREM MilestonesFindTheirEvent == Spec => []MilestoneFindsItsEvent
<1>1. ScanInv => MilestoneFindsItsEvent
  BY DEF ScanInv, RunInv, ScanIsSound, Sound, Finds, MilestoneFindsItsEvent
<1> QED
  BY <1>1, ScansAreSound, PTL
=================================================================================
