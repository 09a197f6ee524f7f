------------------------------ MODULE ApiProofs ------------------------------
(***************************************************************************)
(* Proofs about module Api: of a search, that no hit comes twice and that  *)
(* the scores and then PageRank decide which hits come and in what order,  *)
(* while every other program writes; of a path, that it is real and as     *)
(* short as any, and that three hops are always enough.                    *)
(***************************************************************************)
EXTENDS Api, TLAPS, FiniteSetTheorems, SequenceTheorems, WellFoundedInduction

-------------------------------------------------------------------------------
(* Sorting.  A strict total order on a finite set has exactly one sequence;  *)
(* here it is enough that there is one: the place of x is the number of      *)
(* elements up to x.                                                         *)

Orders(before, S) ==
  /\ \A x \in S : <<x, x>> \notin before
  /\ \A x, y \in S : x # y => <<x, y>> \in before \/ <<y, x>> \in before
  /\ \A x, y, z \in S : <<x, y>> \in before /\ <<y, z>> \in before => <<x, z>> \in before

\* A part of a finite set is finite and, unless it is all of it, smaller.
LEMMA PartOfFinite ==
  ASSUME NEW T, IsFiniteSet(T), NEW S \in SUBSET T
  PROVE  /\ IsFiniteSet(S) /\ Cardinality(S) \in Nat /\ Cardinality(T) \in Nat
         /\ Cardinality(S) =< Cardinality(T)
         /\ S # T => Cardinality(S) < Cardinality(T)
<1>1. IsFiniteSet(S) /\ Cardinality(S) =< Cardinality(T)
      /\ (Cardinality(S) = Cardinality(T) => S = T)
  BY FS_Subset
<1>2. Cardinality(S) \in Nat /\ Cardinality(T) \in Nat
  BY <1>1, FS_CardinalityType
<1> QED BY <1>1, <1>2

\* A finite set that is totally ordered can be listed in that order.
LEMMA InOrderExists ==
  ASSUME NEW S, IsFiniteSet(S), NEW before, Orders(before, S)
  PROVE  \E o \in SetToSeqs(S) : \A i, j \in DOMAIN o : i < j => <<o[i], o[j]>> \in before
<1> DEFINE n       == Cardinality(S)
           UpTo(x) == {y \in S : y = x \/ <<y, x>> \in before}
           place   == [x \in S |-> Cardinality(UpTo(x))]
           o       == [i \in 1..n |-> CHOOSE x \in S : place[x] = i]
<1>1. n \in Nat
  BY FS_CardinalityType
<1>2. ASSUME NEW x \in S PROVE place[x] \in 1..n
  <2>1. UpTo(x) \in SUBSET S /\ {x} \in SUBSET UpTo(x)
    OBVIOUS
  <2>2. Cardinality(UpTo(x)) \in Nat /\ Cardinality(UpTo(x)) =< n /\ IsFiniteSet(UpTo(x))
    BY <2>1, PartOfFinite
  <2>3. Cardinality({x}) = 1
    BY FS_Singleton
  <2>4. 1 =< Cardinality(UpTo(x))
    BY <2>1, <2>2, <2>3, PartOfFinite
  <2> QED BY <1>1, <2>2, <2>4
<1>3. ASSUME NEW x \in S, NEW y \in S, <<x, y>> \in before PROVE place[x] < place[y]
  <2>1. UpTo(x) \in SUBSET UpTo(y)
    BY <1>3 DEF Orders
  <2>2. y \in UpTo(y) /\ y \notin UpTo(x)
    BY <1>3 DEF Orders
  <2>3. UpTo(y) \in SUBSET S
    OBVIOUS
  <2>4. IsFiniteSet(UpTo(y))
    BY <2>3, PartOfFinite
  <2> QED BY <2>1, <2>2, <2>4, PartOfFinite
<1> HIDE DEF place, n
<1>4. ASSUME NEW x \in S, NEW y \in S, place[x] = place[y] PROVE x = y
  <2>1. place[x] \in Nat /\ place[y] \in Nat
    BY <1>1, <1>2
  <2>2. <<x, y>> \notin before /\ <<y, x>> \notin before
    BY <1>3, <1>4, <2>1
  <2> QED BY <2>2 DEF Orders
<1>5. place \in Injection(S, 1..n)
  <2>1. place \in [S -> 1..n]
    BY <1>2 DEF place
  <2> QED BY <1>4, <2>1 DEF Injection, IsInjective
<1>6. place \in Surjection(S, 1..n)
  <2>1. IsFiniteSet(1..n) /\ Cardinality(1..n) = n
    BY <1>1, FS_Interval
  <2>2. Cardinality(S) = n
    BY DEF n
  <2> QED BY <1>5, <2>1, <2>2, FS_Injection
<1>7. ASSUME NEW i \in 1..n PROVE o[i] \in S /\ place[o[i]] = i
  <2>1. \E x \in S : place[x] = i
    BY <1>6 DEF Surjection
  <2> QED BY <2>1
<1>8. o \in [1..n -> S]
  BY <1>7
<1> HIDE DEF o
<1>9. \A i, j \in 1..n : i # j => o[i] # o[j]
  BY <1>7
<1>10. ASSUME NEW i \in 1..n, NEW j \in 1..n, i < j PROVE <<o[i], o[j]>> \in before
  <2>1. /\ o[i] \in S /\ place[o[i]] = i
        /\ o[j] \in S /\ place[o[j]] = j
    BY <1>7
  <2>2. o[i] # o[j]
    BY <1>9, <1>10
  <2>3. ~(j < i)
    BY <1>1, <1>10
  <2>4. <<o[j], o[i]>> \notin before
    BY <1>3, <2>1, <2>3
  <2> QED BY <2>1, <2>2, <2>4 DEF Orders
<1>11. o \in SetToSeqs(S)
  BY <1>8, <1>9 DEF SetToSeqs, n
<1> QED BY <1>8, <1>10, <1>11

\* An order of S visits each of its elements once.
LEMMA InOrderSorts ==
  ASSUME NEW S, IsFiniteSet(S), NEW before, Orders(before, S)
  PROVE  /\ Cardinality(S) \in Nat
         /\ InOrder(S, before) \in [1..Cardinality(S) -> S]
         /\ \A i, j \in 1..Cardinality(S) :
              i < j => <<InOrder(S, before)[i], InOrder(S, before)[j]>> \in before
         /\ \A i, j \in 1..Cardinality(S) :
              i # j => InOrder(S, before)[i] # InOrder(S, before)[j]
         /\ \A x \in S : \E i \in 1..Cardinality(S) : InOrder(S, before)[i] = x
<1> DEFINE o == InOrder(S, before)
           n == Cardinality(S)
<1>1. n \in Nat
  BY FS_CardinalityType
<1>2. o \in SetToSeqs(S) /\ \A i, j \in DOMAIN o : i < j => <<o[i], o[j]>> \in before
  BY InOrderExists DEF InOrder
<1> HIDE DEF o
<1>3. o \in [1..n -> S] /\ \A i, j \in 1..n : i # j => o[i] # o[j]
  BY <1>2 DEF SetToSeqs
<1> HIDE DEF n
<1>4. o \in Injection(1..n, S)
  BY <1>3 DEF Injection, IsInjective
<1>5. Cardinality(1..n) = Cardinality(S)
  BY <1>1, FS_Interval DEF n
<1>6. o \in Surjection(1..n, S)
  BY <1>4, <1>5, FS_Injection
<1>7. \A x \in S : \E i \in 1..n : o[i] = x
  BY <1>6 DEF Surjection
<1> QED BY <1>1, <1>2, <1>3, <1>7 DEF o, n

\* A strict weak order, the kind that sorts: those that are equal are equal to
\* the same others.
WeakOrder(higher, S) ==
  /\ \A x, y \in S : <<x, y>> \in higher => <<y, x>> \notin higher
  /\ \A x, y, z \in S : <<x, z>> \in higher => <<x, y>> \in higher \/ <<y, z>> \in higher

\* Sorting by a weak order, ties by the place in a sequence, is a total order.
LEMMA EarlierOrders ==
  ASSUME NEW T, NEW s \in Seq(T), NEW higher, WeakOrder(higher, ToSet(s))
  PROVE  Orders(Earlier(s, higher), DOMAIN s)
<1> DEFINE h(i, j) == <<s[i], s[j]>> \in higher
           e(i, j) == <<i, j>> \in Earlier(s, higher)
<1>0. \A i \in DOMAIN s : i \in Nat
  BY LenProperties
<1>1. /\ \A i, j \in DOMAIN s : h(i, j) => ~h(j, i)
      /\ \A i, j, k \in DOMAIN s : h(i, k) => h(i, j) \/ h(j, k)
  BY DEF WeakOrder, ToSet
<1>2. \A i, j \in DOMAIN s : e(i, j) <=> h(i, j) \/ (~h(j, i) /\ i < j)
  BY DEF Earlier
<1> HIDE DEF h, e
<1>3. \A i \in DOMAIN s : ~e(i, i)
  BY <1>0, <1>1, <1>2
<1>4. \A i, j \in DOMAIN s : i # j => e(i, j) \/ e(j, i)
  BY <1>0, <1>1, <1>2
<1>5. \A i, j, k \in DOMAIN s : i < j /\ j < k => i < k
  BY <1>0
<1>6. \A i, j, k \in DOMAIN s : e(i, j) /\ e(j, k) => e(i, k)
  BY <1>1, <1>2, <1>5
<1> QED BY <1>3, <1>4, <1>6 DEF Orders, e

\* The sequence sorted: the same elements, none twice if none came twice, and
\* nothing after what is higher.
LEMMA StableSorts ==
  ASSUME NEW T, NEW s \in Seq(T), NEW higher, WeakOrder(higher, ToSet(s))
  PROVE  /\ Stable(s, higher) \in Seq(T) /\ Len(Stable(s, higher)) = Len(s)
         /\ ToSet(Stable(s, higher)) = ToSet(s)
         /\ IsInjective(s) => IsInjective(Stable(s, higher))
         /\ \A i, j \in 1..Len(s) :
              i < j => <<Stable(s, higher)[j], Stable(s, higher)[i]>> \notin higher
<1> DEFINE n == Len(s)
           o == InOrder(DOMAIN s, Earlier(s, higher))
           t == Stable(s, higher)
<1>1. n \in Nat /\ s \in [1..n -> T] /\ DOMAIN s = 1..n
  BY LenProperties
<1>2. IsFiniteSet(DOMAIN s) /\ Cardinality(DOMAIN s) = n
  BY <1>1, FS_Interval
<1>3. Orders(Earlier(s, higher), DOMAIN s)
  BY EarlierOrders
<1>4. /\ o \in [1..n -> 1..n]
      /\ \A i, j \in 1..n : i < j => <<o[i], o[j]>> \in Earlier(s, higher)
      /\ \A i, j \in 1..n : i # j => o[i] # o[j]
      /\ \A x \in 1..n : \E i \in 1..n : o[i] = x
  <2> DEFINE D == DOMAIN s
             R == Earlier(s, higher)
  <2>1. IsFiniteSet(D) /\ Orders(R, D) /\ Cardinality(D) = n /\ D = 1..n
    BY <1>1, <1>2, <1>3
  <2> HIDE DEF D, R, n
  <2>2. /\ InOrder(D, R) \in [1..n -> D]
        /\ \A i, j \in 1..n : i < j => <<InOrder(D, R)[i], InOrder(D, R)[j]>> \in R
        /\ \A i, j \in 1..n : i # j => InOrder(D, R)[i] # InOrder(D, R)[j]
        /\ \A x \in D : \E i \in 1..n : InOrder(D, R)[i] = x
    BY <2>1, InOrderSorts
  <2> QED BY <2>1, <2>2 DEF D, R
<1>5. t = [i \in 1..n |-> s[o[i]]]
  BY <1>1 DEF Stable
<1> HIDE DEF n, o, t
<1>6. t \in [1..n -> T]
  BY <1>1, <1>4, <1>5
<1>7. t \in Seq(T) /\ Len(t) = n
  BY <1>1, <1>6, SeqDef
<1>8. ToSet(t) = ToSet(s)
  <2>1. \A i \in 1..n : t[i] = s[o[i]] /\ o[i] \in 1..n
    BY <1>4, <1>5
  <2>2. ToSet(t) = {t[i] : i \in 1..n} /\ ToSet(s) = {s[i] : i \in 1..n}
    BY <1>1, <1>6 DEF ToSet
  <2>3. \A i \in 1..n : t[i] \in ToSet(s)
    BY <2>1, <2>2
  <2>4. ASSUME NEW i \in 1..n PROVE s[i] \in ToSet(t)
    <3>1. PICK j \in 1..n : o[j] = i
      BY <1>4
    <3> QED BY <2>1, <2>2, <3>1
  <2> QED BY <2>2, <2>3, <2>4
<1>9. IsInjective(s) => IsInjective(t)
  BY <1>1, <1>4, <1>5, <1>6 DEF IsInjective
<1>10. ASSUME NEW i \in 1..n, NEW j \in 1..n, i < j
       PROVE  <<t[j], t[i]>> \notin higher
  <2>1. o[i] \in 1..n /\ o[j] \in 1..n /\ <<o[i], o[j]>> \in Earlier(s, higher)
    BY <1>4, <1>10
  <2>2. s[o[i]] \in ToSet(s) /\ s[o[j]] \in ToSet(s)
    BY <1>1, <2>1 DEF ToSet
  <2>3. <<s[o[j]], s[o[i]]>> \notin higher
    BY <2>1, <2>2 DEF Earlier, WeakOrder
  <2> QED BY <1>5, <2>3
<1> QED BY <1>7, <1>8, <1>9, <1>10 DEF n, t

\* The first n of a sequence.
LEMMA FirstIsPrefix ==
  ASSUME NEW T, NEW s \in Seq(T), NEW n \in Nat
  PROVE  /\ First(s, n) \in Seq(T) /\ Len(First(s, n)) = Min2(n, Len(s))
         /\ Min2(n, Len(s)) \in Nat /\ Min2(n, Len(s)) =< Len(s) /\ Min2(n, Len(s)) =< n
         /\ \A i \in 1..Min2(n, Len(s)) : First(s, n)[i] = s[i]
         /\ ToSet(First(s, n)) \subseteq ToSet(s)
         /\ IsInjective(s) => IsInjective(First(s, n))
<1> DEFINE m == Min2(n, Len(s))
           f == First(s, n)
<1>1. Len(s) \in Nat /\ s \in [1..Len(s) -> T]
  BY LenProperties
<1>2. m \in Nat /\ m =< Len(s) /\ m =< n
  BY <1>1 DEF Min2
<1>3. 1..m \subseteq 1..Len(s)
  BY <1>1, <1>2
<1>4. f = SubSeq(s, 1, m)
  BY DEF First
<1> HIDE DEF m, f
<1>5. \A i \in 1..m : s[i] \in T
  BY <1>1, <1>3
<1>6. f \in Seq(T) /\ Len(f) = m /\ \A i \in 1..m : f[i] = s[i]
  <2>1. /\ f \in Seq(T) /\ Len(f) = IF 1 =< m THEN m - 1 + 1 ELSE 0
        /\ \A i \in 1..(m - 1 + 1) : f[i] = s[1 + i - 1]
    BY <1>2, <1>4, <1>5, SubSeqProperties
  <2>2. m - 1 + 1 = m /\ (~(1 =< m) => m = 0)
    BY <1>2
  <2>3. \A i \in 1..m : 1 + i - 1 = i
    BY <1>2
  <2> QED BY <2>1, <2>2, <2>3
<1>7. f \in [1..m -> T]
  BY <1>6, LenProperties
<1>8. ToSet(f) \subseteq ToSet(s)
  BY <1>1, <1>3, <1>6, <1>7 DEF ToSet
<1>9. IsInjective(s) => IsInjective(f)
  BY <1>1, <1>3, <1>6, <1>7 DEF IsInjective
<1> QED BY <1>2, <1>6, <1>8, <1>9 DEF m, f

Best(s, higher, n) == First(Stable(s, higher), n)

\* The best n of a sequence: what is left out is no higher than what is kept, and
\* of those kept none stands before a higher one.
LEMMA BestAreKept ==
  ASSUME NEW T, NEW s \in Seq(T), NEW higher, WeakOrder(higher, ToSet(s)), NEW n \in Nat
  PROVE  /\ Best(s, higher, n) \in Seq(T)
         /\ Len(Best(s, higher, n)) = Min2(n, Len(s))
         /\ ToSet(Best(s, higher, n)) \subseteq ToSet(s)
         /\ IsInjective(s) => IsInjective(Best(s, higher, n))
         /\ Len(s) =< n => ToSet(Best(s, higher, n)) = ToSet(s)
         /\ \A c \in ToSet(s), i \in 1..Len(Best(s, higher, n)) :
              <<c, Best(s, higher, n)[i]>> \in higher
              => \E j \in 1..(i - 1) : Best(s, higher, n)[j] = c
<1> DEFINE t    == Stable(s, higher)
           m    == Min2(n, Len(s))
           best == Best(s, higher, n)
<1>1. /\ t \in Seq(T) /\ Len(t) = Len(s) /\ ToSet(t) = ToSet(s)
      /\ IsInjective(s) => IsInjective(t)
      /\ \A i, j \in 1..Len(s) : i < j => <<t[j], t[i]>> \notin higher
  BY StableSorts
<1>0. best = First(t, n)
  BY DEF Best
<1> HIDE DEF t, best
<1>2. /\ best \in Seq(T) /\ Len(best) = m
      /\ m \in Nat /\ m =< Len(s) /\ m =< n
      /\ \A i \in 1..m : best[i] = t[i]
      /\ ToSet(best) \subseteq ToSet(t)
      /\ IsInjective(t) => IsInjective(best)
  <2>1. /\ First(t, n) \in Seq(T) /\ Len(First(t, n)) = Min2(n, Len(t))
        /\ Min2(n, Len(t)) \in Nat /\ Min2(n, Len(t)) =< Len(t) /\ Min2(n, Len(t)) =< n
        /\ \A i \in 1..Min2(n, Len(t)) : First(t, n)[i] = t[i]
        /\ ToSet(First(t, n)) \subseteq ToSet(t)
        /\ IsInjective(t) => IsInjective(First(t, n))
    BY <1>1, FirstIsPrefix
  <2> QED BY <1>0, <1>1, <2>1
<1>3. Len(s) \in Nat /\ t \in [1..Len(s) -> T] /\ best \in [1..m -> T]
  BY <1>1, <1>2, LenProperties
<1>4. ToSet(t) = {t[i] : i \in 1..Len(s)} /\ ToSet(best) = {best[i] : i \in 1..m}
  BY <1>3 DEF ToSet
<1>5. Len(s) =< n => m = Len(s)
  BY <1>3 DEF Min2
<1> HIDE DEF m
<1>6. Len(s) =< n => ToSet(best) = ToSet(t)
  BY <1>2, <1>4, <1>5
<1>7. ASSUME NEW c \in ToSet(s), NEW i \in 1..m, <<c, best[i]>> \in higher
      PROVE  \E j \in 1..(i - 1) : best[j] = c
  <2>1. PICK j \in 1..Len(s) : t[j] = c
    BY <1>1, <1>4
  <2>2. i \in 1..Len(s) /\ best[i] = t[i]
    BY <1>2, <1>3
  <2>3. t[i] \in ToSet(s)
    BY <1>1, <1>4, <2>2
  <2>4. ~(i < j) /\ i # j
    BY <1>1, <1>7, <2>1, <2>2, <2>3 DEF WeakOrder
  <2>5. j \in 1..(i - 1) /\ j \in 1..m
    BY <1>2, <1>3, <2>1, <2>4
  <2> QED BY <1>2, <2>1, <2>5
<1> QED BY <1>1, <1>2, <1>6, <1>7 DEF t, m, best

\* The elements kept are in the sequence, and none comes twice if none did.
LEMMA KeptIsPart ==
  ASSUME NEW T, NEW s \in Seq(T), NEW S
  PROVE  /\ Kept(s, S) \in Seq(T) /\ ToSet(Kept(s, S)) \subseteq ToSet(s)
         /\ ToSet(Kept(s, S)) \subseteq S
         /\ IsInjective(s) => IsInjective(Kept(s, S))
<1> DEFINE at     == {i \in DOMAIN s : s[i] \in S}
           before == {p \in at \X at : p[1] < p[2]}
           n      == Cardinality(at)
           o      == InOrder(at, before)
           kept   == Kept(s, S)
<1>1. Len(s) \in Nat /\ s \in [1..Len(s) -> T]
  BY LenProperties
<1>2. IsFiniteSet(at) /\ at \subseteq Nat
  <2>1. IsFiniteSet(1..Len(s))
    BY <1>1, FS_Interval
  <2>2. at \in SUBSET (1..Len(s)) /\ 1..Len(s) \subseteq Nat
    BY <1>1
  <2> QED BY <2>1, <2>2, FS_Subset
<1> HIDE DEF at
<1>3. Orders(before, at)
  <2>1. \A x, y \in at : <<x, y>> \in before <=> x < y
    OBVIOUS
  <2>2. \A x, y, z \in at : ~(x < x) /\ (x # y => x < y \/ y < x)
                            /\ (x < y /\ y < z => x < z)
    BY <1>2
  <2> HIDE DEF before
  <2> QED BY <2>1, <2>2 DEF Orders
<1> HIDE DEF before
<1>4. n \in Nat /\ o \in [1..n -> at] /\ \A i, j \in 1..n : i # j => o[i] # o[j]
  BY <1>2, <1>3, InOrderSorts
<1>5. kept = [k \in 1..n |-> s[o[k]]]
  BY <1>4 DEF Kept, at, before
<1> HIDE DEF n, o, kept
<1>6. \A k \in 1..n : kept[k] = s[o[k]] /\ o[k] \in 1..Len(s) /\ s[o[k]] \in S
  BY <1>1, <1>4, <1>5 DEF at
<1>7. kept \in [1..n -> T]
  BY <1>1, <1>5, <1>6
<1>8. kept \in Seq(T)
  BY <1>4, <1>7, SeqDef
<1>9. ToSet(kept) \subseteq ToSet(s) /\ ToSet(kept) \subseteq S
  BY <1>1, <1>6, <1>7 DEF ToSet
<1>10. IsInjective(s) => IsInjective(kept)
  BY <1>1, <1>4, <1>6, <1>7 DEF IsInjective
<1> QED BY <1>8, <1>9, <1>10 DEF kept

-------------------------------------------------------------------------------
(* The request for a search.  What the other programs write is data: ranks   *)
(* are numbers and points are chunks whatever they do.                       *)

DataInv ==
  /\ pagerank \in [Doc -> Nat] /\ meta \in [Doc -> Nat] /\ points \subseteq Chunk
  /\ pc \in {"search", "near", "extra", "rank", "meta", "filter", "done"}
  /\ pc = "filter" => request.entityType

\* The candidates: the first search's, and then those it did not find.
CandidateInv ==
  /\ res \in Seq(Chunk) /\ IsInjective(res)
  /\ base \in Seq(Chunk) /\ Len(base) =< Len(res)
  /\ \A i \in 1..Len(base) : base[i] = res[i]

Scoring == {p \in ToSet(res) \X ToSet(res) : score[p[1]] > score[p[2]]}

\* The reranker's answer keeps the candidates with the highest scores.
Reranked ==
  /\ score \in [ToSet(res) -> Nat]
  /\ Len(ranked) = Min2(Margin, Len(res)) /\ ToSet(ranked) \subseteq ToSet(res)
  /\ Len(res) =< Margin => ToSet(ranked) = ToSet(res)
  /\ \A c \in ToSet(res), r \in ToSet(ranked) : score[c] > score[r] => c \in ToSet(ranked)

Above(a, b) ==
  \/ Rounded(score[a]) > Rounded(score[b])
  \/ Rounded(score[a]) = Rounded(score[b]) /\ meta[DocOf[a]] > meta[DocOf[b]]

\* Of its answer the first of the second sort are the hits.
Sorted ==
  /\ Len(hits) = Min2(TopK, Len(ranked))
  /\ \A c \in ToSet(ranked), i \in 1..Len(hits) :
       Above(c, hits[i]) => \E j \in 1..(i - 1) : hits[j] = c

HitInv ==
  /\ ranked \in Seq(Chunk) /\ IsInjective(ranked)
  /\ hits \in Seq(Chunk) /\ IsInjective(hits) /\ ToSet(hits) \subseteq ToSet(ranked)
  /\ pc = "search" => res = <<>> /\ score = [c \in {} |-> 0]
  /\ pc \in {"search", "near", "extra", "rank"} => ranked = <<>>
  /\ pc \in {"search", "near", "extra", "rank", "meta"} => hits = <<>>
  /\ pc \in {"meta", "filter", "done"} => Reranked
  /\ pc = "filter" \/ (pc = "done" /\ ~request.entityType) => Sorted

SearchInv == DataInv /\ CandidateInv /\ HitInv

\* The empty sequence is one of chunks, and one without repetition.
LEMMA NoneIsSequence ==
  /\ <<>> \in Seq(Chunk) /\ Len(<<>>) = 0 /\ IsInjective(<<>>) /\ ToSet(<<>>) = {}
<1>1. <<>> \in Seq(Chunk) /\ Len(<<>>) = 0
  BY EmptySeq
<1>2. DOMAIN <<>> = {}
  BY <1>1, LenProperties
<1> QED BY <1>1, <1>2 DEF IsInjective, ToSet

\* Nothing is found before the search begins.
LEMMA SearchInit == Init => SearchInv
<1> SUFFICES ASSUME Init PROVE SearchInv
  OBVIOUS
<1>1. pagerank \in [Doc -> Nat] /\ meta \in [Doc -> Nat] /\ points \subseteq Chunk
  BY SearchAssumption DEF Init, SearchAssumption
<1> QED BY <1>1, NoneIsSequence DEF Init, SearchInv, DataInv, CandidateInv, HitInv

\* An order of a finite set is a sequence in which no element comes twice.
LEMMA OrderIsSequence ==
  ASSUME NEW S \in SUBSET Chunk, NEW s \in SetToSeqs(S)
  PROVE  s \in Seq(Chunk) /\ IsInjective(s) /\ ToSet(s) \subseteq S
<1>1. IsFiniteSet(S) /\ Cardinality(S) \in Nat
  <2>1. IsFiniteSet(Chunk)
    BY SearchAssumption DEF SearchAssumption
  <2> QED BY <2>1, FS_Subset, FS_CardinalityType
<1>2. /\ s \in [1..Cardinality(S) -> S]
      /\ \A i, j \in 1..Cardinality(S) : i # j => s[i] # s[j]
  BY DEF SetToSeqs
<1>3. s \in [1..Cardinality(S) -> Chunk]
  BY <1>2
<1>4. s \in Seq(Chunk)
  BY <1>1, <1>3, SeqDef
<1> QED BY <1>2, <1>4 DEF IsInjective, ToSet

\* Sequences that share nothing make one in which nothing comes twice.
LEMMA JoinedInjective ==
  ASSUME NEW T, NEW r \in Seq(T), NEW s \in Seq(T), IsInjective(r), IsInjective(s),
         ToSet(s) \cap ToSet(r) = {}
  PROVE  r \o s \in Seq(T) /\ IsInjective(r \o s) /\ Len(r) =< Len(r \o s)
         /\ \A i \in 1..Len(r) : (r \o s)[i] = r[i]
<1> DEFINE u == r \o s
<1>1. /\ Len(r) \in Nat /\ r \in [1..Len(r) -> T]
      /\ Len(s) \in Nat /\ s \in [1..Len(s) -> T]
  BY LenProperties
<1>2. /\ u \in Seq(T) /\ Len(u) = Len(r) + Len(s)
      /\ \A i \in 1..Len(r) + Len(s) : u[i] = IF i <= Len(r) THEN r[i] ELSE s[i - Len(r)]
  BY ConcatProperties
<1>3. DOMAIN u = 1..(Len(r) + Len(s))
  BY <1>2, LenProperties
<1> HIDE DEF u
<1>4. ASSUME NEW i \in 1..(Len(r) + Len(s)) PROVE
        \/ i \in 1..Len(r) /\ u[i] = r[i] /\ u[i] \in ToSet(r)
        \/ (i - Len(r)) \in 1..Len(s) /\ u[i] = s[i - Len(r)] /\ u[i] \in ToSet(s)
  <2>1. CASE i <= Len(r)
    BY <1>1, <1>2, <2>1 DEF ToSet
  <2>2. CASE ~(i <= Len(r))
    <3>1. (i - Len(r)) \in 1..Len(s)
      BY <1>1, <2>2
    <3> QED BY <1>1, <1>2, <2>2, <3>1 DEF ToSet
  <2> QED BY <2>1, <2>2
<1>5. ASSUME NEW i \in 1..(Len(r) + Len(s)), NEW j \in 1..(Len(r) + Len(s)), u[i] = u[j]
      PROVE  i = j
  <2>1. CASE i \in 1..Len(r) /\ u[i] = r[i] /\ u[i] \in ToSet(r)
    <3>1. u[j] \notin ToSet(s)
      BY <1>5, <2>1
    <3>2. j \in 1..Len(r) /\ u[j] = r[j]
      BY <1>4, <3>1
    <3> QED BY <1>1, <1>5, <2>1, <3>2 DEF IsInjective
  <2>2. CASE (i - Len(r)) \in 1..Len(s) /\ u[i] = s[i - Len(r)] /\ u[i] \in ToSet(s)
    <3>1. u[j] \notin ToSet(r)
      BY <1>5, <2>2
    <3>2. (j - Len(r)) \in 1..Len(s) /\ u[j] = s[j - Len(r)]
      BY <1>4, <3>1
    <3>3. i - Len(r) = j - Len(r)
      BY <1>1, <1>5, <2>2, <3>2 DEF IsInjective
    <3> QED BY <1>1, <3>3
  <2> QED BY <1>4, <2>1, <2>2
<1>6. IsInjective(u)
  BY <1>3, <1>5 DEF IsInjective
<1>7. \A i \in 1..Len(r) : u[i] = r[i]
  BY <1>1, <1>2
<1> QED BY <1>1, <1>2, <1>6, <1>7 DEF u

\* The other programs change neither the request nor what it holds.
LEMMA WriteKeepsSearch ==
  ASSUME SearchInv, Change,
         pagerank' \in [Doc -> Nat], points' \subseteq Chunk
  PROVE  SearchInv'
<1>1. UNCHANGED <<score, request, pc, res, base, near, ranked, meta, hits>>
  BY DEF Change
<1> QED
  BY <1>1 DEF SearchInv, DataInv, CandidateInv, HitInv, Reranked, Sorted, Above

\* The first answer of Qdrant: candidates without repetition.
LEMMA RetrieveStep ==
  ASSUME SearchInv, Retrieve PROVE SearchInv'
<1>1. /\ pc = "search" /\ base' = res'
      /\ pc' \in {"done", "near", "rank"} /\ (pc' = "done" => res' = <<>>)
      /\ UNCHANGED <<database, score, request, near, ranked, meta, hits, changes>>
  BY DEF Retrieve
<1>2. PICK S \in Answers(Filtered, Candidates) : res' \in SetToSeqs(S)
  BY DEF Retrieve
<1>3. S \in SUBSET Chunk
  BY <1>2 DEF Answers, Filtered, SearchInv, DataInv
<1>4. res' \in Seq(Chunk) /\ IsInjective(res')
  BY <1>2, <1>3, OrderIsSequence
<1>5. DataInv'
  BY <1>1 DEF SearchInv, DataInv, database
<1>6. CandidateInv'
  <2>1. Len(res') \in Nat
    BY <1>4, LenProperties
  <2> QED BY <1>1, <1>4, <2>1 DEF CandidateInv
<1>7. HitInv'
  <2>1. ranked' = <<>> /\ hits' = <<>> /\ score' = [c \in {} |-> 0]
    BY <1>1 DEF SearchInv, HitInv
  <2>2. CASE pc' = "done"
    <3>1. (Reranked /\ Sorted)'
      <4>1. res' = <<>>
        BY <1>1, <2>2
      <4>2. ToSet(res') = {} /\ ToSet(ranked') = {} /\ Len(res') = 0 /\ Len(ranked') = 0
            /\ Len(hits') = 0 /\ ToSet(hits') = {}
        BY <2>1, <4>1, NoneIsSequence
      <4>3. Min2(Margin, 0) = 0 /\ Min2(TopK, 0) = 0
        BY SearchAssumption DEF Min2, Margin, SearchAssumption
      <4>4. score' \in [{} -> Nat]
        BY <2>1
      <4> QED BY <4>2, <4>3, <4>4 DEF Reranked, Sorted
    <3> QED BY <1>4, <2>1, <2>2, <3>1, NoneIsSequence DEF HitInv
  <2>3. CASE pc' # "done"
    BY <1>1, <2>1, <2>3, NoneIsSequence DEF HitInv
  <2> QED BY <2>2, <2>3
<1> QED BY <1>5, <1>6, <1>7 DEF SearchInv

\* The second search adds what the first did not find.
LEMMA ExpandStep ==
  ASSUME SearchInv, Expand PROVE SearchInv'
<1>1. /\ pc = "extra" /\ pc' = "rank"
      /\ UNCHANGED <<database, score, request, base, near, ranked, meta, hits, changes>>
  BY DEF Expand
<1>2. PICK extra \in Answers({c \in points : DocOf[c] \in near}, Extra) :
        \E s \in SetToSeqs(Unseen(extra)) : res' = res \o s
  BY DEF Expand
<1>3. PICK s \in SetToSeqs(Unseen(extra)) : res' = res \o s
  BY <1>2
<1>4. Unseen(extra) \in SUBSET Chunk /\ Unseen(extra) \cap ToSet(res) = {}
  BY <1>2 DEF Unseen, Answers, SearchInv, DataInv
<1>5. s \in Seq(Chunk) /\ IsInjective(s) /\ ToSet(s) \cap ToSet(res) = {}
  BY <1>3, <1>4, OrderIsSequence
<1>6. /\ res' \in Seq(Chunk) /\ IsInjective(res') /\ Len(res) =< Len(res')
      /\ \A i \in 1..Len(res) : res'[i] = res[i]
  BY <1>3, <1>5, JoinedInjective DEF SearchInv, CandidateInv
<1>7. CandidateInv'
  <2>1. Len(base) \in Nat /\ Len(res) \in Nat /\ Len(res') \in Nat
    BY <1>6, LenProperties DEF SearchInv, CandidateInv
  <2>2. base' = base
    BY <1>1
  <2>3. \A i \in 1..Len(base) : i \in 1..Len(res) /\ base[i] = res[i]
    BY <2>1 DEF SearchInv, CandidateInv
  <2> QED BY <1>6, <2>1, <2>2, <2>3 DEF SearchInv, CandidateInv
<1>8. DataInv' /\ HitInv'
  BY <1>1 DEF SearchInv, DataInv, HitInv, database
<1> QED BY <1>7, <1>8 DEF SearchInv

\* Rounding keeps the order of two scores, though it may make them equal.
LEMMA RoundedIsMonotone ==
  /\ \A a \in Nat : Rounded(a) \in Nat
  /\ \A a, b \in Nat : Rounded(a) > Rounded(b) => a > b
  BY DEF Rounded

\* The reranker sorts by score, and what the cut leaves out scores no more.
LEMMA RerankStep ==
  ASSUME SearchInv, Rerank PROVE SearchInv'
<1>1. /\ pc = "rank" /\ pc' = "meta"
      /\ UNCHANGED <<database, request, res, base, near, meta, hits, changes>>
      /\ score' \in [ToSet(res) -> Score]
      /\ ranked' = First(Stable(res, Scoring'), Margin)
  BY DEF Rerank, Scoring
<1>2. score' \in [ToSet(res) -> Nat]
  BY <1>1, SearchAssumption DEF SearchAssumption
<1>3. WeakOrder(Scoring', ToSet(res))
  <2>1. \A x, y \in ToSet(res) : <<x, y>> \in Scoring' <=> score'[x] > score'[y]
    BY <1>1 DEF Scoring
  <2>2. \A x \in ToSet(res) : score'[x] \in Nat
    BY <1>2
  <2>3. \A x, y, z \in ToSet(res) :
          /\ score'[x] > score'[y] => ~(score'[y] > score'[x])
          /\ score'[x] > score'[z] => score'[x] > score'[y] \/ score'[y] > score'[z]
    BY <2>2
  <2> QED BY <2>1, <2>3 DEF WeakOrder
<1>4. Margin \in Nat
  BY SearchAssumption DEF SearchAssumption, Margin
<1>5. /\ ranked' \in Seq(Chunk) /\ Len(ranked') = Min2(Margin, Len(res))
      /\ ToSet(ranked') \subseteq ToSet(res) /\ IsInjective(ranked')
      /\ Len(res) =< Margin => ToSet(ranked') = ToSet(res)
      /\ \A c \in ToSet(res), i \in 1..Len(ranked') :
           <<c, ranked'[i]>> \in Scoring' => \E j \in 1..(i - 1) : ranked'[j] = c
  <2> DEFINE higher == Scoring'
  <2>1. /\ res \in Seq(Chunk) /\ IsInjective(res) /\ Margin \in Nat
        /\ WeakOrder(higher, ToSet(res)) /\ ranked' = Best(res, higher, Margin)
    BY <1>1, <1>3, <1>4 DEF SearchInv, CandidateInv, Best
  <2> HIDE DEF higher
  <2> DEFINE best == Best(res, higher, Margin)
  <2>2. /\ best \in Seq(Chunk) /\ Len(best) = Min2(Margin, Len(res))
        /\ ToSet(best) \subseteq ToSet(res) /\ IsInjective(best)
        /\ Len(res) =< Margin => ToSet(best) = ToSet(res)
        /\ \A c \in ToSet(res), i \in 1..Len(best) :
             <<c, best[i]>> \in higher => \E j \in 1..(i - 1) : best[j] = c
    BY <2>1, BestAreKept
  <2> HIDE DEF best
  <2>3. ranked' = best
    BY <2>1 DEF best
  <2> QED BY <2>2, <2>3 DEF higher
<1>6. ASSUME NEW c \in ToSet(res), NEW r \in ToSet(ranked'), score'[c] > score'[r]
      PROVE  c \in ToSet(ranked')
  <2>1. Len(ranked') \in Nat /\ DOMAIN ranked' = 1..Len(ranked')
    BY <1>5, LenProperties
  <2>2. PICK i \in 1..Len(ranked') : ranked'[i] = r
    BY <2>1 DEF ToSet
  <2>3. <<c, ranked'[i]>> \in Scoring'
    BY <1>1, <1>5, <1>6, <2>2 DEF Scoring
  <2>4. PICK j \in 1..(i - 1) : ranked'[j] = c
    BY <1>5, <2>3
  <2>5. j \in DOMAIN ranked'
    BY <2>1, <2>2, <2>4
  <2> QED BY <2>4, <2>5 DEF ToSet
<1>7. Reranked'
  BY <1>1, <1>2, <1>5, <1>6, SearchAssumption DEF Reranked, Margin
<1>8. hits' = <<>>
  BY <1>1 DEF SearchInv, HitInv
<1>9. HitInv'
  BY <1>1, <1>5, <1>7, <1>8, NoneIsSequence DEF HitInv
<1>10. DataInv' /\ CandidateInv'
  BY <1>1 DEF SearchInv, DataInv, CandidateInv, database
<1> QED BY <1>9, <1>10 DEF SearchInv

\* The second sort: first the rounded score, then PageRank.
LEMMA SortHitsStep ==
  ASSUME SearchInv, SortHits PROVE SearchInv'
<1> DEFINE order == {p \in ToSet(ranked) \X ToSet(ranked) : SortsBefore(p[1], p[2])}
<1>1. /\ pc = "meta" /\ pc' = IF request.entityType THEN "filter" ELSE "done"
      /\ meta' = [d \in Doc |-> IF d \in rows THEN pagerank[d] ELSE 0]
      /\ hits' = First(Stable(ranked, order), TopK)
      /\ UNCHANGED <<database, score, request, res, base, near, ranked, changes>>
  BY DEF SortHits
<1>2. meta' \in [Doc -> Nat]
  BY <1>1 DEF SearchInv, DataInv
<1>3. Reranked /\ ranked \in Seq(Chunk) /\ IsInjective(ranked)
  BY <1>1 DEF SearchInv, HitInv
<1>4. Reranked'
  BY <1>1, <1>3 DEF Reranked
<1>5. ToSet(ranked) \subseteq Chunk
  <2>1. ranked \in [1..Len(ranked) -> Chunk]
    BY <1>3, LenProperties
  <2> QED BY <2>1 DEF ToSet
<1>6. \A x \in ToSet(ranked) : Rounded(score[x]) \in Nat /\ meta'[DocOf[x]] \in Nat
  <2>1. \A x \in ToSet(ranked) : score[x] \in Nat
    BY <1>3 DEF Reranked
  <2>2. \A x \in ToSet(ranked) : DocOf[x] \in Doc
    BY <1>5, SearchAssumption DEF SearchAssumption
  <2> QED BY <1>2, <2>1, <2>2, RoundedIsMonotone
<1>7. \A x, y \in ToSet(ranked) : <<x, y>> \in order <=> SortsBefore(x, y)
  OBVIOUS
<1>8. WeakOrder(order, ToSet(ranked))
  <2> HIDE DEF order
  <2>1. \A x, y \in ToSet(ranked) : SortsBefore(x, y) => ~SortsBefore(y, x)
    BY <1>6 DEF SortsBefore
  <2>2. \A x, y, z \in ToSet(ranked) :
          SortsBefore(x, z) => SortsBefore(x, y) \/ SortsBefore(y, z)
    BY <1>6 DEF SortsBefore
  <2> QED BY <1>7, <2>1, <2>2 DEF WeakOrder
<1>9. TopK \in Nat
  BY SearchAssumption DEF SearchAssumption
<1> HIDE DEF order
<1>10. /\ hits' \in Seq(Chunk) /\ Len(hits') = Min2(TopK, Len(ranked))
       /\ ToSet(hits') \subseteq ToSet(ranked) /\ IsInjective(hits')
       /\ \A c \in ToSet(ranked), i \in 1..Len(hits') :
            <<c, hits'[i]>> \in order => \E j \in 1..(i - 1) : hits'[j] = c
  <2> DEFINE best == Best(ranked, order, TopK)
  <2>1. hits' = best
    BY <1>1 DEF Best
  <2>2. /\ best \in Seq(Chunk) /\ Len(best) = Min2(TopK, Len(ranked))
        /\ ToSet(best) \subseteq ToSet(ranked) /\ IsInjective(best)
        /\ \A c \in ToSet(ranked), i \in 1..Len(best) :
             <<c, best[i]>> \in order => \E j \in 1..(i - 1) : best[j] = c
    BY <1>3, <1>8, <1>9, BestAreKept
  <2> HIDE DEF best
  <2> QED BY <2>1, <2>2
<1>11. Sorted'
  <2>1. ASSUME NEW c \in ToSet(ranked), NEW i \in 1..Len(hits'), Above(c, hits[i])'
        PROVE  \E j \in 1..(i - 1) : hits'[j] = c
    <3>1. hits'[i] \in ToSet(ranked)
      <4>1. DOMAIN hits' = 1..Len(hits')
        BY <1>10, LenProperties
      <4> QED BY <1>10, <4>1 DEF ToSet
    <3>2. SortsBefore(c, hits'[i])
      BY <1>1, <2>1 DEF SortsBefore, Above
    <3> QED BY <1>7, <1>10, <3>1, <3>2
  <2> QED BY <1>1, <1>10, <2>1 DEF Sorted
<1>12. HitInv'
  BY <1>1, <1>3, <1>4, <1>10, <1>11 DEF HitInv
<1>13. DataInv' /\ CandidateInv'
  BY <1>1, <1>2 DEF SearchInv, DataInv, CandidateInv, database
<1> QED BY <1>12, <1>13 DEF SearchInv

\* Filtering by type drops hits and leaves the order of the others.
LEMMA FilterTypeStep ==
  ASSUME SearchInv, FilterType PROVE SearchInv'
<1>1. /\ pc = "filter" /\ pc' = "done" /\ request.entityType
      /\ hits' = Kept(hits, {c \in Chunk : DocOf[c] \in typed \cap rows})
      /\ UNCHANGED <<database, score, request, res, base, near, ranked, meta, changes>>
  BY DEF FilterType, SearchInv, DataInv
<1>2. /\ hits' \in Seq(Chunk) /\ ToSet(hits') \subseteq ToSet(hits) /\ IsInjective(hits')
  BY <1>1, KeptIsPart DEF SearchInv, HitInv
<1>3. Reranked'
  BY <1>1 DEF Reranked, SearchInv, HitInv
<1>4. HitInv'
  BY <1>1, <1>2, <1>3 DEF SearchInv, HitInv
<1>5. DataInv' /\ CandidateInv'
  BY <1>1 DEF SearchInv, DataInv, CandidateInv, database
<1> QED BY <1>4, <1>5 DEF SearchInv

\* Every step of a request, and every write of the others between two of them.
LEMMA SearchStep == SearchInv /\ [Next]_vars => SearchInv'
<1> SUFFICES ASSUME SearchInv, [Next]_vars PROVE SearchInv'
  OBVIOUS
<1>1. ASSUME NEW d \in Doc, DropRow(d) \/ Retype(d) \/ \E g \in Graphs : Relink(d, g[d])
      PROVE  SearchInv'
  <2>1. Change /\ UNCHANGED <<pagerank, points>>
    BY <1>1 DEF DropRow, Retype, Relink
  <2> QED BY <2>1, WriteKeepsSearch DEF SearchInv, DataInv
<1>2. ASSUME NEW d \in Doc, NEW r \in Ranks, Rank(d, r[d]) PROVE SearchInv'
  <2>1. Change /\ pagerank' = [pagerank EXCEPT ![d] = r[d]] /\ UNCHANGED points
    BY <1>2 DEF Rank
  <2>2. r \in [Doc -> Nat]
    BY SearchAssumption DEF SearchAssumption
  <2> QED BY <2>1, <2>2, WriteKeepsSearch DEF SearchInv, DataInv
<1>3. ASSUME NEW c \in Chunk, DropPoint(c) PROVE SearchInv'
  <2>1. Change /\ points' = points \ {c} /\ UNCHANGED pagerank
    BY <1>3 DEF DropPoint
  <2> QED BY <2>1, WriteKeepsSearch DEF SearchInv, DataInv
<1>4. CASE FindNeighbours
  <2>1. /\ pc = "near" /\ pc' \in {"rank", "extra"}
        /\ UNCHANGED <<database, score, request, res, base, ranked, meta, hits>>
    BY <1>4 DEF FindNeighbours
  <2> QED
    BY <2>1 DEF SearchInv, DataInv, CandidateInv, HitInv, database
<1>5. CASE UNCHANGED vars
  BY <1>5 DEF vars, database, SearchInv, DataInv, CandidateInv, HitInv, Reranked,
              Sorted, Above
<1> QED
  BY <1>1, <1>2, <1>3, <1>4, <1>5, RetrieveStep, ExpandStep, RerankStep, SortHitsStep,
     FilterTypeStep DEF Next

\* What holds of a search in every state.
LEMMA SearchInvariant == ApiSpec => []SearchInv
<1>1. ApiInit => SearchInv
  BY SearchInit DEF ApiInit, NoSearch
<1>2. SearchInv /\ [ApiNext]_<<vars, pathVars>> => SearchInv'
  BY SearchStep DEF ApiNext
<1> QED BY <1>1, <1>2, PTL DEF ApiSpec

\* For every collection, every order in which Qdrant answers and every write of the
\* other programs between the five queries of a request.
THEOREM HitsDiffer == ApiSpec => []NoHitTwice
<1>1. SearchInv => NoHitTwice
  <2> SUFFICES ASSUME SearchInv PROVE NoHitTwice
    OBVIOUS
  <2>1. Len(base) \in Nat /\ Len(res) \in Nat /\ Len(base) =< Len(res)
    BY LenProperties DEF SearchInv, CandidateInv
  <2>2. \A i \in 1..Len(base) : base[i] \in Chunk /\ res[i] \in Chunk /\ base[i] = res[i]
    <3>1. base \in [1..Len(base) -> Chunk]
      BY LenProperties DEF SearchInv, CandidateInv
    <3> QED BY <3>1 DEF SearchInv, CandidateInv
  <2> DEFINE n == Len(base)
             p == SubSeq(base, 1, n)
             q == SubSeq(res, 1, n)
  <2>3. n \in Nat /\ n - 1 + 1 = n /\ n \in Int /\ 1 \in Int
    BY <2>1
  <2>4. \A i \in 1..n : base[i] \in Chunk /\ res[i] \in Chunk
    BY <2>2
  <2>5. /\ p \in Seq(Chunk) /\ Len(p) = IF 1 =< n THEN n - 1 + 1 ELSE 0
        /\ \A i \in 1..(n - 1 + 1) : p[i] = base[1 + i - 1]
        /\ q \in Seq(Chunk) /\ Len(q) = IF 1 =< n THEN n - 1 + 1 ELSE 0
        /\ \A i \in 1..(n - 1 + 1) : q[i] = res[1 + i - 1]
    <3> HIDE DEF n
    <3> QED BY <2>3, <2>4, SubSeqProperties
  <2>6. \A i \in 1..n : 1 + i - 1 = i
    BY <2>3
  <2> HIDE DEF p, q
  <2>7. Len(p) = n /\ Len(q) = n
    BY <2>3, <2>5
  <2>8. \A i \in 1..n : p[i] = q[i]
    BY <2>2, <2>3, <2>5, <2>6
  <2>9. p = q
    BY <2>5, <2>7, <2>8, SeqEqual
  <2>10. IsPrefix(base, res)
    BY <2>1, <2>9 DEF IsPrefix, p, q
  <2> QED BY <2>10 DEF NoHitTwice, SearchInv, CandidateInv, HitInv
<1> QED BY <1>1, SearchInvariant, PTL

\* The hits of a request that is answered: of what the reranker was given, those
\* that stand above a hit precede it.
LEMMA AnswerIsSorted ==
  ASSUME SearchInv, pc = "done", ~request.entityType
  PROVE  /\ Reranked /\ Sorted
         /\ Len(res) \in Nat /\ Len(ranked) \in Nat /\ Len(hits) \in Nat
         /\ Positions = 1..Len(hits)
         /\ \A i \in Positions : hits[i] \in ToSet(ranked)
         /\ \A c \in ToSet(res) : score[c] \in Nat /\ Rounded(score[c]) \in Nat
<1>1. /\ Reranked /\ Sorted /\ ranked \in Seq(Chunk) /\ hits \in Seq(Chunk)
      /\ res \in Seq(Chunk) /\ ToSet(hits) \subseteq ToSet(ranked)
  BY DEF SearchInv, HitInv, CandidateInv
<1>2. /\ Len(res) \in Nat /\ Len(ranked) \in Nat /\ Len(hits) \in Nat
      /\ DOMAIN hits = 1..Len(hits)
  BY <1>1, LenProperties
<1>3. \A i \in DOMAIN hits : hits[i] \in ToSet(ranked)
  BY <1>1 DEF ToSet
<1>4. \A c \in ToSet(res) : score[c] \in Nat /\ Rounded(score[c]) \in Nat
  BY <1>1, RoundedIsMonotone DEF Reranked
<1> QED BY <1>1, <1>2, <1>3, <1>4 DEF Positions

\* Whatever the ranks, the expansion and the candidates: PageRank settles ties of
\* the rounded score and nothing else.
THEOREM ScoreComesFirst == ApiSpec => []ScoreDecides
<1>1. SearchInv => ScoreDecides
  <2> SUFFICES ASSUME SearchInv, pc = "done", hits # <<>>, ~request.entityType
      PROVE /\ Len(hits) = Min2(TopK, Len(res))
            /\ \A c \in ToSet(res), i \in Positions :
                 Rounded(score[c]) > Rounded(score[hits[i]])
                 => \E j \in 1..(i - 1) : hits[j] = c
    BY DEF ScoreDecides
  <2>1. /\ Reranked /\ Sorted
        /\ Len(res) \in Nat /\ Len(ranked) \in Nat /\ Len(hits) \in Nat
        /\ Positions = 1..Len(hits)
        /\ \A i \in Positions : hits[i] \in ToSet(ranked)
        /\ \A c \in ToSet(res) : score[c] \in Nat /\ Rounded(score[c]) \in Nat
    BY AnswerIsSorted
  <2>2. Len(hits) = Min2(TopK, Len(res))
    <3>1. Len(hits) = Min2(TopK, Min2(TopK * 3, Len(res))) /\ TopK \in Nat
      BY <2>1, SearchAssumption DEF Reranked, Sorted, Margin, SearchAssumption
    <3> QED BY <2>1, <3>1 DEF Min2
  <2>3. ASSUME NEW c \in ToSet(res), NEW i \in Positions,
               Rounded(score[c]) > Rounded(score[hits[i]])
        PROVE  \E j \in 1..(i - 1) : hits[j] = c
    <3>1. hits[i] \in ToSet(ranked) /\ hits[i] \in ToSet(res)
      BY <2>1 DEF Reranked
    <3>2. score[c] > score[hits[i]]
      BY <2>1, <2>3, <3>1, RoundedIsMonotone
    <3>3. c \in ToSet(ranked)
      BY <2>1, <3>1, <3>2 DEF Reranked
    <3>4. Above(c, hits[i])
      BY <2>3 DEF Above
    <3> QED BY <2>1, <3>3, <3>4 DEF Sorted
  <2> QED BY <2>2, <2>3
<1> QED BY <1>1, SearchInvariant, PTL

\* Among equals the central document, as long as no more than top_k * 3 compete:
\* every candidate is then reranked, and meets the others in the second sort.
THEOREM CentralComesFirst == ApiSpec => []CentralFirst
<1>1. SearchInv => CentralFirst
  <2> SUFFICES ASSUME SearchInv, pc = "done", ~request.entityType, Len(res) <= 3 * TopK,
                      NEW c \in ToSet(res), NEW i \in Positions, hits[i] # c,
                      Rounded(score[c]) = Rounded(score[hits[i]]),
                      meta[DocOf[c]] > meta[DocOf[hits[i]]]
      PROVE \E j \in 1..(i - 1) : hits[j] = c
    BY DEF CentralFirst
  <2>1. /\ Reranked /\ Sorted /\ Len(res) \in Nat /\ Positions = 1..Len(hits)
    BY AnswerIsSorted
  <2>2. Len(res) =< Margin
    BY <2>1, SearchAssumption DEF Margin, SearchAssumption
  <2>3. c \in ToSet(ranked)
    BY <2>1, <2>2 DEF Reranked
  <2>4. Above(c, hits[i])
    BY DEF Above
  <2> QED BY <2>1, <2>3, <2>4 DEF Sorted
<1> QED BY <1>1, SearchInvariant, PTL

-------------------------------------------------------------------------------
(* The request for a path.  First, that every path kept is real: a simple    *)
(* path over links from the end it started at, through nodes that are kept   *)
(* too, and that the two sides share no node until the search is over.       *)

Edge(g, n, m) == {n, m} \in g

IsPath(g, p, start, n) ==
  /\ p \in Seq(Node) /\ Len(p) >= 1 /\ p[1] = start /\ p[Len(p)] = n
  /\ \A i \in 1..(Len(p) - 1) : Edge(g, p[i], p[i + 1])
  /\ \A i, j \in 1..Len(p) : i # j => p[i] # p[j]

\* Two paths that share the node they end in and no other.
Meet(g, p, q, a, b, d) ==
  /\ IsPath(g, p, a, d) /\ IsPath(g, q, b, d)
  /\ \A i \in 1..Len(p), j \in 1..Len(q) : p[i] = q[j] => i = Len(p) /\ j = Len(q)

Paths(g, kept, start) ==
  /\ DOMAIN kept \subseteq Node /\ start \in DOMAIN kept /\ kept[start] = <<start>>
  /\ \A n \in DOMAIN kept : /\ IsPath(g, kept[n], start, n)
                            /\ \A i \in 1..Len(kept[n]) : kept[n][i] \in DOMAIN kept

Disjoint == DOMAIN fwd \cap DOMAIN bwd = {}

\* Two paths to be joined are at most as long as the hops so far.
Short ==
  \A m \in DOMAIN fwd, n \in DOMAIN bwd :
    Len(fwd[m]) + Len(bwd[n]) - 2 =< hop + (IF walk = "expand" THEN 1 ELSE 0)

\* What is half done: neighbours of the growing side's nodes.
TodoInv ==
  /\ hop < MaxHops
  /\ DOMAIN todo \subseteq DOMAIN Path!Grow
  /\ \A n \in DOMAIN todo :
       /\ todo[n] \subseteq Path!Neighbors(n)
       /\ \A m \in DOMAIN Path!Other : Len(Path!Grow[n]) + Len(Path!Other[m]) - 2 =< hop

RealInv ==
  /\ edges \in LinkGraphs /\ walk \in {"grow", "expand", "found", "none"}
  /\ hop \in Nat /\ hop =< MaxHops /\ side \in {"fwd", "bwd"}
  /\ walk = "found" => Path!PathIsReal
  /\ walk # "found" => /\ Paths(edges, fwd, source) /\ Paths(edges, bwd, target)
                       /\ Disjoint /\ Short
  /\ walk = "expand" => TodoInv
  /\ walk = "none" => hop = MaxHops

(* Then, how far each side has looked.  D is a depth of a side: the          *)
(* neighbours of all that is nearer are kept, at most one link further on.   *)

Near(g, n) == {m \in Node \ {n} : Edge(g, n, m) /\ m \notin Hidden}

Layered(g, kept, D) ==
  \A n \in DOMAIN kept : Len(kept[n]) < D =>
    \A m \in Near(g, n) : m \in DOMAIN kept /\ Len(kept[m]) =< Len(kept[n]) + 1

Within(kept, D) == \A n \in DOMAIN kept : Len(kept[n]) =< D

\* In hop h, with t still to do: the frontier is behind the depth, and nothing is
\* added; or it has every node at that depth, and the hop ends one further.
Growing(g, t, h, kept, D) ==
  /\ \A n \in DOMAIN t :
       /\ n \in DOMAIN kept /\ t[n] \subseteq Near(g, n) /\ Len(kept[n]) =< D
       /\ \A m \in Near(g, n) \ t[n] : m \in DOMAIN kept /\ Len(kept[m]) =< Len(kept[n]) + 1
  /\ \/ /\ h \div 2 + 1 < D /\ Within(kept, D)
        /\ \A n \in DOMAIN t : Len(kept[n]) < D
     \/ /\ Within(kept, D + 1)
        /\ \A n \in DOMAIN kept : Len(kept[n]) = D => n \in DOMAIN t

\* How far the sides have come after each hop.  A source without neighbours is
\* expanded again and again.
Depths(D, E) ==
  \/ /\ hop = 0 /\ D = 1 /\ E = 1 /\ DOMAIN bwd = {target}
     /\ walk = "grow" => DOMAIN fwd = {source}
     /\ walk = "expand" => side = "fwd"
  \/ /\ hop = 1 /\ D = 2 /\ E = 1
     /\ walk = "grow" => DOMAIN bwd = {target}
     /\ walk = "expand" => side = "bwd"
  \/ hop = 2 /\ D = 2 /\ E = 2
  \/ hop >= 3 /\ D >= 2 /\ E >= 2 /\ D + E >= 5
  \/ /\ hop >= 1 /\ D = 2 /\ E = 1 /\ DOMAIN fwd = {source}
     /\ walk = "expand" => side = "fwd"

Explored(D, E) ==
  /\ Layered(edges, fwd, D) /\ Layered(edges, bwd, E) /\ Depths(D, E)
  /\ walk \in {"grow", "none"} => Within(fwd, D) /\ Within(bwd, E)
  /\ walk = "expand" =>
       IF side = "fwd" THEN Growing(edges, todo, hop, fwd, D) /\ Within(bwd, E)
                       ELSE Growing(edges, todo, hop, bwd, E) /\ Within(fwd, D)

LayerInv ==
  IF walk = "found" THEN capped \/ \A k \in 1..(Len(path) - 2) : ~Path!Findable(k)
  ELSE capped \/ \E D, E \in Nat : Explored(D, E)

PathInv == walk # "idle" => RealInv /\ LayerInv

\* They join to a path between their starts: the shared node is kept once.
LEMMA JoinedIsPath ==
  ASSUME NEW g, NEW p, NEW q, NEW a, NEW b, NEW d, Meet(g, p, q, a, b, d)
  PROVE  /\ IsPath(g, Path!Joined(p, q), a, b)
         /\ Len(Path!Joined(p, q)) = Len(p) + Len(q) - 1
<1> DEFINE x == Len(p)
           y == Len(q)
           u == Path!Backwards(q)
           v == Tail(u)
           r == Path!Joined(p, q)
<1>0. IsPath(g, p, a, d) /\ IsPath(g, q, b, d)
  BY DEF Meet
<1>1. /\ p \in Seq(Node) /\ x \in Nat /\ x >= 1 /\ p \in [1..x -> Node]
      /\ q \in Seq(Node) /\ y \in Nat /\ y >= 1 /\ q \in [1..y -> Node]
  BY <1>0, LenProperties DEF IsPath
<1> HIDE DEF x, y
<1>2. u \in Seq(Node) /\ Len(u) = y /\ \A i \in 1..y : u[i] = q[y + 1 - i]
  <2>1. u = [i \in 1..y |-> q[y + 1 - i]]
    BY DEF Path!Backwards, y
  <2>2. \A i \in 1..y : y + 1 - i \in 1..y
    BY <1>1
  <2> HIDE DEF u
  <2>3. u \in [1..y -> Node]
    BY <1>1, <2>1, <2>2
  <2> QED BY <1>1, <2>1, <2>3, SeqDef
<1>3. v \in Seq(Node) /\ Len(v) = y - 1 /\ \A i \in 1..(y - 1) : v[i] = q[y - i]
  <2> HIDE DEF u
  <2>0. u = <<>> => Len(u) = 0
    BY EmptySeq
  <2>1. u # <<>>
    BY <1>1, <1>2, <2>0
  <2>2. v \in Seq(Node) /\ Len(v) = y - 1 /\ \A i \in 1..(y - 1) : v[i] = u[i + 1]
    BY <1>1, <1>2, <2>1, HeadTailProperties
  <2>3. \A i \in 1..(y - 1) : i + 1 \in 1..y /\ y + 1 - (i + 1) = y - i
    BY <1>1
  <2> QED BY <1>2, <2>2, <2>3
<1>4. /\ r \in Seq(Node) /\ Len(r) = x + (y - 1)
      /\ \A i \in 1..(x + (y - 1)) : r[i] = IF i <= x THEN p[i] ELSE v[i - x]
  <2>1. r = p \o v
    BY DEF Path!Joined
  <2> HIDE DEF r, v
  <2>2. /\ p \o v \in Seq(Node) /\ Len(p \o v) = Len(p) + Len(v)
        /\ \A i \in 1..Len(p) + Len(v) :
             (p \o v)[i] = IF i <= Len(p) THEN p[i] ELSE v[i - Len(p)]
    BY <1>1, <1>3, ConcatProperties
  <2> QED BY <1>3, <2>1, <2>2 DEF x
<1> HIDE DEF u, v, r
<1>5. \A i \in 1..x : r[i] = p[i]
  BY <1>1, <1>4
<1>6. p[x] = d /\ q[y] = d /\ p[1] = a /\ q[1] = b
  BY <1>0 DEF IsPath, x, y
<1>7. \A i \in x..(x + y - 1) : r[i] = q[x + y - i] /\ (x + y - i) \in 1..y
  <2> SUFFICES ASSUME NEW i \in x..(x + y - 1)
               PROVE r[i] = q[x + y - i] /\ (x + y - i) \in 1..y
    OBVIOUS
  <2>1. (x + y - i) \in 1..y
    BY <1>1
  <2>2. CASE i = x
    <3>1. x + y - i = y /\ i \in 1..x
      BY <1>1, <2>2
    <3> QED BY <1>5, <1>6, <2>1, <2>2, <3>1
  <2>3. CASE i # x
    <3>1. i \in 1..(x + (y - 1)) /\ ~(i <= x) /\ (i - x) \in 1..(y - 1)
          /\ y - (i - x) = x + y - i
      BY <1>1, <2>3
    <3> QED BY <1>3, <1>4, <2>1, <3>1
  <2> QED BY <2>2, <2>3
<1>8. Len(r) \in Nat /\ Len(r) = x + y - 1 /\ Len(r) >= 1 /\ 1 \in 1..x
      /\ Len(r) \in x..(x + y - 1) /\ x + y - Len(r) = 1
  BY <1>1, <1>4
<1>9. r[1] = a /\ r[Len(r)] = b
  BY <1>5, <1>6, <1>7, <1>8
<1>10. ASSUME NEW i \in 1..(Len(r) - 1) PROVE Edge(g, r[i], r[i + 1])
  <2>1. CASE i < x
    <3>1. i \in 1..x /\ i + 1 \in 1..x /\ i \in 1..(x - 1)
      BY <1>1, <1>8, <2>1
    <3>2. Edge(g, p[i], p[i + 1])
      BY <1>0, <3>1 DEF IsPath, x
    <3> QED BY <1>5, <3>1, <3>2
  <2>2. CASE ~(i < x)
    <3> DEFINE j == x + y - (i + 1)
    <3>1. /\ i \in x..(x + y - 1) /\ i + 1 \in x..(x + y - 1)
          /\ j \in 1..(y - 1) /\ x + y - i = j + 1
      BY <1>1, <1>8, <2>2
    <3>2. Edge(g, q[j], q[j + 1])
      BY <1>0, <3>1 DEF IsPath, y
    <3>3. r[i] = q[j + 1] /\ r[i + 1] = q[j]
      BY <1>7, <3>1
    <3>4. {r[i], r[i + 1]} = {q[j], q[j + 1]}
      BY <3>3
    <3> QED BY <3>2, <3>4 DEF Edge
  <2> QED BY <2>1, <2>2
<1>11. ASSUME NEW i \in 1..Len(r), NEW j \in 1..Len(r), i < j PROVE r[i] # r[j]
  <2>1. CASE j =< x
    <3>1. i \in 1..x /\ j \in 1..x /\ i # j
      BY <1>1, <1>8, <1>11, <2>1
    <3> QED BY <1>0, <1>5, <3>1 DEF IsPath, x
  <2>2. CASE i >= x
    <3>1. i \in x..(x + y - 1) /\ j \in x..(x + y - 1) /\ x + y - i # x + y - j
      BY <1>1, <1>8, <1>11, <2>2
    <3>2. /\ r[i] = q[x + y - i] /\ (x + y - i) \in 1..y
          /\ r[j] = q[x + y - j] /\ (x + y - j) \in 1..y
      BY <1>7, <3>1
    <3>3. q[x + y - i] # q[x + y - j]
      BY <1>0, <3>1, <3>2 DEF IsPath, y
    <3> QED BY <3>2, <3>3
  <2>3. CASE i < x /\ x < j
    <3>1. i \in 1..x /\ j \in x..(x + y - 1) /\ i # x
      BY <1>1, <1>8, <2>3
    <3>2. r[j] = q[x + y - j] /\ (x + y - j) \in 1..y /\ r[i] = p[i]
      BY <1>5, <1>7, <3>1
    <3>3. p[i] # q[x + y - j]
      BY <3>1, <3>2 DEF Meet, x, y
    <3> QED BY <3>2, <3>3
  <2> QED BY <1>1, <1>8, <2>1, <2>2, <2>3
<1>12. \A i, j \in 1..Len(r) : i # j => r[i] # r[j]
  <2> SUFFICES ASSUME NEW i \in 1..Len(r), NEW j \in 1..Len(r), i # j PROVE r[i] # r[j]
    OBVIOUS
  <2>1. i < j \/ j < i
    BY <1>8
  <2> QED BY <1>11, <2>1
<1>13. IsPath(g, r, a, b)
  BY <1>4, <1>8, <1>9, <1>10, <1>12 DEF IsPath
<1> QED BY <1>8, <1>13 DEF r, x, y

\* A path goes on to a node that is not on it.
LEMMA LongerIsPath ==
  ASSUME NEW g, NEW a, NEW n, NEW p, IsPath(g, p, a, n), NEW d \in Node,
         Edge(g, n, d), \A i \in 1..Len(p) : p[i] # d
  PROVE  /\ IsPath(g, Append(p, d), a, d) /\ Len(Append(p, d)) = Len(p) + 1
         /\ \A i \in 1..Len(p) : Append(p, d)[i] = p[i]
         /\ Append(p, d)[Len(p) + 1] = d
<1> DEFINE x == Len(p)
           r == Append(p, d)
<1>1. p \in Seq(Node) /\ x \in Nat /\ x >= 1 /\ p[1] = a /\ p[x] = n
  BY LenProperties DEF IsPath
<1>2. /\ r \in Seq(Node) /\ Len(r) = x + 1
      /\ \A i \in 1..x : r[i] = p[i]
      /\ r[x + 1] = d
  BY <1>1, AppendProperties
<1> HIDE DEF r, x
<1>3. r[1] = a /\ r[Len(r)] = d /\ Len(r) >= 1
  BY <1>1, <1>2
<1>4. ASSUME NEW i \in 1..(Len(r) - 1) PROVE Edge(g, r[i], r[i + 1])
  <2>1. CASE i = x
    <3>1. x \in 1..x /\ i + 1 = x + 1
      BY <1>1, <2>1
    <3>2. r[i] = n /\ r[i + 1] = d
      BY <1>1, <1>2, <2>1, <3>1
    <3> QED BY <3>2
  <2>2. CASE i # x
    <3>1. i \in 1..(x - 1) /\ i \in 1..x /\ i + 1 \in 1..x
      BY <1>1, <1>2, <2>2
    <3> QED BY <1>2, <3>1 DEF IsPath, x
  <2> QED BY <2>1, <2>2
<1>5. ASSUME NEW i \in 1..Len(r), NEW j \in 1..Len(r), i # j PROVE r[i] # r[j]
  <2>1. \A k \in 1..Len(r) : k \in 1..x \/ k = x + 1
    BY <1>1, <1>2
  <2>2. \A k \in 1..x : r[k] # d
    BY <1>2 DEF x
  <2>3. \A k, l \in 1..x : k # l => r[k] # r[l]
    BY <1>2 DEF x, IsPath
  <2> QED BY <1>2, <1>5, <2>1, <2>2, <2>3
<1> QED BY <1>1, <1>2, <1>3, <1>4, <1>5 DEF IsPath, r, x

GrownBy(kept, n, d) ==
  [m \in DOMAIN kept \cup {d} |-> IF m = d THEN Append(kept[n], d) ELSE kept[m]]

\* A neighbour that a side does not know yet.
IsNews(g, start, kept, n, d) ==
  /\ Paths(g, kept, start) /\ n \in DOMAIN kept /\ Edge(g, n, d)
  /\ d \in Node /\ d \notin DOMAIN kept

Tells(g, start, kept, n, d, new) ==
  /\ Paths(g, new, start) /\ DOMAIN new = DOMAIN kept \cup {d}
  /\ \A m \in DOMAIN kept : new[m] = kept[m]
  /\ Len(new[d]) = Len(kept[n]) + 1

\* A side told of a neighbour keeps its paths and gains one to it.
LEMMA GrownPaths ==
  ASSUME NEW g, NEW start, NEW kept, NEW n, NEW d, IsNews(g, start, kept, n, d)
  PROVE  Tells(g, start, kept, n, d, GrownBy(kept, n, d))
<1> DEFINE new == GrownBy(kept, n, d)
           p   == kept[n]
           q   == Append(p, d)
<1>0. /\ Paths(g, kept, start) /\ n \in DOMAIN kept /\ Edge(g, n, d)
      /\ d \in Node /\ d \notin DOMAIN kept
  BY DEF IsNews
<1>1. /\ DOMAIN new = DOMAIN kept \cup {d} /\ new[d] = q
      /\ \A m \in DOMAIN kept : new[m] = kept[m]
  BY <1>0 DEF GrownBy
<1>2. IsPath(g, p, start, n) /\ \A i \in 1..Len(p) : p[i] \in DOMAIN kept
  BY <1>0 DEF Paths
<1> HIDE DEF new, p
<1>3. /\ IsPath(g, q, start, d) /\ Len(q) = Len(p) + 1 /\ Len(p) \in Nat
      /\ \A i \in 1..Len(p) : q[i] = p[i]
      /\ q[Len(p) + 1] = d
  <2>1. \A i \in 1..Len(p) : p[i] # d
    BY <1>0, <1>2
  <2>2. Len(p) \in Nat
    BY <1>2, LenProperties DEF IsPath
  <2> QED BY <1>0, <1>2, <2>1, <2>2, LongerIsPath
<1> HIDE DEF q
<1>4. \A i \in 1..Len(q) : q[i] \in DOMAIN kept \cup {d}
  <2>1. \A i \in 1..Len(q) : i \in 1..Len(p) \/ i = Len(p) + 1
    BY <1>3
  <2> QED BY <1>2, <1>3, <2>1
<1>5. ASSUME NEW m \in DOMAIN new
      PROVE  IsPath(g, new[m], start, m) /\ \A i \in 1..Len(new[m]) : new[m][i] \in DOMAIN new
  <2>1. CASE m = d
    BY <1>1, <1>3, <1>4, <2>1
  <2>2. CASE m # d
    BY <1>0, <1>1, <2>2 DEF Paths
  <2> QED BY <2>1, <2>2
<1>6. start \in DOMAIN new /\ new[start] = <<start>> /\ DOMAIN new \subseteq Node
  BY <1>0, <1>1 DEF Paths
<1>7. Paths(g, new, start)
  BY <1>5, <1>6 DEF Paths
<1>8. Tells(g, start, kept, n, d, new)
  BY <1>1, <1>3, <1>7 DEF Tells, p
<1> QED BY <1>8 DEF new

\* What Expand does, seen from either side.
LEMMA ExpandCases ==
  ASSUME NEW n, NEW d, Path!Expand(n, d), side \in {"fwd", "bwd"}
  PROVE  /\ walk = "expand" /\ n \in DOMAIN todo /\ d \in todo[n]
         /\ todo' = [todo EXCEPT ![n] = @ \ {d}]
         /\ UNCHANGED <<edges, hop, side, capped>>
         /\ walk' = "expand" => path' = path
         /\ \/ /\ d \in DOMAIN Path!Grow /\ walk' = "expand"
               /\ fwd' = fwd /\ bwd' = bwd
            \/ /\ side = "fwd" /\ d \notin DOMAIN fwd
               /\ fwd' = GrownBy(fwd, n, d) /\ bwd' = bwd
               /\ \/ d \notin DOMAIN bwd /\ walk' = "expand"
                  \/ /\ d \in DOMAIN bwd /\ walk' = "found"
                     /\ path' = Path!Joined(Append(fwd[n], d), bwd[d])
            \/ /\ side = "bwd" /\ d \notin DOMAIN bwd
               /\ bwd' = GrownBy(bwd, n, d) /\ fwd' = fwd
               /\ \/ d \notin DOMAIN fwd /\ walk' = "expand"
                  \/ /\ d \in DOMAIN fwd /\ walk' = "found"
                     /\ path' = Path!Joined(fwd[d], Append(bwd[n], d))
<1> DEFINE grow  == IF side = "fwd" THEN fwd ELSE bwd
           other == IF side = "fwd" THEN bwd ELSE fwd
           grown == IF d \in DOMAIN grow THEN grow ELSE GrownBy(grow, n, d)
           meets == d \notin DOMAIN grow /\ d \in DOMAIN other
<1>1. Path!Grow = grow /\ Path!Other = other
  BY DEF Path!Grow, Path!Side, Path!Other
<1>2. /\ walk = "expand" /\ n \in DOMAIN todo /\ d \in todo[n]
      /\ todo' = [todo EXCEPT ![n] = @ \ {d}]
      /\ UNCHANGED <<edges, hop, side, capped>>
      /\ fwd' = IF side = "fwd" THEN grown ELSE fwd
      /\ bwd' = IF side = "bwd" THEN grown ELSE bwd
      /\ path' = IF ~meets THEN path
                 ELSE IF side = "fwd" THEN Path!Joined(grown[d], other[d])
                                      ELSE Path!Joined(other[d], grown[d])
      /\ walk' = IF meets THEN "found" ELSE "expand"
  BY <1>1 DEF Path!Expand, GrownBy
<1>3. d \notin DOMAIN grow => grown[d] = Append(grow[n], d)
  BY DEF GrownBy
<1> HIDE DEF grown
<1>4. CASE d \in DOMAIN grow
  <2>1. grown = grow
    BY <1>4 DEF grown
  <2> QED BY <1>1, <1>2, <1>4, <2>1
<1>5. CASE d \notin DOMAIN grow /\ side = "fwd"
  <2>1. grown = GrownBy(fwd, n, d) /\ grown[d] = Append(fwd[n], d)
    BY <1>3, <1>5 DEF grown
  <2> QED BY <1>2, <1>5, <2>1
<1>6. CASE d \notin DOMAIN grow /\ side = "bwd"
  <2>1. grown = GrownBy(bwd, n, d) /\ grown[d] = Append(bwd[n], d)
    BY <1>3, <1>6 DEF grown
  <2> QED BY <1>2, <1>6, <2>1
<1> QED BY <1>4, <1>5, <1>6

\* Only a path of length one leads to its start.
LEMMA FirstPath ==
  ASSUME NEW g, NEW a \in Node
  PROVE  Paths(g, [n \in {a} |-> <<a>>], a) /\ Len(<<a>>) = 1
<1>1. <<a>> \in Seq(Node) /\ Len(<<a>>) = 1 /\ <<a>>[1] = a
  OBVIOUS
<1>2. IsPath(g, <<a>>, a, a)
  <2> DEFINE p == <<a>>
  <2>1. p \in Seq(Node) /\ Len(p) = 1 /\ p[1] = a
    BY <1>1
  <2> HIDE DEF p
  <2>2. IsPath(g, p, a, a)
    BY <2>1 DEF IsPath
  <2> QED BY <2>2 DEF p
<1> DEFINE kept == [n \in {a} |-> <<a>>]
<1>3. DOMAIN kept = {a} /\ kept[a] = <<a>>
  OBVIOUS
<1> HIDE DEF kept
<1>4. Paths(g, kept, a)
  <2>1. \A i \in 1..Len(kept[a]) : kept[a][i] \in DOMAIN kept
    BY <1>1, <1>3
  <2> QED BY <1>2, <1>3, <2>1 DEF Paths
<1> QED BY <1>1, <1>4 DEF kept

\* Each side begins with the path of length one.
LEMMA RealInit == Path!Init => RealInv
<1> SUFFICES ASSUME Path!Init PROVE RealInv
  OBVIOUS
<1>1. /\ edges \in LinkGraphs /\ hop = 0 /\ side = "fwd" /\ walk = "grow"
      /\ fwd = [n \in {source} |-> <<source>>] /\ bwd = [n \in {target} |-> <<target>>]
  BY DEF Path!Init
<1>2. source \in Node /\ target \in Node /\ source # target /\ MaxHops \in Nat
  BY PathAssumption DEF PathAssumption
<1>3. Paths(edges, fwd, source) /\ Paths(edges, bwd, target)
  BY <1>1, <1>2, FirstPath
<1>4. Disjoint
  BY <1>1, <1>2 DEF Disjoint
<1>5. Short
  <2>1. Len(<<source>>) = 1 /\ Len(<<target>>) = 1
    OBVIOUS
  <2> QED BY <1>1, <2>1 DEF Short
<1> QED BY <1>1, <1>2, <1>3, <1>4, <1>5 DEF RealInv

\* Where the new path of one side meets a path of the other, they make a path.
LEMMA MeetingIsPath ==
  ASSUME NEW g, NEW a, NEW b, NEW kept, NEW met, NEW n, NEW d,
         IsNews(g, a, kept, n, d), d \in DOMAIN met, Paths(g, met, b),
         DOMAIN kept \cap DOMAIN met = {}
  PROVE  /\ IsPath(g, Path!Joined(Append(kept[n], d), met[d]), a, b)
         /\ IsPath(g, Path!Joined(met[d], Append(kept[n], d)), b, a)
         /\ Len(Path!Joined(Append(kept[n], d), met[d])) = Len(kept[n]) + Len(met[d])
         /\ Len(Path!Joined(met[d], Append(kept[n], d))) = Len(kept[n]) + Len(met[d])
<1> DEFINE p == Append(kept[n], d)
           q == met[d]
           k == kept[n]
<1>0. d \in Node /\ Edge(g, n, d) /\ Paths(g, kept, a) /\ n \in DOMAIN kept
  BY DEF IsNews
<1>1. /\ IsPath(g, k, a, n) /\ \A i \in 1..Len(k) : k[i] \in DOMAIN kept
      /\ IsPath(g, q, b, d) /\ \A j \in 1..Len(q) : q[j] \in DOMAIN met
  BY <1>0 DEF Paths
<1>2. \A i \in 1..Len(k) : k[i] # d
  BY <1>1
<1>3. Len(k) \in Nat /\ Len(q) \in Nat /\ Len(q) >= 1
  BY <1>1, LenProperties DEF IsPath
<1> HIDE DEF k, q
<1>4. /\ IsPath(g, Append(k, d), a, d) /\ Len(Append(k, d)) = Len(k) + 1
      /\ \A i \in 1..Len(k) : Append(k, d)[i] = k[i]
      /\ Append(k, d)[Len(k) + 1] = d
  BY <1>0, <1>1, <1>2, LongerIsPath
<1>5. p = Append(k, d)
  BY DEF k
<1> HIDE DEF p
<1>6. ASSUME NEW i \in 1..Len(p), NEW j \in 1..Len(q), p[i] = q[j]
      PROVE  i = Len(p) /\ j = Len(q)
  <2>1. i \in 1..Len(k) \/ i = Len(k) + 1
    BY <1>3, <1>4, <1>5
  <2>2. ~(i \in 1..Len(k))
    BY <1>1, <1>4, <1>5, <1>6
  <2>3. i = Len(p) /\ q[j] = d
    BY <1>4, <1>5, <1>6, <2>1, <2>2
  <2>4. q[Len(q)] = d /\ Len(q) \in 1..Len(q)
    BY <1>1, <1>3 DEF IsPath
  <2> QED BY <1>1, <2>3, <2>4 DEF IsPath
<1>7. IsPath(g, p, a, d) /\ IsPath(g, q, b, d) /\ Len(p) = Len(k) + 1
  BY <1>1, <1>4, <1>5
<1>8. Meet(g, p, q, a, b, d)
  BY <1>6, <1>7 DEF Meet
<1>9. Meet(g, q, p, b, a, d)
  BY <1>6, <1>7 DEF Meet
<1>10. /\ IsPath(g, Path!Joined(p, q), a, b) /\ Len(Path!Joined(p, q)) = Len(p) + Len(q) - 1
       /\ IsPath(g, Path!Joined(q, p), b, a) /\ Len(Path!Joined(q, p)) = Len(q) + Len(p) - 1
  BY <1>8, <1>9, JoinedIsPath
<1>11. Len(p) + Len(q) - 1 = Len(k) + Len(q) /\ Len(q) + Len(p) - 1 = Len(k) + Len(q)
  BY <1>3, <1>7
<1> QED BY <1>10, <1>11 DEF p, q, k

\* A hop may begin when hops are left, with neighbours of the growing side.
LEMMA StartHopReal ==
  ASSUME RealInv, Path!StartHop PROVE RealInv'
<1>1. /\ walk = "grow" /\ walk' = "expand" /\ hop < MaxHops
      /\ side' = Path!Smaller /\ side' \in {"fwd", "bwd"}
      /\ UNCHANGED <<edges, fwd, bwd, hop, path>>
  BY DEF Path!StartHop, Path!Smaller
<1>2. PICK S : /\ S \subseteq Path!Frontier(Path!Side(Path!Smaller))
               /\ todo' = [n \in S |-> Path!Neighbors(n)]
  BY DEF Path!StartHop
<1>3. DOMAIN todo' = S /\ \A n \in S : todo'[n] = Path!Neighbors(n)'
  <2>1. \A n : Path!Neighbors(n)' = Path!Neighbors(n)
    BY <1>1 DEF Path!Neighbors
  <2> QED BY <1>2, <2>1
<1>4. Path!Grow' = Path!Side(Path!Smaller)
  BY <1>1 DEF Path!Grow, Path!Side
<1>5. S \subseteq DOMAIN Path!Grow'
  BY <1>2, <1>4 DEF Path!Frontier, Path!AtDepth
<1>6. (Paths(edges, fwd, source) /\ Paths(edges, bwd, target) /\ Disjoint)' /\ Short
  BY <1>1 DEF RealInv, Disjoint
<1>7. /\ hop \in Nat
      /\ \A m \in DOMAIN fwd, n \in DOMAIN bwd : /\ Len(fwd[m]) \in Nat /\ Len(bwd[n]) \in Nat
                                                 /\ Len(fwd[m]) + Len(bwd[n]) - 2 =< hop
  <2>1. /\ hop \in Nat
        /\ \A m \in DOMAIN fwd, n \in DOMAIN bwd : Len(fwd[m]) + Len(bwd[n]) - 2 =< hop + 0
    BY <1>1 DEF RealInv, Short
  <2>2. \A m \in DOMAIN fwd, n \in DOMAIN bwd : Len(fwd[m]) \in Nat /\ Len(bwd[n]) \in Nat
    BY <1>1, LenProperties DEF RealInv, Paths, IsPath
  <2> QED BY <2>1, <2>2
<1>8. Short'
  BY <1>1, <1>7 DEF Short
<1>9. \A n \in DOMAIN Path!Grow', m \in DOMAIN Path!Other' :
         Len(Path!Grow'[n]) + Len(Path!Other'[m]) - 2 =< hop
  <2>1. CASE side' = "fwd"
    <3>1. Path!Grow' = fwd /\ Path!Other' = bwd
      BY <1>1, <2>1 DEF Path!Grow, Path!Other, Path!Side
    <3> QED BY <1>7, <3>1
  <2>2. CASE side' = "bwd"
    <3>1. Path!Grow' = bwd /\ Path!Other' = fwd
      BY <1>1, <2>2 DEF Path!Grow, Path!Other, Path!Side
    <3> QED BY <1>7, <3>1
  <2> QED BY <1>1, <2>1, <2>2
<1>10. TodoInv'
  BY <1>1, <1>3, <1>5, <1>9 DEF TodoInv
<1> QED BY <1>1, <1>6, <1>8, <1>10 DEF RealInv

\* A hop that ends makes up for the link that its paths gained.
LEMMA EndHopReal ==
  ASSUME RealInv, Path!EndHop PROVE RealInv'
<1>1. /\ walk = "expand" /\ walk' = "grow" /\ hop' = hop + 1
      /\ UNCHANGED <<edges, fwd, bwd, side, path, capped>>
  BY DEF Path!EndHop
<1>2. hop \in Nat /\ hop < MaxHops /\ MaxHops \in Nat
  BY <1>1, PathAssumption DEF RealInv, TodoInv, PathAssumption
<1>3. Short'
  BY <1>1, <1>2 DEF RealInv, Short
<1>4. Disjoint'
  BY <1>1 DEF RealInv, Disjoint
<1> QED BY <1>1, <1>2, <1>3, <1>4 DEF RealInv

\* Giving up changes no path.
LEMMA GiveUpReal ==
  ASSUME RealInv, Path!GiveUp PROVE RealInv'
<1>1. /\ walk = "grow" /\ walk' = "none" /\ hop = MaxHops
      /\ UNCHANGED <<edges, fwd, bwd, hop, side, todo, path, capped>>
  BY DEF Path!GiveUp
<1> QED BY <1>1 DEF RealInv, Short, Disjoint

\* The paths kept have lengths.
LEMMA LengthsAreNumbers ==
  ASSUME NEW g, NEW a, NEW kept, Paths(g, kept, a)
  PROVE  \A n \in DOMAIN kept : Len(kept[n]) \in Nat /\ Len(kept[n]) >= 1
  BY LenProperties DEF Paths, IsPath

\* A neighbour is known already, or new, or the node where the sides meet.
LEMMA ExpandReal ==
  ASSUME NEW n, NEW d, RealInv, Path!Expand(n, d) PROVE RealInv'
<1>1. /\ walk = "expand" /\ n \in DOMAIN todo /\ d \in todo[n]
      /\ todo' = [todo EXCEPT ![n] = @ \ {d}]
      /\ UNCHANGED <<edges, hop, side, capped>>
      /\ edges \in LinkGraphs /\ hop \in Nat /\ hop < MaxHops /\ MaxHops \in Nat
      /\ side \in {"fwd", "bwd"}
      /\ Paths(edges, fwd, source) /\ Paths(edges, bwd, target)
      /\ Disjoint /\ Short /\ TodoInv
  BY ExpandCases, PathAssumption DEF RealInv, TodoInv, PathAssumption
<1>2. d \in Node /\ Edge(edges, n, d) /\ n \in DOMAIN Path!Grow
  BY <1>1 DEF TodoInv, Path!Neighbors, Edge
<1>3. \A m : Path!Neighbors(m)' = Path!Neighbors(m)
  BY <1>1 DEF Path!Neighbors
<1>4. DOMAIN todo' = DOMAIN todo /\ \A m \in DOMAIN todo : todo'[m] \subseteq todo[m]
  BY <1>1
<1>5. source \in Node /\ target \in Node
  BY PathAssumption DEF PathAssumption
<1>6. /\ \A m \in DOMAIN fwd : Len(fwd[m]) \in Nat
      /\ \A m \in DOMAIN bwd : Len(bwd[m]) \in Nat
  BY <1>1, LengthsAreNumbers
<1>7. CASE /\ d \in DOMAIN Path!Grow /\ walk' = "expand"
           /\ fwd' = fwd /\ bwd' = bwd
  <2>1. Path!Grow' = Path!Grow /\ Path!Other' = Path!Other
    BY <1>1, <1>7 DEF Path!Grow, Path!Other, Path!Side
  <2>2. TodoInv'
    BY <1>1, <1>3, <1>4, <2>1 DEF TodoInv
  <2>3. Short' /\ Disjoint'
    BY <1>1, <1>7 DEF Short, Disjoint
  <2> QED BY <1>1, <1>7, <2>2, <2>3 DEF RealInv
<1>8. CASE /\ side = "fwd" /\ d \notin DOMAIN fwd
           /\ fwd' = GrownBy(fwd, n, d) /\ bwd' = bwd
           /\ \/ d \notin DOMAIN bwd /\ walk' = "expand"
              \/ /\ d \in DOMAIN bwd /\ walk' = "found"
                 /\ path' = Path!Joined(Append(fwd[n], d), bwd[d])
  <2>1. Path!Grow = fwd /\ Path!Other = bwd /\ Path!Grow' = fwd' /\ Path!Other' = bwd'
    BY <1>1, <1>8 DEF Path!Grow, Path!Other, Path!Side
  <2>2. /\ n \in DOMAIN fwd
        /\ \A m \in DOMAIN todo : /\ m \in DOMAIN fwd
                                  /\ \A k \in DOMAIN bwd : Len(fwd[m]) + Len(bwd[k]) - 2 =< hop
    BY <1>1, <1>2, <2>1 DEF TodoInv
  <2>6. IsNews(edges, source, fwd, n, d)
    BY <1>1, <1>2, <1>8, <2>2 DEF IsNews
  <2>3. /\ Paths(edges, fwd', source)
        /\ DOMAIN fwd' = DOMAIN fwd \cup {d}
        /\ \A m \in DOMAIN fwd : fwd'[m] = fwd[m]
        /\ Len(fwd'[d]) = Len(fwd[n]) + 1
    <3> DEFINE new == GrownBy(fwd, n, d)
    <3>1. Tells(edges, source, fwd, n, d, new)
      BY <2>6, GrownPaths
    <3>2. fwd' = new
      BY <1>8
    <3> HIDE DEF new
    <3> QED BY <3>1, <3>2 DEF Tells
  <2>4. CASE d \notin DOMAIN bwd /\ walk' = "expand"
    <3>1. Disjoint'
      BY <1>1, <1>8, <2>3, <2>4 DEF Disjoint
    <3>2. Short'
      <4> SUFFICES ASSUME NEW m \in DOMAIN fwd', NEW k \in DOMAIN bwd
                   PROVE Len(fwd'[m]) + Len(bwd[k]) - 2 =< hop + 1
        BY <1>1, <1>8, <2>4 DEF Short
      <4>1. CASE m = d
        BY <1>1, <1>6, <2>2, <2>3, <4>1
      <4>2. CASE m # d
        BY <1>1, <1>6, <2>3, <4>2 DEF Short
      <4> QED BY <4>1, <4>2
    <3>3. TodoInv'
      <4>1. \A m \in DOMAIN todo' : todo'[m] \subseteq Path!Neighbors(m)'
        BY <1>1, <1>3, <1>4 DEF TodoInv
      <4>2. \A m \in DOMAIN todo', k \in DOMAIN bwd' : Len(fwd'[m]) + Len(bwd'[k]) - 2 =< hop
        BY <1>4, <1>8, <2>2, <2>3
      <4>3. DOMAIN todo' \subseteq DOMAIN fwd'
        BY <1>4, <2>2, <2>3
      <4> QED BY <1>1, <2>1, <4>1, <4>2, <4>3 DEF TodoInv
    <3> QED BY <1>1, <1>8, <2>3, <2>4, <3>1, <3>2, <3>3 DEF RealInv
  <2>5. CASE /\ d \in DOMAIN bwd /\ walk' = "found"
             /\ path' = Path!Joined(Append(fwd[n], d), bwd[d])
    <3> DEFINE r == Path!Joined(Append(fwd[n], d), bwd[d])
    <3>1. IsPath(edges, r, source, target) /\ Len(r) = Len(fwd[n]) + Len(bwd[d])
      BY <1>1, <2>5, <2>6, MeetingIsPath DEF Disjoint
    <3>2. path' = r
      BY <2>5
    <3> HIDE DEF r
    <3>3. Len(r) - 1 =< MaxHops
      BY <1>1, <1>6, <2>2, <2>5, <3>1
    <3>4. Path!PathIsReal'
      BY <1>1, <3>1, <3>2, <3>3 DEF Path!PathIsReal, IsPath, Edge
    <3>5. walk' = "found" /\ edges' \in LinkGraphs /\ hop' \in Nat /\ hop' =< MaxHops
          /\ side' \in {"fwd", "bwd"}
      BY <1>1, <2>5
    <3> QED BY <3>4, <3>5 DEF RealInv
  <2> QED BY <1>8, <2>4, <2>5
<1>9. CASE /\ side = "bwd" /\ d \notin DOMAIN bwd
           /\ bwd' = GrownBy(bwd, n, d) /\ fwd' = fwd
           /\ \/ d \notin DOMAIN fwd /\ walk' = "expand"
              \/ /\ d \in DOMAIN fwd /\ walk' = "found"
                 /\ path' = Path!Joined(fwd[d], Append(bwd[n], d))
  <2>1. Path!Grow = bwd /\ Path!Other = fwd /\ Path!Grow' = bwd' /\ Path!Other' = fwd'
    BY <1>1, <1>9 DEF Path!Grow, Path!Other, Path!Side
  <2>2. /\ n \in DOMAIN bwd
        /\ \A m \in DOMAIN todo : /\ m \in DOMAIN bwd
                                  /\ \A k \in DOMAIN fwd : Len(bwd[m]) + Len(fwd[k]) - 2 =< hop
    BY <1>1, <1>2, <2>1 DEF TodoInv
  <2>6. IsNews(edges, target, bwd, n, d)
    BY <1>1, <1>2, <1>9, <2>2 DEF IsNews
  <2>3. /\ Paths(edges, bwd', target)
        /\ DOMAIN bwd' = DOMAIN bwd \cup {d}
        /\ \A m \in DOMAIN bwd : bwd'[m] = bwd[m]
        /\ Len(bwd'[d]) = Len(bwd[n]) + 1
    <3> DEFINE new == GrownBy(bwd, n, d)
    <3>1. Tells(edges, target, bwd, n, d, new)
      BY <2>6, GrownPaths
    <3>2. bwd' = new
      BY <1>9
    <3> HIDE DEF new
    <3> QED BY <3>1, <3>2 DEF Tells
  <2>4. CASE d \notin DOMAIN fwd /\ walk' = "expand"
    <3>1. Disjoint'
      BY <1>1, <1>9, <2>3, <2>4 DEF Disjoint
    <3>2. Short'
      <4> SUFFICES ASSUME NEW m \in DOMAIN fwd, NEW k \in DOMAIN bwd'
                   PROVE Len(fwd[m]) + Len(bwd'[k]) - 2 =< hop + 1
        BY <1>1, <1>9, <2>4 DEF Short
      <4>1. CASE k = d
        BY <1>1, <1>6, <2>2, <2>3, <4>1
      <4>2. CASE k # d
        BY <1>1, <1>6, <2>3, <4>2 DEF Short
      <4> QED BY <4>1, <4>2
    <3>3. TodoInv'
      <4>1. \A m \in DOMAIN todo' : todo'[m] \subseteq Path!Neighbors(m)'
        BY <1>1, <1>3, <1>4 DEF TodoInv
      <4>2. \A m \in DOMAIN todo', k \in DOMAIN fwd' : Len(bwd'[m]) + Len(fwd'[k]) - 2 =< hop
        BY <1>4, <1>9, <2>2, <2>3
      <4>3. DOMAIN todo' \subseteq DOMAIN bwd'
        BY <1>4, <2>2, <2>3
      <4> QED BY <1>1, <2>1, <4>1, <4>2, <4>3 DEF TodoInv
    <3> QED BY <1>1, <1>9, <2>3, <2>4, <3>1, <3>2, <3>3 DEF RealInv
  <2>5. CASE /\ d \in DOMAIN fwd /\ walk' = "found"
             /\ path' = Path!Joined(fwd[d], Append(bwd[n], d))
    <3> DEFINE r == Path!Joined(fwd[d], Append(bwd[n], d))
    <3>1. IsPath(edges, r, source, target) /\ Len(r) = Len(bwd[n]) + Len(fwd[d])
      BY <1>1, <2>5, <2>6, MeetingIsPath DEF Disjoint
    <3>2. path' = r
      BY <2>5
    <3> HIDE DEF r
    <3>3. Len(r) - 1 =< MaxHops
      BY <1>1, <1>6, <2>2, <2>5, <3>1
    <3>4. Path!PathIsReal'
      BY <1>1, <3>1, <3>2, <3>3 DEF Path!PathIsReal, IsPath, Edge
    <3>5. walk' = "found" /\ edges' \in LinkGraphs /\ hop' \in Nat /\ hop' =< MaxHops
          /\ side' \in {"fwd", "bwd"}
      BY <1>1, <2>5
    <3> QED BY <3>4, <3>5 DEF RealInv
  <2> QED BY <1>9, <2>4, <2>5
<1> QED BY <1>1, <1>7, <1>8, <1>9, ExpandCases

(* A walk goes one layer further with every link, so a side that has looked  *)
(* D deep knows the first D pages of every walk from its start.              *)

Known(kept, w, i) == w[i] \in DOMAIN kept /\ Len(kept[w[i]]) =< i + 1

\* By the least page of the walk that would not be known.
LEMMA WalkIsKnown ==
  ASSUME NEW a, NEW kept, Paths(edges, kept, a), NEW D \in Nat, Layered(edges, kept, D),
         edges \in LinkGraphs, NEW w, w[0] = a, NEW j \in Nat, j < D,
         \A i \in 1..j : w[i] \in Node \ Hidden /\ Edge(edges, w[i - 1], w[i])
  PROVE  w[j] \in DOMAIN kept
<1> DEFINE T == {i \in 0..j : ~Known(kept, w, i)}
<1> SUFFICES ASSUME T # {} PROVE FALSE
  BY DEF Known
<1>1. T \subseteq Nat
  OBVIOUS
<1>2. PICK i \in T : \A y \in T : ~(<<y, i>> \in OpToRel(<, Nat))
  BY <1>1, NatLessThanWellFounded, WFMin
<1>3. i \in 0..j /\ ~Known(kept, w, i) /\ \A y \in 0..j : y < i => Known(kept, w, y)
  BY <1>1, <1>2 DEF OpToRel
<1> HIDE DEF T
<1>4. i # 0
  <2>1. a \in DOMAIN kept /\ kept[a] = <<a>> /\ Len(<<a>>) = 1
    BY DEF Paths
  <2>2. Known(kept, w, 0)
    BY <2>1 DEF Known
  <2> QED BY <1>3, <2>2
<1>5. i - 1 \in 0..j /\ i - 1 < i /\ i \in 1..j /\ i \in Nat /\ (i - 1) + 1 = i /\ i < D
  BY <1>3, <1>4
<1> DEFINE n == w[i - 1]
           m == w[i]
<1>6. n \in DOMAIN kept /\ Len(kept[n]) =< i /\ Len(kept[n]) \in Nat
  <2>1. Known(kept, w, i - 1)
    BY <1>3, <1>5
  <2>2. n \in DOMAIN kept /\ Len(kept[n]) =< i
    BY <1>5, <2>1 DEF Known
  <2> QED BY <2>2, LengthsAreNumbers
<1>7. m \in Node \ Hidden /\ Edge(edges, n, m)
  BY <1>5
<1> HIDE DEF n, m
<1>8. n # m
  <2>1. \A e \in edges : \E x, y \in Node : x # y /\ e = {x, y}
    BY PathAssumption DEF PathAssumption
  <2>2. PICK x, y \in Node : x # y /\ {n, m} = {x, y}
    BY <1>7, <2>1 DEF Edge
  <2> QED BY <2>2
<1>9. m \in Near(edges, n)
  BY <1>7, <1>8 DEF Near
<1>10. m \in DOMAIN kept /\ Len(kept[m]) =< Len(kept[n]) + 1 /\ Len(kept[n]) < D
  BY <1>5, <1>6, <1>9 DEF Layered
<1>11. Len(kept[m]) \in Nat
  BY <1>10, LengthsAreNumbers
<1>12. Len(kept[m]) =< i + 1
  BY <1>5, <1>6, <1>10, <1>11
<1> QED BY <1>3, <1>10, <1>12 DEF Known, m

\* Linked pages as a walk that is a function of its steps.
LEMMA LinkedIsWalk ==
  ASSUME NEW k \in Nat, k >= 1, Path!Linked(k)
  PROVE  \E w : /\ w[0] = source /\ w[k] = target
                /\ \A i \in 1..k : Edge(edges, w[i - 1], w[i])
                /\ \A i \in 1..(k - 1) : w[i] \in Node \ Hidden
<1>1. PICK inner \in [1..(k - 1) -> Node \ Hidden] :
        Path!Walk([i \in 0..k |-> IF i = 0 THEN source
                                  ELSE IF i = k THEN target ELSE inner[i]], k)
  BY DEF Path!Linked
<1> DEFINE w == [i \in 0..k |-> IF i = 0 THEN source
                                ELSE IF i = k THEN target ELSE inner[i]]
<1>2. \A i \in 1..(k - 1) : w[i] \in Node \ Hidden
  <2> SUFFICES ASSUME NEW i \in 1..(k - 1) PROVE w[i] \in Node \ Hidden
    OBVIOUS
  <2>1. i \in 0..k /\ i # 0 /\ i # k
    OBVIOUS
  <2> QED BY <2>1
<1>3. Path!Walk(w, k)
  BY <1>1
<1> HIDE DEF w
<1>4. w[0] = source /\ w[k] = target /\ \A i \in 1..k : Edge(edges, w[i - 1], w[i])
  BY <1>3 DEF Path!Walk, Edge
<1> QED BY <1>2, <1>4

\* Sides that share no page, D and E deep, are too far apart for a walk of fewer
\* than D + E - 1 links.
LEMMA NoShorterWalk ==
  ASSUME edges \in LinkGraphs, Paths(edges, fwd, source), Paths(edges, bwd, target),
         Disjoint, NEW D \in Nat, NEW E \in Nat, Layered(edges, fwd, D), Layered(edges, bwd, E),
         (D = 1 /\ E = 1) \/ (D >= 2 /\ (E >= 2 \/ (D = 2 /\ E = 1))),
         NEW k \in Nat, k >= 1, k =< D + E - 2
  PROVE  ~Path!Findable(k)
<1> SUFFICES ASSUME Path!Linked(k), ~(k = 1 /\ target \in Hidden) PROVE FALSE
  BY DEF Path!Findable
<1>1. PICK w : /\ w[0] = source /\ w[k] = target
               /\ \A i \in 1..k : Edge(edges, w[i - 1], w[i])
               /\ \A i \in 1..(k - 1) : w[i] \in Node \ Hidden
  BY LinkedIsWalk
<1>2. D >= 2 /\ source \in Node /\ target \in Node
  BY PathAssumption DEF PathAssumption
<1>3. CASE k = 1
  <2>1. w[1] \in DOMAIN fwd
    <3>1. \A i \in 1..1 : w[i] \in Node \ Hidden /\ Edge(edges, w[i - 1], w[i])
      BY <1>1, <1>2, <1>3
    <3>2. 1 \in Nat /\ 1 < D
      BY <1>2
    <3> QED BY <1>1, <3>1, <3>2, WalkIsKnown
  <2>2. target \in DOMAIN bwd /\ target \in DOMAIN fwd
    BY <1>1, <1>3, <2>1 DEF Paths
  <2> QED BY <2>2 DEF Disjoint
<1>4. CASE k # 1
  <2> DEFINE i == IF D - 1 < k - 1 THEN D - 1 ELSE k - 1
             j == k - i
  <2>1. /\ i \in 1..(k - 1) /\ i \in Nat /\ i < D
        /\ j \in 1..(k - 1) /\ j \in Nat /\ j < E
    BY <1>2, <1>4
  <2>2. k - j = i
    BY <2>1
  <2> HIDE DEF i, j
  <2>3. w[i] \in DOMAIN fwd
    <3>1. \A x \in 1..i : w[x] \in Node \ Hidden /\ Edge(edges, w[x - 1], w[x])
      <4> SUFFICES ASSUME NEW x \in 1..i
                   PROVE w[x] \in Node \ Hidden /\ Edge(edges, w[x - 1], w[x])
        OBVIOUS
      <4>1. x \in 1..k /\ x \in 1..(k - 1)
        BY <2>1
      <4> QED BY <1>1, <4>1
    <3> QED BY <1>1, <2>1, <3>1, WalkIsKnown
  <2> DEFINE v == [x \in 0..k |-> w[k - x]]
  <2>4. v[0] = target /\ v[j] = w[i]
    <3>1. 0 \in 0..k /\ j \in 0..k /\ k - 0 = k
      BY <2>1
    <3> QED BY <1>1, <2>2, <3>1
  <2>5. v[j] \in DOMAIN bwd
    <3>1. \A x \in 1..j : v[x] \in Node \ Hidden /\ Edge(edges, v[x - 1], v[x])
      <4> SUFFICES ASSUME NEW x \in 1..j
                   PROVE v[x] \in Node \ Hidden /\ Edge(edges, v[x - 1], v[x])
        OBVIOUS
      <4> DEFINE y == k - x
      <4>1. /\ x \in 0..k /\ x - 1 \in 0..k /\ y \in 1..(k - 1) /\ y + 1 \in 1..k
            /\ k - (x - 1) = y + 1 /\ (y + 1) - 1 = y
        BY <2>1
      <4>2. v[x] = w[y] /\ v[x - 1] = w[y + 1]
        BY <4>1
      <4> HIDE DEF v, y
      <4>3. w[y] \in Node \ Hidden /\ Edge(edges, w[(y + 1) - 1], w[y + 1])
        BY <1>1, <4>1
      <4>4. {w[y], w[y + 1]} = {w[y + 1], w[y]}
        OBVIOUS
      <4> QED BY <4>1, <4>2, <4>3, <4>4 DEF Edge
    <3> HIDE DEF v
    <3> QED BY <2>1, <2>4, <3>1, WalkIsKnown
  <2> QED BY <2>3, <2>4, <2>5 DEF Disjoint
<1> QED BY <1>3, <1>4

-------------------------------------------------------------------------------
(* How a hop changes the depths.                                             *)

Lengths(kept) == \A n \in DOMAIN kept : Len(kept[n]) \in Nat

\* Neighbors, of a graph that is given.
LEMMA NearIsNeighbors == \A n : Path!Neighbors(n) = Near(edges, n)
  BY DEF Path!Neighbors, Near, Edge

\* The frontier is those at the depth the hop expects, or all.
LEMMA HopStarts ==
  ASSUME NEW g, NEW kept, Lengths(kept), NEW D \in Nat, Within(kept, D), hop \in Nat,
         NEW t, t = [n \in Path!Frontier(kept) |-> Near(g, n)]
  PROVE  Growing(g, t, hop, kept, D)
<1> DEFINE F == Path!Frontier(kept)
           A == Path!AtDepth(kept)
           h == hop \div 2 + 1
<1>1. DOMAIN t = F /\ \A n \in F : t[n] = Near(g, n)
  OBVIOUS
<1>2. F = IF A # {} THEN A ELSE DOMAIN kept
  BY DEF Path!Frontier
<1>3. A = {n \in DOMAIN kept : Len(kept[n]) = h}
  BY DEF Path!AtDepth
<1>4. h \in Nat
  OBVIOUS
<1> HIDE DEF F, A
<1>5. F \subseteq DOMAIN kept
  BY <1>2, <1>3
<1>6. \A n \in DOMAIN kept : Len(kept[n]) \in Nat /\ Len(kept[n]) =< D
  BY DEF Lengths, Within
<1>7. \A n \in DOMAIN t :
        /\ n \in DOMAIN kept /\ t[n] \subseteq Near(g, n) /\ Len(kept[n]) =< D
        /\ \A m \in Near(g, n) \ t[n] : m \in DOMAIN kept /\ Len(kept[m]) =< Len(kept[n]) + 1
  BY <1>1, <1>5, <1>6
<1>8. Within(kept, D + 1)
  BY <1>6 DEF Within
<1>9. CASE A # {} /\ h < D
  <2>1. \A n \in DOMAIN t : Len(kept[n]) < D
    BY <1>1, <1>2, <1>3, <1>9
  <2> QED BY <1>7, <1>9, <2>1 DEF Growing
<1>10. CASE A = {} \/ ~(h < D)
  <2>1. \A n \in DOMAIN kept : Len(kept[n]) = D => n \in DOMAIN t
    <3>1. CASE A = {}
      BY <1>1, <1>2, <3>1
    <3>2. CASE A # {}
      <4>1. PICK n \in DOMAIN kept : Len(kept[n]) = h
        BY <1>3, <3>2
      <4>2. h = D
        BY <1>4, <1>6, <1>10, <3>2, <4>1
      <4> QED BY <1>1, <1>2, <1>3, <3>2, <4>2
    <3> QED BY <3>1, <3>2
  <2> QED BY <1>7, <1>8, <2>1 DEF Growing
<1> QED BY <1>9, <1>10

\* A neighbour that is known already changes only what is left to do.
LEMMA KnownNeighbour ==
  ASSUME NEW g, NEW t, NEW h, NEW kept, Lengths(kept), NEW D \in Nat,
         Layered(g, kept, D), Growing(g, t, h, kept, D),
         NEW n \in DOMAIN t, NEW d \in t[n], d \in DOMAIN kept,
         NEW u, u = [t EXCEPT ![n] = @ \ {d}]
  PROVE  Growing(g, u, h, kept, D)
<1>1. DOMAIN u = DOMAIN t /\ u[n] = t[n] \ {d} /\ \A x \in DOMAIN t : x # n => u[x] = t[x]
  OBVIOUS
<1>2. n \in DOMAIN kept /\ d \in Near(g, n) /\ Len(kept[n]) =< D
      /\ Len(kept[n]) \in Nat /\ Len(kept[d]) \in Nat
  BY DEF Growing, Lengths
<1>3. Len(kept[d]) =< Len(kept[n]) + 1
  <2>1. CASE Len(kept[n]) < D
    BY <1>2, <2>1 DEF Layered
  <2>2. CASE Len(kept[n]) = D
    <3>1. Within(kept, D + 1)
      BY <1>2, <2>2 DEF Growing
    <3> QED BY <2>2, <3>1 DEF Within
  <2> QED BY <1>2, <2>1, <2>2
<1>4. ASSUME NEW x \in DOMAIN u
      PROVE  /\ x \in DOMAIN kept /\ u[x] \subseteq Near(g, x) /\ Len(kept[x]) =< D
             /\ \A m \in Near(g, x) \ u[x] :
                  m \in DOMAIN kept /\ Len(kept[m]) =< Len(kept[x]) + 1
  <2>1. CASE x = n
    BY <1>1, <1>2, <1>3, <2>1 DEF Growing
  <2>2. CASE x # n
    BY <1>1, <2>2 DEF Growing
  <2> QED BY <2>1, <2>2
<1> QED BY <1>1, <1>4 DEF Growing

\* A neighbour that is new is one link beyond the depth.
LEMMA NewNeighbour ==
  ASSUME NEW g, NEW t, NEW h, NEW kept, Lengths(kept), NEW D \in Nat,
         Layered(g, kept, D), Growing(g, t, h, kept, D),
         NEW n \in DOMAIN t, NEW d \in t[n], d \notin DOMAIN kept
  PROVE  /\ n \in DOMAIN kept /\ Len(kept[n]) = D /\ Within(kept, D + 1)
         /\ \A x \in DOMAIN kept : Len(kept[x]) = D => x \in DOMAIN t
<1>1. n \in DOMAIN kept /\ d \in Near(g, n) /\ Len(kept[n]) =< D /\ Len(kept[n]) \in Nat
  BY DEF Growing, Lengths
<1>2. ~(Len(kept[n]) < D)
  BY <1>1 DEF Layered
<1> QED BY <1>1, <1>2 DEF Growing

\* With a new neighbour the side still knows all it knew to depth D.
LEMMA NewNeighbourGrows ==
  ASSUME NEW g, NEW t, NEW h, NEW a, NEW kept, Lengths(kept), NEW D \in Nat,
         Layered(g, kept, D), Growing(g, t, h, kept, D),
         NEW n \in DOMAIN t, NEW d \in t[n], d \notin DOMAIN kept,
         NEW u, u = [t EXCEPT ![n] = @ \ {d}],
         NEW new, Tells(g, a, kept, n, d, new)
  PROVE  Growing(g, u, h, new, D) /\ Layered(g, new, D)
<1>1. DOMAIN u = DOMAIN t /\ u[n] = t[n] \ {d} /\ \A x \in DOMAIN t : x # n => u[x] = t[x]
  OBVIOUS
<1>2. /\ n \in DOMAIN kept /\ Len(kept[n]) = D /\ Within(kept, D + 1)
      /\ \A x \in DOMAIN kept : Len(kept[x]) = D => x \in DOMAIN t
  BY NewNeighbour
<1>3. /\ DOMAIN new = DOMAIN kept \cup {d} /\ \A m \in DOMAIN kept : new[m] = kept[m]
      /\ Len(new[d]) = D + 1
  BY <1>2 DEF Tells
<1>4. ASSUME NEW x \in DOMAIN u
      PROVE  /\ x \in DOMAIN new /\ u[x] \subseteq Near(g, x) /\ Len(new[x]) =< D
             /\ \A m \in Near(g, x) \ u[x] :
                  m \in DOMAIN new /\ Len(new[m]) =< Len(new[x]) + 1
  <2>1. /\ x \in DOMAIN kept /\ t[x] \subseteq Near(g, x) /\ Len(kept[x]) =< D
        /\ \A m \in Near(g, x) \ t[x] :
             m \in DOMAIN kept /\ Len(kept[m]) =< Len(kept[x]) + 1
    BY <1>1 DEF Growing
  <2>2. x \in DOMAIN new /\ new[x] = kept[x]
    BY <1>3, <2>1
  <2>3. u[x] \subseteq Near(g, x)
    BY <1>1, <2>1
  <2>4. ASSUME NEW m \in Near(g, x) \ u[x]
        PROVE  m \in DOMAIN new /\ Len(new[m]) =< Len(new[x]) + 1
    <3>1. CASE m = d /\ x = n
      BY <1>2, <1>3, <2>2, <3>1
    <3>2. CASE ~(m = d /\ x = n)
      <4>1. m \notin t[x]
        BY <1>1, <2>4, <3>2
      <4>2. m \in DOMAIN kept /\ Len(kept[m]) =< Len(kept[x]) + 1
        BY <2>1, <4>1
      <4> QED BY <1>3, <2>2, <4>2
    <3> QED BY <3>1, <3>2
  <2> QED BY <2>1, <2>2, <2>3, <2>4
<1>5. Within(new, D + 1)
  <2>1. \A m \in DOMAIN kept : Len(kept[m]) =< D + 1
    BY <1>2 DEF Within
  <2> QED BY <1>3, <2>1 DEF Within
<1>6. \A x \in DOMAIN new : Len(new[x]) = D => x \in DOMAIN u
  BY <1>1, <1>2, <1>3
<1>7. Growing(g, u, h, new, D)
  BY <1>4, <1>5, <1>6 DEF Growing
<1>8. Layered(g, new, D)
  <2> SUFFICES ASSUME NEW x \in DOMAIN new, Len(new[x]) < D, NEW m \in Near(g, x)
               PROVE m \in DOMAIN new /\ Len(new[m]) =< Len(new[x]) + 1
    BY DEF Layered
  <2>1. x \in DOMAIN kept /\ new[x] = kept[x]
    BY <1>3
  <2>2. m \in DOMAIN kept /\ Len(kept[m]) =< Len(kept[x]) + 1
    BY <2>1 DEF Layered
  <2> QED BY <1>3, <2>1, <2>2
<1> QED BY <1>7, <1>8

\* A hop with nothing left to do was behind the depth, or has gone one further.
LEMMA HopEnds ==
  ASSUME NEW g, NEW t, NEW h, NEW kept, Lengths(kept), NEW D \in Nat,
         Layered(g, kept, D), Growing(g, t, h, kept, D), \A n \in DOMAIN t : t[n] = {}
  PROVE  \/ h \div 2 + 1 < D /\ Within(kept, D)
         \/ Layered(g, kept, D + 1) /\ Within(kept, D + 1)
<1>1. CASE h \div 2 + 1 < D /\ Within(kept, D)
  BY <1>1
<1>2. CASE /\ Within(kept, D + 1)
           /\ \A n \in DOMAIN kept : Len(kept[n]) = D => n \in DOMAIN t
  <2>1. ASSUME NEW n \in DOMAIN kept, Len(kept[n]) < D + 1, NEW m \in Near(g, n)
        PROVE  m \in DOMAIN kept /\ Len(kept[m]) =< Len(kept[n]) + 1
    <3>1. CASE Len(kept[n]) < D
      BY <3>1 DEF Layered
    <3>2. CASE Len(kept[n]) = D
      <4>1. n \in DOMAIN t /\ m \in Near(g, n) \ t[n]
        BY <1>2, <3>2
      <4> QED BY <4>1 DEF Growing
    <3> QED BY <2>1, <3>1, <3>2 DEF Lengths
  <2> QED BY <1>2, <2>1 DEF Layered
<1> QED BY <1>1, <1>2 DEF Growing

\* Both sides begin at depth one.
LEMMA LayerInit == Path!Init => LayerInv
<1> SUFFICES ASSUME Path!Init PROVE LayerInv
  OBVIOUS
<1>1. /\ fwd = [n \in {source} |-> <<source>>] /\ bwd = [n \in {target} |-> <<target>>]
      /\ hop = 0 /\ walk = "grow"
  BY DEF Path!Init
<1>2. Len(<<source>>) = 1 /\ Len(<<target>>) = 1
  OBVIOUS
<1>3. DOMAIN fwd = {source} /\ DOMAIN bwd = {target}
  BY <1>1
<1>4. \A n \in DOMAIN fwd : Len(fwd[n]) = 1
  BY <1>1, <1>2
<1>5. \A n \in DOMAIN bwd : Len(bwd[n]) = 1
  BY <1>1, <1>2
<1>6. Layered(edges, fwd, 1) /\ Layered(edges, bwd, 1) /\ Within(fwd, 1) /\ Within(bwd, 1)
  <2>1. \A n \in DOMAIN fwd : ~(Len(fwd[n]) < 1) /\ Len(fwd[n]) =< 1
    <3>1. ~(1 < 1) /\ 1 =< 1
      OBVIOUS
    <3> QED BY <1>4, <3>1, Zenon
  <2>2. \A n \in DOMAIN bwd : ~(Len(bwd[n]) < 1) /\ Len(bwd[n]) =< 1
    <3>1. ~(1 < 1) /\ 1 =< 1
      OBVIOUS
    <3> QED BY <1>5, <3>1, Zenon
  <2> QED BY <2>1, <2>2 DEF Layered, Within
<1>7. Depths(1, 1)
  BY <1>1, <1>3 DEF Depths
<1>8. Explored(1, 1)
  BY <1>1, <1>6, <1>7 DEF Explored
<1> QED BY <1>1, <1>8 DEF LayerInv

\* The instance of GraphPath counts as this module does.
LEMMA SameCount == \A S : Path!Cardinality(S) = Cardinality(S)
  BY DEF Path!Cardinality, Cardinality

\* The side that a hop grows: the source's when neither has begun, and then the
\* target's, unless the source has no neighbours.
LEMMA SmallerSide ==
  ASSUME Paths(edges, fwd, source), Paths(edges, bwd, target)
  PROVE  /\ DOMAIN fwd = {source} => Path!Smaller = "fwd"
         /\ DOMAIN bwd = {target} /\ Path!Smaller = "fwd" => DOMAIN fwd = {source}
         /\ Path!Smaller \in {"fwd", "bwd"}
<1>1. /\ IsFiniteSet(DOMAIN fwd) /\ Cardinality(DOMAIN fwd) \in Nat
      /\ IsFiniteSet(DOMAIN bwd) /\ Cardinality(DOMAIN bwd) \in Nat
  <2>1. IsFiniteSet(Node) /\ DOMAIN fwd \in SUBSET Node /\ DOMAIN bwd \in SUBSET Node
    BY PathAssumption DEF PathAssumption, Paths
  <2> QED BY <2>1, FS_Subset, FS_CardinalityType
<1>2. source \in DOMAIN fwd /\ target \in DOMAIN bwd
  BY DEF Paths
<1>3. Cardinality(DOMAIN bwd) >= 1 /\ Cardinality(DOMAIN fwd) >= 1
  <2>1. Cardinality(DOMAIN bwd) # 0 /\ Cardinality(DOMAIN fwd) # 0
    BY <1>1, <1>2, FS_EmptySet
  <2> QED BY <1>1, <2>1
<1>4. DOMAIN fwd = {source} => Path!Smaller = "fwd"
  <2>1. DOMAIN fwd = {source} => Cardinality(DOMAIN fwd) = 1
    BY FS_Singleton
  <2> QED BY <1>1, <1>3, <2>1, SameCount DEF Path!Smaller
<1>5. DOMAIN bwd = {target} /\ Path!Smaller = "fwd" => DOMAIN fwd = {source}
  <2> SUFFICES ASSUME DOMAIN bwd = {target}, Path!Smaller = "fwd"
               PROVE DOMAIN fwd = {source}
    OBVIOUS
  <2>1. Cardinality(DOMAIN bwd) = 1
    BY FS_Singleton
  <2>2. Cardinality(DOMAIN fwd) =< Cardinality(DOMAIN bwd)
    BY SameCount DEF Path!Smaller
  <2>3. Cardinality(DOMAIN fwd) = 1
    BY <1>1, <1>3, <2>1, <2>2
  <2>4. PICK x : DOMAIN fwd = {x}
    BY <1>1, <2>3, FS_Singleton
  <2> QED BY <1>2, <2>4
<1> QED BY <1>4, <1>5 DEF Path!Smaller

\* A hop that begins takes the whole frontier, or says that it was cut.
LEMMA StartHopLayers ==
  ASSUME RealInv, LayerInv, Path!StartHop PROVE LayerInv'
<1>1. /\ walk = "grow" /\ walk' = "expand" /\ side' = Path!Smaller
      /\ UNCHANGED <<edges, fwd, bwd, hop, path>>
      /\ hop \in Nat /\ Paths(edges, fwd, source) /\ Paths(edges, bwd, target)
  BY DEF Path!StartHop, RealInv
<1>2. PICK S \in SUBSET Path!Frontier(Path!Side(Path!Smaller)) :
        /\ todo' = [n \in S |-> Path!Neighbors(n)]
        /\ capped' = (capped \/ S # Path!Frontier(Path!Side(Path!Smaller)))
  BY DEF Path!StartHop
<1> SUFFICES ASSUME ~capped' PROVE \E D, E \in Nat : Explored(D, E)'
  BY <1>1 DEF LayerInv
<1>3. ~capped /\ S = Path!Frontier(Path!Side(Path!Smaller))
  BY <1>2
<1>4. PICK D, E \in Nat : Explored(D, E)
  BY <1>1, <1>3 DEF LayerInv
<1>5. /\ Layered(edges, fwd, D) /\ Layered(edges, bwd, E) /\ Depths(D, E)
      /\ Within(fwd, D) /\ Within(bwd, E)
  BY <1>1, <1>4 DEF Explored
<1>6. todo' = [n \in Path!Frontier(Path!Side(Path!Smaller)) |-> Near(edges, n)]
  BY <1>2, <1>3, NearIsNeighbors
<1>7. Lengths(fwd) /\ Lengths(bwd)
  BY <1>1, LengthsAreNumbers DEF Lengths
<1>8. CASE Path!Smaller = "fwd"
  <2>1. todo' = [n \in Path!Frontier(fwd) |-> Near(edges, n)]
    BY <1>6, <1>8 DEF Path!Side
  <2>2. Growing(edges, todo', hop, fwd, D)
    BY <1>1, <1>5, <1>7, <2>1, HopStarts
  <2>3. Depths(D, E)'
    <3>1. DOMAIN bwd = {target} => DOMAIN fwd = {source}
      BY <1>1, <1>8, SmallerSide
    <3> QED BY <1>1, <1>5, <1>8, <3>1 DEF Depths
  <2>4. Explored(D, E)'
    BY <1>1, <1>5, <1>8, <2>2, <2>3 DEF Explored
  <2> QED BY <2>4
<1>9. CASE Path!Smaller = "bwd"
  <2>1. todo' = [n \in Path!Frontier(bwd) |-> Near(edges, n)]
    BY <1>6, <1>9 DEF Path!Side
  <2>2. Growing(edges, todo', hop, bwd, E)
    BY <1>1, <1>5, <1>7, <2>1, HopStarts
  <2>3. Depths(D, E)'
    <3>1. DOMAIN fwd # {source}
      BY <1>1, <1>9, SmallerSide
    <3> QED BY <1>1, <1>5, <1>9, <3>1 DEF Depths
  <2>4. Explored(D, E)'
    BY <1>1, <1>5, <1>9, <2>2, <2>3 DEF Explored
  <2> QED BY <2>4
<1> QED BY <1>1, <1>8, <1>9, SmallerSide

\* The depth grows at the end of a hop, unless the hop was behind it.
LEMMA EndHopLayers ==
  ASSUME RealInv, LayerInv, Path!EndHop PROVE LayerInv'
<1>1. /\ walk = "expand" /\ walk' = "grow" /\ hop' = hop + 1
      /\ \A n \in DOMAIN todo : todo[n] = {}
      /\ UNCHANGED <<edges, fwd, bwd, side, path, capped>>
      /\ hop \in Nat /\ Paths(edges, fwd, source) /\ Paths(edges, bwd, target)
      /\ side \in {"fwd", "bwd"}
  BY DEF Path!EndHop, RealInv
<1> SUFFICES ASSUME ~capped PROVE \E D, E \in Nat : Explored(D, E)'
  BY <1>1 DEF LayerInv
<1>2. PICK D, E \in Nat : Explored(D, E)
  BY <1>1 DEF LayerInv
<1>3. Layered(edges, fwd, D) /\ Layered(edges, bwd, E) /\ Depths(D, E)
  BY <1>2 DEF Explored
<1>4. Lengths(fwd) /\ Lengths(bwd)
  BY <1>1, LengthsAreNumbers DEF Lengths
<1>5. ASSUME NEW X \in Nat, NEW Y \in Nat,
             Layered(edges, fwd, X), Layered(edges, bwd, Y),
             Within(fwd, X), Within(bwd, Y), Depths(X, Y)'
      PROVE  \E x, y \in Nat : Explored(x, y)'
  <2>1. Explored(X, Y)'
    BY <1>1, <1>5 DEF Explored
  <2> QED BY <2>1
<1>6. CASE side = "fwd"
  <2>1. Growing(edges, todo, hop, fwd, D) /\ Within(bwd, E)
    BY <1>1, <1>2, <1>6 DEF Explored
  <2>2. \/ hop \div 2 + 1 < D /\ Within(fwd, D)
        \/ Layered(edges, fwd, D + 1) /\ Within(fwd, D + 1)
    BY <1>1, <1>3, <1>4, <2>1, HopEnds
  <2>3. CASE hop >= 1 /\ D = 2 /\ E = 1 /\ DOMAIN fwd = {source}
    <3>1. Within(fwd, 2)
      <4>1. fwd[source] = <<source>> /\ Len(<<source>>) = 1 /\ 1 =< 2
        BY <1>1 DEF Paths
      <4>2. \A n \in DOMAIN fwd : Len(fwd[n]) =< 2
        BY <2>3, <4>1
      <4> QED BY <4>2 DEF Within
    <3>2. Depths(D, E)'
      BY <1>1, <2>3 DEF Depths
    <3> QED BY <1>3, <1>5, <2>1, <2>3, <3>1, <3>2
  <2>4. CASE ~(hop >= 1 /\ D = 2 /\ E = 1 /\ DOMAIN fwd = {source})
    <3>1. \/ hop = 0 /\ D = 1 /\ E = 1 /\ DOMAIN bwd = {target}
          \/ hop = 2 /\ D = 2 /\ E = 2
          \/ hop >= 3 /\ D >= 2 /\ E >= 2 /\ D + E >= 5
      BY <1>1, <1>3, <1>6, <2>4 DEF Depths
    <3>2. CASE hop \div 2 + 1 < D /\ Within(fwd, D)
      <4>1. hop >= 3 /\ D >= 2 /\ E >= 2 /\ D + E >= 5
        BY <1>1, <3>1, <3>2
      <4>2. Depths(D, E)'
        BY <1>1, <4>1 DEF Depths
      <4> QED BY <1>3, <1>5, <2>1, <3>2, <4>2
    <3>3. CASE Layered(edges, fwd, D + 1) /\ Within(fwd, D + 1)
      <4>1. Depths(D + 1, E)'
        BY <1>1, <3>1 DEF Depths
      <4>2. D + 1 \in Nat
        OBVIOUS
      <4> QED BY <1>3, <1>5, <2>1, <3>3, <4>1, <4>2
    <3> QED BY <2>2, <3>2, <3>3
  <2> QED BY <2>3, <2>4
<1>7. CASE side = "bwd"
  <2>1. Growing(edges, todo, hop, bwd, E) /\ Within(fwd, D)
    BY <1>1, <1>2, <1>7 DEF Explored
  <2>2. \/ hop \div 2 + 1 < E /\ Within(bwd, E)
        \/ Layered(edges, bwd, E + 1) /\ Within(bwd, E + 1)
    BY <1>1, <1>3, <1>4, <2>1, HopEnds
  <2>3. \/ hop = 1 /\ D = 2 /\ E = 1
        \/ hop = 2 /\ D = 2 /\ E = 2
        \/ hop >= 3 /\ D >= 2 /\ E >= 2 /\ D + E >= 5
    BY <1>1, <1>3, <1>7 DEF Depths
  <2>4. CASE hop \div 2 + 1 < E /\ Within(bwd, E)
    <3>1. hop >= 3 /\ D >= 2 /\ E >= 2 /\ D + E >= 5
      BY <1>1, <2>3, <2>4
    <3>2. Depths(D, E)'
      BY <1>1, <3>1 DEF Depths
    <3> QED BY <1>3, <1>5, <2>1, <2>4, <3>2
  <2>5. CASE Layered(edges, bwd, E + 1) /\ Within(bwd, E + 1)
    <3>1. Depths(D, E + 1)'
      BY <1>1, <2>3 DEF Depths
    <3>2. E + 1 \in Nat
      OBVIOUS
    <3> QED BY <1>3, <1>5, <2>1, <2>5, <3>1, <3>2
  <2> QED BY <2>2, <2>4, <2>5
<1> QED BY <1>1, <1>6, <1>7

\* Giving up leaves the depths as they are.
LEMMA GiveUpLayers ==
  ASSUME LayerInv, Path!GiveUp PROVE LayerInv'
<1>1. /\ walk = "grow" /\ walk' = "none"
      /\ UNCHANGED <<edges, fwd, bwd, hop, side, todo, path, capped>>
  BY DEF Path!GiveUp
<1> SUFFICES ASSUME ~capped PROVE \E D, E \in Nat : Explored(D, E)'
  BY <1>1 DEF LayerInv
<1>2. PICK D, E \in Nat : Explored(D, E)
  BY <1>1 DEF LayerInv
<1>3. Explored(D, E)'
  BY <1>1, <1>2 DEF Explored, Depths
<1> QED BY <1>3

\* Depths at which the sides may be are too far apart for a walk between them.
LEMMA TooFarApart ==
  ASSUME RealInv, walk # "found", NEW D \in Nat, NEW E \in Nat,
         Layered(edges, fwd, D), Layered(edges, bwd, E), Depths(D, E),
         NEW k \in Nat, k >= 1, k =< D + E - 2
  PROVE  ~Path!Findable(k)
<1>1. /\ edges \in LinkGraphs /\ Disjoint
      /\ Paths(edges, fwd, source) /\ Paths(edges, bwd, target)
  BY DEF RealInv
<1>2. (D = 1 /\ E = 1) \/ (D >= 2 /\ (E >= 2 \/ (D = 2 /\ E = 1)))
  BY DEF Depths
<1> QED BY <1>1, <1>2, NoShorterWalk

\* Sides that meet do so at a link beyond their depths, so no walk is shorter.
LEMMA ExpandLayers ==
  ASSUME NEW n, NEW d, RealInv, LayerInv, Path!Expand(n, d) PROVE LayerInv'
<1>1. /\ walk = "expand" /\ n \in DOMAIN todo /\ d \in todo[n]
      /\ todo' = [todo EXCEPT ![n] = @ \ {d}]
      /\ UNCHANGED <<edges, hop, side, capped>>
      /\ edges \in LinkGraphs /\ hop \in Nat /\ side \in {"fwd", "bwd"}
      /\ Paths(edges, fwd, source) /\ Paths(edges, bwd, target)
      /\ Disjoint /\ TodoInv
  BY ExpandCases DEF RealInv
<1> SUFFICES ASSUME ~capped PROVE LayerInv'
  BY <1>1 DEF LayerInv
<1>2. PICK D, E \in Nat : Explored(D, E)
  BY <1>1 DEF LayerInv
<1>3. /\ Layered(edges, fwd, D) /\ Layered(edges, bwd, E) /\ Depths(D, E)
      /\ side = "fwd" => Growing(edges, todo, hop, fwd, D) /\ Within(bwd, E)
      /\ side = "bwd" => Growing(edges, todo, hop, bwd, E) /\ Within(fwd, D)
  BY <1>1, <1>2 DEF Explored
<1>4. Lengths(fwd) /\ Lengths(bwd)
  BY <1>1, LengthsAreNumbers DEF Lengths
<1>5. d \in Node /\ Edge(edges, n, d)
  BY <1>1 DEF TodoInv, Path!Neighbors, Edge
<1>6. Explored(D, E)' /\ walk' = "expand" => LayerInv'
  <2> SUFFICES ASSUME Explored(D, E)', walk' = "expand" PROVE LayerInv'
    OBVIOUS
  <2>1. \E x, y \in Nat : Explored(x, y)'
    BY <1>2
  <2> QED BY <2>1 DEF LayerInv
<1>7. ASSUME walk' = "found",
             Len(path') \in Nat, Len(path') =< D + E
      PROVE  LayerInv'
  <2>1. \A k \in 1..(Len(path') - 2) : ~Path!Findable(k)
    <3> SUFFICES ASSUME NEW k \in 1..(Len(path') - 2) PROVE ~Path!Findable(k)
      OBVIOUS
    <3>1. k \in Nat /\ k >= 1 /\ k =< D + E - 2
      BY <1>7
    <3> QED BY <1>1, <1>3, <3>1, TooFarApart
  <2>2. \A k : Path!Findable(k)' = Path!Findable(k)
    BY <1>1 DEF Path!Findable, Path!Linked, Path!Walk
  <2> QED BY <1>7, <2>1, <2>2 DEF LayerInv
<1>8. CASE /\ d \in DOMAIN Path!Grow /\ walk' = "expand"
           /\ fwd' = fwd /\ bwd' = bwd
  <2>1. Depths(D, E)'
    BY <1>1, <1>3, <1>8 DEF Depths
  <2>2. CASE side = "fwd"
    <3>1. d \in DOMAIN fwd
      BY <1>8, <2>2 DEF Path!Grow, Path!Side
    <3>2. Growing(edges, todo', hop, fwd, D)
      BY <1>1, <1>3, <1>4, <2>2, <3>1, KnownNeighbour
    <3>3. Explored(D, E)'
      BY <1>1, <1>3, <1>8, <2>1, <2>2, <3>2 DEF Explored
    <3> QED BY <1>6, <1>8, <3>3
  <2>3. CASE side = "bwd"
    <3>1. d \in DOMAIN bwd
      BY <1>8, <2>3 DEF Path!Grow, Path!Side
    <3>2. Growing(edges, todo', hop, bwd, E)
      BY <1>1, <1>3, <1>4, <2>3, <3>1, KnownNeighbour
    <3>3. Explored(D, E)'
      BY <1>1, <1>3, <1>8, <2>1, <2>3, <3>2 DEF Explored
    <3> QED BY <1>6, <1>8, <3>3
  <2> QED BY <1>1, <2>2, <2>3
<1>9. CASE /\ side = "fwd" /\ d \notin DOMAIN fwd
           /\ fwd' = GrownBy(fwd, n, d) /\ bwd' = bwd
           /\ \/ d \notin DOMAIN bwd /\ walk' = "expand"
              \/ /\ d \in DOMAIN bwd /\ walk' = "found"
                 /\ path' = Path!Joined(Append(fwd[n], d), bwd[d])
  <2>0. Growing(edges, todo, hop, fwd, D) /\ Within(bwd, E)
    BY <1>3, <1>9
  <2>1. n \in DOMAIN fwd /\ Len(fwd[n]) = D
    <3>1. n \in DOMAIN todo /\ d \in todo[n] /\ d \notin DOMAIN fwd
      BY <1>1, <1>9
    <3>2. Lengths(fwd) /\ Layered(edges, fwd, D) /\ Growing(edges, todo, hop, fwd, D)
      BY <1>3, <1>4, <2>0
    <3> QED BY <3>1, <3>2, NewNeighbour
  <2>2. IsNews(edges, source, fwd, n, d)
    BY <1>1, <1>5, <1>9, <2>1 DEF IsNews
  <2>3. CASE d \notin DOMAIN bwd /\ walk' = "expand"
    <3>1. Tells(edges, source, fwd, n, d, fwd')
      <4>1. Tells(edges, source, fwd, n, d, GrownBy(fwd, n, d))
        BY <2>2, GrownPaths
      <4> QED BY <1>9, <4>1
    <3>2. Growing(edges, todo', hop, fwd', D) /\ Layered(edges, fwd', D)
      BY <1>1, <1>3, <1>4, <1>9, <2>0, <3>1, NewNeighbourGrows
    <3>3. ~(hop >= 1 /\ D = 2 /\ E = 1 /\ DOMAIN fwd = {source})
      <4>1. fwd[source] = <<source>> /\ Len(<<source>>) = 1
        BY <1>1 DEF Paths
      <4>2. DOMAIN fwd = {source} => fwd[n] = <<source>>
        BY <2>1, <4>1
      <4>3. DOMAIN fwd = {source} => D = 1
        BY <2>1, <4>1, <4>2
      <4> QED BY <4>3
    <3>4. Depths(D, E)'
      BY <1>1, <1>3, <1>9, <2>3, <3>3 DEF Depths
    <3>5. Explored(D, E)'
      BY <1>1, <1>3, <1>9, <2>0, <2>3, <3>2, <3>4 DEF Explored
    <3> QED BY <1>6, <2>3, <3>5
  <2>4. CASE /\ d \in DOMAIN bwd /\ walk' = "found"
             /\ path' = Path!Joined(Append(fwd[n], d), bwd[d])
    <3>1. Len(Path!Joined(Append(fwd[n], d), bwd[d])) = Len(fwd[n]) + Len(bwd[d])
      BY <1>1, <2>2, <2>4, MeetingIsPath DEF Disjoint
    <3>2. Len(path') = D + Len(bwd[d])
      BY <2>1, <2>4, <3>1
    <3>3. Len(bwd[d]) \in Nat /\ Len(bwd[d]) =< E
      BY <1>4, <2>0, <2>4 DEF Lengths, Within
    <3> QED BY <1>7, <2>4, <3>2, <3>3
  <2> QED BY <1>9, <2>3, <2>4
<1>10. CASE /\ side = "bwd" /\ d \notin DOMAIN bwd
            /\ bwd' = GrownBy(bwd, n, d) /\ fwd' = fwd
            /\ \/ d \notin DOMAIN fwd /\ walk' = "expand"
               \/ /\ d \in DOMAIN fwd /\ walk' = "found"
                  /\ path' = Path!Joined(fwd[d], Append(bwd[n], d))
  <2>0. Growing(edges, todo, hop, bwd, E) /\ Within(fwd, D)
    BY <1>3, <1>10
  <2>1. n \in DOMAIN bwd /\ Len(bwd[n]) = E
    <3>1. n \in DOMAIN todo /\ d \in todo[n] /\ d \notin DOMAIN bwd
      BY <1>1, <1>10
    <3>2. Lengths(bwd) /\ Layered(edges, bwd, E) /\ Growing(edges, todo, hop, bwd, E)
      BY <1>3, <1>4, <2>0
    <3> QED BY <3>1, <3>2, NewNeighbour
  <2>2. IsNews(edges, target, bwd, n, d)
    BY <1>1, <1>5, <1>10, <2>1 DEF IsNews
  <2>3. CASE d \notin DOMAIN fwd /\ walk' = "expand"
    <3>1. Tells(edges, target, bwd, n, d, bwd')
      <4>1. Tells(edges, target, bwd, n, d, GrownBy(bwd, n, d))
        BY <2>2, GrownPaths
      <4> QED BY <1>10, <4>1
    <3>2. Growing(edges, todo', hop, bwd', E) /\ Layered(edges, bwd', E)
      BY <1>1, <1>3, <1>4, <1>10, <2>0, <3>1, NewNeighbourGrows
    <3>3. Depths(D, E)'
      BY <1>1, <1>3, <1>10, <2>3 DEF Depths
    <3>4. Explored(D, E)'
      BY <1>1, <1>3, <1>10, <2>0, <2>3, <3>2, <3>3 DEF Explored
    <3> QED BY <1>6, <2>3, <3>4
  <2>4. CASE /\ d \in DOMAIN fwd /\ walk' = "found"
             /\ path' = Path!Joined(fwd[d], Append(bwd[n], d))
    <3>1. Len(Path!Joined(fwd[d], Append(bwd[n], d))) = Len(bwd[n]) + Len(fwd[d])
      BY <1>1, <2>2, <2>4, MeetingIsPath DEF Disjoint
    <3>2. Len(path') = E + Len(fwd[d])
      BY <2>1, <2>4, <3>1
    <3>3. Len(fwd[d]) \in Nat /\ Len(fwd[d]) =< D
      BY <1>4, <2>0, <2>4 DEF Lengths, Within
    <3> QED BY <1>7, <2>4, <3>2, <3>3
  <2> QED BY <1>10, <2>3, <2>4
<1> QED BY <1>1, <1>8, <1>9, <1>10, ExpandCases

\* Every step of the search for a path.
LEMMA PathStep ==
  ASSUME RealInv, LayerInv, [Path!Next]_pathVars PROVE RealInv' /\ LayerInv'
<1>1. CASE Path!StartHop
  BY <1>1, StartHopReal, StartHopLayers
<1>2. CASE Path!EndHop
  BY <1>2, EndHopReal, EndHopLayers
<1>3. CASE Path!GiveUp
  BY <1>3, GiveUpReal, GiveUpLayers
<1>4. CASE \E n, d \in Node : Path!Expand(n, d)
  BY <1>4, ExpandReal, ExpandLayers
<1>5. CASE UNCHANGED pathVars
  <2>1. UNCHANGED <<edges, fwd, bwd, hop, side, todo, path, capped, walk>>
    BY <1>5 DEF pathVars
  <2>2. RealInv'
    BY <2>1 DEF RealInv, Short, Disjoint, TodoInv, Path!Grow, Path!Other, Path!Side,
                Path!Neighbors, Path!PathIsReal
  <2>3. LayerInv'
    <3>1. \A k : Path!Findable(k)' = Path!Findable(k)
      BY <2>1 DEF Path!Findable, Path!Linked, Path!Walk
    <3>2. \A D, E \in Nat : Explored(D, E)' <=> Explored(D, E)
      BY <2>1 DEF Explored, Depths
    <3> QED BY <2>1, <3>1, <3>2 DEF LayerInv
  <2> QED BY <2>2, <2>3
<1> QED BY <1>1, <1>2, <1>3, <1>4, <1>5 DEF Path!Next

\* What holds of a path search in every state.
LEMMA PathInvariant == ApiSpec => []PathInv
<1>1. ApiInit => PathInv
  BY RealInit, LayerInit DEF ApiInit, NoPath, PathInv
<1>2. PathInv /\ [ApiNext]_<<vars, pathVars>> => PathInv'
  <2> SUFFICES ASSUME PathInv, [ApiNext]_<<vars, pathVars>> PROVE PathInv'
    OBVIOUS
  <2>1. CASE walk = "idle" /\ UNCHANGED pathVars
    BY <2>1 DEF PathInv, pathVars
  <2>2. CASE walk # "idle" /\ [Path!Next]_pathVars
    BY <2>2, PathStep DEF PathInv
  <2> QED BY <2>1, <2>2 DEF ApiNext
<1> QED BY <1>1, <1>2, PTL DEF ApiSpec

\* For every graph and all ends, every order in which the database answers and every
\* limit on hops: a path returned is a real one with the fewest hops.
THEOREM FewestHops == ApiSpec => []PathIsShortest
<1>1. PathInv => PathIsShortest
  BY DEF PathInv, RealInv, LayerInv, PathIsShortest, Path!PathIsShortest
<1> QED BY <1>1, PathInvariant, PTL

\* A source without neighbours is all that its side ever knows.
LEMMA StuckSource ==
  ASSUME edges \in LinkGraphs, Paths(edges, fwd, source), Layered(edges, fwd, 2),
         DOMAIN fwd = {source}, NEW k \in Nat, k >= 2
  PROVE  ~Path!Linked(k)
<1> SUFFICES ASSUME Path!Linked(k) PROVE FALSE
  OBVIOUS
<1>1. PICK w : /\ w[0] = source
               /\ \A i \in 1..k : Edge(edges, w[i - 1], w[i])
               /\ \A i \in 1..(k - 1) : w[i] \in Node \ Hidden
  BY LinkedIsWalk
<1>2. \A i \in 1..1 : w[i] \in Node \ Hidden /\ Edge(edges, w[i - 1], w[i])
  BY <1>1
<1>3. w[1] = source
  BY <1>1, <1>2, WalkIsKnown
<1>4. Edge(edges, source, source)
  BY <1>1, <1>2, <1>3
<1>5. \A e \in edges : \E x, y \in Node : x # y /\ e = {x, y}
  BY PathAssumption DEF PathAssumption
<1>6. PICK x, y \in Node : x # y /\ {source, source} = {x, y}
  BY <1>4, <1>5 DEF Edge
<1> QED BY <1>6

\* The search that gives up has looked three links far, if it was allowed three hops.
THEOREM ThreeHopsReach == ApiSpec => []NearIsFound
<1>1. PathInv => NearIsFound
  <2> SUFFICES ASSUME PathInv, walk = "none", ~capped, NEW k \in 1..3, k =< MaxHops
               PROVE  ~Path!Findable(k)
    BY DEF NearIsFound, Path!NearIsFound
  <2>1. /\ RealInv /\ hop \in Nat /\ hop = MaxHops /\ edges \in LinkGraphs
        /\ Paths(edges, fwd, source)
    BY DEF PathInv, RealInv
  <2>2. PICK D, E \in Nat : Explored(D, E)
    BY DEF PathInv, LayerInv
  <2>3. Layered(edges, fwd, D) /\ Layered(edges, bwd, E) /\ Depths(D, E)
    BY <2>2 DEF Explored
  <2>4. k \in Nat /\ k >= 1
    OBVIOUS
  <2>5. CASE k =< D + E - 2
    BY <2>1, <2>3, <2>4, <2>5, TooFarApart
  <2>6. CASE D = 2 /\ E = 1 /\ DOMAIN fwd = {source} /\ k >= 2
    BY <2>1, <2>3, <2>4, <2>6, StuckSource DEF Path!Findable
  <2>7. k =< D + E - 2 \/ (D = 2 /\ E = 1 /\ DOMAIN fwd = {source} /\ k >= 2)
    BY <2>1, <2>3, <2>4 DEF Depths
  <2> QED BY <2>5, <2>6, <2>7
<1> QED BY <1>1, PathInvariant, PTL
===============================================================================
