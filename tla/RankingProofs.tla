----------------------------- MODULE RankingProofs -----------------------------
(***************************************************************************)
(* Proofs about Ranking.tla, for every link graph, every set of tiers and  *)
(* every interleaving of the two scripts, the frontier and the crawler:    *)
(* reported pages stay first, the highest tier wins, the rows of the link  *)
(* graph are the documents' links although three queries read them, and    *)
(* central pages come before others.                                       *)
(***************************************************************************)
EXTENDS Ranking, TLAPS, FiniteSetTheorems, SequenceTheorems

\* Priorities are numbers, documents have titles, tiers to come are tiers.
RowInv == priority \in [Title -> Nat] /\ docs \subseteq Title /\ todo \subseteq Tiers

-------------------------------------------------------------------------------
(* What RankRows computes.                                                 *)

\* A sequence in SetToSeqs(S) runs through all of S.
LEMMA SeqsCover ==
  ASSUME NEW S, IsFiniteSet(S), NEW o \in SetToSeqs(S), NEW x \in S
  PROVE  \E i \in DOMAIN o : o[i] = x
<1> DEFINE D == 1..Cardinality(S)
<1>1. Cardinality(S) \in Nat
  BY FS_CardinalityType
<1>2. o \in [D -> S] /\ \A i, j \in D : i # j => o[i] # o[j]
  BY DEF SetToSeqs
<1>3. o \in Injection(D, S)
  BY <1>2 DEF Injection, IsInjective
<1>4. Cardinality(D) = Cardinality(S)
  BY <1>1, FS_Interval
<1>5. o \in Surjection(D, S)
  BY <1>3, <1>4, FS_Injection
<1> QED
  BY <1>2, <1>5 DEF Surjection

\* ntile is defined for every place in a sequence.
LEMMA QuarterIsNumber ==
  ASSUME NEW n \in Nat, NEW k \in 1..n
  PROVE  Quarter(k, n) \in Nat
<1> DEFINE q == n \div 4
           r == n % 4
           large == r * (q + 1)
<1>1. q \in Nat /\ r \in 0..3 /\ n = 4 * q + r
  BY SMT
<1>2. large \in Nat /\ large = r * q + r
  <2>1. r = 0 \/ r = 1 \/ r = 2 \/ r = 3
    BY <1>1
  <2> QED
    BY <1>1, <2>1
<1>3. CASE k =< large
  <2>1. k - 1 \in Nat /\ q + 1 \in Nat /\ q + 1 > 0
    BY <1>1
  <2>2. (k - 1) \div (q + 1) \in Nat
    BY <2>1
  <2> QED
    BY <1>3, <2>2 DEF Quarter
<1>4. CASE k > large
  <2>1. q # 0
    BY <1>1, <1>2, <1>4
  <2>2. k - large - 1 \in Nat /\ q > 0
    BY <1>1, <1>2, <1>4, <2>1
  <2>3. (k - large - 1) \div q \in Nat
    BY <1>1, <2>2
  <2> QED
    BY <1>1, <1>2, <1>4, <2>3 DEF Quarter
<1> QED
  BY <1>2, <1>3, <1>4

-------------------------------------------------------------------------------
(* Steps.                                                                  *)

\* Building the graph and the parser's writes touch no priority.
LEMMA BuildKeepsDocs == Build => docs' = docs
BY DEF Build, ListDocs, ReadRedirects, Resolve, ResolveAlias, OpenScan, SkipRow, ScanRow,
       CloseRows, database, graph

\* What RankRows writes: a row keeps its priority, unless it lies behind the
\* reported ones and its document is ranked.
LEMMA RankRowsWrites ==
  ASSUME RowInv, RankRows
  PROVE  /\ priority' \in [Title -> Nat]
         /\ \A t \in Title : priority[t] =< Edited => priority'[t] = priority[t]
         /\ \A t \in Title \ Ranked : priority'[t] = priority[t]
<1> USE DEF RowInv
<1>1. PICK order \in SetToSeqs(Ranked) :
        priority' = [t \in Title |->
          IF HasRow(t) /\ t \in Ranked /\ priority[t] > Edited
            THEN 20 * Quarter(CHOOSE i \in DOMAIN order : order[i] = t, Len(order))
            ELSE priority[t]]
  BY DEF RankRows
<1>2. IsFiniteSet(Ranked)
  BY TitleAssumption, FS_Subset DEF Ranked
<1>3. Cardinality(Ranked) \in Nat /\ DOMAIN order = 1..Cardinality(Ranked)
      /\ order \in Seq(Ranked)
  BY <1>2, FS_CardinalityType DEF SetToSeqs
<1>4. Len(order) \in Nat /\ DOMAIN order = 1..Len(order)
  BY <1>3
<1>5. ASSUME NEW t \in Ranked
      PROVE  Quarter(CHOOSE i \in DOMAIN order : order[i] = t, Len(order)) \in Nat
  <2>1. \E i \in DOMAIN order : order[i] = t
    BY <1>1, <1>2, SeqsCover
  <2>2. (CHOOSE i \in DOMAIN order : order[i] = t) \in 1..Len(order)
    BY <2>1, <1>4
  <2> QED
    BY <2>2, <1>4, QuarterIsNumber
<1>6. Edited \in Nat
  BY TierAssumption
<1>7. \A t \in Title : priority'[t] \in Nat
  <2> SUFFICES ASSUME NEW t \in Title PROVE priority'[t] \in Nat
    OBVIOUS
  <2> DEFINE q == Quarter(CHOOSE i \in DOMAIN order : order[i] = t, Len(order))
  <2>1. priority'[t] = IF HasRow(t) /\ t \in Ranked /\ priority[t] > Edited
                         THEN 20 * q ELSE priority[t]
    BY <1>1
  <2>2. t \in Ranked => q \in Nat
    BY <1>5
  <2> HIDE DEF q
  <2> QED BY <2>1, <2>2
<1>8. ASSUME NEW t \in Title, priority[t] =< Edited
      PROVE  priority'[t] = priority[t]
  <2>1. ~(priority[t] > Edited)
    BY <1>6, <1>8
  <2> QED BY <1>1, <2>1
<1>9. priority' \in [Title -> Nat]
  <2>1. priority' = [t \in Title |-> priority'[t]]
    BY <1>1
  <2> DEFINE f == priority'
  <2>2. f = [t \in Title |-> f[t]] /\ \A t \in Title : f[t] \in Nat
    BY <1>7, <2>1
  <2> HIDE DEF f
  <2>3. f \in [Title -> Nat]
    BY <2>2
  <2> QED BY <2>3 DEF f
<1>10. ASSUME NEW t \in Title \ Ranked
       PROVE  priority'[t] = priority[t]
  BY <1>1
<1> QED
  BY <1>8, <1>9, <1>10

LEMMA RowInit == RankInit => RowInv
BY TierAssumption DEF RankInit, Init, RowInv

\* The steps of the two scripts and the services that write priorities, in one:
\* a row that was reported keeps its priority or gains.
LEMMA RowStep ==
  ASSUME RowInv, [RankNext]_rankVars
  PROVE  /\ RowInv'
         /\ \A t \in Title : HasRow(t) /\ priority[t] =< Edited =>
                               0 < priority'[t] /\ priority'[t] =< priority[t]
<1> USE DEF RowInv, HasRow
<1>1. Edited \in Nat \ {0} /\ Floor \in Nat /\ Found \in Nat /\ Edited < Floor
  BY TierAssumption
<1>2. \A a \in Tiers : a[2] \in Nat
  BY TierAssumption
<1>3. CASE UNCHANGED <<priority, todo>> /\ docs' \subseteq Title
  BY <1>3
<1>4. ASSUME Build \/ Grow PROVE docs' \subseteq Title
  BY <1>4, BuildKeepsDocs DEF Grow, AddDoc, Rewrite, AddRedirect
<1>5. ASSUME NEW t \in Title, RemoveDoc(t) PROVE docs' \subseteq Title
  BY <1>5 DEF RemoveDoc
<1>6. ASSUME NEW t \in Title, Report(t) \/ Discover(t)
      PROVE  /\ RowInv'
             /\ \A u \in Title : HasRow(u) /\ priority[u] =< Edited =>
                                   0 < priority'[u] /\ priority'[u] =< priority[u]
  BY <1>1, <1>6 DEF Report, Discover, frontier
<1>7. CASE WriteScores \/ ClearChrome
  BY <1>3, <1>7 DEF WriteScores, ClearChrome, vars, frontier
<1>8. CASE CountLinks
  BY <1>8 DEF CountLinks, vars, ranks
<1>9. CASE RankRows
  <2>1. docs' = docs /\ todo' = todo
    BY <1>9 DEF RankRows, vars
  <2> QED
    BY <1>1, <1>9, <2>1, RankRowsWrites
<1>10. CASE ApplyTier
  <2>1. docs' = docs
    BY <1>10 DEF ApplyTier, vars
  <2>2. PICK a \in NextTier :
          /\ priority' = [t \in Title |->
                            IF Movable(t) /\ indeg[t] >= a[1] THEN a[2] ELSE priority[t]]
          /\ todo' = todo \ {a}
    BY <1>10 DEF ApplyTier
  <2>3. a[2] \in Nat
    BY <1>2, <2>2 DEF NextTier
  <2> QED
    BY <1>1, <2>1, <2>2, <2>3 DEF Movable
<1>11. CASE ApplyFloor
  BY <1>1, <1>11 DEF ApplyFloor, Movable, vars
<1>12. CASE UNCHANGED rankVars
  BY <1>3, <1>12 DEF rankVars, vars, ranks, frontier
<1> QED
  BY <1>3, <1>4, <1>5, <1>6, <1>7, <1>8, <1>9, <1>10, <1>11, <1>12
  DEF RankNext, Services, Scripts, ranks, frontier

LEMMA RowInvariant == RankSpec => []RowInv
BY RowInit, RowStep, PTL DEF RankSpec

\* Reported rows keep their place: none of the statements of either script puts
\* back a row at or before Edited, whatever was read before and by whom.
THEOREM ReportedStayFirst == RankSpec => EditsStayFirst
BY RowInvariant, RowStep, PTL DEF RankSpec, EditsStayFirst

-------------------------------------------------------------------------------
(* The tiers.                                                              *)

Applied == Tiers \ todo

\* The priority the tiers applied so far, and then the floor, have left a row
\* with: the last tier its links reach is the highest of them, because tiers are
\* applied in ascending order.
TierInv ==
  /\ tier = "count" => kept = {}
  /\ tier # "count" => \A a \in Applied, b \in todo : a[1] < b[1]
  /\ tier \in {"floor", "end"} => todo = {}
  /\ indeg \in [Title -> Nat] /\ kept \subseteq Title
  /\ \A t \in kept : priority[t] > Edited
  /\ \A t \in kept, a \in Applied :
       tier # "count" /\ a[1] =< indeg[t]
         /\ (\A b \in Applied : b[1] =< indeg[t] => b[1] =< a[1])
       => priority[t] = a[2]
  /\ \A t \in kept : tier = "end" /\ indeg[t] = 0 => priority[t] = Floor

LEMMA TierInit == RankInit => TierInv
BY DEF RankInit, TierInv

\* A row of kept is touched by the tiers and the floor alone.
LEMMA OthersKeepTiers ==
  ASSUME RowInv, TierInv, UNCHANGED <<indeg, todo, tier>>, kept' \subseteq kept,
         \A t \in kept' : priority'[t] = priority[t]
  PROVE  TierInv'
BY DEF TierInv, Applied

LEMMA TierStep == RowInv /\ TierInv /\ [RankNext]_rankVars => TierInv'
<1> SUFFICES ASSUME RowInv, TierInv, [RankNext]_rankVars PROVE TierInv'
  OBVIOUS
<1> USE DEF RowInv
<1>1. Edited \in Nat \ {0} /\ Floor \in Nat /\ Edited < Floor
  BY TierAssumption
<1>2. \A a \in Tiers : a[1] \in Nat \ {0} /\ a[2] \in Nat /\ Edited < a[2]
  BY TierAssumption
<1>3. \A a, b \in Tiers : a # b => a[1] # b[1]
  BY TierAssumption
<1>4. CASE UNCHANGED <<priority, indeg, todo, tier, kept>>
  BY <1>4, OthersKeepTiers
<1>5. ASSUME NEW t \in Title, Report(t) PROVE TierInv'
  <2>1. /\ UNCHANGED <<indeg, todo, tier>> /\ kept' = kept \ {t}
        /\ \A u \in Title \ {t} : priority'[u] = priority[u]
    BY <1>5 DEF Report
  <2> QED
    BY <2>1, OthersKeepTiers DEF TierInv
<1>6. ASSUME NEW t \in Title, Discover(t) PROVE TierInv'
  <2>1. /\ UNCHANGED <<indeg, todo, tier, kept>> /\ priority[t] = 0
        /\ \A u \in Title \ {t} : priority'[u] = priority[u]
    BY <1>6 DEF Discover, HasRow, frontier
  <2>2. t \notin kept
    BY <1>1, <2>1 DEF TierInv
  <2> QED
    BY <2>1, <2>2, OthersKeepTiers DEF TierInv
<1>7. CASE RankRows
  <2>1. UNCHANGED <<indeg, todo, tier>> /\ kept' = kept \ Ranked
    BY <1>7 DEF RankRows
  <2> QED
    BY <1>7, <2>1, RankRowsWrites, OthersKeepTiers DEF TierInv
<1>8. CASE CountLinks
  <2>1. /\ tier' = "tiers" /\ todo' = Tiers
        /\ kept' = {t \in Title : priority[t] > Edited} /\ priority' = priority
    BY <1>8 DEF CountLinks, ranks
  <2>2. indeg' \in [Title -> Nat]
    <3>1. ASSUME NEW t \in Title PROVE Cardinality({d \in docs : t \in outlinks[d]}) \in Nat
      BY TitleAssumption, FS_Subset, FS_CardinalityType
    <3> QED
      BY <1>8, <3>1 DEF CountLinks
  <2> QED
    BY <2>1, <2>2 DEF TierInv, Applied
<1>9. CASE ApplyTier
  <2>1. PICK a \in NextTier :
          /\ priority' = [t \in Title |->
                            IF Movable(t) /\ indeg[t] >= a[1] THEN a[2] ELSE priority[t]]
          /\ todo' = todo \ {a}
    BY <1>9 DEF ApplyTier
  <2>2. /\ tier = "tiers" /\ tier' = IF todo' = {} THEN "floor" ELSE "tiers"
        /\ UNCHANGED <<indeg, kept>>
    BY <1>9 DEF ApplyTier
  <2>3. a \in todo /\ a \in Tiers /\ \A b \in todo : a[1] =< b[1]
    BY <2>1 DEF NextTier
  <2>4. Applied' = Applied \cup {a}
    BY <2>1, <2>3 DEF Applied
  <2>5. \A b \in Applied : b[1] < a[1]
    BY <2>2, <2>3 DEF TierInv
  <2>6. \A b \in todo' : a[1] < b[1]
    BY <1>2, <1>3, <2>1, <2>3
  <2>7. \A b \in Applied', c \in todo' : b[1] < c[1]
    BY <1>2, <2>1, <2>2, <2>4, <2>6 DEF TierInv
  <2>8. ASSUME NEW t \in kept PROVE priority'[t] > Edited
    BY <1>2, <2>1, <2>3, <2>8 DEF TierInv
  <2>9. ASSUME NEW t \in kept, NEW b \in Applied', b[1] =< indeg[t],
               \A c \in Applied' : c[1] =< indeg[t] => c[1] =< b[1]
        PROVE  priority'[t] = b[2]
    <3>1. t \in Title /\ indeg[t] \in Nat /\ Movable(t)
      BY <1>1, <2>9 DEF TierInv, Movable, HasRow
    <3>2. CASE b = a
      BY <1>2, <2>1, <2>9, <3>1, <3>2
    <3>3. CASE b # a
      <4>1. b \in Applied /\ ~(a[1] =< indeg[t])
        BY <1>2, <2>4, <2>5, <2>3, <2>9, <3>3 DEF Applied
      <4>2. priority'[t] = priority[t]
        BY <1>2, <2>1, <2>3, <3>1, <4>1
      <4> QED
        BY <2>2, <2>4, <2>9, <4>1, <4>2 DEF TierInv
    <3> QED
      BY <3>2, <3>3
  <2> QED
    BY <2>2, <2>7, <2>8, <2>9 DEF TierInv
<1>10. CASE ApplyFloor
  <2>1. /\ tier = "floor" /\ tier' = "end" /\ UNCHANGED <<indeg, todo, kept>>
        /\ priority' = [t \in Title |->
                          IF Movable(t) /\ indeg[t] = 0 THEN Floor ELSE priority[t]]
    BY <1>10 DEF ApplyFloor
  <2>2. \A t \in kept : t \in Title /\ Movable(t) /\ indeg[t] \in Nat
    BY <1>1 DEF TierInv, Movable, HasRow
  <2>3. \A t \in kept, a \in Applied : a[1] =< indeg[t] => indeg[t] # 0
    BY <1>2, <2>2 DEF Applied
  <2> QED
    BY <1>1, <2>1, <2>2, <2>3 DEF TierInv, Applied
<1>11. CASE UNCHANGED rankVars
  BY <1>4, <1>11 DEF rankVars, ranks, frontier
<1> QED
  BY <1>4, <1>5, <1>6, <1>7, <1>8, <1>9, <1>10, <1>11
  DEF RankNext, Services, Scripts, WriteScores, ClearChrome, ranks, frontier

LEMMA TierInvariant == RankSpec => []TierInv
BY RowInvariant, TierInit, TierStep, PTL DEF RankSpec

\* "Thresholds are applied from the lowest", so that the highest tier wins: for
\* every set of tiers with different thresholds, every link graph, and whatever
\* others write between the statements.
THEOREM TiersDecide == RankSpec => []HighestTierWins
<1>1. RowInv /\ TierInv => HighestTierWins
  <2> SUFFICES ASSUME RowInv, TierInv, tier = "end", NEW t \in kept
      PROVE IF indeg[t] = 0 THEN priority[t] = Floor
            ELSE \A a \in Tiers : /\ a[1] =< indeg[t]
                                  /\ \A b \in Tiers : b[1] =< indeg[t] => b[1] =< a[1]
                                  => priority[t] = a[2]
    BY DEF HighestTierWins
  <2>1. Applied = Tiers
    BY DEF TierInv, Applied
  <2> QED
    BY <2>1 DEF TierInv
<1> QED
  BY <1>1, RowInvariant, TierInvariant, PTL

-------------------------------------------------------------------------------
(* ORDER BY doc_id: a finite set of numbers has an ascending sequence.  The  *)
(* place of x in it is the number of elements up to x.                       *)

LEMMA SmallerSubset ==
  ASSUME NEW T, IsFiniteSet(T), NEW S \in SUBSET T
  PROVE  /\ IsFiniteSet(S) /\ Cardinality(S) \in Nat /\ Cardinality(T) \in Nat
         /\ Cardinality(S) =< Cardinality(T)
         /\ S # T => Cardinality(S) < Cardinality(T)
<1>1. IsFiniteSet(S) /\ Cardinality(S) =< Cardinality(T)
      /\ (Cardinality(S) = Cardinality(T) => S = T)
  BY FS_Subset
<1>2. Cardinality(S) \in Nat /\ Cardinality(T) \in Nat
  BY <1>1, FS_CardinalityType
<1> QED BY <1>1, <1>2

LEMMA AscendingExists ==
  ASSUME NEW S \in SUBSET Nat, IsFiniteSet(S)
  PROVE  \E s \in SetToSeqs(S) : \A i, j \in DOMAIN s : i < j => s[i] < s[j]
<1> DEFINE n        == Cardinality(S)
           UpTo(x)  == {y \in S : y =< x}
           place    == [x \in S |-> Cardinality(UpTo(x))]
           s        == [i \in 1..n |-> CHOOSE x \in S : place[x] = i]
<1>1. n \in Nat
  BY FS_CardinalityType
<1>2. ASSUME NEW x \in S PROVE place[x] \in 1..n
  <2>1. UpTo(x) \in SUBSET S /\ {x} \in SUBSET UpTo(x)
    OBVIOUS
  <2>2. Cardinality(UpTo(x)) \in Nat /\ Cardinality(UpTo(x)) =< n /\ IsFiniteSet(UpTo(x))
    BY <2>1, SmallerSubset
  <2>3. Cardinality({x}) = 1
    BY FS_Singleton
  <2>4. 1 =< Cardinality(UpTo(x))
    BY <2>1, <2>2, <2>3, SmallerSubset
  <2> QED BY <1>1, <2>2, <2>4
<1>3. ASSUME NEW x \in S, NEW y \in S, x < y PROVE place[x] < place[y]
  <2>0. x \in Nat /\ y \in Nat /\ \A z \in S : z \in Nat
    OBVIOUS
  <2>1. UpTo(x) \in SUBSET UpTo(y) /\ y \in UpTo(y) /\ y \notin UpTo(x)
    <3>1. \A z \in S : z =< x => z =< y
      BY <1>3, <2>0
    <3>2. y =< y /\ ~(y =< x)
      BY <1>3, <2>0
    <3> QED BY <3>1, <3>2
  <2>2. UpTo(y) \in SUBSET S
    OBVIOUS
  <2>3. IsFiniteSet(UpTo(y))
    BY <2>2, SmallerSubset
  <2> QED BY <2>1, <2>3, SmallerSubset
<1>4. place \in Injection(S, 1..n)
  <2>1. place \in [S -> 1..n]
    BY <1>2
  <2>2. ASSUME NEW x \in S, NEW y \in S, place[x] = place[y] PROVE x = y
    <3>1. x \in Nat /\ y \in Nat /\ place[x] \in Nat /\ place[y] \in Nat
      BY <1>2
    <3> HIDE DEF place
    <3>2. ~(x < y) /\ ~(y < x)
      BY <1>3, <2>2, <3>1
    <3> QED BY <3>1, <3>2
  <2> HIDE DEF place
  <2> QED BY <2>1, <2>2 DEF Injection, IsInjective
<1>5. place \in Surjection(S, 1..n)
  <2> HIDE DEF place, n
  <2>1. IsFiniteSet(1..n) /\ Cardinality(1..n) = n
    BY <1>1, FS_Interval
  <2>2. Cardinality(S) = n
    BY DEF n
  <2> QED BY <1>4, <2>1, <2>2, FS_Injection
<1>6. ASSUME NEW i \in 1..n PROVE s[i] \in S /\ place[s[i]] = i
  <2>1. \E x \in S : place[x] = i
    <3> HIDE DEF place
    <3> QED BY <1>5 DEF Surjection
  <2> HIDE DEF place
  <2> QED BY <2>1
<1>7. ASSUME NEW i \in 1..n, NEW j \in 1..n, i < j PROVE s[i] < s[j]
  <2>1. /\ s[i] \in Nat /\ s[j] \in Nat /\ i \in Nat /\ j \in Nat
        /\ place[s[i]] = i /\ place[s[j]] = j /\ s[i] \in S /\ s[j] \in S
    <3> HIDE DEF s, place, n
    <3>1. /\ place[s[i]] = i /\ place[s[j]] = j /\ s[i] \in S /\ s[j] \in S
      BY <1>6
    <3>2. i \in Nat /\ j \in Nat
      BY <1>1
    <3>3. s[i] \in Nat /\ s[j] \in Nat
      BY <3>1
    <3> QED BY <3>1, <3>2, <3>3
  <2> HIDE DEF s, place
  <2>2. ~(s[j] < s[i])
    BY <1>3, <1>7, <2>1
  <2>3. s[i] # s[j]
    BY <1>7, <2>1
  <2> QED BY <2>1, <2>2, <2>3
<1>8. s \in [1..n -> S]
  BY <1>6
<1> HIDE DEF s
<1>9. \A i, j \in 1..n : i # j => s[i] # s[j]
  <2> SUFFICES ASSUME NEW i \in 1..n, NEW j \in 1..n, s[i] = s[j] PROVE i = j
    OBVIOUS
  <2> QED BY <1>6
<1>10. s \in SetToSeqs(S)
  BY <1>8, <1>9 DEF SetToSeqs
<1> QED BY <1>7, <1>8, <1>10

LEMMA AscendingSorts ==
  ASSUME NEW S \in SUBSET Nat, IsFiniteSet(S)
  PROVE  /\ Cardinality(S) \in Nat
         /\ Ascending(S) \in [1..Cardinality(S) -> S]
         /\ \A i, j \in 1..Cardinality(S) : i < j => Ascending(S)[i] < Ascending(S)[j]
         /\ \A x \in S : \E i \in 1..Cardinality(S) : Ascending(S)[i] = x
<1>1. /\ Ascending(S) \in SetToSeqs(S)
      /\ \A i, j \in DOMAIN Ascending(S) : i < j => Ascending(S)[i] < Ascending(S)[j]
  BY AscendingExists DEF Ascending
<1>2. Ascending(S) \in [1..Cardinality(S) -> S]
  BY <1>1 DEF SetToSeqs
<1>3. \A x \in S : \E i \in DOMAIN Ascending(S) : Ascending(S)[i] = x
  BY <1>1, SeqsCover
<1>4. Cardinality(S) \in Nat
  BY FS_CardinalityType
<1> QED BY <1>1, <1>2, <1>3, <1>4

-------------------------------------------------------------------------------
(* The link graph.                                                         *)

\* What the first two queries leave behind.
ListInv ==
  /\ docs \subseteq Title /\ outlinks \in [Title -> SUBSET Title]
  /\ snapshot \in [Title -> SUBSET Title]
  /\ pc \in {"list", "alias", "resolve"} => indices = <<>> /\ seen = 0
  /\ pc # "list" =>
       /\ docIds \in Seq(Title)
       /\ \A i, j \in 1..Len(docIds) : i < j => docIds[i] < docIds[j]
       /\ \A i \in 1..Len(docIds) :
            docIds[i] \notin Chrome => docIds[i] \in DOMAIN index /\ index[docIds[i]] = i
       /\ \A t \in DOMAIN index : index[t] \in Nat
       /\ ~shrunk => \A i \in 1..Len(docIds) : docIds[i] \in docs

\* The rows to come are in order; those of listed documents belong to places not
\* reached yet, and unless a document was deleted to each of them.
ScanInv ==
  pc = "scan" =>
    /\ seen \in 0..Len(docIds)
    /\ scan \in Seq([doc : Title, links : SUBSET Title])
    /\ \A i \in 1..Len(scan) : scan[i].links = snapshot[scan[i].doc]
    /\ \A i, j \in 1..Len(scan) : i < j => scan[i].doc < scan[j].doc
    /\ \A i \in 1..Len(scan), k \in 1..Len(docIds) : docIds[k] = scan[i].doc => k > seen
    /\ ~shrunk => \A k \in (seen + 1)..Len(docIds) :
                    \E i \in 1..Len(scan) : scan[i].doc = docIds[k]

\* Row i of an array.
RowOf(ids, ptr, i) == {ids[k] : k \in (ptr[i - 1] + 1)..ptr[i]}

\* An array of n rows, with room for N.
IsArray(ids, ptr, n, N) ==
  /\ ids \in Seq(Nat) /\ ptr \in [0..N -> Nat]
  /\ ptr[0] = 0 /\ ptr[n] = Len(ids)
  /\ \A i \in 1..n : ptr[i - 1] =< ptr[i]
  /\ \A i \in 0..n : ptr[i] =< Len(ids)

\* The rows so far.
RowsInv ==
  pc = "scan" =>
    /\ IsArray(indices, indptr, seen, Len(docIds))
    /\ ~shrunk => \A i \in 1..seen : Row(i) = TargetsOf(snapshot[docIds[i]])

LinkInv == ListInv /\ ScanInv /\ RowsInv /\ RowsComplete

LEMMA LinkInit == RankInit => LinkInv
BY GraphAssumption DEF RankInit, Init, LinkInv, ListInv, ScanInv, RowsInv, RowsComplete

\* Others add documents and redirects, or delete a document and are noticed.
LEMMA OthersKeepLinks ==
  ASSUME LinkInv, UNCHANGED <<graph, scan, pc>>, docs' \subseteq Title,
         outlinks' \in [Title -> SUBSET Title],
         ~shrunk' /\ pc # "list" => ~shrunk /\ docs \subseteq docs'
  PROVE  LinkInv'
<1>1. UNCHANGED <<docIds, index, aliasRows, indptr, indices, seen, snapshot>>
  BY DEF graph
<1>2. ListInv'
  BY <1>1 DEF LinkInv, ListInv
<1>3. ScanInv'
  BY <1>1 DEF LinkInv, ScanInv
<1>4. (\A i : Row(i)' = Row(i)) /\ \A l : TargetsOf(l)' = TargetsOf(l)
  BY <1>1 DEF Row, TargetsOf
<1>5. RowsInv'
  BY <1>1, <1>4 DEF LinkInv, RowsInv, ScanInv
<1>6. RowsComplete'
  BY <1>1, <1>4 DEF LinkInv, RowsComplete
<1> QED BY <1>2, <1>3, <1>5, <1>6 DEF LinkInv

LEMMA ListDocsKeepsLinks == ASSUME LinkInv, ListDocs PROVE LinkInv'
<1> DEFINE n == Cardinality(docs)
<1>1. /\ pc = "list" /\ pc' \in {"alias", "failed"} /\ docIds' = Ascending(docs)
      /\ index' = [t \in docs \ Chrome |-> CHOOSE i \in 1..Len(docIds') : docIds'[i] = t]
      /\ UNCHANGED <<docs, outlinks, indices, seen, shrunk, snapshot>>
  BY DEF ListDocs, database
<1>2. docs \in SUBSET Nat /\ IsFiniteSet(docs) /\ docs \subseteq Title
  BY TitleAssumption, FS_Subset DEF LinkInv, ListInv
<1>3. /\ n \in Nat
      /\ \E s \in [1..n -> docs] : /\ docIds' = s
                                   /\ \A i, j \in 1..n : i < j => s[i] < s[j]
                                   /\ \A x \in docs : \E i \in 1..n : s[i] = x
  BY <1>1, <1>2, AscendingSorts
<1> HIDE DEF n
<1>4. PICK s \in [1..n -> docs] : /\ docIds' = s
                                  /\ \A i, j \in 1..n : i < j => s[i] < s[j]
                                  /\ \A x \in docs : \E i \in 1..n : s[i] = x
  BY <1>3
<1>5. /\ s \in Seq(Title) /\ Len(s) = n
      /\ \A i \in 1..n : i \in Nat /\ s[i] \in docs /\ s[i] \in Nat
  <2>1. s \in [1..n -> Title] /\ n \in Nat
    BY <1>2, <1>3
  <2>2. s \in Seq(Title) /\ Len(s) = n
    BY <2>1
  <2>3. \A i \in 1..n : s[i] \in docs /\ s[i] \in Nat
    BY <1>2
  <2> QED BY <1>3, <2>2, <2>3
<1>6. ASSUME NEW i \in 1..n, NEW j \in 1..n, s[i] = s[j] PROVE i = j
  BY <1>4, <1>5, <1>6
<1>7. ASSUME NEW i \in 1..n, s[i] \notin Chrome
      PROVE  s[i] \in DOMAIN index' /\ index'[s[i]] = i
  <2>1. s[i] \in docs \ Chrome
    BY <1>5, <1>7
  <2>2. index'[s[i]] = CHOOSE j \in 1..n : s[j] = s[i]
    BY <1>1, <1>4, <1>5, <2>1
  <2>3. (CHOOSE j \in 1..n : s[j] = s[i]) = i
    BY <1>6
  <2> QED BY <1>1, <2>1, <2>2, <2>3
<1>8. ASSUME NEW t \in DOMAIN index' PROVE index'[t] \in Nat
  <2>1. t \in docs \ Chrome
    BY <1>1, <1>8
  <2>2. PICK i \in 1..n : s[i] = t
    BY <1>4, <2>1
  <2>3. index'[t] = i
    BY <1>7, <2>1, <2>2
  <2> QED BY <1>5, <2>2, <2>3
<1>9. ListInv'
  BY <1>1, <1>4, <1>5, <1>7, <1>8 DEF LinkInv, ListInv
<1>10. ScanInv' /\ RowsInv' /\ RowsComplete'
  BY <1>1 DEF ScanInv, RowsInv, RowsComplete
<1> QED BY <1>9, <1>10 DEF LinkInv

\* An alias enters the index beside what is there.
LEMMA ResolveKeepsLinks ==
  ASSUME LinkInv, NEW a \in Title, NEW c \in Title, ResolveAlias(<<a, c>>)
  PROVE  LinkInv'
<1>1. /\ pc = "resolve" /\ pc' = pc
      /\ UNCHANGED <<docs, outlinks, docIds, indices, seen, shrunk, snapshot>>
      /\ index' = IF ~Enters(<<a, c>>) THEN index
                  ELSE [t \in DOMAIN index \cup {a} |-> IF t = a THEN index[c] ELSE index[t]]
  BY DEF ResolveAlias, database
<1>2. /\ \A t \in DOMAIN index : t \in DOMAIN index' /\ index'[t] = index[t]
      /\ \A t \in DOMAIN index' : t \in DOMAIN index \/ (c \in DOMAIN index /\ index'[t] = index[c])
  BY <1>1 DEF Enters
<1>3. ListInv'
  BY <1>1, <1>2 DEF LinkInv, ListInv
<1>4. ScanInv' /\ RowsInv' /\ RowsComplete'
  BY <1>1 DEF ScanInv, RowsInv, RowsComplete
<1> QED BY <1>3, <1>4 DEF LinkInv

\* The cursor has a row for every document, in the order of the first query.
LEMMA OpenScanKeepsLinks == ASSUME LinkInv, OpenScan PROVE LinkInv'
<1> DEFINE n == Cardinality(docs)
           a == Ascending(docs)
           rows == [i \in 1..n |-> [doc |-> a[i], links |-> outlinks[a[i]]]]
           zeros == [i \in 0..Len(docIds) |-> 0]
<1>1. /\ pc = "resolve" /\ pc' = "scan" /\ scan' = rows /\ indptr' = zeros
      /\ UNCHANGED <<docs, outlinks, docIds, index, indices, seen, shrunk>>
      /\ snapshot' = outlinks
  BY DEF OpenScan, database
<1>2. docs \in SUBSET Nat /\ IsFiniteSet(docs) /\ docs \subseteq Title
  BY TitleAssumption, FS_Subset DEF LinkInv, ListInv
<1>3. /\ n \in Nat /\ a \in [1..n -> docs]
      /\ \A i, j \in 1..n : i < j => a[i] < a[j]
      /\ \A x \in docs : \E i \in 1..n : a[i] = x
  BY <1>2, AscendingSorts
<1>4. /\ docIds \in Seq(Title) /\ Len(docIds) \in Nat /\ indices = <<>> /\ seen = 0
      /\ ~shrunk => \A i \in 1..Len(docIds) : docIds[i] \in docs
      /\ outlinks \in [Title -> SUBSET Title]
  BY <1>1 DEF LinkInv, ListInv
<1> HIDE DEF n, a
<1>5. rows \in [1..n -> [doc : Title, links : SUBSET Title]]
  BY <1>2, <1>3, <1>4
<1>6. rows \in Seq([doc : Title, links : SUBSET Title]) /\ Len(rows) = n
  <2> DEFINE R == [doc : Title, links : SUBSET Title]
  <2>1. n \in Nat /\ rows \in [1..n -> R]
    BY <1>3, <1>5
  <2> HIDE DEF rows, R
  <2>2. rows \in Seq(R) /\ Len(rows) = n
    BY <2>1
  <2> QED BY <2>2 DEF R
<1>7. \A i \in 1..n : rows[i].doc = a[i] /\ rows[i].links = outlinks[rows[i].doc]
  OBVIOUS
<1>8. ListInv'
  BY <1>1 DEF LinkInv, ListInv
<1> HIDE DEF rows
<1>9. ScanInv'
  <2>1. \A k \in 1..Len(docIds) : k > 0
    BY <1>4
  <2>2. ASSUME ~shrunk, NEW k \in 1..Len(docIds)
        PROVE  \E i \in 1..n : rows[i].doc = docIds[k]
    <3>1. docIds[k] \in docs
      BY <1>4, <2>2
    <3>2. PICK i \in 1..n : a[i] = docIds[k]
      BY <1>3, <3>1
    <3> QED BY <1>7, <3>2
  <2>3. \A i, j \in 1..n : i < j => rows[i].doc < rows[j].doc
    BY <1>3, <1>7
  <2>4. seen' = 0 /\ 0 \in 0..Len(docIds) /\ 0 + 1 = 1
    BY <1>1, <1>4
  <2> QED BY <1>1, <1>6, <1>7, <2>1, <2>2, <2>3, <2>4 DEF ScanInv
<1>10. RowsInv'
  <2>1. /\ zeros \in [0..Len(docIds) -> Nat] /\ zeros[0] = 0 /\ Len(<<>>) = 0
        /\ <<>> \in Seq(Nat) /\ 1..0 = {} /\ 0..0 = {0}
    BY <1>4
  <2> HIDE DEF zeros
  <2> QED BY <1>1, <1>4, <2>1 DEF RowsInv, IsArray
<1>11. RowsComplete'
  BY <1>1 DEF RowsComplete
<1> QED BY <1>8, <1>9, <1>10, <1>11 DEF LinkInv

\* The cursor after a row.
LEMMA RestOfScan ==
  ASSUME LinkInv, pc = "scan", scan # <<>>
  PROVE  /\ Len(scan) \in Nat /\ 1 \in 1..Len(scan) /\ Head(scan) = scan[1]
         /\ Tail(scan) \in Seq([doc : Title, links : SUBSET Title])
         /\ Len(Tail(scan)) \in Nat /\ Len(Tail(scan)) = Len(scan) - 1
         /\ \A i \in 1..Len(scan) : scan[i].doc \in Nat /\ scan[i].links \in SUBSET Title
         /\ \A i \in 1..Len(Tail(scan)) : i + 1 \in 1..Len(scan) /\ Tail(scan)[i] = scan[i + 1]
         /\ \A i \in 1..Len(scan) : i = 1 \/ (i - 1 \in 1..Len(Tail(scan))
                                              /\ Tail(scan)[i - 1] = scan[i])
<1> DEFINE R == [doc : Title, links : SUBSET Title]
<1>1. scan \in Seq(R)
  BY DEF LinkInv, ScanInv
<1> HIDE DEF R
<1>2. Len(scan) \in Nat \ {0}
  BY <1>1, EmptySeq
<1>3. /\ Tail(scan) \in Seq(R) /\ Len(Tail(scan)) = Len(scan) - 1
      /\ \A i \in 1..Len(Tail(scan)) : Tail(scan)[i] = scan[i + 1]
  BY <1>1, HeadTailProperties
<1>4. \A i \in 1..Len(scan) : scan[i] \in R
  BY <1>1
<1>5. \A i \in 1..Len(scan) : scan[i].doc \in Nat /\ scan[i].links \in SUBSET Title
  BY <1>4, TitleAssumption DEF R
<1>6. Head(scan) = scan[1]
  BY <1>1
<1>7. ASSUME NEW i \in 1..Len(scan), i # 1
      PROVE  i - 1 \in 1..Len(Tail(scan)) /\ Tail(scan)[i - 1] = scan[i]
  <2>1. i - 1 \in 1..Len(Tail(scan)) /\ (i - 1) + 1 = i
    BY <1>2, <1>3, <1>7
  <2> QED BY <1>3, <2>1
<1>8. \A i \in 1..Len(Tail(scan)) : i + 1 \in 1..Len(scan)
  BY <1>2, <1>3
<1> QED BY <1>2, <1>3, <1>5, <1>6, <1>7, <1>8 DEF R

LEMMA SkipRowKeepsLinks == ASSUME LinkInv, SkipRow PROVE LinkInv'
<1>1. /\ pc = "scan" /\ pc' = pc /\ scan # <<>> /\ scan' = Tail(scan) /\ ~IsListed(Head(scan).doc)
      /\ UNCHANGED <<docs, outlinks, docIds, index, indptr, indices, seen, shrunk, snapshot>>
  BY DEF SkipRow, database, graph
<1> DEFINE r == Tail(scan)
<1>2. ListInv' /\ RowsComplete'
  BY <1>1 DEF LinkInv, ListInv, RowsComplete
<1>3. RowsInv'
  <2>1. (\A i : Row(i)' = Row(i)) /\ \A l : TargetsOf(l)' = TargetsOf(l)
    BY <1>1 DEF Row, TargetsOf
  <2> QED BY <1>1, <2>1 DEF LinkInv, ScanInv, RowsInv
<1>4. /\ r \in Seq([doc : Title, links : SUBSET Title])
      /\ Len(r) \in Nat
      /\ \A i \in 1..Len(r) : i + 1 \in 1..Len(scan) /\ r[i] = scan[i + 1]
      /\ \A i \in 1..Len(scan) : i = 1 \/ (i - 1 \in 1..Len(r) /\ r[i - 1] = scan[i])
      /\ Head(scan) = scan[1]
  BY <1>1, RestOfScan
<1> HIDE DEF r
<1>5. ASSUME NEW i \in 1..Len(r), NEW j \in 1..Len(r), i < j PROVE r[i].doc < r[j].doc
  <2>1. i + 1 < j + 1
    BY <1>4, <1>5
  <2> QED BY <1>1, <1>4, <2>1 DEF LinkInv, ScanInv
<1>6. ASSUME ~shrunk, NEW k \in (seen + 1)..Len(docIds)
      PROVE  \E i \in 1..Len(r) : r[i].doc = docIds[k]
  <2>1. PICK i \in 1..Len(scan) : scan[i].doc = docIds[k]
    BY <1>1, <1>6 DEF LinkInv, ScanInv
  <2>2. k \in 1..Len(docIds)
    BY <1>1 DEF LinkInv, ListInv, ScanInv
  <2>3. i # 1
    BY <1>1, <1>4, <2>1, <2>2 DEF IsListed
  <2> QED BY <1>4, <2>1, <2>3
<1>7. ScanInv'
  BY <1>1, <1>4, <1>5, <1>6 DEF LinkInv, ScanInv, r
<1> QED BY <1>2, <1>3, <1>7 DEF LinkInv

Elements(s) == {s[k] : k \in 1..Len(s)}

\* What a row adds to the array: one number for each link that leads somewhere.
LEMMA HitsAreTargets ==
  ASSUME NEW l \in SUBSET Title, \A t \in DOMAIN index : index[t] \in Nat
  PROVE  Hits(l) \in Seq(Nat) /\ Elements(Hits(l)) = TargetsOf(l)
<1> DEFINE S == {t \in l : t \in DOMAIN index}
           n == Cardinality(S)
           known == SetToSeq(S)
<1>1. IsFiniteSet(S) /\ n \in Nat /\ ExistsBijection(1..n, S)
  <2>1. S \in SUBSET Title
    OBVIOUS
  <2> HIDE DEF S
  <2> QED BY <2>1, TitleAssumption, FS_Subset, FS_CardinalityType
<1>2. known \in [1..n -> S] /\ IsInjective(known)
  <2>1. \E f \in [1..n -> S] : IsInjective(f)
    BY <1>1 DEF ExistsBijection, Bijection, Injection
  <2> HIDE DEF S
  <2> QED BY <2>1 DEF SetToSeq
<1>3. \A t \in S : \E k \in 1..n : known[k] = t
  <2> HIDE DEF S, known
  <2>1. known \in Injection(1..n, S)
    BY <1>2 DEF Injection
  <2> HIDE DEF n
  <2>2. Cardinality(1..n) = n /\ Cardinality(S) = n
    BY <1>1, FS_Interval DEF n
  <2>3. known \in Surjection(1..n, S)
    BY <1>1, <2>1, <2>2, FS_Injection
  <2> QED BY <2>3 DEF Surjection
<1>4. Known(l) = known
  BY DEF Known
<1>5. \A t \in S : index[t] \in Nat
  OBVIOUS
<1>6. S = l \cap DOMAIN index
  OBVIOUS
<1> HIDE DEF S, known, n
<1>7. Hits(l) = [k \in 1..n |-> index[known[k]]]
  BY <1>2, <1>4 DEF Hits
<1>8. [k \in 1..n |-> index[known[k]]] \in [1..n -> Nat]
  BY <1>2, <1>5
<1>9. Hits(l) \in Seq(Nat) /\ Len(Hits(l)) = n
  BY <1>1, <1>7, <1>8
<1>10. {Hits(l)[k] : k \in 1..n} = {index[t] : t \in S}
  BY <1>2, <1>3, <1>7
<1> QED BY <1>6, <1>9, <1>10 DEF TargetsOf, Elements

Longer(ptr, n, len) == [ptr EXCEPT ![n + 1] = len]

\* A row is appended.
LEMMA AppendRow ==
  ASSUME NEW N \in Nat, NEW n \in Nat, n < N, NEW I, NEW P, IsArray(I, P, n, N),
         NEW H \in Seq(Nat)
  PROVE  /\ IsArray(I \o H, Longer(P, n, Len(I \o H)), n + 1, N)
         /\ \A i \in 1..n : RowOf(I \o H, Longer(P, n, Len(I \o H)), i) = RowOf(I, P, i)
         /\ RowOf(I \o H, Longer(P, n, Len(I \o H)), n + 1) = Elements(H)
<1> DEFINE J == I \o H
           Q == Longer(P, n, Len(J))
<1>0. /\ I \in Seq(Nat) /\ P \in [0..N -> Nat] /\ P[0] = 0 /\ P[n] = Len(I)
      /\ \A i \in 1..n : P[i - 1] =< P[i]
      /\ \A i \in 0..n : P[i] =< Len(I)
  BY DEF IsArray
<1>1. Len(I) \in Nat /\ Len(H) \in Nat
  BY <1>0, LenProperties
<1>2. /\ J \in Seq(Nat) /\ Len(J) = Len(I) + Len(H)
      /\ \A k \in 1..(Len(I) + Len(H)) : J[k] = IF k =< Len(I) THEN I[k] ELSE H[k - Len(I)]
  BY <1>0, ConcatProperties
<1>3. Len(J) \in Nat /\ Len(I) =< Len(J) /\ n + 1 \in 0..N
  BY <1>1, <1>2
<1>4. /\ Q \in [0..N -> Nat] /\ Q[n + 1] = Len(J)
      /\ \A i \in 0..n : i \in 0..N /\ Q[i] = P[i] /\ P[i] \in Nat
  BY <1>0, <1>3 DEF Longer
<1>5. ASSUME NEW i \in 1..(n + 1) PROVE Q[i - 1] =< Q[i]
  <2>1. CASE i \in 1..n
    <3>1. i - 1 \in 0..n /\ i \in 0..n
      BY <2>1
    <3> QED BY <1>0, <1>4, <2>1, <3>1
  <2>2. CASE i = n + 1
    <3>1. i - 1 = n /\ n \in 0..n
      BY <2>2
    <3> QED BY <1>0, <1>3, <1>4, <2>2, <3>1
  <2> QED BY <2>1, <2>2
<1>6. ASSUME NEW i \in 0..(n + 1) PROVE Q[i] =< Len(J)
  <2>1. CASE i \in 0..n
    <3>1. Q[i] = P[i] /\ P[i] \in Nat /\ P[i] =< Len(I)
      BY <1>0, <1>4, <2>1
    <3> QED BY <1>1, <1>3, <3>1
  <2>2. CASE i = n + 1
    BY <1>3, <1>4, <2>2
  <2> QED BY <2>1, <2>2
<1>7. ASSUME NEW i \in 1..n PROVE RowOf(J, Q, i) = RowOf(I, P, i)
  <2>1. i - 1 \in 0..n /\ i \in 0..n
    OBVIOUS
  <2>2. Q[i - 1] = P[i - 1] /\ Q[i] = P[i] /\ P[i] =< Len(I) /\ P[i] \in Nat /\ P[i - 1] \in Nat
    <3> HIDE DEF Q
    <3> QED BY <1>0, <1>4, <2>1
  <2>3. \A k \in (P[i - 1] + 1)..P[i] : J[k] = I[k]
    BY <1>1, <1>2, <2>2
  <2> QED BY <2>2, <2>3 DEF RowOf
<1>8. RowOf(J, Q, n + 1) = Elements(H)
  <2>1. (n + 1) - 1 = n /\ n \in 0..n
    OBVIOUS
  <2>2. RowOf(J, Q, n + 1) = {J[k] : k \in (Len(I) + 1)..(Len(I) + Len(H))}
    <3>1. Q[n] = Len(I) /\ Q[n + 1] = Len(I) + Len(H)
      BY <1>0, <1>2, <1>4, <2>1
    <3> HIDE DEF Q, J
    <3> QED BY <2>1, <3>1 DEF RowOf
  <2>3. \A k \in (Len(I) + 1)..(Len(I) + Len(H)) : k - Len(I) \in 1..Len(H) /\ J[k] = H[k - Len(I)]
    BY <1>1, <1>2
  <2>4. \A k \in 1..Len(H) : /\ k + Len(I) \in (Len(I) + 1)..(Len(I) + Len(H))
                             /\ (k + Len(I)) - Len(I) = k
    BY <1>1
  <2>5. \A k \in 1..Len(H) : J[k + Len(I)] = H[k]
    BY <2>3, <2>4
  <2> DEFINE A == {J[k] : k \in (Len(I) + 1)..(Len(I) + Len(H))}
             B == {H[k] : k \in 1..Len(H)}
  <2>6. \A x \in A : x \in B
    BY <2>3
  <2>7. \A x \in B : x \in A
    BY <2>4, <2>5
  <2>8. A = B
    BY <2>6, <2>7
  <2> QED BY <2>2, <2>8 DEF Elements
<1>9. Q[0] = 0
  BY <1>0, <1>4
<1>10. IsArray(J, Q, n + 1, N)
  BY <1>2, <1>4, <1>5, <1>6, <1>9 DEF IsArray
<1> QED BY <1>7, <1>8, <1>10

LEMMA ScanRowKeepsLinks == ASSUME LinkInv, ScanRow PROVE LinkInv'
<1> DEFINE r == Tail(scan)
           h == Head(scan)
           J == indices \o Hits(h.links)
           Q == [indptr EXCEPT ![seen + 1] = Len(J)]
<1>1. /\ pc = "scan" /\ scan # <<>> /\ IsListed(h.doc) /\ indices' = J
      /\ UNCHANGED <<docs, outlinks, docIds, index, shrunk, snapshot>>
      /\ \/ pc' = "failed"
         \/ pc' = pc /\ scan' = r /\ seen' = seen + 1 /\ indptr' = Q
  BY DEF ScanRow, database
<1> HIDE DEF J
<1>2. ListInv' /\ RowsComplete'
  BY <1>1 DEF LinkInv, ListInv, RowsComplete
<1>3. CASE pc' = "failed"
  BY <1>2, <1>3 DEF LinkInv, ScanInv, RowsInv
<1>4. CASE pc' = pc /\ scan' = r /\ seen' = seen + 1 /\ indptr' = Q
  <2> DEFINE N == Len(docIds)
  <2>1. /\ r \in Seq([doc : Title, links : SUBSET Title])
        /\ Len(r) \in Nat /\ 1 \in 1..Len(scan) /\ h = scan[1]
        /\ \A i \in 1..Len(scan) : scan[i].doc \in Nat /\ scan[i].links \in SUBSET Title
        /\ \A i \in 1..Len(r) : i + 1 \in 1..Len(scan) /\ r[i] = scan[i + 1]
        /\ \A i \in 1..Len(scan) : i = 1 \/ (i - 1 \in 1..Len(r) /\ r[i - 1] = scan[i])
    BY <1>1, RestOfScan
  <2>2. docIds \in Seq(Title) /\ N \in Nat /\ seen \in 0..N
    BY <1>1 DEF LinkInv, ListInv, ScanInv
  <2>3. \A i \in 1..N : docIds[i] \in Nat
    <3>1. \A i \in 1..N : docIds[i] \in Title
      BY <2>2, LenProperties
    <3> QED BY <3>1, TitleAssumption
  <2>4. \A i, j \in 1..N : i < j => docIds[i] < docIds[j]
    BY <1>1 DEF LinkInv, ListInv
  <2>5. /\ \A i \in 1..Len(scan) : scan[i].links = snapshot[scan[i].doc]
        /\ \A i, j \in 1..Len(scan) : i < j => scan[i].doc < scan[j].doc
        /\ \A i \in 1..Len(scan), k \in 1..N : docIds[k] = scan[i].doc => k > seen
        /\ ~shrunk => \A k \in (seen + 1)..N : \E i \in 1..Len(scan) : scan[i].doc = docIds[k]
    BY <1>1 DEF LinkInv, ScanInv
  <2>6. PICK k \in 1..N : docIds[k] = h.doc
    BY <1>1 DEF IsListed
  <2> HIDE DEF r, h, N
  <2>7. h.doc = scan[1].doc /\ h.links = snapshot[h.doc] /\ h.links \in SUBSET Title
    BY <2>1, <2>5
  <2>8. k > seen /\ k \in Nat /\ seen \in Nat /\ seen < N /\ seen + 1 \in 1..N
    BY <2>1, <2>2, <2>5, <2>6, <2>7
  <2>9. \A i \in 1..Len(r) : h.doc < r[i].doc
    <3>1. \A i \in 1..Len(r) : 1 < i + 1
      BY <2>1
    <3> QED BY <2>1, <2>5, <2>7, <3>1
  <2>10. ASSUME NEW i \in 1..Len(r), NEW j \in 1..N, docIds[j] = r[i].doc PROVE j > seen + 1
    <3>1. docIds[k] < docIds[j]
      BY <2>6, <2>9, <2>10
    <3>2. ~(j < k) /\ j # k /\ j \in Nat
      BY <2>3, <2>4, <3>1
    <3> QED BY <2>8, <3>2
  <2>11. ASSUME ~shrunk PROVE h.doc = docIds[seen + 1]
    <3>1. PICK i \in 1..Len(scan) : scan[i].doc = docIds[seen + 1]
      <4>1. seen + 1 \in (seen + 1)..N
        BY <2>2, <2>8
      <4> QED BY <2>5, <2>11, <4>1
    <3>2. CASE i = 1
      BY <2>7, <3>1, <3>2
    <3>3. CASE i # 1
      <4>1. h.doc < docIds[seen + 1]
        BY <2>1, <2>9, <3>1, <3>3
      <4>2. docIds[k] < docIds[seen + 1] /\ docIds[k] \in Nat /\ docIds[seen + 1] \in Nat
        BY <2>3, <2>6, <2>8, <4>1
      <4>3. k < seen + 1
        <5>1. ~(docIds[seen + 1] < docIds[k]) /\ docIds[seen + 1] # docIds[k]
          BY <4>2
        <5> QED BY <2>4, <2>8, <5>1
      <4> QED BY <2>8, <4>3
    <3> QED BY <3>2, <3>3
  <2>12. ScanInv'
    <3>1. \A i \in 1..Len(r) : r[i].links = snapshot[r[i].doc]
      BY <2>1, <2>5
    <3>2. \A i, j \in 1..Len(r) : i < j => r[i].doc < r[j].doc
      <4> SUFFICES ASSUME NEW i \in 1..Len(r), NEW j \in 1..Len(r), i < j
                   PROVE  r[i].doc < r[j].doc
        OBVIOUS
      <4>1. i + 1 < j + 1
        BY <2>1
      <4> QED BY <2>1, <2>5, <4>1
    <3>3. ASSUME ~shrunk, NEW j \in (seen + 1 + 1)..N
          PROVE  \E i \in 1..Len(r) : r[i].doc = docIds[j]
      <4>1. j \in (seen + 1)..N /\ j \in 1..N /\ j \in Nat /\ seen + 1 < j
        BY <2>2, <2>8
      <4>2. PICK i \in 1..Len(scan) : scan[i].doc = docIds[j]
        BY <2>5, <3>3, <4>1
      <4>3. docIds[seen + 1] < docIds[j] /\ docIds[seen + 1] \in Nat /\ docIds[j] \in Nat
        BY <2>3, <2>4, <2>8, <4>1
      <4>4. h.doc # docIds[j]
        BY <2>11, <3>3, <4>3
      <4>5. i # 1
        BY <2>7, <4>2, <4>4
      <4> QED BY <2>1, <4>2, <4>5
    <3>4. seen + 1 \in 0..N
      BY <2>2, <2>8
    <3> QED BY <1>1, <1>4, <2>1, <2>10, <3>1, <3>2, <3>3, <3>4 DEF ScanInv, N
  <2>13. RowsInv'
    <3> DEFINE H == Hits(h.links)
    <3>1. H \in Seq(Nat) /\ Elements(H) = TargetsOf(snapshot[h.doc])
      <4>1. \A t \in DOMAIN index : index[t] \in Nat
        BY <1>1 DEF LinkInv, ListInv
      <4> QED BY <2>7, <4>1, HitsAreTargets
    <3>2. /\ IsArray(indices, indptr, seen, N)
          /\ ~shrunk => \A i \in 1..seen : Row(i) = TargetsOf(snapshot[docIds[i]])
      BY <1>1 DEF LinkInv, RowsInv, N
    <3>3. J = indices \o H
      BY DEF J
    <3> HIDE DEF H, Q
    <3>4. /\ IsArray(J, Q, seen + 1, N)
          /\ \A i \in 1..seen : RowOf(J, Q, i) = RowOf(indices, indptr, i)
          /\ RowOf(J, Q, seen + 1) = Elements(H)
      <4>1. Q = Longer(indptr, seen, Len(J))
        BY DEF Q, Longer
      <4>2. /\ N \in Nat /\ seen \in Nat /\ seen < N /\ IsArray(indices, indptr, seen, N)
            /\ H \in Seq(Nat)
        BY <2>2, <2>8, <3>1, <3>2
      <4> QED BY <3>3, <4>1, <4>2, AppendRow
    <3>5. \A i : Row(i) = RowOf(indices, indptr, i) /\ Row(i)' = RowOf(J, Q, i)
      BY <1>1, <1>4 DEF Row, RowOf
    <3>6. \A l : TargetsOf(l)' = TargetsOf(l)
      BY <1>1 DEF TargetsOf
    <3>7. ASSUME ~shrunk, NEW i \in 1..(seen + 1)
          PROVE  Row(i)' = TargetsOf(snapshot[docIds[i]])
      <4>1. CASE i \in 1..seen
        BY <3>2, <3>4, <3>5, <3>7, <4>1
      <4>2. CASE i = seen + 1
        BY <2>11, <3>1, <3>4, <3>5, <3>7, <4>2
      <4> QED BY <2>8, <4>1, <4>2
    <3> QED BY <1>1, <1>4, <3>4, <3>6, <3>7 DEF RowsInv, N
  <2> QED BY <1>2, <2>12, <2>13 DEF LinkInv
<1> QED BY <1>1, <1>3, <1>4

\* Closing the array leaves the rows so far alone; unless a document was deleted
\* they are all the rows.
LEMMA CloseRowsKeepsLinks == ASSUME LinkInv, CloseRows PROVE LinkInv'
<1> DEFINE N == Len(docIds)
           C == Closed
<1>1. /\ pc = "scan" /\ pc' = "done" /\ scan = <<>> /\ indptr' = C
      /\ UNCHANGED <<docs, outlinks, docIds, index, indices, seen, shrunk, snapshot>>
  BY DEF CloseRows, database
<1>2. ListInv' /\ ScanInv' /\ RowsInv'
  BY <1>1 DEF LinkInv, ListInv, ScanInv, RowsInv
<1>3. /\ N \in Nat /\ seen \in 0..N /\ IsArray(indices, indptr, seen, N)
      /\ ~shrunk => \A i \in 1..seen : Row(i) = TargetsOf(snapshot[docIds[i]])
      /\ ~shrunk => \A k \in (seen + 1)..N : \E i \in 1..Len(scan) : scan[i].doc = docIds[k]
  BY <1>1 DEF LinkInv, ListInv, ScanInv, RowsInv
<1>4. /\ indices \in Seq(Nat) /\ indptr \in [0..N -> Nat] /\ seen \in Nat /\ seen =< N
      /\ indptr[0] = 0 /\ indptr[seen] = Len(indices) /\ Len(indices) \in Nat
      /\ \A i \in 1..seen : indptr[i - 1] =< indptr[i]
      /\ \A i \in 0..seen : indptr[i] =< Len(indices)
  BY <1>3 DEF IsArray
<1> HIDE DEF N
<1>5. C = [i \in 0..N |-> IF i > seen THEN Len(indices) ELSE indptr[i]]
  BY <1>4 DEF Closed
<1> HIDE DEF C
<1>6. ~shrunk => seen = N
  <2> SUFFICES ASSUME ~shrunk, seen # N PROVE FALSE
    OBVIOUS
  <2>1. seen + 1 \in (seen + 1)..N
    BY <1>3, <1>4
  <2>2. Len(scan) = 0 /\ 1..0 = {}
    BY <1>1
  <2> QED BY <1>3, <2>1, <2>2
<1>7. ASSUME NEW i \in 1..N
      PROVE  /\ C[i - 1] =< C[i]
             /\ ~shrunk => C[i - 1] = indptr[i - 1] /\ C[i] = indptr[i] /\ i \in 1..seen
  <2>1. i \in 0..N /\ i - 1 \in 0..N /\ i \in Nat
    BY <1>3
  <2>2. CASE i \in 1..seen
    <3>1. ~(i > seen) /\ ~(i - 1 > seen)
      BY <1>4, <2>1, <2>2
    <3>2. C[i - 1] = indptr[i - 1] /\ C[i] = indptr[i]
      BY <1>5, <2>1, <3>1
    <3> QED BY <1>4, <2>2, <3>2
  <2>3. CASE i > seen
    <3>1. C[i] = Len(indices)
      BY <1>5, <2>1, <2>3
    <3>2. C[i - 1] =< Len(indices)
      <4>1. CASE i - 1 > seen
        BY <1>4, <1>5, <2>1, <4>1
      <4>2. CASE ~(i - 1 > seen)
        <5>1. C[i - 1] = indptr[i - 1] /\ i - 1 \in 0..seen
          BY <1>4, <1>5, <2>1, <4>2
        <5> QED BY <1>4, <5>1
      <4> QED BY <4>1, <4>2
    <3>3. shrunk
      BY <1>4, <1>6, <2>1, <2>3
    <3> QED BY <3>1, <3>2, <3>3
  <2> QED BY <1>4, <2>1, <2>2, <2>3
<1>8. C[0] = 0 /\ C[N] = Len(indices)
  <2>1. 0 \in 0..N /\ N \in 0..N /\ ~(0 > seen)
    BY <1>3, <1>4
  <2>2. C[0] = 0
    BY <1>4, <1>5, <2>1
  <2>3. C[N] = Len(indices)
    <3>1. CASE N > seen
      BY <1>5, <2>1, <3>1
    <3>2. CASE ~(N > seen)
      <4>1. N = seen
        BY <1>3, <1>4, <3>2
      <4> QED BY <1>4, <1>5, <2>1, <3>2, <4>1
    <3> QED BY <3>1, <3>2
  <2> QED BY <2>2, <2>3
<1>9. ASSUME ~shrunk, NEW i \in 1..N PROVE Row(i)' = TargetsOf(snapshot[docIds[i]])
  <2>1. C[i - 1] = indptr[i - 1] /\ C[i] = indptr[i] /\ i \in 1..seen
    BY <1>7, <1>9
  <2>2. Row(i)' = Row(i)
    BY <1>1, <2>1 DEF Row
  <2> QED BY <1>3, <1>9, <2>1, <2>2
<1>10. \A l : TargetsOf(l)' = TargetsOf(l)
  BY <1>1 DEF TargetsOf
<1>11. RowsComplete'
  BY <1>1, <1>7, <1>8, <1>9, <1>10 DEF RowsComplete, N
<1> QED BY <1>2, <1>11 DEF LinkInv

LEMMA LinkStep == LinkInv /\ [RankNext]_rankVars => LinkInv'
<1> SUFFICES ASSUME LinkInv, [RankNext]_rankVars PROVE LinkInv'
  OBVIOUS
<1>1. CASE UNCHANGED vars
  BY <1>1, OthersKeepLinks DEF LinkInv, ListInv, vars, graph
<1>2. CASE Build
  <2>1. CASE ListDocs
    BY <2>1, ListDocsKeepsLinks
  <2>2. CASE ReadRedirects
    <3>1. /\ pc = "alias" /\ pc' = "resolve"
          /\ UNCHANGED <<docs, outlinks, docIds, index, indices, seen, shrunk, snapshot>>
      BY <2>2 DEF ReadRedirects, database
    <3> QED BY <3>1 DEF LinkInv, ListInv, ScanInv, RowsInv, RowsComplete
  <2>3. CASE Resolve
    BY <2>3, ResolveKeepsLinks DEF Resolve
  <2>4. CASE OpenScan
    BY <2>4, OpenScanKeepsLinks
  <2>5. CASE SkipRow \/ ScanRow \/ CloseRows
    BY <2>5, SkipRowKeepsLinks, ScanRowKeepsLinks, CloseRowsKeepsLinks
  <2> QED BY <1>2, <2>1, <2>2, <2>3, <2>4, <2>5 DEF Build
<1>3. CASE Grow
  <2>1. ASSUME NEW t \in Title, Rewrite(t) PROVE outlinks' \in [Title -> SUBSET Title]
    <3>1. PICK g \in Graphs : outlinks' = [outlinks EXCEPT ![t] = g[t]]
      BY <2>1 DEF Rewrite
    <3>2. g[t] \in SUBSET Title /\ outlinks \in [Title -> SUBSET Title]
      BY GraphAssumption DEF LinkInv, ListInv
    <3> QED BY <3>1, <3>2
  <2> QED
    BY <1>3, <2>1, OthersKeepLinks DEF LinkInv, ListInv, Grow, AddDoc, Rewrite, AddRedirect, Write
<1>4. ASSUME NEW t \in Title, RemoveDoc(t) PROVE LinkInv'
  BY <1>4, OthersKeepLinks DEF LinkInv, ListInv, RemoveDoc, Write
<1>5. ASSUME NEW t \in Title, Services(t) PROVE LinkInv'
  BY <1>5, OthersKeepLinks DEF LinkInv, ListInv, Services, Report, Discover, Write
<1>6. CASE Scripts
  BY <1>1, <1>6
  DEF Scripts, WriteScores, ClearChrome, RankRows, CountLinks, ApplyTier, ApplyFloor
<1> QED BY <1>1, <1>2, <1>3, <1>4, <1>5, <1>6 DEF RankNext, rankVars

LEMMA LinkInvariant == RankSpec => []LinkInv
BY LinkInit, LinkStep, PTL DEF RankSpec

\* Three queries at three times, and the array is still closed; and unless a
\* document was deleted meanwhile, row i holds the links docIds[i] had when the scan
\* began, for every set of documents, redirects and links, and every interleaving
\* with the parser, which adds documents and rewrites their links all the time.
THEOREM RowsAreComplete == RankSpec => []RowsComplete
BY LinkInvariant, PTL DEF LinkInv

\* In whatever order the redirects come, a listed document resolves to itself.
THEOREM DocumentsAreThemselves == RankSpec => []DocsAreThemselves
<1>1. LinkInv => DocsAreThemselves
  BY DEF LinkInv, ListInv, DocsAreThemselves
<1> QED BY <1>1, LinkInvariant, PTL

-------------------------------------------------------------------------------
(* What pagerank.py makes of its scores.                                   *)

\* Integer division keeps the order.
LEMMA DivKeepsOrder ==
  ASSUME NEW a \in Nat, NEW b \in Nat, NEW d \in Nat \ {0}, a =< b
  PROVE  a \div d \in Nat /\ b \div d \in Nat /\ a \div d =< b \div d
<1> DEFINE x == a \div d
           y == b \div d
<1>1. x \in Nat /\ y \in Nat
  BY SMT
<1>2. d * x =< a /\ b < d * y + d
  BY SMT
<1> HIDE DEF x, y
<1>3. ASSUME y < x PROVE FALSE
  <2>1. d * (y + 1) =< d * x
    BY <1>1, <1>3
  <2>2. d * (y + 1) = d * y + d
    BY <1>1
  <2>3. d * x \in Nat /\ d * y \in Nat
    BY <1>1
  <2> QED BY <1>2, <2>1, <2>2, <2>3
<1>4. x =< y
  BY <1>1, <1>3
<1> QED BY <1>1, <1>4 DEF x, y

\* The quarters of ntile come in order, from the first.
LEMMA QuarterKeepsOrder ==
  ASSUME NEW n \in Nat, NEW i \in 1..n, NEW j \in 1..n, i =< j
  PROVE  1 =< Quarter(i, n) /\ Quarter(i, n) =< Quarter(j, n)
<1> DEFINE q == n \div 4
           r == n % 4
           large == r * (q + 1)
           Large(k) == 1 + (k - 1) \div (q + 1)
           Small(k) == 1 + r + (k - large - 1) \div q
<1>1. q \in Nat /\ r \in 0..3 /\ n = 4 * q + r
  BY SMT
<1>2. large \in Nat /\ large = r * q + r
  <2>1. r = 0 \/ r = 1 \/ r = 2 \/ r = 3
    BY <1>1
  <2> QED
    BY <1>1, <2>1
<1>3. \A k \in 1..n : Quarter(k, n) = IF k =< large THEN Large(k) ELSE Small(k)
  BY DEF Quarter
<1>4. q + 1 \in Nat \ {0}
  BY <1>1
<1>5. large < j => q \in Nat \ {0}
  BY <1>1, <1>2
<1> HIDE DEF q, r, large
<1>6. CASE j =< large
  <2>1. i - 1 \in Nat /\ j - 1 \in Nat /\ i - 1 =< j - 1 /\ i =< large
    BY <1>2, <1>6
  <2>2. /\ (i - 1) \div (q + 1) \in Nat /\ (j - 1) \div (q + 1) \in Nat
        /\ (i - 1) \div (q + 1) =< (j - 1) \div (q + 1)
    BY <1>4, <2>1, DivKeepsOrder
  <2>3. 1 =< Large(i) /\ Large(i) =< Large(j)
    BY <2>2
  <2> QED BY <1>3, <1>6, <2>1, <2>3
<1>7. CASE large < i
  <2>1. /\ i - large - 1 \in Nat /\ j - large - 1 \in Nat
        /\ i - large - 1 =< j - large - 1
        /\ ~(i =< large) /\ ~(j =< large) /\ large < j
    BY <1>2, <1>7
  <2>2. /\ (i - large - 1) \div q \in Nat /\ (j - large - 1) \div q \in Nat
        /\ (i - large - 1) \div q =< (j - large - 1) \div q
    BY <1>5, <2>1, DivKeepsOrder
  <2>3. 1 =< Small(i) /\ Small(i) =< Small(j)
    BY <1>1, <2>2
  <2> QED BY <1>3, <2>1, <2>3
<1>8. CASE i =< large /\ large < j
  <2>1. /\ i - 1 \in Nat /\ large \in Nat /\ i - 1 =< large /\ j - large - 1 \in Nat
        /\ ~(j =< large)
    BY <1>2, <1>8
  <2>2. /\ (i - 1) \div (q + 1) \in Nat /\ (i - 1) \div (q + 1) =< large \div (q + 1)
    BY <1>4, <2>1, DivKeepsOrder
  <2>3. large \div (q + 1) = r
    <3>1. r \in Nat
      BY <1>1
    <3> DEFINE m == q + 1
    <3>2. m \in Nat \ {0} /\ large = r * m
      BY <1>4 DEF large
    <3> HIDE DEF m
    <3>3. (r * m) \div m = r
      BY <3>1, <3>2
    <3> QED BY <3>2, <3>3 DEF m
  <2>4. 0 \div q = 0 /\ (j - large - 1) \div q \in Nat
    BY <1>5, <1>8, <2>1, DivKeepsOrder
  <2>5. 1 =< Large(i) /\ Large(i) =< Small(j)
    BY <1>1, <2>2, <2>3, <2>4
  <2> QED BY <1>3, <1>8, <2>1, <2>5
<1> QED BY <1>2, <1>6, <1>7, <1>8

\* Scores are numbers, and chrome pages have none once they are cleared.
ScoreInv ==
  /\ indices \in Seq(Nat) /\ pagerank \in [Title -> Nat]
  /\ stage = "cleared" => \A t \in Chrome : pagerank[t] = 0

LEMMA ScoreInit == RankInit => ScoreInv
BY DEF RankInit, Init, ScoreInv

LEMMA WriteScoresKeepsScores ==
  ASSUME ScoreInv, WriteScores
  PROVE  ScoreInv'
<1>1. \A i : Score(i) \in Nat
  <2> SUFFICES ASSUME NEW i PROVE Score(i) \in Nat
    OBVIOUS
  <2> DEFINE K == {k \in DOMAIN indices : indices[k] = i}
  <2>1. DOMAIN indices = 1..Len(indices) /\ Len(indices) \in Nat
    BY LenProperties DEF ScoreInv
  <2>2. IsFiniteSet(1..Len(indices)) /\ K \in SUBSET (1..Len(indices))
    BY <2>1, FS_Interval
  <2>3. Cardinality(K) \in Nat
    BY <2>2, FS_Subset, FS_CardinalityType
  <2> QED BY <2>3 DEF Score
<1>2. pagerank' \in [Title -> Nat]
  BY <1>1 DEF WriteScores, ScoreInv
<1> QED BY <1>2 DEF WriteScores, ScoreInv, vars

LEMMA ScanRowKeepsScores ==
  ASSUME LinkInv, ScoreInv, ScanRow
  PROVE  indices' \in Seq(Nat)
<1>1. /\ \A t \in DOMAIN index : index[t] \in Nat
      /\ scan \in Seq([doc : Title, links : SUBSET Title]) /\ scan # <<>>
  BY DEF ScanRow, LinkInv, ListInv, ScanInv
<1>2. Head(scan).links \in SUBSET Title
  <2>1. Head(scan) \in [doc : Title, links : SUBSET Title]
    BY <1>1, HeadTailProperties
  <2> QED BY <2>1
<1>3. Hits(Head(scan).links) \in Seq(Nat)
  BY <1>1, <1>2, HitsAreTargets
<1>4. indices' = indices \o Hits(Head(scan).links)
  BY DEF ScanRow
<1> QED BY <1>3, <1>4 DEF ScoreInv

LEMMA ScoreStep ==
  ASSUME LinkInv, ScoreInv, [RankNext]_rankVars
  PROVE  ScoreInv'
<1>1. CASE UNCHANGED <<indices, pagerank, stage>>
  BY <1>1 DEF ScoreInv
<1>2. CASE (Build \/ Grow) /\ UNCHANGED <<ranks, frontier>>
  <2>1. CASE ScanRow
    BY <1>2, <2>1, ScanRowKeepsScores DEF ScoreInv, ranks
  <2>2. CASE UNCHANGED indices
    BY <1>1, <1>2, <2>2 DEF ranks
  <2> QED
    BY <1>2, <2>1, <2>2
    DEF Build, Grow, ListDocs, ReadRedirects, Resolve, ResolveAlias, OpenScan, SkipRow,
        CloseRows, AddDoc, Rewrite, AddRedirect, Write, graph
<1>3. CASE \E t \in Title : /\ RemoveDoc(t) /\ pagerank' = [pagerank EXCEPT ![t] = 0]
                            /\ UNCHANGED <<priority, stage, frontier>>
  <2>1. UNCHANGED <<indices, stage>>
    BY <1>3 DEF RemoveDoc, Write, graph
  <2>2. /\ pagerank' \in [Title -> Nat]
        /\ \A t \in Title : pagerank[t] = 0 => pagerank'[t] = 0
    BY <1>3 DEF ScoreInv
  <2> QED BY <2>1, <2>2, TitleAssumption DEF ScoreInv
<1>4. CASE \E t \in Title : Services(t)
  BY <1>1, <1>4 DEF Services, Report, Discover, Write, graph
<1>5. CASE WriteScores
  BY <1>5, WriteScoresKeepsScores
<1>6. CASE ClearChrome
  BY <1>6, TitleAssumption DEF ClearChrome, ScoreInv, vars
<1>7. CASE RankRows
  BY <1>7 DEF RankRows, ScoreInv, vars
<1>8. CASE CountLinks \/ ApplyTier \/ ApplyFloor
  BY <1>1, <1>8 DEF CountLinks, ApplyTier, ApplyFloor, vars, ranks
<1>9. CASE UNCHANGED rankVars
  BY <1>1, <1>9 DEF rankVars, vars, ranks
<1> QED
  BY <1>2, <1>3, <1>4, <1>5, <1>6, <1>7, <1>8, <1>9 DEF RankNext, Scripts

LEMMA ScoreInvariant == RankSpec => []ScoreInv
BY ScoreInit, ScoreStep, LinkInvariant, PTL DEF RankSpec

\* Of two ranked pages the one with the higher score gets the earlier quarter, and
\* no quarter comes before the reported rows.
LEMMA RankRowsOrders ==
  ASSUME RowInv, ScoreInv, RankRows, NEW t \in docs, NEW u \in docs,
         HasRow(t), HasRow(u), pagerank[t] > pagerank[u], pagerank[u] > 0,
         priority[t] > Edited, priority[u] > Edited
  PROVE  Edited < priority'[t] /\ priority'[t] =< priority'[u]
<1>0. t \in Title /\ u \in Title /\ pagerank[t] \in Nat /\ pagerank[u] \in Nat
  BY DEF RowInv, ScoreInv
<1>1. t \in Ranked /\ u \in Ranked /\ \A x \in Ranked : pagerank[x] \in Nat
  BY <1>0 DEF Ranked, RowInv, ScoreInv
<1>2. PICK order \in SetToSeqs(Ranked) :
        /\ \A i, j \in DOMAIN order : i < j => pagerank[order[i]] >= pagerank[order[j]]
        /\ priority' = [x \in Title |->
             IF HasRow(x) /\ x \in Ranked /\ priority[x] > Edited
               THEN 20 * Quarter(CHOOSE i \in DOMAIN order : order[i] = x, Len(order))
               ELSE priority[x]]
  BY DEF RankRows
<1> DEFINE place(x) == CHOOSE i \in DOMAIN order : order[i] = x
           n == Len(order)
<1>3. IsFiniteSet(Ranked)
  BY TitleAssumption, FS_Subset DEF Ranked, RowInv
<1>4. n \in Nat /\ DOMAIN order = 1..n
  <2>1. Cardinality(Ranked) \in Nat /\ DOMAIN order = 1..Cardinality(Ranked)
        /\ order \in Seq(Ranked)
    BY <1>3, FS_CardinalityType DEF SetToSeqs
  <2> QED BY <2>1
<1>5. \A x \in Ranked : place(x) \in 1..n /\ order[place(x)] = x
  <2> SUFFICES ASSUME NEW x \in Ranked PROVE place(x) \in 1..n /\ order[place(x)] = x
    OBVIOUS
  <2>1. \E i \in DOMAIN order : order[i] = x
    BY <1>2, <1>3, SeqsCover
  <2> QED BY <2>1, <1>4
<1>6. /\ priority'[t] = 20 * Quarter(place(t), n)
      /\ priority'[u] = 20 * Quarter(place(u), n)
  BY <1>0, <1>1, <1>2
<1> HIDE DEF place, n
<1>7. place(t) =< place(u)
  <2>1. place(t) \in Nat /\ place(u) \in Nat
    BY <1>1, <1>4, <1>5
  <2>2. ASSUME place(u) < place(t) PROVE FALSE
    <3>1. pagerank[order[place(u)]] >= pagerank[order[place(t)]]
      BY <1>1, <1>2, <1>4, <1>5, <2>2
    <3>2. pagerank[u] >= pagerank[t]
      BY <1>1, <1>5, <3>1
    <3> QED BY <1>0, <3>2
  <2> QED BY <2>1, <2>2
<1>8. /\ Quarter(place(t), n) \in Nat /\ Quarter(place(u), n) \in Nat
      /\ 1 =< Quarter(place(t), n) /\ Quarter(place(t), n) =< Quarter(place(u), n)
  BY <1>1, <1>4, <1>5, <1>7, QuarterIsNumber, QuarterKeepsOrder
<1>9. Edited \in Nat /\ Edited < 20
  BY TierAssumption
<1> QED BY <1>6, <1>8, <1>9

\* pagerank.main: where it has ranked the rows, the more central page comes no
\* later, none comes before a reported one, and chrome pages stay where they were,
\* for every graph and whatever others wrote between its three statements.
THEOREM CentralPagesFirst == RankSpec => CentralComeFirst
<1>1. ASSUME RowInv, ScoreInv, [RankNext]_rankVars, stage = "cleared", stage' = "ranked"
      PROVE  /\ \A t, u \in docs :
                  /\ HasRow(t) /\ HasRow(u) /\ pagerank[t] > pagerank[u]
                  /\ pagerank[u] > 0 /\ priority[t] > Edited /\ priority[u] > Edited
                  => Edited < priority'[t] /\ priority'[t] =< priority'[u]
             /\ \A t \in Chrome : priority'[t] = priority[t]
  <2>1. RankRows
    BY <1>1
    DEF RankNext, Scripts, WriteScores, ClearChrome, CountLinks, ApplyTier, ApplyFloor,
        Services, Report, Discover, rankVars, ranks
  <2>2. \A t \in Chrome : t \in Title \ Ranked
    BY <1>1, TitleAssumption DEF ScoreInv, Ranked
  <2> QED BY <1>1, <2>1, <2>2, RankRowsOrders, RankRowsWrites
<1> QED BY <1>1, RowInvariant, ScoreInvariant, PTL DEF RankSpec, CentralComeFirst
===============================================================================
