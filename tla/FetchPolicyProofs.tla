-------------------------- MODULE FetchPolicyProofs --------------------------
(***************************************************************************)
(* Proofs about FetchPolicy.tla, for every batch size, concurrency,        *)
(* interval, threshold, cooldown and window: the limiter spaces its slots  *)
(* and bounds bursts, the breaker opens on an outage only, and once open   *)
(* lets out at most the requests whose tasks had already passed it.        *)
(***************************************************************************)
EXTENDS FetchPolicy, TLAPS, FiniteSetTheorems, SequenceTheorems,
        WellFoundedInduction

-------------------------------------------------------------------------------
(* The limiter.                                                            *)

\* _next_at is an interval past every slot granted so far.
LimiterInv ==
  /\ now \in Nat /\ nextAt \in Nat
  /\ slots \in Seq(Nat)
  /\ \A i \in 1..Len(slots) : slots[i] + Interval =< nextAt
  /\ SlotsSpaced

LEMMA LimiterInit == Init => LimiterInv
BY DEF Init, LimiterInv, SlotsSpaced

LEMMA LimiterStep == LimiterInv /\ [Next]_vars => LimiterInv'
<1> SUFFICES ASSUME LimiterInv, [Next]_vars PROVE LimiterInv'
  OBVIOUS
<1> USE PolicyAssumption
<1>1. CASE Tick
  BY <1>1 DEF Tick, limiter, LimiterInv, SlotsSpaced
<1>2. CASE StartBatch \/ DropBatch
  BY <1>2 DEF StartBatch, DropBatch, limiter, LimiterInv, SlotsSpaced
<1>3. ASSUME NEW t \in Task, Skip(t) \/ Send(t) \/ Succeed(t) \/ Fail(t) PROVE LimiterInv'
  BY <1>3 DEF Skip, Send, Succeed, Fail, limiter, LimiterInv, SlotsSpaced
<1>4. ASSUME NEW t \in Task, Reserve(t) PROVE LimiterInv'
  <2>1. /\ now' = now /\ nextAt' = Slot + Interval /\ slots' = Append(slots, Slot)
    BY <1>4 DEF Reserve
  <2>2. Slot \in Nat /\ nextAt =< Slot
    BY DEF LimiterInv, Slot, Latest
  <2>3. /\ slots' \in Seq(Nat) /\ Len(slots') = Len(slots) + 1
        /\ slots'[Len(slots) + 1] = Slot
        /\ \A i \in 1..Len(slots) : slots'[i] = slots[i] /\ slots[i] \in Nat
    BY <2>1, <2>2 DEF LimiterInv
  <2>4. ASSUME NEW i \in 1..Len(slots) PROVE slots'[i] + Interval =< Slot
    <3>1. slots'[i] = slots[i] /\ slots[i] \in Nat
      BY <2>3
    <3>2. slots[i] + Interval =< nextAt /\ nextAt \in Nat
      BY DEF LimiterInv
    <3> QED BY <2>2, <3>1, <3>2
  <2>5. \A i \in 1..Len(slots') : i \in 1..Len(slots) \/ i = Len(slots) + 1
    BY <2>3 DEF LimiterInv
  <2>6. (\A i \in 1..Len(slots) : slots[i] + Interval =< nextAt)'
    BY <2>1, <2>2, <2>3, <2>4, <2>5 DEF LimiterInv
  <2>7. SlotsSpaced'
    <3> SUFFICES ASSUME NEW i \in 1..Len(slots'), NEW j \in 1..Len(slots'), i < j
                 PROVE  slots'[j] >= slots'[i] + Interval
      BY DEF SlotsSpaced
    <3>0. Len(slots) \in Nat
      BY DEF LimiterInv
    <3>1. CASE j \in 1..Len(slots)
      <4>1. i \in 1..Len(slots)
        BY <3>0, <3>1, <2>3
      <4>2. slots[j] >= slots[i] + Interval
        BY <3>1, <4>1 DEF LimiterInv, SlotsSpaced
      <4> QED BY <3>1, <4>1, <4>2, <2>3
    <3>2. CASE j = Len(slots) + 1
      <4>1. i \in 1..Len(slots)
        BY <3>0, <3>2, <2>3
      <4>2. slots'[i] + Interval =< Slot /\ slots'[i] \in Nat
        BY <4>1, <2>3, <2>4
      <4> QED BY <3>2, <4>2, <2>2, <2>3
    <3> QED BY <3>1, <3>2, <2>5
  <2> QED BY <2>1, <2>2, <2>3, <2>6, <2>7 DEF LimiterInv
<1>5. CASE UNCHANGED vars
  BY <1>5 DEF vars, LimiterInv, SlotsSpaced
<1> QED BY <1>1, <1>2, <1>3, <1>4, <1>5 DEF Next, TaskStep

\* RateLimiter.acquire: any two slots, of whichever tasks and batches, lie at
\* least an interval apart.
THEOREM LimiterSpacesSlots == Spec => []SlotsSpaced
<1>1. LimiterInv => SlotsSpaced
  BY DEF LimiterInv
<1> QED BY LimiterInit, LimiterStep, <1>1, PTL DEF Spec

-------------------------------------------------------------------------------
(* The breaker.                                                            *)

Reserved == {t \in Task : task[t] = "reserved"}

\* A task that has reserved a slot will send whether or not the breaker opens
\* meanwhile: it is counted as if it already had.
BreakerInv ==
  /\ now \in Nat /\ openUntil \in Nat /\ sentOpen \in Nat
  /\ task \in [Task -> {"queued", "reserved", "sent", "done"}]
  /\ Cardinality(Running) =< Concurrency
  /\ IsOpen => sentOpen + Cardinality(Reserved) < Concurrency
  /\ BackedOff

\* Sets of tasks are finite, and the reserved ones are running.
LEMMA TaskSets ==
  ASSUME NEW S \in SUBSET Task
  PROVE  IsFiniteSet(S) /\ Cardinality(S) \in Nat
<1>1. IsFiniteSet(Task)
  BY PolicyAssumption, FS_Interval DEF Task
<1> QED BY <1>1, FS_Subset, FS_CardinalityType

LEMMA SmallerSet ==
  ASSUME NEW S \in SUBSET Task, NEW T \in SUBSET S
  PROVE  Cardinality(T) =< Cardinality(S)
BY TaskSets, FS_Subset

LEMMA OneFewer ==
  ASSUME NEW S \in SUBSET Task, NEW t \in S
  PROVE  Cardinality(S \ {t}) = Cardinality(S) - 1
BY TaskSets, FS_RemoveElement

LEMMA OneMore ==
  ASSUME NEW S \in SUBSET Task, NEW t \in Task
  PROVE  Cardinality(S \cup {t}) =< Cardinality(S) + 1
BY TaskSets, FS_AddElement

LEMMA BreakerInit == Init => BreakerInv
<1> SUFFICES ASSUME Init PROVE BreakerInv
  OBVIOUS
<1>1. Running = {}
  BY DEF Init, Running
<1>2. Cardinality(Running) = 0
  BY <1>1, FS_EmptySet
<1>3. ~IsOpen
  BY DEF Init, IsOpen
<1> QED BY <1>2, <1>3, PolicyAssumption DEF Init, BreakerInv, BackedOff

LEMMA BreakerStep == BreakerInv /\ [Next]_vars => BreakerInv'
<1> SUFFICES ASSUME BreakerInv, [Next]_vars PROVE BreakerInv'
  OBVIOUS
<1> USE PolicyAssumption
<1>0. /\ Running \in SUBSET Task /\ Reserved \in SUBSET Running
      /\ Cardinality(Running) \in Nat /\ Cardinality(Reserved) \in Nat
  BY TaskSets DEF Running, Reserved
<1>1. CASE Tick
  <2>1. /\ now' = now + 1 /\ Running' = Running /\ Reserved' = Reserved
        /\ UNCHANGED <<openUntil, sentOpen, task>>
    BY <1>1 DEF Tick, breaker, Running, Reserved
  <2>2. IsOpen' => IsOpen
    BY <2>1 DEF IsOpen, BreakerInv
  <2> QED BY <2>1, <2>2 DEF BreakerInv, BackedOff
<1>2. CASE StartBatch
  <2>1. /\ UNCHANGED <<now, openUntil, sentOpen>> /\ ~IsOpen
        /\ task' = [t \in Task |-> "queued"]
    BY <1>2 DEF StartBatch, breaker
  <2>2. Running' = {}
    BY <2>1 DEF Running
  <2>3. Cardinality(Running') = 0
    BY <2>2, FS_EmptySet
  <2>4. ~IsOpen'
    BY <2>1 DEF IsOpen
  <2> QED BY <2>1, <2>3, <2>4 DEF BreakerInv, BackedOff
<1>3. CASE DropBatch \/ UNCHANGED vars
  <2>1. UNCHANGED <<now, openUntil, sentOpen, task>>
    BY <1>3 DEF DropBatch, breaker, vars
  <2>2. Running' = Running /\ Reserved' = Reserved /\ IsOpen' = IsOpen
    BY <2>1 DEF Running, Reserved, IsOpen
  <2> QED BY <2>1, <2>2 DEF BreakerInv, BackedOff
<1>4. ASSUME NEW t \in Task, Skip(t) \/ Succeed(t) PROVE BreakerInv'
  <2>1. /\ UNCHANGED <<now, openUntil, sentOpen>>
        /\ task' = [task EXCEPT ![t] = "done"]
    BY <1>4 DEF Skip, Succeed, breaker
  <2>2. Running' \in SUBSET Running /\ Reserved' \in SUBSET Reserved
    BY <2>1 DEF Running, Reserved, BreakerInv
  <2>3. /\ Cardinality(Running') =< Cardinality(Running) /\ Cardinality(Running') \in Nat
        /\ Cardinality(Reserved') =< Cardinality(Reserved) /\ Cardinality(Reserved') \in Nat
    BY <1>0, <2>2, SmallerSet, TaskSets
  <2>4. IsOpen' = IsOpen
    BY <2>1 DEF IsOpen
  <2>5. task' \in [Task -> {"queued", "reserved", "sent", "done"}]
    BY <2>1 DEF BreakerInv
  <2> QED BY <1>0, <2>1, <2>3, <2>4, <2>5 DEF BreakerInv, BackedOff
<1>5. ASSUME NEW t \in Task, Reserve(t) PROVE BreakerInv'
  <2>1. /\ UNCHANGED <<now, openUntil, sentOpen>> /\ ~IsOpen
        /\ Cardinality(Running) < Concurrency
        /\ task' = [task EXCEPT ![t] = "reserved"]
    BY <1>5 DEF Reserve, Admitted, breaker
  <2>2. Running' = Running \cup {t}
    BY <2>1 DEF Running, BreakerInv
  <2>3. Cardinality(Running') =< Cardinality(Running) + 1 /\ Cardinality(Running') \in Nat
    BY <1>0, <2>2, OneMore, TaskSets
  <2>4. ~IsOpen'
    BY <2>1 DEF IsOpen
  <2>5. task' \in [Task -> {"queued", "reserved", "sent", "done"}]
    BY <2>1 DEF BreakerInv
  <2> QED BY <1>0, <2>1, <2>3, <2>4, <2>5 DEF BreakerInv, BackedOff
<1>6. ASSUME NEW t \in Task, Send(t) PROVE BreakerInv'
  <2>1. /\ UNCHANGED <<now, openUntil>> /\ task[t] = "reserved"
        /\ task' = [task EXCEPT ![t] = "sent"]
        /\ sentOpen' = IF IsOpen THEN sentOpen + 1 ELSE sentOpen
    BY <1>6 DEF Send, MaySend, breaker
  <2>2. Running' = Running /\ Reserved' = Reserved \ {t} /\ t \in Reserved
    BY <2>1 DEF Running, Reserved, BreakerInv
  <2>3. Cardinality(Reserved') = Cardinality(Reserved) - 1
    BY <1>0, <2>2, OneFewer
  <2>4. Cardinality(Reserved') \in Nat
    BY <1>0, <2>2, TaskSets
  <2>5. IsOpen' = IsOpen
    BY <2>1 DEF IsOpen
  <2>6. task' \in [Task -> {"queued", "reserved", "sent", "done"}]
    BY <2>1 DEF BreakerInv
  <2> QED BY <1>0, <2>1, <2>2, <2>3, <2>4, <2>5, <2>6 DEF BreakerInv, BackedOff
<1>7. ASSUME NEW t \in Task, Fail(t) PROVE BreakerInv'
  <2>1. /\ now' = now /\ task[t] = "sent" /\ task' = [task EXCEPT ![t] = "done"]
    BY <1>7 DEF Fail
  <2>2. /\ Running' = Running \ {t} /\ t \in Running /\ Reserved' = Reserved
        /\ Reserved \in SUBSET (Running \ {t})
    BY <2>1 DEF Running, Reserved, BreakerInv
  <2>3. Cardinality(Running') = Cardinality(Running) - 1
    BY <1>0, <2>2, OneFewer
  <2>4. Cardinality(Reserved) =< Cardinality(Running')
    BY <1>0, <2>2, SmallerSet
  <2>5. task' \in [Task -> {"queued", "reserved", "sent", "done"}]
    BY <2>1 DEF BreakerInv
  <2>6. CASE UNCHANGED <<openUntil, sentOpen>>
    BY <1>0, <2>1, <2>2, <2>3, <2>5, <2>6 DEF BreakerInv, BackedOff, IsOpen
  <2>7. CASE openUntil' = now + Cooldown /\ sentOpen' = IF IsOpen THEN sentOpen ELSE 0
    BY <1>0, <2>1, <2>2, <2>3, <2>4, <2>5, <2>7 DEF BreakerInv, BackedOff
  <2> QED BY <1>7, <2>6, <2>7 DEF Fail
<1> QED BY <1>1, <1>2, <1>3, <1>4, <1>5, <1>6, <1>7 DEF Next, TaskStep

\* CircuitBreaker with fetch_document's check: once it opens, at most
\* Concurrency - 1 requests still leave, whatever the tasks, the clock and the
\* answers do.
THEOREM BreakerBacksOff == Spec => []BackedOff
<1>1. BreakerInv => BackedOff
  BY DEF BreakerInv
<1> QED BY BreakerInit, BreakerStep, <1>1, PTL DEF Spec

-------------------------------------------------------------------------------
(* Bursts.                                                                 *)

\* What n intervals take.
Gap(n) == n * Interval

LEMMA Gaps ==
  /\ Gap(0) = 0
  /\ \A n \in Nat : Gap(n) \in Nat /\ Gap(n + 1) = Gap(n) + Interval
  /\ \A n \in Int : n < 0 => Gap(n) \in Int /\ Gap(n) =< 0
<1>1. ASSUME NEW n \in Nat PROVE Gap(n) \in Nat /\ Gap(n + 1) = Gap(n) + Interval
  BY PolicyAssumption DEF Gap
<1>2. ASSUME NEW n \in Int, n < 0 PROVE Gap(n) \in Int /\ Gap(n) =< 0
  <2> DEFINE m == 0 - n
  <2>1. m \in Nat /\ n = 0 - m
    BY <1>2
  <2> HIDE DEF m
  <2>2. m * Interval \in Nat /\ (0 - m) * Interval = 0 - m * Interval
    BY <2>1, PolicyAssumption
  <2> QED BY <2>1, <2>2 DEF Gap
<1>3. Gap(0) = 0
  BY PolicyAssumption DEF Gap
<1> QED BY <1>1, <1>2, <1>3

\* The reserved tasks whose slot is not before x.
Holding(x) == {t \in Reserved : slot[t] >= x}

\* Every slot granted is used by a request or held by a reserved task.
SlotsUsed == Len(slots) = Len(sends) + Cardinality(Reserved)

\* Requests leave in the order of time, the n-th not before the n-th slot.
SendsFollow ==
  /\ \A i \in 1..Len(sends) : sends[i] =< now
  /\ \A i, j \in 1..Len(sends) : i =< j => sends[i] =< sends[j]
  /\ \A j \in 1..Len(sends) : slots[j] =< sends[j]

\* A slot still to come, and each granted after it, is held by a task.
FutureIsHeld ==
  \A k \in 1..Len(slots) :
    slots[k] > now => Len(slots) - k + 1 =< Cardinality(Holding(slots[k]))

\* A slot Concurrency or more after a request was granted after it had left, and
\* lies an interval later for each slot in between.
SlotsFollow ==
  \A i \in 1..Len(sends), k \in 1..Len(slots) :
    k >= i + Concurrency => slots[k] >= sends[i] + Gap(k - i - Concurrency)

BurstInv ==
  /\ LimiterInv /\ BreakerInv
  /\ sends \in Seq(Nat) /\ slot \in [Task -> Nat]
  /\ SlotsUsed /\ SendsFollow /\ FutureIsHeld /\ SlotsFollow

LEMMA BurstInit == Init => BurstInv
<1> SUFFICES ASSUME Init PROVE BurstInv
  OBVIOUS
<1>1. Reserved = {} /\ Cardinality({}) = 0
  BY FS_EmptySet DEF Init, Reserved
<1>2. Len(slots) = 0 /\ Len(sends) = 0
  BY DEF Init
<1> QED BY <1>1, <1>2, LimiterInit, BreakerInit
        DEF Init, BurstInv, SlotsUsed, SendsFollow, FutureIsHeld, SlotsFollow

LEMMA ReservedSets ==
  /\ IsFiniteSet(Reserved) /\ Cardinality(Reserved) \in Nat
  /\ \A x : /\ Holding(x) \in SUBSET Task /\ Holding(x) \in SUBSET Reserved
            /\ Cardinality(Holding(x)) \in Nat
            /\ Cardinality(Holding(x)) =< Cardinality(Reserved)
<1>1. Reserved \in SUBSET Task /\ \A x : Holding(x) \in SUBSET Reserved
  BY DEF Reserved, Holding
<1> QED BY <1>1, TaskSets, SmallerSet

\* A step that grants no slot and sends no request.
LEMMA BurstQuiet ==
  ASSUME BurstInv, LimiterInv', BreakerInv', now =< now', now' \in Nat,
         UNCHANGED <<slots, sends, slot>>, Reserved' = Reserved
  PROVE  BurstInv'
<1>1. slots \in Seq(Nat) /\ sends \in Seq(Nat) /\ now \in Nat
  BY DEF BurstInv, LimiterInv
<1>2. \A i \in 1..Len(sends) : sends[i] \in Nat
  BY <1>1
<1>3. \A k \in 1..Len(slots) : slots[k] \in Nat
  BY <1>1
<1>4. SlotsUsed' /\ SendsFollow' /\ SlotsFollow'
  BY <1>1, <1>2 DEF BurstInv, SlotsUsed, SendsFollow, SlotsFollow
<1>5. \A x : Holding(x)' = Holding(x)
  BY DEF Holding
<1>6. FutureIsHeld'
  <2> SUFFICES ASSUME NEW k \in 1..Len(slots), slots[k] > now'
               PROVE  Len(slots) - k + 1 =< Cardinality(Holding(slots[k])')
    BY DEF FutureIsHeld
  <2>1. slots[k] > now
    BY <1>1, <1>3
  <2> QED BY <1>5, <2>1 DEF BurstInv, FutureIsHeld, Holding
<1> QED BY <1>4, <1>6 DEF BurstInv

LEMMA BurstReserve ==
  ASSUME BurstInv, LimiterInv', BreakerInv', NEW t \in Task, Reserve(t)
  PROVE  BurstInv'
<1> DEFINE n == Len(slots)
<1>1. /\ slots \in Seq(Nat) /\ sends \in Seq(Nat) /\ now \in Nat /\ n \in Nat /\ Len(sends) \in Nat
      /\ \A k \in 1..n : slots[k] \in Nat
      /\ \A i \in 1..Len(sends) : sends[i] \in Nat
      /\ slot \in [Task -> Nat]
  BY DEF BurstInv, LimiterInv
<1>2. /\ now' = now /\ sends' = sends
      /\ slots' = Append(slots, Slot) /\ slot' = [slot EXCEPT ![t] = Slot]
      /\ Reserved' = Reserved \cup {t} /\ t \notin Reserved
  BY DEF Reserve, Admitted, Reserved, BurstInv, BreakerInv
<1>3. /\ Slot \in Nat /\ now =< Slot
      /\ \A k \in 1..n : slots[k] + Interval =< Slot
  BY <1>1, PolicyAssumption DEF BurstInv, LimiterInv, Slot, Latest
<1>4. PICK s \in Nat : s = Slot
  BY <1>3
<1>5. /\ Len(slots') = n + 1 /\ slots'[n + 1] = s
      /\ \A k \in 1..n : slots'[k] = slots[k]
      /\ \A k \in 1..(n + 1) : k \in 1..n \/ k = n + 1
      /\ slot' = [slot EXCEPT ![t] = s]
  BY <1>1, <1>2, <1>4
<1>6. Cardinality(Reserved') = Cardinality(Reserved) + 1
  BY <1>2, ReservedSets, FS_AddElement
\* The semaphore lets fewer than Concurrency tasks run, and t is not one of them.
<1>7. n + 1 =< Len(sends) + Concurrency /\ n + 1 >= 1
  <2>1. Cardinality(Running) < Concurrency /\ Cardinality(Reserved) =< Cardinality(Running)
        /\ Cardinality(Running) \in Nat
    <3>1. Running \in SUBSET Task /\ Reserved \in SUBSET Running
      BY DEF Running, Reserved
    <3> QED BY <3>1, TaskSets, SmallerSet DEF Reserve, Admitted
  <2> QED BY <1>1, <2>1, ReservedSets, PolicyAssumption DEF BurstInv, SlotsUsed
<1>8. SlotsUsed'
  BY <1>1, <1>2, <1>5, <1>6, ReservedSets DEF BurstInv, SlotsUsed
<1>9. SendsFollow'
  <2>1. \A j \in 1..Len(sends) : j \in 1..n
    BY <1>1, ReservedSets DEF BurstInv, SlotsUsed
  <2> QED BY <1>2, <1>5, <2>1 DEF BurstInv, SendsFollow
<1>10. FutureIsHeld'
  <2> SUFFICES ASSUME NEW k \in 1..(n + 1), slots'[k] > now, NEW x, x = slots'[k]
               PROVE  (n + 1) - k + 1 =< Cardinality(Holding(x)')
    BY <1>2, <1>5 DEF FutureIsHeld, Holding
  <2>1. t \in Holding(x)' /\ Holding(x) \subseteq Holding(x)' /\ t \notin Holding(x)
    <3>1. x \in Nat /\ x =< s
      <4>1. CASE k \in 1..n
        <5>1. x = slots[k] /\ slots[k] \in Nat /\ slots[k] + Interval =< s
          BY <1>1, <1>3, <1>4, <1>5, <4>1
        <5> QED BY <5>1, PolicyAssumption
      <4>2. CASE k = n + 1
        BY <1>5, <4>2
      <4> QED BY <1>5, <4>1, <4>2
    <3>2. slot'[t] = s /\ \A u \in Reserved : slot'[u] = slot[u] /\ u \in Reserved'
      BY <1>1, <1>2, <1>5 DEF Reserved
    <3> QED BY <1>2, <1>4, <3>1, <3>2 DEF Holding
  <2>2. Holding(x)' \in SUBSET Task /\ Holding(x) \cup {t} \in SUBSET Holding(x)'
    BY <2>1 DEF Holding, Reserved
  <2>3. /\ Cardinality(Holding(x) \cup {t}) = Cardinality(Holding(x)) + 1
        /\ Cardinality(Holding(x) \cup {t}) =< Cardinality(Holding(x)')
        /\ Cardinality(Holding(x)) \in Nat /\ Cardinality(Holding(x)') \in Nat
    BY <2>1, <2>2, ReservedSets, TaskSets, SmallerSet, FS_AddElement
  <2>4. CASE k \in 1..n
    <3>1. n - k + 1 =< Cardinality(Holding(x))
      BY <1>5, <2>4 DEF BurstInv, FutureIsHeld
    <3> QED BY <1>1, <2>3, <2>4, <3>1
  <2>5. CASE k = n + 1
    BY <1>1, <2>3, <2>5
  <2> QED BY <1>5, <2>4, <2>5
<1>11. SlotsFollow'
  <2> SUFFICES ASSUME NEW i \in 1..Len(sends), NEW k \in 1..(n + 1), k >= i + Concurrency
               PROVE  slots'[k] >= sends[i] + Gap(k - i - Concurrency)
    BY <1>2, <1>5 DEF SlotsFollow, Gap
  <2>0. i \in Nat \ {0} /\ k \in Nat \ {0} /\ n \in Nat /\ sends[i] \in Nat
    BY <1>1
  <2>1. CASE k \in 1..n
    BY <1>5, <2>1 DEF BurstInv, SlotsFollow
  <2>2. CASE k = n + 1 /\ k = i + Concurrency
    <3>1. k - i - Concurrency = 0
      BY <2>0, <2>2, PolicyAssumption
    <3>2. sends[i] =< s
      <4>1. sends[i] =< now
        BY DEF BurstInv, SendsFollow
      <4> QED BY <1>1, <1>3, <1>4, <2>0, <4>1
    <3>3. Gap(0) = 0
      BY Gaps
    <3>4. s >= sends[i] + Gap(0)
      <4>1. sends[i] + 0 = sends[i]
        BY <2>0
      <4> QED BY <3>2, <3>3, <4>1
    <3> QED BY <1>5, <2>2, <3>1, <3>4
  <2>3. CASE k = n + 1 /\ k # i + Concurrency
    <3> DEFINE m == n - i - Concurrency
    <3>0. n >= i + Concurrency
      BY <2>0, <2>3, PolicyAssumption
    <3>1. /\ m \in Nat /\ k - i - Concurrency = m + 1
          /\ n \in 1..n /\ n >= i + Concurrency
      BY <2>0, <2>3, <3>0, PolicyAssumption
    <3>2. slots[n] >= sends[i] + Gap(m)
      BY <3>1 DEF BurstInv, SlotsFollow
    <3>3. slots[n] + Interval =< s /\ slots[n] \in Nat /\ sends[i] \in Nat
      BY <1>1, <1>3, <1>4, <3>1
    <3> HIDE DEF m, n
    <3>4. Gap(m) \in Nat /\ Gap(m + 1) = Gap(m) + Interval
      BY <3>1, Gaps
    <3>5. s >= sends[i] + Gap(m + 1)
      BY <1>4, <3>2, <3>3, <3>4, PolicyAssumption
    <3> QED BY <1>5, <2>3, <3>1, <3>5
  <2> QED BY <1>5, <2>1, <2>2, <2>3
<1>12. sends' \in Seq(Nat) /\ slot' \in [Task -> Nat]
  BY <1>1, <1>2, <1>3
<1> QED BY <1>8, <1>9, <1>10, <1>11, <1>12 DEF BurstInv

LEMMA BurstSend ==
  ASSUME BurstInv, LimiterInv', BreakerInv', NEW t \in Task, Send(t)
  PROVE  BurstInv'
<1> DEFINE n == Len(sends)
<1>1. /\ slots \in Seq(Nat) /\ sends \in Seq(Nat) /\ now \in Nat /\ n \in Nat /\ Len(slots) \in Nat
      /\ \A k \in 1..Len(slots) : slots[k] \in Nat
      /\ \A i \in 1..n : sends[i] \in Nat
      /\ slot \in [Task -> Nat]
  BY DEF BurstInv, LimiterInv
<1>2. /\ UNCHANGED <<now, slots, slot>> /\ sends' = Append(sends, now)
      /\ t \in Reserved /\ slot[t] =< now /\ Reserved' = Reserved \ {t}
  BY <1>1 DEF Send, MaySend, Reserved, limiter, BurstInv, BreakerInv
<1>3. /\ Len(sends') = n + 1 /\ sends'[n + 1] = now
      /\ \A i \in 1..n : sends'[i] = sends[i]
      /\ \A i \in 1..(n + 1) : i \in 1..n \/ i = n + 1
  BY <1>1, <1>2
<1>4. /\ Cardinality(Reserved') = Cardinality(Reserved) - 1
      /\ Cardinality(Reserved') \in Nat /\ Cardinality(Reserved) \in Nat
  <2>1. Reserved \in SUBSET Task /\ Reserved' \in SUBSET Task
    BY DEF Reserved
  <2> QED BY <1>2, <2>1, OneFewer, TaskSets
<1>5. SlotsUsed' /\ n + 1 \in 1..Len(slots)
  BY <1>1, <1>2, <1>3, <1>4 DEF BurstInv, SlotsUsed
\* Nobody holds the next slot and those after it but the reserved tasks, of which
\* t, whose slot has come, is one: the next slot has come too.
<1>6. slots[n + 1] =< now
  <2> SUFFICES ASSUME slots[n + 1] > now PROVE FALSE
    BY <1>1, <1>5
  <2> DEFINE x == slots[n + 1]
  <2>1. Len(slots) - (n + 1) + 1 =< Cardinality(Holding(x))
    BY <1>5 DEF BurstInv, FutureIsHeld
  <2>2. x \in Nat
    BY <1>1, <1>5
  <2> HIDE DEF x
  <2>3. Holding(x) \in SUBSET (Reserved \ {t}) /\ Reserved \ {t} \in SUBSET Task
    BY <1>1, <1>2, <2>2 DEF Holding, Reserved, x
  <2>4. Cardinality(Holding(x)) =< Cardinality(Reserved) - 1
    BY <1>2, <1>4, <2>3, SmallerSet
  <2> QED BY <1>1, <1>4, <2>1, <2>4, ReservedSets DEF BurstInv, SlotsUsed
<1>7. SendsFollow'
  BY <1>1, <1>2, <1>3, <1>6 DEF BurstInv, SendsFollow
<1>8. FutureIsHeld'
  <2> SUFFICES ASSUME NEW k \in 1..Len(slots), slots[k] > now, NEW x, x = slots[k]
               PROVE  Len(slots) - k + 1 =< Cardinality(Holding(x)')
    BY <1>2 DEF FutureIsHeld, Holding
  <2>1. Holding(x)' = Holding(x)
    <3>1. x \in Nat /\ ~(slot[t] >= x)
      BY <1>1, <1>2
    <3> QED BY <1>2, <3>1 DEF Holding
  <2> QED BY <2>1 DEF BurstInv, FutureIsHeld
<1>9. SlotsFollow'
  <2> SUFFICES ASSUME NEW i \in 1..(n + 1), NEW k \in 1..Len(slots), k >= i + Concurrency
               PROVE  slots[k] >= sends'[i] + Gap(k - i - Concurrency)
    BY <1>2, <1>3 DEF SlotsFollow, Gap
  <2>1. i \in 1..n
    <3>1. Cardinality(Reserved) =< Concurrency
      <4>1. Running \in SUBSET Task /\ Reserved \in SUBSET Running
        BY DEF Running, Reserved
      <4>2. /\ Cardinality(Reserved) =< Cardinality(Running) /\ Cardinality(Running) \in Nat
            /\ Cardinality(Running) =< Concurrency
        BY <4>1, SmallerSet, TaskSets DEF BurstInv, BreakerInv
      <4> QED BY <1>4, <4>2, PolicyAssumption
    <3> QED BY <1>1, <1>4, <3>1, PolicyAssumption DEF BurstInv, SlotsUsed
  <2> QED BY <1>3, <2>1 DEF BurstInv, SlotsFollow
<1>10. sends' \in Seq(Nat)
  BY <1>1, <1>2
<1> QED BY <1>1, <1>2, <1>5, <1>7, <1>8, <1>9, <1>10 DEF BurstInv

LEMMA BurstStep == BurstInv /\ [Next]_vars => BurstInv'
<1> SUFFICES ASSUME BurstInv, [Next]_vars PROVE BurstInv'
  OBVIOUS
<1>1. LimiterInv' /\ BreakerInv' /\ now \in Nat /\ now' \in Nat
  BY LimiterStep, BreakerStep DEF BurstInv, LimiterInv
<1>2. CASE Tick \/ StartBatch \/ DropBatch \/ UNCHANGED vars
  <2>1. UNCHANGED <<slots, sends, slot>> /\ now =< now'
    BY <1>1, <1>2 DEF Tick, StartBatch, DropBatch, limiter, vars
  <2>2. Reserved' = Reserved
    BY <1>2 DEF Tick, StartBatch, Idle, DropBatch, vars, Reserved
  <2> QED BY <1>1, <2>1, <2>2, BurstQuiet
<1>3. ASSUME NEW t \in Task, Skip(t) \/ Succeed(t) \/ Fail(t) PROVE BurstInv'
  <2>1. UNCHANGED <<slots, sends, slot, now>> /\ task[t] \in {"queued", "sent"}
        /\ task' = [task EXCEPT ![t] = "done"]
    BY <1>3 DEF Skip, Admitted, Succeed, Fail, limiter
  <2>2. Reserved' = Reserved
    BY <2>1 DEF Reserved, BurstInv, BreakerInv
  <2> QED BY <1>1, <2>1, <2>2, BurstQuiet
<1> QED BY <1>1, <1>2, <1>3, BurstReserve, BurstSend DEF Next, TaskStep

\* RateLimiter with the semaphore: over any stretch of requests, bunching after
\* late sleeps is at most Concurrency requests on top of the limiter's rate.
THEOREM BurstsAreBounded == Spec => []BurstBounded
<1>1. BurstInv => BurstBounded
  <2> SUFFICES ASSUME BurstInv, NEW i \in 1..Len(sends), NEW j \in 1..Len(sends), i =< j
               PROVE  Gap(j - i - Concurrency) =< sends[j] - sends[i]
    BY DEF BurstBounded, Gap
  <2>1. /\ sends[i] \in Nat /\ sends[j] \in Nat /\ sends[i] =< sends[j]
        /\ j \in 1..Len(slots) /\ slots[j] \in Nat /\ slots[j] =< sends[j]
    <3>1. Len(sends) \in Nat /\ Len(slots) \in Nat /\ Len(sends) =< Len(slots)
      BY ReservedSets DEF BurstInv, LimiterInv, SlotsUsed
    <3>2. j \in 1..Len(slots)
      BY <3>1
    <3>3. slots[j] \in Nat
      BY <3>2 DEF BurstInv, LimiterInv
    <3>4. sends[i] \in Nat /\ sends[j] \in Nat
      BY DEF BurstInv
    <3>5. sends[i] =< sends[j] /\ slots[j] =< sends[j]
      BY DEF BurstInv, SendsFollow
    <3> QED BY <3>2, <3>3, <3>4, <3>5
  <2>2. CASE j >= i + Concurrency
    <3> DEFINE m == j - i - Concurrency
    <3>1. slots[j] >= sends[i] + Gap(m)
      BY <2>1, <2>2 DEF BurstInv, SlotsFollow
    <3>2. m \in Nat
      BY <2>2, PolicyAssumption
    <3> HIDE DEF m
    <3>3. Gap(m) \in Nat
      BY <3>2, Gaps
    <3>4. Gap(m) =< sends[j] - sends[i]
      BY <2>1, <3>1, <3>3
    <3> QED BY <3>4 DEF m
  <2>3. CASE ~(j >= i + Concurrency)
    <3> DEFINE m == j - i - Concurrency
    <3>1. m \in Int /\ m < 0
      BY <2>3, PolicyAssumption
    <3> HIDE DEF m
    <3>2. Gap(m) \in Int /\ Gap(m) =< 0
      BY <3>1, Gaps
    <3>3. Gap(m) =< sends[j] - sends[i]
      BY <2>1, <3>2
    <3> QED BY <3>3 DEF m
  <2> QED BY <2>2, <2>3
<1> QED BY BurstInit, BurstStep, <1>1, PTL DEF Spec

-------------------------------------------------------------------------------
(* The breaker opens on an outage and not otherwise.                       *)

\* A nonempty set of numbers with an upper bound has a greatest element.
LEMMA MaxExists ==
  ASSUME NEW n \in Nat, NEW S \in SUBSET (0..n), S # {}
  PROVE  Max(S) \in S /\ \A j \in S : j =< Max(S)
<1> DEFINE T == {k \in Nat : \E i \in S : k = n - i}
<1>1. \A i \in S : n - i \in T
  OBVIOUS
<1>2. T \subseteq Nat /\ T # {}
  BY <1>1
<1>3. PICK x \in T : \A y \in T : ~(<<y, x>> \in OpToRel(<, Nat))
  BY <1>2, NatLessThanWellFounded, WFMin
<1>4. \A y \in T : ~(y < x)
  BY <1>2, <1>3 DEF OpToRel
<1>5. PICK i \in S : x = n - i
  OBVIOUS
<1>6. \A j \in S : i >= j
  <2> SUFFICES ASSUME NEW j \in S PROVE i >= j
    OBVIOUS
  <2>1. ~(n - j < n - i)
    BY <1>1, <1>4, <1>5
  <2> QED BY <2>1
<1>7. Max(S) \in S /\ \A j \in S : Max(S) >= j
  BY <1>6 DEF Max
<1>8. \A j \in S : j \in Nat
  OBVIOUS
<1> QED BY <1>7, <1>8

\* What a sequence of times keeps of itself: all that comes after the last one
\* that is too old.
LastOld(times) == Max({0} \cup Old(times))

LEMMA RecentFacts ==
  ASSUME NEW times \in Seq(Nat), now \in Nat
  PROVE  /\ Len(times) \in Nat /\ LastOld(times) \in 0..Len(times)
         /\ LastOld(times) # 0 => LastOld(times) \in Old(times)
         /\ \A i \in Old(times) : i =< LastOld(times)
         /\ Recent(times) \in Seq(Nat)
         /\ Len(Recent(times)) = Len(times) - LastOld(times)
         /\ \A i \in 1..Len(Recent(times)) : Recent(times)[i] = times[LastOld(times) + i]
<1> DEFINE n == Len(times)
           S == {0} \cup Old(times)
           m == LastOld(times)
<1>1. n \in Nat /\ DOMAIN times = 1..n
  OBVIOUS
<1>2. S \in SUBSET (0..n) /\ S # {}
  BY <1>1 DEF Old
<1>3. m \in S /\ \A j \in S : j =< m
  <2> HIDE DEF S, n
  <2>1. Max(S) \in S /\ \A j \in S : j =< Max(S)
    BY <1>1, <1>2, MaxExists
  <2> QED BY <2>1 DEF LastOld, S
<1>4. m \in 0..n /\ (m # 0 => m \in Old(times)) /\ \A i \in Old(times) : i =< m
  BY <1>2, <1>3
<1>5. Recent(times) = SubSeq(times, m + 1, n)
  BY DEF Recent, LastOld
<1> HIDE DEF m, n, S
<1>6. /\ SubSeq(times, m + 1, n) \in Seq(Nat)
      /\ Len(SubSeq(times, m + 1, n)) = n - m
      /\ \A i \in 1..(n - m) : SubSeq(times, m + 1, n)[i] = times[m + i]
  <2>1. m + 1 \in 1..(n + 1) /\ n \in m..n /\ m \in Nat
    BY <1>1, <1>4
  <2>2. n = Len(times)
    BY DEF n
  <2>3. \A i \in (m + 1)..n : i \in 1..n
    BY <1>1, <2>1
  <2>4. \A i \in (m + 1)..n : times[i] \in Nat
    BY <2>2, <2>3
  <2> DEFINE r == SubSeq(times, m + 1, n)
  <2>5. /\ r \in Seq(Nat)
        /\ Len(r) = IF m + 1 =< n THEN n - (m + 1) + 1 ELSE 0
        /\ \A i \in 1..(n - (m + 1) + 1) : r[i] = times[(m + 1) + i - 1]
    BY <1>1, <2>1, <2>4, SubSeqProperties
  <2> HIDE DEF r
  <2>6. Len(r) = n - m /\ n - (m + 1) + 1 = n - m
    BY <1>1, <2>1, <2>5
  <2>7. ASSUME NEW i \in 1..(n - m) PROVE r[i] = times[m + i]
    <3>1. (m + 1) + i - 1 = m + i
      BY <2>1
    <3> QED BY <2>5, <2>6, <3>1
  <2> QED BY <2>5, <2>6, <2>7 DEF r
<1> QED BY <1>1, <1>4, <1>5, <1>6 DEF m, n

\* The failures of the breaker are the last of those in a row: what it has dropped
\* is old, and stays so.
EndsWith(all, last) ==
  /\ Len(last) =< Len(all)
  /\ \A i \in 1..Len(last) : last[i] = all[Len(all) - Len(last) + i]

\* An entry at the end of both.
LEMMA AppendEnds ==
  ASSUME NEW all \in Seq(Nat), NEW last \in Seq(Nat), NEW x \in Nat,
         EndsWith(all, last)
  PROVE  /\ Append(all, x) \in Seq(Nat) /\ Append(last, x) \in Seq(Nat)
         /\ EndsWith(Append(all, x), Append(last, x))
<1> DEFINE A == Append(all, x)
           L == Append(last, x)
<1>1. /\ Len(all) \in Nat /\ Len(last) \in Nat /\ Len(last) =< Len(all)
      /\ \A i \in 1..Len(last) : last[i] = all[Len(all) - Len(last) + i]
  BY DEF EndsWith
<1>2. /\ A \in Seq(Nat) /\ L \in Seq(Nat)
      /\ Len(A) = Len(all) + 1 /\ Len(L) = Len(last) + 1
      /\ A[Len(all) + 1] = x /\ L[Len(last) + 1] = x
      /\ \A i \in 1..Len(all) : A[i] = all[i]
      /\ \A i \in 1..Len(last) : L[i] = last[i]
  BY AppendProperties
<1> HIDE DEF A, L
<1>3. ASSUME NEW i \in 1..Len(L) PROVE L[i] = A[Len(A) - Len(L) + i]
  <2>1. CASE i = Len(last) + 1
    <3>1. Len(A) - Len(L) + i = Len(all) + 1
      BY <1>1, <1>2, <2>1
    <3> QED BY <1>2, <2>1, <3>1
  <2>2. CASE i # Len(last) + 1
    <3>0. i \in 1..(Len(last) + 1) /\ i \in Nat
      BY <1>1, <1>2
    <3>1. /\ i \in 1..Len(last)
          /\ Len(A) - Len(L) + i = Len(all) - Len(last) + i
          /\ Len(all) - Len(last) + i \in 1..Len(all)
      <4> DEFINE a == Len(all)
                 b == Len(last)
      <4>1. a \in Nat /\ b \in Nat /\ b =< a /\ Len(A) = a + 1 /\ Len(L) = b + 1
            /\ i \in 1..(b + 1) /\ i # b + 1
        BY <1>1, <1>2, <2>2, <3>0
      <4> HIDE DEF a, b
      <4>2. i \in 1..b /\ Len(A) - Len(L) + i = a - b + i /\ a - b + i \in 1..a
        BY <4>1
      <4> QED BY <4>2 DEF a, b
    <3> QED BY <1>1, <1>2, <3>1
  <2> QED BY <2>1, <2>2
<1>4. Len(L) =< Len(A)
  BY <1>1, <1>2
<1>5. EndsWith(A, L)
  BY <1>3, <1>4 DEF EndsWith
<1> QED BY <1>2, <1>5 DEF A, L

Ascending == /\ \A i, j \in 1..Len(failures) : i =< j => failures[i] =< failures[j]
             /\ \A i \in 1..Len(failures) : failures[i] =< now
Dropped   == \A i \in 1..(Len(failed) - Len(failures)) : now - failed[i] >= Window

OutageInv ==
  /\ now \in Nat /\ failures \in Seq(Nat) /\ failed \in Seq(Nat)
  /\ EndsWith(failed, failures)
  /\ Ascending /\ Dropped

LEMMA OutageInit == Init => OutageInv
BY DEF Init, OutageInv, EndsWith, Ascending, Dropped

\* So that of the recent ones the breaker has no more than there were.
LEMMA RecentIsReal ==
  ASSUME OutageInv
  PROVE  Len(Recent(failures)) =< Len(Recent(failed))
<1> DEFINE k == Len(failed) - Len(failures)
           a == LastOld(failed)
           b == LastOld(failures)
<1>1. /\ Len(failures) \in Nat /\ Len(failed) \in Nat
      /\ a \in 0..Len(failed) /\ b \in 0..Len(failures)
      /\ Len(Recent(failures)) = Len(failures) - b
      /\ Len(Recent(failed)) = Len(failed) - a
      /\ a # 0 => a \in Old(failed)
      /\ \A i \in Old(failures) : i =< b
  BY RecentFacts DEF OutageInv
<1>2. k \in Nat
  BY <1>1 DEF OutageInv, EndsWith
<1>3. CASE a =< k
  <2> HIDE DEF a, b
  <2> QED BY <1>1, <1>3
<1>4. CASE ~(a =< k)
  <2>1. a \in Old(failed) /\ a - k \in 1..Len(failures)
    <3> HIDE DEF a, b
    <3> QED BY <1>1, <1>2, <1>4
  <2>2. failures[a - k] = failed[k + (a - k)]
    BY <2>1 DEF OutageInv, EndsWith
  <2>3. k + (a - k) = a
    <3> HIDE DEF a, k
    <3> QED BY <1>1, <1>2
  <2>4. a - k \in Old(failures)
    BY <2>1, <2>2, <2>3 DEF Old, OutageInv
  <2>5. a - k =< b
    BY <1>1, <2>4
  <2> HIDE DEF a, b
  <2> QED BY <1>1, <2>5
<1> QED BY <1>3, <1>4

\* And no fewer: what it dropped is older than the window.
LEMMA RecentIsAll ==
  ASSUME OutageInv
  PROVE  Len(Recent(failed)) =< Len(Recent(failures))
<1> DEFINE k == Len(failed) - Len(failures)
           a == LastOld(failed)
           b == LastOld(failures)
<1>1. /\ Len(failures) \in Nat /\ Len(failed) \in Nat
      /\ a \in 0..Len(failed) /\ b \in 0..Len(failures)
      /\ Len(Recent(failures)) = Len(failures) - b
      /\ Len(Recent(failed)) = Len(failed) - a
      /\ b # 0 => b \in Old(failures)
      /\ \A i \in Old(failed) : i =< a
  BY RecentFacts DEF OutageInv
<1>2. k \in Nat
  BY <1>1 DEF OutageInv, EndsWith
<1>3. k + b =< a
  <2>1. CASE b # 0
    <3>1. failures[b] = failed[k + b] /\ now - failures[b] >= Window
      <4>1. b \in Old(failures)
        BY <1>1, <2>1
      <4>2. b \in 1..Len(failures) /\ now - failures[b] >= Window
        <5> HIDE DEF b
        <5> QED BY <4>1 DEF Old
      <4>3. failures[b] = failed[k + b]
        <5> HIDE DEF b
        <5> QED BY <4>2 DEF OutageInv, EndsWith
      <4> QED BY <4>2, <4>3
    <3>2. k + b \in 1..Len(failed)
      <4> HIDE DEF b
      <4> QED BY <1>1, <1>2, <2>1
    <3>3. k + b \in Old(failed)
      BY <3>1, <3>2 DEF Old, OutageInv
    <3> QED BY <1>1, <3>3
  <2>2. CASE b = 0 /\ k # 0
    <3>1. k \in 1..k /\ k \in 1..Len(failed)
      BY <1>1, <1>2, <2>2
    <3>2. k \in Old(failed)
      BY <3>1 DEF Old, OutageInv, Dropped
    <3> QED BY <1>1, <2>2, <3>2
  <2>3. CASE b = 0 /\ k = 0
    <3> HIDE DEF a, b, k
    <3> QED BY <1>1, <2>3
  <2> QED BY <2>1, <2>2, <2>3
<1> HIDE DEF a, b
<1> QED BY <1>1, <1>2, <1>3

LEMMA OutageStep == OutageInv /\ [Next]_vars => OutageInv'
<1> SUFFICES ASSUME OutageInv, [Next]_vars PROVE OutageInv'
  OBVIOUS
<1>1. CASE UNCHANGED breaker /\ now' \in Nat /\ now' >= now
  <2>1. Ascending'
    <3>1. \A i \in 1..Len(failures) : failures[i] \in Nat
      BY DEF OutageInv
    <3> QED BY <1>1, <3>1 DEF OutageInv, Ascending, breaker
  <2>2. Dropped'
    <3>1. \A i \in 1..(Len(failed) - Len(failures)) : failed[i] \in Nat
      BY DEF OutageInv, EndsWith
    <3>2. Window \in Nat
      BY PolicyAssumption
    <3> QED BY <1>1, <3>1, <3>2 DEF OutageInv, Dropped, breaker
  <2> QED BY <1>1, <2>1, <2>2 DEF OutageInv, EndsWith, breaker
<1>2. CASE Tick \/ StartBatch \/ DropBatch
  BY <1>1, <1>2 DEF Tick, StartBatch, DropBatch, OutageInv
<1>3. ASSUME NEW t \in Task, Skip(t) \/ Reserve(t) \/ Send(t) PROVE OutageInv'
  BY <1>1, <1>3 DEF Skip, Reserve, Send, OutageInv
<1>4. CASE failures' = <<>> /\ failed' = <<>> /\ now' = now
  BY <1>4 DEF OutageInv, EndsWith, Ascending, Dropped
<1>5. CASE failures' = Append(Kept, now) /\ failed' = Append(failed, now) /\ now' = now
  <2> DEFINE l == LastOld(failures)
             m == Len(failures)
             n == Len(failed)
  <2>1. /\ m \in Nat /\ n \in Nat /\ m =< n /\ l \in 0..m /\ now \in Nat
        /\ Kept \in Seq(Nat) /\ Len(Kept) = m - l
        /\ \A i \in 1..Len(Kept) : Kept[i] = failures[l + i]
        /\ l # 0 => l \in Old(failures)
        /\ \A i \in 1..m : failures[i] = failed[n - m + i]
        /\ \A i \in 1..m : failures[i] \in Nat
    <3>1. failures \in Seq(Nat) /\ failed \in Seq(Nat) /\ now \in Nat
      BY DEF OutageInv
    <3>2. m \in Nat /\ n \in Nat /\ \A i \in 1..m : failures[i] \in Nat
      BY <3>1
    <3>3. m =< n /\ \A i \in 1..m : failures[i] = failed[n - m + i]
      BY DEF OutageInv, EndsWith
    <3> HIDE DEF l, m, n
    <3>4. /\ l \in 0..m /\ (l # 0 => l \in Old(failures))
          /\ Kept \in Seq(Nat) /\ Len(Kept) = m - l
          /\ \A i \in 1..Len(Kept) : Kept[i] = failures[l + i]
      BY <3>1, RecentFacts DEF Kept, l, m
    <3> QED BY <3>1, <3>2, <3>3, <3>4
  <2>2. \A i \in 1..l : now - failures[i] >= Window
    <3>1. l # 0 => now - failures[l] >= Window /\ l \in 1..m
      BY <2>1 DEF Old
    <3>2. Window \in Nat
      BY PolicyAssumption
    <3> HIDE DEF l, m
    <3> SUFFICES ASSUME NEW i \in 1..l PROVE now - failures[i] >= Window
      OBVIOUS
    <3>3. l # 0 /\ i =< l /\ i \in 1..m
      BY <2>1
    <3>4. failures[i] =< failures[l] /\ failures[i] \in Nat /\ failures[l] \in Nat
      BY <2>1, <3>1, <3>3 DEF OutageInv, Ascending, m
    <3> QED BY <2>1, <3>1, <3>2, <3>3, <3>4
  <2>3. \A i \in 1..(n - m + l) : now - failed[i] >= Window
    <3> SUFFICES ASSUME NEW i \in 1..(n - m + l) PROVE now - failed[i] >= Window
      OBVIOUS
    <3>1. CASE i \in 1..(n - m)
      BY <3>1 DEF OutageInv, Dropped
    <3>2. CASE i \notin 1..(n - m)
      <4> HIDE DEF l, m, n
      <4>1. PICK j \in 1..l : n - m + j = i
        <5>1. i - (n - m) \in 1..l /\ n - m + (i - (n - m)) = i
          BY <2>1, <3>2
        <5> QED BY <5>1
      <4>2. j \in 1..m
        BY <2>1, <4>1
      <4> QED BY <2>1, <2>2, <4>1, <4>2
    <3> QED BY <3>1, <3>2
  <2> HIDE DEF l, m, n
  <2>4. EndsWith(failed, Kept)
    <3>1. \A i \in 1..Len(Kept) : l + i \in 1..m /\ n - m + (l + i) = n - (m - l) + i
      BY <2>1
    <3> QED BY <2>1, <3>1 DEF EndsWith, n
  <2>5. /\ Append(Kept, now) \in Seq(Nat) /\ Append(failed, now) \in Seq(Nat)
        /\ EndsWith(Append(failed, now), Append(Kept, now))
    BY <2>1, <2>4, AppendEnds DEF OutageInv
  <2>6. /\ Len(failures') = m - l + 1 /\ Len(failed') = n + 1
        /\ failures'[m - l + 1] = now
        /\ \A i \in 1..(m - l) : failures'[i] = failures[l + i]
        /\ \A i \in 1..n : failed'[i] = failed[i]
    <3>1. /\ Len(Append(Kept, now)) = m - l + 1 /\ Append(Kept, now)[m - l + 1] = now
          /\ \A i \in 1..(m - l) : Append(Kept, now)[i] = Kept[i]
      BY <2>1, AppendProperties
    <3>2. /\ Len(Append(failed, now)) = n + 1
          /\ \A i \in 1..n : Append(failed, now)[i] = failed[i]
      BY <2>1, AppendProperties DEF OutageInv, n
    <3> QED BY <1>5, <2>1, <3>1, <3>2
  <2>7. Dropped'
    <3>1. Len(failed') - Len(failures') = n - m + l /\ \A i \in 1..(n - m + l) : i \in 1..n
      BY <2>1, <2>6
    <3> QED BY <1>5, <2>3, <2>6, <3>1 DEF Dropped
  <2>8. Ascending'
    <3>1. \A i \in 1..(m - l) : l + i \in 1..m
      BY <2>1
    <3>2. \A i \in 1..(m - l + 1) : i \in 1..(m - l) \/ i = m - l + 1
      BY <2>1
    <3>3. /\ \A i \in 1..(m - l) : failures'[i] =< now
          /\ \A i, j \in 1..(m - l) : i =< j => failures'[i] =< failures'[j]
      <4>1. \A i, j \in 1..(m - l) : i =< j => l + i =< l + j
        BY <2>1
      <4>2. /\ \A i \in 1..m : failures[i] =< now
            /\ \A i, j \in 1..m : i =< j => failures[i] =< failures[j]
        BY DEF OutageInv, Ascending, m
      <4> QED BY <2>6, <3>1, <4>1, <4>2
    <3>4. now =< now /\ \A i \in 1..(m - l) : ~(m - l + 1 =< i)
      BY <2>1
    <3> QED BY <1>5, <2>6, <3>2, <3>3, <3>4 DEF Ascending
  <2> QED BY <1>5, <2>1, <2>5, <2>7, <2>8 DEF OutageInv
<1>6. ASSUME NEW t \in Task, Succeed(t) \/ Fail(t) PROVE OutageInv'
  BY <1>4, <1>5, <1>6 DEF Succeed, Fail
<1>7. CASE UNCHANGED vars
  BY <1>1, <1>7 DEF vars, breaker, OutageInv
<1> QED BY <1>2, <1>3, <1>6, <1>7 DEF Next, TaskStep

LEMMA OutageInvariant == Spec => []OutageInv
BY OutageInit, OutageStep, PTL DEF Spec

\* CircuitBreaker.record_failure: for every threshold and window, the breaker opens
\* on as many failures in a row within the window as the threshold asks for, and
\* on no fewer; what is too old never counts.
THEOREM OpensOnOutages == Spec => OpensOnOutage
<1>1. ASSUME OutageInv, [Next]_vars
      PROVE  /\ openUntil' # openUntil => Outage
             /\ \A t \in Task : Fail(t) /\ Outage => openUntil' = now + Cooldown
  <2>1. Opens <=> Outage
    <3>1. Len(Recent(failures)) \in Nat /\ Len(Recent(failed)) \in Nat
      BY <1>1, RecentFacts DEF OutageInv
    <3> QED BY <1>1, <3>1, RecentIsReal, RecentIsAll DEF Opens, Kept, Outage
  <2>2. openUntil' # openUntil => \E t \in Task : Fail(t)
    BY <1>1 DEF Next, TaskStep, Tick, StartBatch, DropBatch, Skip, Reserve, Send, Succeed,
                breaker, vars
  <2>3. \A t \in Task : Fail(t) => \/ Opens /\ openUntil' = now + Cooldown
                                   \/ ~Opens /\ openUntil' = openUntil
    BY DEF Fail
  <2> QED BY <2>1, <2>2, <2>3
<1> QED BY <1>1, OutageInvariant, PTL DEF Spec, OpensOnOutage
===============================================================================
