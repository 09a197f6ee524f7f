----------------------------- MODULE FetchPolicy -----------------------------
(***************************************************************************)
(* crawl.py: the rate limiter and the circuit breaker that every fetch of  *)
(* the crawler passes, with the semaphore of crawler.fetch_batch and the   *)
(* breaker check of the crawler's loop.                                    *)
(*                                                                         *)
(* The tasks of a batch run in one event loop: a step of a task is what it *)
(* does between two awaits, and the tasks interleave at the awaits (the    *)
(* semaphore, the limiter's sleep, the request).  Time is the monotonic    *)
(* clock; a sleep may end late, an answer may take any time.               *)
(***************************************************************************)
EXTENDS Integers, Sequences, FiniteSetsExt

CONSTANTS BatchSize,     \* BATCH
          Concurrency,   \* crawl_concurrency
          Interval,      \* crawl_min_interval_ms
          Threshold, Cooldown, Window,  \* of the breaker
          Nap,           \* the loop sleeps at most this long (30 s)
          MaxTime,       \* bound: the clock
          MaxBatches     \* bound: batches fetched

ASSUME PolicyAssumption ==
  /\ BatchSize \in Nat \ {0} /\ Concurrency \in Nat \ {0}
  /\ Interval \in Nat /\ Threshold \in Nat \ {0}
  /\ Cooldown \in Nat /\ Window \in Nat /\ Nap \in Nat
  /\ MaxTime \in Nat /\ MaxBatches \in Nat

Task == 1..BatchSize

VARIABLES
  now,        \* time.monotonic()
  nextAt,     \* RateLimiter._next_at
  failures,   \* CircuitBreaker._failures
  openUntil,  \* CircuitBreaker._open_until
  task,       \* where each task of the batch is
  slot,       \* the slot each task reserved
  wake,       \* when the loop's own sleep ends
  batches,
  slots,      \* history: the slots granted, in order
  sends,      \* history: when requests went out, in order
  failed,     \* history: when requests failed in a row, since the last success or
              \* the last opening
  sentOpen    \* history: requests that went out while the breaker was open,
              \* counted from its last opening

limiter == <<nextAt, slots>>
breaker == <<failures, openUntil, failed>>
vars    == <<now, nextAt, failures, openUntil, task, slot, wake, batches, slots,
             sends, failed, sentOpen>>

Init ==
  /\ now = 0 /\ nextAt = 0
  /\ failures = <<>> /\ openUntil = 0
  /\ task = [t \in Task |-> "done"] /\ slot = [t \in Task |-> 0]
  /\ wake = 0 /\ batches = 0
  /\ slots = <<>> /\ sends = <<>> /\ failed = <<>> /\ sentOpen = 0

IsOpen == now < openUntil

Latest(a, b)   == IF a >= b THEN a ELSE b
Earliest(a, b) == IF a =< b THEN a ELSE b

\* The times less than Window ago.  The clock never goes back, so they are those
\* after the last one that is not.
Old(times)    == {i \in DOMAIN times : now - times[i] >= Window}
Recent(times) == SubSeq(times, Max({0} \cup Old(times)) + 1, Len(times))

Tick ==
  /\ now < MaxTime
  /\ now' = now + 1
  /\ UNCHANGED <<limiter, breaker, task, slot, wake, batches, sends, sentOpen>>

-------------------------------------------------------------------------------
(* The loop of crawler.main: asyncio.run per batch.                        *)

Idle == (\A t \in Task : task[t] = "done") /\ now >= wake

StartBatch ==
  /\ Idle /\ ~IsOpen /\ batches < MaxBatches
  /\ task' = [t \in Task |-> "queued"]
  /\ batches' = batches + 1
  /\ UNCHANGED <<now, limiter, breaker, slot, wake, sends, sentOpen>>

DropBatch ==
  /\ Idle /\ IsOpen
  /\ wake' = now + Earliest(openUntil - now, Nap)
  /\ UNCHANGED <<now, limiter, breaker, task, slot, batches, sends, sentOpen>>

-------------------------------------------------------------------------------
(* The tasks.                                                              *)

Running == {t \in Task : task[t] \in {"reserved", "sent"}}

\* asyncio.Semaphore wakes its waiters in order.
MutantAdmitted(t) ==
  /\ task[t] = "queued"
  /\ Cardinality(Running) =< Concurrency
  /\ \A u \in Task : u < t => task[u] # "queued"
Admitted(t) ==
  /\ task[t] = "queued"
  /\ Cardinality(Running) < Concurrency
  /\ \A u \in Task : u < t => task[u] # "queued"

Skip(t) ==
  /\ Admitted(t) /\ IsOpen
  /\ task' = [task EXCEPT ![t] = "done"]
  /\ UNCHANGED <<now, limiter, breaker, slot, wake, batches, sends, sentOpen>>

\* acquire: no await between reading the clock and storing _next_at.
MutantSlot == now
Slot == Latest(now, nextAt)

Reserve(t) ==
  /\ Admitted(t) /\ ~IsOpen
  /\ slot' = [slot EXCEPT ![t] = Slot]
  /\ nextAt' = Slot + Interval
  /\ slots' = Append(slots, Slot)
  /\ task' = [task EXCEPT ![t] = "reserved"]
  /\ UNCHANGED <<now, breaker, wake, batches, sends, sentOpen>>

\* The sleep is over.  The breaker is not looked at again.
MutantMaySend(t) == task[t] = "reserved"
MaySend(t) == task[t] = "reserved" /\ now >= slot[t]

Send(t) ==
  /\ MaySend(t)
  /\ task' = [task EXCEPT ![t] = "sent"]
  /\ sends' = Append(sends, now)
  /\ sentOpen' = IF IsOpen THEN sentOpen + 1 ELSE sentOpen
  /\ UNCHANGED <<now, limiter, breaker, slot, wake, batches>>

\* Any answer but 429 and 5xx: record_success, which ends the row of failures.
Succeed(t) ==
  /\ task[t] = "sent"
  /\ task' = [task EXCEPT ![t] = "done"]
  /\ failures' = <<>> /\ failed' = <<>>
  /\ UNCHANGED <<now, limiter, openUntil, slot, wake, batches, sends, sentOpen>>

\* 429, 5xx, or no answer: record_failure.
MutantKept == failures
Kept == Recent(failures)
Opens == Len(Kept) + 1 >= Threshold

Fail(t) ==
  /\ task[t] = "sent"
  /\ task' = [task EXCEPT ![t] = "done"]
  /\ \/ /\ Opens
        /\ openUntil' = now + Cooldown
        /\ failures' = <<>> /\ failed' = <<>>
        /\ sentOpen' = IF IsOpen THEN sentOpen ELSE 0
     \/ /\ ~Opens
        /\ failures' = Append(Kept, now) /\ failed' = Append(failed, now)
        /\ UNCHANGED <<openUntil, sentOpen>>
  /\ UNCHANGED <<now, limiter, slot, wake, batches, sends>>

TaskStep(t) == Skip(t) \/ Reserve(t) \/ Send(t) \/ Succeed(t) \/ Fail(t)

Next == Tick \/ StartBatch \/ DropBatch \/ \E t \in Task : TaskStep(t)

Spec == Init /\ [][Next]_vars

-------------------------------------------------------------------------------
(* Properties.                                                             *)

\* The types of the variables.
TypeOK ==
  /\ now \in Nat /\ nextAt \in Nat /\ openUntil \in Nat
  /\ failures \in Seq(Nat)
  /\ task \in [Task -> {"queued", "reserved", "sent", "done"}]
  /\ slot \in [Task -> Nat]
  /\ wake \in Nat /\ batches \in Nat
  /\ slots \in Seq(Nat) /\ sends \in Seq(Nat) /\ failed \in Seq(Nat)
  /\ sentOpen \in Nat

\* RateLimiter: however the tasks interleave, within a batch and from one
\* batch to the next, slots lie at least an interval apart.
SlotsSpaced ==
  \A i, j \in 1..Len(slots) : i < j => slots[j] >= slots[i] + Interval

\* Sleeps that end late can bunch requests up.  Over any stretch of time that
\* bunching is at most the tasks the semaphore lets run on top of the rate the
\* limiter allows.
BurstBounded ==
  \A i, j \in 1..Len(sends) :
    i =< j => (j - i - Concurrency) * Interval =< sends[j] - sends[i]

\* At most Concurrency - 1 requests leave after the breaker has opened: those
\* whose task had passed the check before.
BackedOff == sentOpen < Concurrency

\* The breaker opens on the Threshold-th failure in a row within the window, that
\* one or none: failures older than the window never stop the crawler, and ones
\* within it always do.  In a row, since one success clears the window: "10 times
\* 429/5xx in a minute" (README.md:464) stop nothing if any answer between was fine.
Outage == Len(Recent(failed)) + 1 >= Threshold

OpensOnOutage ==
  [][/\ openUntil' # openUntil => Outage
     /\ \A t \in Task : Fail(t) /\ Outage => openUntil' = now + Cooldown]_vars
===============================================================================
