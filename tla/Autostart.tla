------------------------------ MODULE Autostart ------------------------------
(***************************************************************************)
(* scripts/autostart_embed.py, the start-up task that runs the embedder to *)
(* the end of the queue, counts what is left, has repair_unembedded.py     *)
(* publish the leftovers again, and removes itself when nothing is left;   *)
(* with repair_unembedded.py, composed with Embedder.                      *)
(*                                                                         *)
(* The embedder runs (with --once) only inside a round of the task.  Its   *)
(* exit code is not looked at.  The power may go at any step.              *)
(***************************************************************************)
EXTENDS Embedder, FiniteSets

CONSTANTS MaxRounds,   \* MAX_ROUNDS
          MaxOutages   \* bound: times the database is out of reach

ASSUME RoundAssumption == MaxRounds \in Nat \ {0} /\ MaxOutages \in Nat
ASSUME ChunkAssumption == IsFiniteSet(Chunk)

VARIABLES
  installed,  \* the launcher is in the start-up folder
  stage,      \* what main is doing; "off" when it is not running
  round, left,
  toSend,     \* rows read by find_unembedded and not sent yet
  outages

task     == <<installed, stage, round, left, toSend, outages>>
embedder == vars
allVars  == <<embedder, task>>

AutoInit ==
  /\ Init
  /\ installed = TRUE /\ stage = "off"
  /\ round = 1 /\ left = 0
  /\ toSend = {} /\ outages = 0

-------------------------------------------------------------------------------
(* main.                                                                   *)

\* SELECT count( * ) FROM chunks WHERE embedded_at IS NULL
MutantLeft == Cardinality({c \in Chunk : AnnouncedAfter(c, committed)})
Left == Cardinality({c \in Chunk : Unembedded(c)})

LogOn ==
  /\ stage = "off" /\ installed
  /\ stage' = "wait"
  /\ UNCHANGED <<embedder, installed, round, left, toSend, outages>>

Uninstall == installed' = FALSE /\ stage' = "off"

\* wait_for_db answered: start the first round, or finish.
FirstCount ==
  /\ stage = "wait"
  /\ left' = Left /\ round' = 1
  /\ IF Left = 0 THEN Uninstall ELSE stage' = "embed" /\ UNCHANGED installed
  /\ UNCHANGED <<embedder, toSend, outages>>

\* No answer: the registration stays for the next log-on.
DbUnreachable ==
  /\ stage \in {"wait", "count"} /\ outages < MaxOutages
  /\ stage' = "off"
  /\ outages' = outages + 1
  /\ UNCHANGED <<embedder, installed, round, left, toSend>>

\* One step of the embedder that main started.
Embeds ==
  /\ stage = "embed"
  /\ \/ AwaitPoll \/ EndAwait \/ Poll \/ DeletePoints \/ FilterDone \/ Encode \/ Upsert \/ Mark
     \/ Commit \/ CommitLost \/ FlushFails \/ FlushProducer \/ LetterLeaves \/ IdleFlush
  /\ UNCHANGED task

\* PollLoop, --once: the queue has been dry for a while.  main's last flush of
\* the producer may time out like the others.
EmbedderDrains ==
  /\ stage = "embed"
  /\ pc = "poll" /\ position = Len(ready) /\ toDelete = {}
  /\ pc' = "join"
  /\ stage' = "count"
  /\ ProducerEnds
  /\ UNCHANGED <<db, ready, offsets, pending, toDelete, qdrant, bounds>>
  /\ UNCHANGED <<installed, round, left, toSend, outages>>

\* The embedder dies (watchdog, no Kafka, no partition in time).
EmbedderDies ==
  /\ stage = "embed"
  /\ Crash
  /\ stage' = "count"
  /\ UNCHANGED <<installed, round, left, toSend, outages>>

NextRound == IF round = MaxRounds THEN stage' = "off" /\ UNCHANGED round
                                  ELSE stage' = "embed" /\ round' = round + 1

\* As many are left as before the round.
MutantStalled == FALSE
Stalled == Left = left

CountAgain ==
  /\ stage = "count"
  /\ left' = Left
  /\ \/ /\ Left = 0
        /\ Uninstall /\ UNCHANGED round
     \/ /\ Left # 0 /\ Stalled
        /\ stage' = "repair" /\ UNCHANGED <<installed, round>>
     \/ /\ Left # 0 /\ ~Stalled
        /\ NextRound /\ UNCHANGED installed
  /\ UNCHANGED <<embedder, toSend, outages>>

-------------------------------------------------------------------------------
(* repair_unembedded.py: one query, then one message per row it returned.  *)

FindUnembedded ==
  /\ stage = "repair"
  /\ toSend' = {[chunk |-> c, hash |-> row[c]] : c \in {d \in Chunk : Unembedded(d)}}
  /\ stage' = "resend"
  /\ UNCHANGED <<embedder, installed, round, left, outages>>

Resend(m) ==
  /\ stage = "resend" /\ m \in toSend
  /\ Publish(m.chunk, m.hash)
  /\ toSend' = toSend \ {m}
  /\ UNCHANGED <<db, committed, local, qdrant, letters, bounds>>
  /\ UNCHANGED <<installed, stage, round, left, outages>>

\* A delivery fails: flush() only returns a number nobody reads.
ResendFails(m) ==
  /\ stage = "resend" /\ m \in toSend
  /\ faults < MaxFaults
  /\ faults' = faults + 1
  /\ toSend' = toSend \ {m}
  /\ UNCHANGED <<db, ready, committed, local, qdrant, letters, crashes>>
  /\ UNCHANGED <<installed, stage, round, left, outages>>

RepairEnds ==
  /\ stage = "resend" /\ toSend = {}
  /\ NextRound
  /\ UNCHANGED <<embedder, installed, left, toSend, outages>>

PowerOff ==
  /\ stage # "off"
  /\ Crash
  /\ stage' = "off" /\ toSend' = {}
  /\ UNCHANGED <<installed, round, left, outages>>

-------------------------------------------------------------------------------
(* The specifications.                                                     *)

Resends == \E m \in toSend : Resend(m) \/ ResendFails(m)

TaskStep == \/ LogOn \/ FirstCount \/ DbUnreachable \/ Embeds \/ EmbedderDrains
            \/ EmbedderDies \/ CountAgain \/ FindUnembedded \/ Resends \/ RepairEnds
            \/ PowerOff

Parses == UNCHANGED task /\ \E c \in Chunk : Settled(c) /\ ParserStep(c)

\* The parser runs only while the task does not.  (Beside it, a page parsed
\* between the query of repair_unembedded and its message is followed by its
\* older content, and FinishedIsIndexed does not hold.)
ApartNext == TaskStep \/ (stage = "off" /\ installed /\ Parses)
ApartSpec == AutoInit /\ [][ApartNext]_allVars

\* Somebody logs on again, the database comes back, programs take their steps.
AutoFairness ==
  /\ WF_allVars(LogOn) /\ WF_allVars(FirstCount) /\ WF_allVars(Embeds)
  /\ WF_allVars(EmbedderDrains) /\ WF_allVars(CountAgain)
  /\ WF_allVars(FindUnembedded) /\ WF_allVars(Resends) /\ WF_allVars(RepairEnds)

FairApartSpec == ApartSpec /\ AutoFairness

-------------------------------------------------------------------------------
(* Properties.                                                             *)

\* "When the embedding is done it removes itself": at that moment Qdrant holds
\* the content of every row, although main has only counted a column, the
\* embedder's exit code is ignored and its batches may have failed.
FinishedIsIndexed ==
  [][installed /\ ~installed' =>
       \A c \in Chunk : row[c] # Absent => qdrant[c] = row[c]]_allVars

\* The task ends: what fell into embed.dlq is published and embedded again,
\* whatever crashed, until nothing is left and the launcher is gone.
JobFinishes == <>~installed
===============================================================================
