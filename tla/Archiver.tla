------------------------------ MODULE Archiver ------------------------------
(***************************************************************************)
(* services/archiver/src/main.rs: rows collected from the decoded stream   *)
(* are buffered in two vectors and inserted into two ClickHouse tables.    *)
(*                                                                         *)
(* The task is a single loop: while flush runs nothing is collected.  A    *)
(* flush makes two attempts, each of which inserts both vectors, first the *)
(* positions, then the statics; only when both succeed are they cleared.   *)
(* A failed insert may have been applied all the same (the 30 s timeout,   *)
(* or a connection lost after the server committed).                       *)
(*                                                                         *)
(* Rows are numbered in the order they are collected; cut is history.      *)
(***************************************************************************)
EXTENDS Integers, Sequences, FiniteSets, SequencesExt

CONSTANTS
  FlushRows,     \* FLUSH_ROWS
  MaxBuffer,     \* MAX_BUFFER
  MaxRows,       \* bound of the model: rows collected
  MaxFailures    \* bound of the model: failed inserts

ASSUME BufferAssumption ==
  /\ FlushRows \in Nat \ {0} /\ MaxBuffer \in Nat
  /\ FlushRows <= MaxBuffer + 1   \* 5_000 and 200_000
ASSUME ArchiverBounds == MaxRows \in Nat /\ MaxFailures \in Nat

VARIABLES
  positions, statics,   \* the buffers
  step,                 \* "collect", "positions", "statics", "settle" or "stopped"
  attempt,              \* of the flush in progress
  results,              \* whether each insert of this attempt succeeded
  stopping,             \* the flush in progress is the last one
  collected, written, dropped,
  stored,               \* ClickHouse: how often each row was inserted
  cut,                  \* the rows dropped at the cap
  failures

vars == <<positions, statics, step, attempt, results, stopping, collected,
          written, dropped, stored, cut, failures>>
buffers == <<positions, statics>>
counters == <<collected, written, dropped>>

Row == 1..MaxRows
Buffered == ToSet(positions) \cup ToSet(statics)
Total == Len(positions) + Len(statics)

Init ==
  /\ positions = <<>> /\ statics = <<>>
  /\ step = "collect" /\ attempt = 1
  /\ results = [positions |-> TRUE, statics |-> TRUE]
  /\ stopping = FALSE
  /\ collected = 0 /\ written = 0 /\ dropped = 0
  /\ stored = [r \in Row |-> 0]
  /\ cut = {}
  /\ failures = 0

-----------------------------------------------------------------------------
StartFlush ==
  /\ step' = "positions"
  /\ attempt' = 1

\* A message arrives: collect, and flush when there are enough rows.
Collect ==
  /\ step = "collect" /\ collected < MaxRows
  /\ collected' = collected + 1
  /\ \/ positions' = Append(positions, collected') /\ UNCHANGED statics
     \/ statics' = Append(statics, collected') /\ UNCHANGED positions
  /\ IF Len(positions') + Len(statics') >= FlushRows
       THEN StartFlush
       ELSE UNCHANGED <<step, attempt>>
  /\ UNCHANGED <<results, stopping, written, dropped, stored, cut, failures>>

\* Mutation: the tick waits for a full buffer too.
FlushTickWhenFull ==
  /\ step = "collect" /\ Total >= FlushRows
  /\ StartFlush
  /\ UNCHANGED <<buffers, results, stopping, counters, stored, cut, failures>>

\* flush_tick.
FlushTick ==
  /\ step = "collect"
  /\ StartFlush
  /\ UNCHANGED <<buffers, results, stopping, counters, stored, cut, failures>>

\* The subscription ends or ctrl-c: one flush, then the process stops.
Stop ==
  /\ step = "collect"
  /\ StartFlush
  /\ stopping' = TRUE
  /\ UNCHANGED <<buffers, results, counters, stored, cut, failures>>

-----------------------------------------------------------------------------
\* ClickHouse::insert; no rows, no request.
Insert(table, rows) ==
  \/ /\ results' = [results EXCEPT ![table] = TRUE]
     /\ stored' = [r \in Row |-> IF r \in ToSet(rows) THEN stored[r] + 1
                                                      ELSE stored[r]]
     /\ UNCHANGED failures
  \/ /\ rows # <<>> /\ failures < MaxFailures
     /\ failures' = failures + 1
     /\ results' = [results EXCEPT ![table] = FALSE]
     /\ \/ UNCHANGED stored
        \/ stored' = [r \in Row |-> IF r \in ToSet(rows) THEN stored[r] + 1
                                                         ELSE stored[r]]

InsertPositions ==
  /\ step = "positions"
  /\ Insert("positions", positions)
  /\ step' = "statics"
  /\ UNCHANGED <<buffers, attempt, stopping, counters, cut>>

InsertStatics ==
  /\ step = "statics"
  /\ Insert("statics", statics)
  /\ step' = "settle"
  /\ UNCHANGED <<buffers, attempt, stopping, counters, cut>>

EndFlush == step' = IF stopping THEN "stopped" ELSE "collect"

\* Mutation: the positions decide for both.
SucceedOnPositions ==
  /\ step = "settle" /\ results.positions
  /\ written' = written + Total
  /\ positions' = <<>> /\ statics' = <<>>
  /\ EndFlush
  /\ UNCHANGED <<attempt, results, stopping, collected, dropped, stored, cut,
                 failures>>

Succeed ==
  /\ step = "settle" /\ results.positions /\ results.statics
  /\ written' = written + Total
  /\ positions' = <<>> /\ statics' = <<>>
  /\ EndFlush
  /\ UNCHANGED <<attempt, results, stopping, collected, dropped, stored, cut,
                 failures>>

\* Sleep 2 s and insert both again.
Retry ==
  /\ step = "settle" /\ ~(results.positions /\ results.statics)
  /\ attempt = 1
  /\ attempt' = 2
  /\ step' = "positions"
  /\ UNCHANGED <<buffers, results, stopping, counters, stored, cut, failures>>

\* Mutation: the statics are not cut.
GiveUpKeepsStatics ==
  /\ step = "settle" /\ ~(results.positions /\ results.statics)
  /\ attempt = 2
  /\ LET excess == IF Total > MaxBuffer THEN Total - MaxBuffer ELSE 0
         cutP   == IF excess < Len(positions) THEN excess ELSE Len(positions)
     IN  /\ positions' = SubSeq(positions, cutP + 1, Len(positions))
         /\ dropped' = dropped + cutP
         /\ cut' = cut \cup {positions[i] : i \in 1..cutP}
  /\ EndFlush
  /\ UNCHANGED <<statics, attempt, results, stopping, collected, written,
                 stored, failures>>

\* Keep the rows for the next flush, at most MaxBuffer of them: positions are
\* cut first, then statics, the oldest of each.
GiveUp ==
  /\ step = "settle" /\ ~(results.positions /\ results.statics)
  /\ attempt = 2
  /\ LET excess == IF Total > MaxBuffer THEN Total - MaxBuffer ELSE 0
         cutP   == IF excess < Len(positions) THEN excess ELSE Len(positions)
         cutS   == excess - cutP
     IN  /\ positions' = SubSeq(positions, cutP + 1, Len(positions))
         /\ statics' = SubSeq(statics, cutS + 1, Len(statics))
         /\ dropped' = dropped + excess
         /\ cut' = cut \cup {positions[i] : i \in 1..cutP}
                       \cup {statics[i] : i \in 1..cutS}
  /\ EndFlush
  /\ UNCHANGED <<attempt, results, stopping, collected, written, stored,
                 failures>>

Flush == InsertPositions \/ InsertStatics \/ Succeed \/ Retry \/ GiveUp
Next == Collect \/ FlushTick \/ Stop \/ Flush

Spec == Init /\ [][Next]_vars

\* The interval ticks forever and a flush runs to its end.  Failures are
\* bounded: ClickHouse comes back.
FairSpec == Spec /\ WF_vars(Flush) /\ WF_vars(FlushTick)

-----------------------------------------------------------------------------
\* Properties.

TypeOK ==
  /\ positions \in Seq(Row) /\ statics \in Seq(Row)
  /\ step \in {"collect", "positions", "statics", "settle", "stopped"}
  /\ attempt \in {1, 2}
  /\ results \in [positions : BOOLEAN, statics : BOOLEAN]
  /\ stopping \in BOOLEAN
  /\ collected \in 0..MaxRows /\ written \in Nat /\ dropped \in Nat
  /\ stored \in [Row -> Nat]
  /\ cut \subseteq Row
  /\ failures \in 0..MaxFailures

\* At least once: a collected row is in the archive, or still buffered, or was
\* given up at the cap and is counted in dropped; no order of failures, half
\* failures and retries loses one otherwise.
NoRowVanishes ==
  /\ \A r \in 1..collected : stored[r] > 0 \/ r \in Buffered \/ r \in cut
  /\ dropped = Cardinality(cut)

\* The archiver is an Archive: two buffers, two tables and two attempts are
\* one set of rows that leave it stored, or given up beyond MAX_BUFFER, the
\* "upper bound on rows buffered while ClickHouse is unreachable".
Abstract == INSTANCE Archive WITH
  Room <- MaxBuffer, accepted <- collected, held <- Buffered,
  stored <- {r \in Row : stored[r] > 0}, lost <- cut
ImplementsArchive == Abstract!Spec

\* When ClickHouse answers again, what is buffered is stored or dropped; only
\* a stop may leave rows behind.
RowsSettle ==
  \A r \in Row :
    collected >= r ~> stored[r] > 0 \/ r \in cut \/ step = "stopped"
=============================================================================
