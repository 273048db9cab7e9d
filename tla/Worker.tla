------------------------------- MODULE Worker -------------------------------
(***************************************************************************)
(* The worker process: a reader task feeding LineQueue (upstream.rs), the  *)
(* writer task that sends batches to the ingest gateway and retries the    *)
(* failed one (ingest.rs), and the main task that starts them and shuts    *)
(* them down (pump.rs).  The buffer itself is LineQueue: its actions are   *)
(* steps of these tasks, and vars are its variables.                       *)
(*                                                                         *)
(* Lines are numbered in the order of their push.  The network is the      *)
(* environment: a batch the kernel accepted is on the wire, from which it  *)
(* lands at the gateway or is lost.                                        *)
(***************************************************************************)
EXTENDS LineQueue, SequencesExt

CONSTANTS
  MaxInvalid,    \* bound of the model: lines that do not parse
  MaxFailures    \* bound of the model: connections that failed or broke

ASSUME WorkerBounds == MaxInvalid \in Nat /\ MaxFailures \in Nat

VARIABLES
  target,      \* --ingest: "stream" (TCP, WebSocket) or "udp"
  source,      \* "replay" (a file), or "live" (a feed or a UDP listener)
  reader,      \* the reader task: "connecting", "reading", "backoff", "done"
               \* or "aborted"
  conn,        \* ingest::run: "connecting", "open", "backoff" or "aborted"
  outgoing,    \* the batch being sent; <<>> when none is
  pending,     \* the failed batch held for retry; <<>> for None
  wire,        \* batches the kernel accepted, not yet at the gateway
  landed,      \* the lines the gateway has received
  stats,       \* Stats
  main,        \* pump::run: "running", "draining", "grace" or "exited"
  timedOut     \* drain gave up at its deadline

writerVars == <<conn, outgoing, pending>>
options == <<target, source>>
workerVars == <<vars, options, reader, writerVars, wire, landed, stats, main, timedOut>>

Datagram == target = "udp"

WorkerInit ==
  /\ Init
  /\ target \in {"stream", "udp"}
  /\ source \in {"replay", "live"}
  /\ reader = IF source = "live" THEN "connecting" ELSE "reading"
  /\ conn = "connecting"
  /\ outgoing = <<>>
  /\ pending = <<>>
  /\ wire = <<>>
  /\ landed = {}
  /\ stats = [lines_in |-> 0, forwarded |-> 0, invalid |-> 0, dropped |-> 0,
               reconnects |-> 0]
  /\ main = "running"
  /\ timedOut = FALSE

\* A connection failed or broke; a backoff follows.
Reconnects ==
  /\ stats.reconnects < MaxFailures
  /\ stats' = [stats EXCEPT !.reconnects = @ + 1]

-----------------------------------------------------------------------------
\* The reader.  ingest_line has no await: an abort never splits it, so the
\* counters move with the push.

IngestLine ==
  /\ reader = "reading"
  /\ \/ /\ PushBack
        /\ stats' = [stats EXCEPT !.lines_in = @ + 1]
     \/ /\ PushEvicting
        /\ stats' = [stats EXCEPT !.lines_in = @ + 1, !.dropped = @ + 1]
     \/ /\ ~pushing /\ stats.invalid < MaxInvalid
        /\ stats' = [stats EXCEPT !.lines_in = @ + 1, !.invalid = @ + 1]
        /\ UNCHANGED vars
  /\ UNCHANGED <<reader, writerVars, wire, landed, main, timedOut, options>>

FinishPush ==
  /\ AddPermit
  /\ UNCHANGED <<reader, writerVars, wire, landed, stats, main, timedOut, options>>

\* run_replay returns after its one pass; if it repeats, at a read error.
SourceDone ==
  /\ source = "replay" /\ reader = "reading"
  /\ ~pushing
  /\ reader' = "done"
  /\ UNCHANGED <<vars, writerVars, wire, landed, stats, main, timedOut, options>>

\* run_network, run_listen_udp: for ever.
ReaderConnects ==
  /\ reader = "connecting"
  /\ reader' = "reading"
  /\ UNCHANGED <<vars, writerVars, wire, landed, stats, main, timedOut, options>>

ReaderFails ==
  /\ source = "live" /\ reader \in {"connecting", "reading"} /\ ~pushing
  /\ Reconnects
  /\ reader' = "backoff"
  /\ UNCHANGED <<vars, writerVars, wire, landed, main, timedOut, options>>

ReaderBackoffEnds ==
  /\ reader = "backoff"
  /\ reader' = "connecting"
  /\ UNCHANGED <<vars, writerVars, wire, landed, stats, main, timedOut, options>>

-----------------------------------------------------------------------------
\* The writer: ingest::run.

ConnectOk ==
  /\ conn = "connecting"
  /\ conn' = "open"
  /\ UNCHANGED <<vars, reader, outgoing, pending, wire, landed,
                 stats, main, timedOut, options>>

ConnectFail ==
  /\ conn = "connecting"
  /\ Reconnects
  /\ conn' = "backoff"
  /\ UNCHANGED <<vars, reader, outgoing, pending, wire, landed, main,
                 timedOut, options>>

BackoffEnds ==
  /\ conn = "backoff"
  /\ conn' = "connecting"
  /\ UNCHANGED <<vars, reader, outgoing, pending, wire, landed,
                 stats, main, timedOut, options>>

\* Mutation: the failed batch is cloned, not taken.
ClonePending ==
  /\ conn = "open" /\ outgoing = <<>> /\ pending # <<>>
  /\ outgoing' = pending
  /\ UNCHANGED <<vars, reader, conn, pending, wire, landed,
                 stats, main, timedOut, options>>

\* pending.take(): the failed batch goes first.
TakePending ==
  /\ conn = "open" /\ outgoing = <<>> /\ pending # <<>>
  /\ outgoing' = pending
  /\ pending' = <<>>
  /\ UNCHANGED <<vars, reader, conn, wire, landed, stats, main,
                 timedOut, options>>

\* queue.recv_batch(), step by step.
ReceiveBatch ==
  /\ conn = "open" /\ outgoing = <<>> /\ pending = <<>>
  /\ \/ RecvBatch /\ UNCHANGED outgoing
     \/ Consume /\ outgoing' = batch
  /\ UNCHANGED <<reader, conn, pending, wire, landed, stats, main,
                 timedOut, options>>

SendOk ==
  /\ conn = "open" /\ outgoing # <<>>
  /\ wire' = Append(wire, outgoing)
  /\ stats' = [stats EXCEPT !.forwarded = @ + Len(outgoing)]
  /\ outgoing' = <<>>
  /\ UNCHANGED <<vars, reader, conn, pending, landed, main,
                 timedOut, options>>

\* Mutation: the failed batch is not kept.
SendFailForgets ==
  /\ conn = "open" /\ outgoing # <<>>
  /\ Reconnects
  /\ outgoing' = <<>>
  /\ conn' = "backoff"
  /\ UNCHANGED <<vars, reader, pending, wire, landed, main, timedOut,
                 options>>

\* The write fails and the connection with it.  On a stream, some of what was
\* on the wire, and of the failed batch if all of it, still lands; the rest is
\* gone.  On UDP the datagram is not sent and the others are unaffected.
SendFail ==
  /\ conn = "open" /\ outgoing # <<>>
  /\ Reconnects
  /\ pending' = outgoing
  /\ outgoing' = <<>>
  /\ conn' = "backoff"
  /\ IF Datagram
       THEN UNCHANGED <<wire, landed>>
       ELSE LET sent == FlattenSeq(wire) \o outgoing
            IN  /\ wire' = <<>>
                /\ \E n \in 0..Len(sent) :
                     landed' = landed \cup {sent[i] : i \in 1..n}
  /\ UNCHANGED <<vars, reader, main, timedOut, options>>

-----------------------------------------------------------------------------
\* The network.

Land ==
  \E i \in (IF Datagram THEN 1..Len(wire) ELSE 1..Len(wire) \cap {1}) :
    /\ landed' = landed \cup ToSet(wire[i])
    /\ wire' = RemoveAt(wire, i)
    /\ UNCHANGED <<vars, reader, writerVars, stats, main, timedOut, options>>

LoseDatagram ==
  /\ Datagram
  /\ \E i \in 1..Len(wire) : wire' = RemoveAt(wire, i)
  /\ UNCHANGED <<vars, reader, writerVars, landed, stats, main, timedOut, options>>

-----------------------------------------------------------------------------
\* The main task: pump::run.

\* Tasks are aborted at their next await: not inside a push, nor between the
\* permit and the pop, but in the middle of pop's await, whether the semaphore
\* has given the writer a permit by then or not.
AtAwait == ~pushing /\ writer \in {"idle", "waiting", "granted"}

AbortWriter ==
  /\ conn' = "aborted"
  /\ main' = "exited"
  /\ IF writer = "idle" THEN UNCHANGED vars ELSE CancelPop
  /\ UNCHANGED <<outgoing, pending, wire, landed, stats>>

CtrlC ==
  /\ main = "running"
  /\ AtAwait
  /\ reader' = "aborted"
  /\ AbortWriter
  /\ UNCHANGED <<timedOut, options>>

\* Mutation: main waits for the writer task as well.
SeeBothTasksDone ==
  /\ main = "running" /\ reader = "done" /\ conn = "aborted"
  /\ main' = "draining"
  /\ UNCHANGED <<vars, reader, writerVars, wire, landed, stats, timedOut, options>>

SeeSourceDone ==
  /\ main = "running" /\ reader = "done"
  /\ main' = "draining"
  /\ UNCHANGED <<vars, reader, writerVars, wire, landed, stats, timedOut, options>>

\* Mutation: no poll, the grace period alone.
NoDrain ==
  /\ main = "draining"
  /\ main' = "grace"
  /\ UNCHANGED <<vars, reader, writerVars, wire, landed, stats, timedOut, options>>

\* drain: is_empty, polled until the deadline.
DrainPoll ==
  /\ main = "draining"
  /\ \/ IsEmpty /\ UNCHANGED timedOut
     \/ ~IsEmpty /\ timedOut' = TRUE
  /\ main' = "grace"
  /\ UNCHANGED <<vars, reader, writerVars, wire, landed, stats, options>>

GraceEnds ==
  /\ main = "grace"
  /\ AtAwait
  /\ AbortWriter
  /\ UNCHANGED <<reader, timedOut, options>>

-----------------------------------------------------------------------------
WriterStep == ConnectOk \/ BackoffEnds \/ TakePending \/ ReceiveBatch \/ SendOk
MainStep == SeeSourceDone \/ DrainPoll \/ GraceEnds
WorkerNext ==
  \/ IngestLine \/ FinishPush \/ SourceDone
  \/ ReaderConnects \/ ReaderFails \/ ReaderBackoffEnds
  \/ WriterStep \/ ConnectFail \/ SendFail
  \/ Land \/ LoseDatagram
  \/ CtrlC \/ MainStep

WorkerSpec == WorkerInit /\ [][WorkerNext]_workerVars

\* Tasks run when they can.  Failures are bounded, so a network that keeps
\* answering is what MaxFailures assumes; nothing is assumed of the source.
WorkerFairness ==
  /\ WF_workerVars(FinishPush) /\ WF_workerVars(WriterStep)
  /\ WF_workerVars(MainStep)
WorkerFairSpec == WorkerSpec /\ WorkerFairness

-----------------------------------------------------------------------------
\* Properties.

\* The statistics add up at every moment, across evictions, failed sends,
\* retries and shutdown: a line read is invalid, dropped, forwarded, or still
\* in exactly one of the worker's places.  A retried batch is counted once.
LinesAccountedFor ==
  stats.lines_in =
    stats.invalid + stats.dropped + stats.forwarded
      + Len(queue) + Len(batch) + Len(outgoing) + Len(pending)

\* What the kernel accepted, together with what is held, is never newer than
\* what is buffered: no batch overtakes another or the buffer, whatever is
\* retried, and none is sent twice but the one that failed.  Only datagrams that
\* left may arrive in any order.
InOrder(older, newer) ==
  \A i \in 1..Len(older), j \in 1..Len(newer) : older[i] < newer[j]
NoOvertaking ==
  LET taken == wire \o <<outgoing, pending, batch>>
  IN  /\ \A b, c \in 1..Len(taken) :
           b < c /\ (~Datagram \/ b > Len(wire)) => InOrder(taken[b], taken[c])
      /\ \A b \in 1..Len(taken) : \A i, j \in 1..Len(taken[b]) :
           i < j => taken[b][i] < taken[b][j]
      /\ \A b \in 1..Len(taken) : \A i \in 1..Len(taken[b]) :
           taken[b][i] <= pushed - Len(queue)

\* When the source is exhausted and is_empty answers yes before the deadline,
\* the exit gives up at most one batch: the one being sent, the one held for
\* retry while the writer backs off, or a batch of one line, still buffered,
\* whose permit the semaphore had given to a writer that did not run in the
\* grace.  The poll of is_empty sees none of the three.
DrainLosesAtMostOneBatch ==
  main = "exited" /\ reader = "done" /\ ~timedOut
    => /\ batch = <<>>
       /\ \/ queue = <<>> /\ (outgoing = <<>> \/ pending = <<>>)
          \/ Len(queue) = 1 /\ outgoing = <<>> /\ pending = <<>>

\* A replay ends: once the source is exhausted the process exits, whatever the
\* network does.
ReplayTerminates == reader = "done" ~> main = "exited"
=============================================================================
