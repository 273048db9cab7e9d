----------------------------- MODULE LineQueue ------------------------------
(***************************************************************************)
(* worker/src/queue.rs: the bounded, drop-oldest buffer between the        *)
(* worker's one reader task and its one writer task.                       *)
(*                                                                         *)
(* A VecDeque behind a mutex holds the lines; a semaphore counts them, so  *)
(* that pop can await.  The two are not updated together: push releases    *)
(* the mutex before it adds the permit, and pop consumes the permit before *)
(* it takes the mutex.  Everything done under the mutex is one step here;  *)
(* what happens between two such sections interleaves.                     *)
(*                                                                         *)
(* A line is its number in the order of the pushes; LineBytes gives its    *)
(* length, which recv_batch compares with a bound.                         *)
(***************************************************************************)
EXTENDS Integers, Sequences

CONSTANTS
  Capacity,       \* LineQueue::capacity
  MaxLines,       \* recv_batch: max_lines
  MaxBytes,       \* recv_batch: max_bytes
  LineBytes(_),   \* the length of the n-th line
  MaxPushed       \* bound of the model: lines pushed

ASSUME CapacityAssumption == Capacity \in Nat \ {0}
ASSUME BatchAssumption == MaxLines \in Nat \ {0} /\ MaxBytes \in Nat
ASSUME BytesAssumption == \A n \in 1..MaxPushed : LineBytes(n) \in Nat
ASSUME BoundAssumption == MaxPushed \in Nat

VARIABLES
  queue,     \* inner: the lines, oldest first
  permits,   \* items: the permits nobody has been given
  pushing,   \* push is between unlocking the mutex and add_permits
  writer,    \* where the writer task is in recv_batch
  batch,     \* recv_batch: the lines popped so far
  bytes,     \* recv_batch: their length, newlines included
  pushed     \* how many lines were pushed

vars == <<queue, permits, pushing, writer, batch, bytes, pushed>>

\* idle: not in recv_batch.  waiting: queued in the semaphore.  granted: the
\* semaphore has given it a permit and it has not run since.  holding: has
\* consumed a permit and not yet popped.  filling: between two pops.
\* returned: recv_batch has returned the batch.
WriterState == {"idle", "waiting", "granted", "holding", "filling", "returned"}

Init ==
  /\ queue = <<>>
  /\ permits = 0
  /\ pushing = FALSE
  /\ writer = "idle"
  /\ batch = <<>>
  /\ bytes = 0
  /\ pushed = 0

-----------------------------------------------------------------------------
\* The reader's side.

CanPush == ~pushing /\ pushed < MaxPushed

\* Mutation: the eviction adds a permit as well.
PushEvictingAddsPermit ==
  /\ CanPush
  /\ Len(queue) >= Capacity
  /\ queue' = Append(Tail(queue), pushed + 1)
  /\ pushing' = TRUE
  /\ pushed' = pushed + 1
  /\ UNCHANGED <<permits, writer, batch, bytes>>

\* Mutation: a full buffer refuses the new line.
PushDroppingNewest ==
  /\ CanPush
  /\ Len(queue) >= Capacity
  /\ pushed' = pushed + 1
  /\ UNCHANGED <<queue, permits, pushing, writer, batch, bytes>>

\* push on a full buffer: one line out, one in, the permits stay.
PushEvicting ==
  /\ CanPush
  /\ Len(queue) >= Capacity
  /\ queue' = Append(Tail(queue), pushed + 1)
  /\ pushed' = pushed + 1
  /\ UNCHANGED <<permits, pushing, writer, batch, bytes>>

\* Mutation: one line too many.
PushBackOverCapacity ==
  /\ CanPush
  /\ Len(queue) <= Capacity
  /\ queue' = Append(queue, pushed + 1)
  /\ pushing' = TRUE
  /\ pushed' = pushed + 1
  /\ UNCHANGED <<permits, writer, batch, bytes>>

\* push with room: the line is in and the mutex released, the permit is not
\* there yet.
PushBack ==
  /\ CanPush
  /\ Len(queue) < Capacity
  /\ queue' = Append(queue, pushed + 1)
  /\ pushing' = TRUE
  /\ pushed' = pushed + 1
  /\ UNCHANGED <<permits, writer, batch, bytes>>

\* Mutation: the permit is counted and the waiting writer not woken.
AddPermitWithoutWake ==
  /\ pushing
  /\ pushing' = FALSE
  /\ permits' = permits + 1
  /\ UNCHANGED <<queue, writer, batch, bytes, pushed>>

\* add_permits(1): the semaphore is fair and gives the permit to a waiting
\* writer directly; it never shows in available_permits then.  The writer is
\* woken and runs later.
AddPermit ==
  /\ pushing
  /\ pushing' = FALSE
  /\ IF writer = "waiting"
       THEN writer' = "granted" /\ UNCHANGED permits
       ELSE permits' = permits + 1 /\ UNCHANGED writer
  /\ UNCHANGED <<queue, batch, bytes, pushed>>

-----------------------------------------------------------------------------
\* The writer's side.

\* len and is_empty: what the semaphore says, not what the deque holds.
IsEmpty == permits = 0

\* pop: acquire().await and forget.
Acquire ==
  /\ writer = "idle"
  /\ IF permits > 0
       THEN writer' = "holding" /\ permits' = permits - 1
       ELSE writer' = "waiting" /\ UNCHANGED permits
  /\ UNCHANGED <<queue, pushing, batch, bytes, pushed>>

\* pop goes on after its await, with the permit it was given.
Wake ==
  /\ writer = "granted"
  /\ writer' = "holding"
  /\ UNCHANGED <<queue, permits, pushing, batch, bytes, pushed>>

\* pop is dropped at its await.  A permit it was given and has not seen goes
\* back to the semaphore; the line stays in the deque.
CancelPop ==
  /\ writer \in {"waiting", "granted"}
  /\ writer' = "idle"
  /\ permits' = IF writer = "granted" THEN permits + 1 ELSE permits
  /\ UNCHANGED <<queue, pushing, batch, bytes, pushed>>

\* pop_front().expect("permit implies a queued line"), of pop and try_pop.
PopFront ==
  /\ writer = "holding"
  /\ queue' = Tail(queue)
  /\ batch' = Append(batch, Head(queue))
  /\ bytes' = bytes + LineBytes(Head(queue)) + 1
  /\ writer' = "filling"
  /\ UNCHANGED <<permits, pushing, pushed>>

\* Mutation: one line too many.
RoomForOneMore == Len(batch) <= MaxLines /\ bytes < MaxBytes

RoomInBatch == Len(batch) < MaxLines /\ bytes < MaxBytes

\* try_pop: try_acquire succeeds.
TryAcquire ==
  /\ writer = "filling"
  /\ RoomInBatch
  /\ permits > 0
  /\ permits' = permits - 1
  /\ writer' = "holding"
  /\ UNCHANGED <<queue, pushing, batch, bytes, pushed>>

\* recv_batch returns: a bound is reached or try_acquire fails.
ReturnBatch ==
  /\ writer = "filling"
  /\ ~RoomInBatch \/ permits = 0
  /\ writer' = "returned"
  /\ UNCHANGED <<queue, permits, pushing, batch, bytes, pushed>>

\* The caller is done with the batch.
Consume ==
  /\ writer = "returned"
  /\ writer' = "idle"
  /\ batch' = <<>>
  /\ bytes' = 0
  /\ UNCHANGED <<queue, permits, pushing, pushed>>

Push == PushEvicting \/ PushBack
RecvBatch == Acquire \/ Wake \/ PopFront \/ TryAcquire \/ ReturnBatch
Next == Push \/ AddPermit \/ RecvBatch \/ CancelPop \/ Consume

Spec == Init /\ [][Next]_vars

\* push and recv_batch run to their end once started (no await between the
\* steps but the semaphore's own); the writer's loop calls recv_batch again.
\* Nothing says that another line arrives.
Fairness == WF_vars(AddPermit) /\ WF_vars(RecvBatch) /\ WF_vars(Consume)
FairSpec == Spec /\ Fairness

-----------------------------------------------------------------------------
\* Properties.

TypeOK ==
  /\ queue \in Seq(1..MaxPushed)
  /\ permits \in Nat
  /\ pushing \in BOOLEAN
  /\ writer \in WriterState
  /\ batch \in Seq(1..MaxPushed)
  /\ bytes \in Nat
  /\ pushed \in 0..MaxPushed

\* Every line in the deque is accounted for once: by a free permit, by the
\* permit push is about to add, or by the one the writer was given.  This is what
\* makes the expect of pop and try_pop safe: a push that evicts leaves the
\* count alone whatever the other task is doing at that moment, and a pop dropped
\* at its await gives its permit back.
OneIf(b) == IF b THEN 1 ELSE 0
HasPermit == writer \in {"granted", "holding"}
PermitsMatchLines ==
  Len(queue) = permits + OneIf(pushing) + OneIf(HasPermit)

\* expect("permit implies a queued line") never panics.
PermitImpliesLine == HasPermit => queue # <<>>

\* The buffer is bounded, and what it gives up under pressure is the oldest:
\* it always holds exactly the newest lines, with no gap and no repetition.
HoldsNewest ==
  /\ Len(queue) <= Capacity
  /\ \A i \in 1..Len(queue) : queue[i] = pushed - Len(queue) + i

\* A batch is a subsequence of what was pushed, in that order, and everything
\* in it is older than everything still buffered, even when lines were evicted
\* between two pops of the same batch.
BatchInOrder ==
  /\ \A i, j \in 1..Len(batch) : i < j => batch[i] < batch[j]
  /\ \A i \in 1..Len(batch) : batch[i] <= pushed - Len(queue)

\* Only the last line of a batch may overshoot the byte bound (the batch must
\* stay near one datagram).
BatchWithinBounds ==
  /\ Len(batch) <= MaxLines
  /\ Len(batch) > 1 =>
       bytes - (LineBytes(batch[Len(batch)]) + 1) < MaxBytes

\* No lost wake-up: while the writer sleeps there is no line it could have,
\* except one whose permit the reader is about to add.
NoLostWakeup ==
  writer = "waiting" => permits = 0 /\ Len(queue) = OneIf(pushing)

\* The buffer implements the abstract one, its fairness included.
Abstract == INSTANCE DropOldest WITH
  put <- pushed, oldest <- pushed - Len(queue) + 1, batch <- batch
ImplementsDropOldest == Abstract!Spec
=============================================================================
