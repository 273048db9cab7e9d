--------------------------- MODULE Worker_proofs ----------------------------
(***************************************************************************)
(* Proofs about the worker process, for every size of the buffer and of a  *)
(* batch.  The worker uses its buffer as LineQueue specifies, so what is   *)
(* proved of the buffer alone, in the first part, holds in the worker      *)
(* (BufferInvariance); the rest is about the places a line goes through    *)
(* after it.                                                               *)
(***************************************************************************)
EXTENDS Worker, SequenceTheorems, TLAPS

-----------------------------------------------------------------------------
(* The buffer alone, as LineQueue specifies it. *)

\* A line evicted or popped from the front, a line pushed at the back: what
\* the deque holds afterwards.
LEMMA TailFacts ==
  ASSUME NEW S, NEW s \in Seq(S), s # <<>>
  PROVE  /\ Tail(s) \in Seq(S)
         /\ Head(s) \in S /\ Head(s) = s[1]
         /\ Len(s) \in Nat \ {0}
         /\ Len(Tail(s)) = Len(s) - 1
         /\ \A i \in 1..Len(s) - 1 : Tail(s)[i] = s[i + 1]
  BY HeadTailProperties

LEMMA AppendFacts ==
  ASSUME NEW S, NEW s \in Seq(S), NEW e \in S
  PROVE  /\ Append(s, e) \in Seq(S)
         /\ Len(s) \in Nat
         /\ Len(Append(s, e)) = Len(s) + 1
         /\ \A i \in 1..Len(s) : Append(s, e)[i] = s[i]
         /\ Append(s, e)[Len(s) + 1] = e
  BY AppendProperties, LenProperties

LEMMA LenFacts ==
  ASSUME NEW S, NEW s \in Seq(S)
  PROVE  Len(s) \in Nat /\ (Len(s) = 0 <=> s = <<>>)
  BY EmptySeq, LenProperties

LEMMA BufferConstants ==
  /\ Capacity \in Nat \ {0} /\ MaxLines \in Nat \ {0} /\ MaxBytes \in Nat
  /\ MaxPushed \in Nat /\ \A n \in 1..MaxPushed : LineBytes(n) \in Nat
  BY CapacityAssumption, BatchAssumption, BytesAssumption, BoundAssumption

-----------------------------------------------------------------------------
(***************************************************************************)
(* The buffer's inductive invariant.  The types alone are not inductive:   *)
(* that a pop yields a line needs PermitsMatchLines.  The order of a batch *)
(* needs to know which lines are buffered (HoldsNewest).                   *)
(***************************************************************************)
BufferInv ==
  /\ TypeOK
  /\ PermitsMatchLines
  /\ HoldsNewest
  /\ BatchInOrder
  /\ writer = "waiting" => permits = 0

LEMMA HoldingHasLine ==
  ASSUME TypeOK, PermitsMatchLines, HasPermit
  PROVE  queue # <<>> /\ Len(queue) \in Nat \ {0}
  <1>1. Len(queue) \in Nat /\ (Len(queue) = 0 <=> queue = <<>>)
    BY LenFacts DEF TypeOK
  <1>2. Len(queue) = permits + OneIf(pushing) + 1
    BY DEF PermitsMatchLines, OneIf
  <1>3. OneIf(pushing) \in Nat /\ permits \in Nat
    BY DEF OneIf, TypeOK
  <1> QED BY <1>1, <1>2, <1>3

LEMMA InitBufferInv == Init => BufferInv
  <1> SUFFICES ASSUME Init PROVE BufferInv
    OBVIOUS
  <1>1. <<>> \in Seq(1..MaxPushed) /\ Len(<<>>) = 0
    OBVIOUS
  <1>2. TypeOK
    <2>1. pushing \in BOOLEAN /\ writer \in WriterState
      BY DEF Init, WriterState
    <2>2. /\ permits \in Nat /\ bytes \in Nat /\ pushed \in 0..MaxPushed
      BY BufferConstants DEF Init
    <2>3. queue \in Seq(1..MaxPushed) /\ batch \in Seq(1..MaxPushed)
      BY <1>1 DEF Init
    <2> QED BY <2>1, <2>2, <2>3 DEF TypeOK
  <1> QED
    BY <1>1, <1>2, BufferConstants
    DEF Init, BufferInv, PermitsMatchLines, OneIf, HasPermit, HoldsNewest, BatchInOrder

LEMMA PushKeepsBufferInv == BufferInv /\ Push => BufferInv'
  <1> SUFFICES ASSUME BufferInv, Push PROVE BufferInv'
    OBVIOUS
  <1>t. /\ queue \in Seq(1..MaxPushed) /\ permits \in Nat
        /\ batch \in Seq(1..MaxPushed) /\ pushed \in 0..MaxPushed
        /\ MaxPushed \in Nat /\ Capacity \in Nat \ {0}
    BY BufferConstants DEF BufferInv, TypeOK
  <1>p. pushed + 1 \in 1..MaxPushed /\ ~pushing
    BY <1>t DEF Push, PushEvicting, PushBack, CanPush
  <1>u. pushed' = pushed + 1 /\ UNCHANGED <<permits, writer, batch, bytes>>
    BY DEF Push, PushEvicting, PushBack
  <1>l. Len(queue) \in Nat /\ Len(batch) \in Nat
    BY <1>t, LenFacts
  <1>1. CASE PushEvicting
    <2>1. queue # <<>>
      BY <1>1, <1>t, LenFacts DEF PushEvicting
    <2>2. /\ Tail(queue) \in Seq(1..MaxPushed)
          /\ Len(Tail(queue)) = Len(queue) - 1
          /\ \A i \in 1..Len(queue) - 1 : Tail(queue)[i] = queue[i + 1]
      BY <2>1, <1>t, TailFacts
    <2>3. queue' = Append(Tail(queue), pushed + 1)
      BY <1>1 DEF PushEvicting
    <2>4. /\ queue' \in Seq(1..MaxPushed) /\ Len(queue') = Len(queue)
          /\ \A i \in 1..Len(queue) - 1 : queue'[i] = queue[i + 1]
          /\ queue'[Len(queue)] = pushed + 1
      <3>1. /\ queue' \in Seq(1..MaxPushed)
            /\ Len(queue') = Len(Tail(queue)) + 1
            /\ \A i \in 1..Len(Tail(queue)) : queue'[i] = Tail(queue)[i]
            /\ queue'[Len(Tail(queue)) + 1] = pushed + 1
        BY <2>2, <2>3, <1>p, AppendFacts
      <3> QED BY <3>1, <2>2, <1>l
    <2>5. TypeOK'
      BY <1>1, <2>4, <1>u, <1>t, <1>p DEF BufferInv, TypeOK, PushEvicting
    <2>6. PermitsMatchLines'
      BY <1>1, <2>4, <1>u DEF BufferInv, PermitsMatchLines, HasPermit, PushEvicting
    <2>7. HoldsNewest'
      <3> SUFFICES ASSUME NEW i \in 1..Len(queue')
                   PROVE  queue'[i] = pushed' - Len(queue') + i
        BY <2>4 DEF BufferInv, HoldsNewest
      <3>1. CASE i = Len(queue)
        BY <3>1, <2>4, <1>u, <1>t, <1>l
      <3>2. CASE i # Len(queue)
        <4>1. i + 1 \in 1..Len(queue) /\ i \in 1..Len(queue) - 1
          BY <3>2, <2>4, <1>l
        <4>2. queue[i + 1] = pushed - Len(queue) + (i + 1)
          BY <4>1 DEF BufferInv, HoldsNewest
        <4> QED BY <4>1, <4>2, <2>4, <1>u, <1>t, <1>l
      <3> QED BY <3>1, <3>2
    <2>8. BatchInOrder'
      <3>1. \A i \in 1..Len(batch) : batch[i] \in 1..MaxPushed
        BY <1>t, ElementOfSeq
      <3>2. pushed - Len(queue) <= pushed' - Len(queue')
        BY <2>4, <1>u, <1>t, <1>l
      <3>3. \A i \in 1..Len(batch) : batch[i] <= pushed - Len(queue)
        BY DEF BufferInv, BatchInOrder
      <3>4. ASSUME NEW i \in 1..Len(batch) PROVE batch[i] <= pushed' - Len(queue')
        <4>1. /\ batch[i] \in Int
              /\ pushed - Len(queue) \in Int /\ pushed' - Len(queue') \in Int
          BY <3>1, <2>4, <1>u, <1>t, <1>l
        <4> QED BY <3>2, <3>3, <4>1
      <3> QED BY <3>4, <1>u DEF BufferInv, BatchInOrder
    <2> QED BY <2>5, <2>6, <2>7, <2>8, <1>u DEF BufferInv
  <1>2. CASE PushBack
    <2>1. /\ queue' \in Seq(1..MaxPushed) /\ Len(queue') = Len(queue) + 1
          /\ \A i \in 1..Len(queue) : queue'[i] = queue[i]
          /\ queue'[Len(queue) + 1] = pushed + 1
      BY <1>2, <1>t, <1>p, AppendFacts DEF PushBack
    <2>2. TypeOK'
      BY <1>2, <2>1, <1>u, <1>t, <1>p DEF BufferInv, TypeOK, PushBack
    <2>3. PermitsMatchLines'
      <3>1. Len(queue) = permits + OneIf(HasPermit)
        BY <1>p, <1>t DEF BufferInv, PermitsMatchLines, OneIf
      <3>2. OneIf(pushing') = 1 /\ OneIf(HasPermit) \in Nat
        BY <1>2 DEF PushBack, OneIf
      <3> QED BY <3>1, <3>2, <2>1, <1>u, <1>t DEF PermitsMatchLines, HasPermit
    <2>4. HoldsNewest'
      <3>1. Len(queue') <= Capacity
        BY <1>2, <2>1, <1>l, <1>t DEF PushBack
      <3> SUFFICES ASSUME NEW i \in 1..Len(queue')
                   PROVE  queue'[i] = pushed' - Len(queue') + i
        BY <3>1 DEF HoldsNewest
      <3>2. CASE i = Len(queue) + 1
        BY <3>2, <2>1, <1>u, <1>t, <1>l
      <3>3. CASE i # Len(queue) + 1
        <4>1. i \in 1..Len(queue)
          BY <3>3, <2>1, <1>l
        <4>2. queue[i] = pushed - Len(queue) + i
          BY <4>1 DEF BufferInv, HoldsNewest
        <4> QED BY <4>1, <4>2, <2>1, <1>u, <1>t, <1>l
      <3> QED BY <3>2, <3>3
    <2>5. BatchInOrder'
      <3>1. pushed' - Len(queue') = pushed - Len(queue)
        BY <2>1, <1>u, <1>t, <1>l
      <3> QED BY <3>1, <1>u DEF BufferInv, BatchInOrder
    <2> QED BY <2>2, <2>3, <2>4, <2>5, <1>u DEF BufferInv
  <1> QED BY <1>1, <1>2 DEF Push

LEMMA PopFrontKeepsBufferInv == BufferInv /\ PopFront => BufferInv'
  <1> SUFFICES ASSUME BufferInv, PopFront PROVE BufferInv'
    OBVIOUS
  <1>t. /\ queue \in Seq(1..MaxPushed) /\ permits \in Nat
        /\ batch \in Seq(1..MaxPushed) /\ pushed \in 0..MaxPushed
        /\ MaxPushed \in Nat /\ Capacity \in Nat \ {0} /\ bytes \in Nat
        /\ writer = "holding"
    BY BufferConstants DEF BufferInv, TypeOK, PopFront
  <1>h. queue # <<>> /\ Len(queue) \in Nat \ {0} /\ Len(batch) \in Nat
    BY <1>t, HoldingHasLine, LenFacts DEF BufferInv, HasPermit
  <1>1. /\ queue' \in Seq(1..MaxPushed) /\ Len(queue') = Len(queue) - 1
        /\ \A i \in 1..Len(queue) - 1 : queue'[i] = queue[i + 1]
        /\ Head(queue) \in 1..MaxPushed /\ Head(queue) = queue[1]
    BY <1>t, <1>h, TailFacts DEF PopFront
  <1>2. Head(queue) = pushed - Len(queue) + 1
    BY <1>1, <1>h DEF BufferInv, HoldsNewest
  <1>3. /\ batch' \in Seq(1..MaxPushed) /\ Len(batch') = Len(batch) + 1
        /\ \A i \in 1..Len(batch) : batch'[i] = batch[i]
        /\ batch'[Len(batch) + 1] = Head(queue)
    BY <1>t, <1>1, AppendFacts DEF PopFront
  <1>4. TypeOK'
    <2>1. bytes' \in Nat
      <3>1. bytes' = bytes + LineBytes(Head(queue)) + 1
        BY DEF PopFront
      <3>2. LineBytes(Head(queue)) \in Nat
        BY <1>1, BufferConstants
      <3> QED BY <3>1, <3>2, <1>t
    <2> QED
      BY <2>1, <1>1, <1>3, <1>t DEF BufferInv, TypeOK, PopFront, WriterState
  <1>5. PermitsMatchLines'
    <2>1. Len(queue) = permits + OneIf(pushing) + 1
      BY <1>t DEF BufferInv, PermitsMatchLines, OneIf, HasPermit
    <2>2. OneIf(HasPermit') = 0 /\ OneIf(pushing) \in Nat
      BY DEF PopFront, OneIf, HasPermit
    <2> QED BY <2>1, <2>2, <1>1, <1>t DEF PermitsMatchLines, PopFront
  <1>6. HoldsNewest'
    <2> SUFFICES ASSUME NEW i \in 1..Len(queue')
                 PROVE  queue'[i] = pushed' - Len(queue') + i
      BY <1>1, <1>h, <1>t DEF BufferInv, HoldsNewest
    <2>1. i \in 1..Len(queue) - 1 /\ i + 1 \in 1..Len(queue)
      BY <1>1, <1>h
    <2>2. queue[i + 1] = pushed - Len(queue) + (i + 1)
      BY <2>1 DEF BufferInv, HoldsNewest
    <2> QED BY <2>1, <2>2, <1>1, <1>h, <1>t DEF PopFront
  <1>7. BatchInOrder'
    <2>0. /\ \A i \in 1..Len(batch) : batch[i] \in 1..MaxPushed
          /\ \A i \in 1..Len(batch) : batch[i] <= pushed - Len(queue)
          /\ \A i, j \in 1..Len(batch) : i < j => batch[i] < batch[j]
      BY <1>t, ElementOfSeq DEF BufferInv, BatchInOrder
    <2>1. ASSUME NEW i \in 1..Len(batch')
          PROVE  batch'[i] <= pushed' - Len(queue')
      <3>0. /\ pushed' = pushed /\ Len(queue') = Len(queue) - 1
            /\ pushed \in Int /\ Len(queue) \in Int
        BY <1>1, <1>h, <1>t DEF PopFront
      <3>1. CASE i = Len(batch) + 1
        <4>1. batch'[i] = pushed - Len(queue) + 1
          BY <3>1, <1>3, <1>2
        <4> QED BY <3>0, <4>1
      <3>2. CASE i # Len(batch) + 1
        <4>1. i \in 1..Len(batch) /\ batch'[i] = batch[i]
          BY <3>2, <1>3, <1>h
        <4>2. batch[i] <= pushed - Len(queue) /\ batch[i] \in 1..MaxPushed
          BY <2>0, <4>1
        <4>3. batch[i] \in Int
          BY <4>2, <1>t
        <4> QED BY <3>0, <4>1, <4>2, <4>3
      <3> QED BY <3>1, <3>2
    <2>2. ASSUME NEW i \in 1..Len(batch'), NEW j \in 1..Len(batch'), i < j
          PROVE  batch'[i] < batch'[j]
      <3>1. i \in 1..Len(batch)
        BY <2>2, <1>3, <1>h
      <3>2. CASE j = Len(batch) + 1
        <4>1. batch'[i] = batch[i] /\ batch'[j] = pushed - Len(queue) + 1
          BY <3>1, <3>2, <1>3, <1>2
        <4>2. batch[i] <= pushed - Len(queue) /\ batch[i] \in 1..MaxPushed
          BY <2>0, <3>1
        <4>3. batch[i] \in Int /\ pushed \in Int /\ Len(queue) \in Int
          BY <4>2, <1>h, <1>t
        <4> QED BY <4>1, <4>2, <4>3
      <3>3. CASE j # Len(batch) + 1
        <4>1. j \in 1..Len(batch)
          BY <3>3, <1>3, <1>h
        <4> QED BY <4>1, <3>1, <2>2, <2>0, <1>3
      <3> QED BY <3>2, <3>3
    <2> QED BY <2>1, <2>2 DEF BatchInOrder
  <1> QED BY <1>4, <1>5, <1>6, <1>7 DEF BufferInv, PopFront

LEMMA OthersKeepBufferInv ==
  BufferInv /\ (AddPermit \/ Acquire \/ Wake \/ CancelPop \/ TryAcquire
                 \/ ReturnBatch \/ Consume)
    => BufferInv'
  <1> SUFFICES ASSUME BufferInv,
                      AddPermit \/ Acquire \/ Wake \/ CancelPop \/ TryAcquire
                        \/ ReturnBatch \/ Consume
               PROVE  BufferInv'
    OBVIOUS
  <1>q. UNCHANGED <<queue, pushed>>
    BY DEF AddPermit, Acquire, Wake, CancelPop, TryAcquire, ReturnBatch, Consume
  <1>t. permits \in Nat /\ pushing \in BOOLEAN /\ Len(queue) \in Nat
    BY LenFacts DEF BufferInv, TypeOK
  \* The steps that leave the batch alone.
  <1>1. ASSUME UNCHANGED <<batch, bytes>>, permits' \in Nat, pushing' \in BOOLEAN,
               writer' \in WriterState, writer' = "waiting" => permits' = 0,
               permits + OneIf(pushing) + OneIf(HasPermit)
                 = permits' + OneIf(pushing') + OneIf(HasPermit')
        PROVE  BufferInv'
    <2>1. TypeOK'
      BY <1>1, <1>q DEF BufferInv, TypeOK
    <2>2. PermitsMatchLines'
      BY <1>1, <1>q DEF BufferInv, PermitsMatchLines
    <2>3. HoldsNewest' /\ BatchInOrder'
      BY <1>1, <1>q DEF BufferInv, HoldsNewest, BatchInOrder
    <2> QED BY <1>1, <2>1, <2>2, <2>3 DEF BufferInv
  <1>w. writer \in WriterState /\ (writer = "waiting" => permits = 0)
    BY DEF BufferInv, TypeOK
  <1>2. CASE AddPermit
    <2>0. UNCHANGED <<batch, bytes>> /\ pushing' \in BOOLEAN
      BY <1>2 DEF AddPermit
    <2>1. OneIf(pushing) = 1 /\ OneIf(pushing') = 0
      BY <1>2 DEF AddPermit, OneIf
    <2>2. CASE writer = "waiting"
      <3>1. writer' = "granted" /\ permits' = permits
        BY <1>2, <2>2 DEF AddPermit
      <3>2. OneIf(HasPermit) = 0 /\ OneIf(HasPermit') = 1
        BY <2>2, <3>1 DEF OneIf, HasPermit
      <3>3. permits + OneIf(pushing) + OneIf(HasPermit)
              = permits' + OneIf(pushing') + OneIf(HasPermit')
        BY <1>t, <2>1, <3>1, <3>2
      <3>4. writer' \in WriterState /\ pushing' \in BOOLEAN /\ permits' \in Nat
        BY <1>t, <2>0, <3>1 DEF WriterState
      <3> QED BY <1>1, <2>0, <3>1, <3>3, <3>4
    <2>3. CASE writer # "waiting"
      <3>1. writer' = writer /\ permits' = permits + 1
        BY <1>2, <2>3 DEF AddPermit
      <3>2. OneIf(HasPermit') = OneIf(HasPermit) /\ OneIf(HasPermit) \in Nat
        BY <3>1 DEF OneIf, HasPermit
      <3>3. permits + OneIf(pushing) + OneIf(HasPermit)
              = permits' + OneIf(pushing') + OneIf(HasPermit')
        BY <1>t, <2>1, <3>1, <3>2
      <3>4. writer' \in WriterState /\ pushing' \in BOOLEAN /\ permits' \in Nat
        BY <1>t, <1>w, <2>0, <3>1
      <3> QED BY <1>1, <2>0, <2>3, <3>1, <3>3, <3>4
    <2> QED BY <2>2, <2>3
  <1>3. CASE Acquire
    <2>1. UNCHANGED <<batch, bytes, pushing>> /\ OneIf(pushing) \in Nat
      BY <1>3 DEF Acquire, OneIf
    <2>2. CASE permits > 0
      <3>1. writer = "idle" /\ writer' = "holding" /\ permits' = permits - 1
        BY <1>3, <2>2 DEF Acquire
      <3>2. OneIf(HasPermit) = 0 /\ OneIf(HasPermit') = 1
        BY <3>1 DEF OneIf, HasPermit
      <3> QED BY <1>1, <1>t, <2>1, <2>2, <3>1, <3>2 DEF WriterState
    <2>3. CASE ~(permits > 0)
      <3>1. writer = "idle" /\ writer' = "waiting" /\ permits' = permits
        BY <1>3, <2>3 DEF Acquire
      <3>2. OneIf(HasPermit) = 0 /\ OneIf(HasPermit') = 0
        BY <3>1 DEF OneIf, HasPermit
      <3> QED BY <1>1, <1>t, <2>1, <2>3, <3>1, <3>2 DEF WriterState
    <2> QED BY <2>2, <2>3
  <1>4. CASE Wake
    BY <1>1, <1>4, <1>t DEF Wake, OneIf, HasPermit, WriterState
  <1>5. CASE CancelPop
    <2>1. /\ UNCHANGED <<batch, bytes, pushing>> /\ OneIf(pushing) \in Nat
          /\ writer' = "idle"
      BY <1>5 DEF CancelPop, OneIf
    <2>2. CASE writer = "granted"
      <3>1. permits' = permits + 1
        BY <1>5, <2>2 DEF CancelPop
      <3>2. OneIf(HasPermit) = 1 /\ OneIf(HasPermit') = 0
        BY <2>1, <2>2 DEF OneIf, HasPermit
      <3> QED BY <1>1, <1>t, <2>1, <3>1, <3>2 DEF WriterState
    <2>3. CASE writer # "granted"
      <3>1. writer = "waiting" /\ permits' = permits
        BY <1>5, <2>3 DEF CancelPop
      <3>2. OneIf(HasPermit) = 0 /\ OneIf(HasPermit') = 0
        BY <2>1, <3>1 DEF OneIf, HasPermit
      <3> QED BY <1>1, <1>t, <2>1, <3>1, <3>2 DEF WriterState
    <2> QED BY <2>2, <2>3
  <1>6. CASE TryAcquire
    <2>1. /\ UNCHANGED <<batch, bytes, pushing>> /\ OneIf(pushing) \in Nat
          /\ writer = "filling" /\ writer' = "holding"
          /\ permits > 0 /\ permits' = permits - 1
      BY <1>6 DEF TryAcquire, OneIf
    <2>2. OneIf(HasPermit) = 0 /\ OneIf(HasPermit') = 1
      BY <2>1 DEF OneIf, HasPermit
    <2> QED BY <1>1, <1>t, <2>1, <2>2 DEF WriterState
  <1>7. CASE ReturnBatch
    BY <1>1, <1>7, <1>t DEF ReturnBatch, OneIf, HasPermit, WriterState
  <1>8. CASE Consume
    <2>0. <<>> \in Seq(1..MaxPushed) /\ Len(<<>>) = 0
      OBVIOUS
    <2>1. TypeOK'
      BY <1>8, <1>q, <2>0 DEF BufferInv, TypeOK, Consume, WriterState
    <2>2. PermitsMatchLines'
      BY <1>8, <1>q, <1>t DEF BufferInv, PermitsMatchLines, OneIf, HasPermit, Consume
    <2>3. BatchInOrder'
      BY <1>8, <2>0 DEF BatchInOrder, Consume
    <2> QED
      BY <1>8, <1>q, <2>1, <2>2, <2>3 DEF BufferInv, HoldsNewest, Consume
  <1> QED BY <1>2, <1>3, <1>4, <1>5, <1>6, <1>7, <1>8

\* The invariant is inductive.
THEOREM BufferInvariant == Spec => []BufferInv
  <1>1. BufferInv /\ [Next]_vars => BufferInv'
    <2> SUFFICES ASSUME BufferInv, [Next]_vars PROVE BufferInv'
      OBVIOUS
    <2>1. CASE Push       BY <2>1, PushKeepsBufferInv
    <2>2. CASE PopFront   BY <2>2, PopFrontKeepsBufferInv
    <2>3. CASE \/ AddPermit \/ Acquire \/ Wake \/ CancelPop \/ TryAcquire
               \/ ReturnBatch \/ Consume
      BY <2>3, OthersKeepBufferInv
    <2>4. CASE UNCHANGED vars
      BY <2>4 DEF vars, BufferInv, TypeOK, PermitsMatchLines, HasPermit, HoldsNewest,
                  BatchInOrder
    <2> QED BY <2>1, <2>2, <2>3, <2>4 DEF Next, RecvBatch
  <1> QED BY InitBufferInv, <1>1, PTL DEF Spec

\* Types hold in every reachable state.
THEOREM BufferTypeCorrect == Spec => []TypeOK
  <1>1. BufferInv => TypeOK  BY DEF BufferInv
  <1> QED BY BufferInvariant, <1>1, PTL

\* The expect of pop and try_pop never panics: whoever consumed a permit
\* finds a line in the deque (queue.rs, "permit implies a queued line").
THEOREM NoPanic == Spec => [](PermitsMatchLines /\ PermitImpliesLine)
  <1>1. BufferInv => PermitsMatchLines /\ PermitImpliesLine
    BY HoldingHasLine DEF BufferInv, PermitImpliesLine
  <1> QED BY BufferInvariant, <1>1, PTL

\* Drop-oldest: the deque is always exactly the newest lines; a batch is in
\* the order of the pushes, with gaps where lines were evicted between two
\* pops, and older than what is buffered.
THEOREM KeepsNewestInOrder == Spec => [](HoldsNewest /\ BatchInOrder)
  <1>1. BufferInv => HoldsNewest /\ BatchInOrder  BY DEF BufferInv
  <1> QED BY BufferInvariant, <1>1, PTL

\* A sleeping writer misses no line but the one whose permit is on its way.
THEOREM NoLostWakeupHolds == Spec => []NoLostWakeup
  <1>1. BufferInv => NoLostWakeup
    <2> SUFFICES ASSUME BufferInv, writer = "waiting"
                 PROVE  permits = 0 /\ Len(queue) = OneIf(pushing)
      BY DEF NoLostWakeup
    <2>1. permits = 0
      BY DEF BufferInv
    <2>2. Len(queue) = 0 + OneIf(pushing) + 0
      BY <2>1 DEF BufferInv, PermitsMatchLines, OneIf, HasPermit
    <2> QED BY <2>1, <2>2 DEF OneIf
  <1> QED BY BufferInvariant, <1>1, PTL

-----------------------------------------------------------------------------
(***************************************************************************)
(* The bounds of a batch.  A permit is consumed only while there is room   *)
(* for the line it stands for; before the first pop the batch is empty.    *)
(***************************************************************************)
BatchInv ==
  /\ BatchWithinBounds
  /\ writer \in {"idle", "waiting", "granted"} => batch = <<>>
  /\ writer = "holding" => \/ batch = <<>>
                           \/ Len(batch) < MaxLines /\ bytes < MaxBytes

LEMMA PopFrontKeepsBatchInv == BufferInv /\ BatchInv /\ PopFront => BatchInv'
  <1> SUFFICES ASSUME BufferInv, BatchInv, PopFront PROVE BatchInv'
    OBVIOUS
  <1>t. /\ queue \in Seq(1..MaxPushed) /\ batch \in Seq(1..MaxPushed)
        /\ bytes \in Nat /\ writer = "holding" /\ queue # <<>>
        /\ MaxLines \in Nat \ {0} /\ MaxBytes \in Nat
    BY HoldingHasLine, BufferConstants DEF BufferInv, TypeOK, PopFront, HasPermit
  <1>1. Head(queue) \in 1..MaxPushed
    BY <1>t, TailFacts
  <1>2. /\ Len(batch) \in Nat /\ Len(batch') = Len(batch) + 1
        /\ batch'[Len(batch')] = Head(queue)
    BY <1>t, <1>1, AppendFacts DEF PopFront
  <1>3. LineBytes(Head(queue)) \in Nat
    BY <1>1, BufferConstants
  <1>4. bytes' - (LineBytes(batch'[Len(batch')]) + 1) = bytes
    <2>1. bytes' = bytes + LineBytes(Head(queue)) + 1
      BY DEF PopFront
    <2>2. LineBytes(batch'[Len(batch')]) = LineBytes(Head(queue))
      BY <1>2
    <2> QED BY <2>1, <2>2, <1>3, <1>t
  <1>5. Len(batch) = 0 \/ (Len(batch) < MaxLines /\ bytes < MaxBytes)
    BY <1>t DEF BatchInv
  <1>6. Len(batch') <= MaxLines /\ (Len(batch') > 1 => bytes < MaxBytes)
    BY <1>5, <1>2, <1>t
  <1> QED BY <1>4, <1>6 DEF BatchInv, BatchWithinBounds, PopFront

\* A batch has at most max_lines lines, and only its last line may take it
\* over max_bytes.
THEOREM BatchBounds == Spec => []BatchWithinBounds
  <1>0. Len(<<>>) = 0
    OBVIOUS
  <1>1. Init => BatchInv
    BY <1>0, BufferConstants DEF Init, BatchInv, BatchWithinBounds
  <1>2. BufferInv /\ BatchInv /\ [Next]_vars => BatchInv'
    <2> SUFFICES ASSUME BufferInv, BatchInv, [Next]_vars PROVE BatchInv'
      OBVIOUS
    <2>1. CASE Push
      BY <2>1 DEF BatchInv, BatchWithinBounds, Push, PushEvicting, PushBack
    <2>2. CASE AddPermit
      BY <2>2 DEF BatchInv, BatchWithinBounds, AddPermit
    <2>3. CASE Acquire
      BY <2>3 DEF BatchInv, BatchWithinBounds, Acquire
    <2>4. CASE PopFront
      BY <2>4, PopFrontKeepsBatchInv
    <2>5. CASE TryAcquire
      BY <2>5 DEF BatchInv, BatchWithinBounds, TryAcquire, RoomInBatch
    <2>6. CASE ReturnBatch
      BY <2>6 DEF BatchInv, BatchWithinBounds, ReturnBatch
    <2>7. CASE Consume
      BY <2>7, <1>0, BufferConstants DEF BatchInv, BatchWithinBounds, Consume
    <2>8. CASE Wake \/ CancelPop
      BY <2>8 DEF BatchInv, BatchWithinBounds, Wake, CancelPop
    <2>9. CASE UNCHANGED vars
      BY <2>9 DEF vars, BatchInv, BatchWithinBounds
    <2> QED BY <2>1, <2>2, <2>3, <2>4, <2>5, <2>6, <2>7, <2>8, <2>9
            DEF Next, RecvBatch
  <1>3. BatchInv => BatchWithinBounds
    BY DEF BatchInv
  <1> QED BY BufferInvariant, <1>1, <1>2, <1>3, PTL DEF Spec

-----------------------------------------------------------------------------
(***************************************************************************)
(* Refinement: every step of the buffer is a step of DropOldest or leaves  *)
(* its variables alone.  The permits, the mutex and the writer's place in  *)
(* recv_batch are hidden.                                                  *)
(***************************************************************************)
LEMMA BufferSimulation ==
  BufferInv /\ [Next]_vars => [Abstract!Next]_Abstract!vars
  <1> SUFFICES ASSUME BufferInv, [Next]_vars
               PROVE  Abstract!Next \/ UNCHANGED Abstract!vars
    OBVIOUS
  <1>t. /\ queue \in Seq(1..MaxPushed) /\ pushed \in 0..MaxPushed
        /\ MaxPushed \in Nat /\ Capacity \in Nat \ {0} /\ Len(queue) \in Nat
        /\ batch \in Seq(1..MaxPushed)
    BY BufferConstants, LenFacts DEF BufferInv, TypeOK
  <1>c. Len(queue) <= Capacity
    BY DEF BufferInv, HoldsNewest
  <1>1. CASE PushEvicting
    <2>1. queue # <<>>
      BY <1>1, <1>t, LenFacts DEF PushEvicting
    <2>2. Tail(queue) \in Seq(1..MaxPushed) /\ Len(Tail(queue)) = Len(queue) - 1
      BY <2>1, <1>t, TailFacts
    <2>3. pushed + 1 \in 1..MaxPushed
      BY <1>1, <1>t DEF PushEvicting, CanPush
    <2>4. Len(queue') = Len(queue) - 1 + 1
      BY <2>2, <2>3, <1>1, AppendFacts DEF PushEvicting
    <2> QED
      BY <2>4, <1>1, <1>t DEF PushEvicting, CanPush, Abstract!Next, Abstract!Put
  <1>2. CASE PushBack
    <2>1. pushed + 1 \in 1..MaxPushed
      BY <1>2, <1>t DEF PushBack, CanPush
    <2>2. Len(queue') = Len(queue) + 1
      BY <2>1, <1>2, <1>t, AppendFacts DEF PushBack
    <2> QED
      BY <2>2, <1>2, <1>t DEF PushBack, CanPush, Abstract!Next, Abstract!Put
  <1>3. CASE PopFront
    <2>1. queue # <<>> /\ Len(queue) \in Nat \ {0}
      BY <1>3, HoldingHasLine DEF BufferInv, PopFront, HasPermit
    <2>2. Len(queue') = Len(queue) - 1 /\ Head(queue) = queue[1]
      BY <1>3, <2>1, <1>t, TailFacts DEF PopFront
    <2>3. Head(queue) = pushed - Len(queue) + 1
      BY <2>1, <2>2 DEF BufferInv, HoldsNewest
    <2> QED
      BY <2>1, <2>2, <2>3, <1>3, <1>t DEF PopFront, Abstract!Next, Abstract!Take
  <1>4. CASE Consume
    <2>1. CASE batch = <<>>
      BY <2>1, <1>4 DEF Consume, Abstract!vars
    <2>2. CASE batch # <<>>
      BY <2>2, <1>4 DEF Consume, Abstract!Next, Abstract!HandOn
    <2> QED BY <2>1, <2>2
  <1>5. CASE \/ AddPermit \/ Acquire \/ Wake \/ CancelPop \/ TryAcquire
             \/ ReturnBatch \/ UNCHANGED vars
    BY <1>5 DEF AddPermit, Acquire, Wake, CancelPop, TryAcquire, ReturnBatch, vars,
                Abstract!vars
  <1> QED BY <1>1, <1>2, <1>3, <1>4, <1>5 DEF Next, Push, RecvBatch

\* The buffer with its permits behaves as a plain drop-oldest buffer (the
\* safety part of ImplementsDropOldest).
THEOREM ImplementsDropOldestSafe == Spec => Abstract!Safe
  <1>1. Init => Abstract!Init
    <2>1. Len(<<>>) = 0
      OBVIOUS
    <2> QED BY <2>1 DEF Init, Abstract!Init
  <1> QED
    BY <1>1, BufferInvariant, BufferSimulation, PTL DEF Spec, Abstract!Safe

-----------------------------------------------------------------------------
(***************************************************************************)
(* Types, and which of the worker's places are empty when: nothing is      *)
(* received while a batch is sent or kept for retry, and at most one of    *)
(* the two exists.                                                         *)
(***************************************************************************)
Lines == Seq(1..MaxPushed)
Stats == [lines_in : Nat, forwarded : Nat, invalid : Nat, dropped : Nat,
          reconnects : Nat]

WorkerTyped ==
  /\ target \in {"stream", "udp"} /\ source \in {"replay", "live"}
  /\ reader \in {"connecting", "reading", "backoff", "done", "aborted"}
  /\ conn \in {"connecting", "open", "backoff", "aborted"}
  /\ outgoing \in Lines /\ pending \in Lines
  /\ wire \in Seq(Lines)
  /\ stats \in Stats
  /\ main \in {"running", "draining", "grace", "exited"}
  /\ timedOut \in BOOLEAN

OneBatch ==
  /\ outgoing = <<>> \/ pending = <<>>
  /\ writer # "idle" => outgoing = <<>> /\ pending = <<>>
  /\ writer \in {"idle", "waiting", "granted"} => batch = <<>>

(***************************************************************************)
(* The end of a replay: once the source is exhausted no line is pushed,    *)
(* once the drain saw no permit there is none until the exit, and after    *)
(* the exit the writer takes nothing.                                      *)
(***************************************************************************)
ReaderDone == reader = "done" => ~pushing
MainSeesDone == main \in {"draining", "grace"} => reader = "done"
Drained ==
  main = "grace" /\ reader = "done" /\ ~timedOut => permits = 0
Exited == main = "exited" => conn = "aborted" /\ reader \in {"done", "aborted"}

\* The lines of a batch, of the one after another, and up to n.
Increasing(s) == \A i, j \in 1..Len(s) : i < j => s[i] < s[j]
UpTo(s, n) == \A i \in 1..Len(s) : s[i] <= n

Oldest == pushed - Len(queue)
SentInOrder ==
  /\ \A b \in 1..Len(wire) : Increasing(wire[b]) /\ UpTo(wire[b], Oldest)
  /\ ~Datagram => /\ \A b, c \in 1..Len(wire) : b < c => InOrder(wire[b], wire[c])
                  /\ \A b \in 1..Len(wire) : /\ InOrder(wire[b], outgoing)
                                             /\ InOrder(wire[b], pending)
                                             /\ InOrder(wire[b], batch)
HeldInOrder ==
  /\ Increasing(outgoing) /\ UpTo(outgoing, Oldest)
  /\ Increasing(pending) /\ UpTo(pending, Oldest)

WInv ==
  /\ WorkerTyped /\ OneBatch
  /\ ReaderDone /\ MainSeesDone /\ Drained /\ Exited
  /\ DrainLosesAtMostOneBatch
  /\ LinesAccountedFor
  /\ SentInOrder /\ HeldInOrder

-----------------------------------------------------------------------------
(* The buffer inside the worker. *)

\* The worker uses the buffer as LineQueue says.
LEMMA BufferSteps == ASSUME [WorkerNext]_workerVars PROVE [Next]_vars
  BY DEF WorkerNext, IngestLine, FinishPush, SourceDone, ReaderConnects, ReaderFails,
         ReaderBackoffEnds, WriterStep, ConnectOk, BackoffEnds, TakePending,
         ReceiveBatch, SendOk, ConnectFail, SendFail, Land, LoseDatagram, CtrlC,
         MainStep, SeeSourceDone, DrainPoll, GraceEnds, workerVars, vars,
         AbortWriter, Next, Push, RecvBatch, PushEvicting, PushBack,
         AddPermit, Acquire, Wake, CancelPop, PopFront, TryAcquire, ReturnBatch,
         Consume, CanPush, RoomInBatch

\* What is proved of the buffer alone.
THEOREM BufferInvariance == WorkerSpec => []BufferInv
  <1>1. WorkerInit => Init
    BY DEF WorkerInit
  <1>2. [WorkerNext]_workerVars => [Next]_vars
    BY BufferSteps
  <1> QED BY <1>1, <1>2, BufferInvariant, PTL DEF WorkerSpec, Spec

LEMMA BufferTyped ==
  ASSUME BufferInv
  PROVE  /\ queue \in Lines /\ batch \in Lines /\ permits \in Nat /\ pushed \in Nat
         /\ pushing \in BOOLEAN
         /\ Len(queue) \in Nat /\ Len(batch) \in Nat /\ Oldest \in Int
         /\ writer \in WriterState
         /\ Increasing(batch) /\ UpTo(batch, Oldest)
         /\ permits = 0 /\ ~pushing =>
              IF HasPermit THEN Len(queue) = 1 ELSE queue = <<>>
  <1>1. /\ queue \in Lines /\ batch \in Lines /\ permits \in Nat /\ pushed \in Nat
        /\ pushing \in BOOLEAN
        /\ writer \in WriterState
    BY BufferConstants DEF BufferInv, TypeOK, Lines
  <1>2. Len(queue) \in Nat /\ Len(batch) \in Nat /\ (Len(queue) = 0 <=> queue = <<>>)
    BY <1>1, LenProperties, EmptySeq DEF Lines
  <1>3. Increasing(batch) /\ UpTo(batch, Oldest)
    BY DEF BufferInv, BatchInOrder, Increasing, UpTo, Oldest
  <1>4. permits = 0 /\ ~pushing => Len(queue) = OneIf(HasPermit)
    BY DEF BufferInv, PermitsMatchLines, OneIf
  <1> QED BY <1>1, <1>2, <1>3, <1>4 DEF Oldest, OneIf

\* A line goes in.
LEMMA PushEffect ==
  ASSUME BufferInv, PushBack \/ PushEvicting
  PROVE  /\ pushed' = pushed + 1 /\ Oldest' >= Oldest
         /\ PushBack => Len(queue') = Len(queue) + 1
         /\ PushEvicting => Len(queue') = Len(queue)
         /\ UNCHANGED <<permits, writer, batch>> /\ ~pushing
  <1>1. queue \in Lines /\ pushed \in Nat /\ Len(queue) \in Nat
    BY BufferTyped
  <1>2. CASE PushBack
    <2>1. /\ queue' = Append(queue, pushed + 1) /\ pushed' = pushed + 1
          /\ pushed + 1 \in 1..MaxPushed
          /\ UNCHANGED <<permits, writer, batch>> /\ ~pushing
          /\ Len(queue) < Capacity
      BY <1>1, <1>2, BufferConstants DEF PushBack, CanPush
    <2>2. Len(queue') = Len(queue) + 1
      BY <1>1, <2>1 DEF Lines
    <2>3. ~PushEvicting
      BY <1>1, <2>1, BufferConstants DEF PushEvicting
    <2> QED BY <1>1, <1>2, <2>1, <2>2, <2>3 DEF Oldest
  <1>3. CASE PushEvicting
    <2>1. /\ queue' = Append(Tail(queue), pushed + 1) /\ pushed' = pushed + 1
          /\ pushed + 1 \in 1..MaxPushed
          /\ UNCHANGED <<permits, writer, batch>> /\ ~pushing
          /\ Len(queue) >= Capacity
      BY <1>1, <1>3, BufferConstants DEF PushEvicting, CanPush
    <2>2. queue # <<>> /\ Len(queue) \in Nat \ {0}
      BY <1>1, <2>1, BufferConstants DEF Lines
    <2>3. Tail(queue) \in Lines /\ Len(Tail(queue)) = Len(queue) - 1
      BY <1>1, <2>2 DEF Lines
    <2>4. Len(queue') = Len(queue)
      BY <1>1, <2>1, <2>2, <2>3 DEF Lines
    <2>5. ~PushBack
      BY <1>1, <2>1, BufferConstants DEF PushBack
    <2> QED BY <1>1, <1>3, <2>1, <2>4, <2>5 DEF Oldest
  <1> QED BY <1>2, <1>3

\* The oldest line comes out: it is newer than everything taken before.
LEMMA PopEffect ==
  ASSUME BufferInv, PopFront
  PROVE  /\ batch' = Append(batch, Oldest + 1) /\ Len(batch') = Len(batch) + 1
         /\ Len(queue') = Len(queue) - 1 /\ Oldest' = Oldest + 1
         /\ Oldest + 1 \in 1..MaxPushed
         /\ UNCHANGED <<permits, pushing, pushed>> /\ writer' = "filling"
  <1>1. /\ queue \in Lines /\ batch \in Lines /\ pushed \in Nat /\ Len(queue) \in Nat
        /\ permits \in Nat /\ pushing \in BOOLEAN
    BY BufferTyped
  <1>2. Len(queue) >= 1
    BY <1>1 DEF BufferInv, PermitsMatchLines, OneIf, HasPermit, PopFront
  <1>3. queue[1] = Oldest + 1
    BY <1>1, <1>2 DEF BufferInv, HoldsNewest, Oldest
  <1>4. queue # <<>> /\ Head(queue) = queue[1] /\ Head(queue) \in 1..MaxPushed
        /\ Len(Tail(queue)) = Len(queue) - 1
    <2>1. queue # <<>>
      BY <1>1, <1>2
    <2>2. /\ Head(queue) = queue[1] /\ Head(queue) \in 1..MaxPushed
          /\ Len(Tail(queue)) = Len(queue) - 1
      BY <1>1, <2>1, BufferConstants, TailFacts DEF Lines
    <2> QED BY <2>1, <2>2
  <1>5. /\ queue' = Tail(queue) /\ batch' = Append(batch, Oldest + 1)
        /\ UNCHANGED <<permits, pushing, pushed>> /\ writer' = "filling"
    BY <1>3, <1>4 DEF PopFront
  <1>6. Len(batch') = Len(batch) + 1
    BY <1>1, <1>3, <1>4, <1>5 DEF Lines
  <1> QED BY <1>1, <1>3, <1>4, <1>5, <1>6 DEF Oldest

\* The other steps of the buffer.
LEMMA PermitEffect ==
  ASSUME BufferInv,
         AddPermit \/ Acquire \/ Wake \/ CancelPop \/ TryAcquire \/ ReturnBatch
  PROVE  /\ UNCHANGED <<queue, batch, pushed>> /\ Oldest' = Oldest
         /\ AddPermit => pushing
         /\ ~AddPermit /\ ~CancelPop => permits' <= permits /\ permits' \in Nat
         /\ writer' \in {"idle", "waiting", "granted"} =>
              writer \in {"idle", "waiting", "granted"}
         /\ AddPermit \/ CancelPop => (writer = "idle" => writer' = "idle")
  BY BufferTyped
  DEF AddPermit, Acquire, Wake, CancelPop, TryAcquire, ReturnBatch, Oldest

\* An abort cancels the writer's pop, if it is in one.
LEMMA AbortEffect ==
  ASSUME BufferInv, CtrlC \/ GraceEnds
  PROVE  /\ UNCHANGED <<queue, batch, pushed, pushing, outgoing, pending, wire, stats>>
         /\ Oldest' = Oldest /\ writer' = "idle"
         /\ writer \in {"idle", "waiting", "granted"}
         /\ conn' = "aborted" /\ main' = "exited" /\ UNCHANGED timedOut
  <1>1. /\ AtAwait /\ AbortWriter /\ UNCHANGED timedOut
        /\ IF writer = "idle" THEN UNCHANGED vars ELSE CancelPop
    BY DEF CtrlC, GraceEnds, AbortWriter
  <1> QED BY <1>1 DEF AtAwait, AbortWriter, CancelPop, vars, Oldest

LEMMA RemoveAtFacts ==
  ASSUME NEW S, NEW s \in Seq(S), NEW k \in 1..Len(s)
  PROVE  /\ RemoveAt(s, k) \in Seq(S)
         /\ Len(RemoveAt(s, k)) = Len(s) - 1
         /\ \A i \in 1..Len(s) - 1 :
              RemoveAt(s, k)[i] = s[IF i < k THEN i ELSE i + 1]
  <1> DEFINE before == SubSeq(s, 1, k - 1)
             after == SubSeq(s, k + 1, Len(s))
  <1>1. Len(s) \in Nat /\ k \in Int
    BY LenProperties
  <1>2. /\ before \in Seq(S) /\ Len(before) = k - 1
        /\ \A i \in 1..k - 1 : before[i] = s[i]
    BY <1>1, ElementOfSeq, SubSeqProperties
  <1>3. /\ after \in Seq(S) /\ Len(after) = Len(s) - k
        /\ \A i \in 1..Len(s) - k : after[i] = s[i + k]
    <2>1. \A i \in k + 1..Len(s) : s[i] \in S
      BY <1>1, ElementOfSeq
    <2>2. /\ after \in Seq(S)
          /\ Len(after) = IF k + 1 <= Len(s) THEN Len(s) - (k + 1) + 1 ELSE 0
          /\ \A i \in 1..Len(s) - (k + 1) + 1 : after[i] = s[k + 1 + i - 1]
      BY <1>1, <2>1, SubSeqProperties
    <2> HIDE DEF after
    <2>3. /\ Len(s) - (k + 1) + 1 = Len(s) - k
          /\ k + 1 <= Len(s) \/ Len(s) - k = 0
      BY <1>1
    <2>4. \A i \in Int : k + 1 + i - 1 = i + k
      BY <1>1
    <2>5. Len(after) = Len(s) - k
      BY <2>2, <2>3, Zenon
    <2>6. ASSUME NEW i \in 1..Len(s) - k PROVE after[i] = s[i + k]
      <3>1. i \in Int
        OBVIOUS
      <3> QED BY <2>2, <2>3, <2>4, <3>1, Zenon
    <2> QED BY <2>2, <2>5, <2>6
  <1> HIDE DEF before, after
  <1>4. /\ before \o after \in Seq(S)
        /\ Len(before \o after) = Len(before) + Len(after)
        /\ \A i \in 1..Len(before) + Len(after) : (before \o after)[i] =
             IF i <= Len(before) THEN before[i] ELSE after[i - Len(before)]
    BY <1>2, <1>3, ConcatProperties
  <1>5. RemoveAt(s, k) = before \o after
    BY DEF RemoveAt, before, after
  <1>6. ASSUME NEW i \in 1..Len(s) - 1
        PROVE  (before \o after)[i] = s[IF i < k THEN i ELSE i + 1]
    <2>1. CASE i < k
      BY <1>1, <1>2, <1>3, <1>4, <2>1
    <2>2. CASE i >= k
      <3>1. (before \o after)[i] = after[i - (k - 1)]
        BY <1>1, <1>2, <1>3, <1>4, <2>2
      <3>2. after[i - (k - 1)] = s[i - (k - 1) + k]
        BY <1>1, <1>3, <2>2
      <3> QED BY <1>1, <2>2, <3>1, <3>2
    <2>3. i < k \/ i >= k
      BY <1>1
    <2> QED BY <2>1, <2>2, <2>3
  <1>7. Len(before \o after) = Len(s) - 1
    BY <1>1, <1>2, <1>3, <1>4
  <1> QED BY <1>4, <1>5, <1>6, <1>7

-----------------------------------------------------------------------------
(* The parts of the invariant, one lemma each. *)

LEMMA InitWInv == WorkerInit => WInv
  <1> SUFFICES ASSUME WorkerInit PROVE WInv
    OBVIOUS
  <1>1. <<>> \in Lines /\ <<>> \in Seq(Lines) /\ Len(<<>>) = 0
    BY DEF Lines
  <1>2. /\ queue = <<>> /\ batch = <<>> /\ ~pushing /\ permits = 0 /\ pushed = 0
        /\ outgoing = <<>> /\ pending = <<>> /\ wire = <<>> /\ main = "running"
        /\ writer = "idle"
    BY DEF WorkerInit, Init
  <1>3. stats \in Stats
    BY DEF WorkerInit, Stats
  <1>4. WorkerTyped
    <2>1. /\ target \in {"stream", "udp"} /\ source \in {"replay", "live"}
          /\ reader \in {"connecting", "reading"} /\ conn = "connecting"
          /\ timedOut = FALSE
      BY DEF WorkerInit
    <2> QED BY <1>1, <1>2, <1>3, <2>1 DEF WorkerTyped
  <1>5. LinesAccountedFor
    BY <1>1, <1>2 DEF WorkerInit, LinesAccountedFor
  <1>6. SentInOrder /\ HeldInOrder
    BY <1>1, <1>2 DEF SentInOrder, HeldInOrder, Increasing, UpTo, InOrder
  <1> QED BY <1>2, <1>4, <1>5, <1>6
          DEF WInv, OneBatch, ReaderDone, MainSeesDone, Drained, Exited,
              DrainLosesAtMostOneBatch

LEMMA TypedKept ==
  ASSUME BufferInv, WorkerTyped, [WorkerNext]_workerVars PROVE WorkerTyped'
  <1>1. batch \in Lines
    BY BufferTyped
  <1>2. Len(outgoing) \in Nat
    BY DEF WorkerTyped, Lines
  <1>3. stats' \in Stats
    <2>1. \/ UNCHANGED stats
          \/ Reconnects
          \/ stats' = [stats EXCEPT !.lines_in = @ + 1]
          \/ stats' = [stats EXCEPT !.lines_in = @ + 1, !.dropped = @ + 1]
          \/ stats' = [stats EXCEPT !.lines_in = @ + 1, !.invalid = @ + 1]
          \/ stats' = [stats EXCEPT !.forwarded = @ + Len(outgoing)]
      BY DEF WorkerNext, IngestLine, FinishPush, SourceDone, ReaderConnects,
         ReaderFails, ReaderBackoffEnds, WriterStep, ConnectOk, BackoffEnds,
         TakePending, ReceiveBatch, SendOk, ConnectFail, SendFail, Land,
         LoseDatagram, CtrlC, MainStep, SeeSourceDone, DrainPoll, GraceEnds,
         AbortWriter, workerVars
    <2>2. stats \in Stats
      BY DEF WorkerTyped
    <2>3. CASE Reconnects
      BY <2>2, <2>3 DEF Reconnects, Stats
    <2>4. CASE stats' = [stats EXCEPT !.lines_in = @ + 1]
      BY <2>2, <2>4 DEF Stats
    <2>5. CASE stats' = [stats EXCEPT !.lines_in = @ + 1, !.dropped = @ + 1]
      <3>1. stats.lines_in + 1 \in Nat /\ stats.dropped + 1 \in Nat
        BY <2>2 DEF Stats
      <3>2. stats' = [[stats EXCEPT !.lines_in = stats.lines_in + 1]
                        EXCEPT !.dropped = stats.dropped + 1]
        BY <2>2, <2>5 DEF Stats
      <3>3. [stats EXCEPT !.lines_in = stats.lines_in + 1] \in Stats
        BY <2>2, <3>1 DEF Stats
      <3> QED BY <3>1, <3>2, <3>3 DEF Stats
    <2>6. CASE stats' = [stats EXCEPT !.lines_in = @ + 1, !.invalid = @ + 1]
      <3>1. stats.lines_in + 1 \in Nat /\ stats.invalid + 1 \in Nat
        BY <2>2 DEF Stats
      <3>2. stats' = [[stats EXCEPT !.lines_in = stats.lines_in + 1]
                        EXCEPT !.invalid = stats.invalid + 1]
        BY <2>2, <2>6 DEF Stats
      <3>3. [stats EXCEPT !.lines_in = stats.lines_in + 1] \in Stats
        BY <2>2, <3>1 DEF Stats
      <3> QED BY <3>1, <3>2, <3>3 DEF Stats
    <2>7. CASE stats' = [stats EXCEPT !.forwarded = @ + Len(outgoing)]
      BY <1>2, <2>2, <2>7 DEF Stats
    <2> QED BY <2>1, <2>2, <2>3, <2>4, <2>5, <2>6, <2>7
  <1>4. wire' \in Seq(Lines)
    <2>0. wire \in Seq(Lines) /\ outgoing \in Lines
      BY DEF WorkerTyped
    <2>1. \/ UNCHANGED wire
          \/ wire' = Append(wire, outgoing)
          \/ wire' = <<>>
          \/ \E i \in 1..Len(wire) : wire' = RemoveAt(wire, i)
      BY DEF WorkerNext, IngestLine, FinishPush, SourceDone, ReaderConnects,
         ReaderFails, ReaderBackoffEnds, WriterStep, ConnectOk, BackoffEnds,
         TakePending, ReceiveBatch, SendOk, ConnectFail, SendFail, Land,
         LoseDatagram, CtrlC, MainStep, SeeSourceDone, DrainPoll, GraceEnds,
         AbortWriter, workerVars
    <2>2. CASE \E i \in 1..Len(wire) : wire' = RemoveAt(wire, i)
      BY <2>0, <2>2, RemoveAtFacts
    <2>3. CASE wire' = Append(wire, outgoing)
      BY <2>0, <2>3, AppendProperties
    <2>4. <<>> \in Seq(Lines)
      OBVIOUS
    <2> QED BY <2>0, <2>1, <2>2, <2>3, <2>4
  <1>5. outgoing' \in Lines /\ pending' \in Lines
    <2>1. /\ outgoing' \in {outgoing, pending, batch, <<>>}
          /\ pending' \in {pending, outgoing, <<>>}
      BY DEF WorkerNext, IngestLine, FinishPush, SourceDone, ReaderConnects,
         ReaderFails, ReaderBackoffEnds, WriterStep, ConnectOk, BackoffEnds,
         TakePending, ReceiveBatch, SendOk, ConnectFail, SendFail, Land,
         LoseDatagram, CtrlC, MainStep, SeeSourceDone, DrainPoll, GraceEnds,
         AbortWriter, workerVars, writerVars
    <2>2. <<>> \in Lines /\ outgoing \in Lines /\ pending \in Lines
      BY DEF WorkerTyped, Lines
    <2> QED BY <1>1, <2>1, <2>2
  <1>6. /\ target' = target /\ source' = source
        /\ reader' \in {"connecting", "reading", "backoff", "done", "aborted"}
        /\ conn' \in {"connecting", "open", "backoff", "aborted"}
        /\ main' \in {"running", "draining", "grace", "exited"}
        /\ timedOut' \in {timedOut, TRUE}
    BY DEF WorkerTyped, WorkerNext, IngestLine, FinishPush, SourceDone,
       ReaderConnects, ReaderFails, ReaderBackoffEnds, WriterStep, ConnectOk,
       BackoffEnds, TakePending, ReceiveBatch, SendOk, ConnectFail, SendFail,
       Land, LoseDatagram, CtrlC, MainStep, SeeSourceDone, DrainPoll,
       GraceEnds, AbortWriter, workerVars, writerVars, options
  <1> QED BY <1>3, <1>4, <1>5, <1>6 DEF WorkerTyped
\* The steps that touch nothing but the reader's state, a connection's state,
\* the wire, or the main task before its exit.
Elsewhere ==
  \/ SourceDone \/ ReaderConnects \/ ReaderFails \/ ReaderBackoffEnds
  \/ ConnectOk \/ BackoffEnds \/ ConnectFail \/ Land \/ LoseDatagram
  \/ SeeSourceDone \/ DrainPoll \/ UNCHANGED workerVars

LEMMA StepCases ==
  ASSUME [WorkerNext]_workerVars
  PROVE  \/ Elsewhere \/ IngestLine \/ FinishPush
         \/ TakePending \/ ReceiveBatch \/ SendOk \/ SendFail
         \/ CtrlC \/ GraceEnds
  BY DEF WorkerNext, WriterStep, MainStep, Elsewhere

LEMMA ElsewhereEffect ==
  ASSUME Elsewhere
  PROVE  UNCHANGED <<vars, outgoing, pending, options>>
  BY DEF Elsewhere, SourceDone, ReaderConnects, ReaderFails,
     ReaderBackoffEnds, ConnectOk, BackoffEnds, ConnectFail, Land,
     LoseDatagram, SeeSourceDone, DrainPoll, workerVars, writerVars

LEMMA OneBatchKept ==
  ASSUME BufferInv, OneBatch, [WorkerNext]_workerVars PROVE OneBatch'
  <1>1. CASE Elsewhere
    BY <1>1, ElsewhereEffect DEF OneBatch, vars
  <1>2. CASE IngestLine
    <2>1. UNCHANGED <<writer, batch, outgoing, pending>>
      BY <1>2, PushEffect DEF IngestLine, vars, writerVars
    <2> QED BY <2>1 DEF OneBatch
  <1>3. CASE FinishPush
    <2>1. UNCHANGED <<batch, outgoing, pending>>
      BY <1>3, PermitEffect DEF FinishPush, writerVars
    <2>2. /\ writer' \in {"idle", "waiting", "granted"} =>
               writer \in {"idle", "waiting", "granted"}
          /\ writer = "idle" => writer' = "idle"
      BY <1>3, PermitEffect DEF FinishPush
    <2> QED BY <2>1, <2>2 DEF OneBatch
  <1>4. CASE TakePending
    BY <1>4 DEF TakePending, OneBatch, vars
  <1>5. CASE ReceiveBatch
    <2>1. outgoing = <<>> /\ pending = <<>> /\ pending' = <<>>
      BY <1>5 DEF ReceiveBatch
    <2>2. CASE Consume /\ outgoing' = batch
      BY <2>1, <2>2 DEF OneBatch, Consume
    <2>3. CASE PopFront /\ UNCHANGED outgoing
      BY <2>1, <2>3, PopEffect DEF OneBatch
    <2>4. CASE (Acquire \/ Wake \/ TryAcquire \/ ReturnBatch) /\ UNCHANGED outgoing
      BY <2>1, <2>4, PermitEffect DEF OneBatch
    <2> QED BY <1>5, <2>2, <2>3, <2>4 DEF ReceiveBatch, RecvBatch
  <1>6. CASE SendOk
    BY <1>6 DEF SendOk, OneBatch, vars
  <1>7. CASE SendFail
    BY <1>7 DEF SendFail, OneBatch, vars
  <1>8. CASE CtrlC \/ GraceEnds
    BY <1>8, AbortEffect DEF OneBatch
  <1> QED BY <1>1, <1>2, <1>3, <1>4, <1>5, <1>6, <1>7, <1>8, StepCases

EndOfReplay ==
  ReaderDone /\ MainSeesDone /\ Drained /\ Exited /\ DrainLosesAtMostOneBatch

LEMMA EndOfReplayKept ==
  ASSUME BufferInv, WorkerTyped, OneBatch, OneBatch', EndOfReplay, [WorkerNext]_workerVars
  PROVE  EndOfReplay'
  <1> USE DEF EndOfReplay, ReaderDone, MainSeesDone, Drained, Exited
  <1>1. outgoing' = <<>> \/ pending' = <<>>
    BY DEF OneBatch
  <1>2. CASE Elsewhere
    <2>1. UNCHANGED <<permits, pushing, queue, batch>>
      BY <1>2, ElsewhereEffect DEF vars
    <2>2. CASE SourceDone
      BY <1>1, <2>1, <2>2 DEF SourceDone, DrainLosesAtMostOneBatch, writerVars
    <2>3. CASE DrainPoll
      BY <1>1, <2>1, <2>3
      DEF DrainPoll, IsEmpty, DrainLosesAtMostOneBatch, writerVars
    <2>4. CASE ReaderConnects \/ ReaderFails \/ ReaderBackoffEnds
      BY <1>1, <2>1, <2>4
      DEF ReaderConnects, ReaderFails, ReaderBackoffEnds,
          DrainLosesAtMostOneBatch, writerVars
    <2>5. CASE \/ ConnectOk \/ BackoffEnds \/ ConnectFail \/ Land
               \/ LoseDatagram \/ SeeSourceDone \/ UNCHANGED workerVars
      BY <1>1, <2>1, <2>5
      DEF ConnectOk, BackoffEnds, ConnectFail, Land, LoseDatagram,
          SeeSourceDone, workerVars, DrainLosesAtMostOneBatch, writerVars
    <2> QED BY <1>2, <2>2, <2>3, <2>4, <2>5 DEF Elsewhere
  <1>3. CASE IngestLine
    BY <1>1, <1>3 DEF IngestLine, DrainLosesAtMostOneBatch, writerVars
  <1>4. CASE FinishPush
    <2>1. pushing /\ UNCHANGED <<reader, conn, main, timedOut>>
      BY <1>4, PermitEffect DEF FinishPush, writerVars
    <2> QED BY <2>1 DEF DrainLosesAtMostOneBatch
  <1>5. CASE TakePending \/ SendOk \/ SendFail
    <2>1. /\ conn = "open" /\ main # "exited"
          /\ UNCHANGED <<permits, pushing, reader, main, timedOut>>
      BY <1>5 DEF TakePending, SendOk, SendFail, vars
    <2> QED BY <2>1 DEF DrainLosesAtMostOneBatch
  <1>6. CASE ReceiveBatch
    <2>1. /\ conn = "open" /\ main # "exited"
          /\ UNCHANGED <<reader, main, timedOut>>
      BY <1>6 DEF ReceiveBatch
    <2>2. pushing' = pushing
      BY <1>6 DEF ReceiveBatch, RecvBatch, Acquire, Wake, PopFront,
         TryAcquire, ReturnBatch, Consume
    <2>3. permits \in Nat /\ permits' \in Nat /\ permits' <= permits
      <3>1. permits \in Nat
        BY BufferTyped
      <3>2. CASE PopFront \/ Consume
        BY <3>1, <3>2 DEF PopFront, Consume
      <3>3. CASE Acquire \/ Wake \/ TryAcquire \/ ReturnBatch
        BY <3>1, <3>3 DEF Acquire, Wake, TryAcquire, ReturnBatch
      <3> QED BY <1>6, <3>2, <3>3 DEF ReceiveBatch, RecvBatch
    <2> QED BY <2>1, <2>2, <2>3 DEF DrainLosesAtMostOneBatch
  <1>7. CASE CtrlC
    <2>1. reader' = "aborted" /\ conn' = "aborted" /\ main' = "exited"
      BY <1>7 DEF CtrlC, AbortWriter
    <2> QED BY <2>1 DEF DrainLosesAtMostOneBatch
  <1>8. CASE GraceEnds
    <2>1. /\ UNCHANGED <<queue, batch, pushing, outgoing, pending, timedOut>>
          /\ writer \in {"idle", "waiting", "granted"}
          /\ conn' = "aborted" /\ main' = "exited"
      BY <1>8, AbortEffect
    <2>2. main = "grace" /\ UNCHANGED reader
      BY <1>8 DEF GraceEnds
    <2>3. batch = <<>> /\ (outgoing = <<>> \/ pending = <<>>)
      BY <2>1 DEF OneBatch
    <2>4. ASSUME reader = "done", ~timedOut
          PROVE  \/ queue = <<>>
                 \/ Len(queue) = 1 /\ outgoing = <<>> /\ pending = <<>>
      <3>1. permits = 0 /\ ~pushing
        BY <2>2, <2>4
      <3>2. CASE HasPermit
        <4>1. writer # "idle" /\ Len(queue) = 1
          BY <3>1, <3>2, BufferTyped DEF HasPermit
        <4> QED BY <4>1 DEF OneBatch
      <3>3. CASE ~HasPermit
        BY <3>1, <3>3, BufferTyped
      <3> QED BY <3>2, <3>3
    <2> QED BY <2>1, <2>2, <2>3, <2>4 DEF DrainLosesAtMostOneBatch
  <1> QED BY <1>2, <1>3, <1>4, <1>5, <1>6, <1>7, <1>8, StepCases
LEMMA LinesAccountedForKept ==
  ASSUME BufferInv, WorkerTyped, OneBatch, LinesAccountedFor, [WorkerNext]_workerVars
  PROVE  LinesAccountedFor'
  <1>1. /\ stats \in Stats
        /\ stats.lines_in \in Nat /\ stats.invalid \in Nat
        /\ stats.dropped \in Nat /\ stats.forwarded \in Nat
        /\ Len(queue) \in Nat /\ Len(batch) \in Nat /\ Len(outgoing) \in Nat
        /\ Len(pending) \in Nat /\ Len(<<>>) = 0
    BY BufferTyped DEF WorkerTyped, Stats, Lines
  <1>s. /\ stats.lines_in + 1
             = stats.invalid + stats.dropped + stats.forwarded
                 + (Len(queue) + 1) + Len(batch) + Len(outgoing) + Len(pending)
        /\ stats.lines_in + 1
             = stats.invalid + (stats.dropped + 1) + stats.forwarded
                 + Len(queue) + Len(batch) + Len(outgoing) + Len(pending)
        /\ stats.lines_in + 1
             = (stats.invalid + 1) + stats.dropped + stats.forwarded
                 + Len(queue) + Len(batch) + Len(outgoing) + Len(pending)
        /\ stats.lines_in
             = stats.invalid + stats.dropped + stats.forwarded
                 + (Len(queue) - 1) + (Len(batch) + 1) + Len(outgoing) + Len(pending)
    <2> DEFINE l == stats.lines_in
               i == stats.invalid
               d == stats.dropped
               f == stats.forwarded
               q == Len(queue)
               b == Len(batch)
               o == Len(outgoing)
               p == Len(pending)
    <2>1. l \in Nat /\ i \in Nat /\ d \in Nat /\ f \in Nat
      BY <1>1
    <2>2. q \in Nat /\ b \in Nat /\ o \in Nat /\ p \in Nat
      BY <1>1
    <2>3. l = i + d + f + q + b + o + p
      BY DEF LinesAccountedFor
    <2> HIDE DEF l, i, d, f, q, b, o, p
    <2>4. /\ l + 1 = i + d + f + (q + 1) + b + o + p
          /\ l + 1 = i + (d + 1) + f + q + b + o + p
          /\ l + 1 = (i + 1) + d + f + q + b + o + p
          /\ l = i + d + f + (q - 1) + (b + 1) + o + p
      BY <2>1, <2>2, <2>3
    <2> QED BY <2>4 DEF l, i, d, f, q, b, o, p
  <1>2. Reconnects => /\ stats'.lines_in = stats.lines_in
                      /\ stats'.invalid = stats.invalid
                      /\ stats'.dropped = stats.dropped
                      /\ stats'.forwarded = stats.forwarded
    BY <1>1 DEF Reconnects, Stats
  <1>3. CASE Elsewhere
    <2>1. UNCHANGED <<queue, batch, outgoing, pending>>
      BY <1>3, ElsewhereEffect DEF vars
    <2>2. UNCHANGED stats \/ Reconnects
      BY <1>3 DEF Elsewhere, SourceDone, ReaderConnects, ReaderFails,
         ReaderBackoffEnds, ConnectOk, BackoffEnds, ConnectFail, Land,
         LoseDatagram, SeeSourceDone, DrainPoll, workerVars
    <2> QED BY <1>2, <2>1, <2>2 DEF LinesAccountedFor
  <1>4. CASE IngestLine
    <2>1. UNCHANGED <<outgoing, pending>>
      BY <1>4 DEF IngestLine, writerVars
    <2>2. CASE PushBack /\ stats' = [stats EXCEPT !.lines_in = @ + 1]
      <3>1. /\ stats'.lines_in = stats.lines_in + 1
            /\ stats'.invalid = stats.invalid
            /\ stats'.dropped = stats.dropped
            /\ stats'.forwarded = stats.forwarded
        BY <1>1, <2>2 DEF Stats
      <3>2. Len(queue') = Len(queue) + 1 /\ batch' = batch
        BY <2>2, PushEffect
      <3> QED BY <1>s, <2>1, <3>1, <3>2 DEF LinesAccountedFor
    <2>3. CASE /\ PushEvicting
               /\ stats' = [stats EXCEPT !.lines_in = @ + 1, !.dropped = @ + 1]
      <3>1. /\ stats'.lines_in = stats.lines_in + 1
            /\ stats'.invalid = stats.invalid
            /\ stats'.dropped = stats.dropped + 1
            /\ stats'.forwarded = stats.forwarded
        BY <1>1, <2>3 DEF Stats
      <3>2. Len(queue') = Len(queue) /\ batch' = batch
        BY <2>3, PushEffect
      <3> QED BY <1>s, <2>1, <3>1, <3>2 DEF LinesAccountedFor
    <2>4. CASE /\ stats' = [stats EXCEPT !.lines_in = @ + 1, !.invalid = @ + 1]
               /\ UNCHANGED vars
      <3>1. /\ stats'.lines_in = stats.lines_in + 1
            /\ stats'.invalid = stats.invalid + 1
            /\ stats'.dropped = stats.dropped
            /\ stats'.forwarded = stats.forwarded
        BY <1>1, <2>4 DEF Stats
      <3> QED BY <1>s, <2>1, <2>4, <3>1 DEF LinesAccountedFor, vars
    <2> QED BY <1>4, <2>2, <2>3, <2>4 DEF IngestLine
  <1>5. CASE FinishPush
    <2>1. UNCHANGED <<queue, batch, outgoing, pending, stats>>
      BY <1>5, PermitEffect DEF FinishPush, writerVars
    <2> QED BY <2>1 DEF LinesAccountedFor
  <1>6. CASE TakePending
    BY <1>1, <1>6 DEF TakePending, LinesAccountedFor, vars
  <1>7. CASE ReceiveBatch
    <2>1. outgoing = <<>> /\ pending' = pending /\ stats' = stats
      BY <1>7 DEF ReceiveBatch
    <2>2. CASE Consume /\ outgoing' = batch
      BY <1>1, <2>1, <2>2 DEF Consume, LinesAccountedFor
    <2>3. CASE PopFront /\ UNCHANGED outgoing
      <3>1. Len(batch') = Len(batch) + 1 /\ Len(queue') = Len(queue) - 1
        BY <2>3, PopEffect
      <3> QED BY <1>s, <2>1, <2>3, <3>1 DEF LinesAccountedFor
    <2>4. CASE (Acquire \/ Wake \/ TryAcquire \/ ReturnBatch) /\ UNCHANGED outgoing
      <3>1. UNCHANGED <<queue, batch>>
        BY <2>4, PermitEffect
      <3> QED BY <2>1, <2>4, <3>1 DEF LinesAccountedFor
    <2> QED BY <1>7, <2>2, <2>3, <2>4 DEF ReceiveBatch, RecvBatch
  <1>8. CASE SendOk
    <2>1. /\ stats'.lines_in = stats.lines_in
          /\ stats'.invalid = stats.invalid
          /\ stats'.dropped = stats.dropped
          /\ stats'.forwarded = stats.forwarded + Len(outgoing)
      BY <1>1, <1>8 DEF SendOk, Stats
    <2>2. Len(outgoing') = 0 /\ UNCHANGED <<queue, batch, pending>>
      BY <1>8 DEF SendOk, vars
    <2>3. stats.lines_in
            = stats.invalid + stats.dropped + (stats.forwarded + Len(outgoing))
                + Len(queue) + Len(batch) + 0 + Len(pending)
      BY <1>1 DEF LinesAccountedFor
    <2> QED BY <2>1, <2>2, <2>3 DEF LinesAccountedFor
  <1>9. CASE SendFail
    <2>1. /\ pending' = outgoing /\ outgoing' = <<>> /\ Reconnects
          /\ UNCHANGED <<queue, batch>> /\ outgoing # <<>>
      BY <1>9 DEF SendFail, vars
    <2>2. pending = <<>>
      BY <2>1 DEF OneBatch
    <2> QED BY <1>1, <1>2, <2>1, <2>2 DEF LinesAccountedFor
  <1>10. CASE CtrlC \/ GraceEnds
    BY <1>10, AbortEffect DEF LinesAccountedFor
  <1> QED BY <1>3, <1>4, <1>5, <1>6, <1>7, <1>8, <1>9, <1>10, StepCases
\* What is out of the buffer stays older than what is in it.
LEMMA OldestGrows ==
  ASSUME BufferInv, [WorkerNext]_workerVars
  PROVE  Oldest \in Int /\ Oldest' \in Int /\ Oldest' >= Oldest
  <1>1. Oldest \in Int /\ pushed \in Nat /\ Len(queue) \in Nat
    BY BufferTyped
  <1>2. CASE IngestLine
    BY <1>1, <1>2, PushEffect DEF IngestLine, Oldest, vars
  <1>3. CASE FinishPush
    BY <1>1, <1>3, PermitEffect DEF FinishPush, Oldest
  <1>4. CASE ReceiveBatch
    <2>1. CASE PopFront
      BY <1>1, <2>1, PopEffect
    <2>2. CASE Acquire \/ Wake \/ TryAcquire \/ ReturnBatch
      BY <1>1, <2>2, PermitEffect
    <2>3. CASE Consume
      BY <1>1, <2>3 DEF Consume, Oldest
    <2> QED BY <1>4, <2>1, <2>2, <2>3 DEF ReceiveBatch, RecvBatch
  <1>5. CASE Elsewhere
    BY <1>1, <1>5, ElsewhereEffect DEF vars, Oldest
  <1>6. CASE TakePending \/ SendOk \/ SendFail
    BY <1>1, <1>6 DEF TakePending, SendOk, SendFail, vars, Oldest
  <1>7. CASE CtrlC \/ GraceEnds
    BY <1>1, <1>7, AbortEffect
  <1> QED BY <1>2, <1>3, <1>4, <1>5, <1>6, <1>7, StepCases

LEMMA UpToGrows ==
  ASSUME NEW s \in Lines, NEW m \in Int, NEW n \in Int, UpTo(s, m), n >= m
  PROVE  UpTo(s, n)
  <1> SUFFICES ASSUME NEW i \in 1..Len(s) PROVE s[i] <= n
    BY DEF UpTo
  <1>1. s[i] \in 1..MaxPushed
    BY ElementOfSeq DEF Lines
  <1>2. s[i] <= m
    BY DEF UpTo
  <1> QED BY <1>1, <1>2, BufferConstants

LEMMA NothingInOrder ==
  /\ \A s : InOrder(s, <<>>) /\ InOrder(<<>>, s)
  /\ Increasing(<<>>) /\ \A n : UpTo(<<>>, n)
  BY DEF InOrder, Increasing, UpTo

LEMMA HeldInOrderKept ==
  ASSUME BufferInv, WorkerTyped, HeldInOrder, [WorkerNext]_workerVars
  PROVE  HeldInOrder'
  <1>1. /\ outgoing' \in {outgoing, pending, batch, <<>>}
        /\ pending' \in {pending, outgoing, <<>>}
    BY DEF WorkerNext, IngestLine, FinishPush, SourceDone, ReaderConnects,
       ReaderFails, ReaderBackoffEnds, WriterStep, ConnectOk, BackoffEnds,
       TakePending, ReceiveBatch, SendOk, ConnectFail, SendFail, Land,
       LoseDatagram, CtrlC, MainStep, SeeSourceDone, DrainPoll, GraceEnds,
       AbortWriter, workerVars, writerVars
  <1>2. ASSUME NEW s \in {outgoing, pending, batch, <<>>}
        PROVE  Increasing(s) /\ UpTo(s, Oldest')
    <2>1. s \in Lines
      <3>1. outgoing \in Lines /\ pending \in Lines /\ <<>> \in Lines
        BY DEF WorkerTyped, Lines
      <3>2. batch \in Lines
        BY BufferTyped
      <3> QED BY <3>1, <3>2
    <2>2. Increasing(s) /\ UpTo(s, Oldest)
      BY BufferTyped, NothingInOrder DEF HeldInOrder
    <2> HIDE DEF Oldest
    <2> QED BY <2>1, <2>2, UpToGrows, OldestGrows
  <1>3. Increasing(outgoing') /\ UpTo(outgoing', Oldest')
    BY <1>1, <1>2
  <1>4. Increasing(pending') /\ UpTo(pending', Oldest')
    BY <1>1, <1>2
  <1> QED BY <1>3, <1>4 DEF HeldInOrder, Increasing, UpTo
\* What each place of the worker keeps in order with the wire.
BehindWire(s) == ~Datagram => \A b \in 1..Len(wire) : InOrder(wire[b], s)
WireInOrder ==
  /\ \A b \in 1..Len(wire) : Increasing(wire[b]) /\ UpTo(wire[b], Oldest)
  /\ ~Datagram => \A b, c \in 1..Len(wire) : b < c => InOrder(wire[b], wire[c])

LEMMA SentInOrderParts ==
  SentInOrder <=> /\ WireInOrder
                  /\ BehindWire(outgoing) /\ BehindWire(pending) /\ BehindWire(batch)
  BY DEF SentInOrder, WireInOrder, BehindWire

\* The wire is unchanged or loses a batch: what was in order with it still is.
LEMMA WireShrinks ==
  ASSUME BufferInv, WorkerTyped, WireInOrder, [WorkerNext]_workerVars, target' = target,
         \/ wire' = wire
         \/ wire' = <<>>
         \/ \E k \in 1..Len(wire) : wire' = RemoveAt(wire, k)
  PROVE  /\ WireInOrder'
         /\ \A s, t : BehindWire(s) /\ t = s =>
              (~Datagram' => \A b \in 1..Len(wire') : InOrder(wire'[b], t))
  <1>1. Datagram' <=> Datagram
    BY DEF Datagram
  <1>2. wire \in Seq(Lines) /\ Len(wire) \in Nat
    BY DEF WorkerTyped
  <1>3. PICK at \in [1..Len(wire') -> 1..Len(wire)] :
          /\ \A b \in 1..Len(wire') : wire'[b] = wire[at[b]]
          /\ \A b, c \in 1..Len(wire') : b < c => at[b] < at[c]
    <2>1. CASE wire' = wire
      <3> DEFINE f == [b \in 1..Len(wire') |-> b]
      <3>1. f \in [1..Len(wire') -> 1..Len(wire)]
        BY <2>1
      <3> QED BY <1>2, <2>1, <3>1
    <2>2. CASE wire' = <<>>
      <3> WITNESS [b \in 1..Len(wire') |-> 1] \in [1..Len(wire') -> 1..Len(wire)]
      <3> QED BY <2>2
    <2>3. CASE \E k \in 1..Len(wire) : wire' = RemoveAt(wire, k)
      <3>1. PICK k \in 1..Len(wire) : wire' = RemoveAt(wire, k)
        BY <2>3
      <3>2. /\ Len(wire') = Len(wire) - 1
            /\ \A b \in 1..Len(wire') : wire'[b] = wire[IF b < k THEN b ELSE b + 1]
        BY <1>2, <3>1, RemoveAtFacts
      <3> DEFINE f == [b \in 1..Len(wire') |-> IF b < k THEN b ELSE b + 1]
      <3>3. f \in [1..Len(wire') -> 1..Len(wire)]
        BY <1>2, <3>2
      <3>4. \A b \in 1..Len(wire') : wire'[b] = wire[f[b]]
        BY <3>2
      <3>5. \A b, c \in 1..Len(wire') : b < c => f[b] < f[c]
        BY <1>2, <3>2
      <3> QED BY <3>3, <3>4, <3>5
    <2> QED BY <2>1, <2>2, <2>3
  <1>4. ASSUME NEW b \in 1..Len(wire')
        PROVE  Increasing(wire'[b]) /\ UpTo(wire'[b], Oldest')
    <2>1. wire'[b] = wire[at[b]] /\ at[b] \in 1..Len(wire)
      BY <1>3
    <2>2. Increasing(wire[at[b]]) /\ UpTo(wire[at[b]], Oldest)
      BY <2>1 DEF WireInOrder
    <2>3. wire[at[b]] \in Lines
      BY <1>2, <2>1, ElementOfSeq
    <2> HIDE DEF Oldest
    <2> QED BY <2>1, <2>2, <2>3, UpToGrows, OldestGrows
  <1>5. ASSUME ~Datagram, NEW b \in 1..Len(wire'), NEW c \in 1..Len(wire'), b < c
        PROVE  InOrder(wire'[b], wire'[c])
    BY <1>3, <1>5 DEF WireInOrder
  <1>6. WireInOrder'
    BY <1>1, <1>4, <1>5 DEF WireInOrder, Increasing, UpTo, InOrder
  <1>7. ASSUME NEW s, BehindWire(s), ~Datagram, NEW b \in 1..Len(wire')
        PROVE  InOrder(wire'[b], s)
    BY <1>3, <1>7 DEF BehindWire
  <1> QED BY <1>1, <1>6, <1>7
LEMMA SentInOrderKept ==
  ASSUME BufferInv, WorkerTyped, WorkerTyped', OneBatch, SentInOrder, HeldInOrder,
         [WorkerNext]_workerVars
  PROVE  SentInOrder'
  <1>1. target' = target
    BY DEF WorkerNext, IngestLine, FinishPush, SourceDone, ReaderConnects,
       ReaderFails, ReaderBackoffEnds, WriterStep, ConnectOk, BackoffEnds,
       TakePending, ReceiveBatch, SendOk, ConnectFail, SendFail, Land,
       LoseDatagram, CtrlC, MainStep, SeeSourceDone, DrainPoll, GraceEnds,
       workerVars, options
  <1>2. /\ WireInOrder
        /\ BehindWire(outgoing) /\ BehindWire(pending) /\ BehindWire(batch)
        /\ BehindWire(<<>>)
    BY SentInOrderParts, NothingInOrder DEF BehindWire
  \* All steps but two leave the wire or shorten it, and move whole batches.
  <1>3. ASSUME \/ wire' = wire
               \/ wire' = <<>>
               \/ \E k \in 1..Len(wire) : wire' = RemoveAt(wire, k),
               BehindWire(outgoing') /\ BehindWire(pending') /\ BehindWire(batch')
        PROVE  SentInOrder'
    <2>1. /\ WireInOrder'
          /\ \A s, t : BehindWire(s) /\ t = s =>
               (~Datagram' => \A b \in 1..Len(wire') : InOrder(wire'[b], t))
      BY <1>1, <1>2, <1>3, WireShrinks
    <2>2. ~Datagram' => \A b \in 1..Len(wire') : /\ InOrder(wire'[b], outgoing')
                                                 /\ InOrder(wire'[b], pending')
                                                 /\ InOrder(wire'[b], batch')
      BY <1>3, <2>1
    <2> QED BY <2>1, <2>2 DEF SentInOrder, WireInOrder, Increasing, UpTo, InOrder
  <1>4. CASE Elsewhere
    <2>1. UNCHANGED <<outgoing, pending, batch>>
      BY <1>4, ElsewhereEffect DEF vars
    <2>2. wire' = wire \/ \E k \in 1..Len(wire) : wire' = RemoveAt(wire, k)
      BY <1>4 DEF Elsewhere, SourceDone, ReaderConnects, ReaderFails,
         ReaderBackoffEnds, ConnectOk, BackoffEnds, ConnectFail, Land,
         LoseDatagram, SeeSourceDone, DrainPoll, workerVars
    <2> QED BY <1>2, <1>3, <2>1, <2>2
  <1>5. CASE IngestLine
    <2>1. UNCHANGED <<outgoing, pending, batch, wire>>
      BY <1>5, PushEffect DEF IngestLine, vars, writerVars
    <2> QED BY <1>2, <1>3, <2>1
  <1>6. CASE FinishPush
    <2>1. UNCHANGED <<outgoing, pending, batch, wire>>
      BY <1>6, PermitEffect DEF FinishPush, writerVars
    <2> QED BY <1>2, <1>3, <2>1
  <1>7. CASE TakePending \/ SendFail
    <2>1. /\ batch' = batch
          /\ outgoing' \in {pending, <<>>} /\ pending' \in {outgoing, <<>>}
          /\ wire' = wire \/ wire' = <<>>
      BY <1>7 DEF TakePending, SendFail, vars
    <2> QED BY <1>2, <1>3, <2>1
  <1>8. CASE ReceiveBatch
    <2>1. UNCHANGED <<pending, wire>> /\ outgoing = <<>>
      BY <1>8 DEF ReceiveBatch
    <2>2. CASE Consume /\ outgoing' = batch
      BY <1>2, <1>3, <2>1, <2>2 DEF Consume
    <2>3. CASE (Acquire \/ Wake \/ TryAcquire \/ ReturnBatch) /\ UNCHANGED outgoing
      <3>1. batch' = batch
        BY <2>3, PermitEffect
      <3> QED BY <1>2, <1>3, <2>1, <2>3, <3>1
    <2>4. CASE PopFront /\ UNCHANGED outgoing
      <3>1. batch' = Append(batch, Oldest + 1) /\ batch \in Lines
            /\ Oldest + 1 \in 1..MaxPushed
        BY <2>4, PopEffect, BufferTyped
      <3>2. BehindWire(batch')
        <4> SUFFICES ASSUME ~Datagram, NEW b \in 1..Len(wire),
                            NEW i \in 1..Len(wire[b]), NEW j \in 1..Len(batch')
                     PROVE  wire[b][i] < batch'[j]
          BY DEF BehindWire, InOrder
        <4>1. InOrder(wire[b], batch) /\ UpTo(wire[b], Oldest)
          BY <1>2 DEF BehindWire, WireInOrder
        <4>2. /\ Len(batch') = Len(batch) + 1 /\ Len(batch) \in Nat
              /\ \A k \in 1..Len(batch) : batch'[k] = batch[k]
              /\ batch'[Len(batch) + 1] = Oldest + 1
          <5> HIDE DEF Oldest
          <5> QED BY <3>1, AppendProperties, LenProperties DEF Lines
        <4>3. wire[b] \in Lines
          BY ElementOfSeq DEF WorkerTyped
        <4>4. wire[b][i] \in 1..MaxPushed
          BY <4>3, ElementOfSeq DEF Lines
        <4>5. wire[b][i] <= Oldest
          BY <4>1 DEF UpTo
        <4>6. CASE j = Len(batch) + 1
          <5>1. batch'[j] = Oldest + 1
            BY <4>2, <4>6
          <5>2. Oldest \in Int /\ wire[b][i] \in Int
            BY <4>4, OldestGrows, BufferConstants
          <5> HIDE DEF Oldest
          <5> QED BY <4>5, <5>1, <5>2
        <4>7. CASE j \in 1..Len(batch)
          BY <4>1, <4>2, <4>7 DEF InOrder
        <4> QED BY <4>2, <4>6, <4>7
      <3> QED BY <1>2, <1>3, <2>1, <2>4, <3>2
    <2> QED BY <1>8, <2>2, <2>3, <2>4 DEF ReceiveBatch, RecvBatch
  <1>9. CASE SendOk
    <2>1. /\ wire' = Append(wire, outgoing) /\ outgoing' = <<>> /\ outgoing # <<>>
          /\ UNCHANGED <<pending, batch>>
      BY <1>9 DEF SendOk, vars
    <2>2. pending' = <<>> /\ batch' = <<>>
      BY <2>1 DEF OneBatch
    <2>3. /\ wire \in Seq(Lines) /\ Len(wire) \in Nat /\ outgoing \in Lines
          /\ Len(wire') = Len(wire) + 1
          /\ \A b \in 1..Len(wire) : wire'[b] = wire[b]
          /\ wire'[Len(wire) + 1] = outgoing
      BY <2>1, AppendProperties, LenProperties DEF WorkerTyped
    <2>4. Oldest' = Oldest
      BY <1>9 DEF SendOk, vars, Oldest
    <2>5. ASSUME NEW b \in 1..Len(wire')
          PROVE  Increasing(wire'[b]) /\ UpTo(wire'[b], Oldest')
      <3>1. CASE b = Len(wire) + 1
        <4> HIDE DEF Oldest
        <4> QED BY <2>3, <2>4, <3>1 DEF HeldInOrder
      <3>2. CASE b \in 1..Len(wire)
        <4> HIDE DEF Oldest
        <4> QED BY <1>2, <2>3, <2>4, <3>2 DEF WireInOrder
      <3> QED BY <2>3, <3>1, <3>2
    <2>6. ASSUME ~Datagram, NEW b \in 1..Len(wire'), NEW c \in 1..Len(wire'), b < c
          PROVE  InOrder(wire'[b], wire'[c])
      <3>1. b \in 1..Len(wire) /\ wire'[b] = wire[b]
        BY <2>3, <2>6
      <3>2. CASE c = Len(wire) + 1
        BY <1>2, <2>3, <2>6, <3>1, <3>2 DEF BehindWire
      <3>3. CASE c \in 1..Len(wire)
        <4>1. wire'[c] = wire[c] /\ InOrder(wire[b], wire[c])
          BY <1>2, <2>3, <2>6, <3>1, <3>3 DEF WireInOrder
        <4> QED BY <3>1, <4>1
      <3> QED BY <2>3, <3>2, <3>3
    <2>7. Datagram' <=> Datagram
      BY <1>1 DEF Datagram
    <2> QED BY <2>1, <2>2, <2>5, <2>6, <2>7
            DEF SentInOrder, Increasing, UpTo, InOrder
  <1>10. CASE CtrlC \/ GraceEnds
    <2>1. UNCHANGED <<outgoing, pending, batch, wire>>
      BY <1>10, AbortEffect
    <2> QED BY <1>2, <1>3, <2>1
  <1> QED BY <1>4, <1>5, <1>6, <1>7, <1>8, <1>9, <1>10, StepCases
-----------------------------------------------------------------------------
(* The theorems. *)

\* The invariant holds in every reachable state: the lines add up, are in order
\* and, once shutting down, all but one batch at most has been sent.
THEOREM WorkerInvariance == WorkerSpec => []WInv
  <1>1. WorkerInit => WInv
    BY InitWInv
  <1>2. BufferInv /\ WInv /\ [WorkerNext]_workerVars => WInv'
    <2> SUFFICES ASSUME BufferInv, WInv, [WorkerNext]_workerVars PROVE WInv'
      OBVIOUS
    <2>1. WorkerTyped'
      BY TypedKept DEF WInv
    <2>2. OneBatch'
      BY OneBatchKept DEF WInv
    <2>3. EndOfReplay'
      BY <2>2, EndOfReplayKept DEF WInv, EndOfReplay
    <2>4. LinesAccountedFor'
      BY LinesAccountedForKept DEF WInv
    <2>5. SentInOrder' /\ HeldInOrder'
      BY <2>1, SentInOrderKept, HeldInOrderKept DEF WInv
    <2> QED BY <2>1, <2>2, <2>3, <2>4, <2>5 DEF WInv, EndOfReplay
  <1> QED BY <1>1, <1>2, BufferInvariance, PTL DEF WorkerSpec

\* Every line the reader counted is in exactly one place or counter, whatever
\* was evicted, failed or retried (types.rs, Stats; ingest.rs counts forwarded
\* once per accepted batch).
THEOREM LinesAddUp == WorkerSpec => []LinesAccountedFor
  <1>1. WInv => LinesAccountedFor
    BY DEF WInv
  <1> QED BY <1>1, WorkerInvariance, PTL

\* A replay whose buffer was reported empty in time gives up at most one
\* batch, or the one line whose permit the writer had been given (pump.rs, drain
\* and the grace; queue.rs, is_empty).
THEOREM DrainLosesOneBatch == WorkerSpec => []DrainLosesAtMostOneBatch
  <1>1. WInv => DrainLosesAtMostOneBatch
    BY DEF WInv
  <1> QED BY <1>1, WorkerInvariance, PTL

\* The retry of a failed batch never lets a newer line overtake an older one
\* (ingest.rs, pending is sent before anything is received).
THEOREM LinesKeepTheirOrder == WorkerSpec => []NoOvertaking
  <1>1. BufferInv /\ WInv => NoOvertaking
    <2> SUFFICES ASSUME BufferInv, WInv PROVE NoOvertaking
      OBVIOUS
    <2> DEFINE held == <<outgoing, pending, batch>>
               n == Len(wire)
               taken == wire \o held
    <2>1. /\ wire \in Seq(Lines) /\ n \in Nat
          /\ outgoing \in Lines /\ pending \in Lines /\ batch \in Lines
      BY BufferTyped DEF WInv, WorkerTyped
    <2>2. /\ held \in Seq(Lines) /\ Len(held) = 3
          /\ held[1] = outgoing /\ held[2] = pending /\ held[3] = batch
      BY <2>1
    <2> HIDE DEF held, n
    <2>3. /\ Len(taken) = n + 3
          /\ \A b \in 1..n : taken[b] = wire[b]
          /\ taken[n + 1] = outgoing /\ taken[n + 2] = pending
          /\ taken[n + 3] = batch
      <3>1. /\ Len(taken) = n + 3
            /\ \A b \in 1..n + 3 : taken[b] = IF b <= n THEN wire[b] ELSE held[b - n]
        <4> HIDE DEF taken
        <4>1. /\ Len(taken) = Len(wire) + Len(held)
              /\ \A b \in 1..Len(wire) + Len(held) : taken[b] =
                   IF b <= Len(wire) THEN wire[b] ELSE held[b - Len(wire)]
          BY <2>1, <2>2, ConcatProperties DEF taken
        <4> QED BY <2>2, <4>1 DEF n
      <3> HIDE DEF taken
      <3>2. \A b \in 1..n : taken[b] = wire[b]
        BY <2>1, <3>1
      <3>3. /\ taken[n + 1] = held[n + 1 - n] /\ taken[n + 2] = held[n + 2 - n]
            /\ taken[n + 3] = held[n + 3 - n]
        BY <2>1, <3>1
      <3>4. n + 1 - n = 1 /\ n + 2 - n = 2 /\ n + 3 - n = 3
        BY <2>1
      <3> QED BY <2>2, <3>1, <3>2, <3>3, <3>4
    <2> HIDE DEF taken
    <2>4. ASSUME NEW b \in 1..Len(taken)
          PROVE  Increasing(taken[b]) /\ UpTo(taken[b], Oldest)
      <3> HIDE DEF Oldest
      <3>1. CASE b \in 1..n
        BY <2>3, <3>1 DEF WInv, SentInOrder, n
      <3>2. CASE b \in {n + 1, n + 2, n + 3}
        BY <2>3, <3>2, BufferTyped DEF WInv, HeldInOrder
      <3> QED BY <2>1, <2>3, <3>1, <3>2
    <2>5. ASSUME NEW b \in 1..Len(taken), NEW c \in 1..Len(taken), b < c,
                 ~Datagram \/ b > n
          PROVE  InOrder(taken[b], taken[c])
      <3>1. CASE b > n
        <4>1. /\ InOrder(outgoing, pending)
              /\ InOrder(outgoing, batch) /\ InOrder(pending, batch)
          BY NothingInOrder DEF WInv, OneBatch
        <4>2. \/ b = n + 1 /\ c = n + 2
              \/ b = n + 1 /\ c = n + 3
              \/ b = n + 2 /\ c = n + 3
          BY <2>1, <2>3, <2>5, <3>1
        <4> QED BY <2>3, <4>1, <4>2
      <3>2. CASE b \in 1..n /\ c \in 1..n
        BY <2>3, <2>5, <3>2, <2>1 DEF WInv, SentInOrder, n
      <3>3. CASE b \in 1..n /\ c \in {n + 1, n + 2, n + 3}
        BY <2>3, <2>5, <3>3, <2>1 DEF WInv, SentInOrder, n
      <3> QED BY <2>1, <2>3, <3>1, <3>2, <3>3
    <2> QED BY <2>4, <2>5
            DEF NoOvertaking, Increasing, UpTo, Oldest, taken, held, n
  <1> QED BY <1>1, BufferInvariance, WorkerInvariance, PTL

=============================================================================
