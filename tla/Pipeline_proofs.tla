-------------------------- MODULE Pipeline_proofs --------------------------
(***************************************************************************)
(* Proofs about the pipeline, for every number of replicas, messages and   *)
(* restarts and every window: what an instance remembers of what it has    *)
(* handled is enough to publish nothing twice, to route every static and   *)
(* to keep the vessel's name over restarts.                                *)
(***************************************************************************)
EXTENDS Pipeline, SequenceTheorems, TLAPS

(***************************************************************************)
(* Types, as far as the proofs use them.                                   *)
(***************************************************************************)
Job == [at : {"put", "publish"}, payload : Payload, since : Nat, failed : BOOLEAN]
Entry == [payload : Payload, by : Instance, epoch : Nat, at : Nat, started : Nat,
          name : Name \cup {Unknown}, cell : Cell \cup {Unknown}]
Receipt == [payload : Payload, by : Instance, epoch : Nat, at : Nat,
            duplicate : BOOLEAN]

Typed ==
  /\ seen \in [Instance -> [Payload -> Int]] /\ lastSweep \in [Instance -> Nat]
  /\ names \in [Instance -> Name \cup {Unknown}]
  /\ lastPos \in [Instance -> Cell \cup {Unknown}]
  /\ kv \in Name \cup {Unknown}
  /\ task \in [Instance -> {Idle, Warming, Loading} \cup Job]
  /\ epoch \in [Instance -> Nat] /\ started \in [Instance -> Nat]
  /\ log \in Seq(Entry) /\ received \in Seq(Receipt)
  /\ now \in Nat

\* What an instance has in hand, and what it did in its present life.
Busy(i) == task[i].at \in {"put", "publish"}
Current(e) == e.epoch = epoch[e.by]

Lives ==
  /\ \A l \in 1..Len(log) : log[l].epoch <= epoch[log[l].by]
  /\ \A r \in 1..Len(received) : received[r].epoch <= epoch[received[r].by]
  /\ \A i \in Instance : task[i].at = "put" => task[i].payload.kind = "static"

(***************************************************************************)
(* The window.  What was handled within the ttl is still remembered,       *)
(* whenever the sweep ran, so what is in hand was not published within the *)
(* ttl before.                                                             *)
(***************************************************************************)
Remembered ==
  /\ \A i \in Instance, p \in Payload : seen[i][p] <= now
  /\ \A l \in 1..Len(log) :
       Current(log[l]) /\ now - log[l].at <= Ttl
         => log[l].at <= seen[log[l].by][log[l].payload]
  /\ \A i \in Instance : Busy(i) /\ now - task[i].since <= Ttl
         => task[i].since <= seen[i][task[i].payload]

InHandIsNew ==
  \A i \in Instance, l \in 1..Len(log) :
    /\ Busy(i)
    /\ log[l].by = i /\ Current(log[l]) /\ log[l].payload = task[i].payload
    => task[i].since - log[l].at > Ttl

PublishedOnce ==
  \A a, b \in 1..Len(log) :
    a < b /\ SameWindow(log[a], log[b]) => log[b].at - log[a].at > Ttl

(***************************************************************************)
(* What the window remembers are first copies, and first copies are        *)
(* published unless the instance dies.                                     *)
(***************************************************************************)
IsFirst(f, p, i, e, t) ==
  /\ received[f].payload = p /\ received[f].by = i /\ received[f].epoch = e
  /\ received[f].at = t /\ ~received[f].duplicate

SeenIsFirst ==
  \A i \in Instance, p \in Payload :
    seen[i][p] # Never => \E f \in 1..Len(received) :
                            IsFirst(f, p, i, epoch[i], seen[i][p])

DuplicateHasFirst ==
  \A r \in 1..Len(received) : received[r].duplicate =>
    \E f \in 1..(r - 1) : /\ SameWindow(received[f], received[r])
                          /\ ~received[f].duplicate
                          /\ received[r].at - received[f].at <= Ttl

InHand(f) ==
  LET i == received[f].by
  IN  /\ Busy(i) /\ Current(received[f])
      /\ task[i].payload = received[f].payload /\ task[i].since = received[f].at

FirstIsPublished ==
  \A f \in 1..Len(received) : ~received[f].duplicate =>
    \/ \E l \in 1..Len(log) :
         SameWindow(log[l], received[f]) /\ log[l].at = received[f].at
    \/ InHand(f)
    \/ ~Current(received[f])

(***************************************************************************)
(* lastPos is the cell of the position in hand, or else of the last one    *)
(* published in this life, and with it statics are routed.                 *)
(***************************************************************************)
PositionBy(l, i) ==
  log[l].payload.kind = "position" /\ log[l].by = i /\ log[l].epoch = epoch[i]

LastCell ==
  \A i \in Instance :
    IF Busy(i) /\ task[i].payload.kind = "position"
      THEN lastPos[i] = task[i].payload.cell
      ELSE (\E l \in 1..Len(log) : PositionBy(l, i)) =>
             \E l \in 1..Len(log) : /\ PositionBy(l, i)
                                    /\ \A k \in 1..Len(log) : PositionBy(k, i) => k <= l
                                    /\ lastPos[i] = log[l].payload.cell

(***************************************************************************)
(* While the bucket answers: a name an instance has, or has published, is  *)
(* in the bucket or about to be, and an instance that has read the bucket  *)
(* has a name if one was published before that.                            *)
(***************************************************************************)
NamesInBucket ==
  reliable =>
    /\ \A l \in 1..Len(log) : log[l].name # Unknown => kv # Unknown
    /\ \A i \in Instance : names[i] # Unknown => kv # Unknown \/ task[i].at = "put"

ReadyWithName ==
  /\ \A i \in Instance : started[i] <= Len(log)
  /\ \A l \in 1..Len(log) : log[l].started <= Len(log)
  /\ reliable => \A i \in Instance, a \in 1..Len(log) :
       a <= started[i] /\ log[a].name # Unknown /\ task[i] # Warming
         => names[i] # Unknown

PInv ==
  /\ Typed /\ Lives
  /\ Remembered /\ InHandIsNew /\ PublishedOnce
  /\ SeenIsFirst /\ DuplicateHasFirst /\ FirstIsPublished
  /\ LastCell /\ RoutedToLastCell
  /\ NamesInBucket /\ ReadyWithName /\ NamesSurviveRestarts
-----------------------------------------------------------------------------
(* Helpers. *)

LEMMA JobFacts ==
  ASSUME Typed, NEW i \in Instance
  PROVE  /\ Busy(i) => /\ task[i] \in Job /\ task[i].at \in {"put", "publish"}
                       /\ task[i].payload \in Payload /\ task[i].since \in Nat
         /\ task[i] \in {Idle, Warming, Loading} => ~Busy(i)
         /\ task[i] \in {Idle, Loading} => task[i] # Warming
  <1>1. Idle.at = "idle" /\ Warming.at = "warming" /\ Loading.at = "loading"
    BY DEF Idle, Warming, Loading
  <1>2. task[i] \in {Idle, Warming, Loading} \cup Job
    BY DEF Typed
  <1>3. task[i] \in Job => /\ task[i].at \in {"put", "publish"}
                           /\ task[i].payload \in Payload /\ task[i].since \in Nat
    BY DEF Job
  <1>4. task[i] \in {Idle, Warming, Loading} => ~Busy(i)
    BY <1>1 DEF Busy
  <1> QED BY <1>1, <1>2, <1>3, <1>4

LEMMA PayloadFacts ==
  ASSUME NEW p \in Payload
  PROVE  /\ p.kind \in {"position", "static"}
         /\ p.kind = "position" => p.cell \in Cell
         /\ p.kind = "static" => p.name \in Name
  BY DEF Payload

LEMMA LogTyped ==
  ASSUME Typed, NEW l \in 1..Len(log)
  PROVE  /\ log[l].payload \in Payload /\ log[l].by \in Instance
         /\ log[l].epoch \in Nat /\ log[l].at \in Nat /\ log[l].started \in Nat
         /\ log[l].name \in Name \cup {Unknown}
  <1>1. log[l] \in Entry
    BY ElementOfSeq DEF Typed
  <1> QED BY <1>1 DEF Entry

LEMMA ReceivedTyped ==
  ASSUME Typed, NEW r \in 1..Len(received)
  PROVE  /\ received[r].payload \in Payload /\ received[r].by \in Instance
         /\ received[r].epoch \in Nat /\ received[r].at \in Nat
         /\ received[r].duplicate \in BOOLEAN
  <1>1. received[r] \in Receipt
    BY ElementOfSeq DEF Typed
  <1> QED BY <1>1 DEF Receipt

\* What the sweep leaves of the window, and whom it takes for a duplicate.
LEMMA SweptFacts ==
  ASSUME Typed, NEW i \in Instance
  PROVE  /\ Swept(i) \in [Payload -> Int]
         /\ \A q \in Payload : \/ Swept(i)[q] = seen[i][q]
                               \/ Swept(i)[q] = Never /\ now - seen[i][q] > Ttl
  <1>1. seen[i] \in [Payload -> Int] /\ now \in Nat /\ Ttl \in Nat /\ Never \in Int
    BY TtlAssumption DEF Typed, Never
  <1>2. CASE SweepDue(i)
    <2>1. Swept(i) = [q \in Payload |-> IF now - seen[i][q] <= Ttl THEN seen[i][q]
                                                                  ELSE Never]
      BY <1>2 DEF Swept
    <2>2. \A q \in Payload : ~ (now - seen[i][q] <= Ttl) => now - seen[i][q] > Ttl
      BY <1>1
    <2> QED BY <1>1, <2>1, <2>2
  <1>3. CASE ~SweepDue(i)
    BY <1>1, <1>3 DEF Swept
  <1> QED BY <1>2, <1>3

LEMMA DuplicateFacts ==
  ASSUME Typed, NEW i \in Instance, NEW p \in Payload
  PROVE  /\ IsDuplicate(i, p) \in BOOLEAN
         /\ IsDuplicate(i, p) =>
              /\ Swept(i)[p] = seen[i][p] /\ seen[i][p] # Never
              /\ now - seen[i][p] <= Ttl
         /\ ~IsDuplicate(i, p) => now - seen[i][p] > Ttl
  <1>1. seen[i][p] \in Int /\ now \in Nat /\ Ttl \in Nat /\ Never \in Int
    BY TtlAssumption DEF Typed, Never
  <1>2. now - Never > Ttl
    BY <1>1 DEF Never
  <1>3. IsDuplicate(i, p) <=> now - Swept(i)[p] <= Ttl
    BY DEF IsDuplicate
  <1>4. CASE Swept(i)[p] = seen[i][p]
    BY <1>1, <1>2, <1>3, <1>4 DEF IsDuplicate
  <1>5. CASE Swept(i)[p] = Never /\ now - seen[i][p] > Ttl
    BY <1>1, <1>2, <1>3, <1>5 DEF IsDuplicate
  <1> QED BY <1>4, <1>5, SweptFacts

\* The window after a message.
LEMMA RememberFacts ==
  ASSUME Typed, NEW i \in Instance, NEW p \in Payload, Receive(i, p)
  PROVE  /\ seen' \in [Instance -> [Payload -> Int]]
         /\ lastSweep' \in [Instance -> Nat]
         /\ \A j \in Instance \ {i} : seen'[j] = seen[j]
         /\ \A q \in Payload :
              seen'[i][q] = IF q = p /\ ~IsDuplicate(i, p) THEN now ELSE Swept(i)[q]
  <1>1. seen' = [seen EXCEPT ![i] = Marked(i, p)]
        /\ lastSweep' = [lastSweep EXCEPT ![i] = IF SweepDue(i) THEN now ELSE @]
    BY DEF Receive, Remember
  <1>2. Swept(i) \in [Payload -> Int] /\ now \in Int /\ now \in Nat
    BY SweptFacts DEF Typed
  <1>3. /\ Marked(i, p) \in [Payload -> Int]
        /\ \A q \in Payload :
             Marked(i, p)[q] = IF q = p /\ ~IsDuplicate(i, p) THEN now ELSE Swept(i)[q]
    BY <1>2 DEF Marked
  <1>4. seen \in [Instance -> [Payload -> Int]] /\ lastSweep \in [Instance -> Nat]
    BY DEF Typed
  <1>5. seen'[i] = Marked(i, p) /\ \A j \in Instance \ {i} : seen'[j] = seen[j]
    BY <1>1, <1>4
  <1>6. seen' \in [Instance -> [Payload -> Int]]
    BY <1>1, <1>3, <1>4
  <1>7. lastSweep' \in [Instance -> Nat]
    BY <1>1, <1>2, <1>4
  <1> QED BY <1>3, <1>5, <1>6, <1>7

LEMMA ReceiptFacts ==
  ASSUME Typed, NEW i \in Instance, NEW p \in Payload, Receive(i, p)
  PROVE  LET r == received'[Len(received')]
         IN  /\ received' \in Seq(Receipt) /\ Len(received) \in Nat
             /\ Len(received') = Len(received) + 1
             /\ \A k \in 1..Len(received) : received'[k] = received[k]
             /\ r.payload = p /\ r.by = i /\ r.epoch = epoch[i] /\ r.at = now
             /\ r.duplicate = IsDuplicate(i, p)
  <1> DEFINE e == [payload |-> p, by |-> i, epoch |-> epoch[i], at |-> now,
                   duplicate |-> IsDuplicate(i, p)]
  <1>1. e \in Receipt
    BY DuplicateFacts DEF Typed, Receipt
  <1>2. received' = Append(received, e)
    BY DEF Receive, Remember
  <1>3. /\ e.payload = p /\ e.by = i /\ e.epoch = epoch[i] /\ e.at = now
        /\ e.duplicate = IsDuplicate(i, p)
    OBVIOUS
  <1> HIDE DEF e
  <1>4. /\ received' \in Seq(Receipt) /\ Len(received) \in Nat
        /\ Len(received') = Len(received) + 1
        /\ \A k \in 1..Len(received) : received'[k] = received[k]
        /\ received'[Len(received) + 1] = e
    BY <1>1, <1>2, AppendProperties DEF Typed
  <1> QED BY <1>3, <1>4
\* A first copy taken in hand.
Takes(i, p) == HandlePosition(i, p) \/ HandleStatic(i, p)

LEMMA TakeFacts ==
  ASSUME Typed, NEW i \in Instance, NEW p \in Payload, Takes(i, p)
  PROVE  /\ Receive(i, p) /\ ~IsDuplicate(i, p) /\ task[i] = Idle
         /\ task' \in [Instance -> {Idle, Warming, Loading} \cup Job]
         /\ \A j \in Instance \ {i} : task'[j] = task[j]
         /\ task'[i] \in Job /\ task'[i].at \in {"put", "publish"}
         /\ task'[i].payload = p /\ task'[i].since = now
         /\ task'[i].at = "put" => p.kind = "static"
         /\ UNCHANGED <<kv, reliable, epoch, log, started, now>>
  <1>1. PICK step \in {"put", "publish"} :
          /\ task' = [task EXCEPT ![i] = Handling(step, p)]
          /\ step = "put" => HandleStatic(i, p)
    BY DEF Takes, HandlePosition, HandleStatic
  <1>2. /\ Handling(step, p) \in Job /\ Handling(step, p).at = step
        /\ Handling(step, p).payload = p /\ Handling(step, p).since = now
    BY DEF Handling, Job, Typed
  <1>3. task \in [Instance -> {Idle, Warming, Loading} \cup Job]
    BY DEF Typed
  <1>4. task'[i] = Handling(step, p) /\ \A j \in Instance \ {i} : task'[j] = task[j]
    BY <1>1, <1>3
  <1>5. task' \in [Instance -> {Idle, Warming, Loading} \cup Job]
    BY <1>1, <1>2, <1>3
  <1>6. step = "put" => p.kind = "static"
    BY <1>1 DEF HandleStatic
  <1> QED BY <1>1, <1>2, <1>4, <1>5, <1>6
          DEF Takes, HandlePosition, HandleStatic, Receive, bucket

LEMMA PutFacts ==
  ASSUME Typed, NEW i \in Instance, Put(i) \/ PutFail(i)
  PROVE  /\ Busy(i) /\ task[i].at = "put"
         /\ task' \in [Instance -> {Idle, Warming, Loading} \cup Job]
         /\ \A j \in Instance \ {i} : task'[j] = task[j]
         /\ task'[i] \in Job /\ task'[i].at = "publish"
         /\ task'[i].payload = task[i].payload /\ task'[i].since = task[i].since
         /\ UNCHANGED <<seen, lastSweep, names, lastPos, reliable, epoch, log, received,
                        started, now>>
  <1>1. task[i].at = "put" /\ Busy(i)
    BY DEF Put, PutFail, Busy
  <1>2. task[i] \in Job
    BY <1>1, JobFacts
  <1>3. task \in [Instance -> {Idle, Warming, Loading} \cup Job]
    BY DEF Typed
  <1>4. PICK job : /\ task' = [task EXCEPT ![i] = job]
                   /\ \/ job = [task[i] EXCEPT !.at = "publish"]
                      \/ job = [task[i] EXCEPT !.at = "publish", !.failed = TRUE]
    BY <1>3 DEF Put, PutFail
  <1>5. /\ job \in Job /\ job.at = "publish"
        /\ job.payload = task[i].payload /\ job.since = task[i].since
    BY <1>2, <1>4 DEF Job
  <1>6. task'[i] = job /\ \A j \in Instance \ {i} : task'[j] = task[j]
    BY <1>3, <1>4
  <1>7. task' \in [Instance -> {Idle, Warming, Loading} \cup Job]
    BY <1>3, <1>4, <1>5
  <1> QED BY <1>1, <1>5, <1>6, <1>7 DEF Put, PutFail, window, caches, bucket

LEMMA PublishFacts ==
  ASSUME Typed, NEW i \in Instance, Publish(i)
  PROVE  LET e == log'[Len(log')]
         IN  /\ Busy(i) /\ task[i].at = "publish"
             /\ task' = [task EXCEPT ![i] = Idle] /\ task'[i] = Idle
             /\ \A j \in Instance \ {i} : task'[j] = task[j]
             /\ log' \in Seq(Entry) /\ Len(log) \in Nat /\ Len(log') = Len(log) + 1
             /\ \A l \in 1..Len(log) : log'[l] = log[l]
             /\ e.payload = task[i].payload /\ e.by = i /\ e.epoch = epoch[i]
             /\ e.at = task[i].since /\ e.started = started[i]
             /\ e.name = names[i] /\ e.cell = lastPos[i]
             /\ UNCHANGED <<seen, lastSweep, names, lastPos, kv, reliable, epoch,
                            received, started, now>>
  <1>1. task[i].at = "publish" /\ Busy(i)
    BY DEF Publish, Busy
  <1>2. task[i].payload \in Payload /\ task[i].since \in Nat
    BY <1>1, JobFacts
  <1>3. task \in [Instance -> {Idle, Warming, Loading} \cup Job]
    BY DEF Typed
  <1> DEFINE e == [payload |-> task[i].payload, by |-> i, epoch |-> epoch[i],
                   at |-> task[i].since, started |-> started[i],
                   name |-> names[i], cell |-> lastPos[i]]
  <1>4. e \in Entry
    BY <1>2 DEF Entry, Typed
  <1>5. log' = Append(log, e)
    BY DEF Publish
  <1>6. /\ e.payload = task[i].payload /\ e.by = i /\ e.epoch = epoch[i]
        /\ e.at = task[i].since /\ e.started = started[i]
        /\ e.name = names[i] /\ e.cell = lastPos[i]
    OBVIOUS
  <1> HIDE DEF e
  <1>7. /\ log' \in Seq(Entry) /\ Len(log) \in Nat /\ Len(log') = Len(log) + 1
        /\ \A l \in 1..Len(log) : log'[l] = log[l]
        /\ log'[Len(log) + 1] = e
    BY <1>4, <1>5, AppendProperties DEF Typed
  <1>8. /\ task' = [task EXCEPT ![i] = Idle] /\ task'[i] = Idle
        /\ \A j \in Instance \ {i} : task'[j] = task[j]
    BY <1>3 DEF Publish
  <1> QED BY <1>1, <1>6, <1>7, <1>8 DEF Publish, window, caches, bucket

LEMMA RestartFacts ==
  ASSUME Typed, NEW i \in Instance, Restart(i)
  PROVE  /\ epoch' \in [Instance -> Nat] /\ epoch'[i] = epoch[i] + 1
         /\ seen'[i] = [p \in Payload |-> Never]
         /\ names'[i] = Unknown /\ lastPos'[i] = Unknown /\ task'[i] = Warming
         /\ \A j \in Instance \ {i} :
              /\ epoch'[j] = epoch[j] /\ seen'[j] = seen[j] /\ names'[j] = names[j]
              /\ lastPos'[j] = lastPos[j] /\ task'[j] = task[j]
         /\ UNCHANGED <<kv, reliable, log, received, started, now>>
  <1>1. /\ epoch \in [Instance -> Nat] /\ seen \in [Instance -> [Payload -> Int]]
        /\ names \in [Instance -> Name \cup {Unknown}]
        /\ lastPos \in [Instance -> Cell \cup {Unknown}]
        /\ task \in [Instance -> {Idle, Warming, Loading} \cup Job]
    BY DEF Typed
  <1>2. epoch' \in [Instance -> Nat] /\ epoch'[i] = epoch[i] + 1
        /\ \A j \in Instance \ {i} : epoch'[j] = epoch[j]
    BY <1>1 DEF Restart
  <1> QED BY <1>1, <1>2 DEF Restart, bucket

LEMMA WarmFacts ==
  ASSUME Typed, NEW i \in Instance, WarmKv(i)
  PROVE  /\ task[i] = Warming /\ task'[i] = Loading
         /\ names'[i] = kv \/ (~reliable /\ names'[i] = names[i])
         /\ started'[i] = Len(log)
         /\ \A j \in Instance \ {i} : /\ names'[j] = names[j] /\ task'[j] = task[j]
                                      /\ started'[j] = started[j]
         /\ UNCHANGED <<seen, lastSweep, lastPos, kv, reliable, epoch, log, received, now>>
  BY DEF WarmKv, Typed, window, bucket

LEMMA LoopFacts ==
  ASSUME Typed, NEW i \in Instance, EnterLoop(i)
  PROVE  /\ task[i] = Loading /\ task'[i] = Idle
         /\ \A j \in Instance \ {i} : task'[j] = task[j]
         /\ UNCHANGED <<seen, lastSweep, names, lastPos, kv, reliable, epoch, log,
                        received, started, now>>
  BY DEF EnterLoop, Typed, window, caches, bucket

\* In all an instance does before the loop it has nothing in hand.
LEMMA StartFacts ==
  ASSUME Typed, NEW i \in Instance, WarmKv(i) \/ EnterLoop(i)
  PROVE  /\ ~Busy(i) /\ task'[i] \in {Idle, Loading} /\ task'[i].at \notin {"put", "publish"}
         /\ \A j \in Instance \ {i} : task'[j] = task[j]
         /\ UNCHANGED <<seen, lastPos, epoch, log, received, now>>
  <1>1. Idle.at = "idle" /\ Loading.at = "loading"
    BY DEF Idle, Loading
  <1>2. task'[i] \in {Idle, Loading} /\ task[i] \in {Warming, Loading}
    BY WarmFacts, LoopFacts
  <1>3. /\ \A j \in Instance \ {i} : task'[j] = task[j]
        /\ UNCHANGED <<seen, lastPos, epoch, log, received, now>>
    BY WarmFacts, LoopFacts
  <1> QED BY <1>1, <1>2, <1>3, JobFacts

-----------------------------------------------------------------------------
(* Types. *)

LEMMA InitTyped == Init => Typed
  <1> SUFFICES ASSUME Init PROVE Typed
    OBVIOUS
  <1>1. Never \in Int
    BY TtlAssumption DEF Never
  <1>2. seen \in [Instance -> [Payload -> Int]] /\ lastSweep \in [Instance -> Nat]
    BY <1>1 DEF Init
  <1>3. log \in Seq(Entry) /\ received \in Seq(Receipt) /\ now \in Nat
    BY DEF Init
  <1> QED BY <1>2, <1>3 DEF Init, Typed

LEMMA TypedKept == Typed /\ Lives /\ [Next]_vars => Typed'
  <1> SUFFICES ASSUME Typed, Lives, [Next]_vars PROVE Typed'
    OBVIOUS
  <1>1. ASSUME NEW i \in Instance, NEW p \in Payload, HandleDuplicate(i, p)
        PROVE  Typed'
    <2>1. Receive(i, p) /\ UNCHANGED <<names, lastPos, kv, reliable, task, epoch, log,
                                       started, now>>
      BY <1>1 DEF HandleDuplicate, caches, bucket
    <2>2. seen' \in [Instance -> [Payload -> Int]] /\ lastSweep' \in [Instance -> Nat]
      BY <2>1, RememberFacts
    <2>3. received' \in Seq(Receipt)
      BY <2>1, ReceiptFacts
    <2> QED BY <2>1, <2>2, <2>3 DEF Typed
  <1>2. ASSUME NEW i \in Instance, NEW p \in Payload, Takes(i, p)
        PROVE  Typed'
    <2>1. /\ Receive(i, p) /\ task' \in [Instance -> {Idle, Warming, Loading} \cup Job]
          /\ UNCHANGED <<kv, reliable, epoch, log, started, now>>
      BY <1>2, TakeFacts
    <2>2. seen' \in [Instance -> [Payload -> Int]] /\ lastSweep' \in [Instance -> Nat]
      BY <2>1, RememberFacts
    <2>3. received' \in Seq(Receipt)
      BY <2>1, ReceiptFacts
    <2>4. names' \in [Instance -> Name \cup {Unknown}]
      BY <1>2, PayloadFacts DEF Takes, HandlePosition, HandleStatic, Typed
    <2>5. lastPos' \in [Instance -> Cell \cup {Unknown}]
      BY <1>2, PayloadFacts DEF Takes, HandlePosition, HandleStatic, Typed
    <2> QED BY <2>1, <2>2, <2>3, <2>4, <2>5 DEF Typed
  <1>3. ASSUME NEW i \in Instance, Put(i) \/ PutFail(i) PROVE Typed'
    <2>1. /\ task' \in [Instance -> {Idle, Warming, Loading} \cup Job] /\ task[i].at = "put"
          /\ Busy(i)
          /\ UNCHANGED <<seen, lastSweep, names, lastPos, reliable, epoch, log,
                         received, started, now>>
      BY <1>3, PutFacts
    <2>2. kv' \in Name \cup {Unknown}
      <3>1. kv' = kv \/ kv' = task[i].payload.name
        BY <1>3 DEF Put, PutFail, bucket
      <3>2. task[i].payload.kind = "static"
        BY <2>1 DEF Lives
      <3>3. task[i].payload \in Payload
        BY <2>1, JobFacts
      <3>4. task[i].payload.name \in Name
        BY <3>2, <3>3, PayloadFacts
      <3> QED BY <3>1, <3>4 DEF Typed
    <2> QED BY <2>1, <2>2 DEF Typed
  <1>4. ASSUME NEW i \in Instance, Publish(i) PROVE Typed'
    <2>1. /\ task' = [task EXCEPT ![i] = Idle] /\ log' \in Seq(Entry)
          /\ UNCHANGED <<seen, lastSweep, names, lastPos, kv, reliable, epoch,
                         received, started, now>>
      BY <1>4, PublishFacts
    <2> QED BY <2>1 DEF Typed
  <1>5. ASSUME NEW i \in Instance, Restart(i) PROVE Typed'
    <2>1. epoch' \in [Instance -> Nat]
      BY <1>5, RestartFacts
    <2>2. Never \in Int
      BY TtlAssumption DEF Never
    <2>3. seen' \in [Instance -> [Payload -> Int]]
      BY <1>5, <2>2 DEF Restart, Typed
    <2> QED BY <1>5, <2>1, <2>3 DEF Restart, bucket, Typed
  <1>6. ASSUME NEW i \in Instance, WarmKv(i) PROVE Typed'
    <2>1. Len(log) \in Nat
      BY LenProperties DEF Typed
    <2> QED BY <1>6, <2>1 DEF WarmKv, window, bucket, Typed
  <1>7. CASE Tick
    BY <1>7 DEF Tick, window, caches, bucket, Typed
  <1>9. ASSUME NEW i \in Instance, EnterLoop(i) PROVE Typed'
    <2>1. /\ task' = [task EXCEPT ![i] = Idle]
          /\ UNCHANGED <<seen, lastSweep, names, lastPos, kv, reliable, epoch, log,
                         received, started, now>>
      BY <1>9 DEF EnterLoop, window, caches, bucket
    <2> QED BY <2>1 DEF Typed
  <1>8. CASE UNCHANGED vars
    BY <1>8 DEF vars, Typed
  <1> QED BY <1>1, <1>2, <1>3, <1>4, <1>5, <1>6, <1>7, <1>8, <1>9 DEF Next, Takes
-----------------------------------------------------------------------------
(* Lives: nothing published or received is of a life still to come. *)

LEMMA LivesKept == Typed /\ Lives /\ [Next]_vars => Lives'
  <1> SUFFICES ASSUME Typed, Lives, [Next]_vars PROVE Lives'
    OBVIOUS
  <1>e. epoch \in [Instance -> Nat]
    BY DEF Typed
  <1>1. ASSUME NEW i \in Instance, NEW p \in Payload,
               HandleDuplicate(i, p) \/ Takes(i, p)
        PROVE  Lives'
    <2>1. Receive(i, p) /\ UNCHANGED <<epoch, log>>
      BY <1>1 DEF HandleDuplicate, Takes, HandlePosition, HandleStatic
    <2>2. \A r \in 1..Len(received') : received'[r].epoch <= epoch[received'[r].by]
      <3> SUFFICES ASSUME NEW r \in 1..Len(received')
                   PROVE  received'[r].epoch <= epoch[received'[r].by]
        OBVIOUS
      <3>1. /\ Len(received) \in Nat /\ Len(received') = Len(received) + 1
            /\ \A k \in 1..Len(received) : received'[k] = received[k]
            /\ received'[Len(received')].by = i
            /\ received'[Len(received')].epoch = epoch[i]
        BY <2>1, ReceiptFacts
      <3>2. CASE r = Len(received')
        BY <3>1, <3>2, <1>e
      <3>3. CASE r # Len(received')
        <4>1. r \in 1..Len(received)
          BY <3>1, <3>3
        <4> QED BY <3>1, <4>1 DEF Lives
      <3> QED BY <3>2, <3>3
    <2>3. \A j \in Instance : task'[j].at = "put" => task'[j].payload.kind = "static"
      <3>1. CASE HandleDuplicate(i, p)
        BY <3>1 DEF HandleDuplicate, Lives
      <3>2. CASE Takes(i, p)
        BY <3>2, TakeFacts DEF Lives
      <3> QED BY <1>1, <3>1, <3>2
    <2> QED BY <2>1, <2>2, <2>3 DEF Lives
  <1>2. ASSUME NEW i \in Instance, Put(i) \/ PutFail(i) PROVE Lives'
    <2>1. /\ \A j \in Instance \ {i} : task'[j] = task[j]
          /\ task'[i].at = "publish" /\ UNCHANGED <<epoch, log, received>>
      BY <1>2, PutFacts
    <2> QED BY <2>1 DEF Lives
  <1>3. ASSUME NEW i \in Instance, Publish(i) PROVE Lives'
    <2>1. /\ Len(log) \in Nat /\ Len(log') = Len(log) + 1
          /\ \A l \in 1..Len(log) : log'[l] = log[l]
          /\ log'[Len(log')].by = i /\ log'[Len(log')].epoch = epoch[i]
          /\ task'[i] = Idle /\ \A j \in Instance \ {i} : task'[j] = task[j]
          /\ UNCHANGED <<epoch, received>>
      BY <1>3, PublishFacts
    <2>2. ASSUME NEW l \in 1..Len(log') PROVE log'[l].epoch <= epoch[log'[l].by]
      <3>1. CASE l = Len(log')
        BY <2>1, <3>1, <1>e
      <3>2. CASE l # Len(log')
        <4>1. l \in 1..Len(log)
          BY <2>1, <3>2
        <4> QED BY <2>1, <4>1 DEF Lives
      <3> QED BY <3>1, <3>2
    <2>3. \A j \in Instance : task'[j].at = "put" => task'[j].payload.kind = "static"
      BY <2>1 DEF Lives, Idle
    <2> QED BY <2>1, <2>2, <2>3 DEF Lives
  <1>4. ASSUME NEW i \in Instance, Restart(i) PROVE Lives'
    <2>1. /\ epoch'[i] = epoch[i] + 1 /\ task'[i] = Warming
          /\ \A j \in Instance \ {i} : epoch'[j] = epoch[j] /\ task'[j] = task[j]
          /\ UNCHANGED <<log, received>>
      BY <1>4, RestartFacts
    <2>2. \A j \in Instance :
            epoch[j] \in Nat /\ epoch'[j] \in Nat /\ epoch[j] <= epoch'[j]
      BY <2>1, <1>e
    <2>3. ASSUME NEW l \in 1..Len(log) PROVE log[l].epoch <= epoch'[log[l].by]
      <3>1. /\ log[l].by \in Instance /\ log[l].epoch \in Nat
            /\ log[l].epoch <= epoch[log[l].by]
        BY LogTyped DEF Lives
      <3> QED BY <2>2, <3>1
    <2>4. ASSUME NEW r \in 1..Len(received)
          PROVE  received[r].epoch <= epoch'[received[r].by]
      <3>1. /\ received[r].by \in Instance /\ received[r].epoch \in Nat
            /\ received[r].epoch <= epoch[received[r].by]
        BY ReceivedTyped DEF Lives
      <3> QED BY <2>2, <3>1
    <2>5. \A j \in Instance : task'[j].at = "put" => task'[j].payload.kind = "static"
      BY <2>1 DEF Lives, Warming
    <2> QED BY <2>1, <2>3, <2>4, <2>5 DEF Lives
  <1>5. ASSUME NEW i \in Instance, WarmKv(i) \/ EnterLoop(i) PROVE Lives'
    <2>1. /\ task'[i].at # "put" /\ \A j \in Instance \ {i} : task'[j] = task[j]
          /\ UNCHANGED <<epoch, log, received>>
      BY <1>5, StartFacts
    <2> QED BY <2>1 DEF Lives
  <1>6. CASE Tick \/ UNCHANGED vars
    BY <1>6 DEF Tick, vars, Lives
  <1> QED BY <1>1, <1>2, <1>3, <1>4, <1>5, <1>6 DEF Next, Takes

-----------------------------------------------------------------------------
(* The window. *)

\* Whatever was remembered within the ttl, a message makes no one forget.
LEMMA StillRemembered ==
  ASSUME Typed, Remembered, NEW i \in Instance, NEW p \in Payload, Receive(i, p),
         NEW q \in Payload, NEW t \in Nat, now - t <= Ttl, t <= seen[i][q]
  PROVE  t <= seen'[i][q]
  <1>1. /\ now \in Nat /\ Ttl \in Nat /\ seen[i][q] \in Int /\ seen[i][q] <= now
    BY TtlAssumption DEF Typed, Remembered
  <1>2. CASE seen'[i][q] = now
    BY <1>1, <1>2
  <1>3. CASE seen'[i][q] = Swept(i)[q]
    <2>1. CASE Swept(i)[q] = seen[i][q]
      BY <1>3, <2>1
    <2>2. CASE now - seen[i][q] > Ttl
      BY <1>1, <2>2
    <2> QED BY <2>1, <2>2, SweptFacts
  <1> QED BY <1>2, <1>3, RememberFacts

LEMMA RememberedKept == Typed /\ Lives /\ Remembered /\ [Next]_vars => Remembered'
  <1> SUFFICES ASSUME Typed, Lives, Remembered, [Next]_vars PROVE Remembered'
    OBVIOUS
  <1>t. now \in Nat /\ Ttl \in Nat /\ Never \in Int /\ Never <= now
    BY TtlAssumption DEF Typed, Never
  <1>1. ASSUME NEW i \in Instance, NEW p \in Payload,
               HandleDuplicate(i, p) \/ Takes(i, p)
        PROVE  Remembered'
    <2>1. Receive(i, p) /\ UNCHANGED <<epoch, log, now>> /\ task[i] = Idle
      BY <1>1 DEF HandleDuplicate, Takes, HandlePosition, HandleStatic, Receive
    <2>2. \A j \in Instance \ {i} : seen'[j] = seen[j]
      BY <2>1, RememberFacts
    <2>3. ASSUME NEW j \in Instance, NEW q \in Payload PROVE seen'[j][q] <= now
      <3>1. CASE j # i
        BY <2>2, <3>1 DEF Remembered
      <3>2. CASE j = i
        <4>1. \/ seen'[i][q] = now \/ seen'[i][q] = Never \/ seen'[i][q] = seen[i][q]
          BY <2>1, RememberFacts, SweptFacts
        <4> QED BY <3>2, <4>1, <1>t DEF Remembered
      <3> QED BY <3>1, <3>2
    <2>4. ASSUME NEW l \in 1..Len(log), Current(log[l]), now - log[l].at <= Ttl
          PROVE  log[l].at <= seen'[log[l].by][log[l].payload]
      <3>1. /\ log[l].by \in Instance /\ log[l].payload \in Payload /\ log[l].at \in Nat
            /\ log[l].at <= seen[log[l].by][log[l].payload]
        BY <2>4, LogTyped DEF Remembered
      <3>2. CASE log[l].by # i
        BY <3>1, <3>2, <2>2
      <3>3. CASE log[l].by = i
        BY <3>1, <3>3, <2>1, <2>4, StillRemembered
      <3> QED BY <3>2, <3>3
    <2>5. ASSUME NEW j \in Instance, Busy(j)', now - task'[j].since <= Ttl
          PROVE  task'[j].since <= seen'[j][task'[j].payload]
      <3>1. CASE j # i
        <4>1. task'[j] = task[j]
          BY <1>1, <3>1, TakeFacts DEF HandleDuplicate
        <4> QED BY <4>1, <3>1, <2>2, <2>5 DEF Remembered, Busy
      <3>2. CASE j = i /\ Takes(i, p)
        <4>1. /\ task'[i].payload = p /\ task'[i].since = now /\ ~IsDuplicate(i, p)
          BY <3>2, TakeFacts
        <4>2. seen'[i][p] = now
          BY <4>1, <2>1, RememberFacts
        <4> QED BY <3>2, <4>1, <4>2, <1>t
      <3>3. CASE j = i /\ HandleDuplicate(i, p)
        <4>1. task'[i] = Idle
          BY <3>3, <2>1 DEF HandleDuplicate
        <4> QED BY <3>3, <4>1, <2>5 DEF Busy, Idle
      <3> QED BY <1>1, <3>1, <3>2, <3>3
    <2> QED BY <2>1, <2>3, <2>4, <2>5 DEF Remembered, Current
  <1>2. ASSUME NEW i \in Instance, Put(i) \/ PutFail(i) PROVE Remembered'
    <2>1. /\ \A j \in Instance : /\ Busy(j)' => Busy(j)
                                 /\ task'[j].since = task[j].since
                                 /\ task'[j].payload = task[j].payload
          /\ UNCHANGED <<seen, epoch, log, now>>
      BY <1>2, PutFacts DEF Busy
    <2> QED BY <2>1 DEF Remembered, Current
  <1>3. ASSUME NEW i \in Instance, Publish(i) PROVE Remembered'
    <2>1. /\ Len(log) \in Nat /\ Len(log') = Len(log) + 1
          /\ \A l \in 1..Len(log) : log'[l] = log[l]
          /\ Busy(i) /\ log'[Len(log')].payload = task[i].payload
          /\ log'[Len(log')].by = i /\ log'[Len(log')].at = task[i].since
          /\ task'[i] = Idle /\ \A j \in Instance \ {i} : task'[j] = task[j]
          /\ UNCHANGED <<seen, epoch, now>>
      BY <1>3, PublishFacts
    <2>2. ASSUME NEW l \in 1..Len(log'), Current(log'[l]), now - log'[l].at <= Ttl
          PROVE  log'[l].at <= seen[log'[l].by][log'[l].payload]
      <3>1. CASE l = Len(log')
        BY <2>1, <2>2, <3>1 DEF Remembered
      <3>2. CASE l # Len(log')
        <4>1. l \in 1..Len(log)
          BY <2>1, <3>2
        <4> QED BY <2>1, <2>2, <4>1 DEF Remembered
      <3> QED BY <3>1, <3>2
    <2>3. \A j \in Instance : Busy(j)' => task'[j] = task[j] /\ Busy(j)
      BY <2>1 DEF Busy, Idle
    <2> QED BY <2>1, <2>2, <2>3 DEF Remembered, Current
  <1>4. ASSUME NEW i \in Instance, Restart(i) PROVE Remembered'
    <2>1. /\ epoch'[i] = epoch[i] + 1 /\ task'[i] = Warming
          /\ seen'[i] = [p \in Payload |-> Never]
          /\ \A j \in Instance \ {i} :
               epoch'[j] = epoch[j] /\ task'[j] = task[j] /\ seen'[j] = seen[j]
          /\ UNCHANGED <<log, now>>
      BY <1>4, RestartFacts
    <2>2. \A j \in Instance, p \in Payload : seen'[j][p] <= now
      BY <2>1, <1>t DEF Remembered
    <2>3. \A l \in 1..Len(log) : Current(log[l])' => Current(log[l]) /\ log[l].by # i
      <3> SUFFICES ASSUME NEW l \in 1..Len(log), Current(log[l])'
                   PROVE  Current(log[l]) /\ log[l].by # i
        OBVIOUS
      <3>1. /\ log[l].epoch = epoch'[log[l].by] /\ log[l].epoch <= epoch[log[l].by]
            /\ log[l].by \in Instance /\ epoch[log[l].by] \in Nat
        BY <2>1, LogTyped DEF Current, Lives, Typed
      <3> QED BY <2>1, <3>1 DEF Current
    <2>4. \A j \in Instance : Busy(j)' => Busy(j) /\ j # i
      BY <2>1 DEF Busy, Warming
    <2> QED BY <2>1, <2>2, <2>3, <2>4, LogTyped DEF Remembered
  <1>5. ASSUME NEW i \in Instance, WarmKv(i) \/ EnterLoop(i) PROVE Remembered'
    <2>1. /\ task'[i].at \notin {"put", "publish"}
          /\ \A j \in Instance \ {i} : task'[j] = task[j]
          /\ UNCHANGED <<seen, epoch, log, now>>
      BY <1>5, StartFacts
    <2>2. \A j \in Instance : Busy(j)' => Busy(j) /\ task'[j] = task[j]
      BY <2>1 DEF Busy
    <2> QED BY <2>1, <2>2 DEF Remembered, Current
  <1>6. CASE Tick
    <2>1. now' = now + 1 /\ UNCHANGED <<seen, epoch, log, task>>
      BY <1>6 DEF Tick, window
    <2>2. \A j \in Instance, p \in Payload : seen[j][p] <= now'
      BY <2>1, <1>t DEF Remembered, Typed
    <2>3. \A t \in Nat : now' - t <= Ttl => now - t <= Ttl
      BY <2>1, <1>t
    <2>4. \A l \in 1..Len(log) : Current(log[l]) /\ now' - log[l].at <= Ttl
            => log[l].at <= seen[log[l].by][log[l].payload]
      BY <2>3, LogTyped DEF Remembered
    <2>5. \A j \in Instance : Busy(j) /\ now' - task[j].since <= Ttl
            => task[j].since <= seen[j][task[j].payload]
      BY <2>3, JobFacts DEF Remembered
    <2> QED BY <2>1, <2>2, <2>4, <2>5 DEF Remembered, Current, Busy
  <1>7. CASE UNCHANGED vars
    BY <1>7 DEF vars, Remembered, Current, Busy
  <1> QED BY <1>1, <1>2, <1>3, <1>4, <1>5, <1>6, <1>7 DEF Next, Takes
LEMMA InHandIsNewKept ==
  Typed /\ Lives /\ Remembered /\ InHandIsNew /\ [Next]_vars => InHandIsNew'
  <1> SUFFICES ASSUME Typed, Lives, Remembered, InHandIsNew, [Next]_vars
               PROVE  InHandIsNew'
    OBVIOUS
  <1>t. now \in Nat /\ Ttl \in Nat /\ epoch \in [Instance -> Nat]
    BY TtlAssumption DEF Typed
  <1>1. ASSUME NEW i \in Instance, NEW p \in Payload, HandleDuplicate(i, p)
        PROVE  InHandIsNew'
    BY <1>1 DEF HandleDuplicate, InHandIsNew, Busy, Current
  <1>2. ASSUME NEW i \in Instance, NEW p \in Payload, Takes(i, p)
        PROVE  InHandIsNew'
    <2>1. /\ ~IsDuplicate(i, p) /\ task'[i].payload = p /\ task'[i].since = now
          /\ \A j \in Instance \ {i} : task'[j] = task[j]
          /\ UNCHANGED <<epoch, log>>
      BY <1>2, TakeFacts
    <2>2. ASSUME NEW l \in 1..Len(log), log[l].by = i, Current(log[l]), log[l].payload = p
          PROVE  now - log[l].at > Ttl
      <3>1. log[l].at \in Nat /\ (now - log[l].at <= Ttl => log[l].at <= seen[i][p])
        BY <2>2, LogTyped DEF Remembered
      <3>2. seen[i][p] \in Int /\ now - seen[i][p] > Ttl
        BY <2>1, DuplicateFacts DEF Typed
      <3> QED BY <3>1, <3>2, <1>t
    <2> QED BY <2>1, <2>2 DEF InHandIsNew, Busy, Current
  <1>3. ASSUME NEW i \in Instance, Put(i) \/ PutFail(i) PROVE InHandIsNew'
    <2>1. /\ \A j \in Instance : /\ Busy(j)' => Busy(j)
                                 /\ task'[j].since = task[j].since
                                 /\ task'[j].payload = task[j].payload
          /\ UNCHANGED <<epoch, log>>
      BY <1>3, PutFacts DEF Busy
    <2> QED BY <2>1 DEF InHandIsNew, Current
  <1>4. ASSUME NEW i \in Instance, Publish(i) PROVE InHandIsNew'
    <2>1. /\ Len(log) \in Nat /\ Len(log') = Len(log) + 1
          /\ \A l \in 1..Len(log) : log'[l] = log[l]
          /\ log'[Len(log')].by = i
          /\ task'[i] = Idle /\ \A j \in Instance \ {i} : task'[j] = task[j]
          /\ epoch' = epoch
      BY <1>4, PublishFacts
    <2> SUFFICES ASSUME NEW j \in Instance, NEW l \in 1..Len(log'), Busy(j)',
                        log'[l].by = j, Current(log[l])',
                        log'[l].payload = task'[j].payload
                 PROVE  task'[j].since - log'[l].at > Ttl
      BY DEF InHandIsNew
    <2>2. j # i /\ task'[j] = task[j] /\ Busy(j)
      BY <2>1 DEF Busy, Idle
    <2>3. l \in 1..Len(log)
      BY <2>1, <2>2
    <2> QED BY <2>1, <2>2, <2>3 DEF InHandIsNew, Current
  <1>5. ASSUME NEW i \in Instance, Restart(i) PROVE InHandIsNew'
    <2>1. /\ task'[i] = Warming
          /\ \A j \in Instance \ {i} : epoch'[j] = epoch[j] /\ task'[j] = task[j]
          /\ log' = log
      BY <1>5, RestartFacts
    <2>2. \A j \in Instance : Busy(j)' => Busy(j) /\ j # i
      BY <2>1 DEF Busy, Warming
    <2> QED BY <2>1, <2>2 DEF InHandIsNew, Current
  <1>6. ASSUME NEW i \in Instance, WarmKv(i) \/ EnterLoop(i) PROVE InHandIsNew'
    <2>1. /\ task'[i].at \notin {"put", "publish"}
          /\ \A j \in Instance \ {i} : task'[j] = task[j]
          /\ UNCHANGED <<epoch, log>>
      BY <1>6, StartFacts
    <2>2. \A j \in Instance : Busy(j)' => Busy(j) /\ task'[j] = task[j]
      BY <2>1 DEF Busy
    <2> QED BY <2>1, <2>2 DEF InHandIsNew, Current
  <1>7. CASE Tick \/ UNCHANGED vars
    BY <1>7 DEF Tick, vars, InHandIsNew, Busy, Current
  <1> QED BY <1>1, <1>2, <1>3, <1>4, <1>5, <1>6, <1>7 DEF Next, Takes

\* Only Publish adds to the log.
LEMMA LogGrows ==
  ASSUME [Next]_vars
  PROVE  log' = log \/ \E i \in Instance : Publish(i)
  BY DEF Next, vars, HandleDuplicate, HandlePosition, HandleStatic, Put, PutFail,
         Restart, WarmKv, EnterLoop, Tick

LEMMA PublishedOnceKept ==
  Typed /\ InHandIsNew /\ PublishedOnce /\ [Next]_vars => PublishedOnce'
  <1> SUFFICES ASSUME Typed, InHandIsNew, PublishedOnce, [Next]_vars
               PROVE  PublishedOnce'
    OBVIOUS
  <1>1. CASE log' = log
    BY <1>1 DEF PublishedOnce, SameWindow
  <1>2. ASSUME NEW i \in Instance, Publish(i) PROVE PublishedOnce'
    <2>1. /\ Len(log) \in Nat /\ Len(log') = Len(log) + 1
          /\ \A l \in 1..Len(log) : log'[l] = log[l]
          /\ Busy(i) /\ log'[Len(log')].payload = task[i].payload
          /\ log'[Len(log')].by = i /\ log'[Len(log')].at = task[i].since
          /\ log'[Len(log')].epoch = epoch[i]
      BY <1>2, PublishFacts
    <2> SUFFICES ASSUME NEW a \in 1..Len(log'), NEW b \in 1..Len(log'), a < b,
                        SameWindow(log'[a], log'[b])
                 PROVE  log'[b].at - log'[a].at > Ttl
      BY DEF PublishedOnce, SameWindow
    <2>2. a \in 1..Len(log) /\ log'[a] = log[a]
      BY <2>1
    <2>3. CASE b = Len(log')
      BY <2>1, <2>2, <2>3 DEF InHandIsNew, SameWindow, Current
    <2>4. CASE b # Len(log')
      <3>1. b \in 1..Len(log)
        BY <2>1, <2>4
      <3> QED BY <2>1, <2>2, <3>1 DEF PublishedOnce
    <2> QED BY <2>3, <2>4
  <1> QED BY <1>1, <1>2, LogGrows
-----------------------------------------------------------------------------
(* First copies. *)

\* Only a message adds to what was received or to the window.
LEMMA ReceivedGrows ==
  ASSUME [Next]_vars
  PROVE  \/ UNCHANGED <<received, seen>>
         \/ \E i \in Instance, p \in Payload : HandleDuplicate(i, p) \/ Takes(i, p)
         \/ \E i \in Instance : Restart(i)
  BY DEF Next, vars, Takes, Put, PutFail, Publish, WarmKv, EnterLoop, Tick,
         window, caches

LEMMA EpochGrows ==
  ASSUME [Next]_vars
  PROVE  epoch' = epoch \/ \E i \in Instance : Restart(i)
  BY DEF Next, vars, HandleDuplicate, HandlePosition, HandleStatic, Put, PutFail,
         Publish, WarmKv, EnterLoop, Tick

LEMMA SeenIsFirstKept == Typed /\ SeenIsFirst /\ [Next]_vars => SeenIsFirst'
  <1> SUFFICES ASSUME Typed, SeenIsFirst, [Next]_vars PROVE SeenIsFirst'
    OBVIOUS
  <1>1. ASSUME NEW i \in Instance, NEW p \in Payload,
               HandleDuplicate(i, p) \/ Takes(i, p)
        PROVE  SeenIsFirst'
    <2>1. Receive(i, p) /\ epoch' = epoch /\ (HandleDuplicate(i, p) => IsDuplicate(i, p))
      BY <1>1 DEF HandleDuplicate, Takes, HandlePosition, HandleStatic
    <2>2. /\ Len(received) \in Nat /\ Len(received') = Len(received) + 1
          /\ \A k \in 1..Len(received) : received'[k] = received[k]
          /\ received'[Len(received')].payload = p /\ received'[Len(received')].by = i
          /\ received'[Len(received')].epoch = epoch[i]
          /\ received'[Len(received')].at = now
          /\ received'[Len(received')].duplicate = IsDuplicate(i, p)
      BY <2>1, ReceiptFacts
    <2> SUFFICES ASSUME NEW j \in Instance, NEW q \in Payload, seen'[j][q] # Never
                 PROVE  \E f \in 1..Len(received') :
                          /\ received'[f].payload = q /\ received'[f].by = j
                          /\ received'[f].epoch = epoch[j]
                          /\ received'[f].at = seen'[j][q] /\ ~received'[f].duplicate
      BY <2>1 DEF SeenIsFirst, IsFirst
    <2>3. CASE seen'[j][q] = seen[j][q]
      <3>1. PICK f \in 1..Len(received) : IsFirst(f, q, j, epoch[j], seen[j][q])
        BY <2>2, <2>3 DEF SeenIsFirst
      <3>2. f \in 1..Len(received') /\ received'[f] = received[f]
        BY <2>2
      <3> QED BY <3>1, <3>2, <2>1, <2>3 DEF IsFirst
    <2>4. CASE seen'[j][q] # seen[j][q]
      <3>1. j = i
        BY <2>1, <2>4, RememberFacts
      <3>2. q = p /\ ~IsDuplicate(i, p) /\ seen'[i][p] = now
        BY <2>1, <2>2, <2>4, <3>1, RememberFacts, SweptFacts
      <3>3. Len(received') \in 1..Len(received')
        BY <2>2
      <3> QED BY <2>1, <2>2, <3>1, <3>2, <3>3 DEF IsFirst
    <2> QED BY <2>3, <2>4
  <1>2. ASSUME NEW i \in Instance, Restart(i) PROVE SeenIsFirst'
    <2>1. /\ seen'[i] = [p \in Payload |-> Never] /\ received' = received
          /\ \A j \in Instance \ {i} : epoch'[j] = epoch[j] /\ seen'[j] = seen[j]
      BY <1>2, RestartFacts
    <2> QED BY <2>1 DEF SeenIsFirst, IsFirst
  <1>3. CASE UNCHANGED <<received, seen, epoch>>
    BY <1>3 DEF SeenIsFirst, IsFirst
  <1> QED BY <1>1, <1>2, <1>3, ReceivedGrows, EpochGrows

LEMMA DuplicateHasFirstKept ==
  Typed /\ SeenIsFirst /\ DuplicateHasFirst /\ [Next]_vars => DuplicateHasFirst'
  <1> SUFFICES ASSUME Typed, SeenIsFirst, DuplicateHasFirst, [Next]_vars
               PROVE  DuplicateHasFirst'
    OBVIOUS
  <1>1. ASSUME NEW i \in Instance, NEW p \in Payload,
               HandleDuplicate(i, p) \/ Takes(i, p)
        PROVE  DuplicateHasFirst'
    <2>1. Receive(i, p)
      BY <1>1 DEF HandleDuplicate, Takes, HandlePosition, HandleStatic
    <2>2. /\ Len(received) \in Nat /\ Len(received') = Len(received) + 1
          /\ \A k \in 1..Len(received) : received'[k] = received[k]
          /\ received'[Len(received')].payload = p /\ received'[Len(received')].by = i
          /\ received'[Len(received')].epoch = epoch[i]
          /\ received'[Len(received')].at = now
          /\ received'[Len(received')].duplicate = IsDuplicate(i, p)
      BY <2>1, ReceiptFacts
    <2> SUFFICES ASSUME NEW r \in 1..Len(received'), received'[r].duplicate
                 PROVE  \E f \in 1..(r - 1) :
                          /\ SameWindow(received'[f], received'[r])
                          /\ ~received'[f].duplicate
                          /\ received'[r].at - received'[f].at <= Ttl
      BY DEF DuplicateHasFirst, SameWindow
    <2>3. CASE r = Len(received')
      <3>1. seen[i][p] # Never /\ now - seen[i][p] <= Ttl
        BY <2>2, <2>3, DuplicateFacts
      <3>2. PICK f \in 1..Len(received) : IsFirst(f, p, i, epoch[i], seen[i][p])
        BY <3>1 DEF SeenIsFirst
      <3>3. f \in 1..(r - 1) /\ received'[f] = received[f]
        BY <2>2, <2>3
      <3> QED BY <2>2, <2>3, <3>1, <3>2, <3>3 DEF IsFirst, SameWindow
    <2>4. CASE r # Len(received')
      <3>1. r \in 1..Len(received) /\ received'[r] = received[r]
        BY <2>2, <2>4
      <3>2. PICK f \in 1..(r - 1) : /\ SameWindow(received[f], received[r])
                                    /\ ~received[f].duplicate
                                    /\ received[r].at - received[f].at <= Ttl
        BY <3>1 DEF DuplicateHasFirst
      <3>3. received'[f] = received[f]
        BY <2>2, <3>1
      <3> QED BY <3>1, <3>2, <3>3
    <2> QED BY <2>3, <2>4
  <1>2. CASE received' = received
    BY <1>2 DEF DuplicateHasFirst, SameWindow
  <1>3. ASSUME NEW i \in Instance, Restart(i) PROVE received' = received
    BY <1>3 DEF Restart
  <1> QED BY <1>1, <1>2, <1>3, ReceivedGrows

LEMMA FirstIsPublishedKept ==
  Typed /\ Lives /\ FirstIsPublished /\ [Next]_vars => FirstIsPublished'
  <1> SUFFICES ASSUME Typed, Lives, FirstIsPublished, [Next]_vars
               PROVE  FirstIsPublished'
    OBVIOUS
  <1>1. ASSUME NEW i \in Instance, NEW p \in Payload,
               HandleDuplicate(i, p) \/ Takes(i, p)
        PROVE  FirstIsPublished'
    <2>1. Receive(i, p) /\ UNCHANGED <<epoch, log>> /\ task[i] = Idle /\ ~Busy(i)
      BY <1>1, JobFacts DEF HandleDuplicate, Takes, HandlePosition, HandleStatic, Receive
    <2>2. /\ Len(received) \in Nat /\ Len(received') = Len(received) + 1
          /\ \A k \in 1..Len(received) : received'[k] = received[k]
          /\ received'[Len(received')].payload = p /\ received'[Len(received')].by = i
          /\ received'[Len(received')].epoch = epoch[i]
          /\ received'[Len(received')].at = now
          /\ received'[Len(received')].duplicate = IsDuplicate(i, p)
      BY <2>1, ReceiptFacts
    <2>3. \A j \in Instance \ {i} : task'[j] = task[j]
      BY <1>1, TakeFacts DEF HandleDuplicate
    <2> SUFFICES ASSUME NEW f \in 1..Len(received'), ~received'[f].duplicate
                 PROVE  \/ \E l \in 1..Len(log) : /\ SameWindow(log[l], received'[f])
                                                  /\ log[l].at = received'[f].at
                        \/ InHand(f)'
                        \/ ~Current(received[f])'
      BY <2>1 DEF FirstIsPublished, SameWindow
    <2>4. CASE f = Len(received')
      <3>1. Takes(i, p)
        BY <1>1, <2>2, <2>4 DEF HandleDuplicate
      <3>2. /\ task'[i].at \in {"put", "publish"}
            /\ task'[i].payload = p /\ task'[i].since = now
        BY <3>1, TakeFacts
      <3> QED BY <2>1, <2>2, <2>4, <3>2 DEF InHand, Busy, Current
    <2>5. CASE f # Len(received')
      <3>1. f \in 1..Len(received) /\ received'[f] = received[f]
        BY <2>2, <2>5
      <3>2. InHand(f) => InHand(f)'
        BY <2>1, <2>3, <3>1, ReceivedTyped DEF InHand, Busy, Current
      <3> QED BY <3>1, <3>2, <2>1 DEF FirstIsPublished, Current
    <2> QED BY <2>4, <2>5
  <1>2. ASSUME NEW i \in Instance, Put(i) \/ PutFail(i) PROVE FirstIsPublished'
    <2>1. /\ \A j \in Instance : /\ Busy(j) => Busy(j)'
                                 /\ task'[j].since = task[j].since
                                 /\ task'[j].payload = task[j].payload
          /\ UNCHANGED <<epoch, log, received>>
      BY <1>2, PutFacts DEF Busy
    <2>2. \A f \in 1..Len(received) : InHand(f) => InHand(f)'
      BY <2>1, ReceivedTyped DEF InHand, Current
    <2> QED BY <2>1, <2>2 DEF FirstIsPublished, SameWindow, Current
  <1>3. ASSUME NEW i \in Instance, Publish(i) PROVE FirstIsPublished'
    <2>1. /\ Len(log) \in Nat /\ Len(log') = Len(log) + 1
          /\ \A l \in 1..Len(log) : log'[l] = log[l]
          /\ log'[Len(log')].payload = task[i].payload
          /\ log'[Len(log')].by = i /\ log'[Len(log')].at = task[i].since
          /\ log'[Len(log')].epoch = epoch[i]
          /\ \A j \in Instance \ {i} : task'[j] = task[j]
          /\ UNCHANGED <<epoch, received>>
      BY <1>3, PublishFacts
    <2> SUFFICES ASSUME NEW f \in 1..Len(received), ~received[f].duplicate
                 PROVE  \/ \E l \in 1..Len(log') : /\ SameWindow(log'[l], received[f])
                                                   /\ log'[l].at = received[f].at
                        \/ InHand(f)'
                        \/ ~Current(received[f])
      BY <2>1 DEF FirstIsPublished, SameWindow, Current
    <2>2. CASE \E l \in 1..Len(log) :
                 SameWindow(log[l], received[f]) /\ log[l].at = received[f].at
      <3>1. PICK l \in 1..Len(log) :
              SameWindow(log[l], received[f]) /\ log[l].at = received[f].at
        BY <2>2
      <3>2. l \in 1..Len(log') /\ log'[l] = log[l]
        BY <2>1
      <3> QED BY <3>1, <3>2
    <2>3. CASE InHand(f) /\ received[f].by = i
      <3>1. Len(log') \in 1..Len(log')
        BY <2>1
      <3>2. /\ SameWindow(log'[Len(log')], received[f])
            /\ log'[Len(log')].at = received[f].at
        BY <2>1, <2>3 DEF InHand, Current, SameWindow
      <3> QED BY <3>1, <3>2
    <2>4. CASE InHand(f) /\ received[f].by # i
      BY <2>1, <2>4, ReceivedTyped DEF InHand, Busy, Current
    <2> QED BY <2>2, <2>3, <2>4 DEF FirstIsPublished
  <1>4. ASSUME NEW i \in Instance, Restart(i) PROVE FirstIsPublished'
    <2>1. /\ epoch'[i] = epoch[i] + 1
          /\ \A j \in Instance \ {i} : epoch'[j] = epoch[j] /\ task'[j] = task[j]
          /\ UNCHANGED <<log, received>>
      BY <1>4, RestartFacts
    <2> SUFFICES ASSUME NEW f \in 1..Len(received), ~received[f].duplicate
                 PROVE  \/ \E l \in 1..Len(log) : /\ SameWindow(log[l], received[f])
                                                  /\ log[l].at = received[f].at
                        \/ InHand(f)'
                        \/ ~Current(received[f])'
      BY <2>1 DEF FirstIsPublished, SameWindow
    <2>2. CASE received[f].by = i
      <3>1. received[f].epoch <= epoch[i] /\ received[f].epoch \in Nat /\ epoch[i] \in Nat
        BY <2>2, ReceivedTyped DEF Lives, Typed
      <3> QED BY <2>1, <2>2, <3>1 DEF Current
    <2>3. CASE received[f].by # i
      BY <2>1, <2>3, ReceivedTyped DEF FirstIsPublished, InHand, Busy, Current
    <2> QED BY <2>2, <2>3
  <1>5. ASSUME NEW i \in Instance, WarmKv(i) \/ EnterLoop(i) PROVE FirstIsPublished'
    <2>1. /\ ~Busy(i) /\ \A j \in Instance \ {i} : task'[j] = task[j]
          /\ UNCHANGED <<epoch, log, received>>
      BY <1>5, StartFacts
    <2>2. \A f \in 1..Len(received) : InHand(f) => InHand(f)'
      BY <2>1, ReceivedTyped DEF InHand, Busy, Current
    <2> QED BY <2>1, <2>2 DEF FirstIsPublished, SameWindow, Current
  <1>6. CASE Tick \/ UNCHANGED vars
    BY <1>6 DEF Tick, vars, FirstIsPublished, SameWindow, InHand, Busy, Current
  <1> QED BY <1>1, <1>2, <1>3, <1>4, <1>5, <1>6 DEF Next, Takes
-----------------------------------------------------------------------------
(* Routing. *)

LEMMA LastCellKept == Typed /\ Lives /\ LastCell /\ [Next]_vars => LastCell'
  <1> SUFFICES ASSUME Typed, Lives, LastCell, [Next]_vars PROVE LastCell'
    OBVIOUS
  <1>l. Len(log) \in Nat /\ \A l \in 1..Len(log) : log[l].by \in Instance
    <2>1. Len(log) \in Nat
      BY LenProperties DEF Typed
    <2>2. \A l \in 1..Len(log) : log[l].by \in Instance
      BY LogTyped
    <2> QED BY <2>1, <2>2
  <1>1. ASSUME NEW i \in Instance, NEW p \in Payload, HandleDuplicate(i, p)
        PROVE  LastCell'
    BY <1>1 DEF HandleDuplicate, caches, LastCell, PositionBy, Busy
  <1>2. ASSUME NEW i \in Instance, NEW p \in Payload, Takes(i, p)
        PROVE  LastCell'
    <2>1. /\ ~Busy(i) /\ task'[i].payload = p /\ task'[i].at \in {"put", "publish"}
          /\ \A j \in Instance \ {i} : task'[j] = task[j]
          /\ UNCHANGED <<epoch, log>>
      BY <1>2, TakeFacts, JobFacts
    <2>2. \A j \in Instance \ {i} : lastPos'[j] = lastPos[j]
      BY <1>2 DEF Takes, HandlePosition, HandleStatic, Typed
    <2>3. \/ p.kind = "position" /\ lastPos'[i] = p.cell
          \/ p.kind # "position" /\ lastPos'[i] = lastPos[i]
      BY <1>2 DEF Takes, HandlePosition, HandleStatic, Typed
    <2>4. \A j \in Instance \ {i} : Busy(j)' <=> Busy(j)
      BY <2>1 DEF Busy
    <2>5. \A j \in Instance, l \in 1..Len(log) : PositionBy(l, j)' <=> PositionBy(l, j)
      BY <2>1 DEF PositionBy
    <2> SUFFICES ASSUME NEW j \in Instance
                 PROVE  IF Busy(j)' /\ task'[j].payload.kind = "position"
                          THEN lastPos'[j] = task'[j].payload.cell
                          ELSE (\E l \in 1..Len(log) : PositionBy(l, j)) =>
                                 \E l \in 1..Len(log) :
                                   /\ PositionBy(l, j)
                                   /\ \A k \in 1..Len(log) : PositionBy(k, j) => k <= l
                                   /\ lastPos'[j] = log[l].payload.cell
      BY <2>1, <2>5 DEF LastCell
    <2>6. CASE j # i
      <3>1. task'[j] = task[j] /\ lastPos'[j] = lastPos[j] /\ (Busy(j)' <=> Busy(j))
        BY <2>1, <2>2, <2>4, <2>6
      <3> QED BY <3>1 DEF LastCell
    <2>7. CASE j = i
      <3>1. Busy(j)' /\ task'[j].payload = p /\ ~Busy(j)
        BY <2>1, <2>7 DEF Busy
      <3> QED BY <2>3, <2>7, <3>1 DEF LastCell
    <2> QED BY <2>6, <2>7
  <1>3. ASSUME NEW i \in Instance, Put(i) \/ PutFail(i) PROVE LastCell'
    <2>1. /\ \A j \in Instance : /\ Busy(j)' <=> Busy(j)
                                 /\ task'[j].payload = task[j].payload
          /\ UNCHANGED <<lastPos, epoch, log>>
      BY <1>3, PutFacts DEF Busy
    <2> QED BY <2>1 DEF LastCell, PositionBy
  <1>4. ASSUME NEW i \in Instance, Publish(i) PROVE LastCell'
    <2> DEFINE n == Len(log')
               After(l, j) == /\ log'[l].payload.kind = "position"
                              /\ log'[l].by = j /\ log'[l].epoch = epoch[j]
    <2>1. /\ n = Len(log) + 1 /\ Busy(i)
          /\ \A l \in 1..Len(log) : log'[l] = log[l]
          /\ log'[n].payload = task[i].payload
          /\ log'[n].by = i /\ log'[n].epoch = epoch[i]
          /\ task'[i] = Idle /\ \A j \in Instance \ {i} : task'[j] = task[j]
          /\ UNCHANGED <<lastPos, epoch>>
      BY <1>4, PublishFacts
    <2>2. \A l \in 1..n : l = n \/ l \in 1..Len(log)
      BY <2>1, <1>l
    <2>3. n \in 1..n /\ \A l \in 1..Len(log) : l \in 1..n
      BY <2>1, <1>l
    <2>4. \A j \in Instance, l \in 1..Len(log) : After(l, j) <=> PositionBy(l, j)
      BY <2>1 DEF PositionBy
    <2>5. After(n, i) <=> task[i].payload.kind = "position"
      BY <2>1
    <2>6. \A j \in Instance \ {i} : ~ After(n, j)
      BY <2>1
    <2>7. ~Busy(i)' /\ \A j \in Instance \ {i} : Busy(j)' <=> Busy(j)
      BY <2>1 DEF Busy, Idle
    <2> SUFFICES ASSUME NEW j \in Instance
                 PROVE  IF Busy(j)' /\ task'[j].payload.kind = "position"
                          THEN lastPos[j] = task'[j].payload.cell
                          ELSE (\E l \in 1..n : After(l, j)) =>
                                 \E l \in 1..n :
                                   /\ After(l, j)
                                   /\ \A k \in 1..n : After(k, j) => k <= l
                                   /\ lastPos[j] = log'[l].payload.cell
      BY <2>1 DEF LastCell, PositionBy
    <2> HIDE DEF After
    <2>8. CASE j = i /\ task[i].payload.kind = "position"
      <3>1. After(n, i) /\ lastPos[i] = log'[n].payload.cell
        BY <2>1, <2>5, <2>8 DEF LastCell
      <3>2. \A k \in 1..n : k <= n
        BY <2>1, <1>l
      <3> HIDE DEF n
      <3> QED BY <2>3, <2>7, <2>8, <3>1, <3>2
    <2>9. CASE ~ (j = i /\ task[i].payload.kind = "position")
      <3>1. ~ After(n, j)
        <4> HIDE DEF n
        <4> QED BY <2>5, <2>6, <2>9
      <3>2. Busy(j)' /\ task'[j].payload.kind = "position"
              <=> Busy(j) /\ task[j].payload.kind = "position"
        BY <2>1, <2>7, <2>9
      <3>3. j # i => task'[j] = task[j]
        BY <2>1
      <3>4. CASE Busy(j) /\ task[j].payload.kind = "position"
        BY <3>2, <3>3, <3>4, <2>9 DEF LastCell
      <3>5. CASE ~ (Busy(j) /\ task[j].payload.kind = "position")
        <4> SUFFICES ASSUME NEW m \in 1..n, After(m, j)
                     PROVE  \E l \in 1..n : /\ After(l, j)
                                            /\ \A k \in 1..n : After(k, j) => k <= l
                                            /\ lastPos[j] = log'[l].payload.cell
          BY <3>2, <3>5
        <4>1. m \in 1..Len(log) /\ PositionBy(m, j)
          BY <3>1, <2>2, <2>4
        <4>2. PICK l \in 1..Len(log) :
                /\ PositionBy(l, j)
                /\ \A k \in 1..Len(log) : PositionBy(k, j) => k <= l
                /\ lastPos[j] = log[l].payload.cell
          BY <4>1, <3>5 DEF LastCell
        <4>3. \A k \in 1..n : After(k, j) => k <= l
          BY <3>1, <2>2, <2>4, <4>2
        <4>4. l \in 1..n /\ After(l, j) /\ lastPos[j] = log'[l].payload.cell
          BY <2>1, <2>3, <2>4, <4>2
        <4> QED BY <4>3, <4>4
      <3> QED BY <3>4, <3>5
    <2> QED BY <2>8, <2>9
  <1>5. ASSUME NEW i \in Instance, Restart(i) PROVE LastCell'
    <2>1. /\ epoch'[i] = epoch[i] + 1 /\ task'[i] = Warming
          /\ \A j \in Instance \ {i} : /\ epoch'[j] = epoch[j] /\ task'[j] = task[j]
                                       /\ lastPos'[j] = lastPos[j]
          /\ log' = log
      BY <1>5, RestartFacts
    <2>2. \A l \in 1..Len(log) : ~ PositionBy(l, i)'
      <3> SUFFICES ASSUME NEW l \in 1..Len(log), log[l].by = i, log[l].epoch = epoch'[i]
                   PROVE  FALSE
        BY <2>1 DEF PositionBy
      <3>1. log[l].epoch <= epoch[i] /\ log[l].epoch \in Nat /\ epoch[i] \in Nat
        BY LogTyped DEF Lives, Typed
      <3> QED BY <2>1, <3>1
    <2>3. ~Busy(i)'
      BY <2>1 DEF Busy, Warming
    <2> QED BY <2>1, <2>2, <2>3 DEF LastCell, PositionBy, Busy
  <1>6. ASSUME NEW i \in Instance, WarmKv(i) \/ EnterLoop(i) PROVE LastCell'
    <2>1. /\ ~Busy(i) /\ task'[i].at \notin {"put", "publish"}
          /\ \A j \in Instance \ {i} : task'[j] = task[j]
          /\ UNCHANGED <<lastPos, epoch, log>>
      BY <1>6, StartFacts
    <2>2. ~Busy(i)'
      BY <2>1 DEF Busy
    <2> QED BY <2>1, <2>2 DEF LastCell, PositionBy, Busy
  <1>7. CASE Tick \/ UNCHANGED vars
    BY <1>7 DEF Tick, caches, vars, LastCell, PositionBy, Busy
  <1> QED BY <1>1, <1>2, <1>3, <1>4, <1>5, <1>6, <1>7 DEF Next, Takes

LEMMA RoutedKept ==
  Typed /\ LastCell /\ RoutedToLastCell /\ [Next]_vars => RoutedToLastCell'
  <1> SUFFICES ASSUME Typed, LastCell, RoutedToLastCell, [Next]_vars
               PROVE  RoutedToLastCell'
    OBVIOUS
  <1>1. CASE log' = log
    BY <1>1 DEF RoutedToLastCell
  <1>2. ASSUME NEW i \in Instance, Publish(i) PROVE RoutedToLastCell'
    <2> DEFINE n == Len(log')
    <2>1. /\ n = Len(log) + 1 /\ Len(log) \in Nat /\ Busy(i)
          /\ \A l \in 1..Len(log) : log'[l] = log[l]
          /\ log'[n].payload = task[i].payload
          /\ log'[n].by = i /\ log'[n].epoch = epoch[i] /\ log'[n].cell = lastPos[i]
      BY <1>2, PublishFacts
    <2> DEFINE Before(s) == {l \in 1..(s - 1) : /\ log'[l].payload.kind = "position"
                                                /\ log'[l].by = log'[s].by
                                                /\ log'[l].epoch = log'[s].epoch}
    <2> SUFFICES ASSUME NEW s \in 1..n, log'[s].payload.kind = "static", Before(s) # {}
                 PROVE  \E l \in Before(s) : /\ \A k \in Before(s) : k <= l
                                             /\ log'[s].cell = log'[l].payload.cell
      BY DEF RoutedToLastCell
    <2>2. CASE s = n
      <3>1. \A l \in 1..Len(log) : l \in Before(n) <=> PositionBy(l, i)
        BY <2>1 DEF PositionBy
      <3>2. Before(n) \subseteq 1..Len(log)
        BY <2>1
      <3>3. task[i].payload.kind # "position"
        BY <2>1, <2>2
      <3>4. PICK m \in 1..Len(log) : PositionBy(m, i)
        BY <2>2, <3>1, <3>2
      <3>5. PICK l \in 1..Len(log) :
              /\ PositionBy(l, i)
              /\ \A k \in 1..Len(log) : PositionBy(k, i) => k <= l
              /\ lastPos[i] = log[l].payload.cell
        BY <3>3, <3>4 DEF LastCell
      <3>6. l \in Before(n) /\ \A k \in Before(n) : k <= l
        BY <3>1, <3>2, <3>5
      <3>7. log'[n].cell = log'[l].payload.cell
        BY <2>1, <3>5
      <3> QED BY <2>2, <3>6, <3>7
    <2>3. CASE s # n
      <3>1. s \in 1..Len(log)
        BY <2>1, <2>3
      <3>2. \A l \in 1..s : log'[l] = log[l]
        BY <2>1, <3>1
      <3>3. Before(s) = {l \in 1..(s - 1) : /\ log[l].payload.kind = "position"
                                            /\ log[l].by = log[s].by
                                            /\ log[l].epoch = log[s].epoch}
        BY <3>1, <3>2
      <3>4. PICK l \in Before(s) : /\ \A k \in Before(s) : k <= l
                                   /\ log[s].cell = log[l].payload.cell
        <4> HIDE DEF Before
        <4> QED BY <3>1, <3>2, <3>3 DEF RoutedToLastCell
      <3>5. l \in 1..s
        BY <3>1
      <3> QED BY <3>1, <3>2, <3>4, <3>5
    <2> QED BY <2>2, <2>3
  <1> QED BY <1>1, <1>2, LogGrows
-----------------------------------------------------------------------------
(* Names. *)

LEMMA NamesInBucketKept == Typed /\ Lives /\ NamesInBucket /\ [Next]_vars => NamesInBucket'
  <1> SUFFICES ASSUME Typed, Lives, NamesInBucket, [Next]_vars, reliable'
               PROVE  /\ \A l \in 1..Len(log') : log'[l].name # Unknown => kv' # Unknown
                      /\ \A j \in Instance :
                           names'[j] # Unknown => kv' # Unknown \/ task'[j].at = "put"
    BY DEF NamesInBucket
  <1>r. reliable
    BY DEF Next, HandleDuplicate, HandlePosition, HandleStatic, Put, PutFail, Publish,
           Restart, WarmKv, EnterLoop, Tick, bucket, vars
  <1>b. /\ \A l \in 1..Len(log) : log[l].name # Unknown => kv # Unknown
        /\ \A j \in Instance : names[j] # Unknown => kv # Unknown \/ task[j].at = "put"
    BY <1>r DEF NamesInBucket
  <1>1. CASE UNCHANGED <<log, names, kv, task>>
    BY <1>1, <1>b
  <1>9. ASSUME NEW i \in Instance, EnterLoop(i)
        PROVE  /\ log' = log /\ kv' = kv
               /\ \A j \in Instance :
                    names'[j] # Unknown => kv # Unknown \/ task'[j].at = "put"
    <2>1. /\ task[i].at # "put" /\ UNCHANGED <<log, names, kv>>
          /\ \A j \in Instance \ {i} : task'[j] = task[j]
      <3>1. Loading.at = "loading"
        BY DEF Loading
      <3> QED BY <1>9, <3>1, LoopFacts
    <2> QED BY <1>b, <2>1
  <1>2. ASSUME NEW i \in Instance, NEW p \in Payload, Takes(i, p),
               NEW j \in Instance, names'[j] # Unknown
        PROVE  log' = log /\ kv' = kv /\ (kv # Unknown \/ task'[j].at = "put")
    <2>1. /\ task[i] = Idle /\ \A k \in Instance \ {i} : task'[k] = task[k]
          /\ log' = log /\ kv' = kv
      BY <1>2, TakeFacts
    <2>2. CASE names'[j] = names[j]
      <3>1. j = i => task[j].at # "put"
        BY <2>1 DEF Idle
      <3> QED BY <1>2, <1>b, <2>1, <2>2, <3>1
    <2>3. CASE names'[j] # names[j]
      <3>1. j = i /\ task'[i].at = "put"
        <4>1. names \in [Instance -> Name \cup {Unknown}]
              /\ task \in [Instance -> {Idle, Warming, Loading} \cup Job]
          BY DEF Typed
        <4>2. HandleStatic(i, p) /\ names' = [names EXCEPT ![i] = p.name]
          BY <1>2, <2>3 DEF Takes, HandlePosition, HandleStatic
        <4>3. j = i /\ names[i] # p.name
          BY <2>3, <4>1, <4>2
        <4>4. task' = [task EXCEPT ![i] = Handling("put", p)]
          BY <4>2, <4>3 DEF HandleStatic
        <4> QED BY <4>1, <4>3, <4>4 DEF Handling
      <3> QED BY <2>1, <3>1
    <2> QED BY <2>2, <2>3
  <1>3. ASSUME NEW i \in Instance, Put(i) \/ PutFail(i)
        PROVE  kv' # Unknown
    <2>1. Put(i)
      BY <1>3, <1>r DEF PutFail
    <2>2. task[i].payload \in Payload /\ task[i].payload.kind = "static"
      BY <2>1, JobFacts DEF Put, Busy, Lives
    <2> QED BY <2>1, <2>2, PayloadFacts, NameAssumption DEF Put
  <1>4. ASSUME NEW i \in Instance, Publish(i)
        PROVE  /\ \A l \in 1..Len(log') : log'[l].name # Unknown => kv' # Unknown
               /\ \A j \in Instance :
                    names'[j] # Unknown => kv' # Unknown \/ task'[j].at = "put"
    <2>1. /\ task[i].at = "publish" /\ Len(log) \in Nat /\ Len(log') = Len(log) + 1
          /\ \A l \in 1..Len(log) : log'[l] = log[l]
          /\ log'[Len(log')].name = names[i]
          /\ \A j \in Instance \ {i} : task'[j] = task[j]
          /\ UNCHANGED <<names, kv>>
      BY <1>4, PublishFacts
    <2>2. \A l \in 1..Len(log') : l = Len(log') \/ l \in 1..Len(log)
      BY <2>1
    <2>3. names[i] # Unknown => kv # Unknown
      BY <1>b, <2>1
    <2> QED BY <1>b, <2>1, <2>2, <2>3
  <1>5. ASSUME NEW i \in Instance, Restart(i) \/ WarmKv(i)
        PROVE  /\ log' = log /\ kv' = kv
               /\ \A j \in Instance :
                    names'[j] # Unknown => kv # Unknown \/ task'[j].at = "put"
    <2>1. /\ names'[i] \in {Unknown, kv} /\ log' = log /\ kv' = kv
          /\ \A j \in Instance \ {i} : names'[j] = names[j] /\ task'[j] = task[j]
      BY <1>5, <1>r, RestartFacts, WarmFacts
    <2> QED BY <1>b, <2>1
  <1>6. ASSUME NEW i \in Instance, NEW p \in Payload, Takes(i, p)
        PROVE  log' = log /\ kv' = kv
    BY <1>6, TakeFacts
  <1>7. ASSUME NEW i \in Instance, Put(i) \/ PutFail(i) PROVE log' = log /\ names' = names
    BY <1>7, PutFacts
  <1>8. \/ UNCHANGED <<log, names, kv, task>>
        \/ \E i \in Instance, p \in Payload : Takes(i, p)
        \/ \E i \in Instance : Put(i) \/ PutFail(i)
        \/ \E i \in Instance : Publish(i)
        \/ \E i \in Instance : Restart(i) \/ WarmKv(i)
        \/ \E i \in Instance : EnterLoop(i)
    BY DEF Next, vars, Takes, HandleDuplicate, Tick, caches, bucket
  <1> QED BY <1>1, <1>2, <1>3, <1>4, <1>5, <1>6, <1>7, <1>8, <1>9, <1>b

LEMMA ReadyWithNameKept ==
  Typed /\ NamesInBucket /\ ReadyWithName /\ [Next]_vars => ReadyWithName'
  <1> SUFFICES ASSUME Typed, NamesInBucket, ReadyWithName, [Next]_vars
               PROVE  ReadyWithName'
    OBVIOUS
  <1>t. /\ Len(log) \in Nat /\ names \in [Instance -> Name \cup {Unknown}]
        /\ \A i \in Instance : started[i] \in Nat
        /\ \A l \in 1..Len(log) : log[l].started \in Nat
    <2>1. Len(log) \in Nat
      BY LenProperties DEF Typed
    <2>2. /\ names \in [Instance -> Name \cup {Unknown}]
          /\ \A i \in Instance : started[i] \in Nat
      BY DEF Typed
    <2>3. \A l \in 1..Len(log) : log[l].started \in Nat
      BY LogTyped
    <2> QED BY <2>1, <2>2, <2>3
  <1>1. CASE UNCHANGED <<log, names, started, task, reliable>>
    BY <1>1 DEF ReadyWithName
  <1>2. ASSUME NEW i \in Instance, NEW p \in Payload, Takes(i, p) PROVE ReadyWithName'
    <2>1. /\ task[i] # Warming /\ \A j \in Instance \ {i} : task'[j] = task[j]
          /\ UNCHANGED <<log, started, reliable>>
      BY <1>2, TakeFacts, JobFacts
    <2>2. \A j \in Instance :
            names'[j] = names[j] \/ (names'[j] # Unknown /\ j = i)
      BY <1>2, <1>t, PayloadFacts, NameAssumption
         DEF Takes, HandlePosition, HandleStatic
    <2> QED BY <2>1, <2>2 DEF ReadyWithName
  <1>3. ASSUME NEW i \in Instance, Put(i) \/ PutFail(i) PROVE ReadyWithName'
    <2>1. /\ Busy(i) /\ \A j \in Instance \ {i} : task'[j] = task[j]
          /\ UNCHANGED <<log, names, started, reliable>>
      BY <1>3, PutFacts
    <2>2. task[i] # Warming
      BY <2>1 DEF Busy, Warming
    <2> QED BY <2>1, <2>2 DEF ReadyWithName
  <1>4. ASSUME NEW i \in Instance, Publish(i) PROVE ReadyWithName'
    <2>1. /\ Busy(i) /\ Len(log') = Len(log) + 1
          /\ \A l \in 1..Len(log) : log'[l] = log[l]
          /\ log'[Len(log')].started = started[i]
          /\ \A j \in Instance \ {i} : task'[j] = task[j]
          /\ UNCHANGED <<names, started, reliable>>
      BY <1>4, PublishFacts
    <2>2. task[i] # Warming
      BY <2>1 DEF Busy, Warming
    <2>3. \A j \in Instance : started[j] <= Len(log')
      BY <2>1, <1>t DEF ReadyWithName
    <2>4. ASSUME NEW l \in 1..Len(log') PROVE log'[l].started <= Len(log')
      <3>1. CASE l = Len(log')
        BY <2>1, <2>3, <3>1
      <3>2. CASE l # Len(log')
        <4>1. l \in 1..Len(log)
          BY <2>1, <3>2, <1>t
        <4> QED BY <2>1, <4>1, <1>t DEF ReadyWithName
      <3> QED BY <3>1, <3>2
    <2>5. ASSUME reliable, NEW j \in Instance, NEW a \in 1..Len(log'), a <= started[j],
                 log'[a].name # Unknown, task'[j] # Warming
          PROVE  names[j] # Unknown
      <3>1. a \in 1..Len(log) /\ log'[a] = log[a]
        BY <2>1, <2>5, <1>t DEF ReadyWithName
      <3>2. task[j] # Warming
        BY <2>1, <2>2, <2>5
      <3> QED BY <2>5, <3>1, <3>2 DEF ReadyWithName
    <2> QED BY <2>1, <2>3, <2>4, <2>5 DEF ReadyWithName
  <1>5. ASSUME NEW i \in Instance, Restart(i) PROVE ReadyWithName'
    <2>1. /\ task'[i] = Warming
          /\ \A j \in Instance \ {i} : names'[j] = names[j] /\ task'[j] = task[j]
          /\ UNCHANGED <<log, started, reliable>>
      BY <1>5, RestartFacts
    <2> QED BY <2>1 DEF ReadyWithName
  <1>6. ASSUME NEW i \in Instance, WarmKv(i) PROVE ReadyWithName'
    <2>1. /\ names'[i] = kv \/ ~reliable
          /\ started'[i] = Len(log)
          /\ \A j \in Instance \ {i} : /\ names'[j] = names[j] /\ task'[j] = task[j]
                                       /\ started'[j] = started[j]
          /\ UNCHANGED <<log, reliable>>
      BY <1>6, WarmFacts
    <2>2. \A j \in Instance : started'[j] <= Len(log)
      BY <2>1, <1>t DEF ReadyWithName
    <2>3. reliable => \A a \in 1..Len(log) : log[a].name # Unknown => names'[i] # Unknown
      BY <2>1 DEF NamesInBucket
    <2> QED BY <2>1, <2>2, <2>3 DEF ReadyWithName
  <1>8. ASSUME NEW i \in Instance, EnterLoop(i) PROVE ReadyWithName'
    <2>1. /\ task[i] # Warming /\ \A j \in Instance \ {i} : task'[j] = task[j]
          /\ UNCHANGED <<log, names, started, reliable>>
      BY <1>8, LoopFacts, JobFacts
    <2> QED BY <2>1 DEF ReadyWithName
  <1>7. \/ UNCHANGED <<log, names, started, task, reliable>>
        \/ \E i \in Instance, p \in Payload : Takes(i, p)
        \/ \E i \in Instance : Put(i) \/ PutFail(i)
        \/ \E i \in Instance : Publish(i)
        \/ \E i \in Instance : Restart(i)
        \/ \E i \in Instance : WarmKv(i)
        \/ \E i \in Instance : EnterLoop(i)
    BY DEF Next, vars, Takes, HandleDuplicate, Tick, caches, bucket
  <1> QED BY <1>1, <1>2, <1>3, <1>4, <1>5, <1>6, <1>7, <1>8

LEMMA NamesSurviveKept ==
  Typed /\ ReadyWithName /\ NamesSurviveRestarts /\ [Next]_vars => NamesSurviveRestarts'
  <1> SUFFICES ASSUME Typed, ReadyWithName, NamesSurviveRestarts, [Next]_vars, reliable',
                      NEW a \in 1..Len(log'), NEW b \in 1..Len(log'),
                      a <= log'[b].started, log'[a].name # Unknown
               PROVE  log'[b].name # Unknown
    BY DEF NamesSurviveRestarts
  <1>r. reliable
    BY DEF Next, HandleDuplicate, HandlePosition, HandleStatic, Put, PutFail, Publish,
           Restart, WarmKv, EnterLoop, Tick, bucket, vars
  <1>1. CASE log' = log
    BY <1>1, <1>r DEF NamesSurviveRestarts
  <1>2. ASSUME NEW i \in Instance, Publish(i) PROVE log'[b].name # Unknown
    <2>1. /\ Busy(i) /\ Len(log) \in Nat /\ Len(log') = Len(log) + 1
          /\ \A l \in 1..Len(log) : log'[l] = log[l]
          /\ log'[Len(log')].started = started[i] /\ log'[Len(log')].name = names[i]
      BY <1>2, PublishFacts
    <2>2. task[i] # Warming
      BY <2>1 DEF Busy, Warming
    <2>3. CASE b = Len(log')
      <3>1. a <= started[i] /\ started[i] \in Nat /\ started[i] <= Len(log)
        BY <2>1, <2>3 DEF ReadyWithName, Typed
      <3>2. a \in 1..Len(log) /\ log'[a] = log[a]
        BY <2>1, <3>1
      <3> QED BY <2>1, <2>2, <2>3, <3>1, <3>2, <1>r DEF ReadyWithName
    <2>4. CASE b # Len(log')
      <3>1. b \in 1..Len(log) /\ log'[b] = log[b]
        BY <2>1, <2>4
      <3>2. a <= log[b].started /\ log[b].started \in Nat /\ log[b].started <= Len(log)
        BY <3>1, LogTyped DEF ReadyWithName
      <3>3. a \in 1..Len(log) /\ log'[a] = log[a]
        BY <2>1, <3>2
      <3> QED BY <3>1, <3>2, <3>3, <1>r DEF NamesSurviveRestarts
    <2> QED BY <2>3, <2>4
  <1> QED BY <1>1, <1>2, LogGrows

-----------------------------------------------------------------------------
LEMMA InitPInv == Init => PInv
  <1> SUFFICES ASSUME Init PROVE PInv
    OBVIOUS
  <1>1. /\ Len(log) = 0 /\ Len(received) = 0 /\ now = 0
        /\ Never \in Int /\ Never <= 0
    BY TtlAssumption DEF Init, Never
  <1>2. /\ \A l \in 1..Len(log) : FALSE
        /\ \A r \in 1..Len(received) : FALSE
    BY <1>1
  <1>3. \A i \in Instance : /\ task[i] = Idle /\ task[i].at # "put" /\ ~Busy(i)
                            /\ seen[i] = [p \in Payload |-> Never]
                            /\ names[i] = Unknown /\ started[i] = 0
    BY DEF Init, Idle, Busy
  <1>4. Typed
    BY InitTyped
  <1>5. Lives /\ InHandIsNew /\ PublishedOnce /\ DuplicateHasFirst /\ FirstIsPublished
    BY <1>2, <1>3 DEF Lives, InHandIsNew, PublishedOnce, DuplicateHasFirst,
                      FirstIsPublished
  <1>6. Remembered /\ SeenIsFirst
    BY <1>1, <1>2, <1>3 DEF Remembered, SeenIsFirst
  <1>7. LastCell /\ RoutedToLastCell
    BY <1>2, <1>3 DEF LastCell, RoutedToLastCell
  <1>8. NamesInBucket /\ ReadyWithName /\ NamesSurviveRestarts
    BY <1>1, <1>2, <1>3 DEF NamesInBucket, ReadyWithName, NamesSurviveRestarts
  <1> QED BY <1>4, <1>5, <1>6, <1>7, <1>8 DEF PInv

\* The invariant holds in every reachable state.
THEOREM PipelineInvariance == Spec => []PInv
  <1>1. PInv /\ [Next]_vars => PInv'
    <2> SUFFICES ASSUME PInv, [Next]_vars PROVE PInv'
      OBVIOUS
    <2> USE DEF PInv
    <2>1. Typed' /\ Lives'
      BY TypedKept, LivesKept
    <2>2. Remembered' /\ InHandIsNew' /\ PublishedOnce'
      BY RememberedKept, InHandIsNewKept, PublishedOnceKept
    <2>3. SeenIsFirst' /\ DuplicateHasFirst' /\ FirstIsPublished'
      BY SeenIsFirstKept, DuplicateHasFirstKept, FirstIsPublishedKept
    <2>4. LastCell' /\ RoutedToLastCell'
      BY LastCellKept, RoutedKept
    <2>5. NamesInBucket' /\ ReadyWithName' /\ NamesSurviveRestarts'
      BY NamesInBucketKept, ReadyWithNameKept, NamesSurviveKept
    <2> QED BY <2>1, <2>2, <2>3, <2>4, <2>5
  <1> QED BY InitPInv, <1>1, PTL DEF Spec

\* "Sliding-window duplicate detector. The first copy wins": an instance
\* publishes a payload at most once per window, and suppresses a copy only
\* for a first one at most a window old that it publishes.
THEOREM FirstCopyWins == Spec => []OneCopyPerWindow
  <1>1. PInv => OneCopyPerWindow
    <2> SUFFICES ASSUME PInv PROVE OneCopyPerWindow
      OBVIOUS
    <2>1. \A a, b \in 1..Len(log) :
            a < b /\ SameWindow(log[a], log[b]) => log[b].at - log[a].at > Ttl
      BY DEF PInv, PublishedOnce
    <2>2. ASSUME NEW r \in 1..Len(received), received[r].duplicate
          PROVE  \E f \in 1..(r - 1) :
                   /\ SameWindow(received[f], received[r])
                   /\ ~received[f].duplicate
                   /\ received[r].at - received[f].at <= Ttl
                   /\ \/ \E l \in 1..Len(log) : SameWindow(log[l], received[f])
                                                /\ log[l].at = received[f].at
                      \/ /\ task[received[f].by].at \in {"put", "publish"}
                         /\ task[received[f].by].payload = received[f].payload
                      \/ epoch[received[f].by] # received[f].epoch
      <3>1. PICK f \in 1..(r - 1) : /\ SameWindow(received[f], received[r])
                                    /\ ~received[f].duplicate
                                    /\ received[r].at - received[f].at <= Ttl
        BY <2>2 DEF PInv, DuplicateHasFirst
      <3>2. f \in 1..Len(received)
        BY LenProperties DEF PInv, Typed
      <3>3. \/ \E l \in 1..Len(log) : SameWindow(log[l], received[f])
                                      /\ log[l].at = received[f].at
            \/ InHand(f) \/ ~Current(received[f])
        BY <3>1, <3>2 DEF PInv, FirstIsPublished
      <3> QED BY <3>1, <3>3 DEF InHand, Busy, Current
    <2> QED BY <2>1, <2>2 DEF OneCopyPerWindow
  <1> QED BY PipelineInvariance, <1>1, PTL

\* A static goes to the cell of the newest position the instance published
\* since it started.
THEOREM StaticsFollowPositions == Spec => []RoutedToLastCell
  <1>1. PInv => RoutedToLastCell
    BY DEF PInv
  <1> QED BY PipelineInvariance, <1>1, PTL

\* NAMES_BUCKET: "Without it every deploy wiped the cache and the map went
\* unnamed"; with it, and while it answers, an instance has a name for every
\* vessel that was published with one before the instance read the names.
THEOREM DeploysKeepNames == Spec => []NamesSurviveRestarts
  <1>1. PInv => NamesSurviveRestarts
    BY DEF PInv
  <1> QED BY PipelineInvariance, <1>1, PTL

=============================================================================
