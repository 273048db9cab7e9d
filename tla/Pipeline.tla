------------------------------ MODULE Pipeline ------------------------------
(***************************************************************************)
(* services/pipeline: instances of one queue group that suppress duplicate *)
(* receptions, enrich messages with what they remember of the vessel, and  *)
(* publish them on the subject of the vessel's geohash cell.               *)
(*                                                                         *)
(* An instance handles one message at a time; it awaits the write of a new *)
(* name to the KV bucket, and the publication.  The window and the caches  *)
(* are its own; the bucket is shared and outlives it.                      *)
(*                                                                         *)
(* There is one vessel.  Its payloads are positions and statics; name      *)
(* stands for the three fields enriched the same way (name, type, IMO).    *)
(***************************************************************************)
EXTENDS Integers, Sequences

CONSTANTS
  Instance,      \* the replicas
  Cell, Name,    \* what payloads say
  Ttl,           \* the window, 10 s
  MaxTime, MaxMessages, MaxRestarts   \* bounds of the model

ASSUME TtlAssumption == Ttl \in Nat
ASSUME PipelineBounds ==
  MaxTime \in Nat /\ MaxMessages \in Nat /\ MaxRestarts \in Nat

Payload == [kind : {"position"}, cell : Cell] \cup [kind : {"static"}, name : Name]
Unknown == "unknown"
Never == -Ttl - 1

\* None is not the name of a vessel.
ASSUME NameAssumption == Unknown \notin Name

VARIABLES
  seen,       \* Window::seen: when the first copy of each payload came
  lastSweep,  \* Window::last_sweep
  names,      \* Enrichment::names, of the vessel
  lastPos,    \* Enrichment::last_pos, its cell
  kv,         \* the bucket's entry for the vessel
  reliable,   \* the bucket answers every read and write
  task,       \* what each instance is doing
  epoch,      \* how often each instance was restarted
  log,        \* history: the messages published
  received,   \* history: the messages received, and which were duplicates
  started,    \* history: what was published when each instance had read the
              \* names
  now

vars == <<seen, lastSweep, names, lastPos, kv, reliable, task, epoch, log,
          received, started, now>>
window == <<seen, lastSweep>>
caches == <<names, lastPos>>
bucket == <<kv, reliable>>

Idle == [at |-> "idle"]
Warming == [at |-> "warming"]   \* before the names are read
Loading == [at |-> "loading"]   \* after, before the loop
Handling(step, p) == [at |-> step, payload |-> p, since |-> now, failed |-> FALSE]

Init ==
  /\ seen = [i \in Instance |-> [p \in Payload |-> Never]]
  /\ lastSweep = [i \in Instance |-> 0]
  /\ names = [i \in Instance |-> Unknown]
  /\ lastPos = [i \in Instance |-> Unknown]
  /\ kv = Unknown
  /\ reliable \in BOOLEAN
  /\ task = [i \in Instance |-> Idle]
  /\ epoch = [i \in Instance |-> 0]
  /\ log = <<>> /\ received = <<>>
  /\ started = [i \in Instance |-> 0]
  /\ now = 0

-----------------------------------------------------------------------------
\* Window::seen.

\* sweep, at most once per ttl.
SweepDue(i) == now - lastSweep[i] >= Ttl

\* Mutation: a sweep forgets everything.
SweptClean(i) ==
  IF SweepDue(i) THEN [p \in Payload |-> Never] ELSE seen[i]

Swept(i) ==
  IF SweepDue(i)
    THEN [p \in Payload |-> IF now - seen[i][p] <= Ttl THEN seen[i][p] ELSE Never]
    ELSE seen[i]

IsDuplicate(i, p) == now - Swept(i)[p] <= Ttl

\* The first copy is remembered; later ones do not prolong the window.
Marked(i, p) ==
  IF IsDuplicate(i, p) THEN Swept(i) ELSE [Swept(i) EXCEPT ![p] = now]

Remember(i, p) ==
  /\ seen' = [seen EXCEPT ![i] = Marked(i, p)]
  /\ lastSweep' = [lastSweep EXCEPT ![i] = IF SweepDue(i) THEN now ELSE @]
  /\ received' = Append(received, [payload |-> p, by |-> i, epoch |-> epoch[i],
                                   at |-> now, duplicate |-> IsDuplicate(i, p)])

-----------------------------------------------------------------------------
\* handle.

\* The queue group gives a message to any instance that is free.
Receive(i, p) ==
  /\ task[i] = Idle
  /\ Len(received) < MaxMessages
  /\ Remember(i, p)

HandleDuplicate(i, p) ==
  /\ Receive(i, p) /\ IsDuplicate(i, p)
  /\ UNCHANGED <<caches, bucket, task, epoch, log, started, now>>

\* Mutation: only the first position is remembered.
HandleFirstPosition(i, p) ==
  /\ p.kind = "position"
  /\ Receive(i, p) /\ ~IsDuplicate(i, p)
  /\ lastPos' = [lastPos EXCEPT ![i] = IF @ = Unknown THEN p.cell ELSE @]
  /\ task' = [task EXCEPT ![i] = Handling("publish", p)]
  /\ UNCHANGED <<names, bucket, epoch, log, started, now>>

HandlePosition(i, p) ==
  /\ p.kind = "position"
  /\ Receive(i, p) /\ ~IsDuplicate(i, p)
  /\ lastPos' = [lastPos EXCEPT ![i] = p.cell]
  /\ task' = [task EXCEPT ![i] = Handling("publish", p)]
  /\ UNCHANGED <<names, bucket, epoch, log, started, now>>

\* A name is written to the bucket when it is new to this instance.
HandleStatic(i, p) ==
  /\ p.kind = "static"
  /\ Receive(i, p) /\ ~IsDuplicate(i, p)
  /\ names' = [names EXCEPT ![i] = p.name]
  /\ task' = [task EXCEPT
       ![i] = Handling(IF names[i] # p.name THEN "put" ELSE "publish", p)]
  /\ UNCHANGED <<lastPos, bucket, epoch, log, started, now>>

Put(i) ==
  /\ task[i].at = "put"
  /\ kv' = task[i].payload.name
  /\ task' = [task EXCEPT ![i].at = "publish"]
  /\ UNCHANGED <<window, caches, reliable, epoch, log, received, started, now>>

\* The failure is logged, the message published all the same.
PutFail(i) ==
  /\ ~reliable
  /\ task[i].at = "put"
  /\ task' = [task EXCEPT ![i].at = "publish", ![i].failed = TRUE]
  /\ UNCHANGED <<window, caches, bucket, epoch, log, received, started, now>>

Publish(i) ==
  /\ task[i].at = "publish"
  /\ log' = Append(log, [payload |-> task[i].payload, by |-> i,
                         epoch |-> epoch[i], at |-> task[i].since,
                         started |-> started[i],
                         name |-> names[i], cell |-> lastPos[i]])
  /\ task' = [task EXCEPT ![i] = Idle]
  /\ UNCHANGED <<window, caches, bucket, epoch, received, started, now>>

-----------------------------------------------------------------------------
\* main.

\* A crash or a deploy, at any point of handle.
Restart(i) ==
  /\ epoch[i] < MaxRestarts
  /\ epoch' = [epoch EXCEPT ![i] = @ + 1]
  /\ seen' = [seen EXCEPT ![i] = [p \in Payload |-> Never]]
  /\ lastSweep' = [lastSweep EXCEPT ![i] = now]
  /\ names' = [names EXCEPT ![i] = Unknown]
  /\ lastPos' = [lastPos EXCEPT ![i] = Unknown]
  /\ task' = [task EXCEPT ![i] = Warming]
  /\ UNCHANGED <<bucket, log, received, started, now>>

\* Mutation: the names are not read.
StartCold(i) ==
  /\ task[i] = Warming
  /\ task' = [task EXCEPT ![i] = Loading]
  /\ started' = [started EXCEPT ![i] = Len(log)]
  /\ UNCHANGED <<window, caches, bucket, epoch, log, received, now>>

\* warm_kv of the names, the first bucket: load it, or go on without.
WarmKv(i) ==
  /\ task[i] = Warming
  /\ \/ names' = [names EXCEPT ![i] = kv]
     \/ ~reliable /\ UNCHANGED names
  /\ task' = [task EXCEPT ![i] = Loading]
  /\ started' = [started EXCEPT ![i] = Len(log)]
  /\ UNCHANGED <<window, lastPos, bucket, epoch, log, received, now>>

\* warm_kv of the types and the IMO numbers, up to 10 s each, in which the
\* other replicas go on; then the loop begins.
EnterLoop(i) ==
  /\ task[i] = Loading
  /\ task' = [task EXCEPT ![i] = Idle]
  /\ UNCHANGED <<window, caches, bucket, epoch, log, received, started, now>>

Tick ==
  /\ now < MaxTime
  /\ now' = now + 1
  /\ UNCHANGED <<window, caches, bucket, task, epoch, log, received, started>>

Next ==
  \/ \E i \in Instance, p \in Payload :
       HandleDuplicate(i, p) \/ HandlePosition(i, p) \/ HandleStatic(i, p)
  \/ \E i \in Instance :
       Put(i) \/ PutFail(i) \/ Publish(i)
       \/ Restart(i) \/ WarmKv(i) \/ EnterLoop(i)
  \/ Tick

Spec == Init /\ [][Next]_vars

-----------------------------------------------------------------------------
\* Properties.

Time == 0..MaxTime
SameWindow(a, b) == a.payload = b.payload /\ a.by = b.by /\ a.epoch = b.epoch

TypeOK ==
  /\ seen \in [Instance -> [Payload -> Time \cup {Never}]]
  /\ lastSweep \in [Instance -> Time]
  /\ names \in [Instance -> Name \cup {Unknown}]
  /\ lastPos \in [Instance -> Cell \cup {Unknown}]
  /\ kv \in Name \cup {Unknown}
  /\ reliable \in BOOLEAN
  /\ \A i \in Instance :
       task[i] \in {Idle, Warming, Loading}
         \cup [at : {"put", "publish"}, payload : Payload, since : Time,
               failed : BOOLEAN]
  /\ epoch \in [Instance -> 0..MaxRestarts]
  /\ log \in Seq([payload : Payload, by : Instance, epoch : 0..MaxRestarts,
                  at : Time, started : Nat, name : Name \cup {Unknown},
                  cell : Cell \cup {Unknown}])
  /\ received \in Seq([payload : Payload, by : Instance,
                       epoch : 0..MaxRestarts, at : Time, duplicate : BOOLEAN])
  /\ started \in [Instance -> Nat]
  /\ now \in Time

\* "Sliding-window duplicate detector. The first copy wins": between its
\* restarts an instance publishes a payload at most once per window, however
\* the sweeps, which run on a clock of their own, fall; and it suppresses a
\* copy only for a first copy at most a window old which it publishes, so a
\* payload heard at regular intervals is not suppressed for ever.
OneCopyPerWindow ==
  /\ \A a, b \in 1..Len(log) :
       a < b /\ SameWindow(log[a], log[b]) => log[b].at - log[a].at > Ttl
  /\ \A r \in 1..Len(received) : received[r].duplicate =>
       \E f \in 1..(r - 1) :
         /\ SameWindow(received[f], received[r])
         /\ ~received[f].duplicate
         /\ received[r].at - received[f].at <= Ttl
         /\ \/ \E l \in 1..Len(log) : SameWindow(log[l], received[f])
                                      /\ log[l].at = received[f].at
            \/ /\ task[received[f].by].at \in {"put", "publish"}
               /\ task[received[f].by].payload = received[f].payload
            \/ epoch[received[f].by] # received[f].epoch

\* A static goes to the cell of the newest position this instance has handled
\* since it started.
RoutedToLastCell ==
  \A s \in 1..Len(log) :
    LET p == {l \in 1..(s - 1) : /\ log[l].payload.kind = "position"
                                 /\ log[l].by = log[s].by
                                 /\ log[l].epoch = log[s].epoch}
    IN  log[s].payload.kind = "static" /\ p # {} =>
          \E l \in p : /\ \A k \in p : k <= l
                       /\ log[s].cell = log[l].payload.cell

\* NAMES_BUCKET: "Without it every deploy wiped the cache and the map went
\* unnamed".  While the bucket answers, whatever an instance publishes carries
\* a name if, before that instance had read the names, some instance had
\* published a message with a name of the vessel: also one that learned the
\* name in a life that has ended since.  (A vessel first named after that, by
\* another replica, is named here when its next static comes here.)
NamesSurviveRestarts ==
  reliable =>
    \A a, b \in 1..Len(log) :
      a <= log[b].started /\ log[a].name # Unknown => log[b].name # Unknown

\* handle: "A lost write self-heals on the vessel's next static broadcast".
\* When a static has been handled and no write failed in handling it, the
\* bucket has its name.
LostWriteHeals ==
  [][\A i \in Instance :
       Publish(i) /\ task[i].payload.kind = "static" /\ ~task[i].failed
         => kv = task[i].payload.name]_vars
=============================================================================
