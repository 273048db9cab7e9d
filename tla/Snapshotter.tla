---------------------------- MODULE Snapshotter -----------------------------
(***************************************************************************)
(* services/snapshotter: the live fleet, built from the decoded stream,    *)
(* warmed from the archiver's history when the process starts, and served  *)
(* as snapshots taken once per interval.                                   *)
(*                                                                         *)
(* Three tasks share the fleet under one lock: consume, warm_from_history  *)
(* and snapshot_loop.  warm_from_history holds the lock only while it      *)
(* applies the rows of a query it has made before.                         *)
(*                                                                         *)
(* A vessel's position, and its name, are the numbers of the messages they *)
(* come from; 0 for none.  Everything update_from_packet takes from a      *)
(* position report goes with pos, everything from a static one with name.  *)
(* The services' clocks agree.                                             *)
(***************************************************************************)
EXTENDS Integers, Sequences, FiniteSetsExt

CONSTANTS
  Mmsi,
  Ttl,            \* VESSEL_TTL, and the INTERVAL of the positions query
  Interval,       \* OSF_SNAPSHOT_SECS
  WarmTimeout,    \* the queries' timeouts
  Ring,           \* SNAPSHOT_RING
  MaxTime,        \* bounds of the model: clock ticks,
  MaxMessages,    \* messages published,
  MaxRestarts     \* restarts

ASSUME TimesAssumption ==
  /\ Ttl \in Nat \ {0} /\ Interval \in Nat \ {0} /\ Ring \in Nat \ {0}
  /\ WarmTimeout \in 0..(Ttl - 1)
ASSUME SnapshotterBounds ==
  MaxTime \in Nat /\ MaxMessages \in Nat /\ MaxRestarts \in Nat

VARIABLES
  published,   \* the messages of ais.decoded.>, in order
  stored,      \* how many of them ClickHouse holds
  next,        \* the first one consume has not handled
  since,       \* the first one published after the process subscribed
  vessels,     \* the fleet; Absent for a vessel not in the map
  snapshots,   \* the ring: when each was taken, and of which vessels
  slept,       \* when snapshot_loop last went to sleep
  warm,        \* the next step of warm_from_history
  posRows,     \* what the positions query returned: a message number or 0
  staticRows,  \* what the statics query returned
  started,     \* when the process started
  heard,       \* history: when a message of the vessel was last consumed
  now,
  restarts

vars == <<published, stored, next, since, vessels, snapshots, slept, warm,
          posRows, staticRows, started, heard, now, restarts>>
stream == <<published, stored>>
warming == <<warm, posRows, staticRows, started>>

Absent == [ts |-> -1]
Default == [pos |-> 0, name |-> 0, ts |-> 0]
OrDefault(m) == IF vessels[m] = Absent THEN Default ELSE vessels[m]
Nothing == [m \in Mmsi |-> 0]

\* A process that has just started and subscribed.
Start ==
  /\ vessels' = [m \in Mmsi |-> Absent]
  /\ snapshots' = <<>>
  /\ slept' = now
  /\ warm' = "query positions"
  /\ posRows' = Nothing /\ staticRows' = Nothing
  /\ started' = now
  /\ next' = Len(published) + 1
  /\ since' = next'
  /\ heard' = [m \in Mmsi |-> -Ttl]

Init ==
  /\ published = <<>> /\ stored = 0
  /\ next = 1 /\ since = 1
  /\ vessels = [m \in Mmsi |-> Absent]
  /\ snapshots = <<>>
  /\ slept = 1
  /\ warm = "query positions"
  /\ posRows = Nothing /\ staticRows = Nothing
  /\ started = 1
  /\ heard = [m \in Mmsi |-> -Ttl]
  /\ now = 1
  /\ restarts = 0

-----------------------------------------------------------------------------
\* The rest of the system, and time.

\* Numbers of the first n messages about m that pass the test.
Of(m, kind, n) == {i \in 1..n : published[i].m = m /\ published[i].kind = kind}
Newest(S) == Max(S \cup {0})

\* The pipeline publishes a decoded message.  A position carries the name it
\* has cached for the vessel, or none.
Publish ==
  /\ Len(published) < MaxMessages
  /\ \E m \in Mmsi, kind \in {"position", "static"} :
       LET n == Len(published) + 1
       IN  \E name \in IF kind = "static" THEN {n}
                         ELSE {0, Newest(Of(m, "static", Len(published)))} :
             published' = Append(published, [m |-> m, kind |-> kind,
                                             name |-> name, at |-> now])
  /\ UNCHANGED <<stored, next, since, vessels, snapshots, slept, warming,
                 heard, now, restarts>>

\* The archiver flushes a batch.
Store ==
  /\ \E n \in (stored + 1)..Len(published) : stored' = n
  /\ UNCHANGED <<published, next, since, vessels, snapshots, slept, warming,
                 heard, now, restarts>>

Restart ==
  /\ restarts < MaxRestarts
  /\ restarts' = restarts + 1
  /\ Start
  /\ UNCHANGED <<stream, now>>

\* sleep(interval) ends on time, and so do the queries.
Tick ==
  /\ now < MaxTime
  /\ now < slept + Interval
  /\ warm # "done" => now < started + WarmTimeout
  /\ now' = now + 1
  /\ UNCHANGED <<stream, next, since, vessels, snapshots, slept, warming,
                 heard, restarts>>

-----------------------------------------------------------------------------
\* consume, with update_from_packet.

\* Mutations: only positions keep a vessel alive; ts is left as it is.
UpdatedByPositions(v, i) ==
  [v EXCEPT !.pos = IF published[i].kind = "position" THEN i ELSE @,
            !.name = IF published[i].name # 0 THEN published[i].name ELSE @,
            !.ts = IF published[i].kind = "position" THEN now ELSE @]
UpdatedWithoutTs(v, i) ==
  [v EXCEPT !.pos = IF published[i].kind = "position" THEN i ELSE @,
            !.name = IF published[i].name # 0 THEN published[i].name ELSE @]

Updated(v, i) ==
  [v EXCEPT !.pos = IF published[i].kind = "position" THEN i ELSE @,
            !.name = IF published[i].name # 0 THEN published[i].name ELSE @,
            !.ts = now]

Consume ==
  /\ next <= Len(published)
  /\ LET m == published[next].m
     IN  /\ vessels' = [vessels EXCEPT ![m] = Updated(OrDefault(m), next)]
         /\ heard' = [heard EXCEPT ![m] = now]
  /\ next' = next + 1
  /\ UNCHANGED <<stream, since, snapshots, slept, warming, now, restarts>>

-----------------------------------------------------------------------------
\* warm_from_history.  A query that fails returns no rows.

QueryPositions ==
  /\ warm = "query positions"
  /\ posRows' \in
       {Nothing,
        [m \in Mmsi |-> Newest({i \in Of(m, "position", stored) :
                                  published[i].at > now - Ttl})]}
  /\ warm' = "query statics"
  /\ UNCHANGED <<stream, next, since, vessels, snapshots, slept, staticRows,
                 started, heard, now, restarts>>

QueryStatics ==
  /\ warm = "query statics"
  /\ staticRows' \in
       {Nothing, [m \in Mmsi |-> Newest(Of(m, "static", stored))]}
  /\ warm' = "apply positions"
  /\ UNCHANGED <<stream, next, since, vessels, snapshots, slept, posRows,
                 started, heard, now, restarts>>

\* Mutations: the row wins always; it makes the vessel as good as heard.
WarmPositionAlways(m) ==
  [OrDefault(m) EXCEPT !.pos = posRows[m], !.ts = published[posRows[m]].at]
WarmPositionAsHeard(m) ==
  LET v == OrDefault(m)
      w == published[posRows[m]]
  IN  IF v.ts >= w.at THEN v ELSE [v EXCEPT !.pos = posRows[m], !.ts = now]

\* "live consume already has fresher data": the vessel's ts against the row's.
WarmPosition(m) ==
  LET v == OrDefault(m)
      w == published[posRows[m]]
  IN  IF v.ts >= w.at THEN v ELSE [v EXCEPT !.pos = posRows[m], !.ts = w.at]

ApplyPositions ==
  /\ warm = "apply positions"
  /\ vessels' = [m \in Mmsi |-> IF posRows[m] = 0 THEN vessels[m]
                                                  ELSE WarmPosition(m)]
  /\ warm' = "apply statics"
  /\ UNCHANGED <<stream, next, since, snapshots, slept, posRows, staticRows,
                 started, heard, now, restarts>>

\* Statics only enrich vessels in the map, and only what they lack.
WarmStatic(m) ==
  IF vessels[m] # Absent /\ vessels[m].name = 0
    THEN [vessels[m] EXCEPT !.name = staticRows[m]]
    ELSE vessels[m]

ApplyStatics ==
  /\ warm = "apply statics"
  /\ vessels' = [m \in Mmsi |-> WarmStatic(m)]
  /\ warm' = "done"
  /\ UNCHANGED <<stream, next, since, snapshots, slept, posRows, staticRows,
                 started, heard, now, restarts>>

-----------------------------------------------------------------------------
\* snapshot_loop: forget the vessels that are too old, snapshot the others.

Retained == [m \in Mmsi |-> IF now - vessels[m].ts < Ttl THEN vessels[m]
                                                         ELSE Absent]

TakeSnapshot ==
  /\ now = slept + Interval
  /\ vessels' = Retained
  /\ LET all == Append(snapshots,
                  [at |-> now,
                   of |-> {m \in Mmsi : Retained[m] # Absent}])
     IN  snapshots' = IF Len(all) > Ring THEN Tail(all) ELSE all
  /\ slept' = now
  /\ UNCHANGED <<stream, next, since, warming, heard, now, restarts>>

Next ==
  \/ Publish \/ Store \/ Restart \/ Tick
  \/ Consume
  \/ QueryPositions \/ QueryStatics \/ ApplyPositions \/ ApplyStatics
  \/ TakeSnapshot

Spec == Init /\ [][Next]_vars

-----------------------------------------------------------------------------
\* Properties.

Number == 0..MaxMessages
Time == 1..MaxTime

TypeOK ==
  /\ published \in Seq([m : Mmsi, kind : {"position", "static"},
                        name : Number, at : Time])
  /\ Len(published) <= MaxMessages
  /\ stored \in 0..Len(published)
  /\ since \in 1..next /\ next \in 1..(Len(published) + 1)
  /\ vessels \in [Mmsi -> {Absent} \cup [pos : Number, name : Number, ts : Time]]
  /\ snapshots \in Seq([at : Time, of : SUBSET Mmsi])
  /\ Len(snapshots) <= Ring
  /\ slept \in 1..now /\ started \in 1..now
  /\ warm \in {"query positions", "query statics", "apply positions",
               "apply statics", "done"}
  /\ posRows \in [Mmsi -> Number] /\ staticRows \in [Mmsi -> Number]
  /\ heard \in [Mmsi -> Time \cup {-Ttl}]
  /\ now \in Time
  /\ restarts \in 0..MaxRestarts

\* warm_from_history: "Live messages that arrived while the queries ran win
\* over the warm data".  Applying the rows never puts an older position in the
\* place of a newer one, nor any name in the place of another, although the
\* rows were read before and ts is the time of consumption, not of the row.
LiveWins ==
  [][ApplyPositions \/ ApplyStatics =>
       \A m \in Mmsi : vessels[m] # Absent =>
         /\ vessels'[m].pos >= vessels[m].pos
         /\ vessels[m].name # 0 => vessels'[m].name = vessels[m].name]_vars

\* When the stream has been consumed to its end, a vessel that sent its newest
\* position since the process started, and within the ttl, is at that position,
\* wherever in the warm-up the process is.
CatchesUp ==
  next > Len(published) =>
    \A m \in Mmsi :
      LET newest == Newest(Of(m, "position", Len(published)))
      IN  newest >= since /\ now - published[newest].at < Ttl
            => vessels[m] # Absent /\ vessels[m].pos = newest

\* A vessel heard within the ttl, by whatever kind of message, is in the
\* fleet; warming and retaining never take it out.
HeardVesselsStay ==
  \A m \in Mmsi : now - heard[m] < Ttl => vessels[m] # Absent

\* No ghosts: the snapshot being served shows no vessel of which nothing has
\* been heard, or was stored, for longer than the ttl and one interval.
NoGhosts ==
  snapshots # <<>> =>
    LET shown == snapshots[Len(snapshots)]
    IN  \A m \in shown.of :
          LET row == posRows[m]
          IN  \/ now - heard[m] < Ttl + Interval
              \/ row # 0 /\ now - published[row].at < Ttl + Interval

\* main: "Rebuild the fleet from stored history so a restart (every deploy)
\* does not blank the map".  After the warm-up a vessel whose position from
\* before the start was found has a position.
RestartKeepsPositions ==
  warm = "done" =>
    \A m \in Mmsi :
      posRows[m] \in 1..(since - 1) /\ vessels[m] # Absent
        => vessels[m].pos # 0
=============================================================================
