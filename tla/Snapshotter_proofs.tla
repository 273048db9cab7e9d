------------------------- MODULE Snapshotter_proofs -------------------------
(***************************************************************************)
(* Proofs about the live fleet, for every number of vessels and messages,  *)
(* every ttl, interval and ring: whatever the tasks that share the fleet   *)
(* do in between, warming puts nothing older over what is live, nothing    *)
(* heard within the ttl is missing, and nothing older is shown.            *)
(***************************************************************************)
EXTENDS Snapshotter, SequenceTheorems, FiniteSetTheorems, TLAPS

(***************************************************************************)
(* Types, as far as the proofs use them.                                   *)
(***************************************************************************)
Message == [m : Mmsi, kind : {"position", "static"}, name : Nat, at : Nat]
Vessel == [pos : Nat, name : Nat, ts : Nat]
Shot == [at : Nat, of : SUBSET Mmsi]

Typed ==
  /\ published \in Seq(Message)
  /\ stored \in 0..Len(published)
  /\ next \in 1..Len(published) + 1 /\ since \in 1..next
  /\ vessels \in [Mmsi -> {Absent} \cup Vessel]
  /\ snapshots \in Seq(Shot)
  /\ slept \in Nat /\ started \in Nat /\ now \in Nat /\ restarts \in Nat
  /\ 1 <= now /\ slept <= now /\ now <= slept + Interval
  /\ posRows \in [Mmsi -> Nat] /\ staticRows \in [Mmsi -> Nat]
  /\ heard \in [Mmsi -> Int]

(***************************************************************************)
(* The stream is in the order of time, and every position in the fleet and *)
(* every row is of that vessel.                                            *)
(***************************************************************************)
IsPosition(i, m) ==
  /\ i \in 1..Len(published)
  /\ published[i].m = m /\ published[i].kind = "position"

Timeline ==
  /\ \A i \in 1..Len(published) : 1 <= published[i].at /\ published[i].at <= now
  /\ \A i, j \in 1..Len(published) : i <= j => published[i].at <= published[j].at

Sources ==
  \A m \in Mmsi : /\ posRows[m] # 0 => IsPosition(posRows[m], m)
                  /\ vessels[m] # Absent /\ vessels[m].pos # 0
                       => IsPosition(vessels[m].pos, m)

\* Before the rows are applied, a vessel's ts is not before its position, and
\* before they are read there are none.
Warming ==
  /\ warm = "query positions" => posRows = Nothing
  /\ warm \in {"query positions", "query statics", "apply positions"} =>
       \A m \in Mmsi : vessels[m] # Absent /\ vessels[m].pos # 0
                         => published[vessels[m].pos].at <= vessels[m].ts

\* A vessel's ts is when it was heard or stored, and never before it was heard.
Stamps ==
  \A m \in Mmsi :
    /\ heard[m] <= now
    /\ now - heard[m] < Ttl => vessels[m] # Absent /\ heard[m] <= vessels[m].ts
    /\ vessels[m] # Absent =>
         /\ vessels[m].ts <= now
         /\ \/ vessels[m].ts <= heard[m]
            \/ posRows[m] # 0 /\ vessels[m].ts <= published[posRows[m]].at

\* What has been consumed of the positions since the start, and is recent.
Consumed ==
  \A m \in Mmsi, i \in since..next - 1 :
    IsPosition(i, m) /\ now - published[i].at < Ttl =>
      vessels[m] # Absent /\ published[i].at <= vessels[m].ts /\ i <= vessels[m].pos

\* The newest snapshot, at the time it was taken.
Shown ==
  snapshots # <<>> =>
    \A m \in snapshots[Len(snapshots)].of :
      \/ slept - heard[m] < Ttl
      \/ posRows[m] # 0 /\ slept - published[posRows[m]].at < Ttl

SInv ==
  Typed /\ Timeline /\ Sources /\ Warming /\ Stamps /\ Consumed /\ Shown
-----------------------------------------------------------------------------
(* Helpers. *)

\* A set of naturals has a least element: the sets 1..n for n in T have a
\* minimal one under inclusion.
LEMMA LeastElement ==
  ASSUME NEW T \in SUBSET Nat, T # {}
  PROVE  \E m \in T : \A k \in T : m <= k
  <1> DEFINE Initials == {1..n : n \in T}
  <1>1. IsWellFoundedOn(StrictSubsetOrdering(Nat), FiniteSubsetsOf(Nat))
    BY FS_StrictSubsetOrderingWellFounded
  <1>2. Initials \subseteq FiniteSubsetsOf(Nat)
    <2> SUFFICES ASSUME NEW n \in T PROVE 1..n \in FiniteSubsetsOf(Nat)
      OBVIOUS
    <2>1. IsFiniteSet(1..n) /\ 1..n \in SUBSET Nat
      BY FS_Interval
    <2> QED BY <2>1 DEF FiniteSubsetsOf
  <1>3. Initials # {}
    OBVIOUS
  <1> HIDE DEF Initials
  <1>4. PICK x \in Initials :
          \A y \in Initials : ~ (<<y, x>> \in StrictSubsetOrdering(Nat))
    BY <1>1, <1>2, <1>3, WFMin, Zenon
  <1>5. PICK m \in T : x = 1..m
    BY DEF Initials
  <1>6. SUFFICES ASSUME NEW k \in T, ~(m <= k) PROVE FALSE
    OBVIOUS
  <1>7. 1..k \subseteq 1..m /\ 1..k # 1..m /\ 1..k \in Initials
    <2>1. 1..k \subseteq 1..m
      BY <1>6
    <2>2. m \in 1..m /\ m \notin 1..k
      BY <1>6
    <2> QED BY <2>1, <2>2 DEF Initials
  <1>8. <<1..k, 1..m>> \in StrictSubsetOrdering(Nat)
    BY <1>7 DEF StrictSubsetOrdering
  <1> QED BY <1>4, <1>5, <1>7, <1>8

\* The newest of a set of message numbers is one of them, unless there are none.
LEMMA NewestFacts ==
  ASSUME NEW n \in Nat, NEW S \in SUBSET (1..n)
  PROVE  /\ Newest(S) \in Nat /\ Newest(S) \in S \cup {0}
         /\ \A x \in S : x <= Newest(S)
  <1> DEFINE T == S \cup {0}
             U == {n - x : x \in T}
  <1>1. U \subseteq Nat /\ U # {} /\ T \subseteq Nat
    OBVIOUS
  <1>2. PICK u \in U : \A v \in U : u <= v
    <2> HIDE DEF U
    <2> QED BY <1>1, LeastElement
  <1>3. PICK x \in T : u = n - x
    BY <1>2
  <1>4. \A y \in T : x >= y
    <2> SUFFICES ASSUME NEW y \in T PROVE x >= y
      OBVIOUS
    <2>1. n - y \in U
      OBVIOUS
    <2>2. n - x <= n - y
      BY <1>2, <1>3, <2>1
    <2>3. x \in Nat /\ y \in Nat
      BY <1>1
    <2> HIDE DEF T
    <2> QED BY <2>2, <2>3
  <1>5. Newest(S) \in T /\ \A y \in T : Newest(S) >= y
    <2> HIDE DEF T
    <2>1. Newest(S) = CHOOSE z \in T : \A y \in T : z >= y
      BY DEF Newest, Max, T
    <2> QED BY <1>4, <2>1
  <1> QED BY <1>1, <1>5

LEMMA AbsentIsNoVessel ==
  Absent \notin Vessel /\ Default \in Vessel
  <1>1. Absent.ts = -1 /\ \A v \in Vessel : v.ts \in Nat
    BY DEF Absent, Vessel
  <1> QED BY <1>1 DEF Default, Vessel

\* A vessel of the map, or a new one.
LEMMA OrDefaultFacts ==
  ASSUME Typed, NEW m \in Mmsi
  PROVE  /\ OrDefault(m) \in Vessel
         /\ vessels[m] # Absent => OrDefault(m) = vessels[m] /\ vessels[m] \in Vessel
         /\ vessels[m] = Absent => OrDefault(m) = Default
  BY AbsentIsNoVessel DEF Typed, OrDefault

LEMMA MessageTyped ==
  ASSUME Typed, NEW i \in 1..Len(published)
  PROVE  /\ published[i].m \in Mmsi /\ published[i].name \in Nat
         /\ published[i].at \in Nat /\ published[i].kind \in {"position", "static"}
  <1>1. published[i] \in Message
    BY ElementOfSeq DEF Typed
  <1> QED BY <1>1 DEF Message

\* What consuming message i makes of a vessel.
LEMMA UpdatedFacts ==
  ASSUME Typed, NEW i \in 1..Len(published), NEW v \in Vessel
  PROVE  /\ Updated(v, i) \in Vessel /\ Updated(v, i).ts = now
         /\ Updated(v, i).pos = IF published[i].kind = "position" THEN i ELSE v.pos
  <1>1. now \in Nat /\ i \in Nat /\ published[i].name \in Nat
    BY MessageTyped DEF Typed
  <1> QED BY <1>1 DEF Updated, Vessel

\* What a row makes of a vessel: it is kept if its ts is not older.
LEMMA WarmPositionFacts ==
  ASSUME Typed, Sources, NEW m \in Mmsi, posRows[m] # 0
  PROVE  /\ WarmPosition(m) \in Vessel
         /\ posRows[m] \in 1..Len(published) /\ published[posRows[m]].at \in Nat
         /\ IF OrDefault(m).ts >= published[posRows[m]].at
              THEN WarmPosition(m) = OrDefault(m)
              ELSE /\ WarmPosition(m).pos = posRows[m]
                   /\ WarmPosition(m).ts = published[posRows[m]].at
                   /\ WarmPosition(m).name = OrDefault(m).name
  <1>1. posRows[m] \in 1..Len(published) /\ posRows[m] \in Nat
    BY DEF Sources, IsPosition, Typed
  <1>2. published[posRows[m]].at \in Nat
    BY <1>1, MessageTyped
  <1>3. OrDefault(m) \in Vessel
    BY OrDefaultFacts
  <1> QED BY <1>1, <1>2, <1>3 DEF WarmPosition, Vessel

LEMMA WarmStaticFacts ==
  ASSUME Typed, NEW m \in Mmsi
  PROVE  /\ WarmStatic(m) \in {Absent} \cup Vessel
         /\ WarmStatic(m) = Absent <=> vessels[m] = Absent
         /\ vessels[m] # Absent =>
              /\ WarmStatic(m).pos = vessels[m].pos /\ WarmStatic(m).ts = vessels[m].ts
              /\ vessels[m].name # 0 => WarmStatic(m).name = vessels[m].name
  <1>1. vessels[m] \in {Absent} \cup Vessel /\ staticRows[m] \in Nat
    BY DEF Typed
  <1>2. CASE vessels[m] = Absent
    BY <1>2 DEF WarmStatic
  <1>3. CASE vessels[m] # Absent
    <2>1. vessels[m] \in Vessel
      BY <1>1, <1>3
    <2>2. CASE vessels[m].name = 0
      <3>1. WarmStatic(m) = [vessels[m] EXCEPT !.name = staticRows[m]]
        BY <1>3, <2>2 DEF WarmStatic
      <3>2. WarmStatic(m) \in Vessel
        BY <1>1, <2>1, <3>1 DEF Vessel
      <3>3. WarmStatic(m).pos = vessels[m].pos /\ WarmStatic(m).ts = vessels[m].ts
        BY <2>1, <3>1 DEF Vessel
      <3> QED BY <1>3, <2>2, <3>2, <3>3, AbsentIsNoVessel
    <2>3. CASE vessels[m].name # 0
      BY <1>3, <2>1, <2>3 DEF WarmStatic
    <2> QED BY <2>2, <2>3
  <1> QED BY <1>2, <1>3

\* The stream only grows.
LEMMA StreamGrows ==
  ASSUME Typed, [Next]_vars
  PROVE  \/ published' = published
         \/ /\ Publish
            /\ \E msg \in Message : msg.at = now /\ published' = Append(published, msg)
  <1>1. ASSUME Publish
        PROVE  \E msg \in Message : msg.at = now /\ published' = Append(published, msg)
    <2>1. PICK m \in Mmsi, kind \in {"position", "static"} :
            \E name \in IF kind = "static" THEN {Len(published) + 1}
                          ELSE {0, Newest(Of(m, "static", Len(published)))} :
              published' = Append(published, [m |-> m, kind |-> kind,
                                              name |-> name, at |-> now])
      BY <1>1 DEF Publish
    <2>2. PICK name \in IF kind = "static" THEN {Len(published) + 1}
                          ELSE {0, Newest(Of(m, "static", Len(published)))} :
            published' = Append(published, [m |-> m, kind |-> kind,
                                            name |-> name, at |-> now])
      BY <2>1
    <2>3. Len(published) \in Nat /\ now \in Nat
      BY DEF Typed
    <2>4. Newest(Of(m, "static", Len(published))) \in Nat
      <3>1. Of(m, "static", Len(published)) \in SUBSET (1..Len(published))
        BY DEF Of
      <3> QED BY <2>3, <3>1, NewestFacts
    <2>5. name \in Nat
      BY <2>2, <2>3, <2>4
    <2>6. [m |-> m, kind |-> kind, name |-> name, at |-> now] \in Message
      BY <2>3, <2>5 DEF Message
    <2> QED BY <2>2, <2>6
  <1> QED BY <1>1
          DEF Next, Store, Restart, Tick, Consume, QueryPositions, QueryStatics,
              ApplyPositions, ApplyStatics, TakeSnapshot, vars, stream

LEMMA PrefixKept ==
  ASSUME Typed, [Next]_vars
  PROVE  /\ Len(published) \in Nat /\ Len(published') \in Nat
         /\ Len(published') >= Len(published)
         /\ published' \in Seq(Message)
         /\ \A i \in 1..Len(published) : published'[i] = published[i]
         /\ \A i \in Len(published) + 1..Len(published') : published'[i].at = now
  <1>1. published \in Seq(Message) /\ Len(published) \in Nat
    BY DEF Typed
  <1>2. CASE published' = published
    BY <1>1, <1>2
  <1>3. CASE \E msg \in Message : msg.at = now /\ published' = Append(published, msg)
    <2>1. PICK msg \in Message : msg.at = now /\ published' = Append(published, msg)
      BY <1>3
    <2>2. /\ published' \in Seq(Message) /\ Len(published') = Len(published) + 1
          /\ \A i \in 1..Len(published) : published'[i] = published[i]
          /\ published'[Len(published) + 1] = msg
      BY <1>1, <2>1, AppendProperties
    <2> QED BY <1>1, <2>1, <2>2
  <1> QED BY <1>2, <1>3, StreamGrows
\* A message that was there before the step still is, and is the same.
LEMMA PositionsKept ==
  ASSUME Typed, [Next]_vars, NEW i \in 1..Len(published), NEW m \in Mmsi
  PROVE  /\ i \in 1..Len(published') /\ published'[i] = published[i]
         /\ IsPosition(i, m)' <=> IsPosition(i, m)
  <1>1. i \in 1..Len(published') /\ published'[i] = published[i]
    BY PrefixKept
  <1> QED BY <1>1 DEF IsPosition

LEMMA LastShotTyped ==
  ASSUME Typed, snapshots # <<>>
  PROVE  snapshots[Len(snapshots)].of \subseteq Mmsi
  <1>1. snapshots \in Seq(Shot) /\ Len(snapshots) \in 1..Len(snapshots)
    BY LenProperties, EmptySeq DEF Typed
  <1>2. snapshots[Len(snapshots)] \in Shot
    BY <1>1, ElementOfSeq
  <1> QED BY <1>2 DEF Shot

\* The ring ends with the snapshot just taken.
LEMMA SnapshotsAfter ==
  ASSUME Typed, TakeSnapshot
  PROVE  /\ snapshots' \in Seq(Shot) /\ snapshots' # <<>>
         /\ \A m \in snapshots'[Len(snapshots')].of : m \in Mmsi /\ vessels'[m] # Absent
  <1> DEFINE shot == [at |-> now, of |-> {m \in Mmsi : Retained[m] # Absent}]
             all == Append(snapshots, shot)
  <1>1. shot \in Shot /\ \A m \in shot.of : m \in Mmsi /\ vessels'[m] # Absent
    BY DEF Typed, Shot, TakeSnapshot
  <1>2. snapshots' = IF Len(all) > Ring THEN Tail(all) ELSE all
    BY DEF TakeSnapshot
  <1> HIDE DEF shot
  <1>3. /\ all \in Seq(Shot) /\ Len(snapshots) \in Nat /\ Len(all) = Len(snapshots) + 1
        /\ all[Len(all)] = shot
    BY <1>1, AppendProperties DEF Typed
  <1>4. all # <<>> /\ Len(all) \in Nat \ {0}
    BY <1>3
  <1> HIDE DEF all
  <1>5. CASE Len(all) > Ring
    <2>1. Ring \in Nat \ {0}
      BY TimesAssumption
    <2>2. /\ Tail(all) \in Seq(Shot) /\ Len(Tail(all)) = Len(all) - 1
          /\ \A i \in 1..Len(Tail(all)) : Tail(all)[i] = all[i + 1]
      BY <1>3, <1>4, HeadTailProperties
    <2>3. Len(Tail(all)) \in 1..Len(Tail(all)) /\ Len(Tail(all)) + 1 = Len(all)
      BY <2>1, <2>2, <1>4, <1>5
    <2>4. Tail(all)[Len(Tail(all))] = shot /\ Tail(all) # <<>>
      <3>1. Tail(all)[Len(Tail(all))] = all[Len(Tail(all)) + 1]
        BY <2>2, <2>3
      <3>2. Len(<<>>) = 0 /\ Len(Tail(all)) # 0
        BY <2>3
      <3> QED BY <3>1, <3>2, <2>3, <1>3
    <2>5. snapshots' = Tail(all)
      BY <1>2, <1>5
    <2> QED BY <2>2, <2>4, <2>5, <1>1
  <1>6. CASE ~ (Len(all) > Ring)
    BY <1>1, <1>2, <1>3, <1>4, <1>6
  <1> QED BY <1>5, <1>6

-----------------------------------------------------------------------------
(***************************************************************************)
(* The invariant is inductive.                                             *)
(***************************************************************************)
LEMMA InitSInv == Init => SInv
  <1> SUFFICES ASSUME Init PROVE SInv
    OBVIOUS
  <1>1. /\ <<>> \in Seq(Message) /\ <<>> \in Seq(Shot) /\ Len(<<>>) = 0
        /\ Ttl \in Nat \ {0} /\ Interval \in Nat \ {0}
    BY TimesAssumption
  <1>2. Typed
    <2>1. Nothing \in [Mmsi -> Nat] /\ [m \in Mmsi |-> -Ttl] \in [Mmsi -> Int]
      BY <1>1 DEF Nothing
    <2>2. 0 \in 0..0 /\ 1 \in 1..0 + 1 /\ 1 \in 1..1 /\ 1 <= 1 + Interval
      BY <1>1
    <2>3. published \in Seq(Message) /\ snapshots \in Seq(Shot) /\ Len(published) = 0
      BY <1>1 DEF Init
    <2>4. stored = 0 /\ next = 1 /\ since = 1 /\ slept = 1 /\ started = 1 /\ now = 1
          /\ restarts = 0
      BY DEF Init
    <2>5. vessels \in [Mmsi -> {Absent} \cup Vessel]
      BY DEF Init
    <2>6. posRows \in [Mmsi -> Nat] /\ staticRows \in [Mmsi -> Nat]
          /\ heard \in [Mmsi -> Int]
      BY <2>1 DEF Init
    <2> QED BY <2>2, <2>3, <2>4, <2>5, <2>6 DEF Typed
  <1>e. /\ Len(published) = 0 /\ now = 1 /\ since = 1 /\ next = 1 /\ posRows = Nothing
        /\ snapshots = <<>>
        /\ \A m \in Mmsi : vessels[m] = Absent /\ heard[m] = -Ttl
    BY <1>1 DEF Init
  <1>3. Timeline /\ Warming
    <2>1. \A i \in 1..Len(published) : FALSE
      BY <1>e
    <2> QED BY <1>e, <2>1 DEF Timeline, Warming
  <1>4. Sources
    BY DEF Init, Sources, Nothing
  <1>5. Stamps
    <2>1. -Ttl <= 1 /\ ~(1 - (-Ttl) < Ttl)
      BY <1>1
    <2> QED BY <1>e, <2>1 DEF Stamps
  <1>6. Consumed /\ Shown
    <2>1. \A i \in since..next - 1 : FALSE
      BY <1>e
    <2> QED BY <1>e, <2>1 DEF Consumed, Shown
  <1> QED BY <1>2, <1>3, <1>4, <1>5, <1>6 DEF SInv

LEMMA PublishKeeps == SInv /\ Publish => SInv'
  <1> SUFFICES ASSUME SInv, Publish PROVE SInv'
    OBVIOUS
  <1>u. UNCHANGED <<stored, next, since, vessels, snapshots, slept, warm, posRows,
                    staticRows, started, heard, now, restarts>>
    BY DEF Publish, warming
  <1>p. /\ Len(published) \in Nat /\ Len(published') \in Nat
        /\ Len(published') >= Len(published) /\ published' \in Seq(Message)
        /\ \A i \in 1..Len(published) : published'[i] = published[i]
        /\ \A i \in Len(published) + 1..Len(published') : published'[i].at = now
    BY PrefixKept DEF SInv, Next
  <1>k. \A i \in 1..Len(published), m \in Mmsi :
          published'[i] = published[i] /\ (IsPosition(i, m)' <=> IsPosition(i, m))
    BY PositionsKept DEF SInv, Next
  <1>t. \A i \in 1..Len(published) : published[i].at \in Nat
    BY MessageTyped DEF SInv
  <1>1. Typed'
    BY <1>u, <1>p DEF SInv, Typed
  <1>2. Timeline'
    <2>0. now \in Nat /\ 1 <= now
      BY DEF SInv, Typed
    <2>1. ASSUME NEW i \in 1..Len(published')
          PROVE  1 <= published'[i].at /\ published'[i].at <= now
      <3>1. CASE i \in 1..Len(published)
        BY <3>1, <1>p DEF SInv, Timeline
      <3>2. CASE i \notin 1..Len(published)
        BY <3>2, <2>0, <1>p
      <3> QED BY <3>1, <3>2
    <2>2. ASSUME NEW i \in 1..Len(published'), NEW j \in 1..Len(published'), i <= j
          PROVE  published'[i].at <= published'[j].at
      <3>1. CASE j \in 1..Len(published)
        <4>1. i \in 1..Len(published)
          BY <3>1, <2>2, <1>p
        <4> QED BY <3>1, <4>1, <2>2, <1>p DEF SInv, Timeline
      <3>2. CASE j \notin 1..Len(published)
        <4>1. published'[j].at = now
          BY <3>2, <1>p
        <4> QED BY <4>1, <2>1
      <3> QED BY <3>1, <3>2
    <2> QED BY <2>1, <2>2, <1>u DEF Timeline
  <1>3. Sources'
    <2>1. ASSUME NEW m \in Mmsi, posRows[m] # 0
          PROVE  IsPosition(posRows[m], m)'
      <3>1. IsPosition(posRows[m], m) /\ posRows[m] \in 1..Len(published)
        BY <2>1 DEF SInv, Sources, IsPosition
      <3> QED BY <3>1, <1>k, <1>u, <1>p DEF IsPosition
    <2>2. ASSUME NEW m \in Mmsi, vessels[m] # Absent, vessels[m].pos # 0
          PROVE  IsPosition(vessels[m].pos, m)'
      <3>1. IsPosition(vessels[m].pos, m) /\ vessels[m].pos \in 1..Len(published)
        BY <2>2 DEF SInv, Sources, IsPosition
      <3> QED BY <3>1, <1>k, <1>u, <1>p DEF IsPosition
    <2> QED BY <2>1, <2>2, <1>u DEF Sources
  <1>4. Warming'
    <2>1. \A m \in Mmsi : vessels[m] # Absent /\ vessels[m].pos # 0
            => published'[vessels[m].pos] = published[vessels[m].pos]
      BY <1>p DEF SInv, Sources, IsPosition
    <2> QED BY <2>1, <1>u DEF SInv, Warming
  <1>5. \A m \in Mmsi : posRows[m] # 0 => published'[posRows[m]] = published[posRows[m]]
    BY <1>p DEF SInv, Sources, IsPosition
  <1>6. Stamps' /\ Shown'
    <2>1. Stamps'
      BY <1>5, <1>u DEF SInv, Stamps
    <2>2. ASSUME snapshots # <<>>, NEW m \in snapshots[Len(snapshots)].of
          PROVE  \/ slept - heard[m] < Ttl
                 \/ posRows[m] # 0 /\ slept - published'[posRows[m]].at < Ttl
      <3>1. m \in Mmsi
        BY <2>2, LastShotTyped DEF SInv
      <3> QED BY <1>5, <2>2, <3>1 DEF SInv, Shown
    <2> QED BY <2>1, <2>2, <1>u DEF Shown
  <1>7. Consumed'
    <2>1. \A i \in since..next - 1 : i \in 1..Len(published)
      BY <1>p DEF SInv, Typed
    <2> QED BY <2>1, <1>k, <1>u DEF SInv, Consumed
  <1> QED BY <1>1, <1>2, <1>3, <1>4, <1>6, <1>7 DEF SInv

LEMMA OthersKeep == SInv /\ (Store \/ QueryStatics \/ UNCHANGED vars) => SInv'
  <1> SUFFICES ASSUME SInv, Store \/ QueryStatics \/ UNCHANGED vars PROVE SInv'
    OBVIOUS
  <1>u. UNCHANGED <<published, next, since, vessels, snapshots, slept, posRows,
                    started, heard, now, restarts>>
    BY DEF Store, QueryStatics, vars, stream, warming
  <1>p. Len(published) \in Nat
    BY DEF SInv, Typed
  <1>1. Typed'
    <2>1. stored' \in 0..Len(published)
      <3>1. stored \in 0..Len(published)
        BY DEF SInv, Typed
      <3>2. stored' = stored \/ \E n \in (stored + 1)..Len(published) : stored' = n
        BY DEF Store, QueryStatics, vars, stream
      <3> QED BY <1>p, <3>1, <3>2
    <2>2. staticRows' \in [Mmsi -> Nat]
      <3>1. \A m \in Mmsi : Newest(Of(m, "static", stored)) \in Nat
        <4>1. stored \in Nat
          BY <1>p DEF SInv, Typed
        <4>2. \A m \in Mmsi : Of(m, "static", stored) \in SUBSET (1..stored)
          BY DEF Of
        <4> QED BY <4>1, <4>2, NewestFacts
      <3>2. Nothing \in [Mmsi -> Nat] /\ staticRows \in [Mmsi -> Nat]
        BY DEF Nothing, SInv, Typed
      <3>3. [m \in Mmsi |-> Newest(Of(m, "static", stored))] \in [Mmsi -> Nat]
        BY <3>1
      <3> QED BY <3>2, <3>3 DEF Store, QueryStatics, vars, warming
    <2> QED BY <2>1, <2>2, <1>u DEF SInv, Typed
  <1>2. Warming'
    <2>1. warm' = warm \/ (warm = "query statics" /\ warm' = "apply positions")
      BY DEF Store, QueryStatics, vars, warming
    <2> QED BY <2>1, <1>u DEF SInv, Warming
  <1>3. Timeline' /\ Sources' /\ Stamps' /\ Consumed' /\ Shown'
    BY <1>u DEF SInv, Timeline, Sources, Stamps, Consumed, Shown, IsPosition
  <1> QED BY <1>1, <1>2, <1>3 DEF SInv

LEMMA RestartKeeps == SInv /\ Restart => SInv'
  <1> SUFFICES ASSUME SInv, Restart PROVE SInv'
    OBVIOUS
  <1>u. /\ UNCHANGED <<published, stored, now>>
        /\ vessels' = [m \in Mmsi |-> Absent] /\ snapshots' = <<>>
        /\ slept' = now /\ warm' = "query positions" /\ posRows' = Nothing
        /\ staticRows' = Nothing /\ started' = now
        /\ next' = Len(published) + 1 /\ since' = next'
        /\ heard' = [m \in Mmsi |-> -Ttl] /\ restarts' = restarts + 1
    BY DEF Restart, Start, stream
  <1>t. /\ Len(published) \in Nat /\ now \in Nat /\ restarts \in Nat
        /\ Ttl \in Nat \ {0} /\ Interval \in Nat \ {0} /\ <<>> \in Seq(Shot)
    BY TimesAssumption DEF SInv, Typed
  <1>1. Typed'
    <2>1. Nothing \in [Mmsi -> Nat] /\ [m \in Mmsi |-> -Ttl] \in [Mmsi -> Int]
      BY <1>t DEF Nothing
    <2>2. next' \in 1..Len(published') + 1 /\ since' \in 1..next'
      <3>1. next' = Len(published) + 1 /\ since' = Len(published) + 1
            /\ published' = published
        BY <1>u
      <3> QED BY <3>1, <1>t
    <2>3. vessels' \in [Mmsi -> {Absent} \cup Vessel] /\ snapshots' \in Seq(Shot)
      BY <1>u, <1>t
    <2>4. published' \in Seq(Message) /\ stored' \in 0..Len(published')
      BY <1>u DEF SInv, Typed
    <2>5. /\ slept' \in Nat /\ started' \in Nat /\ now' \in Nat /\ restarts' \in Nat
          /\ 1 <= now' /\ slept' <= now' /\ now' <= slept' + Interval
      <3>1. 1 <= now
        BY DEF SInv, Typed
      <3>2. /\ slept' = now /\ started' = now /\ now' = now
            /\ restarts' = restarts + 1
        BY <1>u
      <3> QED BY <3>1, <3>2, <1>t
    <2>6. /\ posRows' \in [Mmsi -> Nat] /\ staticRows' \in [Mmsi -> Nat]
          /\ heard' \in [Mmsi -> Int]
      BY <2>1, <1>u
    <2> QED BY <2>2, <2>3, <2>4, <2>5, <2>6 DEF Typed
  <1>2. Timeline' /\ Warming' /\ Sources'
    BY <1>u DEF SInv, Timeline, Warming, Sources, Nothing
  <1>3. Stamps'
    <2>1. -Ttl <= now /\ ~(now - (-Ttl) < Ttl)
      BY <1>t
    <2>2. \A m \in Mmsi : vessels'[m] = Absent /\ heard'[m] = -Ttl
      BY <1>u
    <2> QED BY <2>1, <2>2, <1>u DEF Stamps
  <1>4. Consumed' /\ Shown'
    <2>1. next' = Len(published) + 1 /\ since' = Len(published) + 1
      BY <1>u
    <2>2. \A i \in since'..next' - 1 : FALSE
      BY <2>1, <1>t
    <2> QED BY <2>2, <1>u DEF Consumed, Shown
  <1> QED BY <1>1, <1>2, <1>3, <1>4 DEF SInv

LEMMA TickKeeps == SInv /\ Tick => SInv'
  <1> SUFFICES ASSUME SInv, Tick PROVE SInv'
    OBVIOUS
  <1>u. /\ UNCHANGED <<published, stored, next, since, vessels, snapshots, slept,
                       warm, posRows, staticRows, started, heard, restarts>>
        /\ now' = now + 1 /\ now < slept + Interval
    BY DEF Tick, stream, warming
  <1>t. /\ now \in Nat /\ slept \in Nat /\ Interval \in Nat /\ Ttl \in Nat
        /\ \A i \in 1..Len(published) : published[i].at \in Nat
        /\ \A m \in Mmsi : heard[m] \in Int
    BY TimesAssumption, MessageTyped DEF SInv, Typed
  <1>1. Typed'
    BY <1>u, <1>t DEF SInv, Typed
  <1>2. Timeline'
    <2>1. \A i \in 1..Len(published) : published[i].at <= now + 1
      BY <1>t DEF SInv, Timeline
    <2> QED BY <2>1, <1>u DEF SInv, Timeline
  <1>3. Sources' /\ Warming' /\ Shown'
    BY <1>u DEF SInv, Sources, Warming, Shown, IsPosition
  <1>4. Stamps'
    <2>1. ASSUME NEW m \in Mmsi
          PROVE  /\ heard[m] <= now + 1
                 /\ now + 1 - heard[m] < Ttl
                      => vessels[m] # Absent /\ heard[m] <= vessels[m].ts
                 /\ vessels[m] # Absent => vessels[m].ts <= now + 1
      <3>1. vessels[m] # Absent => vessels[m].ts \in Nat
        BY OrDefaultFacts DEF SInv, Vessel
      <3>2. now + 1 - heard[m] < Ttl => now - heard[m] < Ttl
        BY <1>t
      <3> QED BY <3>1, <3>2, <1>t DEF SInv, Stamps
    <2>2. \A m \in Mmsi : vessels[m] # Absent =>
            \/ vessels[m].ts <= heard[m]
            \/ posRows[m] # 0 /\ vessels[m].ts <= published[posRows[m]].at
      BY DEF SInv, Stamps
    <2>3. now' = now + 1
      BY <1>u
    <2>4. /\ published' = published /\ vessels' = vessels /\ heard' = heard
          /\ posRows' = posRows
      BY <1>u
    <2> QED BY <2>1, <2>2, <2>3, <2>4, <1>t DEF Stamps
  <1>5. Consumed'
    <2>1. \A i \in 1..Len(published) :
            now + 1 - published[i].at < Ttl => now - published[i].at < Ttl
      BY <1>t
    <2>2. ASSUME NEW m \in Mmsi, NEW i \in since..next - 1, IsPosition(i, m),
                 now + 1 - published[i].at < Ttl
          PROVE  /\ vessels[m] # Absent /\ published[i].at <= vessels[m].ts
                 /\ i <= vessels[m].pos
      <3>1. i \in 1..Len(published)
        BY <2>2 DEF IsPosition
      <3> QED BY <2>1, <2>2, <3>1 DEF SInv, Consumed
    <2>3. \A m \in Mmsi, i \in Nat : IsPosition(i, m)' <=> IsPosition(i, m)
      BY <1>u DEF IsPosition
    <2>4. /\ published' = published /\ vessels' = vessels /\ now' = now + 1
          /\ since' = since /\ next' = next
      BY <1>u
    <2>5. \A i \in since..next - 1 : i \in Nat
      BY DEF SInv, Typed
    <2>6. \A m \in Mmsi, i \in since..next - 1 :
            IsPosition(i, m) => published[i].at \in Nat
      BY <1>t DEF IsPosition
    <2>7. ASSUME NEW m \in Mmsi, NEW i \in (since..next - 1)', IsPosition(i, m)',
                 (now - published[i].at < Ttl)'
          PROVE  (vessels[m] # Absent /\ published[i].at <= vessels[m].ts
                   /\ i <= vessels[m].pos)'
      <3>1. i \in since..next - 1 /\ IsPosition(i, m) /\ published[i].at \in Nat
        BY <2>3, <2>4, <2>5, <2>6, <2>7
      <3>2. now + 1 - published[i].at < Ttl
        BY <2>4, <2>7, <3>1, <1>t
      <3> QED BY <2>2, <2>4, <3>1, <3>2
    <2> QED BY <2>7 DEF Consumed
  <1> QED BY <1>1, <1>2, <1>3, <1>4, <1>5 DEF SInv
LEMMA ConsumeKeeps == SInv /\ Consume => SInv'
  <1> SUFFICES ASSUME SInv, Consume PROVE SInv'
    OBVIOUS
  <1> DEFINE c == published[next].m
  <1>u. UNCHANGED <<published, stored, since, snapshots, slept, warm, posRows,
                    staticRows, started, now, restarts>>
    BY DEF Consume, stream, warming
  <1>n. next \in 1..Len(published) /\ Len(published) \in Nat /\ next' = next + 1
    BY DEF Consume, SInv, Typed
  <1>c. c \in Mmsi /\ published[next].at \in Nat
    BY <1>n, MessageTyped DEF SInv
  <1>s. /\ vessels' = [vessels EXCEPT ![c] = Updated(OrDefault(c), next)]
        /\ heard' = [heard EXCEPT ![c] = now]
    BY DEF Consume
  <1> HIDE DEF c
  <1>d. OrDefault(c) \in Vessel
    BY <1>c, OrDefaultFacts DEF SInv
  <1>v. /\ vessels'[c] \in Vessel /\ vessels'[c].ts = now
        /\ vessels'[c].pos = IF published[next].kind = "position" THEN next
                                                      ELSE OrDefault(c).pos
        /\ heard'[c] = now
    <2>1. vessels'[c] = Updated(OrDefault(c), next) /\ heard'[c] = now
      BY <1>c, <1>s DEF SInv, Typed
    <2> QED BY <2>1, <1>d, <1>n, UpdatedFacts DEF SInv
  <1>o. \A m \in Mmsi \ {c} : vessels'[m] = vessels[m] /\ heard'[m] = heard[m]
    BY <1>s DEF SInv, Typed
  <1>a. vessels'[c] # Absent
    BY <1>v, AbsentIsNoVessel
  <1>t. now \in Nat /\ Ttl \in Nat \ {0} /\ \A m \in Mmsi : heard[m] \in Int
    BY TimesAssumption DEF SInv, Typed
  <1>1. Typed'
    <2>1. vessels' \in [Mmsi -> {Absent} \cup Vessel]
      <3>1. \A m \in Mmsi : vessels'[m] \in {Absent} \cup Vessel
        BY <1>v, <1>o DEF SInv, Typed
      <3> QED BY <3>1, <1>s DEF SInv, Typed
    <2>2. heard' \in [Mmsi -> Int]
      <3>1. heard \in [Mmsi -> Int] /\ now \in Int
        BY DEF SInv, Typed
      <3> QED BY <3>1, <1>s
    <2>3. next' \in 1..Len(published) + 1 /\ since \in 1..next'
      BY <1>n DEF SInv, Typed
    <2> QED BY <2>1, <2>2, <2>3, <1>u DEF SInv, Typed
  <1>2. Timeline'
    BY <1>u DEF SInv, Timeline
  <1>p. \A m \in Mmsi, i \in Nat : IsPosition(i, m)' <=> IsPosition(i, m)
    BY <1>u DEF IsPosition
  \* The position of the vessel the message is about.
  <1>q. vessels'[c].pos # 0 =>
          /\ IsPosition(vessels'[c].pos, c)
          /\ published[vessels'[c].pos].at <= now
    <2>1. CASE published[next].kind = "position"
      BY <2>1, <1>n, <1>v, <1>u DEF c, IsPosition, SInv, Timeline
    <2>2. CASE published[next].kind # "position"
      <3>1. vessels'[c].pos = OrDefault(c).pos
        BY <2>2, <1>v
      <3>2. CASE vessels[c] = Absent
        BY <3>1, <3>2, <1>c, OrDefaultFacts DEF SInv, Default
      <3>3. CASE vessels[c] # Absent
        <4>1. vessels'[c].pos = vessels[c].pos
          BY <3>1, <3>3, <1>c, OrDefaultFacts DEF SInv
        <4>2. vessels[c].pos # 0 =>
                IsPosition(vessels[c].pos, c) /\ vessels[c].pos \in 1..Len(published)
          BY <3>3, <1>c DEF SInv, Sources, IsPosition
        <4> QED BY <4>1, <4>2 DEF SInv, Timeline
      <3> QED BY <3>2, <3>3
    <2> QED BY <2>1, <2>2
  <1>3. Sources'
    <2>1. ASSUME NEW m \in Mmsi, posRows[m] # 0 PROVE IsPosition(posRows[m], m)'
      <3>1. IsPosition(posRows[m], m)
        BY <2>1 DEF SInv, Sources
      <3> QED BY <3>1, <1>u DEF IsPosition
    <2>2. ASSUME NEW m \in Mmsi, vessels'[m] # Absent, vessels'[m].pos # 0
          PROVE  IsPosition(vessels[m].pos, m)'
      <3>1. IsPosition(vessels'[m].pos, m)
        BY <2>2, <1>q, <1>o DEF SInv, Sources
      <3> QED BY <3>1, <1>u DEF IsPosition
    <2> QED BY <2>1, <2>2, <1>u DEF Sources
  <1>4. Warming'
    <2>1. \A m \in Mmsi : vessels'[m] # Absent /\ vessels'[m].pos # 0 /\ m = c
            => published[vessels'[m].pos].at <= vessels'[m].ts
      BY <1>q, <1>v
    <2> QED BY <2>1, <1>o, <1>u DEF SInv, Warming
  <1>5. Stamps'
    <2>1. ASSUME NEW m \in Mmsi, m # c
          PROVE  /\ heard'[m] <= now
                 /\ now - heard'[m] < Ttl
                      => vessels'[m] # Absent /\ heard'[m] <= vessels'[m].ts
                 /\ vessels'[m] # Absent =>
                      /\ vessels'[m].ts <= now
                      /\ \/ vessels'[m].ts <= heard'[m]
                         \/ posRows[m] # 0 /\ vessels'[m].ts <= published[posRows[m]].at
      BY <2>1, <1>o DEF SInv, Stamps
    <2>2. heard'[c] = now /\ vessels'[c] # Absent /\ vessels'[c].ts = now /\ now <= now
      BY <1>v, <1>a, <1>t
    <2> QED BY <2>1, <2>2, <1>u DEF Stamps
  <1>6. Consumed'
    <2>1. ASSUME NEW m \in Mmsi, NEW i \in since..next, IsPosition(i, m),
                 now - published[i].at < Ttl
          PROVE  /\ vessels'[m] # Absent /\ published[i].at <= vessels'[m].ts
                 /\ i <= vessels'[m].pos
      <3>0. i \in 1..Len(published) /\ i \in Nat
        BY <2>1 DEF IsPosition
      <3>1. CASE i = next
        <4>1. m = c /\ published[next].kind = "position"
          BY <2>1, <3>1 DEF IsPosition, c
        <4>2. vessels'[c].pos = next /\ vessels'[c].ts = now
          BY <4>1, <1>v
        <4>3. published[i].at <= now
          BY <3>0 DEF SInv, Timeline
        <4> QED BY <4>1, <4>2, <4>3, <3>0, <3>1, <1>a
      <3>2. CASE i # next
        <4>1. i \in since..next - 1
          BY <3>2, <2>1, <1>n DEF SInv, Typed
        <4>2. /\ vessels[m] # Absent /\ published[i].at <= vessels[m].ts
              /\ i <= vessels[m].pos
          BY <4>1, <2>1 DEF SInv, Consumed
        <4>3. CASE m # c
          BY <4>2, <4>3, <1>o
        <4>4. CASE m = c
          <5>1. OrDefault(c).pos = vessels[c].pos
            BY <4>2, <4>4, OrDefaultFacts DEF SInv
          <5>2. i <= vessels'[c].pos
            BY <5>1, <4>1, <4>2, <4>4, <1>v, <1>n
          <5>3. published[i].at <= now
            BY <3>0 DEF SInv, Timeline
          <5> QED BY <5>2, <5>3, <4>4, <1>v, <1>a
        <4> QED BY <4>3, <4>4
      <3> QED BY <3>1, <3>2
    <2>2. (since..next - 1)' = since..next
      BY <1>n, <1>u
    <2>3. \A i \in since..next : i \in Nat
      BY <1>n DEF SInv, Typed
    <2> QED BY <2>1, <2>2, <2>3, <1>p, <1>u DEF Consumed
  <1>7. Shown'
    <2>1. ASSUME snapshots # <<>>, NEW m \in snapshots[Len(snapshots)].of
          PROVE  \/ slept - heard'[m] < Ttl
                 \/ posRows[m] # 0 /\ slept - published[posRows[m]].at < Ttl
      <3>1. m \in Mmsi
        BY <2>1, LastShotTyped DEF SInv
      <3>2. slept \in Nat /\ slept <= now
        BY DEF SInv, Typed
      <3>3. CASE m = c
        BY <3>2, <3>3, <1>v, <1>t
      <3>4. CASE m # c
        BY <2>1, <3>1, <3>4, <1>o DEF SInv, Shown
      <3> QED BY <3>3, <3>4
    <2> QED BY <2>1, <1>u DEF Shown
  <1> QED BY <1>1, <1>2, <1>3, <1>4, <1>5, <1>6, <1>7 DEF SInv

LEMMA QueryPositionsKeeps == SInv /\ QueryPositions => SInv'
  <1> SUFFICES ASSUME SInv, QueryPositions PROVE SInv'
    OBVIOUS
  <1>u. UNCHANGED <<published, stored, next, since, vessels, snapshots, slept,
                    staticRows, started, heard, now, restarts>>
    BY DEF QueryPositions, stream
  <1>w. warm = "query positions" /\ warm' = "query statics"
    BY DEF QueryPositions
  <1>b. posRows = Nothing /\ \A m \in Mmsi : posRows[m] = 0
    BY <1>w DEF SInv, Warming, Nothing
  <1>l. Len(published) \in Nat /\ stored \in 0..Len(published)
    BY DEF SInv, Typed
  \* What the query returns is a position of the vessel, or nothing.
  <1>q. posRows' \in [Mmsi -> Nat]
        /\ \A m \in Mmsi : posRows'[m] # 0 => IsPosition(posRows'[m], m)
    <2>1. CASE posRows' = Nothing
      BY <2>1 DEF Nothing
    <2>2. CASE posRows' = [m \in Mmsi |-> Newest({i \in Of(m, "position", stored) :
                                                    published[i].at > now - Ttl})]
      <3>1. ASSUME NEW m \in Mmsi
            PROVE  posRows'[m] \in Nat /\ (posRows'[m] # 0 => IsPosition(posRows'[m], m))
        <4> DEFINE S == {i \in Of(m, "position", stored) : published[i].at > now - Ttl}
        <4>1. S \in SUBSET (1..stored) /\ stored \in Nat
          BY <1>l DEF Of
        <4>2. \A i \in S : IsPosition(i, m)
          BY <1>l DEF Of, IsPosition
        <4>3. posRows'[m] = Newest(S)
          BY <2>2
        <4> HIDE DEF S
        <4>4. Newest(S) \in Nat /\ Newest(S) \in S \cup {0}
          BY <4>1, NewestFacts
        <4> QED BY <4>2, <4>3, <4>4
      <3> QED BY <2>2, <3>1
    <2> QED BY <2>1, <2>2 DEF QueryPositions
  <1>1. Typed'
    BY <1>u, <1>q DEF SInv, Typed
  <1>2. Timeline' /\ Warming' /\ Consumed'
    BY <1>u, <1>w DEF SInv, Timeline, Warming, Consumed, IsPosition
  <1>3. Sources'
    BY <1>u, <1>q DEF SInv, Sources, IsPosition
  <1>4. Stamps'
    <2>1. \A m \in Mmsi : vessels[m] # Absent => vessels[m].ts <= heard[m]
      BY <1>b DEF SInv, Stamps
    <2> QED BY <2>1, <1>u DEF SInv, Stamps
  <1>5. Shown'
    <2>1. snapshots # <<>> =>
            \A m \in snapshots[Len(snapshots)].of : slept - heard[m] < Ttl
      BY <1>b, LastShotTyped DEF SInv, Shown
    <2> QED BY <2>1, <1>u DEF Shown
  <1> QED BY <1>1, <1>2, <1>3, <1>4, <1>5 DEF SInv
LEMMA ApplyPositionsKeeps == SInv /\ ApplyPositions => SInv'
  <1> SUFFICES ASSUME SInv, ApplyPositions PROVE SInv'
    OBVIOUS
  <1>u. UNCHANGED <<published, stored, next, since, snapshots, slept, posRows,
                    staticRows, started, heard, now, restarts>>
    BY DEF ApplyPositions, stream
  <1>w. warm = "apply positions" /\ warm' = "apply statics"
    BY DEF ApplyPositions
  <1>v. \A m \in Mmsi : vessels'[m] = IF posRows[m] = 0 THEN vessels[m]
                                                        ELSE WarmPosition(m)
    BY DEF ApplyPositions
  <1>t. now \in Nat /\ Ttl \in Nat /\ \A m \in Mmsi : heard[m] \in Int
    BY TimesAssumption DEF SInv, Typed
  \* A vessel is left as it is, or its row is newer than all it has.
  <1>k. ASSUME NEW m \in Mmsi
        PROVE  \/ vessels'[m] = vessels[m]
               \/ /\ posRows[m] \in 1..Len(published)
                  /\ published[posRows[m]].at \in Nat
                  /\ vessels'[m] \in Vessel
                  /\ vessels'[m].pos = posRows[m]
                  /\ vessels'[m].ts = published[posRows[m]].at
                  /\ vessels[m] # Absent =>
                       vessels[m] \in Vessel /\ vessels[m].ts < published[posRows[m]].at
    <2>1. CASE posRows[m] = 0
      BY <2>1, <1>v
    <2>2. CASE posRows[m] # 0
      <3> DEFINE w == published[posRows[m]]
      <3>1. /\ WarmPosition(m) \in Vessel
            /\ posRows[m] \in 1..Len(published) /\ w.at \in Nat
            /\ IF OrDefault(m).ts >= w.at
                 THEN WarmPosition(m) = OrDefault(m)
                 ELSE WarmPosition(m).pos = posRows[m] /\ WarmPosition(m).ts = w.at
        BY <2>2, WarmPositionFacts DEF SInv
      <3>2. vessels'[m] = WarmPosition(m)
        BY <2>2, <1>v
      <3>3. 1 <= w.at
        BY <3>1 DEF SInv, Timeline
      <3>4. CASE vessels[m] = Absent
        <4>1. OrDefault(m).ts = 0
          BY <3>4, OrDefaultFacts DEF SInv, Default
        <4>2. ~ (OrDefault(m).ts >= w.at)
          BY <4>1, <3>1, <3>3
        <4> QED BY <4>2, <3>1, <3>2, <3>4
      <3>5. CASE vessels[m] # Absent
        <4>1. OrDefault(m) = vessels[m] /\ vessels[m] \in Vessel
          BY <3>5, OrDefaultFacts DEF SInv
        <4>2. vessels[m].ts \in Nat
          BY <4>1 DEF Vessel
        <4>3. CASE vessels[m].ts >= w.at
          BY <4>1, <4>3, <3>1, <3>2
        <4>4. CASE ~ (vessels[m].ts >= w.at)
          <5>1. vessels[m].ts < w.at
            BY <4>2, <4>4, <3>1
          <5> QED BY <5>1, <4>1, <4>4, <3>1, <3>2
        <4> QED BY <4>3, <4>4
      <3> QED BY <3>4, <3>5
    <2> QED BY <2>1, <2>2
  <1>1. Typed'
    <2>1. vessels' \in [Mmsi -> {Absent} \cup Vessel]
      <3>1. \A m \in Mmsi : vessels'[m] \in {Absent} \cup Vessel
        BY <1>k DEF SInv, Typed
      <3> QED BY <3>1 DEF ApplyPositions
    <2> QED BY <2>1, <1>u DEF SInv, Typed
  <1>2. Timeline' /\ Warming' /\ Shown'
    BY <1>u, <1>w DEF SInv, Timeline, Warming, Shown
  <1>3. Sources'
    <2>1. ASSUME NEW m \in Mmsi
          PROVE  /\ posRows[m] # 0 => IsPosition(posRows[m], m)
                 /\ vessels'[m] # Absent /\ vessels'[m].pos # 0
                      => IsPosition(vessels'[m].pos, m)
      <3>1. CASE vessels'[m] = vessels[m]
        BY <3>1 DEF SInv, Sources
      <3>2. CASE vessels'[m] # vessels[m]
        <4>1. vessels'[m].pos = posRows[m]
          BY <3>2, <1>k
        <4> QED BY <4>1 DEF SInv, Sources
      <3> QED BY <3>1, <3>2
    <2> QED BY <2>1, <1>u DEF Sources, IsPosition
  <1>4. Stamps'
    <2>1. ASSUME NEW m \in Mmsi
          PROVE  /\ heard[m] <= now
                 /\ now - heard[m] < Ttl
                      => vessels'[m] # Absent /\ heard[m] <= vessels'[m].ts
                 /\ vessels'[m] # Absent =>
                      /\ vessels'[m].ts <= now
                      /\ \/ vessels'[m].ts <= heard[m]
                         \/ posRows[m] # 0 /\ vessels'[m].ts <= published[posRows[m]].at
      <3>1. CASE vessels'[m] = vessels[m]
        BY <3>1 DEF SInv, Stamps
      <3>2. CASE vessels'[m] # vessels[m]
        <4>1. /\ posRows[m] \in 1..Len(published)
              /\ vessels'[m] # Absent
              /\ vessels'[m].ts = published[posRows[m]].at
              /\ published[posRows[m]].at \in Nat
              /\ vessels[m] # Absent =>
                   vessels[m] \in Vessel /\ vessels[m].ts < published[posRows[m]].at
          BY <3>2, <1>k, AbsentIsNoVessel
        <4>2. published[posRows[m]].at <= now
          BY <4>1 DEF SInv, Timeline
        <4>3. heard[m] <= now
              /\ (now - heard[m] < Ttl => vessels[m] # Absent /\ heard[m] <= vessels[m].ts)
          BY DEF SInv, Stamps
        <4>4. vessels[m] # Absent => vessels[m].ts \in Nat
          BY <4>1 DEF Vessel
        <4>5. now - heard[m] < Ttl => heard[m] <= published[posRows[m]].at
          BY <4>1, <4>3, <4>4, <1>t
        <4>6. posRows[m] # 0 /\ published[posRows[m]].at <= published[posRows[m]].at
          BY <4>1
        <4> QED BY <4>1, <4>2, <4>3, <4>5, <4>6
      <3> QED BY <3>1, <3>2
    <2> QED BY <2>1, <1>u DEF Stamps
  <1>5. Consumed'
    <2>1. ASSUME NEW m \in Mmsi, NEW i \in since..next - 1, IsPosition(i, m),
                 now - published[i].at < Ttl
          PROVE  /\ vessels'[m] # Absent /\ published[i].at <= vessels'[m].ts
                 /\ i <= vessels'[m].pos
      <3>1. /\ vessels[m] # Absent /\ published[i].at <= vessels[m].ts
            /\ i <= vessels[m].pos
        BY <2>1 DEF SInv, Consumed
      <3>2. CASE vessels'[m] = vessels[m]
        BY <3>1, <3>2
      <3>3. CASE vessels'[m] # vessels[m]
        <4>1. /\ posRows[m] \in 1..Len(published)
              /\ vessels'[m] # Absent
              /\ vessels'[m].pos = posRows[m]
              /\ vessels'[m].ts = published[posRows[m]].at
              /\ published[posRows[m]].at \in Nat
              /\ vessels[m] \in Vessel /\ vessels[m].ts < published[posRows[m]].at
          BY <3>1, <3>3, <1>k, AbsentIsNoVessel
        <4>2. i \in 1..Len(published) /\ published[i].at \in Nat
          BY <2>1, MessageTyped DEF IsPosition, SInv
        <4>3. vessels[m].ts \in Nat
          BY <4>1 DEF Vessel
        <4>4. published[i].at < published[posRows[m]].at
          BY <3>1, <4>1, <4>2, <4>3
        <4>5. ~ (posRows[m] <= i)
          <5>1. posRows[m] <= i => published[posRows[m]].at <= published[i].at
            BY <4>1, <4>2 DEF SInv, Timeline
          <5> QED BY <5>1, <4>1, <4>2, <4>4
        <4>6. i <= posRows[m] /\ published[i].at <= published[posRows[m]].at
          BY <4>1, <4>2, <4>4, <4>5
        <4> QED BY <4>1, <4>6
      <3> QED BY <3>2, <3>3
    <2> QED BY <2>1, <1>u DEF Consumed, IsPosition
  <1> QED BY <1>1, <1>2, <1>3, <1>4, <1>5 DEF SInv

\* ApplyStatics and TakeSnapshot: a vessel keeps what the invariant is about,
\* or its ts is older than ttl and it is taken out.
LEMMA ApplyStaticsKeeps == SInv /\ ApplyStatics => SInv'
  <1> SUFFICES ASSUME SInv, ApplyStatics PROVE SInv'
    OBVIOUS
  <1>u. UNCHANGED <<published, stored, next, since, snapshots, slept, posRows,
                    staticRows, started, heard, now, restarts>>
    BY DEF ApplyStatics, stream
  <1>w. warm' = "done"
    BY DEF ApplyStatics
  <1>v. \A m \in Mmsi : /\ vessels'[m] \in {Absent} \cup Vessel
                        /\ vessels'[m] = Absent <=> vessels[m] = Absent
                        /\ vessels[m] # Absent =>
                             /\ vessels'[m].pos = vessels[m].pos
                             /\ vessels'[m].ts = vessels[m].ts
    <2>1. \A m \in Mmsi : vessels'[m] = WarmStatic(m)
      BY DEF ApplyStatics
    <2> QED BY <2>1, WarmStaticFacts DEF SInv
  <1>1. Typed'
    <2>1. vessels' \in [Mmsi -> {Absent} \cup Vessel]
      BY <1>v DEF ApplyStatics
    <2> QED BY <2>1, <1>u DEF SInv, Typed
  <1>2. Timeline' /\ Warming' /\ Shown'
    BY <1>u, <1>w DEF SInv, Timeline, Warming, Shown
  <1>3. Sources'
    BY <1>v, <1>u DEF SInv, Sources, IsPosition
  <1>4. Stamps'
    BY <1>v, <1>u DEF SInv, Stamps
  <1>5. Consumed'
    BY <1>v, <1>u DEF SInv, Consumed, IsPosition
  <1> QED BY <1>1, <1>2, <1>3, <1>4, <1>5 DEF SInv

LEMMA TakeSnapshotKeeps == SInv /\ TakeSnapshot => SInv'
  <1> SUFFICES ASSUME SInv, TakeSnapshot PROVE SInv'
    OBVIOUS
  <1>u. UNCHANGED <<published, stored, next, since, warm, posRows,
                    staticRows, started, heard, now, restarts>>
    BY DEF TakeSnapshot, stream, warming
  <1>s. slept' = now
    BY DEF TakeSnapshot
  <1>t. /\ now \in Nat /\ slept \in Nat /\ Interval \in Nat /\ Ttl \in Nat
        /\ \A m \in Mmsi : heard[m] \in Int
        /\ Ring \in Nat \ {0}
    BY TimesAssumption DEF SInv, Typed
  <1>v. \A m \in Mmsi :
          /\ vessels'[m] = vessels[m] \/ vessels'[m] = Absent
          /\ vessels'[m] # Absent => vessels[m] # Absent /\ now - vessels[m].ts < Ttl
          /\ vessels[m] # Absent /\ now - vessels[m].ts < Ttl => vessels'[m] # Absent
    BY DEF TakeSnapshot, Retained
  <1>1. Typed'
    <2>1. vessels' \in [Mmsi -> {Absent} \cup Vessel]
      <3>1. \A m \in Mmsi : vessels'[m] \in {Absent} \cup Vessel
        BY <1>v DEF SInv, Typed
      <3>2. vessels' = [m \in Mmsi |-> vessels'[m]]
        BY DEF TakeSnapshot, Retained
      <3> QED BY <3>1, <3>2
    <2>2. now <= now + Interval /\ now <= now
      BY <1>t
    <2>3. snapshots' \in Seq(Shot)
      BY <1>t, SnapshotsAfter DEF SInv
    <2> QED BY <2>1, <2>2, <2>3, <1>u, <1>s DEF SInv, Typed
  <1>2. Timeline'
    BY <1>u DEF SInv, Timeline
  <1>3. Sources' /\ Warming'
    <2>1. Sources'
      BY <1>v, <1>u DEF SInv, Sources, IsPosition
    <2>2. Warming'
      BY <1>v, <1>u DEF SInv, Warming
    <2> QED BY <2>1, <2>2
  <1>4. Stamps'
    <2>1. ASSUME NEW m \in Mmsi, now - heard[m] < Ttl
          PROVE  vessels'[m] # Absent /\ vessels'[m] = vessels[m]
      <3>1. vessels[m] # Absent /\ heard[m] <= vessels[m].ts
        BY <2>1 DEF SInv, Stamps
      <3>2. vessels[m].ts \in Nat
        BY <3>1, OrDefaultFacts DEF SInv, Vessel
      <3>3. now - vessels[m].ts < Ttl
        BY <2>1, <3>1, <3>2, <1>t
      <3> QED BY <3>1, <3>3, <1>v
    <2> QED BY <2>1, <1>v, <1>u DEF SInv, Stamps
  <1>5. Consumed'
    <2>1. ASSUME NEW m \in Mmsi, NEW i \in since..next - 1, IsPosition(i, m),
                 now - published[i].at < Ttl
          PROVE  /\ vessels'[m] # Absent /\ published[i].at <= vessels'[m].ts
                 /\ i <= vessels'[m].pos
      <3>1. /\ vessels[m] # Absent /\ published[i].at <= vessels[m].ts
            /\ i <= vessels[m].pos
        BY <2>1 DEF SInv, Consumed
      <3>2. vessels[m].ts \in Nat /\ published[i].at \in Nat
        BY <2>1, <3>1, OrDefaultFacts, MessageTyped DEF SInv, Vessel, IsPosition
      <3>3. now - vessels[m].ts < Ttl
        BY <2>1, <3>1, <3>2, <1>t
      <3> QED BY <3>1, <3>3, <1>v
    <2> QED BY <2>1, <1>u DEF Consumed, IsPosition
  <1>6. Shown'
    <2>1. ASSUME NEW m \in Mmsi, vessels'[m] # Absent
          PROVE  \/ now - heard[m] < Ttl
                 \/ posRows[m] # 0 /\ now - published[posRows[m]].at < Ttl
      <3>1. vessels[m] # Absent /\ now - vessels[m].ts < Ttl
        BY <2>1, <1>v
      <3>2. vessels[m].ts \in Nat
        BY <3>1, OrDefaultFacts DEF SInv, Vessel
      <3>3. CASE vessels[m].ts <= heard[m]
        BY <3>1, <3>2, <3>3, <1>t
      <3>4. CASE posRows[m] # 0 /\ vessels[m].ts <= published[posRows[m]].at
        <4>1. published[posRows[m]].at \in Nat
          BY <3>4, MessageTyped DEF SInv, Sources, IsPosition
        <4> QED BY <3>1, <3>2, <3>4, <4>1, <1>t
      <3> QED BY <3>1, <3>3, <3>4 DEF SInv, Stamps
    <2>2. \A m \in snapshots'[Len(snapshots')].of : m \in Mmsi /\ vessels'[m] # Absent
      BY <1>t, SnapshotsAfter DEF SInv
    <2> QED BY <2>1, <2>2, <1>u, <1>s DEF Shown
  <1> QED BY <1>1, <1>2, <1>3, <1>4, <1>5, <1>6 DEF SInv
\* The invariant holds in every reachable state.
THEOREM FleetInvariance == Spec => []SInv
  <1>1. SInv /\ [Next]_vars => SInv'
    <2> SUFFICES ASSUME SInv, [Next]_vars PROVE SInv'
      OBVIOUS
    <2>1. CASE Publish         BY <2>1, PublishKeeps
    <2>2. CASE Restart         BY <2>2, RestartKeeps
    <2>3. CASE Tick            BY <2>3, TickKeeps
    <2>4. CASE Consume         BY <2>4, ConsumeKeeps
    <2>5. CASE QueryPositions  BY <2>5, QueryPositionsKeeps
    <2>6. CASE ApplyPositions  BY <2>6, ApplyPositionsKeeps
    <2>7. CASE ApplyStatics    BY <2>7, ApplyStaticsKeeps
    <2>8. CASE TakeSnapshot    BY <2>8, TakeSnapshotKeeps
    <2>9. CASE Store \/ QueryStatics \/ UNCHANGED vars
      BY <2>9, OthersKeep
    <2> QED BY <2>1, <2>2, <2>3, <2>4, <2>5, <2>6, <2>7, <2>8, <2>9 DEF Next
  <1> QED BY InitSInv, <1>1, PTL DEF Spec

-----------------------------------------------------------------------------
\* snapshot_loop's retain, warm_from_history's merge: a vessel heard within
\* the ttl is in the fleet, whatever the three tasks do to it in turn.
THEOREM NoVesselDisappears == Spec => []HeardVesselsStay
  <1>1. SInv => HeardVesselsStay
    BY DEF SInv, Stamps, HeardVesselsStay
  <1> QED BY FleetInvariance, <1>1, PTL

\* snapshot_loop: no vessel is served of which nothing was heard, or stored,
\* for a ttl and an interval.
THEOREM GhostsAreNotShown == Spec => []NoGhosts
  <1>1. SInv => NoGhosts
    <2> SUFFICES ASSUME SInv, snapshots # <<>>,
                        NEW m \in snapshots[Len(snapshots)].of
                 PROVE  \/ now - heard[m] < Ttl + Interval
                        \/ posRows[m] # 0 /\ now - published[posRows[m]].at < Ttl + Interval
      BY DEF NoGhosts
    <2>1. m \in Mmsi
      BY LastShotTyped DEF SInv
    <2>2. /\ slept \in Nat /\ now \in Nat /\ Interval \in Nat /\ Ttl \in Nat
          /\ now <= slept + Interval /\ heard[m] \in Int
      BY <2>1, TimesAssumption DEF SInv, Typed
    <2>3. CASE slept - heard[m] < Ttl
      BY <2>2, <2>3
    <2>4. CASE posRows[m] # 0 /\ slept - published[posRows[m]].at < Ttl
      <3>1. published[posRows[m]].at \in Nat
        BY <2>1, <2>4, MessageTyped DEF SInv, Sources, IsPosition
      <3> QED BY <2>2, <2>4, <3>1
    <2> QED BY <2>3, <2>4 DEF SInv, Shown
  <1> QED BY FleetInvariance, <1>1, PTL

\* consume and warm_from_history: when all has been consumed, a vessel whose
\* newest position came since the process started, and within the ttl, is
\* there, although history was put over it while it was being consumed.
THEOREM FleetCatchesUp == Spec => []CatchesUp
  <1>1. SInv => CatchesUp
    <2> SUFFICES ASSUME SInv, next > Len(published), NEW m \in Mmsi
                 PROVE  LET newest == Newest(Of(m, "position", Len(published)))
                        IN  newest >= since /\ now - published[newest].at < Ttl
                              => vessels[m] # Absent /\ vessels[m].pos = newest
      BY DEF CatchesUp
    <2> DEFINE S == Of(m, "position", Len(published))
               newest == Newest(S)
    <2>1. Len(published) \in Nat /\ next \in 1..Len(published) + 1 /\ since \in 1..next
      BY DEF SInv, Typed
    <2>2. S \in SUBSET (1..Len(published))
      BY DEF Of
    <2>3. \A i \in Nat : i \in S <=> IsPosition(i, m)
      BY <2>1 DEF Of, IsPosition
    <2>4. newest \in Nat /\ newest \in S \cup {0} /\ \A i \in S : i <= newest
      <3> HIDE DEF S
      <3> QED BY <2>1, <2>2, NewestFacts
    <2> HIDE DEF S, newest
    <2>5. SUFFICES ASSUME newest >= since, now - published[newest].at < Ttl
                   PROVE  vessels[m] # Absent /\ vessels[m].pos = newest
      BY DEF S, newest
    <2>6. newest \in since..next - 1 /\ IsPosition(newest, m)
      <3>1. newest \in S
        BY <2>1, <2>4, <2>5
      <3>2. newest \in 1..Len(published)
        BY <2>2, <3>1
      <3> QED BY <3>1, <3>2, <2>1, <2>3, <2>4, <2>5
    <2>7. vessels[m] # Absent /\ newest <= vessels[m].pos
      BY <2>5, <2>6 DEF SInv, Consumed
    <2>8. vessels[m].pos \in Nat /\ vessels[m].pos # 0
      <3>1. vessels[m].pos \in Nat
        BY <2>7, OrDefaultFacts DEF SInv, Vessel
      <3> QED BY <3>1, <2>1, <2>4, <2>5, <2>7
    <2>9. vessels[m].pos <= newest
      BY <2>3, <2>4, <2>7, <2>8 DEF SInv, Sources
    <2> QED BY <2>4, <2>7, <2>8, <2>9
  <1> QED BY FleetInvariance, <1>1, PTL

\* warm_from_history: applying the rows puts no older position in the place of
\* a newer one, nor any name in the place of another.
THEOREM LiveDataWins == Spec => LiveWins
  <1> DEFINE Wins == ApplyPositions \/ ApplyStatics =>
               \A m \in Mmsi : vessels[m] # Absent =>
                 /\ vessels'[m].pos >= vessels[m].pos
                 /\ vessels[m].name # 0 => vessels'[m].name = vessels[m].name
  <1>1. SInv => Wins
    <2> SUFFICES ASSUME SInv, ApplyPositions \/ ApplyStatics,
                        NEW m \in Mmsi, vessels[m] # Absent
                 PROVE  /\ vessels'[m].pos >= vessels[m].pos
                        /\ vessels[m].name # 0 => vessels'[m].name = vessels[m].name
      OBVIOUS
    <2>1. /\ OrDefault(m) = vessels[m] /\ vessels[m] \in Vessel
          /\ vessels[m].pos \in Nat /\ vessels[m].ts \in Nat
      BY OrDefaultFacts DEF SInv, Vessel
    <2>2. CASE ApplyPositions /\ posRows[m] # 0
      <3> DEFINE w == published[posRows[m]]
      <3>1. /\ posRows[m] \in 1..Len(published) /\ w.at \in Nat
            /\ IF OrDefault(m).ts >= w.at
                 THEN WarmPosition(m) = OrDefault(m)
                 ELSE /\ WarmPosition(m).pos = posRows[m]
                      /\ WarmPosition(m).name = OrDefault(m).name
        BY <2>2, WarmPositionFacts DEF SInv
      <3>2. vessels'[m] = WarmPosition(m) /\ warm = "apply positions"
        BY <2>2 DEF ApplyPositions
      <3>3. CASE OrDefault(m).ts >= w.at
        <4>1. vessels'[m] = vessels[m]
          BY <2>1, <3>1, <3>2, <3>3
        <4> QED BY <4>1, <2>1
      <3>4. CASE ~ (OrDefault(m).ts >= w.at)
        <4>1. vessels'[m].pos = posRows[m] /\ vessels'[m].name = vessels[m].name
          BY <2>1, <3>1, <3>2, <3>4
        <4>2. vessels[m].ts < w.at
          BY <2>1, <3>1, <3>4
        <4>3. CASE vessels[m].pos = 0
          BY <4>1, <4>3, <3>1, <2>1
        <4>4. CASE vessels[m].pos # 0
          <5>1. /\ published[vessels[m].pos].at <= vessels[m].ts
                /\ vessels[m].pos \in 1..Len(published)
            BY <3>2, <4>4 DEF SInv, Warming, Sources, IsPosition
          <5>2. published[vessels[m].pos].at \in Nat
            BY <5>1, MessageTyped DEF SInv
          <5>3. posRows[m] <= vessels[m].pos => w.at <= published[vessels[m].pos].at
            BY <3>1, <5>1 DEF SInv, Timeline
          <5>4. ~ (posRows[m] <= vessels[m].pos)
            BY <5>1, <5>2, <5>3, <4>2, <3>1, <2>1
          <5> QED BY <5>4, <4>1, <3>1, <2>1
        <4> QED BY <4>3, <4>4
      <3> QED BY <3>3, <3>4
    <2>3. CASE ApplyPositions /\ posRows[m] = 0
      <3>1. vessels'[m] = vessels[m]
        BY <2>3 DEF ApplyPositions
      <3> QED BY <3>1, <2>1
    <2>4. CASE ApplyStatics
      <3>1. vessels'[m] = WarmStatic(m)
        BY <2>4 DEF ApplyStatics
      <3>2. /\ WarmStatic(m).pos = vessels[m].pos
            /\ vessels[m].name # 0 => WarmStatic(m).name = vessels[m].name
        BY WarmStaticFacts DEF SInv
      <3> QED BY <2>1, <3>1, <3>2
    <2> QED BY <2>2, <2>3, <2>4
  <1>2. SInv /\ [Next]_vars => [Wins]_vars
    BY <1>1
  <1> QED BY FleetInvariance, <1>2, PTL DEF Spec, LiveWins

=============================================================================
