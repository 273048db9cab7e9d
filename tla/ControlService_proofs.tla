------------------------ MODULE ControlService_proofs ------------------------
(***************************************************************************)
(* Proofs about the control plane: its accounts, keys and roles, sign-in,  *)
(* and the two caches, for any number of accounts, keys, links, browsers,  *)
(* identities, addresses and clients, and any lifetimes.                   *)
(*                                                                         *)
(* A step of the service is a step of one part; so each part has an        *)
(* invariant of its own, about its own variables.                          *)
(***************************************************************************)
EXTENDS ControlService, FiniteSetTheorems, SequenceTheorems, TLAPS

(***************************************************************************)
(* The coverage cache.  Requests and the entry carry times of the past     *)
(* (Asked, Entry), so an entry younger than the request that looks at it   *)
(* has an age near 2^64, and is not current.  One request fetches at a     *)
(* time, the one that holds the lock, and what it fetches is newer than    *)
(* the entry it will replace (Fetching).                                   *)
(***************************************************************************)
CoverageTyped ==
  /\ clock \in 0..MaxNow
  /\ slot \in [at : Int, computed : Int]
  /\ request \in [Client ->
       [phase : {"quiet", "reading", "waiting", "fetching", "fresh", "stale",
                 "unavailable"}, asked : Int, grid : Int]]
  /\ holder \in Client \cup {Coverage!Nobody}

Entry ==
  slot # Coverage!Empty =>
    0 <= slot.at /\ slot.at <= slot.computed /\ slot.computed <= clock

Asked == \A c \in Client : 0 <= request[c].asked /\ request[c].asked <= clock

Fetching ==
  \A c \in Client : request[c].phase = "fetching" =>
    /\ holder = c
    /\ slot.computed <= request[c].grid
    /\ request[c].asked <= request[c].grid /\ request[c].grid <= clock

CoverageInv == CoverageTyped /\ Entry /\ Asked /\ Fetching /\ CoverageIsRecent

(***************************************************************************)
(* The photo cache.  The row and the lookups in progress are as recent as  *)
(* their age says, and a day more when they are stored after midnight.     *)
(***************************************************************************)
Request ==
  [phase : {"idle", "found", "missed", "byImo", "byMmsi", "storeFound", "storeMissed"},
   imo : Imo \cup {Photo!None}, late : BOOLEAN]
CachedRow == [imo : Imo \cup {Photo!None}, found : BOOLEAN, age : 0..PositiveTtl]

PhotoTyped ==
  /\ photos \subseteq Photo!Identifier
  /\ row \in CachedRow
  /\ caller \in [Caller -> Request]
  /\ without \in [Photo!Identifier -> Nat]
  /\ with \in Nat

HistoryIsTrue ==
  /\ \A k \in Photo!Identifier \ photos : without[k] = 0
  /\ photos # {} => with = 0

\* Of the lookup by one IMO, or none, and the MMSI.
AskedOf(imo) == {imo, Photo!Mmsi} \ {Photo!None}

RowIsRecent ==
  /\ ~row.found /\ row.age < NegativeTtl =>
       \A k \in AskedOf(row.imo) : without[k] <= row.age + 1
  /\ row.found /\ row.age < PositiveTtl => with <= row.age + 1

Days(r) == IF r.late THEN 1 ELSE 0

LookupIsRecent(r) ==
  /\ r.phase = "byMmsi" /\ r.imo # Photo!None => without[r.imo] <= Days(r)
  /\ r.phase = "storeMissed" => \A k \in AskedOf(r.imo) : without[k] <= Days(r)
  /\ r.phase = "storeFound" => with <= Days(r)

LookupsAreRecent == \A c \in Caller : LookupIsRecent(caller[c])

AnswerIsRecent(r) ==
  /\ r.phase = "missed" => \A k \in AskedOf(r.imo) : without[k] <= NegativeTtl + 1
  /\ r.phase = "found" => with <= PositiveTtl + 1

PhotoInv ==
  PhotoTyped /\ HistoryIsTrue /\ RowIsRecent /\ LookupsAreRecent /\ AnswersAreRecent

(***************************************************************************)
(* Accounts, keys and roles.  A change of role is of another account than  *)
(* its caller's (RoleChanges), so its caller stays the admin they are; a   *)
(* link that has signed somebody in is used up (LinksUsed); the recorded   *)
(* use of a feeding key lags behind its last presentation by at most the   *)
(* throttle (UseRecorded), not counting presentations that could not be    *)
(* recorded.                                                               *)
(***************************************************************************)
Members == {u \in User : role[u] # "none"}

\* The accounts in the order they joined are the accounts there are.
JoinedAreMembers ==
  /\ IsFiniteSet(Members)
  /\ \A n \in 1..Len(joined) : role[joined[n]] # "none"

RoleChanges == \A q \in requests : q.role # Unchanged => q.by # q.on

LinksUsed ==
  \A s \in signIns :
    /\ links[s.link] \in [email : {s.as}, expires : Nat, used : {TRUE}]
    /\ s.at <= links[s.link].expires

UseRecorded ==
  \A k \in Key :
    /\ presented[k] <= now
    /\ keys[k] = NoKey => presented[k] = Never
    /\ keys[k] # NoKey /\ keys[k].kind # "live" =>
         presented[k] - Throttle <= keys[k].used /\ keys[k].used <= presented[k]

AccountsInv ==
  /\ TypeOK /\ JoinedAreMembers
  /\ RoleChanges /\ AdminsRemain
  /\ LinksUsed /\ LinksWorkOnce
  /\ UseRecorded

(***************************************************************************)
(* Sign-in.  A cookie in a browser names a flow of that browser (Cookies), *)
(* and a started flow is never started again.  An identity is in the       *)
(* account of its first sign-in, and nowhere before (Homes), until another *)
(* one is linked in its place; and that account has the address reported   *)
(* then (FirstAddresses).                                                  *)
(***************************************************************************)
Column == {"email", "github", "google"}

SignInTyped ==
  /\ users \in Seq([email : Address \cup {In!None}, github : Identity \cup {In!None},
                    google : Identity \cup {In!None}])
  /\ cookie \in [Browser -> Flow \cup {In!None}]
  /\ flow \in [Flow -> {In!Unstarted} \cup [by : Browser, provider : {"github", "google"}]]
  /\ callbacks \subseteq [flow : Flow, by : Browser, as : Identity]
  /\ home \in [Identity -> Nat]
  /\ first \in [Identity -> Address \cup {In!None}]
  /\ displaced \subseteq Identity

Cookies ==
  \A b \in Browser : cookie[b] # In!None =>
    flow[cookie[b]] # In!Unstarted /\ flow[cookie[b]].by = b

Started == \A c \in callbacks : flow[c.flow] # In!Unstarted

Homes ==
  \A i \in Identity :
    /\ i \in displaced => home[i] # In!Nobody
    /\ i \notin displaced =>
         In!WithIdentity(i) = IF home[i] = In!Nobody THEN {} ELSE {home[i]}

FirstAddresses ==
  \A i \in Identity : first[i] # In!None =>
    home[i] \in In!Rows /\ users[home[i]].email = first[i]

SignInInv ==
  /\ SignInTyped
  /\ Cookies /\ Started /\ FlowsEndWhereTheyStart
  /\ Homes /\ FirstAddresses /\ OneAccountPerAddress

-----------------------------------------------------------------------------
(* The parts do not disturb each other. *)

LEMMA StepsOfParts ==
  ASSUME [ServiceNext]_serviceVars
  PROVE  /\ [Next]_vars
         /\ [In!Next]_signInVars
         /\ [Photo!Next]_photoVars
         /\ [Coverage!Next]_coverageVars
  BY DEF ServiceNext, Accounts, SigningIn, Photos, Grids, serviceVars, vars,
         signInVars, photoVars, coverageVars

-----------------------------------------------------------------------------
(* The coverage cache. *)

\* The age of an entry is the time since, or at least Ttl when its time has
\* not come yet for whoever looks.
LEMMA CurrentIsYoung ==
  ASSUME NEW at \in 0..MaxNow, NEW t \in 0..MaxNow,
         Coverage!Age(t, at) < Ttl
  PROVE  at <= t /\ t - at < Ttl
  <1>1. MaxNow \in Nat /\ Ttl \in Nat /\ Width \in Nat /\ MaxNow + Ttl < Width
    BY CoverageAssumption, ServiceBounds
  <1> DEFINE age == (t - at) % Width
  <1>2. age < Ttl
    BY DEF Coverage!Age
  <1>3. CASE at <= t
    <2>1. age = t - at
      BY <1>1, <1>3
    <2> QED BY <1>2, <1>3, <2>1
  <1>4. CASE t < at
    <2>1. age = t - at + Width
      BY <1>1, <1>4
    <2> HIDE DEF age
    <2> QED BY <1>1, <1>2, <2>1
  <1> QED BY <1>3, <1>4

\* A request that looks at the entry and finds it current is served a recent
\* grid.
LEMMA CurrentIsRecent ==
  ASSUME CoverageInv, NEW c \in Client, Coverage!Current(request[c].asked)
  PROVE  request[c].asked - slot.computed < Ttl
  <1>1. /\ clock \in Nat /\ clock <= MaxNow /\ MaxNow \in Nat
        /\ slot.at \in Int /\ slot.computed \in Int /\ request[c].asked \in Int
    BY ServiceBounds DEF CoverageInv, CoverageTyped
  <1>2. slot # Coverage!Empty /\ Coverage!Age(request[c].asked, slot.at) < Ttl
    BY DEF Coverage!Current
  <1>3. /\ 0 <= slot.at /\ slot.at <= slot.computed /\ slot.computed <= clock
        /\ 0 <= request[c].asked /\ request[c].asked <= clock
    BY <1>2 DEF CoverageInv, Entry, Asked
  <1>4. slot.at \in 0..MaxNow /\ request[c].asked \in 0..MaxNow
    BY <1>1, <1>3
  <1>5. slot.at <= request[c].asked /\ request[c].asked - slot.at < Ttl
    BY <1>2, <1>4, CurrentIsYoung
  <1> QED BY <1>1, <1>3, <1>5, CoverageAssumption

LEMMA InitCoverage == ServiceInit => CoverageInv
  BY ServiceBounds, CoverageAssumption
  DEF ServiceInit, Coverage!Init, CoverageInv, CoverageTyped, Entry, Asked,
      Fetching, CoverageIsRecent, Coverage!CoverageIsRecent, Coverage!Empty,
      Coverage!Quiet, Coverage!Nobody

LEMMA CoverageKept ==
  ASSUME CoverageInv, [Coverage!Next]_coverageVars PROVE CoverageInv'
  <1>0. /\ CoverageTyped /\ Entry /\ Asked /\ Fetching /\ Coverage!CoverageIsRecent
        /\ Ttl \in Nat \ {0} /\ MaxNow \in Nat /\ clock \in Nat
        /\ Coverage!Nobody \notin Client
    BY CoverageAssumption, ServiceBounds
    DEF CoverageInv, CoverageTyped, CoverageIsRecent, Coverage!Nobody
  <1> USE <1>0
      DEF CoverageInv, CoverageTyped, Entry, Asked, Fetching, CoverageIsRecent,
          Coverage!CoverageIsRecent
  <1>1. ASSUME NEW c \in Client, Coverage!Arrive(c) PROVE CoverageInv'
    BY <1>1 DEF Coverage!Arrive
  <1>2. ASSUME NEW c \in Client, Coverage!Read(c) PROVE CoverageInv'
    <2>1. CASE Coverage!Current(request[c].asked)
      BY <1>2, <2>1, CurrentIsRecent DEF Coverage!Read, Coverage!Served
    <2>2. CASE ~Coverage!Current(request[c].asked)
      BY <1>2, <2>2 DEF Coverage!Read
    <2> QED BY <2>1, <2>2
  <1>3. ASSUME NEW c \in Client, Coverage!Write(c) PROVE CoverageInv'
    <2>1. CASE Coverage!Current(request[c].asked)
      <3>1. request[c].asked - slot.computed < Ttl
        BY <2>1, CurrentIsRecent
      <3>2. /\ request' = [request EXCEPT ![c] =
                             [request[c] EXCEPT !.phase = "fresh", !.grid = slot.computed]]
            /\ UNCHANGED <<clock, slot, holder>>
        BY <1>3, <2>1 DEF Coverage!Write, Coverage!Served
      <3>3. CoverageTyped' /\ Entry' /\ Asked' /\ Fetching'
        BY <3>2
      <3> QED BY <3>1, <3>2, <3>3
    <2>2. CASE ~Coverage!Current(request[c].asked)
      BY <1>3, <2>2 DEF Coverage!Write, Coverage!Empty
    <2> QED BY <2>1, <2>2
  <1>4. ASSUME NEW c \in Client, Coverage!Fetched(c) PROVE CoverageInv'
    <2>1. /\ holder = c /\ holder' = Coverage!Nobody
          /\ request' = [request EXCEPT ![c].phase = "fresh"]
          /\ slot' = [at |-> request[c].asked, computed |-> request[c].grid]
          /\ clock' = clock
      BY <1>4 DEF Coverage!Fetched, Coverage!Release
    <2>2. /\ request[c].asked \in Int /\ request[c].grid \in Int
          /\ 0 <= request[c].asked
          /\ request[c].asked <= request[c].grid /\ request[c].grid <= clock
      BY <1>4 DEF Coverage!Fetched
    <2>3. CoverageTyped' /\ Entry' /\ Asked'
      BY <2>1, <2>2
    <2>4. Fetching'
      BY <2>1
    <2>5. Coverage!CoverageIsRecent'
      <3>1. request'[c].asked = request[c].asked /\ request'[c].grid = request[c].grid
        BY <2>1
      <3>2. request'[c].asked - request'[c].grid < Ttl
        BY <2>2, <3>1
      <3>3. \A d \in Client \ {c} : request'[d] = request[d]
        BY <2>1
      <3> QED BY <3>2, <3>3
    <2> QED BY <2>3, <2>4, <2>5
  <1>5. ASSUME NEW c \in Client, Coverage!FetchFailed(c) PROVE CoverageInv'
    BY <1>5 DEF Coverage!FetchFailed, Coverage!Release, Coverage!Served
  <1>6. ASSUME NEW c \in Client, Coverage!GoAway(c) PROVE CoverageInv'
    BY <1>6 DEF Coverage!GoAway, Coverage!Release, Coverage!Quiet
  <1>7. CASE Coverage!Tick
    BY <1>7 DEF Coverage!Tick
  <1>8. CASE UNCHANGED coverageVars
    BY <1>8 DEF coverageVars
  <1> QED BY <1>1, <1>2, <1>3, <1>4, <1>5, <1>6, <1>7, <1>8 DEF Coverage!Next

\* A grid served from the cache or fetched was computed less than ten minutes
\* before it was asked for, although a request's time may be older than the
\* entry's when the two are compared.
THEOREM GridsAreRecent == ServiceSpec => []CoverageIsRecent
  <1>1. CoverageInv /\ [ServiceNext]_serviceVars => CoverageInv'
    BY StepsOfParts, CoverageKept
  <1>2. CoverageInv => CoverageIsRecent
    BY DEF CoverageInv
  <1> QED BY InitCoverage, <1>1, <1>2, PTL DEF ServiceSpec

\* A refresh never brings back an older grid, whichever request's fetch ends
\* last.
THEOREM GridsOnlyAdvance == ServiceSpec => GridsNeverGoBack
  <1>1. CoverageInv /\ [ServiceNext]_serviceVars => CoverageInv'
    BY StepsOfParts, CoverageKept
  <1>2. CoverageInv /\ [ServiceNext]_serviceVars =>
          [slot'.computed >= slot.computed]_slot
    <2> SUFFICES ASSUME CoverageInv, [Coverage!Next]_coverageVars, slot' # slot
                 PROVE  slot'.computed >= slot.computed
      BY StepsOfParts
    <2>1. PICK c \in Client : Coverage!Fetched(c)
      BY DEF Coverage!Next, Coverage!Arrive, Coverage!Read, Coverage!Write,
             Coverage!FetchFailed, Coverage!GoAway, Coverage!Tick, coverageVars
    <2>2. /\ slot'.computed = request[c].grid
          /\ slot.computed <= request[c].grid
      BY <2>1 DEF Coverage!Fetched, CoverageInv, Fetching
    <2>3. slot.computed \in Int /\ request[c].grid \in Int
      BY DEF CoverageInv, CoverageTyped
    <2> QED BY <2>2, <2>3
  <1> QED BY InitCoverage, <1>1, <1>2, PTL
          DEF ServiceSpec, GridsNeverGoBack, Coverage!GridsNeverGoBack

-----------------------------------------------------------------------------
(* The photo cache. *)

LEMMA InitPhoto == ServiceInit => PhotoInv
  <1>1. ServiceInit => PhotoTyped
    BY PhotoAssumption
    DEF ServiceInit, Photo!Init, PhotoTyped, CachedRow, Request, Photo!NoRow,
        Photo!Idle, Photo!NotRecently, Photo!NotLately, Photo!Identifier
  <1> QED BY <1>1, PhotoAssumption
          DEF ServiceInit, Photo!Init, PhotoInv, HistoryIsTrue, RowIsRecent,
              LookupsAreRecent, LookupIsRecent, AnswersAreRecent,
              Photo!AnswersAreRecent, Photo!NoRow, Photo!Idle

\* A step of one request, which leaves it in state r.
LEMMA PhotoRequestStep ==
  ASSUME PhotoInv, NEW c \in Caller, NEW r \in Request,
         caller' = [caller EXCEPT ![c] = r],
         UNCHANGED <<photos, without, with>>,
         row' \in CachedRow,
         RowIsRecent', LookupIsRecent(r), AnswerIsRecent(r)
  PROVE  PhotoInv'
  <1>1. \A d \in Caller : caller'[d] \in {caller[d], r}
    BY DEF PhotoInv, PhotoTyped
  <1>2. PhotoTyped'
    BY DEF PhotoInv, PhotoTyped, Request
  <1>3. HistoryIsTrue'
    BY DEF PhotoInv, HistoryIsTrue
  <1>4. LookupsAreRecent'
    <2>1. \A d \in Caller : LookupIsRecent(caller'[d])
      BY <1>1 DEF PhotoInv, LookupsAreRecent
    <2> QED BY <2>1 DEF LookupsAreRecent, LookupIsRecent
  <1>5. AnswersAreRecent'
    <2>1. \A d \in Caller : AnswerIsRecent(caller'[d])
      BY <1>1 DEF PhotoInv, AnswersAreRecent, Photo!AnswersAreRecent,
                  AnswerIsRecent, AskedOf
    <2> QED BY <2>1 DEF AnswersAreRecent, Photo!AnswersAreRecent,
                        AnswerIsRecent, AskedOf
  <1> QED BY <1>2, <1>3, <1>4, <1>5 DEF PhotoInv

LEMMA PhotoAskKept ==
  ASSUME PhotoInv, NEW c \in Caller, NEW imo \in Imo \cup {Photo!None},
         Photo!Ask(c, imo)
  PROVE  PhotoInv'
  <1> DEFINE r == [phase |-> IF Photo!Fresh /\ Photo!IdentityOk(imo)
                               THEN IF row.found THEN "found" ELSE "missed"
                               ELSE IF imo = Photo!None THEN "byMmsi" ELSE "byImo",
                   imo |-> imo, late |-> FALSE]
  <1>1. r \in Request /\ r.imo = imo
    BY DEF Request
  <1>2. /\ caller' = [caller EXCEPT ![c] = r]
        /\ UNCHANGED <<photos, row, without, with>>
    BY DEF Photo!Ask
  <1>3. /\ row \in CachedRow
        /\ RowIsRecent /\ RowIsRecent'
        /\ without \in [Photo!Identifier -> Nat] /\ with \in Nat
        /\ NegativeTtl \in Nat /\ PositiveTtl \in Nat
    BY <1>2, PhotoAssumption DEF PhotoInv, PhotoTyped, RowIsRecent
  <1>4. LookupIsRecent(r)
    BY DEF LookupIsRecent
  <1>5. AnswerIsRecent(r)
    <2>1. CASE r.phase = "missed"
      <3>1. ~row.found /\ row.age < NegativeTtl /\ imo \in {Photo!None, row.imo}
        BY <1>3, <2>1 DEF Photo!Fresh, Photo!IdentityOk
      <3>2. \A k \in AskedOf(imo) : k \in AskedOf(row.imo) /\ k \in Photo!Identifier
        BY <3>1 DEF AskedOf, Photo!Identifier
      <3>3. \A k \in AskedOf(imo) : without[k] \in Nat /\ without[k] <= row.age + 1
        BY <1>3, <3>1, <3>2 DEF RowIsRecent
      <3>4. \A k \in AskedOf(imo) : without[k] <= NegativeTtl + 1
        BY <1>3, <3>1, <3>3 DEF CachedRow
      <3> QED BY <1>1, <2>1, <3>4 DEF AnswerIsRecent
    <2>2. CASE r.phase = "found"
      <3>1. row.found /\ row.age < PositiveTtl
        BY <1>3, <2>2 DEF Photo!Fresh
      <3>2. with <= PositiveTtl + 1
        BY <1>3, <3>1 DEF RowIsRecent, CachedRow
      <3> QED BY <2>2, <3>2 DEF AnswerIsRecent
    <2> QED BY <2>1, <2>2 DEF AnswerIsRecent
  <1> HIDE DEF r
  <1> QED BY <1>1, <1>2, <1>3, <1>4, <1>5, PhotoRequestStep

LEMMA PhotoLookUpKept ==
  ASSUME PhotoInv, NEW c \in Caller,
         Photo!LookUpByImo(c) \/ Photo!LookUpByMmsi(c) \/ Photo!Unavailable(c)
  PROVE  PhotoInv'
  <1>1. /\ caller[c] \in Request
        /\ row' \in CachedRow
        /\ RowIsRecent' /\ UNCHANGED <<photos, without, with>>
        /\ HistoryIsTrue /\ LookupIsRecent(caller[c])
    BY DEF PhotoInv, PhotoTyped, RowIsRecent, Request, LookupsAreRecent,
           Photo!LookUpByImo, Photo!LookUpByMmsi, Photo!Unavailable
  <1>2. CASE Photo!LookUpByImo(c)
    <2> DEFINE r == [caller[c] EXCEPT !.phase =
                       IF caller[c].imo \in photos THEN "storeFound" ELSE "byMmsi"]
    <2>1. /\ r \in Request /\ caller' = [caller EXCEPT ![c] = r]
          /\ r.imo = caller[c].imo
          /\ r.phase = IF caller[c].imo \in photos THEN "storeFound" ELSE "byMmsi"
          /\ Days(r) \in Nat
      BY <1>1, <1>2 DEF Request, Photo!LookUpByImo, Days
    <2>2. r.phase = "storeFound" => with = 0
      BY <1>1, <2>1 DEF HistoryIsTrue
    <2>3. r.phase = "byMmsi" /\ r.imo # Photo!None => without[r.imo] = 0
      BY <1>1, <2>1 DEF HistoryIsTrue, Request, Photo!Identifier
    <2> HIDE DEF r
    <2>4. LookupIsRecent(r) /\ AnswerIsRecent(r)
      BY <2>1, <2>2, <2>3 DEF LookupIsRecent, AnswerIsRecent
    <2> QED BY <1>1, <2>1, <2>4, PhotoRequestStep
  <1>3. CASE Photo!LookUpByMmsi(c)
    <2> DEFINE r == [caller[c] EXCEPT !.phase =
                       IF Photo!Mmsi \in photos THEN "storeFound" ELSE "storeMissed"]
    <2>1. /\ r \in Request /\ caller' = [caller EXCEPT ![c] = r]
          /\ r.imo = caller[c].imo
          /\ r.phase = IF Photo!Mmsi \in photos THEN "storeFound" ELSE "storeMissed"
          /\ Days(r) \in Nat /\ Days(r) = Days(caller[c])
      BY <1>1, <1>3 DEF Request, Photo!LookUpByMmsi, Days
    <2>2. r.phase = "storeFound" => with = 0
      BY <1>1, <2>1 DEF HistoryIsTrue
    <2>3. r.phase = "storeMissed" => without[Photo!Mmsi] = 0
      BY <1>1, <2>1 DEF HistoryIsTrue, Photo!Identifier
    <2>4. r.imo # Photo!None => without[r.imo] <= Days(r)
      BY <1>1, <1>3, <2>1 DEF LookupIsRecent, Photo!LookUpByMmsi
    <2> HIDE DEF r
    <2>5. LookupIsRecent(r) /\ AnswerIsRecent(r)
      BY <2>1, <2>2, <2>3, <2>4 DEF LookupIsRecent, AnswerIsRecent, AskedOf
    <2> QED BY <1>1, <2>1, <2>5, PhotoRequestStep
  <1>4. CASE Photo!Unavailable(c)
    <2>1. /\ Photo!Idle \in Request /\ caller' = [caller EXCEPT ![c] = Photo!Idle]
          /\ LookupIsRecent(Photo!Idle) /\ AnswerIsRecent(Photo!Idle)
      BY <1>4 DEF Request, Photo!Unavailable, Photo!Idle, LookupIsRecent,
                  AnswerIsRecent
    <2> QED BY <1>1, <2>1, PhotoRequestStep
  <1> QED BY <1>2, <1>3, <1>4

LEMMA PhotoStoreKept ==
  ASSUME PhotoInv, NEW c \in Caller, Photo!Store(c) PROVE PhotoInv'
  <1> DEFINE found == caller[c].phase = "storeFound"
             r == [caller[c] EXCEPT !.phase = IF found THEN "found" ELSE "missed"]
             new == [imo |-> caller[c].imo, found |-> found, age |-> 0]
  <1>1. /\ caller[c] \in Request /\ LookupIsRecent(caller[c]) /\ RowIsRecent
        /\ row \in CachedRow
        /\ without \in [Photo!Identifier -> Nat] /\ with \in Nat
        /\ NegativeTtl \in Nat /\ PositiveTtl \in Nat
    BY PhotoAssumption DEF PhotoInv, PhotoTyped, Request, LookupsAreRecent
  <1>2. /\ caller' = [caller EXCEPT ![c] = r] /\ row' \in {row, new}
        /\ UNCHANGED <<photos, without, with>>
        /\ found \/ caller[c].phase = "storeMissed"
    BY DEF Photo!Store
  <1>3. /\ r \in Request /\ r.imo = caller[c].imo
        /\ r.phase = IF found THEN "found" ELSE "missed"
        /\ new \in CachedRow
    BY <1>1 DEF Request, CachedRow
  <1>4. found => with <= 1
    BY <1>1 DEF LookupIsRecent, Days
  <1>5. \A k \in AskedOf(caller[c].imo) : without[k] \in Nat
    BY <1>1 DEF AskedOf, Request, Photo!Identifier
  <1>6. ~found => \A k \in AskedOf(caller[c].imo) : without[k] <= 1
    BY <1>1, <1>2, <1>5 DEF LookupIsRecent, Days
  <1>7. RowIsRecent'
    <2>1. CASE row' = row
      BY <1>1, <1>2, <2>1 DEF RowIsRecent
    <2>2. CASE row' = new
      <3>1. row'.imo = caller[c].imo /\ row'.found = found /\ row'.age = 0
        BY <2>2
      <3>2. with' <= 1 \/ ~found
        BY <1>2, <1>4
      <3>3. ~found => \A k \in AskedOf(row'.imo) : without'[k] <= 1
        BY <1>2, <1>6, <3>1
      <3>4. row'.age + 1 = 1
        BY <3>1
      <3> HIDE DEF found
      <3> QED BY <3>1, <3>2, <3>3, <3>4 DEF RowIsRecent
    <2> QED BY <1>2, <2>1, <2>2
  <1>8. LookupIsRecent(r)
    BY <1>3 DEF LookupIsRecent
  <1>9. AnswerIsRecent(r)
    <2> HIDE DEF r, found
    <2> QED BY <1>1, <1>3, <1>4, <1>5, <1>6 DEF AnswerIsRecent
  <1>10. row' \in CachedRow
    BY <1>1, <1>2, <1>3
  <1> HIDE DEF r
  <1> QED BY <1>2, <1>3, <1>7, <1>8, <1>9, <1>10, PhotoRequestStep

LEMMA PhotoNextDayKept == ASSUME PhotoInv, Photo!NextDay PROVE PhotoInv'
  <1>0. /\ PhotoTyped /\ HistoryIsTrue /\ RowIsRecent /\ LookupsAreRecent
        /\ NegativeTtl \in Nat /\ PositiveTtl \in Nat /\ NegativeTtl <= PositiveTtl
    BY PhotoAssumption DEF PhotoInv
  <1>1. /\ \A k \in Photo!Identifier : without'[k] \in Nat /\ without'[k] <= without[k] + 1
        /\ \A k \in Photo!Identifier \ photos : without'[k] = 0
        /\ without' \in [Photo!Identifier -> Nat]
        /\ with' \in Nat /\ with' <= with + 1
        /\ photos # {} => with' = 0
        /\ photos' = photos
    BY <1>0 DEF Photo!NextDay, Photo!Older, PhotoTyped, HistoryIsTrue,
                Photo!NotRecently, Photo!NotLately
  <1>2. /\ row' = [row EXCEPT !.age = Photo!Older(row.age, PositiveTtl)]
        /\ row' \in CachedRow
    BY <1>0 DEF Photo!NextDay, Photo!Older, PhotoTyped, CachedRow
  <1>3. /\ row'.imo = row.imo /\ row'.found = row.found
        /\ row.age \in Nat /\ row'.age \in Nat /\ PositiveTtl \in Nat
        /\ row'.age < PositiveTtl => row'.age = row.age + 1
    BY <1>0, <1>2 DEF Photo!Older, PhotoTyped, CachedRow
  <1>4. \A r \in Request \cup CachedRow : AskedOf(r.imo) \subseteq Photo!Identifier
    BY DEF AskedOf, Request, CachedRow, Photo!Identifier
  <1>5. without \in [Photo!Identifier -> Nat] /\ with \in Nat
    BY <1>0 DEF PhotoTyped
  <1>6. RowIsRecent'
    <2>1. ASSUME ~row'.found, row'.age < NegativeTtl, NEW k \in AskedOf(row'.imo)
          PROVE  without'[k] <= row'.age + 1
      <3>1. row'.age = row.age + 1 /\ ~row.found /\ row.age < NegativeTtl
        BY <1>0, <1>3, <2>1
      <3>2. k \in Photo!Identifier /\ without[k] <= row.age + 1
        BY <1>0, <1>3, <1>4, <2>1, <3>1 DEF RowIsRecent, PhotoTyped
      <3> QED BY <1>1, <1>3, <1>5, <3>1, <3>2
    <2>2. ASSUME row'.found, row'.age < PositiveTtl PROVE with' <= row'.age + 1
      BY <1>0, <1>1, <1>3, <1>5, <2>2 DEF RowIsRecent
    <2> QED BY <2>1, <2>2 DEF RowIsRecent
  <1>7. ASSUME NEW c \in Caller
        PROVE  /\ caller'[c] \in Request
               /\ caller'[c].phase \notin {"found", "missed"}
               /\ caller'[c].phase = "byMmsi" /\ caller'[c].imo # Photo!None =>
                    without'[caller'[c].imo] <= Days(caller'[c])
               /\ caller'[c].phase = "storeMissed" =>
                    \A k \in AskedOf(caller'[c].imo) : without'[k] <= Days(caller'[c])
               /\ caller'[c].phase = "storeFound" => with' <= Days(caller'[c])
    <2>1. caller[c] \in Request /\ LookupIsRecent(caller[c])
      BY <1>0 DEF PhotoTyped, LookupsAreRecent
    <2>2. CASE Photo!InProgress(c)
      <3>1. /\ caller'[c] = [caller[c] EXCEPT !.late = TRUE] /\ ~caller[c].late
            /\ caller[c].phase \in {"byImo", "byMmsi", "storeFound", "storeMissed"}
        BY <2>2 DEF Photo!NextDay, Photo!InProgress
      <3>2. /\ caller'[c].phase = caller[c].phase /\ caller'[c].imo = caller[c].imo
            /\ caller'[c] \in Request
            /\ Days(caller'[c]) = 1 /\ Days(caller[c]) = 0
        BY <2>1, <3>1 DEF Request, Days
      <3>3. /\ caller[c].imo # Photo!None => caller[c].imo \in AskedOf(caller[c].imo)
            /\ AskedOf(caller[c].imo) \subseteq Photo!Identifier
        BY <1>4, <2>1 DEF AskedOf
      <3>4. \A k \in AskedOf(caller[c].imo) : without[k] <= 0 => without'[k] <= 1
        BY <1>1, <1>5, <3>3
      <3>5. with <= 0 => with' <= 1
        BY <1>1, <1>5
      <3> QED BY <2>1, <3>1, <3>2, <3>3, <3>4, <3>5 DEF LookupIsRecent
    <2>3. CASE ~Photo!InProgress(c)
      <3>1. caller'[c] = Photo!Idle
        BY <2>3 DEF Photo!NextDay
      <3> QED BY <3>1 DEF Photo!Idle, Request
    <2> QED BY <2>2, <2>3
  <1>8. PhotoTyped'
    <2>1. caller' = [c \in Caller |-> caller'[c]]
      BY DEF Photo!NextDay
    <2>2. caller' \in [Caller -> Request]
      BY <1>7, <2>1
    <2> QED BY <1>0, <1>1, <1>2, <2>2 DEF PhotoTyped
  <1>9. HistoryIsTrue'
    BY <1>1 DEF HistoryIsTrue
  <1>10. LookupsAreRecent'
    BY <1>7 DEF LookupsAreRecent, LookupIsRecent
  <1>11. AnswersAreRecent'
    BY <1>7 DEF AnswersAreRecent, Photo!AnswersAreRecent
  <1> QED BY <1>6, <1>8, <1>9, <1>10, <1>11 DEF PhotoInv

LEMMA PhotoKept ==
  ASSUME PhotoInv, [Photo!Next]_photoVars PROVE PhotoInv'
  <1>1. ASSUME NEW k \in Photo!Identifier, Photo!Edit(k) PROVE PhotoInv'
    <2>1. /\ without \in [Photo!Identifier -> Nat] /\ with \in Nat
          /\ \A j \in Photo!Identifier : without'[j] = IF j = k THEN 0 ELSE without[j]
          /\ without' \in [Photo!Identifier -> Nat] /\ with' = 0
          /\ UNCHANGED <<row, caller>> /\ photos' \subseteq Photo!Identifier
          /\ \A j \in Photo!Identifier \ photos' : j = k \/ j \notin photos
      BY <1>1 DEF Photo!Edit, PhotoInv, PhotoTyped
    <2>2. PhotoTyped' /\ HistoryIsTrue'
      BY <2>1 DEF PhotoInv, PhotoTyped, HistoryIsTrue
    <2>3. ASSUME NEW r \in Request \cup CachedRow, NEW j \in AskedOf(r.imo)
          PROVE  j \in Photo!Identifier
      BY DEF AskedOf, Request, CachedRow, Photo!Identifier
    <2>4. RowIsRecent'
      BY <2>1, <2>3 DEF RowIsRecent, PhotoInv, PhotoTyped, CachedRow
    <2>5. LookupsAreRecent'
      BY <2>1, <2>3 DEF LookupsAreRecent, LookupIsRecent, PhotoInv, PhotoTyped, Days,
                        AskedOf
    <2>6. AnswersAreRecent'
      BY <2>1, <2>3, PhotoAssumption
      DEF AnswersAreRecent, Photo!AnswersAreRecent, PhotoInv, PhotoTyped, AskedOf
    <2> QED BY <2>2, <2>4, <2>5, <2>6 DEF PhotoInv
  <1>2. CASE UNCHANGED photoVars
    BY <1>2 DEF photoVars, PhotoInv, PhotoTyped, HistoryIsTrue, RowIsRecent,
        LookupsAreRecent, LookupIsRecent, Days, AskedOf, AnswersAreRecent,
        Photo!AnswersAreRecent
  <1> QED BY <1>1, <1>2, PhotoAskKept, PhotoLookUpKept, PhotoStoreKept,
             PhotoNextDayKept DEF Photo!Next

\* "Wikidata being down must not cache a false no photo": a caller is told
\* there is no photo only if, within a week and a lookup, there was none by
\* their own IMO and none by the MMSI, and that there is one only if within a
\* month there was; in whatever order concurrent lookups overwrite each other.
THEOREM PhotosAreRecent == ServiceSpec => []AnswersAreRecent
  <1>1. PhotoInv /\ [ServiceNext]_serviceVars => PhotoInv'
    BY StepsOfParts, PhotoKept
  <1>2. PhotoInv => AnswersAreRecent
    BY DEF PhotoInv
  <1> QED BY InitPhoto, <1>1, <1>2, PTL DEF ServiceSpec

-----------------------------------------------------------------------------
(* Accounts, keys and roles. *)

RolesTyped ==
  /\ role \in [User -> Roles \cup {"none"}]
  /\ joined \in Seq(User) /\ Len(joined) = Cardinality(Members)
  /\ JoinedAreMembers

LEMMA InitAccounts == ServiceInit => AccountsInv
  <1> SUFFICES ASSUME Init PROVE AccountsInv
    BY DEF ServiceInit
  <1>1. Members = {} /\ joined = <<>> /\ joined \in Seq(User) /\ Len(joined) = 0
    BY DEF Init, Members
  <1>2. IsFiniteSet(Members) /\ Cardinality(Members) = 0
    BY <1>1, FS_EmptySet
  <1>3. JoinedAreMembers
    BY <1>1, <1>2 DEF JoinedAreMembers
  <1>4. TypeOK
    BY <1>1, <1>2, ControlAssumption, ControlBounds
    DEF Init, TypeOK, Roles, Tiers, Time, Stamp, Members
  <1>5. RoleChanges /\ AdminsRemain /\ LinksUsed /\ LinksWorkOnce
    BY DEF Init, RoleChanges, AdminsRemain, LinksUsed, LinksWorkOnce
  <1>6. UseRecorded
    BY ControlAssumption DEF Init, UseRecorded, Never
  <1> QED BY <1>3, <1>4, <1>5, <1>6 DEF AccountsInv

\* An account is found or made; nobody's role changes.
LEMMA UpsertKeepsRoles ==
  ASSUME RolesTyped, NEW u \in User, Upsert(u) PROVE RolesTyped' /\ Admins' = Admins
  <1>1. CASE role[u] # "none"
    <2>1. UNCHANGED <<role, joined>>
      BY <1>1 DEF Upsert
    <2> QED BY <2>1 DEF RolesTyped, JoinedAreMembers, Members, Admins
  <1>2. CASE role[u] = "none"
    <2>1. role' = [role EXCEPT ![u] = "user"] /\ joined' = Append(joined, u)
      BY <1>2 DEF Upsert
    <2>2. role' \in [User -> Roles \cup {"none"}] /\ Admins' = Admins
      BY <1>2, <2>1 DEF RolesTyped, Roles, Admins
    <2>3. Members' = Members \cup {u} /\ u \notin Members
      BY <1>2, <2>1 DEF RolesTyped, Members
    <2>4. /\ IsFiniteSet(Members') /\ Cardinality(Members') = Cardinality(Members) + 1
      BY <2>3, FS_AddElement DEF RolesTyped, JoinedAreMembers
    <2>5. joined' \in Seq(User) /\ Len(joined') = Len(joined) + 1
      BY <2>1 DEF RolesTyped
    <2>6. ASSUME NEW n \in 1..Len(joined') PROVE role'[joined'[n]] # "none"
      BY <2>1, <2>6 DEF RolesTyped, JoinedAreMembers
    <2> QED BY <2>2, <2>4, <2>5, <2>6 DEF RolesTyped, JoinedAreMembers
  <1> QED BY <1>1, <1>2

\* Roles of accounts change, but there are no more and no fewer accounts.
LEMMA SameMembers ==
  ASSUME RolesTyped, joined' = joined, role' \in [User -> Roles \cup {"none"}],
         \A u \in User : role'[u] = "none" <=> role[u] = "none"
  PROVE  RolesTyped'
  <1>1. Members' = Members
    BY DEF Members
  <1>2. \A n \in 1..Len(joined) : joined[n] \in User
    BY DEF RolesTyped
  <1> QED BY <1>1, <1>2 DEF RolesTyped, JoinedAreMembers

LEMMA LinkWorksFor ==
  ASSUME TypeOK, NEW l \in Link, LinkWorks(l)
  PROVE  links[l] \in [email : User, expires : Nat, used : {FALSE}]
  BY DEF TypeOK, LinkWorks

\* What a change of roles does to the accounts and to the admins.
LEMMA ApplyKeepsRoles ==
  ASSUME AccountsInv, NEW q \in requests, ApplyUpdate(q)
  PROVE  RolesTyped' /\ AdminsRemain' /\ override' \in [User -> Tiers]
  <1>1. /\ RolesTyped /\ q \in Update /\ override \in [User -> Tiers]
        /\ role \in [User -> Roles \cup {"none"}]
        /\ q.role # Unchanged => q.by # q.on
        /\ q.by \in User /\ q.on \in User
        /\ q.role \in Roles \cup {Unchanged} /\ q.tier \in Tiers \cup {Unchanged}
    BY DEF AccountsInv, TypeOK, RolesTyped, RoleChanges, Members, Update
  <1>2. CASE role[q.on] = "none"
    <2>1. UNCHANGED <<role, override, joined>>
      BY <1>2 DEF ApplyUpdate
    <2>2. AdminsRemain'
      BY <2>1 DEF AccountsInv, AdminsRemain, Admins, ApplyUpdate
    <2> QED BY <1>1, <2>1, <2>2, SameMembers
  <1>3. CASE role[q.on] # "none"
    <2>1. /\ role' = [role EXCEPT ![q.on] = IF q.role = Unchanged THEN role[q.on]
                                                                ELSE q.role]
          /\ override' = [override EXCEPT ![q.on] =
                            IF q.tier = Unchanged THEN override[q.on] ELSE q.tier]
          /\ joined' = joined
      BY <1>3 DEF ApplyUpdate
    <2>2. /\ role' \in [User -> Roles \cup {"none"}]
          /\ \A u \in User : role'[u] = "none" <=> role[u] = "none"
          /\ override' \in [User -> Tiers]
      BY <1>1, <1>3, <2>1 DEF Roles
    <2>3. ASSUME authority' = "kept" PROVE Admins' # {}
      <3>1. authority = "kept" /\ (q.role = Unchanged \/ role[q.by] = "admin")
        BY <2>3 DEF ApplyUpdate
      <3>2. CASE q.role = Unchanged
        <4>1. role' = role
          BY <1>1, <2>1, <3>2
        <4> QED BY <3>1, <4>1 DEF AccountsInv, AdminsRemain, Admins
      <3>3. CASE q.role # Unchanged
        <4>1. q.by \in Admins'
          BY <1>1, <2>1, <3>1, <3>3 DEF Admins
        <4> QED BY <4>1
      <3> QED BY <3>2, <3>3
    <2> QED BY <1>1, <2>1, <2>2, <2>3, SameMembers DEF AdminsRemain
  <1> QED BY <1>2, <1>3

\* Whoever joined first becomes an admin if there is none.
LEMMA RestartKeepsRoles ==
  ASSUME AccountsInv, Restart PROVE RolesTyped' /\ AdminsRemain'
  <1>1. RolesTyped /\ role \in [User -> Roles \cup {"none"}] /\ joined \in Seq(User)
    BY DEF AccountsInv, TypeOK, RolesTyped, Members
  <1>2. CASE Admins = {} /\ joined # <<>>
    <2>1. /\ Head(joined) \in User /\ role[Head(joined)] # "none"
      BY <1>1, <1>2 DEF RolesTyped, JoinedAreMembers
    <2>2. role' = [role EXCEPT ![Head(joined)] = "admin"] /\ joined' = joined
      BY <1>2 DEF Restart
    <2>3. /\ role' \in [User -> Roles \cup {"none"}] /\ Head(joined) \in Admins'
          /\ \A u \in User : role'[u] = "none" <=> role[u] = "none"
      BY <1>1, <2>1, <2>2 DEF Roles, Admins
    <2> QED BY <1>1, <2>2, <2>3, SameMembers DEF AdminsRemain
  <1>3. CASE ~(Admins = {} /\ joined # <<>>)
    <2>1. role' = role /\ joined' = joined
      BY <1>3 DEF Restart
    <2>2. authority' = "kept" => Admins' # {}
      BY <1>3, <2>1 DEF Restart, Admins
    <2> QED BY <1>1, <2>1, <2>2, SameMembers DEF AdminsRemain
  <1> QED BY <1>2, <1>3

LEMMA AccountsTypesKept == ASSUME AccountsInv, [Next]_vars PROVE TypeOK'
  <1>0. /\ TypeOK /\ RolesTyped /\ now \in Time /\ Never \in Stamp
        /\ Window \in Nat /\ Throttle \in Nat /\ LinkTtl \in Nat /\ MaxTime \in Nat
    BY ControlAssumption, ControlBounds
    DEF AccountsInv, TypeOK, RolesTyped, Members, Stamp
  <1>1. ASSUME NEW u \in User, SignInWithProvider(u), UNCHANGED concern PROVE TypeOK'
    BY <1>0, <1>1, UpsertKeepsRoles DEF SignInWithProvider, TypeOK, RolesTyped, Members
  <1>2. ASSUME NEW l \in Link, VerifyLink(l), UNCHANGED concern PROVE TypeOK'
    <2>1. /\ links[l] \in [email : User, expires : Nat, used : {FALSE}]
          /\ links' = [links EXCEPT ![l].used = TRUE]
          /\ Upsert(links[l].email)
          /\ signIns' = signIns \cup
               {[link |-> l, as |-> links[l].email, at |-> now]}
          /\ UNCHANGED <<override, keys, requests, now, presented, authority>>
      BY <1>0, <1>2, LinkWorksFor DEF VerifyLink, SignIn
    <2>2. RolesTyped'
      BY <1>0, <2>1, UpsertKeepsRoles
    <2>3. links' \in [Link -> {NoLink} \cup [email : User, expires : Nat, used : BOOLEAN]]
      <3>1. [links[l] EXCEPT !.used = TRUE]
              \in [email : User, expires : Nat, used : BOOLEAN]
        BY <2>1
      <3> QED BY <1>0, <2>1, <3>1 DEF TypeOK
    <2>4. signIns' \subseteq [link : Link, as : User, at : Time]
      BY <1>0, <2>1 DEF TypeOK
    <2> QED BY <1>0, <1>2, <2>1, <2>2, <2>3, <2>4 DEF TypeOK, RolesTyped, Members
  <1>3. ASSUME NEW q \in Update, CheckUpdate(q), UNCHANGED concern PROVE TypeOK'
    BY <1>0, <1>3 DEF CheckUpdate, accounts, TypeOK
  <1>4. ASSUME NEW q \in requests, ApplyUpdate(q), UNCHANGED concern PROVE TypeOK'
    BY <1>0, <1>4, ApplyKeepsRoles DEF ApplyUpdate, TypeOK, RolesTyped, Members
  <1>5. ASSUME Restart, UNCHANGED concern PROVE TypeOK'
    BY <1>0, <1>5, RestartKeepsRoles DEF Restart, TypeOK, RolesTyped, Members
  <1>6. ASSUME NEW l \in Link, NEW u \in User, RequestLink(l, u), UNCHANGED concern
        PROVE  TypeOK'
    <2>1. now + LinkTtl \in Nat
      BY <1>0 DEF Time
    <2> QED BY <1>0, <1>6, <2>1 DEF RequestLink, accounts, TypeOK
  <1>7. ASSUME NEW k \in Key, ValidateKey(k) \/ Heartbeat(k), UNCHANGED concern
        PROVE  TypeOK'
    <2>1. /\ keys[k] \in [kind : {"live", "feed", "station"}, owner : User,
                          revoked : BOOLEAN, used : Stamp, seen : Stamp]
          /\ now \in Stamp
      BY <1>0, <1>7 DEF ValidateKey, Heartbeat, TypeOK, NoKey, Stamp
    <2>2. /\ [keys[k] EXCEPT !.used = IF TouchDue(k) THEN now ELSE @]
               \in [kind : {"live", "feed", "station"}, owner : User,
                    revoked : BOOLEAN, used : Stamp, seen : Stamp]
          /\ [keys[k] EXCEPT !.seen = now]
               \in [kind : {"live", "feed", "station"}, owner : User,
                    revoked : BOOLEAN, used : Stamp, seen : Stamp]
      BY <2>1
    <2>3. CASE ValidateKey(k)
      <3>1. CASE UNCHANGED <<keys, presented>>
        BY <1>0, <1>7, <2>3, <3>1 DEF ValidateKey, accounts, TypeOK
      <3>2. CASE ~UNCHANGED <<keys, presented>>
        <4>1. /\ keys' = [keys EXCEPT ![k].used = IF TouchDue(k) THEN now ELSE @]
              /\ presented' = [presented EXCEPT ![k] = now]
              /\ UNCHANGED <<role, joined, override, links, requests, now, signIns,
                             authority>>
          BY <2>3, <3>2 DEF ValidateKey, accounts
        <4> QED BY <1>0, <1>7, <2>1, <2>2, <4>1 DEF TypeOK
      <3> QED BY <3>1, <3>2
    <2>4. CASE Heartbeat(k)
      BY <1>0, <1>7, <2>2, <2>4 DEF Heartbeat, accounts, TypeOK
    <2> QED BY <1>7, <2>3, <2>4
  <1>8. ASSUME NEW u \in User, NEW k \in Key, RevokeKey(u, k), UNCHANGED concern
        PROVE  TypeOK'
    <2>1. keys[k] \in [kind : {"live", "feed", "station"}, owner : User,
                       revoked : BOOLEAN, used : Stamp, seen : Stamp]
      BY <1>0, <1>8 DEF RevokeKey, TypeOK
    <2>2. [keys[k] EXCEPT !.revoked = TRUE]
            \in [kind : {"live", "feed", "station"}, owner : User,
                 revoked : BOOLEAN, used : Stamp, seen : Stamp]
      BY <2>1
    <2> QED BY <1>0, <1>8, <2>2 DEF RevokeKey, accounts, TypeOK
  <1>9. ASSUME NEW u \in User, NEW k \in Key, NEW kind \in {"live", "feed", "station"},
               CreateKey(u, k, kind), UNCHANGED concern
        PROVE  TypeOK'
    BY <1>0, <1>9 DEF CreateKey, accounts, TypeOK
  <1>10. ASSUME Tick, UNCHANGED concern PROVE TypeOK'
    BY <1>0, <1>10 DEF Tick, accounts, TypeOK, Time
  <1>11. CASE UNCHANGED vars
    BY <1>0, <1>11 DEF vars, TypeOK
  <1> QED BY <1>1, <1>2, <1>3, <1>4, <1>5, <1>6, <1>7, <1>8, <1>9, <1>10, <1>11
          DEF Next, RolesNext, LinksNext, KeysNext

LEMMA MembersKept == ASSUME AccountsInv, [Next]_vars PROVE JoinedAreMembers'
  <1>0. TypeOK /\ RolesTyped
    BY DEF AccountsInv, TypeOK, RolesTyped, Members
  <1>1. ASSUME NEW u \in User, Upsert(u) PROVE JoinedAreMembers'
    BY <1>0, <1>1, UpsertKeepsRoles DEF RolesTyped
  <1>2. ASSUME NEW u \in User, SignInWithProvider(u) PROVE JoinedAreMembers'
    BY <1>1, <1>2 DEF SignInWithProvider
  <1>3. ASSUME NEW l \in Link, VerifyLink(l) PROVE JoinedAreMembers'
    <2>1. links[l].email \in User /\ Upsert(links[l].email)
      BY <1>0, <1>3, LinkWorksFor DEF VerifyLink
    <2> QED BY <1>1, <2>1
  <1>4. ASSUME NEW q \in requests, ApplyUpdate(q) PROVE JoinedAreMembers'
    BY <1>4, ApplyKeepsRoles DEF RolesTyped
  <1>5. CASE Restart
    BY <1>5, RestartKeepsRoles DEF RolesTyped
  <1>6. ASSUME UNCHANGED <<role, joined>> PROVE JoinedAreMembers'
    BY <1>0, <1>6 DEF RolesTyped, JoinedAreMembers, Members
  <1> QED BY <1>2, <1>3, <1>4, <1>5, <1>6
          DEF Next, RolesNext, LinksNext, KeysNext, CheckUpdate, RequestLink, ValidateKey,
              Heartbeat, RevokeKey, CreateKey, Tick, accounts, vars

LEMMA AdminsKept ==
  ASSUME AccountsInv, [Next]_vars PROVE RoleChanges' /\ AdminsRemain'
  <1>0. TypeOK /\ RolesTyped /\ RoleChanges /\ AdminsRemain
    BY DEF AccountsInv, TypeOK, RolesTyped, Members
  <1>1. ASSUME NEW u \in User, Upsert(u), UNCHANGED <<requests, authority>>
        PROVE  RoleChanges' /\ AdminsRemain'
    BY <1>0, <1>1, UpsertKeepsRoles DEF RoleChanges, AdminsRemain
  <1>2. ASSUME NEW u \in User, SignInWithProvider(u)
        PROVE  RoleChanges' /\ AdminsRemain'
    BY <1>1, <1>2 DEF SignInWithProvider
  <1>3. ASSUME NEW l \in Link, VerifyLink(l) PROVE RoleChanges' /\ AdminsRemain'
    <2>1. links[l].email \in User /\ Upsert(links[l].email)
          /\ UNCHANGED <<requests, authority>>
      BY <1>0, <1>3, LinkWorksFor DEF VerifyLink
    <2> QED BY <1>1, <2>1
  <1>4. ASSUME NEW q \in Update, CheckUpdate(q) PROVE RoleChanges' /\ AdminsRemain'
    BY <1>0, <1>4
    DEF CheckUpdate, MayUpdate, accounts, RoleChanges, AdminsRemain, Admins
  <1>5. ASSUME NEW q \in requests, ApplyUpdate(q)
        PROVE  RoleChanges' /\ AdminsRemain'
    BY <1>0, <1>5, ApplyKeepsRoles DEF ApplyUpdate, RoleChanges
  <1>6. CASE Restart
    BY <1>6, RestartKeepsRoles DEF Restart, RoleChanges
  <1>7. ASSUME UNCHANGED <<role, requests, authority>>
        PROVE  RoleChanges' /\ AdminsRemain'
    BY <1>0, <1>7 DEF RoleChanges, AdminsRemain, Admins
  <1> QED BY <1>2, <1>3, <1>4, <1>5, <1>6, <1>7
          DEF Next, RolesNext, LinksNext, KeysNext, RequestLink, ValidateKey, Heartbeat,
              RevokeKey, CreateKey, Tick, accounts, vars

LEMMA LinksKept ==
  ASSUME AccountsInv, [Next]_vars PROVE LinksUsed' /\ LinksWorkOnce'
  <1>0. TypeOK /\ LinksUsed /\ LinksWorkOnce
    BY DEF AccountsInv
  <1>1. ASSUME NEW l \in Link, VerifyLink(l) PROVE LinksUsed' /\ LinksWorkOnce'
    <2> DEFINE s == [link |-> l, as |-> links[l].email, at |-> now]
    <2>1. /\ links[l] \in [email : User, expires : Nat, used : {FALSE}]
          /\ now <= links[l].expires
          /\ links' = [links EXCEPT ![l].used = TRUE]
          /\ signIns' = signIns \cup {s}
      BY <1>0, <1>1, LinkWorksFor DEF VerifyLink, LinkWorks, SignIn
    <2>2. \A t \in signIns : t.link # l /\ links'[t.link] = links[t.link]
      <3> SUFFICES ASSUME NEW t \in signIns
                   PROVE  t.link # l /\ links'[t.link] = links[t.link]
        OBVIOUS
      <3>1. links[t.link].used = TRUE /\ links[l].used = FALSE /\ t.link \in Link
        BY <1>0, <2>1 DEF LinksUsed, TypeOK
      <3> QED BY <1>0, <2>1, <3>1 DEF TypeOK
    <2>3. /\ s.link = l /\ s.as = links[l].email /\ s.at = now
          /\ links'[l] \in [email : {s.as}, expires : Nat, used : {TRUE}]
          /\ links'[l].expires = links[l].expires
          /\ links'[l].email = links[l].email
      BY <1>0, <2>1 DEF TypeOK
    <2> HIDE DEF s
    <2>4. LinksUsed'
      BY <1>0, <2>1, <2>2, <2>3 DEF LinksUsed
    <2>5. LinksWorkOnce'
      BY <1>0, <2>1, <2>2, <2>3 DEF LinksWorkOnce
    <2> QED BY <2>4, <2>5
  <1>2. ASSUME NEW l \in Link, NEW u \in User, RequestLink(l, u)
        PROVE  LinksUsed' /\ LinksWorkOnce'
    <2>1. /\ signIns' = signIns /\ links[l] = NoLink
          /\ \A j \in Link \ {l} : links'[j] = links[j]
      BY <1>0, <1>2 DEF RequestLink, TypeOK
    <2>2. \A s \in signIns : s.link # l /\ s.link \in Link
      <3> SUFFICES ASSUME NEW s \in signIns PROVE s.link # l /\ s.link \in Link
        OBVIOUS
      <3>1. links[s.link] \in [email : {s.as}, expires : Nat, used : {TRUE}]
        BY <1>0 DEF LinksUsed
      <3>2. s.link # l
        <4>1. "used" \in DOMAIN links[s.link] /\ "used" \notin DOMAIN NoLink
          BY <3>1 DEF NoLink
        <4> QED BY <2>1, <4>1
      <3> QED BY <1>0, <3>2 DEF TypeOK
    <2> QED BY <1>0, <2>1, <2>2 DEF LinksUsed, LinksWorkOnce
  <1>3. ASSUME UNCHANGED <<links, signIns>> PROVE LinksUsed' /\ LinksWorkOnce'
    BY <1>0, <1>3 DEF LinksUsed, LinksWorkOnce
  <1> QED BY <1>1, <1>2, <1>3
          DEF Next, RolesNext, LinksNext, KeysNext, SignInWithProvider, CheckUpdate,
              ApplyUpdate, Restart, ValidateKey, Heartbeat, RevokeKey, CreateKey,
              Tick, vars

LEMMA UseKept == ASSUME AccountsInv, [Next]_vars PROVE UseRecorded'
  <1>0. /\ TypeOK /\ UseRecorded /\ now \in Int /\ Never \in Int
        /\ Window \in Nat /\ Throttle \in Nat
        /\ \A k \in Key : presented[k] \in Int
    BY ControlAssumption, ControlBounds
    DEF AccountsInv, TypeOK, Never, Time, Stamp
  <1>1. ASSUME NEW k \in Key, ValidateKey(k), ~UNCHANGED <<keys, presented>>
        PROVE  UseRecorded'
    <2>1. /\ keys[k] \in [kind : {"live", "feed", "station"}, owner : User,
                          revoked : BOOLEAN, used : Stamp, seen : Stamp]
          /\ keys[k].used \in Int /\ keys[k] # NoKey
          /\ keys' = [keys EXCEPT ![k].used = IF TouchDue(k) THEN now ELSE keys[k].used]
          /\ presented' = [presented EXCEPT ![k] = now]
          /\ now' = now
      BY <1>0, <1>1 DEF ValidateKey, TypeOK, NoKey, Stamp, Time
    <2>2. /\ keys'[k] # NoKey /\ keys'[k].kind = keys[k].kind
          /\ keys'[k].used = IF TouchDue(k) THEN now ELSE keys[k].used
          /\ presented'[k] = now
          /\ \A j \in Key \ {k} : keys'[j] = keys[j] /\ presented'[j] = presented[j]
      BY <1>0, <2>1 DEF TypeOK, NoKey
    <2>3. ASSUME keys[k].kind # "live"
          PROVE  now - Throttle <= keys'[k].used /\ keys'[k].used <= now
      <3>1. keys[k].used <= presented[k] /\ presented[k] <= now
        BY <1>0, <2>1, <2>3 DEF UseRecorded
      <3> QED BY <1>0, <2>1, <2>2, <2>3, <3>1 DEF TouchDue
    <2> QED BY <1>0, <2>1, <2>2, <2>3 DEF UseRecorded
  <1>2. ASSUME NEW u \in User, NEW k \in Key, NEW kind \in {"live", "feed", "station"},
               CreateKey(u, k, kind)
        PROVE  UseRecorded'
    <2>1. /\ keys[k] = NoKey /\ presented' = presented /\ now' = now
          /\ keys'[k] # NoKey /\ keys'[k].used = Never
          /\ \A j \in Key \ {k} : keys'[j] = keys[j]
      BY <1>0, <1>2 DEF CreateKey, TypeOK, NoKey
    <2>2. presented[k] = Never /\ Never - Throttle <= Never
      BY <1>0, <2>1 DEF UseRecorded
    <2> QED BY <1>0, <2>1, <2>2 DEF UseRecorded
  <1>3. ASSUME NEW k \in Key, Heartbeat(k) \/ \E u \in User : RevokeKey(u, k)
        PROVE  UseRecorded'
    <2>1. /\ keys[k] \in [kind : {"live", "feed", "station"}, owner : User,
                          revoked : BOOLEAN, used : Stamp, seen : Stamp]
          /\ presented' = presented /\ now' = now
          /\ \/ keys' = [keys EXCEPT ![k].seen = now]
             \/ keys' = [keys EXCEPT ![k].revoked = TRUE]
      BY <1>0, <1>3 DEF Heartbeat, RevokeKey, TypeOK, NoKey
    <2>2. /\ keys'[k] # NoKey /\ keys'[k].used = keys[k].used
          /\ keys'[k].kind = keys[k].kind
          /\ \A j \in Key \ {k} : keys'[j] = keys[j]
      BY <1>0, <2>1 DEF TypeOK, NoKey
    <2>3. keys[k] # NoKey
      BY <2>1 DEF NoKey
    <2> SUFFICES ASSUME NEW j \in Key
                 PROVE  /\ presented[j] <= now
                        /\ keys'[j] = NoKey => presented[j] = Never
                        /\ keys'[j] # NoKey /\ keys'[j].kind # "live" =>
                             presented[j] - Throttle <= keys'[j].used
                               /\ keys'[j].used <= presented[j]
      BY <2>1 DEF UseRecorded
    <2>4. CASE j = k
      BY <1>0, <2>2, <2>3, <2>4 DEF UseRecorded
    <2>5. CASE j # k
      BY <1>0, <2>2, <2>5 DEF UseRecorded
    <2> QED BY <2>4, <2>5
  <1>4. ASSUME UNCHANGED <<keys, presented>>, now' \in {now, now + 1} PROVE UseRecorded'
    BY <1>0, <1>4 DEF UseRecorded
  <1>6. ASSUME NEW k \in Key, ValidateKey(k) PROVE now' = now
    BY <1>6 DEF ValidateKey
  <1>5. Next => UNCHANGED now \/ Tick
    BY DEF Next, RolesNext, LinksNext, KeysNext, SignInWithProvider, CheckUpdate, ApplyUpdate,
           Restart, RequestLink, VerifyLink, ValidateKey, Heartbeat, RevokeKey,
           CreateKey
  <1> QED BY <1>1, <1>2, <1>3, <1>4, <1>5, <1>6
          DEF Next, RolesNext, LinksNext, KeysNext, SignInWithProvider, CheckUpdate,
              ApplyUpdate, Restart, RequestLink, VerifyLink, Tick, vars

LEMMA AccountsKept == AccountsInv /\ [ServiceNext]_serviceVars => AccountsInv'
  BY StepsOfParts, AccountsTypesKept, MembersKept, AdminsKept, LinksKept, UseKept
  DEF AccountsInv

\* A feeding key's recorded use is within the throttle of its last
\* presentation, so the two agree about the window up to the throttle.
LEMMA UseFollowsPresentation == AccountsInv => TierFollowsFeeding
  <1> SUFFICES ASSUME AccountsInv, NEW u \in User, override[u] = "auto"
               PROVE  LET feeding == {k \in OwnKeys(u) :
                                        keys[k].kind # "live" /\ ~keys[k].revoked}
                      IN  /\ (\E k \in feeding :
                                presented[k] >= now - (Window - Throttle))
                               => Tier(u) = "contributor"
                          /\ Tier(u) = "contributor" =>
                               \/ \E k \in feeding : presented[k] >= now - Window
                               \/ \E k \in OwnKeys(u) : keys[k].seen >= now - Window
    BY DEF TierFollowsFeeding
  <1> DEFINE feeding == {k \in OwnKeys(u) : keys[k].kind # "live" /\ ~keys[k].revoked}
  <1>1. /\ now \in Int /\ Window \in Nat /\ Throttle \in Nat
        /\ \A k \in OwnKeys(u) :
             /\ k \in Key /\ keys[k] # NoKey
             /\ presented[k] \in Int /\ keys[k].used \in Int
    BY ControlAssumption, ControlBounds
    DEF AccountsInv, TypeOK, Stamp, Time, Never, OwnKeys
  <1>2. ASSUME NEW k \in feeding
        PROVE  /\ presented[k] - Throttle <= keys[k].used
               /\ keys[k].used <= presented[k]
    BY <1>1 DEF AccountsInv, UseRecorded
  <1>3. Tier(u) = IF \E k \in OwnKeys(u) :
                       \/ keys[k].kind # "live" /\ ~keys[k].revoked
                            /\ keys[k].used >= now - Window
                       \/ keys[k].seen >= now - Window
                    THEN "contributor" ELSE "free"
    BY DEF Tier
  <1>4. ASSUME NEW k \in feeding, presented[k] >= now - (Window - Throttle)
        PROVE  Tier(u) = "contributor"
    <2>1. keys[k].used >= now - Window
      BY <1>1, <1>2, <1>4
    <2> QED BY <1>3, <2>1
  <1>5. ASSUME Tier(u) = "contributor",
               ~\E k \in OwnKeys(u) : keys[k].seen >= now - Window
        PROVE  \E k \in feeding : presented[k] >= now - Window
    <2>1. PICK k \in feeding : keys[k].used >= now - Window
      BY <1>3, <1>5
    <2>2. presented[k] >= now - Window
      BY <1>1, <1>2, <2>1
    <2> QED BY <2>2
  <1> QED BY <1>4, <1>5

\* "You cannot change your own role": the panel leaves at least one admin,
\* whoever promotes and demotes whom in whatever order, as long as no update is
\* applied after its caller lost the role it was checked for.
THEOREM AnAdminRemains == ServiceSpec => []AdminsRemain
  <1>1. AccountsInv => AdminsRemain
    BY DEF AccountsInv
  <1> QED BY InitAccounts, AccountsKept, <1>1, PTL DEF ServiceSpec

\* "A single-use sign-in link", for the address it was sent to and until it
\* expires, however often and when it is followed.
THEOREM LinksSignInOnce == ServiceSpec => []LinksWorkOnce
  <1>1. AccountsInv => LinksWorkOnce
    BY DEF AccountsInv
  <1> QED BY InitAccounts, AccountsKept, <1>1, PTL DEF ServiceSpec

\* "The contributor tier follows automatically from feeding the network",
\* although only one presentation in five minutes is recorded: a presentation
\* counts unless it was due to be recorded and the record failed.
THEOREM FeedersContribute == ServiceSpec => []TierFollowsFeeding
  BY InitAccounts, AccountsKept, UseFollowsPresentation, PTL DEF ServiceSpec

\* Accounts, keys, links and updates are well typed, and the accounts in the
\* order they joined are all the accounts.
THEOREM AccountsTyped == ServiceSpec => []TypeOK
  <1>1. AccountsInv => TypeOK
    BY DEF AccountsInv
  <1> QED BY InitAccounts, AccountsKept, <1>1, PTL DEF ServiceSpec

-----------------------------------------------------------------------------
(* Sign-in. *)

UserRow == [email : Address \cup {In!None}, github : Identity \cup {In!None},
            google : Identity \cup {In!None}]

\* No two accounts share an address or an identity.
Distinct ==
  \A u, v \in In!Rows : u # v =>
    \A column \in {"email", "github", "google"} :
      users[u][column] = In!None \/ users[u][column] # users[v][column]

LEMMA InitSignIn == ServiceInit => SignInInv
  <1> SUFFICES ASSUME In!Init PROVE SignInInv
    BY DEF ServiceInit
  <1>1. SignInTyped
    BY DEF In!Init, SignInTyped, In!Nobody
  <1>2. Cookies /\ Started /\ FlowsEndWhereTheyStart
    BY DEF In!Init, Cookies, Started, FlowsEndWhereTheyStart,
           In!FlowsEndWhereTheyStart
  <1>3. In!Rows = {}
    BY DEF In!Init, In!Rows
  <1>4. Homes /\ FirstAddresses /\ OneAccountPerAddress
    BY <1>3 DEF In!Init, Homes, FirstAddresses, OneAccountPerAddress,
                In!OneAccountPerAddress, In!WithIdentity
  <1> QED BY <1>1, <1>2, <1>4 DEF SignInInv

\* Cookies and flows.
LEMMA FlowsKept ==
  ASSUME SignInInv, [In!Next]_signInVars
  PROVE  /\ Cookies' /\ Started' /\ FlowsEndWhereTheyStart'
         /\ cookie' \in [Browser -> Flow \cup {In!None}]
         /\ flow' \in [Flow -> {In!Unstarted}
                        \cup [by : Browser, provider : {"github", "google"}]]
         /\ callbacks' \subseteq [flow : Flow, by : Browser, as : Identity]
  <1>0. /\ SignInTyped /\ Cookies /\ Started /\ In!FlowsEndWhereTheyStart
        /\ In!None \notin Flow
        /\ \A i \in Identity : ProviderOf(i) \in {"github", "google"}
    BY SignInAssumption DEF SignInInv, FlowsEndWhereTheyStart, In!None
  <1> USE DEF FlowsEndWhereTheyStart, In!FlowsEndWhereTheyStart
  <1>1. ASSUME NEW b \in Browser, NEW f \in Flow, NEW p \in {"github", "google"},
               In!StartFlow(b, f, p)
        PROVE  /\ Cookies' /\ Started' /\ FlowsEndWhereTheyStart'
               /\ cookie' \in [Browser -> Flow \cup {In!None}]
               /\ flow' \in [Flow -> {In!Unstarted}
                              \cup [by : Browser, provider : {"github", "google"}]]
               /\ callbacks' = callbacks
    <2>1. /\ flow[f] = In!Unstarted /\ callbacks' = callbacks
          /\ flow' = [flow EXCEPT ![f] = [by |-> b, provider |-> p]]
          /\ cookie' = [cookie EXCEPT ![b] = f]
      BY <1>1 DEF In!StartFlow
    <2>2. [by |-> b, provider |-> p] # In!Unstarted
      BY DEF In!Unstarted, In!None
    <2>3. Cookies'
      BY <1>0, <2>1, <2>2 DEF Cookies, SignInTyped
    <2>4. Started' /\ FlowsEndWhereTheyStart'
      BY <1>0, <2>1, <2>2 DEF Started, SignInTyped
    <2> QED BY <1>0, <2>1, <2>3, <2>4 DEF SignInTyped
  <1>2. ASSUME NEW b \in Browser, NEW f \in Flow, NEW i \in Identity,
               In!Callback(b, f, i)
        PROVE  /\ UNCHANGED <<cookie, flow>> /\ Started' /\ FlowsEndWhereTheyStart'
               /\ callbacks' \subseteq [flow : Flow, by : Browser, as : Identity]
    <2>1. /\ cookie[b] = f /\ UNCHANGED <<cookie, flow>>
          /\ callbacks' = callbacks \cup {[flow |-> f, by |-> b, as |-> i]}
      BY <1>2 DEF In!Callback, In!CheckState
    <2>2. flow[f] # In!Unstarted /\ flow[f].by = b
      BY <1>0, <2>1 DEF Cookies
    <2> QED BY <1>0, <2>1, <2>2 DEF Started, SignInTyped
  <1>3. ASSUME NEW b \in Browser, cookie' = [cookie EXCEPT ![b] = In!None],
               flow' = flow
        PROVE  Cookies' /\ cookie' \in [Browser -> Flow \cup {In!None}]
    BY <1>0, <1>3 DEF Cookies, SignInTyped
  <1>4. ASSUME callbacks' \subseteq callbacks, flow' = flow
        PROVE  /\ Started' /\ FlowsEndWhereTheyStart'
               /\ callbacks' \subseteq [flow : Flow, by : Browser, as : Identity]
    BY <1>0, <1>4 DEF Started, SignInTyped
  <1>5. ASSUME NEW c \in callbacks, NEW a, NEW u, In!Exchange(c, a, u)
        PROVE  /\ callbacks' \subseteq callbacks /\ flow' = flow
               /\ c.by \in Browser /\ cookie' = [cookie EXCEPT ![c.by] = In!None]
    BY <1>0, <1>5 DEF In!Exchange, In!FinishLogin, SignInTyped
  <1>6. ASSUME NEW c \in callbacks, In!ExchangeFails(c)
        PROVE  callbacks' \subseteq callbacks /\ UNCHANGED <<flow, cookie>>
    BY <1>6 DEF In!ExchangeFails
  <1>7. ASSUME NEW b \in Browser, NEW a, NEW u, In!FollowLink(b, a, u)
        PROVE  /\ callbacks' = callbacks /\ flow' = flow
               /\ cookie' = [cookie EXCEPT ![b] = In!None]
    BY <1>7 DEF In!FollowLink, In!FinishLogin
  <1>8. ASSUME UNCHANGED <<flow, cookie>>
        PROVE  Cookies' /\ cookie' \in [Browser -> Flow \cup {In!None}]
    BY <1>0, <1>8 DEF Cookies, SignInTyped
  <1>9. flow \in [Flow -> {In!Unstarted}
                    \cup [by : Browser, provider : {"github", "google"}]]
        /\ callbacks \subseteq [flow : Flow, by : Browser, as : Identity]
    BY <1>0 DEF SignInTyped
  <1>10. CASE UNCHANGED signInVars
    <2>1. UNCHANGED <<flow, cookie, callbacks>>
      BY <1>10 DEF signInVars
    <2> QED BY <1>4, <1>8, <1>9, <2>1
  <1>11. CASE \E b \in Browser, f \in Flow :
                 \/ \E p \in {"github", "google"} : In!StartFlow(b, f, p)
                 \/ \E i \in Identity : In!Callback(b, f, i)
    BY <1>1, <1>2, <1>8, <1>9, <1>11
  <1>12. CASE \E c \in callbacks : In!ExchangeFails(c)
    BY <1>4, <1>6, <1>8, <1>9, <1>12
  <1>13. CASE \E c \in callbacks, a \in Address \cup {In!None},
                 u \in 1..(Len(users) + 1) : In!Exchange(c, a, u)
    BY <1>3, <1>4, <1>5, <1>9, <1>13
  <1>14. CASE \E b \in Browser, a \in Address, u \in 1..(Len(users) + 1) :
                 In!FollowLink(b, a, u)
    BY <1>3, <1>4, <1>7, <1>9, <1>14
  <1> QED BY <1>10, <1>11, <1>12, <1>13, <1>14 DEF In!Next

\* Who has never signed in has no account.
LEMMA FirstSignIn ==
  ASSUME SignInInv, NEW i \in Identity, home[i] = In!Nobody
  PROVE  i \notin displaced /\ In!WithIdentity(i) = {}
  BY DEF SignInInv, Homes

\* The account is found by its identity.
LEMMA FoundKeeps ==
  ASSUME SignInInv, NEW i \in Identity, NEW u \in In!WithIdentity(i)
  PROVE  home[i] # In!Nobody
  BY FirstSignIn

\* The identity is linked to account u.
LEMMA LinkedTable ==
  ASSUME SignInInv, NEW i \in Identity, NEW u \in In!Rows,
         users' = [users EXCEPT ![u][ProviderOf(i)] = i]
  PROVE  /\ users' \in Seq(UserRow) /\ In!Rows' = In!Rows
         /\ \A v \in In!Rows : users'[v].email = users[v].email
         /\ \A v \in In!Rows, column \in {"github", "google"} :
              users'[v][column] = IF v = u /\ column = ProviderOf(i)
                                    THEN i ELSE users[v][column]
  <1>1. users \in Seq(UserRow) /\ u \in 1..Len(users)
        /\ ProviderOf(i) \in {"github", "google"}
    BY SignInAssumption DEF SignInInv, SignInTyped, UserRow, In!Rows
  <1> DEFINE r == [users[u] EXCEPT ![ProviderOf(i)] = i]
  <1>2. r \in UserRow /\ r.email = users[u].email
        /\ \A column \in {"github", "google"} :
             r[column] = IF column = ProviderOf(i) THEN i ELSE users[u][column]
    <2>1. users[u] \in UserRow
      BY <1>1
    <2>2. CASE ProviderOf(i) = "github"
      BY <2>1, <2>2 DEF UserRow
    <2>3. CASE ProviderOf(i) = "google"
      BY <2>1, <2>3 DEF UserRow
    <2> QED BY <1>1, <2>2, <2>3
  <1>3. users' = [users EXCEPT ![u] = r]
    OBVIOUS
  <1> HIDE DEF r
  <1>4. users' \in Seq(UserRow) /\ Len(users') = Len(users)
        /\ \A v \in 1..Len(users) : users'[v] = IF v = u THEN r ELSE users[v]
    BY <1>1, <1>2, <1>3
  <1>5. In!Rows' = In!Rows
    BY <1>4 DEF In!Rows
  <1>6. \A v \in In!Rows : users'[v] = IF v = u THEN r ELSE users[v]
    BY <1>4 DEF In!Rows
  <1>7. \A v \in In!Rows : users'[v].email = users[v].email
    BY <1>2, <1>6
  <1>8. ASSUME NEW v \in In!Rows, NEW column \in {"github", "google"}
        PROVE  users'[v][column] = IF v = u /\ column = ProviderOf(i)
                                     THEN i ELSE users[v][column]
    <2>1. CASE v = u
      <3>1. users'[v] = r
        BY <1>6, <2>1
      <3> QED BY <1>2, <2>1, <3>1
    <2>2. CASE v # u
      <3>1. users'[v] = users[v]
        BY <1>6, <2>2
      <3> QED BY <2>2, <3>1
    <2> QED BY <2>1, <2>2
  <1> QED BY <1>4, <1>5, <1>7, <1>8

\* A new account.
LEMMA NewTable ==
  ASSUME SignInInv, NEW r \in UserRow, users' = Append(users, r)
  PROVE  /\ users' \in Seq(UserRow) /\ In!Rows' = In!Rows \cup {Len(users) + 1}
         /\ Len(users) + 1 \notin In!Rows /\ users'[Len(users) + 1] = r
         /\ \A v \in In!Rows : users'[v] = users[v]
  BY DEF SignInInv, SignInTyped, UserRow, In!Rows

\* No identity is linked twice, and no address: the three ways to the account.
LEMMA LinkedDistinct ==
  ASSUME SignInInv, Distinct, NEW i \in Identity, NEW u \in In!Rows,
         In!WithIdentity(i) = {},
         users' = [users EXCEPT ![u][ProviderOf(i)] = i]
  PROVE  Distinct'
  <1>1. \A v \in In!Rows : users[v][ProviderOf(i)] # i
    BY DEF In!WithIdentity
  <1>2. ProviderOf(i) \in {"github", "google"}
    BY SignInAssumption
  <1>0. /\ In!Rows' = In!Rows
        /\ \A v \in In!Rows : users'[v].email = users[v].email
        /\ \A v \in In!Rows, column \in {"github", "google"} :
              users'[v][column] = IF v = u /\ column = ProviderOf(i)
                                    THEN i ELSE users[v][column]
    BY LinkedTable
  <1> SUFFICES ASSUME NEW v \in In!Rows, NEW w \in In!Rows, v # w,
                      NEW column \in {"email", "github", "google"}
               PROVE  users'[v][column] = In!None
                        \/ users'[v][column] # users'[w][column]
    BY <1>0 DEF Distinct
  <1>3. users[v][column] = In!None \/ users[v][column] # users[w][column]
    BY DEF Distinct
  <1>4. CASE column = "email"
    BY <1>0, <1>3, <1>4
  <1>5. CASE column \in {"github", "google"}
    <2>1. /\ users'[v][column] = IF v = u /\ column = ProviderOf(i)
                                   THEN i ELSE users[v][column]
          /\ users'[w][column] = IF w = u /\ column = ProviderOf(i)
                                   THEN i ELSE users[w][column]
      BY <1>0, <1>5
    <2> QED BY <1>1, <1>3, <2>1
  <1> QED BY <1>4, <1>5

LEMMA NewDistinct ==
  ASSUME SignInInv, Distinct, NEW r \in UserRow, users' = Append(users, r),
         \A v \in In!Rows, column \in {"email", "github", "google"} :
           r[column] = In!None \/ users[v][column] # r[column]
  PROVE  Distinct'
  <1>0. /\ In!Rows' = In!Rows \cup {Len(users) + 1}
        /\ Len(users) + 1 \notin In!Rows /\ users'[Len(users) + 1] = r
        /\ \A v \in In!Rows : users'[v] = users[v]
    BY NewTable
  <1> SUFFICES ASSUME NEW v \in In!Rows', NEW w \in In!Rows', v # w,
                      NEW column \in {"email", "github", "google"}
               PROVE  users'[v][column] = In!None
                        \/ users'[v][column] # users'[w][column]
    BY DEF Distinct
  <1>1. CASE v \in In!Rows /\ w \in In!Rows
    <2>1. users'[v] = users[v] /\ users'[w] = users[w]
      BY <1>0, <1>1
    <2> QED BY <1>1, <2>1 DEF Distinct
  <1>2. CASE v = Len(users) + 1 /\ w \in In!Rows
    <2>1. users'[v] = r /\ users'[w] = users[w]
      BY <1>0, <1>2
    <2> QED BY <1>2, <2>1
  <1>3. CASE w = Len(users) + 1 /\ v \in In!Rows
    <2>1. users'[w] = r /\ users'[v] = users[v]
      BY <1>0, <1>3
    <2> QED BY <1>3, <2>1
  <1> QED BY <1>0, <1>1, <1>2, <1>3

\* A new account's columns.
LEMMA NewUserRow ==
  ASSUME NEW a \in Address \cup {In!None}, NEW i \in Identity
  PROVE  /\ In!NewUser(a, i) \in UserRow /\ In!NewUser(a, i).email = a
         /\ \A column \in {"github", "google"} :
              In!NewUser(a, i)[column] = IF column = ProviderOf(i) THEN i ELSE In!None
         /\ i # In!None
  BY SignInAssumption DEF In!NewUser, UserRow, In!None

LEMMA NewEmailRow ==
  ASSUME NEW a \in Address
  PROVE  /\ In!NewUser(a, In!None) \in UserRow /\ In!NewUser(a, In!None).email = a
         /\ \A column \in {"github", "google"} :
              In!NewUser(a, In!None)[column] = In!None
  BY DEF In!NewUser, UserRow

\* Where the identities are after identity i was linked to account u.
LEMMA LinkedIdentities ==
  ASSUME SignInInv, NEW i \in Identity, NEW u \in In!Rows, NEW j \in Identity,
         users' = [users EXCEPT ![u][ProviderOf(i)] = i]
  PROVE  In!WithIdentity(j)' =
           IF j = i THEN In!WithIdentity(i) \cup {u}
           ELSE IF ProviderOf(j) = ProviderOf(i) THEN In!WithIdentity(j) \ {u}
           ELSE In!WithIdentity(j)
  <1>1. ProviderOf(j) \in {"github", "google"}
    BY SignInAssumption
  <1>2. In!Rows' = In!Rows
    BY LinkedTable
  <1>3. \A v \in In!Rows : users'[v][ProviderOf(j)] =
          IF v = u /\ ProviderOf(j) = ProviderOf(i) THEN i ELSE users[v][ProviderOf(j)]
    <2>1. \A v \in In!Rows, column \in {"github", "google"} :
            users'[v][column] = IF v = u /\ column = ProviderOf(i)
                                  THEN i ELSE users[v][column]
      BY LinkedTable, Zenon
    <2> QED BY <1>1, <2>1, Zenon
  <1>4. In!WithIdentity(j)' = {v \in In!Rows : users'[v][ProviderOf(j)] = j}
    BY <1>2 DEF In!WithIdentity
  <1>5. In!WithIdentity(i) = {v \in In!Rows : users[v][ProviderOf(i)] = i}
        /\ In!WithIdentity(j) = {v \in In!Rows : users[v][ProviderOf(j)] = j}
    BY DEF In!WithIdentity
  <1>6. CASE j = i
    <2>1. In!WithIdentity(j)' = {v \in In!Rows : v = u \/ users[v][ProviderOf(i)] = i}
      BY <1>3, <1>4, <1>6
    <2> QED BY <1>5, <1>6, <2>1
  <1>7. CASE j # i /\ ProviderOf(j) = ProviderOf(i)
    <2>1. In!WithIdentity(j)' =
            {v \in In!Rows : v # u /\ users[v][ProviderOf(j)] = j}
      BY <1>3, <1>4, <1>7
    <2> QED BY <1>5, <1>7, <2>1
  <1>8. CASE j # i /\ ProviderOf(j) # ProviderOf(i)
    BY <1>3, <1>4, <1>5, <1>8
  <1> QED BY <1>6, <1>7, <1>8

\* Where they are after a new account.
LEMMA NewIdentities ==
  ASSUME SignInInv, NEW j \in Identity, NEW r \in UserRow,
         users' = Append(users, r)
  PROVE  In!WithIdentity(j)' =
           IF r[ProviderOf(j)] = j THEN In!WithIdentity(j) \cup {Len(users) + 1}
                                   ELSE In!WithIdentity(j)
  <1>1. In!WithIdentity(j)' =
          {v \in In!Rows \cup {Len(users) + 1} : users'[v][ProviderOf(j)] = j}
    BY NewTable DEF In!WithIdentity
  <1> QED BY <1>1, NewTable DEF In!WithIdentity

AccountsPart ==
  users \in Seq(UserRow) /\ Homes /\ FirstAddresses /\ Distinct

\* What history says after identity i, with address a, landed on account u.
LEMMA RememberFacts ==
  ASSUME SignInInv, NEW i \in Identity, NEW a \in Address \cup {In!None},
         NEW u \in Nat \ {0}, In!Remember(i, a, u)
  PROVE  /\ home' \in [Identity -> Nat] /\ displaced' \subseteq Identity
         /\ first' \in [Identity -> Address \cup {In!None}]
         /\ home'[i] = IF home[i] = In!Nobody THEN u ELSE home[i]
         /\ first'[i] = IF home[i] = In!Nobody THEN a ELSE first[i]
         /\ \A j \in Identity \ {i} : home'[j] = home[j] /\ first'[j] = first[j]
         /\ \A j \in Identity : j \in displaced' <=>
              \/ j \in displaced
              \/ j # i /\ home[j] = u /\ ProviderOf(j) = ProviderOf(i)
  BY DEF In!Remember, SignInInv, SignInTyped, In!Nobody

\* The account had the identity.
LEMMA FoundAccounts ==
  ASSUME SignInInv, Distinct, NEW i \in Identity, NEW a \in Address \cup {In!None},
         NEW u \in In!WithIdentity(i), UNCHANGED users, In!Remember(i, a, u)
  PROVE  AccountsPart'
  <1>1. home[i] # In!Nobody /\ u \in Nat \ {0}
    BY FoundKeeps DEF In!WithIdentity, In!Rows
  <1>2. /\ \A j \in Identity : home'[j] = home[j] /\ first'[j] = first[j]
        /\ \A j \in Identity : j \in displaced' <=>
              \/ j \in displaced
              \/ j # i /\ home[j] = u /\ ProviderOf(j) = ProviderOf(i)
    BY <1>1, RememberFacts
  <1>3. In!Rows' = In!Rows /\ \A j \in Identity : In!WithIdentity(j)' = In!WithIdentity(j)
    BY DEF In!Rows, In!WithIdentity
  <1>4. Homes'
    BY <1>1, <1>2, <1>3 DEF SignInInv, Homes, In!Nobody
  <1>5. FirstAddresses'
    BY <1>2, <1>3 DEF SignInInv, FirstAddresses
  <1>6. Distinct' /\ users' \in Seq(UserRow)
    BY <1>3 DEF Distinct, SignInInv, SignInTyped, UserRow
  <1> QED BY <1>4, <1>5, <1>6 DEF AccountsPart

\* The identity is linked to the account with its address.
LEMMA LinkedAccounts ==
  ASSUME SignInInv, Distinct, NEW i \in Identity, NEW a \in Address,
         NEW u \in In!WithEmail(a), In!WithIdentity(i) = {},
         users' = [users EXCEPT ![u][ProviderOf(i)] = i], In!Remember(i, a, u)
  PROVE  AccountsPart'
  <1>1. u \in Nat \ {0} /\ u \in In!Rows /\ users[u].email = a
    BY DEF In!WithEmail, In!Rows
  <1>2. /\ home'[i] = IF home[i] = In!Nobody THEN u ELSE home[i]
        /\ first'[i] = IF home[i] = In!Nobody THEN a ELSE first[i]
        /\ \A j \in Identity \ {i} : home'[j] = home[j] /\ first'[j] = first[j]
        /\ \A j \in Identity : j \in displaced' <=>
              \/ j \in displaced
              \/ j # i /\ home[j] = u /\ ProviderOf(j) = ProviderOf(i)
    BY <1>1, RememberFacts
  <1>3. /\ users' \in Seq(UserRow) /\ In!Rows' = In!Rows
        /\ \A v \in In!Rows : users'[v].email = users[v].email
    BY <1>1, LinkedTable
  <1>4. ASSUME NEW j \in Identity
        PROVE  /\ j \in displaced' => home'[j] # In!Nobody
               /\ j \notin displaced' =>
                    In!WithIdentity(j)' =
                      IF home'[j] = In!Nobody THEN {} ELSE {home'[j]}
    <2>1. /\ j \in displaced => home[j] # In!Nobody
          /\ j \notin displaced =>
               In!WithIdentity(j) = IF home[j] = In!Nobody THEN {} ELSE {home[j]}
      BY DEF SignInInv, Homes
    <2>2. In!WithIdentity(j)' =
            IF j = i THEN In!WithIdentity(i) \cup {u}
            ELSE IF ProviderOf(j) = ProviderOf(i) THEN In!WithIdentity(j) \ {u}
            ELSE In!WithIdentity(j)
      BY <1>1, LinkedIdentities
    <2>3. CASE j = i
      <3>1. j \notin displaced => home[j] = In!Nobody
        BY <2>1, <2>3
      <3>2. j \notin displaced' => home'[j] = u /\ In!WithIdentity(j)' = {u}
        BY <1>2, <2>2, <2>3, <3>1
      <3> QED BY <1>1, <1>2, <2>1, <2>3, <3>2 DEF In!Nobody
    <2>4. CASE j # i
      <3>1. home'[j] = home[j]
        BY <1>2, <2>4
      <3>2. j \in displaced' => home[j] # In!Nobody
        BY <1>1, <1>2, <2>1 DEF In!Nobody
      <3>3. j \notin displaced' =>
              /\ j \notin displaced
              /\ home[j] = u => ProviderOf(j) # ProviderOf(i)
        BY <1>2, <2>4
      <3> QED BY <2>1, <2>2, <2>4, <3>1, <3>2, <3>3
    <2> QED BY <2>3, <2>4
  <1>5. Homes'
    BY <1>4 DEF Homes
  <1>6. FirstAddresses'
    BY <1>1, <1>2, <1>3 DEF SignInInv, FirstAddresses
  <1>7. Distinct'
    BY <1>1, LinkedDistinct
  <1> QED BY <1>3, <1>5, <1>6, <1>7 DEF AccountsPart

\* The identity gets an account of its own.
LEMMA NewAccounts ==
  ASSUME SignInInv, Distinct, NEW i \in Identity, NEW a \in Address \cup {In!None},
         In!WithIdentity(i) = {}, a = In!None \/ In!WithEmail(a) = {},
         users' = Append(users, In!NewUser(a, i)),
         In!Remember(i, a, Len(users) + 1)
  PROVE  AccountsPart'
  <1> DEFINE r == In!NewUser(a, i)
             u == Len(users) + 1
  <1>1. /\ r \in UserRow /\ r.email = a /\ i # In!None
        /\ \A column \in {"github", "google"} :
             r[column] = IF column = ProviderOf(i) THEN i ELSE In!None
    BY NewUserRow
  <1>2. users' = Append(users, r) /\ u \in Nat \ {0}
    BY DEF SignInInv, SignInTyped
  <1>3. /\ users' \in Seq(UserRow) /\ In!Rows' = In!Rows \cup {u}
        /\ users'[u] = r /\ u \notin In!Rows
        /\ \A v \in In!Rows : users'[v] = users[v]
    BY <1>1, <1>2, NewTable
  <1>4. /\ home'[i] = IF home[i] = In!Nobody THEN u ELSE home[i]
        /\ first'[i] = IF home[i] = In!Nobody THEN a ELSE first[i]
        /\ \A j \in Identity \ {i} : home'[j] = home[j] /\ first'[j] = first[j]
        /\ \A j \in Identity : j \in displaced' <=>
              \/ j \in displaced
              \/ j # i /\ home[j] = u /\ ProviderOf(j) = ProviderOf(i)
    BY <1>2, RememberFacts
  <1> HIDE DEF r
  <1>5. \A j \in Identity : In!WithIdentity(j)' =
          IF r[ProviderOf(j)] = j THEN In!WithIdentity(j) \cup {u} ELSE In!WithIdentity(j)
    BY <1>1, <1>2, NewIdentities
  <1>6. \A j \in Identity : r[ProviderOf(j)] = j <=> j = i
    BY <1>1, SignInAssumption DEF In!None
  <1> HIDE DEF u
  <1>7. ASSUME NEW j \in Identity
        PROVE  /\ j \in displaced' => home'[j] # In!Nobody
               /\ j \notin displaced' =>
                    In!WithIdentity(j)' =
                      IF home'[j] = In!Nobody THEN {} ELSE {home'[j]}
    <2>1. /\ j \in displaced => home[j] # In!Nobody
          /\ j \notin displaced =>
               In!WithIdentity(j) = IF home[j] = In!Nobody THEN {} ELSE {home[j]}
      BY DEF SignInInv, Homes
    <2>2. In!WithIdentity(j)' = IF j = i THEN {u} ELSE In!WithIdentity(j)
      BY <1>5, <1>6
    <2>3. CASE j = i
      <3>1. j \notin displaced => home[j] = In!Nobody
        BY <2>1, <2>3
      <3> QED BY <1>2, <1>4, <2>1, <2>2, <2>3, <3>1 DEF In!Nobody
    <2>4. CASE j # i
      <3>1. home'[j] = home[j]
        BY <1>4, <2>4
      <3>2. j \in displaced' => home[j] # In!Nobody
        BY <1>2, <1>4, <2>1 DEF In!Nobody
      <3> QED BY <1>4, <2>1, <2>2, <2>4, <3>1, <3>2
    <2> QED BY <2>3, <2>4
  <1>8. Homes'
    BY <1>7 DEF Homes
  <1>9. FirstAddresses'
    <2> SUFFICES ASSUME NEW j \in Identity, first'[j] # In!None
                 PROVE  home'[j] \in In!Rows' /\ users'[home'[j]].email = first'[j]
      BY DEF FirstAddresses
    <2>1. CASE j = i /\ home[j] = In!Nobody
      BY <1>1, <1>3, <1>4, <2>1
    <2>2. CASE ~(j = i /\ home[j] = In!Nobody)
      <3>1. home'[j] = home[j] /\ first'[j] = first[j]
        BY <1>4, <2>2
      <3>2. home[j] \in In!Rows /\ users[home[j]].email = first[j]
        BY <3>1 DEF SignInInv, FirstAddresses
      <3> QED BY <1>3, <3>1, <3>2
    <2> QED BY <2>1, <2>2
  <1>10. ASSUME NEW v \in In!Rows, NEW column \in {"email", "github", "google"}
         PROVE  r[column] = In!None \/ users[v][column] # r[column]
    <2>1. CASE column = "email"
      BY <1>1, <2>1 DEF In!WithEmail
    <2>2. CASE column \in {"github", "google"} /\ column = ProviderOf(i)
      BY <1>1, <2>2 DEF In!WithIdentity
    <2>3. CASE column \in {"github", "google"} /\ column # ProviderOf(i)
      BY <1>1, <2>3
    <2> QED BY <2>1, <2>2, <2>3
  <1>11. Distinct'
    BY <1>1, <1>2, <1>10, NewDistinct
  <1> QED BY <1>3, <1>8, <1>9, <1>11 DEF AccountsPart

\* A link's account: it is found by its address, or made.
LEMMA FollowedAccounts ==
  ASSUME SignInInv, Distinct, NEW b \in Browser, NEW a \in Address, NEW u,
         In!FollowLink(b, a, u)
  PROVE  AccountsPart'
  <1>1. /\ LowerCase(a) \in Address /\ In!UpsertEmailUser(LowerCase(a), u)
        /\ UNCHANGED <<home, first, displaced>>
    BY SignInAssumption DEF In!FollowLink, In!history
  <1>2. CASE UNCHANGED users
    BY <1>1, <1>2
    DEF SignInInv, SignInTyped, AccountsPart, UserRow, Homes, FirstAddresses,
        Distinct, In!Rows, In!WithIdentity
  <1>3. CASE users' # users
    <2> DEFINE r == In!NewUser(LowerCase(a), In!None)
    <2>1. users' = Append(users, r) /\ In!WithEmail(LowerCase(a)) = {}
      BY <1>1, <1>3 DEF In!UpsertEmailUser
    <2>2. /\ r \in UserRow /\ r.email = LowerCase(a)
          /\ \A column \in {"github", "google"} : r[column] = In!None
      BY <1>1, NewEmailRow
    <2> HIDE DEF r
    <2>3. /\ users' \in Seq(UserRow) /\ In!Rows' = In!Rows \cup {Len(users) + 1}
          /\ \A v \in In!Rows : users'[v] = users[v]
      BY <2>1, <2>2, NewTable
    <2>4. ASSUME NEW j \in Identity PROVE In!WithIdentity(j)' = In!WithIdentity(j)
      <3>1. r[ProviderOf(j)] # j
        BY <2>2, SignInAssumption DEF In!None
      <3> QED BY <2>1, <2>2, <3>1, NewIdentities
    <2>5. Homes'
      BY <1>1, <2>4 DEF SignInInv, Homes
    <2>6. FirstAddresses'
      BY <1>1, <2>3 DEF SignInInv, FirstAddresses
    <2>7. ASSUME NEW v \in In!Rows, NEW column \in {"email", "github", "google"}
          PROVE  r[column] = In!None \/ users[v][column] # r[column]
      <3>1. CASE column = "email"
        BY <2>1, <2>2, <3>1 DEF In!WithEmail
      <3>2. CASE column \in {"github", "google"}
        BY <2>2, <3>2
      <3> QED BY <3>1, <3>2
    <2>8. Distinct'
      BY <2>1, <2>2, <2>7, NewDistinct
    <2> QED BY <2>3, <2>5, <2>6, <2>8 DEF AccountsPart
  <1> QED BY <1>2, <1>3

LEMMA SignInKept == ASSUME SignInInv, [In!Next]_signInVars PROVE SignInInv'
  <1>0. /\ Distinct
        /\ callbacks \subseteq [flow : Flow, by : Browser, as : Identity]
        /\ SignInTyped
    BY DEF SignInInv, SignInTyped, OneAccountPerAddress, In!OneAccountPerAddress,
           Distinct
  <1>1. ASSUME NEW c \in callbacks, NEW a \in Address \cup {In!None},
               NEW u \in 1..(Len(users) + 1), In!Exchange(c, a, u)
        PROVE  /\ AccountsPart'
               /\ home' \in [Identity -> Nat] /\ displaced' \subseteq Identity
               /\ first' \in [Identity -> Address \cup {In!None}]
    <2>0. PICK i \in Identity : i = c.as
      BY <1>0
    <2>1. /\ In!UpsertOauthUser(i, a, u) /\ In!Remember(i, a, u) /\ u \in Nat \ {0}
      BY <1>1, <2>0 DEF In!Exchange
    <2>2. ASSUME u \in In!WithIdentity(i), UNCHANGED users PROVE AccountsPart'
      BY <1>0, <2>1, <2>2, FoundAccounts
    <2>3. ASSUME In!WithIdentity(i) = {}, a # In!None, u \in In!WithEmail(a),
                 users' = [users EXCEPT ![u][ProviderOf(i)] = i]
          PROVE  AccountsPart'
      <3>1. a \in Address
        BY <2>3
      <3> QED BY <1>0, <2>1, <2>3, <3>1, LinkedAccounts
    <2>4. ASSUME In!WithIdentity(i) = {}, a = In!None \/ In!WithEmail(a) = {},
                 u = Len(users) + 1, users' = Append(users, In!NewUser(a, i))
          PROVE  AccountsPart'
      <3>1. In!Remember(i, a, Len(users) + 1)
        BY <2>1, <2>4
      <3> QED BY <1>0, <2>4, <3>1, NewAccounts
    <2>5. AccountsPart'
      BY <2>1, <2>2, <2>3, <2>4 DEF In!UpsertOauthUser
    <2> QED BY <2>1, <2>5, RememberFacts
  <1>2. ASSUME NEW b \in Browser, NEW a \in Address, NEW u, In!FollowLink(b, a, u)
        PROVE  AccountsPart' /\ UNCHANGED <<home, first, displaced>>
    BY <1>0, <1>2, FollowedAccounts DEF In!FollowLink, In!history
  <1>3. ASSUME UNCHANGED <<users, home, first, displaced>> PROVE AccountsPart'
    BY <1>0, <1>3
    DEF SignInInv, SignInTyped, AccountsPart, UserRow, Homes, FirstAddresses,
        Distinct, In!Rows, In!WithIdentity
  <1>4. /\ AccountsPart'
        /\ home' \in [Identity -> Nat] /\ displaced' \subseteq Identity
        /\ first' \in [Identity -> Address \cup {In!None}]
    <2>1. CASE UNCHANGED <<users, home, first, displaced>>
      BY <1>0, <1>3, <2>1 DEF SignInTyped
    <2>2. CASE \E c \in callbacks, a \in Address \cup {In!None},
                  u \in 1..(Len(users) + 1) : In!Exchange(c, a, u)
      BY <1>1, <2>2
    <2>3. CASE \E b \in Browser, a \in Address, u \in 1..(Len(users) + 1) :
                  In!FollowLink(b, a, u)
      BY <1>0, <1>2, <2>3 DEF SignInTyped
    <2>4. \/ UNCHANGED <<users, home, first, displaced>>
          \/ \E c \in callbacks, a \in Address \cup {In!None},
                u \in 1..(Len(users) + 1) : In!Exchange(c, a, u)
          \/ \E b \in Browser, a \in Address, u \in 1..(Len(users) + 1) :
                In!FollowLink(b, a, u)
      BY DEF In!Next, In!StartFlow, In!Callback, In!ExchangeFails, In!history,
             signInVars
    <2> QED BY <2>1, <2>2, <2>3, <2>4
  <1>5. SignInTyped'
    BY <1>4, FlowsKept DEF SignInTyped, AccountsPart, UserRow
  <1>6. \* The first accounts of two identities with one address share it.
        OneAccountPerAddress'
    <2>1. ASSUME NEW i \in Identity, NEW j \in Identity,
                 first'[i] = first'[j], first'[i] # In!None
          PROVE  home'[i] = home'[j]
      <3>1. /\ home'[i] \in In!Rows' /\ users'[home'[i]].email = first'[i]
            /\ home'[j] \in In!Rows' /\ users'[home'[j]].email = first'[j]
        BY <1>4, <2>1 DEF AccountsPart, FirstAddresses
      <3>2. \A u, v \in In!Rows' : u # v =>
              users'[u].email = In!None \/ users'[u].email # users'[v].email
        BY <1>4 DEF AccountsPart, Distinct
      <3> QED BY <2>1, <3>1, <3>2
    <2> QED BY <1>4, <2>1
            DEF AccountsPart, Distinct, OneAccountPerAddress, In!OneAccountPerAddress
  <1> QED BY <1>4, <1>5, <1>6, FlowsKept DEF SignInInv, AccountsPart

LEMMA SignInStays == SignInInv /\ [ServiceNext]_serviceVars => SignInInv'
  BY StepsOfParts, SignInKept

\* "signing in with GitHub then Google (same address) lands on one account
\* rather than two", and no sign-in runs into a UNIQUE column, whoever signed
\* in how and in which order before.
THEOREM AddressesShareAccounts == ServiceSpec => []OneAccountPerAddress
  <1>1. SignInInv => OneAccountPerAddress
    BY DEF SignInInv
  <1> QED BY InitSignIn, SignInStays, <1>1, PTL DEF ServiceSpec

\* A person who comes back lands where they were, whatever address their
\* provider reports by then, unless another identity of that provider was
\* linked in its place (upsert_oauth_user).
THEOREM PeopleComeBack == ServiceSpec => []IdentitiesStay
  <1>1. SignInInv => IdentitiesStay
    BY DEF SignInInv, Homes, IdentitiesStay, In!IdentitiesStay
  <1> QED BY InitSignIn, SignInStays, <1>1, PTL DEF ServiceSpec

\* The state cookie: a provider's answer signs in only the browser that started
\* the flow it answers, whoever sends the callback (check_state).
THEOREM AnswersReachTheirBrowser == ServiceSpec => []FlowsEndWhereTheyStart
  <1>1. SignInInv => FlowsEndWhereTheyStart
    BY DEF SignInInv
  <1> QED BY InitSignIn, SignInStays, <1>1, PTL DEF ServiceSpec

=============================================================================
