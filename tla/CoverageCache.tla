---------------------------- MODULE CoverageCache ----------------------------
(***************************************************************************)
(* services/control/src/api.rs, coverage: one grid, computed by ClickHouse *)
(* in up to a minute, cached for ten, behind a read-write lock.            *)
(*                                                                         *)
(* A request takes its time first, then looks under the read lock, then    *)
(* waits for the write lock, looks again, and fetches with the lock held.  *)
(* Its time may by then be older than the entry's: ages are u64            *)
(* subtractions, which wrap in a release build.  A client that goes away   *)
(* ends its request, and gives its lock back, at any await.                *)
(***************************************************************************)
EXTENDS Integers

CONSTANTS
  Client,
  Ttl,        \* COVERAGE_TTL_MS
  Width,      \* 2^64
  MaxNow      \* bound of the model: time

VARIABLES
  clock,
  slot,      \* AppState::coverage: the entry, with when its grid was computed
  request,   \* of each client
  holder     \* of the write lock

coverageVars == <<clock, slot, request, holder>>

Nobody == "nobody"
Empty == [at |-> -1, computed |-> -1]
Quiet == [phase |-> "quiet", asked |-> 0, grid |-> -1]

Init ==
  /\ clock = 0
  /\ slot = Empty
  /\ request = [c \in Client |-> Quiet]
  /\ holder = Nobody

-----------------------------------------------------------------------------
Age(now, at) == (now - at) % Width

Current(now) == slot # Empty /\ Age(now, slot.at) < Ttl

\* The entry as an answer.
Served(c, how) == [request[c] EXCEPT !.phase = how, !.grid = slot.computed]

\* now_ms.
Arrive(c) ==
  /\ request[c].phase \in {"quiet", "fresh", "stale", "unavailable"}
  /\ request' = [request EXCEPT ![c] = [phase |-> "reading", asked |-> clock, grid |-> -1]]
  /\ UNCHANGED <<clock, slot, holder>>

\* Under the read lock, which nobody holds across an await.
Read(c) ==
  /\ request[c].phase = "reading" /\ holder = Nobody
  /\ request' = [request EXCEPT ![c] =
       IF Current(@.asked) THEN Served(c, "fresh") ELSE [@ EXCEPT !.phase = "waiting"]]
  /\ UNCHANGED <<clock, slot, holder>>

\* Mutation: the lock is not held while ClickHouse computes.
WriteWithoutLock(c) ==
  /\ request[c].phase = "waiting" /\ holder = Nobody
  /\ IF Current(request[c].asked)
       THEN request' = [request EXCEPT ![c] = Served(c, "fresh")]
       ELSE request' = [request EXCEPT ![c].phase = "fetching", ![c].grid = clock]
  /\ UNCHANGED <<clock, slot, holder>>

\* The write lock: another request may have refreshed the entry meanwhile.
Write(c) ==
  /\ request[c].phase = "waiting" /\ holder = Nobody
  /\ IF Current(request[c].asked)
       THEN /\ request' = [request EXCEPT ![c] = Served(c, "fresh")]
            /\ UNCHANGED holder
       ELSE \* fetch_coverage: the grid is of the time ClickHouse runs the query.
            /\ request' = [request EXCEPT ![c].phase = "fetching", ![c].grid = clock]
            /\ holder' = c
  /\ UNCHANGED <<clock, slot>>

Release(c) == holder' = IF holder = c THEN Nobody ELSE holder

\* Mutation: the entry is dated when the grid arrives.
FetchedNow(c) ==
  /\ request[c].phase = "fetching"
  /\ slot' = [at |-> clock, computed |-> request[c].grid]
  /\ request' = [request EXCEPT ![c].phase = "fresh"]
  /\ Release(c)
  /\ UNCHANGED clock

Fetched(c) ==
  /\ request[c].phase = "fetching"
  /\ slot' = [at |-> request[c].asked, computed |-> request[c].grid]
  /\ request' = [request EXCEPT ![c].phase = "fresh"]
  /\ Release(c)
  /\ UNCHANGED clock

\* A stale grid beats an error page.
FetchFailed(c) ==
  /\ request[c].phase = "fetching"
  /\ request' = [request EXCEPT ![c] =
       IF slot = Empty THEN [@ EXCEPT !.phase = "unavailable"] ELSE Served(c, "stale")]
  /\ Release(c)
  /\ UNCHANGED <<clock, slot>>

\* The client disconnects.
GoAway(c) ==
  /\ request[c].phase \in {"waiting", "fetching"}
  /\ request' = [request EXCEPT ![c] = Quiet]
  /\ Release(c)
  /\ UNCHANGED <<clock, slot>>

Tick ==
  /\ clock < MaxNow
  /\ clock' = clock + 1
  /\ UNCHANGED <<slot, request, holder>>

Next ==
  \/ \E c \in Client :
       Arrive(c) \/ Read(c) \/ Write(c) \/ Fetched(c) \/ FetchFailed(c) \/ GoAway(c)
  \/ Tick

Spec == Init /\ [][Next]_coverageVars

-----------------------------------------------------------------------------
\* Properties.

\* A grid served from the cache or fetched was computed less than ten minutes
\* before it was asked for, although a request's time may be older than the
\* entry's when the two are compared.
CoverageIsRecent ==
  \A c \in Client :
    request[c].phase = "fresh" => request[c].asked - request[c].grid < Ttl

\* A refresh never brings back an older grid, whichever request's fetch ends
\* last; the entry's time, which is the request's, may go back.
GridsNeverGoBack == [][slot'.computed >= slot.computed]_slot
=============================================================================
