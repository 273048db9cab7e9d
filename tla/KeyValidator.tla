---------------------------- MODULE KeyValidator ----------------------------
(***************************************************************************)
(* crates/keys: a data-plane service's key validation against the control  *)
(* plane (http mode), with its result cache, for any number of concurrent  *)
(* callers; and the answer of services/control/src/internal.rs.            *)
(*                                                                         *)
(* validate reads the cache under a read lock, releases it, asks the       *)
(* control plane (at most 5 s) and writes the cache under a write lock:    *)
(* callers interleave between these steps, and each writes what it was     *)
(* told, however old that is by then.                                      *)
(*                                                                         *)
(* Keys are well formed (kind_of returned a kind).  verdict, known,        *)
(* lastFailure and revokedAt, createdAt are history for the properties.    *)
(***************************************************************************)
EXTENDS Integers

CONSTANTS
  Key, Caller,
  CacheTtl,       \* Validator::cache_ttl, 60 s
  FetchTimeout,   \* the request's timeout, 5 s
  MaxTime         \* bound of the model: clock ticks

ASSUME TimeAssumption ==
  CacheTtl \in Nat \ {0} /\ FetchTimeout \in Nat /\ MaxTime \in Nat

VARIABLES
  status,      \* control plane: each key is "absent", "live" or "revoked"
  createdAt,   \* when it was created; Never before that
  revokedAt,   \* when it was revoked; Never before that
  cache,       \* the entries [ok, at]; the rest NoEntry
  call,        \* each caller's place in validate
  verdict,     \* what validate last returned to each caller, and when
  known,       \* keys this service has accepted before
  lastFailure, \* when a request for the key last failed
  now

vars == <<status, createdAt, revokedAt, cache, call, verdict, known,
          lastFailure, now>>
control == <<status, createdAt, revokedAt>>

Never == -CacheTtl - FetchTimeout - 1
NoEntry == [ok |-> FALSE, at |-> Never]
Time == 0..MaxTime

\* asked: the request is on its way.  answered: the control plane has looked
\* the key up (told); the answer is on its way back.
Idle == [at |-> "idle"]
Asked(k) == [at |-> "asked", key |-> k, since |-> now]
Answered(c, ok) == [at |-> "answered", key |-> c.key, since |-> c.since,
                    told |-> ok]

Init ==
  /\ status \in [Key -> {"absent", "live"}]
  /\ createdAt = [k \in Key |-> IF status[k] = "live" THEN 0 ELSE Never]
  /\ revokedAt = [k \in Key |-> Never]
  /\ cache = [k \in Key |-> NoEntry]
  /\ call = [c \in Caller |-> Idle]
  /\ verdict = [c \in Caller |-> [at |-> Never]]
  /\ known = {}
  /\ lastFailure = [k \in Key |-> Never]
  /\ now = 0

-----------------------------------------------------------------------------
\* The control plane.

CreateKey(k) ==
  /\ status[k] = "absent"
  /\ status' = [status EXCEPT ![k] = "live"]
  /\ createdAt' = [createdAt EXCEPT ![k] = now]
  /\ UNCHANGED <<revokedAt, cache, call, verdict, known, lastFailure, now>>

RevokeKey(k) ==
  /\ status[k] = "live"
  /\ status' = [status EXCEPT ![k] = "revoked"]
  /\ revokedAt' = [revokedAt EXCEPT ![k] = now]
  /\ UNCHANGED <<createdAt, cache, call, verdict, known, lastFailure, now>>

\* validate_key, as far as the validator sees it.
ValidateKey(c) ==
  /\ call[c].at = "asked"
  /\ call' = [call EXCEPT ![c] = Answered(@, status[@.key] = "live")]
  /\ UNCHANGED <<control, cache, verdict, known, lastFailure, now>>

-----------------------------------------------------------------------------
\* validate.

\* Mutations: an entry lives a tick too long; a rejection lives forever.
FreshEntryLate(k) == now - cache[k].at <= CacheTtl
RejectionsStayFresh(k) ==
  now - cache[k].at < CacheTtl \/ (~cache[k].ok /\ cache[k].at # Never)

FreshEntry(k) == now - cache[k].at < CacheTtl

Return(c, k, ok) ==
  /\ verdict' = [verdict EXCEPT ![c] = [at |-> now, key |-> k, ok |-> ok]]
  /\ known' = IF ok THEN known \cup {k} ELSE known

\* A fresh entry is returned, a rejection as well as an acceptance.
ValidateFromCache(c, k) ==
  /\ call[c] = Idle
  /\ FreshEntry(k)
  /\ Return(c, k, cache[k].ok)
  /\ UNCHANGED <<control, cache, call, lastFailure, now>>

StartFetch(c, k) ==
  /\ call[c] = Idle
  /\ ~FreshEntry(k)
  /\ call' = [call EXCEPT ![c] = Asked(k)]
  /\ UNCHANGED <<control, cache, verdict, known, lastFailure, now>>

Remember(c, k, ok) ==
  /\ cache' = [cache EXCEPT ![k] = [ok |-> ok, at |-> now]]
  /\ call' = [call EXCEPT ![c] = Idle]
  /\ Return(c, k, ok)

FetchOk(c) ==
  /\ call[c].at = "answered"
  /\ Remember(c, call[c].key, call[c].told)
  /\ UNCHANGED <<control, lastFailure, now>>

\* Any error (no connection, timeout, a status that is not a success, an
\* unreadable body) is a rejection, and is remembered as one.
FetchFail(c) ==
  /\ call[c].at \in {"asked", "answered"}
  /\ Remember(c, call[c].key, FALSE)
  /\ lastFailure' = [lastFailure EXCEPT ![call[c].key] = now]
  /\ UNCHANGED <<control, now>>

\* A request ends, one way or the other, before its timeout has passed.
Tick ==
  /\ now < MaxTime
  /\ \A c \in Caller : call[c].at # "idle" => now < call[c].since + FetchTimeout
  /\ now' = now + 1
  /\ UNCHANGED <<control, cache, call, verdict, known, lastFailure>>

Next ==
  \/ \E k \in Key : CreateKey(k) \/ RevokeKey(k)
  \/ \E c \in Caller, k \in Key : ValidateFromCache(c, k) \/ StartFetch(c, k)
  \/ \E c \in Caller : ValidateKey(c) \/ FetchOk(c) \/ FetchFail(c)
  \/ Tick

Spec == Init /\ [][Next]_vars

-----------------------------------------------------------------------------
\* Properties.

TypeOK ==
  /\ status \in [Key -> {"absent", "live", "revoked"}]
  /\ createdAt \in [Key -> Time \cup {Never}]
  /\ revokedAt \in [Key -> Time \cup {Never}]
  /\ cache \in [Key -> [ok : BOOLEAN, at : Time \cup {Never}]]
  /\ call \in [Caller -> {Idle}
       \cup [at : {"asked"}, key : Key, since : Time]
       \cup [at : {"answered"}, key : Key, since : Time, told : BOOLEAN]]
  /\ verdict \in [Caller -> [at : {Never}]
                              \cup [at : Time, key : Key, ok : BOOLEAN]]
  /\ known \subseteq Key
  /\ lastFailure \in [Key -> Time \cup {Never}]
  /\ now \in Time

\* A revoked key is accepted for less than the cache's ttl and one request
\* timeout after its revocation, although a slow caller may overwrite a newer
\* rejection with the acceptance it was told before the revocation.
RevocationTakesEffect ==
  \A c \in Caller :
    verdict[c].at # Never /\ verdict[c].ok /\ status[verdict[c].key] = "revoked"
      => verdict[c].at - revokedAt[verdict[c].key] < CacheTtl + FetchTimeout

\* A live key is rejected only in the shadow of a failed request, which lasts
\* less than the ttl, or of a lookup made before the key existed.
RejectionsAreTemporary ==
  \A c \in Caller :
    LET v == verdict[c]
    IN  v.at # Never /\ ~v.ok =>
          \/ v.at - lastFailure[v.key] < CacheTtl
          \/ v.at - createdAt[v.key] < CacheTtl + FetchTimeout
          \/ status[v.key] # "live"

\* keys/src/lib.rs: "Control plane being down must not kill the data plane:
\* reject unknown keys".  A failed request does not reject a key this service
\* has accepted before and that is still live.
OutageRejectsOnlyUnknown ==
  [][\A c \in Caller : FetchFail(c) =>
       call[c].key \notin known \/ status[call[c].key] # "live"]_vars
=============================================================================
