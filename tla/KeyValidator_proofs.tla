------------------------ MODULE KeyValidator_proofs -------------------------
(***************************************************************************)
(* Proofs about KeyValidator, for every set of keys and callers, every ttl *)
(* and every request timeout.                                              *)
(***************************************************************************)
EXTENDS KeyValidator, TLAPS

(***************************************************************************)
(* What bounds the effect of a revocation.  An acceptance is told while    *)
(* the key is live, to a request that started before (CallsInTime,         *)
(* ToldWhileLive); it is written to the cache before that request's        *)
(* timeout, whoever wrote there in the meantime (CacheBound).              *)
(***************************************************************************)
RevokedInPast ==
  \A k \in Key : status[k] = "revoked" => revokedAt[k] \in 0..now

CallsInTime ==
  \A c \in Caller : call[c].at # "idle" =>
    call[c].since <= now /\ now <= call[c].since + FetchTimeout

ToldWhileLive ==
  \A c \in Caller : call[c].at = "answered" /\ call[c].told =>
    /\ status[call[c].key] # "absent"
    /\ status[call[c].key] = "revoked" => call[c].since <= revokedAt[call[c].key]

CacheBound ==
  \A k \in Key :
    /\ cache[k].at <= now
    /\ cache[k].ok =>
         /\ status[k] # "absent"
         /\ status[k] = "revoked" => cache[k].at <= revokedAt[k] + FetchTimeout

VerdictBound ==
  \A c \in Caller : verdict[c].at # Never =>
    /\ verdict[c].at <= now
    /\ verdict[c].ok =>
         /\ status[verdict[c].key] # "absent"
         /\ status[verdict[c].key] = "revoked" =>
              verdict[c].at < revokedAt[verdict[c].key] + FetchTimeout + CacheTtl

VInv ==
  TypeOK /\ RevokedInPast /\ CallsInTime /\ ToldWhileLive /\ CacheBound
         /\ VerdictBound

-----------------------------------------------------------------------------
LEMMA InitTypeOK == Init => TypeOK
  <1>1. Never \in Int /\ 0 \in Time
    BY TimeAssumption DEF Never, Time
  <1> SUFFICES ASSUME Init PROVE TypeOK
    OBVIOUS
  <1> QED BY <1>1 DEF Init, TypeOK, NoEntry, Idle

\* Statuses, the cache, the calls and their verdicts are well typed.
THEOREM TypeCorrect == Spec => []TypeOK
  <1>2. TypeOK /\ [Next]_vars => TypeOK'
    <2> SUFFICES ASSUME TypeOK, [Next]_vars PROVE TypeOK'
      OBVIOUS
    <2> USE TimeAssumption DEF TypeOK, Time, Idle
    <2>1. ASSUME NEW k \in Key, CreateKey(k) \/ RevokeKey(k) PROVE TypeOK'
      <3>1. CASE CreateKey(k)
        BY <3>1 DEF CreateKey
      <3>2. CASE RevokeKey(k)
        BY <3>2 DEF RevokeKey
      <3> QED BY <2>1, <3>1, <3>2
    <2>2. ASSUME NEW c \in Caller, NEW k \in Key, ValidateFromCache(c, k)
          PROVE  TypeOK'
      BY <2>2 DEF ValidateFromCache, Return, control
    <2>3. ASSUME NEW c \in Caller, NEW k \in Key, StartFetch(c, k)
          PROVE  TypeOK'
      BY <2>3 DEF StartFetch, Asked, control
    <2>4. ASSUME NEW c \in Caller, ValidateKey(c) PROVE TypeOK'
      BY <2>4 DEF ValidateKey, Answered, control
    <2>5. ASSUME NEW c \in Caller, FetchOk(c) PROVE TypeOK'
      BY <2>5 DEF FetchOk, Remember, Return, control
    <2>6. ASSUME NEW c \in Caller, FetchFail(c) PROVE TypeOK'
      BY <2>6 DEF FetchFail, Remember, Return, control
    <2>7. CASE Tick
      BY <2>7 DEF Tick, control
    <2>8. CASE UNCHANGED vars
      BY <2>8 DEF vars
    <2> QED BY <2>1, <2>2, <2>3, <2>4, <2>5, <2>7, <2>8, <2>6 DEF Next
  <1> QED BY InitTypeOK, <1>2, PTL DEF Spec

-----------------------------------------------------------------------------
LEMMA TimesAreInts ==
  ASSUME TypeOK
  PROVE  /\ \A k \in Key : cache[k].at \in Int /\ revokedAt[k] \in Int
         /\ now \in Nat /\ CacheTtl \in Nat \ {0} /\ FetchTimeout \in Nat
  <1>1. Never \in Int /\ Time \subseteq Nat
    BY TimeAssumption DEF Never, Time
  <1>2. /\ \A k \in Key : cache[k].at \in Time \cup {Never}
        /\ \A k \in Key : revokedAt[k] \in Time \cup {Never}
        /\ now \in Time
    BY DEF TypeOK
  <1>3. Time \cup {Never} \subseteq Int
    BY <1>1
  <1> QED BY <1>1, <1>2, <1>3, TimeAssumption

LEMMA InitVInv == Init => VInv
  <1> SUFFICES ASSUME Init PROVE VInv
    OBVIOUS
  <1>1. RevokedInPast /\ CallsInTime /\ ToldWhileLive
    BY DEF Init, RevokedInPast, CallsInTime, ToldWhileLive, Idle
  <1>2. Never \in Int /\ Never <= 0
    BY TimeAssumption DEF Never
  <1>3. CacheBound
    BY <1>2 DEF Init, CacheBound, NoEntry
  <1>4. VerdictBound
    BY DEF Init, VerdictBound, NoEntry
  <1> QED BY InitTypeOK, <1>1, <1>3, <1>4 DEF VInv

LEMMA RevokedInPastKept == VInv /\ TypeOK' /\ [Next]_vars => RevokedInPast'
  <1> SUFFICES ASSUME VInv, TypeOK', [Next]_vars PROVE RevokedInPast'
    OBVIOUS
  <1> USE TimeAssumption DEF VInv, TypeOK, Time, Idle, RevokedInPast
  <1>1. ASSUME NEW k \in Key, CreateKey(k) PROVE RevokedInPast'
    BY <1>1 DEF CreateKey
  <1>2. ASSUME NEW k \in Key, RevokeKey(k) PROVE RevokedInPast'
    BY <1>2 DEF RevokeKey
  <1>3. ASSUME NEW c \in Caller, NEW k \in Key, ValidateFromCache(c, k)
        PROVE  RevokedInPast'
    BY <1>3 DEF ValidateFromCache, FreshEntry, Return, control
  <1>4. ASSUME NEW c \in Caller, NEW k \in Key, StartFetch(c, k)
        PROVE  RevokedInPast'
    BY <1>4 DEF StartFetch, Asked, control
  <1>5. ASSUME NEW c \in Caller, ValidateKey(c) PROVE RevokedInPast'
    BY <1>5 DEF ValidateKey, Answered, control
  <1>6. ASSUME NEW c \in Caller, FetchOk(c) PROVE RevokedInPast'
    BY <1>6 DEF FetchOk, Remember, Return, control
  <1>7. ASSUME NEW c \in Caller, FetchFail(c) PROVE RevokedInPast'
    BY <1>7 DEF FetchFail, Remember, Return, control
  <1>8. CASE Tick
    BY <1>8 DEF Tick, control
  <1>9. CASE UNCHANGED vars
    BY <1>9 DEF vars
  <1> QED BY <1>1, <1>2, <1>3, <1>4, <1>5, <1>6, <1>7, <1>8, <1>9 DEF Next

LEMMA CallsInTimeKept == VInv /\ TypeOK' /\ [Next]_vars => CallsInTime'
  <1> SUFFICES ASSUME VInv, TypeOK', [Next]_vars PROVE CallsInTime'
    OBVIOUS
  <1> USE TimeAssumption DEF VInv, TypeOK, Time, Idle, CallsInTime
  <1>1. ASSUME NEW k \in Key, CreateKey(k) PROVE CallsInTime'
    BY <1>1 DEF CreateKey
  <1>2. ASSUME NEW k \in Key, RevokeKey(k) PROVE CallsInTime'
    BY <1>2 DEF RevokeKey
  <1>3. ASSUME NEW c \in Caller, NEW k \in Key, ValidateFromCache(c, k)
        PROVE  CallsInTime'
    BY <1>3 DEF ValidateFromCache, FreshEntry, Return, control
  <1>4. ASSUME NEW c \in Caller, NEW k \in Key, StartFetch(c, k)
        PROVE  CallsInTime'
    BY <1>4 DEF StartFetch, Asked, control
  <1>5. ASSUME NEW c \in Caller, ValidateKey(c) PROVE CallsInTime'
    BY <1>5 DEF ValidateKey, Answered, control
  <1>6. ASSUME NEW c \in Caller, FetchOk(c) PROVE CallsInTime'
    BY <1>6 DEF FetchOk, Remember, Return, control
  <1>7. ASSUME NEW c \in Caller, FetchFail(c) PROVE CallsInTime'
    BY <1>7 DEF FetchFail, Remember, Return, control
  <1>8. CASE Tick
    BY <1>8 DEF Tick, control
  <1>9. CASE UNCHANGED vars
    BY <1>9 DEF vars
  <1> QED BY <1>1, <1>2, <1>3, <1>4, <1>5, <1>6, <1>7, <1>8, <1>9 DEF Next

LEMMA ToldWhileLiveKept == VInv /\ TypeOK' /\ [Next]_vars => ToldWhileLive'
  <1> SUFFICES ASSUME VInv, TypeOK', [Next]_vars PROVE ToldWhileLive'
    OBVIOUS
  <1> USE TimeAssumption DEF VInv, TypeOK, Time, Idle, ToldWhileLive
  <1>1. ASSUME NEW k \in Key, CreateKey(k) PROVE ToldWhileLive'
    BY <1>1 DEF CreateKey
  <1>2. ASSUME NEW k \in Key, RevokeKey(k) PROVE ToldWhileLive'
    BY <1>2 DEF RevokeKey, CallsInTime
  <1>3. ASSUME NEW c \in Caller, NEW k \in Key, ValidateFromCache(c, k)
        PROVE  ToldWhileLive'
    BY <1>3 DEF ValidateFromCache, FreshEntry, Return, control
  <1>4. ASSUME NEW c \in Caller, NEW k \in Key, StartFetch(c, k)
        PROVE  ToldWhileLive'
    BY <1>4 DEF StartFetch, Asked, control
  <1>5. ASSUME NEW c \in Caller, ValidateKey(c) PROVE ToldWhileLive'
    <2> SUFFICES ASSUME NEW d \in Caller,
                        call'[d].at = "answered", call'[d].told
                 PROVE  /\ status[call'[d].key] # "absent"
                        /\ status[call'[d].key] = "revoked" =>
                             call'[d].since <= revokedAt[call'[d].key]
      BY <1>5 DEF ValidateKey, control
    <2>1. CASE d = c
      <3>1. /\ call'[c].key = call[c].key
            /\ call'[c].told = (status[call[c].key] = "live")
        BY <1>5 DEF ValidateKey, Answered
      <3>2. status[call[c].key] = "live"
        BY <2>1, <3>1
      <3>3. status[call'[d].key] = "live"
        BY <2>1, <3>1, <3>2, Zenon
      <3> QED BY <3>3
    <2>2. CASE d # c
      <3>1. call'[d] = call[d]
        BY <1>5, <2>2 DEF ValidateKey
      <3> QED BY <3>1
    <2> QED BY <2>1, <2>2
  <1>6. ASSUME NEW c \in Caller, FetchOk(c) PROVE ToldWhileLive'
    BY <1>6 DEF FetchOk, Remember, Return, control
  <1>7. ASSUME NEW c \in Caller, FetchFail(c) PROVE ToldWhileLive'
    BY <1>7 DEF FetchFail, Remember, Return, control
  <1>8. CASE Tick
    BY <1>8 DEF Tick, control
  <1>9. CASE UNCHANGED vars
    BY <1>9 DEF vars
  <1> QED BY <1>1, <1>2, <1>3, <1>4, <1>5, <1>6, <1>7, <1>8, <1>9 DEF Next

LEMMA CacheBoundKept == VInv /\ TypeOK' /\ [Next]_vars => CacheBound'
  <1> SUFFICES ASSUME VInv, TypeOK', [Next]_vars PROVE CacheBound'
    OBVIOUS
  <1> USE TimeAssumption DEF VInv, TypeOK, Time, Idle, CacheBound
  <1>1. ASSUME NEW k \in Key, CreateKey(k) PROVE CacheBound'
    BY <1>1 DEF CreateKey
  <1>2. ASSUME NEW k \in Key, RevokeKey(k) PROVE CacheBound'
    BY <1>2, TimesAreInts DEF RevokeKey
  <1>3. ASSUME NEW c \in Caller, NEW k \in Key, ValidateFromCache(c, k)
        PROVE  CacheBound'
    BY <1>3 DEF ValidateFromCache, FreshEntry, Return, control
  <1>4. ASSUME NEW c \in Caller, NEW k \in Key, StartFetch(c, k)
        PROVE  CacheBound'
    BY <1>4 DEF StartFetch, Asked, control
  <1>5. ASSUME NEW c \in Caller, ValidateKey(c) PROVE CacheBound'
    BY <1>5 DEF ValidateKey, Answered, control
  <1>6. ASSUME NEW c \in Caller, FetchOk(c) PROVE CacheBound'
    <2>1. /\ call[c] \in [at : {"answered"}, key : Key, since : Time,
                         told : BOOLEAN]
          /\ call[c].since \in Nat /\ now \in Nat /\ now <= call[c].since + FetchTimeout
      BY <1>6, TimesAreInts DEF FetchOk, CallsInTime
    <2>2. cache' = [cache EXCEPT ![call[c].key] = [ok |-> call[c].told, at |-> now]]
      BY <1>6 DEF FetchOk, Remember
    <2>3. UNCHANGED <<status, revokedAt, now>>
      BY <1>6 DEF FetchOk, control
    <2> SUFFICES ASSUME NEW k \in Key
                 PROVE  /\ cache'[k].at <= now
                        /\ cache'[k].ok =>
                             /\ status[k] # "absent"
                             /\ status[k] = "revoked" =>
                                  cache'[k].at <= revokedAt[k] + FetchTimeout
      BY <2>3
    <2>4. CASE k = call[c].key
      <3>1. cache'[k] = [ok |-> call[c].told, at |-> now]
        BY <2>1, <2>2, <2>4
      <3>2. cache'[k].ok = call[c].told /\ cache'[k].at = now
        BY <3>1
      <3>3. ASSUME call[c].told
            PROVE  /\ status[k] # "absent"
                   /\ status[k] = "revoked" => call[c].since <= revokedAt[k]
        BY <3>3, <1>6, <2>4 DEF FetchOk, ToldWhileLive
      <3> QED BY <3>2, <3>3, <2>1, TimesAreInts
    <2>5. CASE k # call[c].key
      <3>1. cache'[k] = cache[k]
        BY <2>2, <2>5
      <3> QED BY <3>1
    <2> QED BY <2>4, <2>5
  <1>7. ASSUME NEW c \in Caller, FetchFail(c) PROVE CacheBound'
    BY <1>7 DEF FetchFail, Remember, Return, control
  <1>8. CASE Tick
    BY <1>8, TimesAreInts DEF Tick, control
  <1>9. CASE UNCHANGED vars
    BY <1>9 DEF vars
  <1> QED BY <1>1, <1>2, <1>3, <1>4, <1>5, <1>6, <1>7, <1>8, <1>9 DEF Next

LEMMA VerdictBoundKept == VInv /\ TypeOK' /\ [Next]_vars => VerdictBound'
  <1> SUFFICES ASSUME VInv, TypeOK', [Next]_vars PROVE VerdictBound'
    OBVIOUS
  <1> USE TimeAssumption DEF VInv, TypeOK, Time, Idle, VerdictBound
  <1>1. ASSUME NEW k \in Key, CreateKey(k) PROVE VerdictBound'
    BY <1>1 DEF CreateKey
  <1>2. ASSUME NEW k \in Key, RevokeKey(k) PROVE VerdictBound'
    BY <1>2 DEF RevokeKey
  <1>3. ASSUME NEW c \in Caller, NEW k \in Key, ValidateFromCache(c, k)
        PROVE  VerdictBound'
    BY <1>3, TimesAreInts DEF ValidateFromCache, FreshEntry, Return, control, CacheBound
  <1>4. ASSUME NEW c \in Caller, NEW k \in Key, StartFetch(c, k)
        PROVE  VerdictBound'
    BY <1>4 DEF StartFetch, Asked, control
  <1>5. ASSUME NEW c \in Caller, ValidateKey(c) PROVE VerdictBound'
    BY <1>5 DEF ValidateKey, Answered, control
  <1>6. ASSUME NEW c \in Caller, FetchOk(c) PROVE VerdictBound'
    <2>1. /\ call[c] \in [at : {"answered"}, key : Key, since : Time,
                         told : BOOLEAN]
          /\ call[c].since \in Nat /\ now \in Nat /\ now <= call[c].since + FetchTimeout
      BY <1>6, TimesAreInts DEF FetchOk, CallsInTime
    <2>2. verdict' = [verdict EXCEPT ![c] = [at |-> now, key |-> call[c].key,
                                             ok |-> call[c].told]]
      BY <1>6 DEF FetchOk, Remember, Return
    <2>3. UNCHANGED <<status, revokedAt, now>>
      BY <1>6 DEF FetchOk, control
    <2> SUFFICES ASSUME NEW d \in Caller, verdict'[d].at # Never
                 PROVE  /\ verdict'[d].at <= now
                        /\ verdict'[d].ok =>
                             /\ status[verdict'[d].key] # "absent"
                             /\ status[verdict'[d].key] = "revoked" =>
                                  verdict'[d].at < revokedAt[verdict'[d].key]
                                                     + FetchTimeout + CacheTtl
      BY <2>3
    <2>4. CASE d = c
      <3>1. verdict'[d] = [at |-> now, key |-> call[c].key, ok |-> call[c].told]
        BY <2>2, <2>4
      <3>2. /\ verdict'[d].ok = call[c].told /\ verdict'[d].at = now
            /\ verdict'[d].key = call[c].key
        BY <3>1
      <3>3. ASSUME call[c].told
            PROVE  /\ status[call[c].key] # "absent"
                   /\ status[call[c].key] = "revoked" =>
                        call[c].since <= revokedAt[call[c].key]
        BY <3>3, <1>6 DEF FetchOk, ToldWhileLive
      <3>4. /\ revokedAt[call[c].key] \in Int
            /\ CacheTtl \in Nat \ {0} /\ FetchTimeout \in Nat
        BY <2>1, TimesAreInts
      <3> HIDE DEF VInv, TypeOK, Time, Idle, VerdictBound
      <3>5. now <= now
        BY <2>1
      <3>6. ASSUME call[c].told, status[call[c].key] = "revoked"
            PROVE  now < revokedAt[call[c].key] + FetchTimeout + CacheTtl
        <4>1. call[c].since <= revokedAt[call[c].key]
          BY <3>3, <3>6
        <4> QED BY <4>1, <3>4, <2>1
      <3> QED BY <3>2, <3>3, <3>5, <3>6
    <2>5. CASE d # c
      <3>1. verdict'[d] = verdict[d]
        BY <2>2, <2>5
      <3> QED BY <3>1
    <2> QED BY <2>4, <2>5
  <1>7. ASSUME NEW c \in Caller, FetchFail(c) PROVE VerdictBound'
    BY <1>7 DEF FetchFail, Remember, Return, control
  <1>8. CASE Tick
    BY <1>8 DEF Tick, control
  <1>9. CASE UNCHANGED vars
    BY <1>9 DEF vars
  <1> QED BY <1>1, <1>2, <1>3, <1>4, <1>5, <1>6, <1>7, <1>8, <1>9 DEF Next

\* Revocation takes effect within the cache's ttl plus one request timeout,
\* whatever the callers' requests overwrite in the cache.
THEOREM RevocationBound == Spec => []RevocationTakesEffect
  <1>1. VInv /\ [Next]_vars /\ TypeOK' => VInv'
    BY RevokedInPastKept, CallsInTimeKept, ToldWhileLiveKept, CacheBoundKept,
       VerdictBoundKept DEF VInv
  <1>2. VInv => RevocationTakesEffect
    BY TimeAssumption
    DEF VInv, TypeOK, VerdictBound, RevocationTakesEffect, RevokedInPast, Time,
        Never
  <1> QED BY InitVInv, TypeCorrect, <1>1, <1>2, PTL DEF Spec

\* Only a key the control plane has issued is ever accepted: by the cache, by an
\* answer on its way to a caller, and by the verdict a caller was given.
THEOREM AcceptedKeysIssued ==
  Spec => []( /\ \A k \in Key : cache[k].ok => status[k] # "absent"
              /\ \A c \in Caller : call[c].at = "answered" /\ call[c].told =>
                   status[call[c].key] # "absent"
              /\ \A c \in Caller : verdict[c].at # Never /\ verdict[c].ok =>
                   status[verdict[c].key] # "absent")
  <1> DEFINE Issued ==
        /\ \A k \in Key : cache[k].ok => status[k] # "absent"
        /\ \A c \in Caller : call[c].at = "answered" /\ call[c].told =>
             status[call[c].key] # "absent"
        /\ \A c \in Caller : verdict[c].at # Never /\ verdict[c].ok =>
             status[verdict[c].key] # "absent"
  <1>1. VInv /\ [Next]_vars /\ TypeOK' => VInv'
    BY RevokedInPastKept, CallsInTimeKept, ToldWhileLiveKept, CacheBoundKept,
       VerdictBoundKept DEF VInv
  <1>2. VInv => Issued
    BY DEF VInv, CacheBound, ToldWhileLive, VerdictBound
  <1> QED BY InitVInv, TypeCorrect, <1>1, <1>2, PTL DEF Spec

-----------------------------------------------------------------------------
(***************************************************************************)
(* What bounds a rejection.  A request that failed leaves its rejection    *)
(* and lastFailure at the same instant; a rejection that was told while    *)
(* the key did not exist yet comes from a request that started before the  *)
(* key's creation, and is written before that request's timeout.           *)
(***************************************************************************)
HistoryInPast ==
  \A k \in Key : /\ lastFailure[k] <= now
                 /\ status[k] = "live" => createdAt[k] \in 0..now

ToldBeforeCreated ==
  \A c \in Caller : call[c].at = "answered" /\ ~call[c].told =>
    \/ status[call[c].key] # "live"
    \/ call[c].since <= createdAt[call[c].key]

CachedRejection ==
  \A k \in Key : ~cache[k].ok =>
    \/ cache[k].at = Never
    \/ status[k] # "live"
    \/ cache[k].at <= lastFailure[k]
    \/ cache[k].at <= createdAt[k] + FetchTimeout

RInv ==
  VInv /\ HistoryInPast /\ ToldBeforeCreated /\ CachedRejection
       /\ RejectionsAreTemporary

LEMMA InitRInv == Init => RInv
  <1> SUFFICES ASSUME Init PROVE RInv
    OBVIOUS
  <1>1. Never \in Int /\ Never < 0
    BY TimeAssumption DEF Never
  <1>2. HistoryInPast
    <2> SUFFICES ASSUME NEW k \in Key
                 PROVE  /\ lastFailure[k] <= now
                        /\ status[k] = "live" => createdAt[k] \in 0..now
      BY DEF HistoryInPast
    <2>1. now = 0 /\ lastFailure[k] = Never
      BY DEF Init
    <2>2. status[k] = "live" => createdAt[k] = 0
      BY DEF Init
    <2> QED BY <1>1, <2>1, <2>2
  <1>3. ToldBeforeCreated
    BY DEF Init, ToldBeforeCreated, Idle
  <1>4. CachedRejection
    BY DEF Init, CachedRejection, NoEntry
  <1>5. RejectionsAreTemporary
    BY DEF Init, RejectionsAreTemporary
  <1> QED BY <1>2, <1>3, <1>4, <1>5, InitVInv DEF RInv

LEMMA HistoryIsInts ==
  ASSUME TypeOK
  PROVE  /\ Never \in Int /\ Never < 0
         /\ \A k \in Key : createdAt[k] \in Int /\ lastFailure[k] \in Int
         /\ \A c \in Caller : call[c].at # "idle" => /\ call[c].key \in Key
                                                     /\ call[c].since \in Nat
         /\ \A c \in Caller : /\ verdict[c].at \in Int
                              /\ verdict[c].at # Never => verdict[c].key \in Key
  <1>1. Never \in Int /\ Never < 0 /\ Time \subseteq Nat
    BY TimeAssumption DEF Never, Time
  <1>2. Time \cup {Never} \subseteq Int
    BY <1>1
  <1>3. \A k \in Key : createdAt[k] \in Time \cup {Never}
                       /\ lastFailure[k] \in Time \cup {Never}
    BY DEF TypeOK
  <1>4. ASSUME NEW c \in Caller, call[c].at # "idle"
        PROVE  call[c].key \in Key /\ call[c].since \in Nat
    <2>1. call[c] \in {Idle}
            \cup [at : {"asked"}, key : Key, since : Time]
            \cup [at : {"answered"}, key : Key, since : Time, told : BOOLEAN]
      BY DEF TypeOK
    <2>2. call[c] # Idle
      BY <1>4 DEF Idle
    <2>3. CASE call[c] \in [at : {"asked"}, key : Key, since : Time]
      BY <1>1, <2>3
    <2>4. CASE call[c] \in [at : {"answered"}, key : Key, since : Time,
                            told : BOOLEAN]
      BY <1>1, <2>4
    <2> QED BY <2>1, <2>2, <2>3, <2>4
  <1>5. ASSUME NEW c \in Caller
        PROVE  /\ verdict[c].at \in Int
               /\ verdict[c].at # Never => verdict[c].key \in Key
    <2>1. verdict[c] \in [at : {Never}] \cup [at : Time, key : Key, ok : BOOLEAN]
      BY DEF TypeOK
    <2>2. CASE verdict[c] \in [at : {Never}]
      BY <1>1, <2>2
    <2>3. CASE verdict[c] \in [at : Time, key : Key, ok : BOOLEAN]
      <3>1. verdict[c].at \in Time /\ verdict[c].key \in Key
        BY <2>3
      <3> QED BY <1>2, <3>1
    <2> QED BY <2>1, <2>2, <2>3
  <1> QED BY <1>1, <1>2, <1>3, <1>4, <1>5

LEMMA HistoryInPastKept == RInv /\ TypeOK' /\ [Next]_vars => HistoryInPast'
  <1> SUFFICES ASSUME RInv, TypeOK', [Next]_vars PROVE HistoryInPast'
    OBVIOUS
  <1>0. TypeOK /\ now \in Nat
    BY TimeAssumption DEF RInv, VInv, TypeOK, Time
  <1> USE <1>0, HistoryIsInts DEF RInv, HistoryInPast
  <1>1. ASSUME NEW k \in Key, CreateKey(k) \/ RevokeKey(k) PROVE HistoryInPast'
    BY <1>1 DEF CreateKey, RevokeKey, TypeOK
  <1>2. ASSUME NEW c \in Caller, NEW k \in Key,
               ValidateFromCache(c, k) \/ StartFetch(c, k)
        PROVE  HistoryInPast'
    BY <1>2 DEF ValidateFromCache, StartFetch, control
  <1>3. ASSUME NEW c \in Caller, ValidateKey(c) \/ FetchOk(c)
        PROVE  HistoryInPast'
    BY <1>3 DEF ValidateKey, FetchOk, control
  <1>4. ASSUME NEW c \in Caller, FetchFail(c) PROVE HistoryInPast'
    BY <1>4 DEF FetchFail, control, TypeOK
  <1>5. CASE Tick
    BY <1>5 DEF Tick, control
  <1>6. CASE UNCHANGED vars
    BY <1>6 DEF vars
  <1> QED BY <1>1, <1>2, <1>3, <1>4, <1>5, <1>6 DEF Next

LEMMA ToldBeforeCreatedKept ==
  RInv /\ TypeOK' /\ [Next]_vars => ToldBeforeCreated'
  <1> SUFFICES ASSUME RInv, TypeOK', [Next]_vars PROVE ToldBeforeCreated'
    OBVIOUS
  <1>0. TypeOK /\ CallsInTime
    BY DEF RInv, VInv
  <1> USE DEF RInv, ToldBeforeCreated
  <1>1. ASSUME NEW k \in Key, CreateKey(k) \/ RevokeKey(k)
        PROVE  ToldBeforeCreated'
    <2> SUFFICES ASSUME NEW d \in Caller,
                        call[d].at = "answered", ~call[d].told
                 PROVE  \/ status'[call[d].key] # "live"
                        \/ call[d].since <= createdAt'[call[d].key]
      BY <1>1 DEF CreateKey, RevokeKey
    <2>1. /\ call[d].key \in Key /\ call[d].since <= now
          /\ \/ status[call[d].key] # "live"
             \/ call[d].since <= createdAt[call[d].key]
      BY <1>0, HistoryIsInts DEF CallsInTime
    <2>2. /\ status \in [Key -> {"absent", "live", "revoked"}]
          /\ createdAt \in [Key -> Time \cup {Never}]
      BY <1>0 DEF TypeOK
    <2>3. CASE CreateKey(k)
      BY <2>1, <2>2, <2>3 DEF CreateKey
    <2>4. CASE RevokeKey(k)
      BY <2>1, <2>2, <2>4 DEF RevokeKey
    <2> QED BY <1>1, <2>3, <2>4
  <1>2. ASSUME NEW c \in Caller, NEW k \in Key,
               ValidateFromCache(c, k) \/ StartFetch(c, k)
        PROVE  ToldBeforeCreated'
    BY <1>0, <1>2 DEF ValidateFromCache, StartFetch, Asked, control, TypeOK
  <1>3. ASSUME NEW c \in Caller, ValidateKey(c) PROVE ToldBeforeCreated'
    <2> SUFFICES ASSUME NEW d \in Caller,
                        call'[d].at = "answered", ~call'[d].told
                 PROVE  \/ status[call'[d].key] # "live"
                        \/ call'[d].since <= createdAt[call'[d].key]
      BY <1>3 DEF ValidateKey, control
    <2>1. CASE d = c
      <3>1. /\ call'[c].key = call[c].key
            /\ call'[c].told = (status[call[c].key] = "live")
        BY <1>0, <1>3 DEF ValidateKey, Answered, TypeOK
      <3> QED BY <2>1, <3>1
    <2>2. CASE d # c
      BY <1>3, <2>2 DEF ValidateKey
    <2> QED BY <2>1, <2>2
  <1>4. ASSUME NEW c \in Caller, FetchOk(c) \/ FetchFail(c)
        PROVE  ToldBeforeCreated'
    <2>1. /\ call' = [call EXCEPT ![c] = Idle]
          /\ UNCHANGED <<status, createdAt>>
      BY <1>4 DEF FetchOk, FetchFail, Remember, control
    <2>2. \A d \in Caller : call'[d].at = "answered" => call'[d] = call[d]
      BY <1>0, <2>1 DEF TypeOK, Idle
    <2> QED BY <2>1, <2>2
  <1>5. CASE Tick
    BY <1>5 DEF Tick, control
  <1>6. CASE UNCHANGED vars
    BY <1>6 DEF vars
  <1> QED BY <1>1, <1>2, <1>3, <1>4, <1>5, <1>6 DEF Next

LEMMA CachedRejectionKept ==
  RInv /\ TypeOK' /\ [Next]_vars => CachedRejection'
  <1> SUFFICES ASSUME RInv, TypeOK', [Next]_vars PROVE CachedRejection'
    OBVIOUS
  <1>0. /\ TypeOK /\ CallsInTime /\ CacheBound
        /\ FetchTimeout \in Nat /\ now \in Nat
        /\ \A k \in Key : cache[k].at \in Int
    BY TimesAreInts, TimeAssumption DEF RInv, VInv
  <1> USE DEF RInv, CachedRejection
  <1>1. ASSUME NEW k \in Key, CreateKey(k) \/ RevokeKey(k)
        PROVE  CachedRejection'
    BY <1>0, <1>1 DEF CreateKey, RevokeKey, TypeOK, CacheBound
  <1>2. ASSUME NEW c \in Caller, NEW k \in Key,
               ValidateFromCache(c, k) \/ StartFetch(c, k)
        PROVE  CachedRejection'
    BY <1>2 DEF ValidateFromCache, StartFetch, control
  <1>3. ASSUME NEW c \in Caller, ValidateKey(c) PROVE CachedRejection'
    BY <1>3 DEF ValidateKey, control
  <1>4. ASSUME NEW c \in Caller, FetchOk(c) PROVE CachedRejection'
    <2>1. /\ call[c].key \in Key /\ call[c].since \in Nat
          /\ now <= call[c].since + FetchTimeout
          /\ createdAt[call[c].key] \in Int
      BY <1>0, <1>4, HistoryIsInts DEF FetchOk, CallsInTime
    <2>2. /\ cache' = [cache EXCEPT ![call[c].key] = [ok |-> call[c].told, at |-> now]]
          /\ UNCHANGED <<status, createdAt, lastFailure>>
      BY <1>4 DEF FetchOk, Remember, control
    <2>3. ~call[c].told => \/ status[call[c].key] # "live"
                           \/ call[c].since <= createdAt[call[c].key]
      BY <1>4 DEF FetchOk, ToldBeforeCreated
    <2>4. ~call[c].told => \/ status[call[c].key] # "live"
                           \/ now <= createdAt[call[c].key] + FetchTimeout
      BY <1>0, <2>1, <2>3
    <2> QED BY <1>0, <2>1, <2>2, <2>4 DEF TypeOK
  <1>5. ASSUME NEW c \in Caller, FetchFail(c) PROVE CachedRejection'
    <2>1. call[c].key \in Key
      BY <1>0, <1>5, HistoryIsInts DEF FetchFail
    <2>2. /\ cache' = [cache EXCEPT ![call[c].key] = [ok |-> FALSE, at |-> now]]
          /\ lastFailure' = [lastFailure EXCEPT ![call[c].key] = now]
          /\ UNCHANGED <<status, createdAt>>
      BY <1>5 DEF FetchFail, Remember, control
    <2> QED BY <1>0, <2>1, <2>2 DEF TypeOK
  <1>6. CASE Tick
    BY <1>6 DEF Tick, control
  <1>7. CASE UNCHANGED vars
    BY <1>7 DEF vars
  <1> QED BY <1>1, <1>2, <1>3, <1>4, <1>5, <1>6, <1>7 DEF Next

LEMMA RejectionsKept ==
  RInv /\ TypeOK' /\ [Next]_vars => RejectionsAreTemporary'
  <1> SUFFICES ASSUME RInv, TypeOK', [Next]_vars PROVE RejectionsAreTemporary'
    OBVIOUS
  <1>0. /\ TypeOK /\ CallsInTime /\ CacheBound /\ VerdictBound
        /\ FetchTimeout \in Nat /\ CacheTtl \in Nat \ {0} /\ now \in Nat
        /\ \A k \in Key : cache[k].at \in Int
        /\ \A k \in Key : createdAt[k] \in Int /\ lastFailure[k] \in Int
        /\ \A c \in Caller : verdict[c].at \in Int
    BY TimesAreInts, TimeAssumption, HistoryIsInts DEF RInv, VInv
  <1> USE DEF RInv, RejectionsAreTemporary
  \* What a rejection returned at this instant needs.
  <1>a. ASSUME NEW c \in Caller, NEW k \in Key, NEW ok \in BOOLEAN,
               verdict' = [verdict EXCEPT ![c] = [at |-> now, key |-> k, ok |-> ok]],
               UNCHANGED <<status, createdAt>>,
               \A j \in Key : lastFailure'[j] \in {lastFailure[j], now},
               ok \/ now - lastFailure'[k] < CacheTtl
                  \/ now - createdAt[k] < CacheTtl + FetchTimeout
                  \/ status[k] # "live"
        PROVE  RejectionsAreTemporary'
    <2> SUFFICES ASSUME NEW d \in Caller,
                        verdict'[d].at # Never, ~verdict'[d].ok
                 PROVE  \/ verdict'[d].at - lastFailure'[verdict'[d].key] < CacheTtl
                        \/ verdict'[d].at - createdAt'[verdict'[d].key]
                             < CacheTtl + FetchTimeout
                        \/ status'[verdict'[d].key] # "live"
      BY DEF Never
    <2>1. CASE d = c
      <3>1. verdict'[d] = [at |-> now, key |-> k, ok |-> ok]
        BY <1>0, <1>a, <2>1 DEF TypeOK
      <3> QED BY <1>a, <3>1
    <2>2. CASE d # c
      <3>1. verdict'[d] = verdict[d]
        BY <1>a, <2>2 DEF TypeOK
      <3>2. verdict[d].at <= now /\ verdict[d].key \in Key
        BY <1>0, <3>1, HistoryIsInts DEF VerdictBound
      <3>3. \/ verdict[d].at - lastFailure[verdict[d].key] < CacheTtl
            \/ verdict[d].at - createdAt[verdict[d].key] < CacheTtl + FetchTimeout
            \/ status[verdict[d].key] # "live"
        BY <3>1
      <3>4. /\ verdict[d].at - now < CacheTtl
            /\ lastFailure'[verdict[d].key] \in {lastFailure[verdict[d].key], now}
        BY <1>0, <1>a, <3>2
      <3> QED BY <1>a, <3>1, <3>3, <3>4
    <2> QED BY <2>1, <2>2
  <1>1. ASSUME NEW k \in Key, CreateKey(k) PROVE RejectionsAreTemporary'
    <2> SUFFICES ASSUME NEW d \in Caller, verdict[d].at # Never, ~verdict[d].ok
                 PROVE  \/ verdict[d].at - lastFailure[verdict[d].key] < CacheTtl
                        \/ verdict[d].at - createdAt'[verdict[d].key]
                             < CacheTtl + FetchTimeout
                        \/ status'[verdict[d].key] # "live"
      BY <1>1 DEF CreateKey, Never
    <2>1. CASE verdict[d].key = k
      <3>1. createdAt'[k] = now /\ verdict[d].at <= now
        BY <1>0, <1>1 DEF CreateKey, TypeOK, VerdictBound
      <3> QED BY <1>0, <2>1, <3>1
    <2>2. CASE verdict[d].key # k
      BY <1>1, <2>2 DEF CreateKey
    <2> QED BY <2>1, <2>2
  <1>2. ASSUME NEW k \in Key, RevokeKey(k) PROVE RejectionsAreTemporary'
    BY <1>0, <1>2 DEF RevokeKey, TypeOK, Never
  <1>3. ASSUME NEW c \in Caller, NEW k \in Key, ValidateFromCache(c, k)
        PROVE  RejectionsAreTemporary'
    <2>1. now - cache[k].at < CacheTtl /\ cache[k].ok \in BOOLEAN
      BY <1>0, <1>3 DEF ValidateFromCache, FreshEntry, TypeOK
    <2>2. cache[k].at # Never
      BY <1>0, <2>1 DEF Never
    <2>3. \/ cache[k].ok
          \/ status[k] # "live"
          \/ cache[k].at <= lastFailure[k]
          \/ cache[k].at <= createdAt[k] + FetchTimeout
      BY <2>2 DEF CachedRejection
    <2>4. \/ cache[k].ok
          \/ now - lastFailure[k] < CacheTtl
          \/ now - createdAt[k] < CacheTtl + FetchTimeout
          \/ status[k] # "live"
      BY <1>0, <2>1, <2>3
    <2>5. /\ verdict' = [verdict EXCEPT ![c] = [at |-> now, key |-> k,
                                                ok |-> cache[k].ok]]
          /\ UNCHANGED <<status, createdAt, lastFailure>>
      BY <1>3 DEF ValidateFromCache, Return, control
    <2> QED BY <1>a, <2>1, <2>4, <2>5
  <1>4. ASSUME NEW c \in Caller, NEW k \in Key, StartFetch(c, k)
        PROVE  RejectionsAreTemporary'
    BY <1>4 DEF StartFetch, control, Never
  <1>5. ASSUME NEW c \in Caller, ValidateKey(c) PROVE RejectionsAreTemporary'
    BY <1>5 DEF ValidateKey, control, Never
  <1>6. ASSUME NEW c \in Caller, FetchOk(c) PROVE RejectionsAreTemporary'
    <2>1. /\ call[c].key \in Key /\ call[c].since \in Nat
          /\ now <= call[c].since + FetchTimeout
      BY <1>0, <1>6, HistoryIsInts DEF FetchOk, CallsInTime
    <2>2. /\ verdict' = [verdict EXCEPT ![c] = [at |-> now, key |-> call[c].key,
                                                ok |-> call[c].told]]
          /\ UNCHANGED <<status, createdAt, lastFailure>>
      BY <1>6 DEF FetchOk, Remember, Return, control
    <2>3. call[c].told \in BOOLEAN
      BY <1>0, <1>6 DEF FetchOk, TypeOK, Idle
    <2>4. call[c].told \/ status[call[c].key] # "live"
                       \/ call[c].since <= createdAt[call[c].key]
      BY <1>6 DEF FetchOk, ToldBeforeCreated
    <2>5. call[c].told \/ status[call[c].key] # "live"
                       \/ now - createdAt[call[c].key] < CacheTtl + FetchTimeout
      BY <1>0, <2>1, <2>4
    <2> QED BY <1>a, <2>1, <2>2, <2>3, <2>5
  <1>7. ASSUME NEW c \in Caller, FetchFail(c) PROVE RejectionsAreTemporary'
    <2>1. call[c].key \in Key
      BY <1>0, <1>7, HistoryIsInts DEF FetchFail
    <2>2. /\ verdict' = [verdict EXCEPT ![c] = [at |-> now, key |-> call[c].key,
                                                ok |-> FALSE]]
          /\ lastFailure' = [lastFailure EXCEPT ![call[c].key] = now]
          /\ UNCHANGED <<status, createdAt>>
      BY <1>7 DEF FetchFail, Remember, Return, control
    <2>3. lastFailure'[call[c].key] = now
      BY <1>0, <2>1, <2>2 DEF TypeOK
    <2>4. \A j \in Key : lastFailure'[j] \in {lastFailure[j], now}
      BY <1>0, <2>2 DEF TypeOK
    <2>5. now - lastFailure'[call[c].key] < CacheTtl
      BY <1>0, <2>3
    <2> QED BY <1>a, <2>1, <2>2, <2>4, <2>5
  <1>8. CASE Tick
    BY <1>8 DEF Tick, control, Never
  <1>9. CASE UNCHANGED vars
    BY <1>9 DEF vars, Never
  <1> QED BY <1>1, <1>2, <1>3, <1>4, <1>5, <1>6, <1>7, <1>8, <1>9 DEF Next

\* A live key is rejected only in the shadow of a failed request, which lasts
\* less than the ttl, or of a lookup made before the key existed.
THEOREM RejectionBound == Spec => []RejectionsAreTemporary
  <1>1. RInv /\ [Next]_vars /\ TypeOK' => RInv'
    BY RevokedInPastKept, CallsInTimeKept, ToldWhileLiveKept, CacheBoundKept,
       VerdictBoundKept, HistoryInPastKept, ToldBeforeCreatedKept,
       CachedRejectionKept, RejectionsKept DEF RInv, VInv
  <1>2. RInv => RejectionsAreTemporary
    BY DEF RInv
  <1> QED BY InitRInv, TypeCorrect, <1>1, <1>2, PTL DEF Spec
=============================================================================
