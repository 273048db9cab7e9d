---------------------------- MODULE ControlPlane -----------------------------
(***************************************************************************)
(* services/control: accounts, sign-in links, keys, stations and roles in  *)
(* one SQLite database behind one lock.                                    *)
(*                                                                         *)
(* A handler takes the lock to find out who calls, releases it, and takes  *)
(* it again to do what was asked.  Only an admin's update depends on what  *)
(* the first section read in a way another handler can change, so only it  *)
(* is two steps here; everything else is one.  A session cookie names the  *)
(* account and lasts a month: any account may call at any time.            *)
(*                                                                         *)
(* Accounts are e-mail addresses; timestamps are ticks.  Who may do what,  *)
(* what the passing of time does to links, and what it does to keys do not *)
(* depend on each other: a behaviour is about some of the three (concern), *)
(* and a model may take one at a time so that their states add up instead  *)
(* of multiplying.                                                         *)
(***************************************************************************)
EXTENDS Integers, Sequences, FiniteSets

CONSTANTS
  User, Key, Link,   \* accounts, keys and sign-in links there may be
  Window,            \* CONTRIBUTOR_WINDOW_DAYS
  Throttle,          \* validate_key: 5 minutes
  LinkTtl,           \* MAGIC_TTL_MINUTES
  Concerns,          \* sets of "roles", "links" and "keys": what a behaviour
                     \* may be about
  MaxTime, MaxRequests   \* bounds of the model: ticks, updates in flight

ASSUME ControlAssumption ==
  /\ Throttle \in Nat /\ LinkTtl \in Nat
  /\ Window \in Nat /\ Throttle <= Window
ASSUME ControlBounds == MaxTime \in Nat /\ MaxRequests \in Nat

VARIABLES
  concern,    \* what the behaviour is about
  role,       \* users.role; "none" for no account
  joined,     \* the accounts in the order of created_at
  override,   \* users.tier_override
  keys,       \* api_keys, with the station of a station key
  links,      \* magic_tokens
  requests,   \* admin updates that passed their checks
  now,
  presented,  \* history: when each key was last found valid, but for the
              \* times when that should have been recorded and was not
  signIns,    \* history: what the links did
  authority   \* history: whether there has been an admin since the process
              \* started, and whether an update outlived its caller's role

vars == <<concern, role, joined, override, keys, links, requests, now, presented,
          signIns, authority>>
accounts == <<role, joined, override>>

Never == -Window - 1
NoKey == [kind |-> "none"]
NoLink == [email |-> "none"]
Roles == {"user", "moderator", "admin"}
Tiers == {"auto", "free", "contributor"}
Unchanged == "unchanged"   \* a field the update leaves out

Update == [by : User, on : User, role : Roles \cup {Unchanged},
           tier : Tiers \cup {Unchanged}]

Admins == {u \in User : role[u] = "admin"}

Init ==
  /\ concern \in Concerns
  /\ role = [u \in User |-> "none"]
  /\ joined = <<>>
  /\ override = [u \in User |-> "auto"]
  /\ keys = [k \in Key |-> NoKey]
  /\ links = [l \in Link |-> NoLink]
  /\ requests = {}
  /\ now = 0
  /\ presented = [k \in Key |-> Never]
  /\ signIns = {}
  /\ authority = "none"

-----------------------------------------------------------------------------
\* Sign-in.

\* upsert_email_user, and upsert_oauth_user with an address.
Upsert(u) ==
  IF role[u] = "none"
    THEN /\ role' = [role EXCEPT ![u] = "user"]
         /\ joined' = Append(joined, u)
    ELSE UNCHANGED <<role, joined>>

\* github_exchange, google_exchange.
SignInWithProvider(u) ==
  /\ role[u] = "none"
  /\ Upsert(u)
  /\ UNCHANGED <<override, keys, links, requests, now, presented, signIns,
                 authority>>

\* magic_request, for any address.
RequestLink(l, u) ==
  /\ links[l] = NoLink
  /\ links' = [links EXCEPT ![l] = [email |-> u, expires |-> now + LinkTtl,
                                    used |-> FALSE]]
  /\ UNCHANGED <<accounts, keys, requests, now, presented, signIns, authority>>

LinkWorks(l) == links[l] # NoLink /\ ~links[l].used /\ now <= links[l].expires

SignIn(l) == signIns' = signIns \cup {[link |-> l, as |-> links[l].email, at |-> now]}

\* Mutation: the link is not marked as used.
VerifyLinkAgain(l) ==
  /\ LinkWorks(l)
  /\ Upsert(links[l].email)
  /\ SignIn(l)
  /\ UNCHANGED <<override, keys, links, requests, now, presented, authority>>

\* magic_verify: the link is consumed and the account found, or made, under
\* one lock.
VerifyLink(l) ==
  /\ LinkWorks(l)
  /\ links' = [links EXCEPT ![l].used = TRUE]
  /\ Upsert(links[l].email)
  /\ SignIn(l)
  /\ UNCHANGED <<override, keys, requests, now, presented, authority>>

-----------------------------------------------------------------------------
\* Keys and tiers.

\* create_key, and create_station with the key it mints.
CreateKey(u, k, kind) ==
  /\ role[u] # "none" /\ keys[k] = NoKey
  /\ keys' = [keys EXCEPT ![k] = [kind |-> kind, owner |-> u, revoked |-> FALSE,
                                  used |-> Never, seen |-> Never]]
  /\ UNCHANGED <<accounts, links, requests, now, presented, signIns, authority>>

RevokeKey(u, k) ==
  /\ keys[k] # NoKey /\ keys[k].owner = u /\ ~keys[k].revoked
  /\ keys' = [keys EXCEPT ![k].revoked = TRUE]
  /\ UNCHANGED <<accounts, links, requests, now, presented, signIns, authority>>

\* Mutation: the throttle is as long as the window.
TouchDueAfterWindow(k) == keys[k].kind # "live" /\ now - keys[k].used > Window

\* Only feeding counts, and is recorded every few minutes only.
TouchDue(k) == keys[k].kind # "live" /\ now - keys[k].used > Throttle

\* validate_key, for a key that is valid.  If the record fails (touch_key) the
\* key is answered as valid all the same, and the next time is due again.
ValidateKey(k) ==
  /\ keys[k] # NoKey /\ ~keys[k].revoked
  /\ \/ /\ keys' = [keys EXCEPT ![k].used = IF TouchDue(k) THEN now ELSE @]
        /\ presented' = [presented EXCEPT ![k] = now]
     \/ TouchDue(k) /\ UNCHANGED <<keys, presented>>
  /\ UNCHANGED <<accounts, links, requests, now, signIns, authority>>

\* heartbeat: the station is found by its key, revoked or not.
Heartbeat(k) ==
  /\ keys[k].kind = "station"
  /\ keys' = [keys EXCEPT ![k].seen = now]
  /\ UNCHANGED <<accounts, links, requests, now, presented, signIns, authority>>

OwnKeys(u) == {k \in Key : keys[k] # NoKey /\ keys[k].owner = u}

\* tier_for_user.
Tier(u) ==
  IF override[u] # "auto" THEN override[u]
  ELSE IF \E k \in OwnKeys(u) :
            \/ keys[k].kind # "live" /\ ~keys[k].revoked /\ keys[k].used >= now - Window
            \/ keys[k].seen >= now - Window
         THEN "contributor" ELSE "free"

-----------------------------------------------------------------------------
\* admin_update_user.

\* Mutation: an admin may change their own role.
MayUpdateSelf(q) ==
  /\ role[q.by] \in {"moderator", "admin"}
  /\ q.role # Unchanged => role[q.by] = "admin"

\* require_role and the checks on a role change.
MayUpdate(q) ==
  /\ role[q.by] \in {"moderator", "admin"}
  /\ q.role # Unchanged => role[q.by] = "admin" /\ q.by # q.on

\* The caller is known and allowed; the lock is free again.
CheckUpdate(q) ==
  /\ Cardinality(requests) < MaxRequests
  /\ MayUpdate(q)
  /\ requests' = requests \cup {q}
  /\ UNCHANGED <<accounts, keys, links, now, presented, signIns, authority>>

\* The lock again; nothing is checked again.
ApplyUpdate(q) ==
  /\ q \in requests
  /\ requests' = requests \ {q}
  /\ IF role[q.on] = "none"
       THEN UNCHANGED <<role, override>>
       ELSE /\ role' = [role EXCEPT ![q.on] = IF q.role = Unchanged THEN @ ELSE q.role]
            /\ override' = [override EXCEPT ![q.on] =
                              IF q.tier = Unchanged THEN @ ELSE q.tier]
  /\ authority' = IF q.role # Unchanged /\ role[q.by] # "admin" THEN "stale"
                                                               ELSE authority
  /\ UNCHANGED <<joined, keys, links, now, presented, signIns>>

\* The process is deployed again.  ensure_bootstrap_admin: the oldest account
\* becomes an admin when there is none.
Restart ==
  /\ role' = IF Admins = {} /\ joined # <<>>
               THEN [role EXCEPT ![Head(joined)] = "admin"] ELSE role
  /\ requests' = {}
  /\ authority' = IF joined # <<>> THEN "kept" ELSE "none"
  /\ UNCHANGED <<joined, override, keys, links, now, presented, signIns>>

Tick ==
  /\ now < MaxTime
  /\ now' = now + 1
  /\ UNCHANGED <<accounts, keys, links, requests, presented, signIns, authority>>

RolesNext ==
  \/ \E q \in Update : CheckUpdate(q)
  \/ \E q \in requests : ApplyUpdate(q)

LinksNext ==
  \E l \in Link : VerifyLink(l) \/ \E u \in User : RequestLink(l, u)

KeysNext ==
  \/ \E k \in Key : ValidateKey(k) \/ Heartbeat(k)
  \/ \E u \in User, k \in Key :
       RevokeKey(u, k) \/ \E kind \in {"live", "feed", "station"} : CreateKey(u, k, kind)

Next ==
  /\ \/ \E u \in User : SignInWithProvider(u)
     \/ "roles" \in concern /\ RolesNext
     \/ "links" \in concern /\ (LinksNext \/ Tick)
     \/ "keys" \in concern /\ (KeysNext \/ Tick)
     \/ Restart
  /\ UNCHANGED concern

Spec == Init /\ [][Next]_vars

-----------------------------------------------------------------------------
\* Properties.

Time == 0..MaxTime
Stamp == Time \cup {Never}

TypeOK ==
  /\ concern \in Concerns
  /\ role \in [User -> Roles \cup {"none"}]
  /\ joined \in Seq(User) /\ Len(joined) = Cardinality({u \in User : role[u] # "none"})
  /\ override \in [User -> Tiers]
  /\ keys \in [Key -> {NoKey} \cup [kind : {"live", "feed", "station"}, owner : User,
                                   revoked : BOOLEAN, used : Stamp, seen : Stamp]]
  /\ links \in [Link -> {NoLink} \cup [email : User, expires : Nat, used : BOOLEAN]]
  /\ requests \subseteq Update
  /\ now \in Time
  /\ presented \in [Key -> Stamp]
  /\ signIns \subseteq [link : Link, as : User, at : Time]
  /\ authority \in {"none", "kept", "stale"}

\* "You cannot change your own role": the panel leaves at least one admin,
\* whoever promotes and demotes whom in whatever order, as long as no update
\* is applied after its caller lost the role it was checked for.
AdminsRemain == authority = "kept" => Admins # {}

\* "A single-use sign-in link", good for a quarter of an hour, for the address
\* it was sent to, however often and when it is followed.
LinksWorkOnce ==
  /\ \A s, t \in signIns : s.link = t.link => s = t
  /\ \A s \in signIns : s.at <= links[s.link].expires /\ s.as = links[s.link].email

\* "The contributor tier follows automatically from feeding the network":
\* although only one presentation in five minutes is recorded, and a record may
\* fail, whoever has presented a feed or station key within the window less
\* those minutes is a contributor, unless it was due to be recorded then and
\* could not be; and nobody is who has neither presented such a key, still
\* valid, nor had a station report within the window, whatever else they use.
TierFollowsFeeding ==
  \A u \in User : override[u] = "auto" =>
    LET feeding == {k \in OwnKeys(u) : keys[k].kind # "live" /\ ~keys[k].revoked}
    IN  /\ (\E k \in feeding : presented[k] >= now - (Window - Throttle))
             => Tier(u) = "contributor"
        /\ Tier(u) = "contributor" =>
             \/ \E k \in feeding : presented[k] >= now - Window
             \/ \E k \in OwnKeys(u) : keys[k].seen >= now - Window
=============================================================================
