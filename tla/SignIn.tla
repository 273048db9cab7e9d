------------------------------- MODULE SignIn --------------------------------
(***************************************************************************)
(* services/control/src/auth.rs and the accounts of db.rs: who is signed   *)
(* in where, and as whom.                                                  *)
(*                                                                         *)
(* A browser starts a flow, which plants a state cookie, is sent to the    *)
(* provider and comes back to the callback with the flow's state and a     *)
(* code; the callback checks the cookie, exchanges the code for an         *)
(* identity and perhaps an address, and finds, links or makes the account. *)
(* A followed sign-in link does the last part with its address.            *)
(*                                                                         *)
(* The sender of a callback need not be the browser that started the flow, *)
(* and an identity's address is what its provider says at the time.  Links *)
(* carry addresses in lower case; providers do not.  A session is a signed *)
(* cookie that names the account and is kept nowhere else.                 *)
(***************************************************************************)
EXTENDS Integers, Sequences, FiniteSets

CONSTANTS
  Browser, Flow,
  Identity,         \* accounts at the providers
  ProviderOf(_),    \* of an identity: "github" or "google"
  Address,
  LowerCase(_),     \* of an address
  MaxCallbacks      \* bound of the model: callbacks in progress

VARIABLES
  users,      \* the table, in the order of its rows
  cookie,     \* osf_oauth_state in each browser
  flow,       \* each flow: who started it, with which provider
  callbacks,  \* callbacks that passed check_state and await the provider
  spent,      \* the flows whose code was exchanged: the provider's rule
  home,       \* history: the account of each identity's first sign-in
  first,      \* history: the address reported then
  displaced   \* history: identities whose account another one was linked to

signInVars == <<users, cookie, flow, callbacks, spent, home, first, displaced>>
history == <<home, first, displaced>>

None == "none"
Nobody == 0
Unstarted == [by |-> None, provider |-> None]

Init ==
  /\ users = <<>>
  /\ cookie = [b \in Browser |-> None]
  /\ flow = [f \in Flow |-> Unstarted]
  /\ callbacks = {} /\ spent = {}
  /\ home = [i \in Identity |-> Nobody]
  /\ first = [i \in Identity |-> None]
  /\ displaced = {}

-----------------------------------------------------------------------------
\* Accounts.

Rows == 1..Len(users)
WithIdentity(i) == {u \in Rows : users[u][ProviderOf(i)] = i}
WithEmail(a) == {u \in Rows : users[u].email = a}

NewUser(a, i) ==
  [email |-> a,
   github |-> IF i # None /\ ProviderOf(i) = "github" THEN i ELSE None,
   google |-> IF i # None /\ ProviderOf(i) = "google" THEN i ELSE None]

\* Mutation: the address is looked up before the identity.
UpsertByEmailFirst(i, a, u) ==
  \/ /\ a # None /\ u \in WithEmail(a)
     /\ users' = [users EXCEPT ![u][ProviderOf(i)] = i]
  \/ /\ a = None \/ WithEmail(a) = {}
     /\ u \in WithIdentity(i)
     /\ UNCHANGED users
  \/ /\ a = None \/ WithEmail(a) = {}
     /\ WithIdentity(i) = {} /\ u = Len(users) + 1
     /\ users' = Append(users, NewUser(a, i))

\* Mutation: the address of the new identity is not looked up.
UpsertUnlinked(i, a, u) ==
  \/ u \in WithIdentity(i) /\ UNCHANGED users
  \/ /\ WithIdentity(i) = {} /\ u = Len(users) + 1
     /\ users' = Append(users, NewUser(a, i))

\* upsert_oauth_user: u is the account with the identity; else the one with
\* the address, which the identity is linked to; else a new one.
UpsertOauthUser(i, a, u) ==
  \/ u \in WithIdentity(i) /\ UNCHANGED users
  \/ /\ WithIdentity(i) = {} /\ a # None /\ u \in WithEmail(a)
     /\ users' = [users EXCEPT ![u][ProviderOf(i)] = i]
  \/ /\ WithIdentity(i) = {} /\ (a = None \/ WithEmail(a) = {})
     /\ u = Len(users) + 1
     /\ users' = Append(users, NewUser(a, i))

\* upsert_email_user.
UpsertEmailUser(a, u) ==
  \/ u \in WithEmail(a) /\ UNCHANGED users
  \/ /\ WithEmail(a) = {} /\ u = Len(users) + 1
     /\ users' = Append(users, NewUser(a, None))

-----------------------------------------------------------------------------
\* Browsers.

\* github_start, google_start and start_redirect.
StartFlow(b, f, provider) ==
  /\ flow[f] = Unstarted
  /\ flow' = [flow EXCEPT ![f] = [by |-> b, provider |-> provider]]
  /\ cookie' = [cookie EXCEPT ![b] = f]
  /\ UNCHANGED <<users, callbacks, spent, history>>

\* Mutation: any planted cookie will do.
CheckAnyState(b, f) == cookie[b] # None

CheckState(b, f) == cookie[b] = f

\* github_callback, google_callback, up to the exchange: i authorized the flow
\* at its provider.
Callback(b, f, i) ==
  /\ flow[f].provider = ProviderOf(i)
  /\ CheckState(b, f)
  /\ Cardinality(callbacks) < MaxCallbacks
  /\ callbacks' = callbacks \cup {[flow |-> f, by |-> b, as |-> i]}
  /\ UNCHANGED <<users, cookie, flow, spent, history>>

\* finish_login: a session for the account, and the flow's cookie is cleared.
FinishLogin(b) == cookie' = [cookie EXCEPT ![b] = None]

\* The identity's first sign-in, and who had the account before.
Remember(i, a, u) ==
  /\ home' = [home EXCEPT ![i] = IF @ = Nobody THEN u ELSE @]
  /\ first' = [first EXCEPT ![i] = IF home[i] = Nobody THEN a ELSE @]
  /\ displaced' = displaced \cup
       {j \in Identity \ {i} : home[j] = u /\ ProviderOf(j) = ProviderOf(i)}

\* github_exchange, google_exchange: a code works once.  The address is absent
\* when the provider has none to give or, at GitHub, its lookup fails.
Exchange(c, a, u) ==
  /\ c \in callbacks /\ c.flow \notin spent
  /\ callbacks' = callbacks \ {c}
  /\ spent' = spent \cup {c.flow}
  /\ UpsertOauthUser(c.as, a, u)
  /\ Remember(c.as, a, u)
  /\ FinishLogin(c.by)
  /\ UNCHANGED flow

\* "sign-in failed".
ExchangeFails(c) ==
  /\ c \in callbacks
  /\ callbacks' = callbacks \ {c}
  /\ UNCHANGED <<users, cookie, flow, spent, history>>

\* magic_verify, with a link that works.
FollowLink(b, a, u) ==
  /\ UpsertEmailUser(LowerCase(a), u)
  /\ FinishLogin(b)
  /\ UNCHANGED <<flow, callbacks, spent, history>>

Next ==
  \/ \E b \in Browser, f \in Flow :
       \/ \E p \in {"github", "google"} : StartFlow(b, f, p)
       \/ \E i \in Identity : Callback(b, f, i)
  \/ \E c \in callbacks : ExchangeFails(c)
  \/ \E c \in callbacks, a \in Address \cup {None}, u \in 1..(Len(users) + 1) :
       Exchange(c, a, u)
  \/ \E b \in Browser, a \in Address, u \in 1..(Len(users) + 1) : FollowLink(b, a, u)

Spec == Init /\ [][Next]_signInVars

-----------------------------------------------------------------------------
\* Properties.

\* "signing in with GitHub then Google (same address) lands on one account
\* rather than two": identities that report one address when they first sign
\* in share an account, and no sign-in runs into a UNIQUE column, whoever
\* signed in how and in which order before.
OneAccountPerAddress ==
  /\ \A i, j \in Identity : first[i] = first[j] /\ first[i] # None => home[i] = home[j]
  /\ \A u, v \in Rows : u # v =>
       \A column \in {"email", "github", "google"} :
         users[u][column] = None \/ users[u][column] # users[v][column]

\* A person who comes back lands where they were, whatever address their
\* provider reports by then; unless another identity of that provider reported
\* the account's address and was linked in its place.
IdentitiesStay ==
  \A i \in Identity : home[i] # Nobody /\ i \notin displaced => WithIdentity(i) = {home[i]}

\* The state cookie: a provider's answer is taken to sign in only the browser
\* that started the flow it answers, whoever sends the callback and whatever
\* other flows that browser starts and ends meanwhile.
FlowsEndWhereTheyStart == \A c \in callbacks : flow[c.flow].by = c.by
=============================================================================
