--------------------------- MODULE ControlService ---------------------------
(***************************************************************************)
(* services/control as one process: the accounts, keys and roles of        *)
(* ControlPlane, sign-in, and the two answers it caches.  Sign-in decides  *)
(* which account a row of ControlPlane is; beyond that the parts share     *)
(* only the lock on the database, which none of them holds while it waits  *)
(* for anything else.  So a behaviour is about one part.                   *)
(***************************************************************************)
EXTENDS ControlPlane

CONSTANTS Browser, Flow, Identity, ProviderOf(_), Address, LowerCase(_), MaxCallbacks
CONSTANTS Caller, Imo, PositiveTtl, NegativeTtl
CONSTANTS Client, Ttl, Width, MaxNow

ASSUME SignInAssumption ==
  /\ \A i \in Identity : ProviderOf(i) \in {"github", "google"}
  /\ \A a \in Address : LowerCase(a) \in Address
  /\ "none" \notin Flow \cup Identity \cup Address
ASSUME PhotoAssumption ==
  NegativeTtl \in Nat /\ PositiveTtl \in Nat /\ NegativeTtl <= PositiveTtl
ASSUME CoverageAssumption ==
  /\ Ttl \in Nat \ {0} /\ Width \in Nat /\ MaxNow + Ttl < Width
  /\ "nobody" \notin Client
ASSUME ServiceBounds == MaxCallbacks \in Nat /\ MaxNow \in Nat

VARIABLES users, cookie, flow, callbacks, spent, home, first, displaced
VARIABLES photos, row, caller, without, with
VARIABLES clock, slot, request, holder

VARIABLE part   \* "accounts", "signIn", "photos" or "coverage"

signInVars == <<users, cookie, flow, callbacks, spent, home, first, displaced>>
photoVars == <<photos, row, caller, without, with>>
coverageVars == <<clock, slot, request, holder>>
serviceVars == <<vars, signInVars, photoVars, coverageVars, part>>

In == INSTANCE SignIn
Photo == INSTANCE PhotoCache
Coverage == INSTANCE CoverageCache

ServiceInit ==
  /\ part \in {"accounts", "signIn", "photos", "coverage"}
  /\ Init /\ In!Init /\ Photo!Init /\ Coverage!Init
  /\ part # "accounts" => concern = CHOOSE c \in Concerns : TRUE
  /\ part # "photos" => photos = {}

Accounts ==
  /\ part = "accounts"
  /\ Next
  /\ UNCHANGED <<signInVars, photoVars, coverageVars, part>>

SigningIn ==
  /\ part = "signIn"
  /\ In!Next
  /\ UNCHANGED <<vars, photoVars, coverageVars, part>>

Photos ==
  /\ part = "photos"
  /\ Photo!Next
  /\ UNCHANGED <<vars, signInVars, coverageVars, part>>

Grids ==
  /\ part = "coverage"
  /\ Coverage!Next
  /\ UNCHANGED <<vars, signInVars, photoVars, part>>

ServiceNext == Accounts \/ SigningIn \/ Photos \/ Grids

ServiceSpec == ServiceInit /\ [][ServiceNext]_serviceVars

-----------------------------------------------------------------------------
\* Properties: those of ControlPlane, and, by name, of the other parts.

\* SignIn: "lands on one account rather than two" (upsert_oauth_user).
OneAccountPerAddress == In!OneAccountPerAddress

\* SignIn: who comes back lands where they were (upsert_oauth_user).
IdentitiesStay == In!IdentitiesStay

\* SignIn: an answer signs in only the browser that asked (check_state).
FlowsEndWhereTheyStart == In!FlowsEndWhereTheyStart

\* PhotoCache: whether there is a photo, by the caller's own identity of the
\* vessel and not long ago (vessel_photo).
AnswersAreRecent == Photo!AnswersAreRecent

\* CoverageCache: less than ten minutes old when asked for (coverage).
CoverageIsRecent == Coverage!CoverageIsRecent

\* CoverageCache: no refresh brings an older grid back (coverage).
GridsNeverGoBack == Coverage!GridsNeverGoBack
=============================================================================
