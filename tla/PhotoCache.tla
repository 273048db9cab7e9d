----------------------------- MODULE PhotoCache ------------------------------
(***************************************************************************)
(* services/control/src/api.rs, vessel_photo: the cached answer to whether *)
(* Wikidata has a photo of one vessel.                                     *)
(*                                                                         *)
(* A caller may know the vessel's IMO number.  The cache is read under the *)
(* database lock, which is free while Wikidata is asked, first by the IMO, *)
(* then by the MMSI, and is taken again to store the outcome over whatever *)
(* another caller stored meanwhile.  Wikidata gains and loses photos, and  *)
(* fails.                                                                  *)
(*                                                                         *)
(* Times are ages in days, counted no further than a property tells apart; *)
(* a lookup, 8 seconds a question, sees at most one midnight.              *)
(***************************************************************************)
EXTENDS Integers

CONSTANTS
  Caller, Imo,
  PositiveTtl, NegativeTtl   \* POSITIVE_TTL_DAYS, NEGATIVE_TTL_DAYS

VARIABLES
  photos,    \* Wikidata: the identities with a photo
  row,       \* the vessel's row of vessel_photos_v2
  caller,    \* the requests
  without,   \* history: days since each identity had no photo
  with       \* history: days since some identity had one

photoVars == <<photos, row, caller, without, with>>

None == "none"
Mmsi == "mmsi"
Identifier == Imo \cup {Mmsi}
NoRow == [imo |-> None, found |-> FALSE, age |-> PositiveTtl]
Idle == [phase |-> "idle", imo |-> None, late |-> FALSE]
NotRecently == NegativeTtl + 2   \* ages that no answer may have
NotLately == PositiveTtl + 2

Init ==
  /\ photos \in SUBSET Identifier
  /\ row = NoRow
  /\ caller = [c \in Caller |-> Idle]
  /\ without = [k \in Identifier |-> IF k \in photos THEN NotRecently ELSE 0]
  /\ with = IF photos = {} THEN NotLately ELSE 0

-----------------------------------------------------------------------------
Fresh == row.age < (IF row.found THEN PositiveTtl ELSE NegativeTtl)

\* Mutation: a miss is a miss.
AnyIdentityOk(imo) == TRUE

\* A miss found without the IMO we now have is not an answer.
IdentityOk(imo) == row.found \/ imo = None \/ row.imo = imo

\* The request arrives, and is answered from the cache or goes to Wikidata.
Ask(c, imo) ==
  /\ caller[c].phase \in {"idle", "found", "missed"}
  /\ caller' = [caller EXCEPT ![c] =
       [phase |-> IF Fresh /\ IdentityOk(imo)
                    THEN IF row.found THEN "found" ELSE "missed"
                    ELSE IF imo = None THEN "byMmsi" ELSE "byImo",
        imo |-> imo, late |-> FALSE]]
  /\ UNCHANGED <<photos, row, without, with>>

\* wikidata_image, with the IMO and with the MMSI.
LookUpByImo(c) ==
  /\ caller[c].phase = "byImo"
  /\ caller' = [caller EXCEPT ![c].phase =
       IF caller[c].imo \in photos THEN "storeFound" ELSE "byMmsi"]
  /\ UNCHANGED <<photos, row, without, with>>

LookUpByMmsi(c) ==
  /\ caller[c].phase = "byMmsi"
  /\ caller' = [caller EXCEPT ![c].phase =
       IF Mmsi \in photos THEN "storeFound" ELSE "storeMissed"]
  /\ UNCHANGED <<photos, row, without, with>>

\* wikidata_unavailable, or the caller goes away.
Unavailable(c) ==
  /\ caller[c].phase \in {"byImo", "byMmsi"}
  /\ caller' = [caller EXCEPT ![c] = Idle]
  /\ UNCHANGED <<photos, row, without, with>>

\* photo_put, which may fail, and the answer.
Store(c) ==
  /\ caller[c].phase \in {"storeFound", "storeMissed"}
  /\ LET found == caller[c].phase = "storeFound"
     IN  /\ row' \in {row, [imo |-> caller[c].imo, found |-> found, age |-> 0]}
         /\ caller' = [caller EXCEPT ![c].phase = IF found THEN "found" ELSE "missed"]
  /\ UNCHANGED <<photos, without, with>>

\* Somebody edits Wikidata.
Edit(k) ==
  /\ photos' = IF k \in photos THEN photos \ {k} ELSE photos \cup {k}
  /\ without' = [without EXCEPT ![k] = 0]
  /\ with' = 0
  /\ UNCHANGED <<row, caller>>

InProgress(c) == caller[c].phase \in {"byImo", "byMmsi", "storeFound", "storeMissed"}
Older(age, limit) == IF age < limit THEN age + 1 ELSE limit

\* The answers of a day are those given on it.
NextDay ==
  /\ \A c \in Caller : InProgress(c) => ~caller[c].late
  /\ caller' = [c \in Caller |->
       IF InProgress(c) THEN [caller[c] EXCEPT !.late = TRUE] ELSE Idle]
  /\ row' = [row EXCEPT !.age = Older(@, PositiveTtl)]
  /\ without' = [k \in Identifier |-> IF k \in photos THEN Older(without[k], NotRecently) ELSE 0]
  /\ with' = IF photos = {} THEN Older(with, NotLately) ELSE 0
  /\ UNCHANGED photos

Next ==
  \/ \E c \in Caller :
       \/ \E imo \in Imo \cup {None} : Ask(c, imo)
       \/ LookUpByImo(c) \/ LookUpByMmsi(c) \/ Unavailable(c) \/ Store(c)
  \/ \E k \in Identifier : Edit(k)
  \/ NextDay

Spec == Init /\ [][Next]_photoVars

-----------------------------------------------------------------------------
\* Properties.

\* "A cached miss that ran without the IMO we now have is not an answer" and
\* "Wikidata being down must not cache a false no photo": unless Wikidata
\* fails, which its answer does not tell apart, a caller is told there is no
\* photo only if, within a week and a lookup, there was none by their own IMO
\* and none by the MMSI, and that there is one only if within a month there
\* was; in whatever order concurrent lookups overwrite each other.
AnswersAreRecent ==
  \A c \in Caller :
    /\ caller[c].phase = "missed" =>
         \A k \in {caller[c].imo, Mmsi} \ {None} : without[k] <= NegativeTtl + 1
    /\ caller[c].phase = "found" => with <= PositiveTtl + 1
=============================================================================
