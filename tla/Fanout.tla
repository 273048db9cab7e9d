------------------------------- MODULE Fanout --------------------------------
(***************************************************************************)
(* services/fanout: one WebSocket client of the stream.  Its bounding      *)
(* boxes are covered by geohash prefixes, each a NATS subscription with a  *)
(* buffer of its own; what arrives is filtered once more and sent.  A new  *)
(* subscription is warmed from the seed cache, a fleet fetched from the    *)
(* snapshotter now and then.                                               *)
(*                                                                         *)
(* A session does one thing at a time: while it subscribes or seeds, or    *)
(* waits for the socket, messages only queue.  Making the subscriptions    *)
(* takes one step per prefix, and messages are published in between.       *)
(*                                                                         *)
(* There is one vessel; a message is its number in the order of            *)
(* publication.  FiltersShipMMSI works as FilterMessageTypes does and is   *)
(* left out.                                                               *)
(***************************************************************************)
EXTENDS Geo, SequencesExt

CONSTANTS
  Position,      \* where the vessel may be
  Boxes,         \* the boxes a client may ask for,
  TypeFilters,   \* and the FilterMessageTypes
  FreeArea,      \* FREE_TIER_MAX_AREA
  Buffer,        \* capacity of a NATS subscription
  MaxMessages,   \* bounds of the model: messages published,
  MaxViews       \* subscriptions the client makes

ASSUME FanoutAssumption ==
  /\ \A p \in Position : p \in (0..Side) \X (0..Side)
  /\ \A b \in Boxes : \A k \in 1..2 : b.lo[k] \in Int /\ b.hi[k] \in Int
  /\ TypeFilters \subseteq SUBSET {"position", "static"}
  /\ FreeArea \in Nat /\ Buffer \in Nat
ASSUME FanoutBounds == MaxMessages \in Nat /\ MaxViews \in Nat

Nowhere == <<>>       \* a vessel whose position is not known
Kind == {"position", "static"}
Message == [kind : Kind, at : Position \cup {Nowhere}]
View == [boxes : SUBSET Boxes \ {{}}, types : TypeFilters, seed : BOOLEAN,
         metered : BOOLEAN]

VARIABLES
  published,   \* the messages of ais.decoded.>, in order
  fleet,       \* SeedCache::vessels: the message with the vessel's position
  phase,       \* "connecting", "applying", "seeding", "live" or "closed"
  request,     \* the subscription being applied
  opening,     \* its NATS subscriptions so far
  queues,      \* the subscriptions in force: what each has buffered
  views,       \* history: the subscriptions accepted, the last is in force
  since,       \* history: how much was published when that one was accepted
  overrun,     \* history: messages a full buffer of that one lost
  sent         \* history: the frames sent, and under which subscription

vars == <<published, fleet, phase, request, opening, queues, views, since,
          overrun, sent>>

NoQueues == [p \in {} |-> <<>>]
NoRequest == [boxes |-> {}, types |-> {}, seed |-> FALSE, metered |-> FALSE]

Init ==
  /\ published = <<>>
  /\ fleet = 0
  /\ phase = "connecting"
  /\ request = NoRequest
  /\ opening = NoQueues /\ queues = NoQueues
  /\ views = <<>> /\ since = 0 /\ overrun = {}
  /\ sent = <<>>

-----------------------------------------------------------------------------
\* ClientFilter.

CoverOf == [b \in Boxes |-> Cover(b)]

\* Mutation: prefixes shadowed by a shorter one stay.
ClientCoverWithShadows(view) == UNION {CoverOf[b] : b \in view.boxes}

\* cover: no prefix twice, none that a shorter one covers already.
ClientCover(view) ==
  LET all == UNION {CoverOf[b] : b \in view.boxes}
  IN  {p \in all : \A q \in all : IsPrefix(q, p) => q = p}

TotalArea(view) == MapThenSumSet(Area, view.boxes)

Passes(view, at, kind) ==
  /\ at # Nowhere
  /\ \E b \in view.boxes : InBox(b, at)
  /\ view.types = {} \/ kind \in view.types

Matches(view, n) == Passes(view, published[n].at, published[n].kind)

\* Mutation: the types are not looked at.
MatchesSeedOfAnyType(view, n) ==
  \E b \in view.boxes : InBox(b, published[n].at)

\* A seeded frame is a position report, whatever it was made from.
MatchesSeed(view, n) == Passes(view, published[n].at, "position")

-----------------------------------------------------------------------------
\* The rest of the system.

SubjectOf == [p \in Position |-> Encode(p, SubjectPrecision)]
\* Without a position the one token is no character.
Subject(at) == IF at = Nowhere THEN <<Nowhere>> ELSE SubjectOf[at]

\* A NATS subscription gets what is published under its prefix; the client
\* library drops what its buffer cannot take.
Buffered(qs, n, at) ==
  [p \in DOMAIN qs |->
     IF IsPrefix(p, Subject(at)) /\ Len(qs[p]) < Buffer THEN Append(qs[p], n)
                                                       ELSE qs[p]]
Lost(qs, at) ==
  \E p \in DOMAIN qs : IsPrefix(p, Subject(at)) /\ Len(qs[p]) >= Buffer

\* The pipeline publishes a message of the vessel.  (Like Refresh, it goes on
\* after the session; the model does not look.)
Publish ==
  /\ phase # "closed"
  /\ Len(published) < MaxMessages
  /\ \E m \in Message :
       LET n == Len(published) + 1
       IN  /\ m.kind = "position" => m.at # Nowhere
           /\ published' = Append(published, m)
           /\ queues' = Buffered(queues, n, m.at)
           /\ opening' = Buffered(opening, n, m.at)
           /\ overrun' = IF Lost(queues, m.at)
                           THEN overrun \cup {n} ELSE overrun
  /\ UNCHANGED <<fleet, phase, request, views, since, sent>>

\* refresh_loop: a fetched fleet replaces the previous one, whose position may
\* be newer when the snapshotter was restarted; a failed fetch changes nothing.
Refresh ==
  /\ phase # "closed"
  /\ \E n \in 0..Len(published) :
       /\ n # 0 => published[n].kind = "position"
       /\ fleet' = n
  /\ UNCHANGED <<published, phase, request, opening, queues, views, since,
                 overrun, sent>>

-----------------------------------------------------------------------------
\* client_session.

\* The socket is closed by either side, the first subscription does not come
\* within 3 s or is refused, a frame cannot be sent within 10 s.
Disconnect ==
  /\ phase # "closed"
  /\ phase' = "closed"
  /\ opening' = NoQueues /\ queues' = NoQueues
  /\ UNCHANGED <<published, fleet, request, views, since, overrun, sent>>

TierAllows(view) == view.metered => TotalArea(view) <= FreeArea

\* apply_subscription: the key, the boxes and the area are fine.
Apply(view) ==
  /\ phase \in {"connecting", "live"}
  /\ Len(views) < MaxViews
  /\ TierAllows(view)
  /\ phase' = "applying"
  /\ request' = view
  /\ UNCHANGED <<published, fleet, opening, queues, views, since, overrun, sent>>

\* cover returns its prefixes sorted; none is a prefix of another.
Before(p, q) ==
  \E n \in 1..Lower(Len(p), Len(q)) :
    /\ \A k \in 1..(n - 1) : p[k] = q[k]
    /\ 2 * p[n][1] + p[n][2] < 2 * q[n][1] + q[n][2]

\* nats.subscribe, for one prefix after the other.
Subscribe ==
  /\ phase = "applying"
  /\ \E p \in ClientCover(request) \ DOMAIN opening :
       /\ \A q \in ClientCover(request) : Before(q, p) => q \in DOMAIN opening
       /\ opening' = [q \in DOMAIN opening \cup {p} |->
                        IF q = p THEN <<>> ELSE opening[q]]
  /\ UNCHANGED <<published, fleet, phase, request, queues, views, since,
                 overrun, sent>>

\* The new filter and the new subscriptions replace the old ones, with
\* whatever those had buffered.
Applied ==
  /\ phase = "applying"
  /\ DOMAIN opening = ClientCover(request)
  /\ queues' = opening
  /\ opening' = NoQueues
  /\ request' = NoRequest
  /\ views' = Append(views, request)
  /\ since' = Len(published)
  /\ overrun' = {}
  /\ phase' = IF request.seed THEN "seeding" ELSE "live"
  /\ UNCHANGED <<published, fleet, sent>>

\* nats.subscribe fails: the error is sent; the first subscription ends the
\* session with it, a later one leaves everything as it was.
SubscribeFails ==
  /\ phase = "applying"
  /\ phase' = IF views = <<>> THEN "closed" ELSE "live"
  /\ opening' = NoQueues
  /\ request' = NoRequest
  /\ UNCHANGED <<published, fleet, queues, views, since, overrun, sent>>

Frame(n, seed) == [n |-> n, seed |-> seed, view |-> Len(views)]

\* send_initial_state.
Seed ==
  /\ phase = "seeding"
  /\ sent' = IF fleet # 0 /\ MatchesSeed(views[Len(views)], fleet)
               THEN Append(sent, Frame(fleet, TRUE)) ELSE sent
  /\ phase' = "live"
  /\ UNCHANGED <<published, fleet, request, opening, queues, views, since,
                 overrun>>

\* subs.next(): the streams are merged in no particular order; what does not
\* match is skipped, the rest sent.
Forward ==
  /\ phase = "live"
  /\ \E p \in DOMAIN queues :
       /\ queues[p] # <<>>
       /\ queues' = [queues EXCEPT ![p] = Tail(@)]
       /\ sent' = IF Matches(views[Len(views)], Head(queues[p]))
                    THEN Append(sent, Frame(Head(queues[p]), FALSE)) ELSE sent
  /\ UNCHANGED <<published, fleet, phase, request, opening, views, since,
                 overrun>>

Next ==
  \/ Publish \/ Refresh
  \/ \E view \in View : Apply(view)
  \/ Subscribe \/ Applied \/ SubscribeFails
  \/ Seed \/ Forward
  \/ Disconnect

Spec == Init /\ [][Next]_vars

-----------------------------------------------------------------------------
\* Properties.

Current == Len(views)
Number == 1..MaxMessages
Prefix == UNION {[1..k -> Character] : k \in 0..CoverPrecision}
IsQueues(qs) == /\ DOMAIN qs \subseteq Prefix
                /\ \A p \in DOMAIN qs : qs[p] \in Seq(Number) /\ Len(qs[p]) <= Buffer

TypeOK ==
  /\ published \in Seq(Message) /\ Len(published) <= MaxMessages
  /\ fleet \in 0..Len(published)
  /\ phase \in {"connecting", "applying", "seeding", "live", "closed"}
  /\ request \in View \cup {NoRequest}
  /\ IsQueues(opening) /\ IsQueues(queues)
  /\ views \in Seq(View) /\ Len(views) <= MaxViews
  /\ since \in 0..Len(published)
  /\ overrun \subseteq Number
  /\ sent \in Seq([n : Number, seed : BOOLEAN, view : 1..MaxViews])

\* "The result never exceeds max_cells (falling back to coarser prefixes when
\* it would)", whichever box is asked for, not only those of the model's
\* clients: and each place of a box is in one cell of its cover.
SoundCovers ==
  \A lo, hi \in Places :
    lo[1] <= hi[1] /\ lo[2] <= hi[2] => SoundCover(FromCorners(lo, hi))
CoversAreSound == request # NoRequest => SoundCovers

\* How often message n was sent as a delta, and is buffered, under the
\* subscription in force.
Deltas(n) == {i \in 1..Len(sent) :
                sent[i].n = n /\ ~sent[i].seed /\ sent[i].view = Current}
Waiting(n) == {w \in (DOMAIN queues) \X (1..Buffer) :
                 w[2] <= Len(queues[w[1]]) /\ queues[w[1]][w[2]] = n}

\* "Then the live deltas follow": of the messages published since the
\* subscription in force was complete, the client gets each one it asked for
\* once, however its boxes overlap and whatever cells their covers use: none
\* is filtered out by the choice of cells, none comes through two of them, and
\* a refused or failed resubscription loses none.  Only a full buffer may.
DeltasExactlyOnce ==
  phase # "closed" /\ views # <<>> =>
    \A n \in 1..Len(published) :
      /\ Cardinality(Deltas(n)) + Cardinality(Waiting(n)) <= 1
      /\ n > since /\ Matches(views[Current], n) =>
           Deltas(n) # {} \/ Waiting(n) # {} \/ n \in overrun

\* "Swap-and-replace": whatever was buffered, published or seeded while the
\* client changed its mind, a frame lies in the boxes, and is of a type, of
\* the subscription in force when it was sent, no subscription of a metered
\* client is larger than its tier allows, and the initial state comes first.
FramesMatchTheirView ==
  /\ \A i \in 1..Len(sent) :
       LET view == views[sent[i].view]
           m    == published[sent[i].n]
       IN  /\ \E b \in view.boxes : InBox(b, m.at)
           /\ view.types = {} \/ m.kind \in view.types
           /\ view.metered => TotalArea(view) <= FreeArea
  /\ \A i, j \in 1..Len(sent) :
       i < j /\ sent[j].seed => sent[i].view # sent[j].view
=============================================================================
