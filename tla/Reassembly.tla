----------------------------- MODULE Reassembly -----------------------------
(***************************************************************************)
(* Multipart messages from the worker's converters (finland.rs,            *)
(* aisstream.rs, encode.rs) to the gateway's Assembler.                    *)
(*                                                                         *)
(* A converter numbers its messages with a u8 that wraps, every message    *)
(* taking a number; a multipart message carries that number modulo 10 as   *)
(* the sequence id of its sentences.  The sentences go through the line    *)
(* buffer and the network, in order; some may be lost there (drop-oldest,  *)
(* UDP, a broken connection).  A new connection gets a new Assembler.      *)
(*                                                                         *)
(* Stations that send their own sentences may send any, in any order, in   *)
(* datagrams.  Those behind one address share the Assembler of its entry   *)
(* in the gateway's table, which is swept of silent addresses, but only    *)
(* while a datagram of some address is handled.  One address is followed:  *)
(* the others matter to it only as occasions for a sweep.                  *)
(*                                                                         *)
(* A regime is chosen once: "reliable" loses nothing, "lossy" does, "udp"  *)
(* is one address of the table, and "single" is one message whose content  *)
(* matters (Uplink).                                                       *)
(***************************************************************************)
EXTENDS Integers, Sequences, FiniteSets, SequencesExt

CONSTANTS
  MaxFragments, Ttl, MaxTime,
  SeqWrap,       \* the converter's counter wraps here (2^8)
  SeqBase,       \* to_sentences: seq % 10
  SweepPeriod,   \* udp_listener: 60 s, twice the ttl
  KeepFor,       \* udp_listener: 300 s, ten times the ttl
  Regimes,       \* the regimes to choose from
  MaxMessages,   \* bound of the model: messages converted
  MaxLossy,      \* bound of the model: messages converted if some are lost
  MaxFeedTime,   \* bound of the model: clock ticks, in regimes other than "udp"
  MaxForeign,    \* bound of the model: ids of stations' own sentences
  MaxLink        \* bound of the model: sentences on the link

ASSUME SeqAssumption == SeqWrap \in Nat \ {0} /\ SeqBase \in Nat \ {0}
ASSUME FragmentsAssumption == MaxFragments \in Nat \ {0}
ASSUME TimeAssumption == Ttl \in Nat /\ MaxTime \in Nat
ASSUME SweepAssumption == SweepPeriod \in Nat /\ KeepFor \in Nat /\ Ttl < KeepFor
ASSUME RegimeAssumption ==
  Regimes \subseteq {"reliable", "lossy", "udp", "single"}

Message == 1..MaxMessages
SeqId == 0..(SeqBase - 1)

VARIABLES
  regime,
  seq,        \* the converter's counter
  sent,       \* how many messages it has converted
  lastUse,    \* history: when each sequence id was last given to a multipart
              \* message, or had a sentence of one on the link
  reused,     \* history: whether one was given to another within ttl of that
  link,       \* sentences on their way, oldest first
  published,  \* how many groups the gateway has published
  pending, group, now,
  seen,       \* udp_listener: when the address was last heard
  lastSweep,  \* when its table was last swept
  kept, keptGroup  \* history: the address's assembler, had it not been swept

\* The text of a station's own sentence.
Other == 0

Lossy == regime = "lossy"
Bound == IF Lossy THEN MaxLossy ELSE MaxMessages

A == INSTANCE Assembler WITH Key <- SeqId, Raw <- Message \cup {Other}
Unswept == INSTANCE Assembler WITH Key <- SeqId, Raw <- Message \cup {Other},
                                   pending <- kept, group <- keptGroup

converter == <<regime, seq, sent, lastUse, reused>>
table == <<seen, lastSweep, kept, keptGroup>>
vars == <<converter, link, published, pending, group, now, table>>

Init ==
  /\ A!Init
  /\ regime \in Regimes
  /\ seq = 0
  /\ sent = 0
  /\ lastUse = [k \in SeqId |-> -Ttl - 1]
  /\ reused = FALSE
  /\ link = <<>>
  /\ published = 0
  /\ Unswept!Init
  /\ seen = 0 /\ lastSweep = 0

-----------------------------------------------------------------------------
\* to_sentences: the fragments of the next message, total of them.
ToSentences(total) ==
  [f \in 1..total |-> [key |-> seq % SeqBase, raw |-> sent + 1,
                       fragments |-> total, fragment |-> f]]

\* The next message, in total sentences, and the id it uses.
Send(total) ==
  /\ Len(link) + total <= MaxLink
  /\ link' = link \o ToSentences(total)
  /\ lastUse' = IF total > 1 THEN [lastUse EXCEPT ![seq % SeqBase] = now]
                             ELSE lastUse
  /\ reused' = (reused \/ (total > 1 /\ now - lastUse[seq % SeqBase] <= Ttl))
  /\ sent' = sent + 1
  /\ UNCHANGED <<regime, published, pending, group, now, table>>

\* handle_publish, handle_text: convert a message, push the lines and advance
\* the counter.
Convert(total) == Send(total) /\ seq' = (seq + 1) % SeqWrap

ConvertAny ==
  /\ regime \in {"reliable", "lossy"} /\ sent < Bound
  /\ \E total \in 1..MaxFragments : Convert(total)

\* handle_line: feed the assembler, publish the group it completes.
Deliver ==
  /\ link # <<>>
  /\ A!Add(Head(link))
  /\ link' = Tail(link)
  /\ published' = IF group' = A!None THEN published ELSE published + 1
  /\ UNCHANGED <<converter, table>>

-----------------------------------------------------------------------------
\* udp_listener.

\* Mutation: an address is stamped only when its entry is made.
StampedOnce == UNCHANGED seen

Stamped == seen' = now

\* At the end of a datagram of any address the table may be due for a sweep.
Due == now - lastSweep > SweepPeriod
Swept == IF Due THEN now ELSE lastSweep

\* A sentence in a datagram of the address, perhaps its last: any sentence at
\* any time, repeated, reordered, with any of its siblings missing.  No sweep
\* at its end can reach the address it came from.
DeliverDatagram ==
  /\ regime = "udp"
  /\ \E s \in A!Sentence :
       s.raw = Other /\ s.key < MaxForeign /\ A!Add(s) /\ Unswept!Add(s)
  /\ Stamped
  /\ lastSweep' \in {lastSweep, Swept}
  /\ UNCHANGED <<converter, link, published>>

\* A datagram of the address with nothing in it that parses.
DeliverNoise ==
  /\ regime = "udp"
  /\ Stamped
  /\ lastSweep' = Swept
  /\ UNCHANGED <<converter, link, published, pending, group, now, kept, keptGroup>>

\* A datagram of another address.
DeliverOther ==
  /\ regime = "udp"
  /\ lastSweep' = Swept
  /\ pending' = IF Due /\ now - seen >= KeepFor THEN A!None ELSE pending
  /\ UNCHANGED <<converter, link, published, group, now, seen, kept, keptGroup>>

-----------------------------------------------------------------------------
\* Losses and time.

\* A sentence of a multipart message with this id is on the link.
OnTheWay(k) ==
  \E i \in DOMAIN link : link[i].key = k /\ link[i].fragments > 1

Lose ==
  /\ Lossy
  /\ \E i \in 1..Len(link) : link' = RemoveAt(link, i)
  /\ UNCHANGED <<converter, published, pending, group, now, table>>

\* The connection breaks: what was on the wire is gone, the next one starts
\* with an empty Assembler.  (The batch the worker resends then is in Worker.)
Reconnect ==
  /\ Lossy
  /\ pending # A!None
  /\ \E n \in 0..Len(link) : link' = SubSeq(link, n + 1, Len(link))
  /\ pending' = A!None
  /\ group' = A!None
  /\ UNCHANGED <<converter, published, now, table>>

\* Time passes, also while sentences wait: the line buffer holds them through
\* outages and backoffs, for as long as those last.  A link that loses nothing
\* does not stall for ttl in the middle of a message either.
Tick ==
  /\ regime # "single"
  /\ regime # "udp" => now < MaxFeedTime
  /\ regime = "reliable" =>
       \A k \in DOMAIN pending : now - pending[k].first_seen < Ttl
  /\ A!Tick
  /\ lastUse' = [k \in SeqId |-> IF OnTheWay(k) THEN now' ELSE lastUse[k]]
  /\ UNCHANGED <<regime, seq, sent, reused, link, published, table>>

Next ==
  \/ ConvertAny \/ Deliver
  \/ DeliverDatagram \/ DeliverNoise \/ DeliverOther
  \/ Lose \/ Reconnect \/ Tick

Spec == Init /\ [][Next]_vars

-----------------------------------------------------------------------------
\* Properties.

TypeOK ==
  /\ A!TypeOK
  /\ regime \in Regimes
  /\ seq \in 0..(SeqWrap - 1)
  /\ sent \in 0..MaxMessages
  /\ lastUse \in [SeqId -> (-Ttl - 1)..MaxTime]
  /\ reused \in BOOLEAN
  /\ link \in Seq(A!Sentence)
  /\ published \in 0..(MaxMessages * MaxFragments)
  /\ Unswept!TypeOK
  /\ seen \in 0..MaxTime /\ lastSweep \in 0..MaxTime

\* The assembler's counter agrees with its slots, whatever copies, restarts
\* and evictions came before: a group neither completes with a hole (the code
\* would join what is there) nor stays pending when it is whole.
CountersAgree == A!HaveCountsSlots /\ A!GroupHasNoHole

\* "Incomplete groups older than ttl are discarded": fragments that arrived
\* more than ttl apart are never in one group, although eviction is lazy and a
\* repeated fragment refreshes its slot but not its group.
FragmentsWithinTtl == A!CompletedWithinTtl /\ A!PartsWithinTtl

\* "A fully reassembled AIS message": whatever is lost, a published group
\* holds the fragments of one message, as long as no sequence id was used
\* again before ttl had passed since the last sentence that carried it left
\* the link.  (If one was, the fragments of two may be joined: in a busy feed,
\* or when an outage keeps sentences of both in the line buffer.)
GroupsAreWhole ==
  ~reused => \A i, j \in DOMAIN group : group[i].raw = group[j].raw

\* On a link that loses nothing, and does not stall for ttl in the middle of a
\* message, every message is published once, in order, although sequence ids
\* are reused as fast as the counter comes round and messages wait.  And
\* sweeping the table loses no group: whatever datagrams come when, an address
\* gets every group that an assembler of its own, never swept, would return.
NothingLost ==
  /\ regime = "reliable" =>
       /\ link = <<>> => published = sent
       /\ \A i \in DOMAIN group : group[i].raw = published
  /\ regime = "udp" => group = keptGroup
=============================================================================
