--------------------------- MODULE Uplink_proofs ----------------------------
(***************************************************************************)
(* Proofs about reassembly and about the way of a message from a feed to   *)
(* the pipeline, for every size of a group, every counter and ttl, and     *)
(* every frame a feed may send: what an Assembler returns is a whole group *)
(* of fragments that came within ttl; what a converter's sequence ids are  *)
(* worth; that the sweep of the gateway's table is not seen from outside;  *)
(* that the encoder and the decoder of crates/ais agree; and that what a   *)
(* frame says is what the pipeline hears.                                  *)
(***************************************************************************)
EXTENDS Uplink, FiniteSetTheorems, SequenceTheorems, WellFoundedInduction, TLAPS

(***************************************************************************)
(* The assembler.  A group it holds counts its slots, is not complete, was *)
(* born in the past, and its sentences came within ttl of its birth.       *)
(***************************************************************************)
Slot == [raw : Nat, at : Nat]
Parts == UNION {[X -> Slot] : X \in SUBSET (1..MaxFragments)}
Group == [total : 2..MaxFragments, parts : Parts, have : Nat, first_seen : Nat]
Groups == UNION {[X -> Group] : X \in SUBSET SeqId}

Counted(g) ==
  /\ g.have = Cardinality(DOMAIN g.parts) /\ g.have < g.total
  /\ DOMAIN g.parts \subseteq 1..g.total

InTime(g, t) ==
  /\ g.first_seen <= t
  /\ \A i \in DOMAIN g.parts :
       g.parts[i].at \in g.first_seen..(g.first_seen + Ttl)

Live(g, t) == t - g.first_seen <= Ttl

AssemblerInv ==
  /\ now \in Nat
  /\ pending \in Groups
  /\ \A k \in DOMAIN pending : Counted(pending[k]) /\ InTime(pending[k], now)
  /\ group \in Parts
  /\ A!GroupHasNoHole
  /\ A!CompletedWithinTtl

(***************************************************************************)
(* The converter and its link.                                             *)
(***************************************************************************)
Sentence == [key : SeqId, raw : Nat, fragments : 1..MaxFragments,
             fragment : 1..MaxFragments]

OnLink == {s \in Sentence : s.fragment <= s.fragments}

LinkTyped ==
  /\ regime \in {"reliable", "lossy", "udp", "single"}
  /\ seq \in Nat /\ sent \in Nat /\ published \in Nat
  /\ lastUse \in [SeqId -> Int] /\ reused \in BOOLEAN
  /\ link \in Seq(OnLink)
  /\ seen \in Nat /\ lastSweep \in Nat

\* The sentences of multipart messages on the link.
Multi == {s \in {link[i] : i \in 1..Len(link)} : s.fragments > 1}

\* Nothing converted reaches an address of the table, where every text is
\* the stations' own.
Foreign ==
  regime = "udp" =>
    /\ link = <<>>
    /\ \A k \in DOMAIN pending : \A i \in DOMAIN pending[k].parts :
         pending[k].parts[i].raw = Other
    /\ \A i \in DOMAIN group : group[i].raw = Other

\* No sequence id was given to another message within ttl of its last use, nor
\* while a sentence that carries it is on the link, so long as it waits there:
\* what is on the link and in a group that is not too old is then of one
\* message, the one the id was last given to.
OneUserPerId ==
  regime # "udp" =>
    /\ \A s \in Multi : lastUse[s.key] = now
    /\ \A k \in DOMAIN pending : pending[k].first_seen <= lastUse[k]
    /\ ~reused =>
         /\ \A s, t \in Multi : s.key = t.key => s.raw = t.raw
         /\ \A k \in DOMAIN pending : Live(pending[k], now) =>
              /\ \A a, b \in DOMAIN pending[k].parts :
                   pending[k].parts[a].raw = pending[k].parts[b].raw
              /\ \A s \in Multi : s.key = k =>
                   \A a \in DOMAIN pending[k].parts :
                     pending[k].parts[a].raw = s.raw
         /\ \A i, j \in DOMAIN group : group[i].raw = group[j].raw

(***************************************************************************)
(* A link that loses nothing: it holds the rest of the message being       *)
(* delivered and all later ones, and the assembler what was delivered.     *)
(***************************************************************************)
Follows(s, t) ==
  \/ s.fragment < s.fragments /\ t = [s EXCEPT !.fragment = @ + 1]
  \/ s.fragment = s.fragments /\ t.raw = s.raw + 1 /\ t.fragment = 1

Delivered(s) ==
  IF s.fragment = 1
    THEN pending = A!None
    ELSE /\ DOMAIN pending = {s.key}
         /\ pending[s.key].total = s.fragments
         /\ DOMAIN pending[s.key].parts = 1..s.fragment - 1
         /\ Live(pending[s.key], now)
         /\ \A i \in 1..s.fragment - 1 : pending[s.key].parts[i].raw = s.raw

Reliable ==
  regime \in {"reliable", "single"} =>
    /\ \A i \in 1..Len(link) - 1 : Follows(link[i], link[i + 1])
    /\ link = <<>> => published = sent /\ pending = A!None
    /\ link # <<>> => /\ link[1].raw = published + 1 /\ Delivered(link[1])
                      /\ link[Len(link)].raw = sent
                      /\ link[Len(link)].fragment = link[Len(link)].fragments
    /\ \A i \in DOMAIN group : group[i].raw = published

(***************************************************************************)
(* An address of the table: the assembler it has and the one that was      *)
(* never swept hold the same groups, but for those too old to matter.      *)
(***************************************************************************)
SameLive(p, q) ==
  \A k \in DOMAIN p : Live(p[k], now) => k \in DOMAIN q /\ q[k] = p[k]

SweepUnseen ==
  regime = "udp" =>
    /\ kept \in Groups
    /\ seen <= now
    /\ \A k \in DOMAIN kept : kept[k].first_seen <= seen
    /\ SameLive(pending, kept) /\ SameLive(kept, pending)
    /\ group = keptGroup

(***************************************************************************)
(* What Reassembly and Uplink do: their steps, with a message of any size  *)
(* converted in any regime but that of the table.                          *)
(***************************************************************************)
ConvertSome ==
  regime # "udp" /\ \E total \in 1..MaxFragments : Convert(total)

RNext ==
  \/ ConvertSome \/ Deliver
  \/ DeliverDatagram \/ DeliverNoise \/ DeliverOther
  \/ Lose \/ Reconnect \/ Tick

\* The invariant.
RInv == AssemblerInv /\ LinkTyped /\ Foreign /\ OneUserPerId /\ Reliable /\ SweepUnseen
-----------------------------------------------------------------------------
\* The assembler.

LEMMA NoneTyped == A!None \in Parts /\ A!None \in Groups /\ DOMAIN A!None = {}
  <1>1. A!None \in [{} -> Slot] /\ A!None \in [{} -> Group]
    BY DEF A!None
  <1> QED BY <1>1 DEF Parts, Groups

LEMMA PartsTyped ==
  ASSUME NEW q \in Parts
  PROVE  /\ q = [i \in DOMAIN q |-> q[i]]
         /\ DOMAIN q \subseteq 1..MaxFragments /\ IsFiniteSet(DOMAIN q)
         /\ Cardinality(DOMAIN q) \in Nat
         /\ \A i \in DOMAIN q : q[i] \in Slot
  <1>1. PICK X \in SUBSET (1..MaxFragments) : q \in [X -> Slot]
    BY DEF Parts
  <1>2. IsFiniteSet(1..MaxFragments)
    BY FS_Interval, FragmentsAssumption
  <1> QED BY <1>1, <1>2, FS_Subset, FS_CardinalityType

\* A group that counts its slots is whole when it counts as many as it has.
LEMMA FullGroup ==
  ASSUME NEW n \in Nat, NEW X \in SUBSET (1..n), Cardinality(X) >= n
  PROVE  X = 1..n
  <1>1. IsFiniteSet(1..n) /\ Cardinality(1..n) = n
    BY FS_Interval
  <1>2. Cardinality(X) \in Nat /\ Cardinality(X) <= n
    BY <1>1, FS_Subset, FS_CardinalityType
  <1>3. Cardinality(X) = Cardinality(1..n)
    BY <1>1, <1>2
  <1> QED BY <1>1, <1>3, FS_Subset

LEMMA FilledFacts ==
  ASSUME NEW e \in Group, NEW s \in OnLink, now \in Nat, e.total = s.fragments,
         e.have = Cardinality(DOMAIN e.parts), DOMAIN e.parts \subseteq 1..e.total,
         InTime(e, now), Live(e, now)
  PROVE  LET p == A!Filled(e, s)
         IN  /\ p \in Group
             /\ p.total = e.total /\ p.first_seen = e.first_seen
             /\ DOMAIN p.parts = DOMAIN e.parts \cup {s.fragment}
             /\ p.parts[s.fragment] = [raw |-> s.raw, at |-> now]
             /\ \A i \in DOMAIN e.parts : i # s.fragment => p.parts[i] = e.parts[i]
             /\ p.have = Cardinality(DOMAIN p.parts)
             /\ DOMAIN p.parts \subseteq 1..p.total
             /\ InTime(p, now)
  <1> DEFINE p == A!Filled(e, s)
             new == [raw |-> s.raw, at |-> now]
             q == [i \in DOMAIN e.parts \cup {s.fragment} |->
                     IF i = s.fragment THEN new ELSE e.parts[i]]
             h == IF s.fragment \in DOMAIN e.parts THEN e.have ELSE e.have + 1
  <1>1. /\ s.fragment \in 1..s.fragments /\ s.fragment \in 1..MaxFragments
        /\ s.raw \in Nat /\ s.fragments \in Nat
    BY FragmentsAssumption DEF OnLink, Sentence
  <1>2. /\ e.parts \in Parts /\ e.have \in Nat /\ e.first_seen \in Nat
        /\ e.total \in 2..MaxFragments
        /\ e = [total |-> e.total, parts |-> e.parts, have |-> e.have,
                first_seen |-> e.first_seen]
    BY DEF Group
  <1>3. p = [total |-> e.total, parts |-> q, have |-> h, first_seen |-> e.first_seen]
    <2>1. p = [e EXCEPT !.have = h, !.parts = q]
      BY DEF A!Filled
    <2> HIDE DEF p, q, h
    <2> QED BY <1>2, <2>1 DEF Group
  <1>4. new \in Slot
    BY <1>1 DEF Slot
  <1>5. q \in Parts /\ DOMAIN q = DOMAIN e.parts \cup {s.fragment}
    <2>1. /\ DOMAIN e.parts \subseteq 1..MaxFragments
          /\ \A i \in DOMAIN e.parts : e.parts[i] \in Slot
      BY <1>2, PartsTyped
    <2>2. q \in [DOMAIN e.parts \cup {s.fragment} -> Slot]
      BY <1>4, <2>1
    <2> QED BY <1>1, <2>1, <2>2 DEF Parts
  <1>6. h \in Nat /\ h = Cardinality(DOMAIN q)
    <2>1. IsFiniteSet(DOMAIN e.parts)
      BY <1>2, PartsTyped
    <2>2. Cardinality(DOMAIN e.parts \cup {s.fragment}) =
            IF s.fragment \in DOMAIN e.parts THEN Cardinality(DOMAIN e.parts)
                                             ELSE Cardinality(DOMAIN e.parts) + 1
      BY <2>1, FS_AddElement
    <2> QED BY <1>2, <1>5, <2>2
  <1>7. /\ q[s.fragment] = new
        /\ \A i \in DOMAIN e.parts : i # s.fragment => q[i] = e.parts[i]
    OBVIOUS
  <1>8. \A i \in DOMAIN q : q[i].at \in e.first_seen..(e.first_seen + Ttl)
    <2> SUFFICES ASSUME NEW i \in DOMAIN q
                 PROVE  q[i].at \in e.first_seen..(e.first_seen + Ttl)
      OBVIOUS
    <2>1. CASE i = s.fragment
      BY <1>2, <1>7, <2>1, TimeAssumption DEF InTime, Live
    <2>2. CASE i # s.fragment
      BY <1>5, <1>7, <2>2 DEF InTime
    <2> QED BY <2>1, <2>2
  <1> HIDE DEF q, h, new, p
  <1>9. p \in Group
    BY <1>2, <1>3, <1>5, <1>6 DEF Group
  <1>10. /\ p.total = e.total /\ p.first_seen = e.first_seen
         /\ p.parts = q /\ p.have = h
    BY <1>3
  <1>11. InTime(p, now)
    BY <1>8, <1>10 DEF InTime
  <1>12. DOMAIN q \subseteq 1..e.total
    BY <1>1, <1>5
  <1> QED BY <1>5, <1>6, <1>7, <1>9, <1>10, <1>11, <1>12 DEF p, new

LEMMA EvictedFacts ==
  ASSUME pending \in Groups
  PROVE  /\ DOMAIN A!Evicted = {k \in DOMAIN pending : Live(pending[k], now)}
         /\ \A k \in DOMAIN A!Evicted : A!Evicted[k] = pending[k]
         /\ DOMAIN pending \subseteq SeqId
         /\ \A k \in DOMAIN pending : pending[k] \in Group
         /\ pending = [k \in DOMAIN pending |-> pending[k]]
  BY DEF A!Evicted, A!Restrict, Live, Groups

\* The group that a sentence joins, if there is one.
Waiting(s) ==
  /\ s.key \in DOMAIN pending /\ Live(pending[s.key], now)
  /\ pending[s.key].total = s.fragments

LEMMA EntryFacts ==
  ASSUME now \in Nat, pending \in Groups,
         \A k \in DOMAIN pending : Counted(pending[k]) /\ InTime(pending[k], now),
         NEW s \in OnLink, s.fragments > 1
  PROVE  LET e == A!Entry(s)
         IN  /\ e \in Group /\ e.total = s.fragments
             /\ e.have = Cardinality(DOMAIN e.parts)
             /\ DOMAIN e.parts \subseteq 1..e.total
             /\ InTime(e, now) /\ Live(e, now)
             /\ IF Waiting(s) THEN e = pending[s.key]
                              ELSE e.parts = A!None /\ e.first_seen = now
  <1> DEFINE e == A!Entry(s)
  <1>1. CASE s.key \in DOMAIN A!Evicted /\ A!Evicted[s.key].total = s.fragments
    <2>1. /\ e = pending[s.key] /\ s.key \in DOMAIN pending
          /\ Live(pending[s.key], now) /\ Waiting(s)
      BY <1>1, EvictedFacts DEF A!Entry, Waiting
    <2>2. pending[s.key] \in Group /\ pending[s.key].total = s.fragments
      BY <1>1, <2>1, EvictedFacts
    <2> HIDE DEF e
    <2>3. Counted(e) /\ InTime(e, now)
      BY <2>1
    <2> QED BY <2>1, <2>2, <2>3 DEF Counted, e
  <1>2. CASE ~(s.key \in DOMAIN A!Evicted /\ A!Evicted[s.key].total = s.fragments)
    <2>1. e = [total |-> s.fragments, parts |-> A!None, have |-> 0,
               first_seen |-> now]
      BY <1>2 DEF A!Entry, A!Fresh
    <2>w. ~Waiting(s)
      BY <1>2, EvictedFacts DEF Waiting
    <2> HIDE DEF e
    <2>2. s.fragments \in 2..MaxFragments
      BY FragmentsAssumption DEF OnLink, Sentence
    <2>3. e \in Group
      BY <2>1, <2>2, NoneTyped DEF Group
    <2>4. /\ e.parts = A!None /\ e.have = 0 /\ e.first_seen = now
          /\ e.total = s.fragments
      BY <2>1
    <2>5. Cardinality(DOMAIN e.parts) = 0 /\ DOMAIN e.parts = {}
      BY <2>4, NoneTyped, FS_EmptySet
    <2>6. InTime(e, now) /\ Live(e, now)
      BY <2>4, <2>5, TimeAssumption DEF InTime, Live
    <2> QED BY <2>w, <2>3, <2>4, <2>5, <2>6 DEF e
  <1> QED BY <1>1, <1>2

LEMMA SpanWithinTtl ==
  ASSUME NEW t \in Nat, NEW a \in t..(t + Ttl), NEW b \in t..(t + Ttl)
  PROVE  a - b <= Ttl
  BY TimeAssumption

LEMMA AddKeepsAssembler ==
  ASSUME AssemblerInv, NEW s \in OnLink, A!Add(s)
  PROVE  AssemblerInv'
  <1>1. /\ now \in Nat /\ pending \in Groups
        /\ \A k \in DOMAIN pending : Counted(pending[k]) /\ InTime(pending[k], now)
    BY DEF AssemblerInv
  <1>2. /\ s.key \in SeqId /\ s.raw \in Nat /\ s.fragments \in 1..MaxFragments
        /\ s.fragment \in 1..s.fragments
    BY FragmentsAssumption DEF OnLink, Sentence
  <1>3. now' = now
    BY DEF A!Add, A!AddSingle, A!AddIncomplete, A!AddCompleting
  <1>4. CASE A!AddSingle(s)
    <2>1. group' = [i \in {1} |-> [raw |-> s.raw, at |-> now]] /\ pending' = pending
      BY <1>4 DEF A!AddSingle
    <2>2. group' \in [{1} -> Slot] /\ {1} \in SUBSET (1..MaxFragments)
      BY <1>1, <1>2, <2>1, FragmentsAssumption DEF Slot
    <2>3. group' \in Parts
      BY <2>2 DEF Parts
    <2>4. DOMAIN group' = 1..1 /\ 1 \in 0..MaxFragments
      BY <2>1, FragmentsAssumption
    <2>5. \A i, j \in DOMAIN group' : group'[i].at - group'[j].at <= Ttl
      BY <1>1, <2>1, TimeAssumption
    <2> QED BY <1>1, <1>3, <2>1, <2>3, <2>4, <2>5
            DEF AssemblerInv, A!GroupHasNoHole, A!CompletedWithinTtl
  <1>5. CASE A!AddIncomplete(s) \/ A!AddCompleting(s)
    <2> DEFINE e == A!Entry(s)
               p == A!Filled(e, s)
    <2>1. s.fragments > 1
      BY <1>5 DEF A!AddIncomplete, A!AddCompleting
    <2>2. /\ e \in Group /\ e.total = s.fragments
          /\ e.have = Cardinality(DOMAIN e.parts)
          /\ DOMAIN e.parts \subseteq 1..e.total
          /\ InTime(e, now) /\ Live(e, now)
      BY <1>1, <2>1, EntryFacts
    <2> HIDE DEF e
    <2>3. /\ p \in Group /\ p.total = s.fragments
          /\ p.have = Cardinality(DOMAIN p.parts)
          /\ DOMAIN p.parts \subseteq 1..p.total /\ InTime(p, now)
      BY <1>1, <2>2, FilledFacts
    <2> HIDE DEF p
    <2>4. /\ DOMAIN A!Evicted \subseteq DOMAIN pending /\ DOMAIN pending \subseteq SeqId
          /\ \A k \in DOMAIN A!Evicted : A!Evicted[k] = pending[k]
                                         /\ pending[k] \in Group
      BY <1>1, EvictedFacts
    <2>5. CASE A!AddIncomplete(s)
      <3>1. /\ p.have < s.fragments /\ group' = A!None
            /\ pending' = [k \in DOMAIN A!Evicted \cup {s.key} |->
                             IF k = s.key THEN p ELSE A!Evicted[k]]
        BY <2>5 DEF A!AddIncomplete, e, p
      <3>2. pending' \in [DOMAIN A!Evicted \cup {s.key} -> Group]
        BY <2>3, <2>4, <3>1
      <3>3. pending' \in Groups
        BY <1>2, <2>4, <3>2 DEF Groups
      <3>4. ASSUME NEW k \in DOMAIN pending'
            PROVE  Counted(pending'[k]) /\ InTime(pending'[k], now)
        <4>1. CASE k = s.key
          BY <2>3, <3>1, <4>1 DEF Counted
        <4>2. CASE k # s.key
          BY <1>1, <2>4, <3>1, <4>2
        <4> QED BY <4>1, <4>2
      <3>5. DOMAIN group' = 1..0 /\ group' \in Parts
        BY <3>1, NoneTyped
      <3>6. 0 \in 0..MaxFragments /\ \A i \in DOMAIN group' : FALSE
        BY <3>5, FragmentsAssumption
      <3> QED BY <1>1, <1>3, <3>3, <3>4, <3>5, <3>6
              DEF AssemblerInv, A!GroupHasNoHole, A!CompletedWithinTtl, Counted, InTime
    <2>6. CASE A!AddCompleting(s)
      <3>1. /\ p.have >= s.fragments /\ group' = p.parts
            /\ pending' = A!Restrict(A!Evicted, DOMAIN A!Evicted \ {s.key})
        BY <2>6 DEF A!AddCompleting, e, p
      <3>2. /\ DOMAIN pending' = DOMAIN A!Evicted \ {s.key}
            /\ pending' \in [DOMAIN A!Evicted \ {s.key} -> Group]
            /\ \A k \in DOMAIN pending' : pending'[k] = pending[k]
        BY <2>4, <3>1 DEF A!Restrict
      <3>3. pending' \in Groups
        BY <2>4, <3>2 DEF Groups
      <3>4. \A k \in DOMAIN pending' : Counted(pending'[k]) /\ InTime(pending'[k], now)
        BY <1>1, <2>4, <3>2
      <3>5. p.parts \in Parts /\ p.first_seen \in Nat
        BY <2>3 DEF Group
      <3>6. DOMAIN p.parts = 1..s.fragments
        BY <1>2, <2>3, <3>1, FullGroup
      <3>7. \A i, j \in DOMAIN p.parts : p.parts[i].at - p.parts[j].at <= Ttl
        BY <2>3, <3>5, SpanWithinTtl DEF InTime
      <3>8. s.fragments \in 0..MaxFragments
        BY <1>2, FragmentsAssumption
      <3> QED BY <1>1, <1>3, <3>1, <3>3, <3>4, <3>5, <3>6, <3>7, <3>8
              DEF AssemblerInv, A!GroupHasNoHole, A!CompletedWithinTtl, Counted, InTime
    <2> QED BY <1>5, <2>5, <2>6
  <1> QED BY <1>4, <1>5 DEF A!Add

\* What a sentence does to the groups: p is the one it joins or begins.
Joins(p, s) ==
  /\ p \in Group /\ p.total = s.fragments
  /\ p.parts[s.fragment].raw = s.raw
  /\ IF Waiting(s)
       THEN /\ p.first_seen = pending[s.key].first_seen
            /\ DOMAIN p.parts = DOMAIN pending[s.key].parts \cup {s.fragment}
            /\ \A i \in DOMAIN pending[s.key].parts :
                 i # s.fragment => p.parts[i] = pending[s.key].parts[i]
       ELSE p.first_seen = now /\ DOMAIN p.parts = {s.fragment}

LEMMA AddEffect ==
  ASSUME AssemblerInv, NEW s \in OnLink, A!Add(s)
  PROVE  \/ /\ s.fragments = 1 /\ pending' = pending
            /\ DOMAIN group' = {1} /\ group'[1].raw = s.raw
         \/ /\ s.fragments > 1
            /\ \A k \in DOMAIN pending' : k # s.key =>
                 /\ k \in DOMAIN pending /\ pending'[k] = pending[k]
                 /\ Live(pending[k], now)
            /\ \E p : /\ Joins(p, s)
                      /\ \/ /\ group' = A!None /\ s.key \in DOMAIN pending'
                            /\ pending'[s.key] = p
                            /\ DOMAIN p.parts # 1..s.fragments
                         \/ /\ group' = p.parts /\ s.key \notin DOMAIN pending'
                            /\ DOMAIN p.parts = 1..s.fragments
  <1>1. /\ now \in Nat /\ pending \in Groups
        /\ \A k \in DOMAIN pending : Counted(pending[k]) /\ InTime(pending[k], now)
    BY DEF AssemblerInv
  <1>2. s.fragments \in 1..MaxFragments /\ s.fragments \in Nat
    BY FragmentsAssumption DEF OnLink, Sentence
  <1>3. CASE A!AddSingle(s)
    BY <1>3 DEF A!AddSingle
  <1>4. CASE A!AddIncomplete(s) \/ A!AddCompleting(s)
    <2> DEFINE e == A!Entry(s)
               p == A!Filled(e, s)
    <2>1. s.fragments > 1
      BY <1>4 DEF A!AddIncomplete, A!AddCompleting
    <2>2. /\ e \in Group /\ e.total = s.fragments
          /\ e.have = Cardinality(DOMAIN e.parts)
          /\ DOMAIN e.parts \subseteq 1..e.total
          /\ InTime(e, now) /\ Live(e, now)
          /\ IF Waiting(s) THEN e = pending[s.key]
                           ELSE e.parts = A!None /\ e.first_seen = now
      BY <1>1, <2>1, EntryFacts
    <2> HIDE DEF e
    <2>3. /\ p \in Group /\ p.total = e.total /\ p.first_seen = e.first_seen
          /\ DOMAIN p.parts = DOMAIN e.parts \cup {s.fragment}
          /\ p.parts[s.fragment] = [raw |-> s.raw, at |-> now]
          /\ \A i \in DOMAIN e.parts : i # s.fragment => p.parts[i] = e.parts[i]
          /\ p.have = Cardinality(DOMAIN p.parts)
          /\ DOMAIN p.parts \subseteq 1..p.total
      BY <1>1, <2>2, FilledFacts
    <2> HIDE DEF p
    <2>4. Joins(p, s)
      <3>1. CASE Waiting(s)
        BY <2>2, <2>3, <3>1 DEF Joins
      <3>2. CASE ~Waiting(s)
        BY <2>2, <2>3, <3>2, NoneTyped DEF Joins
      <3> QED BY <3>1, <3>2
    <2>5. /\ DOMAIN A!Evicted = {k \in DOMAIN pending : Live(pending[k], now)}
          /\ \A k \in DOMAIN A!Evicted : A!Evicted[k] = pending[k]
      BY <1>1, EvictedFacts
    <2>6. CASE A!AddIncomplete(s)
      <3>1. /\ p.have < s.fragments /\ group' = A!None
            /\ pending' = [k \in DOMAIN A!Evicted \cup {s.key} |->
                             IF k = s.key THEN p ELSE A!Evicted[k]]
        BY <2>6 DEF A!AddIncomplete, e, p
      <3>2. DOMAIN p.parts # 1..s.fragments
        <4> SUFFICES ASSUME DOMAIN p.parts = 1..s.fragments PROVE FALSE
          OBVIOUS
        <4>1. Cardinality(1..s.fragments) = s.fragments
          <5>1. Cardinality(1..s.fragments)
                  = IF 1 > s.fragments THEN 0 ELSE s.fragments - 1 + 1
            BY <1>2, FS_Interval
          <5> QED BY <1>2, <5>1
        <4>2. p.have = s.fragments
          BY <2>3, <4>1
        <4> QED BY <1>2, <3>1, <4>2
      <3>3. \A k \in DOMAIN pending' : k # s.key =>
              k \in DOMAIN pending /\ pending'[k] = pending[k] /\ Live(pending[k], now)
        BY <2>5, <3>1
      <3> QED BY <2>1, <2>4, <3>1, <3>2, <3>3
    <2>7. CASE A!AddCompleting(s)
      <3>1. /\ p.have >= s.fragments /\ group' = p.parts
            /\ pending' = A!Restrict(A!Evicted, DOMAIN A!Evicted \ {s.key})
        BY <2>7 DEF A!AddCompleting, e, p
      <3>2. DOMAIN p.parts = 1..s.fragments
        <4>1. /\ Cardinality(DOMAIN p.parts) >= s.fragments
              /\ DOMAIN p.parts \subseteq 1..s.fragments
          BY <2>2, <2>3, <3>1
        <4> QED BY <1>2, <4>1, FullGroup
      <3>3. \A k \in DOMAIN pending' : /\ k # s.key /\ k \in DOMAIN pending
                                       /\ pending'[k] = pending[k]
                                       /\ Live(pending[k], now)
        BY <2>5, <3>1 DEF A!Restrict
      <3> QED BY <2>1, <2>4, <3>1, <3>2, <3>3
    <2> QED BY <1>4, <2>6, <2>7
  <1> QED BY <1>3, <1>4 DEF A!Add

-----------------------------------------------------------------------------
\* The parts of the invariant, one lemma each.

LEMMA ToSentencesFacts ==
  ASSUME NEW total \in 1..MaxFragments, LinkTyped
  PROVE  /\ ToSentences(total) \in Seq(OnLink) /\ Len(ToSentences(total)) = total
         /\ \A f \in 1..total :
              ToSentences(total)[f] = [key |-> seq % SeqBase, raw |-> sent + 1,
                                       fragments |-> total, fragment |-> f]
  <1>1. seq \in Nat /\ sent \in Nat /\ total \in Nat
    BY FragmentsAssumption DEF LinkTyped
  <1>2. seq % SeqBase \in SeqId
    BY <1>1, SeqAssumption DEF SeqId
  <1>3. \A f \in 1..total : [key |-> seq % SeqBase, raw |-> sent + 1,
                             fragments |-> total, fragment |-> f] \in OnLink
    BY <1>1, <1>2, FragmentsAssumption DEF OnLink, Sentence
  <1>4. ToSentences(total) \in [1..total -> OnLink]
    BY <1>3 DEF ToSentences
  <1>5. \A f \in 1..total :
          ToSentences(total)[f] = [key |-> seq % SeqBase, raw |-> sent + 1,
                                   fragments |-> total, fragment |-> f]
    BY DEF ToSentences
  <1> HIDE DEF ToSentences
  <1> QED BY <1>1, <1>4, <1>5

LEMMA LinkTypedKept ==
  ASSUME AssemblerInv, LinkTyped, [RNext]_vars PROVE LinkTyped' /\ regime' = regime
  <1>1. /\ link \in Seq(OnLink) /\ now \in Nat /\ seq \in Nat /\ sent \in Nat
        /\ published \in Nat /\ lastUse \in [SeqId -> Int]
        /\ seen \in Nat /\ lastSweep \in Nat
    BY DEF LinkTyped, AssemblerInv
  <1>2. regime' = regime
    BY DEF RNext, ConvertSome, Convert, Send, Deliver, DeliverDatagram,
       DeliverNoise, DeliverOther, Lose, Reconnect, Tick, vars, converter
  <1>3. link' \in Seq(OnLink)
    <2>1. \/ link' = link
          \/ \E total \in 1..MaxFragments : link' = link \o ToSentences(total)
          \/ link # <<>> /\ link' = Tail(link)
          \/ \E i \in 1..Len(link) : link' = RemoveAt(link, i)
          \/ \E n \in 0..Len(link) : link' = SubSeq(link, n + 1, Len(link))
      BY DEF RNext, ConvertSome, Convert, Send, Deliver, DeliverDatagram,
         DeliverNoise, DeliverOther, Lose, Reconnect, Tick, vars
    <2>2. CASE \E total \in 1..MaxFragments : link' = link \o ToSentences(total)
      BY <1>1, <2>2, ToSentencesFacts, ConcatProperties
    <2>3. CASE link # <<>> /\ link' = Tail(link)
      BY <1>1, <2>3, HeadTailProperties
    <2>4. CASE \E n \in 0..Len(link) : link' = SubSeq(link, n + 1, Len(link))
      BY <1>1, <2>4, ElementOfSeq, SubSeqProperties, LenProperties
    <2>5. CASE \E i \in 1..Len(link) : link' = RemoveAt(link, i)
      <3>1. PICK i \in 1..Len(link) : link' = RemoveAt(link, i)
        BY <2>5
      <3>2. Len(link) \in Nat /\ \A j \in 1..Len(link) : link[j] \in OnLink
        BY <1>1, ElementOfSeq, LenProperties
      <3>3. SubSeq(link, 1, i - 1) \in Seq(OnLink)
        BY <3>2, SubSeqProperties
      <3>4. SubSeq(link, i + 1, Len(link)) \in Seq(OnLink)
        BY <3>2, SubSeqProperties
      <3> QED BY <3>1, <3>3, <3>4, ConcatProperties DEF RemoveAt
    <2> QED BY <1>1, <2>1, <2>2, <2>3, <2>4, <2>5
  <1>4. seq' \in Nat
    <2>1. seq' = seq \/ seq' = (seq + 1) % SeqWrap
      BY DEF RNext, ConvertSome, Convert, Send, Deliver, DeliverDatagram,
         DeliverNoise, DeliverOther, Lose, Reconnect, Tick, vars, converter
    <2> QED BY <1>1, <2>1, SeqAssumption
  <1>5. sent' \in {sent, sent + 1} /\ published' \in {published, published + 1}
    BY DEF RNext, ConvertSome, Convert, Send, Deliver, DeliverDatagram,
       DeliverNoise, DeliverOther, Lose, Reconnect, Tick, vars, converter
  <1>6. /\ \/ lastUse' \in {lastUse, [lastUse EXCEPT ![seq % SeqBase] = now]}
           \/ /\ now' = now + 1
              /\ lastUse' = [k \in SeqId |-> IF OnTheWay(k) THEN now' ELSE lastUse[k]]
        /\ reused' \in BOOLEAN
    BY DEF RNext, ConvertSome, Convert, Send, Deliver, DeliverDatagram,
       DeliverNoise, DeliverOther, Lose, Reconnect, Tick, A!Tick, vars, converter, LinkTyped
  <1>7. seen' \in {seen, now} /\ lastSweep' \in {lastSweep, now}
    BY DEF RNext, ConvertSome, Convert, Send, Deliver, DeliverDatagram,
       DeliverNoise, DeliverOther, Lose, Reconnect, Tick, vars, table, Stamped, Swept
  <1>8. lastUse' \in [SeqId -> Int]
    BY <1>1, <1>6
  <1> QED BY <1>1, <1>2, <1>3, <1>4, <1>5, <1>6, <1>7, <1>8 DEF LinkTyped

LEMMA HeadOnLink ==
  ASSUME LinkTyped, link # <<>>
  PROVE  /\ Head(link) \in OnLink /\ Head(link) = link[1]
         /\ Len(link) \in Nat \ {0} /\ Tail(link) \in Seq(OnLink)
         /\ Len(Tail(link)) = Len(link) - 1
         /\ \A i \in 1..Len(link) - 1 : Tail(link)[i] = link[i + 1]
  <1>1. link \in Seq(OnLink)
    BY DEF LinkTyped
  <1>2. Len(link) \in Nat \ {0}
    BY <1>1, EmptySeq
  <1> QED BY <1>1, <1>2, HeadTailProperties

\* What a datagram of a followed address may hold.
LEMMA ForeignSentence ==
  ASSUME NEW s \in A!Sentence, s.raw = Other
  PROVE  s \in OnLink
  BY DEF A!Sentence, OnLink, Sentence, Other

LEMMA AssemblerKept ==
  ASSUME AssemblerInv, LinkTyped, [RNext]_vars PROVE AssemblerInv'
  <1>1. /\ now \in Nat /\ pending \in Groups /\ group \in Parts
        /\ \A k \in DOMAIN pending : Counted(pending[k]) /\ InTime(pending[k], now)
        /\ \E n \in 0..MaxFragments : DOMAIN group = 1..n
        /\ \A i, j \in DOMAIN group : group[i].at - group[j].at <= Ttl
    BY DEF AssemblerInv, A!GroupHasNoHole, A!CompletedWithinTtl
  \* Steps that keep the groups or forget them.
  <1>2. ASSUME now' \in {now, now + 1}, pending' \in {pending, A!None},
               group' \in {group, A!None}
        PROVE  AssemblerInv'
    <2>1. now' \in Nat /\ now <= now'
      BY <1>1, <1>2
    <2>2. pending' \in Groups /\ group' \in Parts
      BY <1>1, <1>2, NoneTyped
    <2>3. \A k \in DOMAIN pending' : Counted(pending'[k]) /\ InTime(pending'[k], now')
      <3> SUFFICES ASSUME NEW k \in DOMAIN pending'
                   PROVE  Counted(pending'[k]) /\ InTime(pending'[k], now')
        OBVIOUS
      <3>1. pending'[k] = pending[k] /\ k \in DOMAIN pending
        BY <1>2, NoneTyped
      <3>2. pending[k].first_seen \in Nat
        BY <1>1, <3>1, EvictedFacts DEF Group
      <3> QED BY <1>1, <2>1, <3>1, <3>2 DEF InTime, Counted
    <2>4. \E n \in 0..MaxFragments : DOMAIN group' = 1..n
      <3>1. 0 \in 0..MaxFragments /\ 1..0 = {}
        BY FragmentsAssumption
      <3> QED BY <1>1, <1>2, <3>1, NoneTyped
    <2>5. \A i, j \in DOMAIN group' : group'[i].at - group'[j].at <= Ttl
      BY <1>1, <1>2, NoneTyped
    <2> QED BY <2>1, <2>2, <2>3, <2>4, <2>5
            DEF AssemblerInv, A!GroupHasNoHole, A!CompletedWithinTtl, Counted, InTime
  <1>3. CASE Deliver
    BY <1>3, HeadOnLink, AddKeepsAssembler DEF Deliver
  <1>4. CASE DeliverDatagram
    BY <1>4, ForeignSentence, AddKeepsAssembler DEF DeliverDatagram
  <1>5. CASE ConvertSome \/ DeliverNoise \/ DeliverOther \/ Lose \/ Reconnect
             \/ Tick \/ UNCHANGED vars
    BY <1>2, <1>5
    DEF ConvertSome, Convert, Send, DeliverNoise, DeliverOther, Lose, Reconnect,
        Tick, A!Tick, vars
  <1> QED BY <1>3, <1>4, <1>5 DEF RNext

LEMMA ForeignKept ==
  ASSUME AssemblerInv, LinkTyped, LinkTyped', Foreign, [RNext]_vars PROVE Foreign'
  <1> SUFFICES ASSUME regime' = "udp" PROVE Foreign'
    BY DEF Foreign
  <1>1. regime = "udp"
    BY LinkTypedKept
  <1>2. /\ link = <<>>
        /\ \A k \in DOMAIN pending : \A i \in DOMAIN pending[k].parts :
             pending[k].parts[i].raw = Other
        /\ \A i \in DOMAIN group : group[i].raw = Other
    BY <1>1 DEF Foreign
  <1>3. CASE DeliverDatagram
    <2>1. PICK s \in A!Sentence : s.raw = Other /\ A!Add(s)
      BY <1>3 DEF DeliverDatagram
    <2>2. s \in OnLink
      BY <2>1, ForeignSentence
    <2>3. link' = <<>>
      BY <1>2, <1>3 DEF DeliverDatagram
    <2>4. CASE s.fragments = 1 /\ pending' = pending /\ DOMAIN group' = {1}
               /\ group'[1].raw = s.raw
      BY <1>2, <2>1, <2>3, <2>4 DEF Foreign
    <2>5. CASE s.fragments # 1
      <3>1. PICK p : /\ Joins(p, s)
                     /\ \/ group' = A!None /\ pending'[s.key] = p
                        \/ group' = p.parts /\ s.key \notin DOMAIN pending'
        BY <2>1, <2>2, <2>5, AddEffect
      <3>2. \A k \in DOMAIN pending' :
              k # s.key => k \in DOMAIN pending /\ pending'[k] = pending[k]
        BY <2>1, <2>2, <2>5, AddEffect
      <3>3. \A i \in DOMAIN p.parts : p.parts[i].raw = Other
        BY <1>2, <2>1, <3>1 DEF Joins, Waiting
      <3> QED BY <1>2, <2>3, <3>1, <3>2, <3>3, NoneTyped DEF Foreign
    <2> QED BY <2>1, <2>2, <2>4, <2>5, AddEffect
  <1>4. CASE ConvertSome \/ Deliver \/ Lose \/ Reconnect
    BY <1>1, <1>2, <1>4 DEF ConvertSome, Deliver, Lose, Reconnect, Lossy
  <1>5. CASE DeliverNoise \/ DeliverOther \/ Tick \/ UNCHANGED vars
    <2>1. link' = link /\ group' = group /\ pending' \in {pending, A!None}
      BY <1>5 DEF DeliverNoise, DeliverOther, Tick, A!Tick, vars
    <2> QED BY <1>2, <2>1, NoneTyped DEF Foreign
  <1> QED BY <1>3, <1>4, <1>5 DEF RNext

LEMMA FilledHave ==
  ASSUME AssemblerInv, NEW s \in OnLink, s.fragments > 1
  PROVE  A!Filled(A!Entry(s), s).have \in Int /\ s.fragments \in Int
  <1> DEFINE e == A!Entry(s)
             p == A!Filled(e, s)
  <1>1. /\ e \in Group /\ e.total = s.fragments
        /\ e.have = Cardinality(DOMAIN e.parts)
        /\ DOMAIN e.parts \subseteq 1..e.total
        /\ InTime(e, now) /\ Live(e, now)
    BY EntryFacts DEF AssemblerInv
  <1> HIDE DEF e
  <1>2. p \in Group
    BY <1>1, FilledFacts DEF AssemblerInv
  <1> HIDE DEF p
  <1>3. p.have \in Nat /\ s.fragments \in Int
    BY <1>2, FragmentsAssumption DEF Group, OnLink, Sentence
  <1> QED BY <1>3 DEF p, e

\* Equal groups that are alive: both assemblers answer a sentence alike.
LEMMA SameAnswer ==
  ASSUME AssemblerInv, kept \in Groups, SameLive(pending, kept),
         SameLive(kept, pending), NEW s \in OnLink, A!Add(s), Unswept!Add(s)
  PROVE  /\ group' = keptGroup'
         /\ \/ pending' = pending /\ kept' = kept
            \/ pending' = kept'
  <1>1. A!Evicted = Unswept!Evicted
    <2> DEFINE K == {k \in DOMAIN pending : Live(pending[k], now)}
               L == {k \in DOMAIN kept : Live(kept[k], now)}
    <2>1. A!Evicted = [k \in K |-> pending[k]]
      BY DEF A!Evicted, A!Restrict, Live
    <2>2. Unswept!Evicted = [k \in L |-> kept[k]]
      BY DEF Unswept!Evicted, Unswept!Restrict, Live
    <2>3. K = L /\ \A k \in K : pending[k] = kept[k]
      BY DEF SameLive
    <2> HIDE DEF K, L
    <2> QED BY <2>1, <2>2, <2>3
  <1>2. A!Entry(s) = Unswept!Entry(s)
    BY <1>1 DEF A!Entry, Unswept!Entry, A!Fresh, Unswept!Fresh, A!None, Unswept!None
  <1>3. A!Filled(A!Entry(s), s) = Unswept!Filled(Unswept!Entry(s), s)
    BY <1>2 DEF A!Filled, Unswept!Filled
  <1> DEFINE p == A!Filled(A!Entry(s), s)
  <1>4. CASE s.fragments = 1
    BY <1>4 DEF A!Add, A!AddSingle, A!AddIncomplete, A!AddCompleting,
       Unswept!Add, Unswept!AddSingle, Unswept!AddIncomplete, Unswept!AddCompleting
  <1>5. CASE s.fragments # 1
    <2> HIDE DEF p
    <2>1. CASE A!AddIncomplete(s)
      <3>1. /\ p.have < s.fragments /\ group' = A!None
            /\ pending' = [k \in DOMAIN A!Evicted \cup {s.key} |->
                             IF k = s.key THEN p ELSE A!Evicted[k]]
        BY <2>1 DEF A!AddIncomplete, p
      <3>2. Unswept!AddIncomplete(s) \/ Unswept!AddCompleting(s)
        BY <1>5 DEF Unswept!Add, Unswept!AddSingle
      <3>3. p.have \in Int /\ s.fragments \in Int
        BY <2>1, FilledHave DEF p, A!AddIncomplete
      <3>4. ~Unswept!AddCompleting(s)
        BY <1>3, <3>1, <3>3 DEF Unswept!AddCompleting, p
      <3>5. /\ keptGroup' = Unswept!None
            /\ kept' = [k \in DOMAIN Unswept!Evicted \cup {s.key} |->
                          IF k = s.key THEN p ELSE Unswept!Evicted[k]]
        BY <1>3, <3>2, <3>4 DEF Unswept!AddIncomplete, p
      <3> QED BY <1>1, <3>1, <3>5 DEF A!None, Unswept!None
    <2>2. CASE A!AddCompleting(s)
      <3>1. /\ p.have >= s.fragments /\ group' = p.parts
            /\ pending' = A!Restrict(A!Evicted, DOMAIN A!Evicted \ {s.key})
        BY <2>2 DEF A!AddCompleting, p
      <3>2. Unswept!AddIncomplete(s) \/ Unswept!AddCompleting(s)
        BY <1>5 DEF Unswept!Add, Unswept!AddSingle
      <3>3. p.have \in Int /\ s.fragments \in Int
        BY <2>2, FilledHave DEF p, A!AddCompleting
      <3>4. ~Unswept!AddIncomplete(s)
        BY <1>3, <3>1, <3>3 DEF Unswept!AddIncomplete, p
      <3>5. /\ keptGroup' = p.parts
            /\ kept' = Unswept!Restrict(Unswept!Evicted,
                                        DOMAIN Unswept!Evicted \ {s.key})
        BY <1>3, <3>2, <3>4 DEF Unswept!AddCompleting, p
      <3> QED BY <1>1, <3>1, <3>5 DEF A!Restrict, Unswept!Restrict
    <2> QED BY <1>5, <2>1, <2>2 DEF A!Add, A!AddSingle
  <1> QED BY <1>4, <1>5

LEMMA SweepUnseenKept ==
  ASSUME AssemblerInv, AssemblerInv', LinkTyped, LinkTyped', Foreign, SweepUnseen,
         [RNext]_vars
  PROVE  SweepUnseen'
  <1> SUFFICES ASSUME regime' = "udp" PROVE SweepUnseen'
    BY DEF SweepUnseen
  <1>1. regime = "udp" /\ link = <<>>
    BY LinkTypedKept DEF Foreign
  <1>2. /\ kept \in Groups /\ seen <= now
        /\ \A k \in DOMAIN kept : kept[k].first_seen <= seen
        /\ SameLive(pending, kept) /\ SameLive(kept, pending) /\ group = keptGroup
    BY <1>1 DEF SweepUnseen
  <1>3. /\ now \in Nat /\ seen \in Nat /\ pending \in Groups
        /\ \A k \in DOMAIN kept : kept[k].first_seen \in Nat
        /\ \A k \in DOMAIN pending : pending[k].first_seen \in Nat
    BY <1>2 DEF AssemblerInv, LinkTyped, Groups, Group
  <1>4. CASE DeliverDatagram
    <2>1. PICK s \in A!Sentence : s.raw = Other /\ A!Add(s) /\ Unswept!Add(s)
      BY <1>4 DEF DeliverDatagram
    <2>2. /\ group' = keptGroup'
          /\ \/ pending' = pending /\ kept' = kept
             \/ pending' = kept'
      BY <1>2, <2>1, ForeignSentence, SameAnswer
    <2>3. seen' = now /\ now' = now
      BY <1>4, <2>1 DEF DeliverDatagram, Stamped, A!Add, A!AddSingle,
         A!AddIncomplete, A!AddCompleting
    <2>4. CASE pending' = pending /\ kept' = kept
      BY <1>2, <1>3, <2>2, <2>3, <2>4 DEF SweepUnseen, SameLive
    <2>5. CASE pending' = kept'
      <3>1. kept' \in Groups /\ \A k \in DOMAIN kept' : kept'[k].first_seen <= now
        BY <2>3, <2>5 DEF AssemblerInv, InTime
      <3> QED BY <1>3, <2>2, <2>3, <2>5, <3>1 DEF SweepUnseen, SameLive
    <2> QED BY <2>2, <2>4, <2>5
  <1>5. CASE DeliverNoise
    BY <1>2, <1>3, <1>5 DEF DeliverNoise, Stamped, SweepUnseen, SameLive
  <1>6. CASE DeliverOther
    <2>1. UNCHANGED <<group, now, seen, kept, keptGroup>>
      BY <1>6 DEF DeliverOther
    <2>2. CASE Due /\ now - seen >= KeepFor
      <3>1. pending' = A!None
        BY <1>6, <2>2 DEF DeliverOther
      <3>2. \A k \in DOMAIN kept : ~Live(kept[k], now)
        BY <1>2, <1>3, <2>2, SweepAssumption, TimeAssumption DEF Live
      <3> QED BY <1>2, <2>1, <3>1, <3>2, NoneTyped DEF SweepUnseen, SameLive
    <2>3. CASE ~(Due /\ now - seen >= KeepFor)
      <3>1. pending' = pending
        BY <1>6, <2>3 DEF DeliverOther
      <3> QED BY <1>2, <2>1, <3>1 DEF SweepUnseen, SameLive
    <2> QED BY <2>2, <2>3
  <1>7. CASE Tick
    <2>1. now' = now + 1 /\ UNCHANGED <<pending, group, seen, kept, keptGroup>>
      BY <1>7 DEF Tick, A!Tick, table
    <2>2. SameLive(pending, kept)' /\ SameLive(kept, pending)'
      BY <1>2, <1>3, <2>1, TimeAssumption DEF SameLive, Live
    <2> QED BY <1>2, <1>3, <2>1, <2>2 DEF SweepUnseen, SameLive
  <1>8. CASE ConvertSome \/ Deliver \/ Lose \/ Reconnect
    BY <1>1, <1>8 DEF ConvertSome, Deliver, Lose, Reconnect, Lossy
  <1>9. CASE UNCHANGED vars
    BY <1>2, <1>9 DEF vars, table, SweepUnseen, SameLive
  <1> QED BY <1>4, <1>5, <1>6, <1>7, <1>8, <1>9 DEF RNext

LEMMA RemoveAtFacts ==
  ASSUME NEW T, NEW s \in Seq(T), NEW k \in 1..Len(s)
  PROVE  /\ RemoveAt(s, k) \in Seq(T)
         /\ Len(RemoveAt(s, k)) = Len(s) - 1
         /\ \A i \in 1..Len(s) - 1 :
              RemoveAt(s, k)[i] = s[IF i < k THEN i ELSE i + 1]
  <1> DEFINE before == SubSeq(s, 1, k - 1)
             after == SubSeq(s, k + 1, Len(s))
  <1>1. Len(s) \in Nat /\ k \in Int
    BY LenProperties
  <1>2. /\ before \in Seq(T) /\ Len(before) = k - 1
        /\ \A i \in 1..k - 1 : before[i] = s[i]
    BY <1>1, ElementOfSeq, SubSeqProperties
  <1>3. /\ after \in Seq(T) /\ Len(after) = Len(s) - k
        /\ \A i \in 1..Len(s) - k : after[i] = s[i + k]
    <2>1. \A i \in k + 1..Len(s) : s[i] \in T
      BY <1>1, ElementOfSeq
    <2>2. /\ after \in Seq(T)
          /\ Len(after) = IF k + 1 <= Len(s) THEN Len(s) - (k + 1) + 1 ELSE 0
          /\ \A i \in 1..Len(s) - (k + 1) + 1 : after[i] = s[k + 1 + i - 1]
      BY <1>1, <2>1, SubSeqProperties
    <2> HIDE DEF after
    <2> QED BY <1>1, <2>2
  <1> HIDE DEF before, after
  <1>4. /\ before \o after \in Seq(T)
        /\ Len(before \o after) = Len(before) + Len(after)
        /\ \A i \in 1..Len(before) + Len(after) : (before \o after)[i] =
             IF i <= Len(before) THEN before[i] ELSE after[i - Len(before)]
    BY <1>2, <1>3, ConcatProperties
  <1>5. RemoveAt(s, k) = before \o after
    BY DEF RemoveAt, before, after
  <1>6. ASSUME NEW i \in 1..Len(s) - 1
        PROVE  (before \o after)[i] = s[IF i < k THEN i ELSE i + 1]
    <2>1. CASE i < k
      BY <1>1, <1>2, <1>3, <1>4, <2>1
    <2>2. CASE i >= k
      <3>0. /\ Len(before) = k - 1 /\ i \in 1..Len(before) + Len(after)
            /\ ~(i <= Len(before))
        BY <1>1, <1>2, <1>3, <2>2
      <3>1. (before \o after)[i] = after[i - (k - 1)]
        BY <1>4, <3>0
      <3>2. after[i - (k - 1)] = s[i - (k - 1) + k]
        BY <1>1, <1>3, <2>2
      <3> QED BY <1>1, <2>2, <3>1, <3>2
    <2>3. i < k \/ i >= k
      BY <1>1
    <2> QED BY <2>1, <2>2, <2>3
  <1>7. Len(before \o after) = Len(s) - 1
    BY <1>1, <1>2, <1>3, <1>4
  <1> QED BY <1>4, <1>5, <1>6, <1>7

LEMMA LinkKept ==
  ASSUME LinkTyped, [RNext]_vars, ~ConvertSome
  PROVE  Multi' \subseteq Multi
  <1>1. link \in Seq(OnLink) /\ Len(link) \in Nat
    BY DEF LinkTyped
  <1>2. SUFFICES \A i \in 1..Len(link') : \E j \in 1..Len(link) : link'[i] = link[j]
    BY DEF Multi
  <1>3. \/ link' = link
        \/ link # <<>> /\ link' = Tail(link)
        \/ \E k \in 1..Len(link) : link' = RemoveAt(link, k)
        \/ \E n \in 0..Len(link) : link' = SubSeq(link, n + 1, Len(link))
    BY DEF RNext, ConvertSome, Convert, Send, Deliver, DeliverDatagram,
       DeliverNoise, DeliverOther, Lose, Reconnect, Tick, vars
  <1>4. CASE link # <<>> /\ link' = Tail(link)
    <2>1. \A i \in 1..Len(link') : i + 1 \in 1..Len(link) /\ link'[i] = link[i + 1]
      BY <1>1, <1>4, HeadOnLink
    <2> QED BY <2>1
  <1>5. CASE \E k \in 1..Len(link) : link' = RemoveAt(link, k)
    <2>1. PICK k \in 1..Len(link) : link' = RemoveAt(link, k)
      BY <1>5
    <2>2. /\ Len(link') = Len(link) - 1
          /\ \A i \in 1..Len(link) - 1 : link'[i] = link[IF i < k THEN i ELSE i + 1]
      BY <1>1, <2>1, RemoveAtFacts
    <2>3. \A i \in 1..Len(link) - 1 : (IF i < k THEN i ELSE i + 1) \in 1..Len(link)
      BY <1>1
    <2> QED BY <1>1, <2>2, <2>3
  <1>6. CASE \E n \in 0..Len(link) : link' = SubSeq(link, n + 1, Len(link))
    <2>1. PICK n \in 0..Len(link) : link' = SubSeq(link, n + 1, Len(link))
      BY <1>6
    <2>2. \A i \in n + 1..Len(link) : link[i] \in OnLink
      BY <1>1, ElementOfSeq
    <2>3. /\ Len(link') = IF n + 1 <= Len(link) THEN Len(link) - (n + 1) + 1 ELSE 0
          /\ \A i \in 1..Len(link) - (n + 1) + 1 : link'[i] = link[n + 1 + i - 1]
      BY <1>1, <2>1, <2>2, SubSeqProperties
    <2>4. \A i \in 1..Len(link') : /\ i \in 1..Len(link) - (n + 1) + 1
                                   /\ n + 1 + i - 1 \in 1..Len(link)
      BY <1>1, <2>3
    <2> QED BY <2>3, <2>4
  <1> QED BY <1>3, <1>4, <1>5, <1>6

LEMMA LinkExtended ==
  ASSUME LinkTyped, NEW total \in 1..MaxFragments,
         link' = link \o ToSentences(total)
  PROVE  /\ Len(link') = Len(link) + total /\ Len(link) \in Nat
         /\ \A i \in 1..Len(link) : link'[i] = link[i]
         /\ \A f \in 1..total : link'[Len(link) + f] = ToSentences(total)[f]
         /\ \A s \in Multi' : \/ s \in Multi
                              \/ /\ total > 1 /\ s.key = seq % SeqBase
                                 /\ s.raw = sent + 1
  <1>1. link \in Seq(OnLink) /\ Len(link) \in Nat /\ total \in Nat
    BY FragmentsAssumption DEF LinkTyped
  <1> DEFINE new == ToSentences(total)
  <1>2. /\ new \in Seq(OnLink) /\ Len(new) = total
        /\ \A f \in 1..total : /\ new[f].fragments = total /\ new[f].raw = sent + 1
                               /\ new[f].key = seq % SeqBase
    <2>1. \A f \in 1..total : new[f] = [key |-> seq % SeqBase, raw |-> sent + 1,
                                        fragments |-> total, fragment |-> f]
      BY ToSentencesFacts
    <2>2. new \in Seq(OnLink) /\ Len(new) = total
      BY ToSentencesFacts
    <2> HIDE DEF new
    <2> QED BY <2>1, <2>2
  <1> HIDE DEF new
  <1>3. /\ Len(link') = Len(link) + total
        /\ \A i \in 1..Len(link) + total :
             link'[i] = IF i <= Len(link) THEN link[i] ELSE new[i - Len(link)]
    <2>1. /\ Len(link \o new) = Len(link) + Len(new)
          /\ \A i \in 1..Len(link) + Len(new) : (link \o new)[i] =
               IF i <= Len(link) THEN link[i] ELSE new[i - Len(link)]
      BY <1>1, <1>2, ConcatProperties
    <2> QED BY <1>2, <2>1 DEF new
  <1>4. \A i \in 1..Len(link) : link'[i] = link[i]
    BY <1>1, <1>3
  <1>5. \A f \in 1..total : link'[Len(link) + f] = new[f]
    <2> SUFFICES ASSUME NEW f \in 1..total PROVE link'[Len(link) + f] = new[f]
      OBVIOUS
    <2>1. /\ Len(link) + f \in 1..Len(link) + total
          /\ ~(Len(link) + f <= Len(link)) /\ Len(link) + f - Len(link) = f
      BY <1>1
    <2>2. link'[Len(link) + f] = new[Len(link) + f - Len(link)]
      BY <1>3, <2>1
    <2> QED BY <2>1, <2>2
  <1>6. ASSUME NEW s \in Multi'
        PROVE  s \in Multi \/ (total > 1 /\ s.key = seq % SeqBase /\ s.raw = sent + 1)
    <2>1. PICK i \in 1..Len(link') : s = link'[i] /\ link'[i].fragments > 1
      BY DEF Multi
    <2>2. CASE i \in 1..Len(link)
      BY <1>4, <2>1, <2>2 DEF Multi
    <2>3. CASE i > Len(link)
      <3>1. i - Len(link) \in 1..total /\ link'[i] = new[i - Len(link)]
        BY <1>1, <1>3, <2>1, <2>3
      <3> QED BY <1>2, <2>1, <3>1
    <2> QED BY <1>1, <1>3, <2>2, <2>3
  <1> QED BY <1>1, <1>3, <1>4, <1>5, <1>6 DEF new

LEMMA OneUserPerIdKept ==
  ASSUME AssemblerInv, AssemblerInv', LinkTyped, LinkTyped', OneUserPerId,
         [RNext]_vars
  PROVE  OneUserPerId'
  <1> SUFFICES ASSUME regime' # "udp" PROVE OneUserPerId'
    BY DEF OneUserPerId
  <1>1. regime # "udp"
    BY LinkTypedKept
  <1>2. /\ \A s \in Multi : lastUse[s.key] = now
        /\ \A k \in DOMAIN pending : pending[k].first_seen <= lastUse[k]
        /\ ~reused =>
             /\ \A s, t \in Multi : s.key = t.key => s.raw = t.raw
             /\ \A k \in DOMAIN pending : Live(pending[k], now) =>
                  /\ \A a, b \in DOMAIN pending[k].parts :
                       pending[k].parts[a].raw = pending[k].parts[b].raw
                  /\ \A s \in Multi : s.key = k =>
                       \A a \in DOMAIN pending[k].parts :
                         pending[k].parts[a].raw = s.raw
             /\ \A i, j \in DOMAIN group : group[i].raw = group[j].raw
    BY <1>1 DEF OneUserPerId
  <1>3. /\ now \in Nat /\ pending \in Groups /\ lastUse \in [SeqId -> Int]
        /\ seq \in Nat /\ link \in Seq(OnLink) /\ DOMAIN pending \subseteq SeqId
        /\ \A k \in DOMAIN pending : /\ pending[k].first_seen \in Nat
                                     /\ pending[k].first_seen <= now
    BY DEF AssemblerInv, LinkTyped, Groups, Group, InTime
  \* Steps that forget groups or let time pass.
  <1>4. ASSUME Multi' \subseteq Multi, pending' \in {pending, A!None},
               group' \in {group, A!None}, reused' = reused,
               now' \in {now, now + 1},
               \A s \in Multi' : lastUse'[s.key] = now',
               \A k \in SeqId : lastUse[k] <= lastUse'[k], lastUse' \in [SeqId -> Int]
        PROVE  OneUserPerId'
    <2>1. \A k \in DOMAIN pending' :
            /\ k \in DOMAIN pending /\ pending'[k] = pending[k]
            /\ Live(pending[k], now') => Live(pending[k], now)
      BY <1>3, <1>4, NoneTyped, TimeAssumption DEF Live
    <2>2. \A i \in DOMAIN group' : i \in DOMAIN group /\ group'[i] = group[i]
      BY <1>4, NoneTyped
    <2>3. \A s \in Multi' : lastUse'[s.key] = now'
      BY <1>4
    <2>4. \A k \in DOMAIN pending' : pending'[k].first_seen <= lastUse'[k]
      <3> SUFFICES ASSUME NEW k \in DOMAIN pending
                   PROVE  pending[k].first_seen <= lastUse'[k]
        BY <2>1
      <3>1. /\ pending[k].first_seen \in Nat /\ lastUse[k] \in Int
            /\ lastUse'[k] \in Int /\ k \in SeqId
        BY <1>3, <1>4
      <3>2. pending[k].first_seen <= lastUse[k] /\ lastUse[k] <= lastUse'[k]
        BY <1>2, <1>4, <3>1
      <3> QED BY <3>1, <3>2
    <2>5. ~reused' =>
             /\ \A s, t \in Multi' : s.key = t.key => s.raw = t.raw
             /\ \A k \in DOMAIN pending' : Live(pending'[k], now') =>
                  /\ \A a, b \in DOMAIN pending'[k].parts :
                       pending'[k].parts[a].raw = pending'[k].parts[b].raw
                  /\ \A s \in Multi' : s.key = k =>
                       \A a \in DOMAIN pending'[k].parts :
                         pending'[k].parts[a].raw = s.raw
             /\ \A i, j \in DOMAIN group' : group'[i].raw = group'[j].raw
      BY <1>2, <1>4, <2>1, <2>2
    <2> QED BY <2>3, <2>4, <2>5 DEF OneUserPerId, Live
  <1>5. CASE ConvertSome
    <2>1. PICK total \in 1..MaxFragments : Convert(total)
      BY <1>5 DEF ConvertSome
    <2> DEFINE k0 == seq % SeqBase
    <2>2. k0 \in SeqId
      BY <1>3, SeqAssumption DEF SeqId
    <2> HIDE DEF k0
    <2>3. /\ link' = link \o ToSentences(total)
          /\ lastUse' = IF total > 1 THEN [lastUse EXCEPT ![k0] = now] ELSE lastUse
          /\ reused' = (reused \/ (total > 1 /\ now - lastUse[k0] <= Ttl))
          /\ UNCHANGED <<pending, group, now>>
      BY <2>1 DEF Convert, Send, k0
    <2>4. \A s \in Multi' : \/ s \in Multi
                            \/ total > 1 /\ s.key = k0 /\ s.raw = sent + 1
      BY <2>3, LinkExtended DEF k0
    <2>5. \A k \in SeqId : lastUse'[k] = IF total > 1 /\ k = k0 THEN now ELSE lastUse[k]
      BY <1>3, <2>2, <2>3
    <2>6. \A s \in Multi : s.key \in SeqId
      BY <1>3, ElementOfSeq DEF Multi, OnLink, Sentence
    <2>7. \A s \in Multi' : lastUse'[s.key] = now
      BY <1>2, <2>2, <2>4, <2>5, <2>6
    <2>8. \A k \in DOMAIN pending : pending[k].first_seen <= lastUse'[k]
      BY <1>2, <1>3, <2>5
    <2>9. ASSUME ~reused', total > 1
          PROVE  /\ \A s \in Multi : s.key # k0
                 /\ k0 \in DOMAIN pending => ~Live(pending[k0], now)
      <3>1. now - lastUse[k0] > Ttl /\ lastUse[k0] \in Int
        <4>1. ~(now - lastUse[k0] <= Ttl)
          BY <2>3, <2>9, Zenon
        <4>2. lastUse[k0] \in Int
          BY <1>3, <2>2
        <4> QED BY <1>3, <4>1, <4>2, TimeAssumption
      <3>2. \A s \in Multi : s.key # k0
        BY <1>2, <1>3, <3>1, TimeAssumption
      <3>3. ASSUME k0 \in DOMAIN pending PROVE ~Live(pending[k0], now)
        <4>1. pending[k0].first_seen <= lastUse[k0] /\ pending[k0].first_seen \in Nat
          BY <1>2, <1>3, <3>3
        <4> QED BY <1>3, <3>1, <4>1, TimeAssumption DEF Live
      <3> QED BY <3>2, <3>3
    <2>10. ASSUME ~reused', NEW s \in Multi', NEW t \in Multi', s.key = t.key
           PROVE  s.raw = t.raw
      BY <1>2, <2>3, <2>4, <2>9, <2>10
    <2>11. ASSUME ~reused', NEW k \in DOMAIN pending, Live(pending[k], now)
           PROVE  /\ \A a, b \in DOMAIN pending[k].parts :
                       pending[k].parts[a].raw = pending[k].parts[b].raw
                  /\ \A s \in Multi' : s.key = k =>
                       \A a \in DOMAIN pending[k].parts :
                         pending[k].parts[a].raw = s.raw
      <3>1. ~reused
        BY <2>3, <2>11
      <3>2. ASSUME NEW s \in Multi', s.key = k PROVE s \in Multi
        BY <2>4, <2>9, <2>11, <3>2
      <3> QED BY <1>2, <2>11, <3>1, <3>2
    <2>12. ~reused' => \A i, j \in DOMAIN group : group[i].raw = group[j].raw
      BY <1>2, <2>3
    <2> QED BY <2>3, <2>7, <2>8, <2>10, <2>11, <2>12 DEF OneUserPerId, Live
  <1>6. CASE Deliver
    <2> DEFINE h == Head(link)
    <2>1. /\ link # <<>> /\ A!Add(h) /\ link' = Tail(link)
          /\ UNCHANGED <<lastUse, reused>>
      BY <1>6 DEF Deliver, converter
    <2>2. h \in OnLink /\ h = link[1] /\ 1 \in 1..Len(link)
      BY <2>1, HeadOnLink
    <2>3. now' = now
      BY <2>1 DEF A!Add, A!AddSingle, A!AddIncomplete, A!AddCompleting
    <2>4. h.fragments > 1 => h \in Multi
      BY <2>2 DEF Multi
    <2> HIDE DEF h
    <2>5. Multi' \subseteq Multi
      BY <1>6, <2>1, LinkKept, HeadOnLink
      DEF ConvertSome, Convert, Send, ToSentences, Deliver, converter
    <2>6. CASE h.fragments = 1
      <3>1. pending' = pending /\ DOMAIN group' = {1}
        BY <2>1, <2>2, <2>6, AddEffect
      <3> QED BY <1>2, <2>1, <2>3, <2>5, <3>1 DEF OneUserPerId, Live
    <2>7. CASE h.fragments # 1
      <3>1. h.fragments > 1 /\ h \in Multi
        BY <2>1, <2>2, <2>4, <2>7, AddEffect
      <3>2. PICK p : /\ Joins(p, h)
                     /\ \/ group' = A!None /\ pending'[h.key] = p
                        \/ group' = p.parts /\ h.key \notin DOMAIN pending'
        BY <2>1, <2>2, <2>7, AddEffect
      <3>3. \A k \in DOMAIN pending' :
              k # h.key => k \in DOMAIN pending /\ pending'[k] = pending[k]
        BY <2>1, <2>2, <2>7, AddEffect
      <3>4. lastUse[h.key] = now
        BY <1>2, <3>1
      <3>5. p.first_seen <= now
        BY <1>3, <3>2 DEF Joins, Waiting
      <3>6. ~reused => \A a \in DOMAIN p.parts : p.parts[a].raw = h.raw
        BY <1>2, <3>1, <3>2 DEF Joins, Waiting
      <3>7. \A k \in DOMAIN pending' : pending'[k].first_seen <= lastUse'[k]
        BY <1>2, <2>1, <3>2, <3>3, <3>4, <3>5
      <3>8. ASSUME ~reused, NEW k \in DOMAIN pending', Live(pending'[k], now)
            PROVE  /\ \A a, b \in DOMAIN pending'[k].parts :
                        pending'[k].parts[a].raw = pending'[k].parts[b].raw
                   /\ \A s \in Multi' : s.key = k =>
                        \A a \in DOMAIN pending'[k].parts :
                          pending'[k].parts[a].raw = s.raw
        <4>1. CASE k = h.key
          <5>1. pending'[k] = p
            BY <3>2, <3>8, <4>1
          <5>2. \A s \in Multi' : s.key = k => s.raw = h.raw
            BY <1>2, <2>5, <3>1, <3>8, <4>1
          <5> QED BY <3>6, <3>8, <5>1, <5>2
        <4>2. CASE k # h.key
          BY <1>2, <2>5, <3>3, <3>8, <4>2
        <4> QED BY <4>1, <4>2
      <3>9. ~reused => \A i, j \in DOMAIN group' : group'[i].raw = group'[j].raw
        BY <3>2, <3>6, NoneTyped
      <3>10. ~reused => \A s, t \in Multi' : s.key = t.key => s.raw = t.raw
        BY <1>2, <2>5
      <3>11. lastUse' = lastUse /\ reused' = reused /\ now' = now
        BY <2>1, <2>3
      <3>12. \A s \in Multi' : lastUse[s.key] = now
        BY <1>2, <2>5
      <3> QED BY <1>2, <3>7, <3>8, <3>9, <3>10, <3>11, <3>12
              DEF OneUserPerId, Live
    <2> QED BY <2>6, <2>7
  <1>7. CASE Lose \/ Reconnect \/ UNCHANGED vars
    <2>1. ~ConvertSome
      <3>1. ConvertSome => sent' = sent + 1
        BY DEF ConvertSome, Convert, Send
      <3>2. sent' = sent /\ sent \in Nat
        BY <1>7 DEF Lose, Reconnect, vars, converter, LinkTyped
      <3> QED BY <3>1, <3>2
    <2>2. Multi' \subseteq Multi
      BY <2>1, LinkKept
    <2>3. /\ UNCHANGED <<lastUse, reused, now>> /\ pending' \in {pending, A!None}
          /\ group' \in {group, A!None}
      BY <1>7 DEF Lose, Reconnect, vars, converter
    <2>4. \A k \in SeqId : lastUse[k] <= lastUse'[k]
      BY <1>3, <2>3
    <2> QED BY <1>2, <1>3, <1>4, <2>2, <2>3, <2>4
  <1>8. CASE Tick
    <2>1. /\ UNCHANGED <<link, pending, group, reused>> /\ now' = now + 1
          /\ lastUse' = [k \in SeqId |-> IF OnTheWay(k) THEN now' ELSE lastUse[k]]
      BY <1>8 DEF Tick, A!Tick
    <2>2. Multi' = Multi
      BY <2>1 DEF Multi
    <2>3. /\ \A k \in SeqId : OnTheWay(k) <=> \E s \in Multi : s.key = k
          /\ \A s \in Multi : s.key \in SeqId
      <3>1. DOMAIN link = 1..Len(link) /\ \A i \in 1..Len(link) : link[i] \in OnLink
        BY <1>3, ElementOfSeq, LenProperties
      <3>2. \A i \in 1..Len(link) : link[i].key \in SeqId
        BY <3>1 DEF OnLink, Sentence
      <3> QED BY <3>1, <3>2 DEF OnTheWay, Multi
    <2>4. \A s \in Multi' : lastUse'[s.key] = now'
      BY <2>1, <2>2, <2>3
    <2>5. ASSUME NEW k \in SeqId PROVE lastUse[k] <= lastUse'[k]
      <3>1. CASE OnTheWay(k)
        <4>1. lastUse[k] = now /\ lastUse'[k] = now + 1
          BY <1>2, <2>1, <2>3, <3>1
        <4> QED BY <1>3, <4>1
      <3>2. CASE ~OnTheWay(k)
        BY <1>3, <2>1, <3>2
      <3> QED BY <3>1, <3>2
    <2>6. lastUse' \in [SeqId -> Int]
      BY DEF LinkTyped
    <2> QED BY <1>4, <2>1, <2>2, <2>4, <2>5, <2>6
  <1>9. CASE DeliverDatagram \/ DeliverNoise \/ DeliverOther
    BY <1>1, <1>9 DEF DeliverDatagram, DeliverNoise, DeliverOther
  <1> QED BY <1>5, <1>6, <1>7, <1>8, <1>9 DEF RNext

LEMMA EmptyGroups ==
  ASSUME NEW p \in Groups, DOMAIN p = {}
  PROVE  p = A!None
  BY DEF Groups, A!None

LEMMA NextFragment ==
  ASSUME NEW key, NEW raw, NEW total \in Nat, NEW f \in Nat, f < total
  PROVE  Follows([key |-> key, raw |-> raw, fragments |-> total, fragment |-> f],
                 [key |-> key, raw |-> raw, fragments |-> total, fragment |-> f + 1])
  BY DEF Follows

LEMMA ReliableKept ==
  ASSUME AssemblerInv, AssemblerInv', LinkTyped, LinkTyped', Reliable, [RNext]_vars
  PROVE  Reliable'
  <1> SUFFICES ASSUME regime' \in {"reliable", "single"} PROVE Reliable'
    BY DEF Reliable
  <1>1. regime \in {"reliable", "single"}
    BY LinkTypedKept
  <1>2. /\ \A i \in 1..Len(link) - 1 : Follows(link[i], link[i + 1])
        /\ link = <<>> => published = sent /\ pending = A!None
        /\ link # <<>> => /\ link[1].raw = published + 1 /\ Delivered(link[1])
                          /\ link[Len(link)].raw = sent
                          /\ link[Len(link)].fragment = link[Len(link)].fragments
        /\ \A i \in DOMAIN group : group[i].raw = published
    BY <1>1 DEF Reliable
  <1>3. /\ now \in Nat /\ seq \in Nat /\ sent \in Nat /\ published \in Nat
        /\ link \in Seq(OnLink) /\ Len(link) \in Nat /\ (link = <<>> <=> Len(link) = 0)
    BY DEF AssemblerInv, LinkTyped
  <1>4. CASE ConvertSome
    <2>1. PICK total \in 1..MaxFragments : Convert(total)
      BY <1>4 DEF ConvertSome
    <2>2. /\ link' = link \o ToSentences(total) /\ sent' = sent + 1
          /\ UNCHANGED <<published, pending, group, now>>
      BY <2>1 DEF Convert, Send
    <2> DEFINE n == Len(link)
    <2>3. /\ Len(link') = n + total /\ n \in Nat /\ total \in Nat /\ total >= 1
          /\ \A i \in 1..n : link'[i] = link[i]
          /\ \A f \in 1..total : link'[n + f] = ToSentences(total)[f]
      <3>1. total \in Nat /\ total >= 1
        BY FragmentsAssumption
      <3>2. /\ Len(link') = Len(link) + total /\ Len(link) \in Nat
            /\ \A i \in 1..Len(link) : link'[i] = link[i]
            /\ \A f \in 1..total : link'[Len(link) + f] = ToSentences(total)[f]
        BY <2>2, LinkExtended
      <3> QED BY <3>1, <3>2
    <2>4. \A f \in 1..total :
            link'[n + f] = [key |-> seq % SeqBase, raw |-> sent + 1,
                            fragments |-> total, fragment |-> f]
      BY <2>3, ToSentencesFacts
    <2>5. link' # <<>> /\ link' \in Seq(OnLink)
      BY <2>3 DEF LinkTyped
    <2> HIDE DEF n
    <2>6. ASSUME NEW i \in 1..Len(link') - 1 PROVE Follows(link'[i], link'[i + 1])
      <3>1. CASE i \in 1..n - 1
        <4>1. i \in 1..n /\ i + 1 \in 1..n /\ i \in 1..Len(link) - 1
          BY <2>3, <3>1 DEF n
        <4>2. link'[i] = link[i] /\ link'[i + 1] = link[i + 1]
          BY <2>3, <4>1, Zenon
        <4>3. Follows(link[i], link[i + 1])
          BY <1>2, <4>1, Zenon
        <4> QED BY <4>2, <4>3, Zenon
      <3>2. CASE i = n
        <4>1. /\ link'[i] = link[n] /\ link[n].fragment = link[n].fragments
              /\ link[n].raw = sent
          BY <1>2, <1>3, <2>3, <3>2 DEF n
        <4>2. link'[i + 1].raw = sent + 1 /\ link'[i + 1].fragment = 1
          <5>1. 1 \in 1..total
            BY <2>3
          <5>2. link'[n + 1] = [key |-> seq % SeqBase, raw |-> sent + 1,
                                fragments |-> total, fragment |-> 1]
            BY <2>4, <5>1
          <5> QED BY <3>2, <5>2
        <4> QED BY <4>1, <4>2 DEF Follows
      <3>3. CASE i \in n + 1..n + total - 1
        <4>1. PICK f \in 1..total - 1 : i = n + f
          BY <2>3, <3>3
        <4>2. /\ link'[i] = [key |-> seq % SeqBase, raw |-> sent + 1,
                             fragments |-> total, fragment |-> f]
              /\ link'[i + 1] = [key |-> seq % SeqBase, raw |-> sent + 1,
                                 fragments |-> total, fragment |-> f + 1]
          BY <2>3, <2>4, <4>1
        <4>3. f \in Nat /\ total \in Nat /\ f < total
          BY <2>3
        <4>4. Follows([key |-> seq % SeqBase, raw |-> sent + 1,
                       fragments |-> total, fragment |-> f],
                      [key |-> seq % SeqBase, raw |-> sent + 1,
                       fragments |-> total, fragment |-> f + 1])
          BY <4>3, NextFragment
        <4> QED BY <4>2, <4>4, Zenon
      <3> QED BY <2>3, <3>1, <3>2, <3>3
    <2>7. link'[Len(link')].raw = sent' /\ link'[Len(link')].fragment
                                             = link'[Len(link')].fragments
      <3>1. total \in 1..total
        BY <2>3
      <3>2. link'[n + total] = [key |-> seq % SeqBase, raw |-> sent + 1,
                                fragments |-> total, fragment |-> total]
        BY <2>4, <3>1
      <3> QED BY <2>2, <2>3, <3>2
    <2>8. link'[1].raw = published + 1 /\ Delivered(link'[1])
      <3>1. CASE link = <<>>
        <4>1. n = 0 /\ link'[1].raw = sent + 1 /\ link'[1].fragment = 1
          BY <1>3, <2>3, <2>4, <3>1 DEF n
        <4> QED BY <1>2, <3>1, <4>1 DEF Delivered
      <3>2. CASE link # <<>>
        <4>1. link'[1] = link[1]
          BY <1>3, <2>3, <3>2 DEF n
        <4> QED BY <1>2, <3>2, <4>1
      <3> QED BY <3>1, <3>2
    <2> QED BY <1>2, <2>2, <2>5, <2>6, <2>7, <2>8
            DEF Reliable, Delivered, Follows
  <1>5. CASE Deliver
    <2> DEFINE h == link[1]
    <2>1. /\ link # <<>> /\ A!Add(h) /\ link' = Tail(link) /\ h \in OnLink
          /\ sent' = sent
          /\ published' = IF group' = A!None THEN published ELSE published + 1
      BY <1>5, HeadOnLink DEF Deliver, converter
    <2>2. /\ Len(link) \in Nat \ {0} /\ Len(link') = Len(link) - 1
          /\ \A i \in 1..Len(link') : link'[i] = link[i + 1]
          /\ (link' = <<>> <=> Len(link') = 0)
      <3>1. /\ Len(link) \in Nat \ {0} /\ Len(Tail(link)) = Len(link) - 1
            /\ \A i \in 1..Len(link) - 1 : Tail(link)[i] = link[i + 1]
        BY <2>1, HeadOnLink
      <3>2. link' = <<>> <=> Len(link') = 0
        BY EmptySeq DEF LinkTyped
      <3> QED BY <2>1, <3>1, <3>2
    <2>3. now' = now
      BY <2>1 DEF A!Add, A!AddSingle, A!AddIncomplete, A!AddCompleting
    <2>4. h.raw = published + 1 /\ Delivered(h)
      BY <1>2, <2>1
    <2>5. /\ h.fragments \in Nat /\ h.fragment \in 1..h.fragments /\ h.raw \in Nat
      BY <2>1, FragmentsAssumption DEF OnLink, Sentence
    <2> HIDE DEF h
    <2>6. \A i \in 1..Len(link') - 1 : Follows(link'[i], link'[i + 1])
      BY <1>2, <2>2
    <2>7. link' # <<>> => /\ link'[Len(link')] = link[Len(link)]
                          /\ link'[1] = link[2] /\ Follows(h, link'[1])
      BY <1>2, <2>2 DEF h
    <2>8. link' = <<>> => h = link[Len(link)]
      <3>1. ASSUME link' = <<>> PROVE Len(link) = 1
        BY <2>2, <3>1
      <3> QED BY <3>1 DEF h
    <2>9. link' # <<>> => /\ link'[Len(link')].raw = sent
                          /\ link'[Len(link')].fragment = link'[Len(link')].fragments
      BY <1>2, <2>1, <2>7
    \* The last sentence of a message completes it, the others do not.
    <2>10. CASE h.fragment = h.fragments
      <3>1. /\ group' # A!None /\ pending' = A!None
            /\ \A i \in DOMAIN group' : group'[i].raw = h.raw
        <4>1. CASE h.fragments = 1
          <5>1. pending' = pending /\ DOMAIN group' = {1} /\ group'[1].raw = h.raw
            BY <2>1, <4>1, AddEffect
          <5>2. pending = A!None
            BY <2>4, <2>10, <4>1 DEF Delivered
          <5> QED BY <5>1, <5>2, NoneTyped
        <4>2. CASE h.fragments # 1
          <5>1. h.fragment # 1 /\ h.fragment - 1 \in Nat
            BY <2>5, <2>10, <4>2
          <5>2. /\ DOMAIN pending = {h.key} /\ pending[h.key].total = h.fragments
                /\ DOMAIN pending[h.key].parts = 1..h.fragment - 1
                /\ Live(pending[h.key], now)
                /\ \A i \in 1..h.fragment - 1 : pending[h.key].parts[i].raw = h.raw
            BY <2>4, <5>1 DEF Delivered
          <5>3. Waiting(h)
            BY <5>2 DEF Waiting
          <5>4. PICK p :
                  /\ Joins(p, h)
                  /\ \/ /\ group' = A!None /\ h.key \in DOMAIN pending'
                        /\ DOMAIN p.parts # 1..h.fragments
                     \/ /\ group' = p.parts /\ h.key \notin DOMAIN pending'
                        /\ DOMAIN p.parts = 1..h.fragments
            BY <2>1, <4>2, AddEffect
          <5>5. DOMAIN p.parts = 1..h.fragments
            <6>1. DOMAIN p.parts = 1..h.fragment - 1 \cup {h.fragment}
              BY <5>2, <5>3, <5>4 DEF Joins
            <6> QED BY <2>5, <2>10, <6>1
          <5>6. group' = p.parts /\ h.key \notin DOMAIN pending'
            BY <5>4, <5>5
          <5>7. \A k \in DOMAIN pending' : k # h.key => k \in DOMAIN pending
            BY <2>1, <4>2, AddEffect
          <5>8. DOMAIN pending' = {}
            BY <5>2, <5>6, <5>7
          <5>9. pending' = A!None
            BY <5>8, EmptyGroups DEF AssemblerInv
          <5>10. \A i \in DOMAIN p.parts : p.parts[i].raw = h.raw
            BY <5>2, <5>3, <5>4 DEF Joins
          <5>11. p.parts # A!None
            BY <2>5, <5>5, NoneTyped
          <5> QED BY <5>6, <5>9, <5>10, <5>11
        <4> QED BY <4>1, <4>2
      <3>2. published' = published + 1 /\ \A i \in DOMAIN group' : group'[i].raw = published'
        BY <2>1, <2>4, <3>1
      <3>3. link' = <<>> => published' = sent
        BY <1>2, <2>1, <2>4, <2>8, <3>2
      <3>4. ASSUME link' # <<>>
            PROVE  link'[1].raw = published' + 1 /\ link'[1].fragment = 1
        <4>1. link'[1].raw = h.raw + 1 /\ link'[1].fragment = 1
          <5>1. Follows(h, link'[1])
            BY <2>7, <3>4
          <5>2. ~(h.fragment < h.fragments)
            BY <2>5, <2>10
          <5> QED BY <5>1, <5>2 DEF Follows
        <4> QED BY <2>4, <3>2, <4>1
      <3> QED BY <2>1, <2>6, <2>9, <3>1, <3>2, <3>3, <3>4
              DEF Reliable, Delivered, Follows
    <2>11. CASE h.fragment # h.fragments
      <3> DEFINE g == link'[1]
      <3>1. h.fragments > 1 /\ h.fragment < h.fragments /\ h.fragments # 1
        BY <2>5, <2>11
      <3>2. link' # <<>>
        BY <1>2, <2>1, <2>8, <2>11
      <3>3. g = [h EXCEPT !.fragment = @ + 1]
        BY <2>7, <2>11, <3>2 DEF Follows
      <3>4. /\ g.key = h.key /\ g.raw = h.raw /\ g.fragments = h.fragments
            /\ g.fragment = h.fragment + 1
        BY <2>1, <3>3 DEF OnLink, Sentence
      <3> HIDE DEF g
      <3>5. PICK p :
              /\ Joins(p, h)
              /\ \/ /\ group' = A!None /\ h.key \in DOMAIN pending'
                    /\ pending'[h.key] = p
                    /\ DOMAIN p.parts # 1..h.fragments
                 \/ /\ group' = p.parts /\ h.key \notin DOMAIN pending'
                    /\ DOMAIN p.parts = 1..h.fragments
        BY <2>1, <3>1, AddEffect
      <3>6. \A k \in DOMAIN pending' : k # h.key => k \in DOMAIN pending
        BY <2>1, <3>1, AddEffect
      <3>7. /\ DOMAIN p.parts = 1..h.fragment /\ Live(p, now)
            /\ \A i \in 1..h.fragment : p.parts[i].raw = h.raw
            /\ DOMAIN pending \subseteq {h.key}
        <4>1. CASE h.fragment = 1
          <5>1. DOMAIN pending = {}
            BY <2>4, <4>1, NoneTyped DEF Delivered
          <5>2. ~Waiting(h)
            BY <5>1 DEF Waiting
          <5>3. Live(p, now)
            BY <1>3, <3>5, <5>2, TimeAssumption DEF Joins, Live
          <5> QED BY <3>5, <4>1, <5>1, <5>2, <5>3 DEF Joins
        <4>2. CASE h.fragment # 1
          <5>1. /\ DOMAIN pending = {h.key} /\ pending[h.key].total = h.fragments
                /\ DOMAIN pending[h.key].parts = 1..h.fragment - 1
                /\ Live(pending[h.key], now)
                /\ \A i \in 1..h.fragment - 1 : pending[h.key].parts[i].raw = h.raw
            BY <2>4, <4>2 DEF Delivered
          <5>2. Waiting(h)
            BY <5>1 DEF Waiting
          <5>3. DOMAIN p.parts = 1..h.fragment
            <6>1. DOMAIN p.parts = 1..h.fragment - 1 \cup {h.fragment}
              BY <3>5, <5>1, <5>2 DEF Joins
            <6> QED BY <2>5, <4>2, <6>1
          <5>4. Live(p, now)
            BY <3>5, <5>1, <5>2 DEF Joins, Live
          <5> QED BY <3>5, <5>1, <5>2, <5>3, <5>4 DEF Joins
        <4> QED BY <4>1, <4>2
      <3>8. h.fragments \notin 1..h.fragment /\ h.fragments \in 1..h.fragments
        BY <2>5, <3>1
      <3>9. /\ group' = A!None /\ h.key \in DOMAIN pending' /\ pending'[h.key] = p
        BY <3>5, <3>7, <3>8
      <3>10. DOMAIN pending' = {h.key}
        BY <3>6, <3>7, <3>9
      <3>11. published' = published /\ \A i \in DOMAIN group' : FALSE
        BY <2>1, <3>9, NoneTyped
      <3>12. /\ g.fragment # 1 /\ DOMAIN pending' = {g.key}
             /\ pending'[g.key].total = g.fragments
             /\ DOMAIN pending'[g.key].parts = 1..g.fragment - 1
             /\ Live(pending'[g.key], now')
             /\ \A i \in 1..g.fragment - 1 : pending'[g.key].parts[i].raw = g.raw
        <4>1. g.fragment - 1 = h.fragment /\ g.fragment # 1
          BY <2>5, <3>4
        <4>2. p.total = h.fragments
          BY <3>5 DEF Joins
        <4> QED BY <2>3, <3>4, <3>7, <3>9, <3>10, <4>1, <4>2
      <3>13. g.raw = published' + 1
        BY <2>4, <3>4, <3>11
      <3> QED BY <2>1, <2>6, <2>9, <3>2, <3>11, <3>12, <3>13
              DEF Reliable, Delivered, Follows, g
    <2> QED BY <2>10, <2>11
  <1>6. CASE Tick
    <2>1. /\ UNCHANGED <<link, published, sent, pending, group>>
          /\ now' = now + 1 /\ regime = "reliable"
          /\ \A k \in DOMAIN pending : now - pending[k].first_seen < Ttl
      BY <1>1, <1>6 DEF Tick, A!Tick
    <2>2. \A k \in DOMAIN pending : Live(pending[k], now + 1)
      <3>1. \A k \in DOMAIN pending : pending[k].first_seen \in Nat
        BY DEF AssemblerInv, Groups, Group
      <3> QED BY <1>3, <2>1, <3>1, TimeAssumption DEF Live
    <2>3. link # <<>> => Delivered(link[1])'
      <3>1. ASSUME link # <<>> PROVE Delivered(link[1])'
        <4>1. Delivered(link[1]) /\ link'[1] = link[1]
          BY <1>2, <2>1, <3>1
        <4>2. CASE link[1].fragment = 1
          BY <2>1, <4>1, <4>2 DEF Delivered
        <4>3. CASE link[1].fragment # 1
          BY <2>1, <2>2, <4>1, <4>3 DEF Delivered
        <4> QED BY <4>2, <4>3
      <3> QED BY <3>1
    <2> QED BY <1>2, <2>1, <2>3 DEF Reliable, Follows
  <1>7. CASE Lose \/ Reconnect \/ DeliverDatagram \/ DeliverNoise \/ DeliverOther
    BY <1>1, <1>7 DEF Lose, Reconnect, DeliverDatagram, DeliverNoise, DeliverOther, Lossy
  <1>8. CASE UNCHANGED vars
    BY <1>2, <1>8 DEF vars, converter, Reliable, Delivered, Follows
  <1> QED BY <1>4, <1>5, <1>6, <1>7, <1>8 DEF RNext

LEMMA InitRInv == Init => RInv
  <1> SUFFICES ASSUME Init PROVE RInv
    OBVIOUS
  <1>1. /\ pending = A!None /\ group = A!None /\ now = 0
        /\ kept = Unswept!None /\ keptGroup = Unswept!None
        /\ seq = 0 /\ sent = 0 /\ link = <<>> /\ published = 0
        /\ seen = 0 /\ lastSweep = 0 /\ reused = FALSE
        /\ regime \in Regimes /\ lastUse = [k \in SeqId |-> -Ttl - 1]
    BY DEF Init, A!Init, Unswept!Init
  <1>2. A!None = Unswept!None
    BY DEF A!None, Unswept!None
  <1>3. AssemblerInv
    <2>1. 0 \in 0..MaxFragments /\ 1..0 = {}
      BY FragmentsAssumption
    <2> QED BY <1>1, <2>1, NoneTyped
            DEF AssemblerInv, A!GroupHasNoHole, A!CompletedWithinTtl
  <1>4. LinkTyped
    <2>1. lastUse \in [SeqId -> Int]
      BY <1>1, TimeAssumption
    <2>2. regime \in {"reliable", "lossy", "udp", "single"}
      BY <1>1, RegimeAssumption
    <2>3. link \in Seq(OnLink)
      BY <1>1
    <2> QED BY <1>1, <2>1, <2>2, <2>3 DEF LinkTyped
  <1>5. Foreign /\ OneUserPerId /\ SweepUnseen
    BY <1>1, <1>2, NoneTyped
    DEF Foreign, OneUserPerId, SweepUnseen, SameLive, Multi
  <1>6. Reliable
    BY <1>1, NoneTyped DEF Reliable
  <1> QED BY <1>3, <1>4, <1>5, <1>6 DEF RInv

LEMMA RInvKept == ASSUME RInv, [RNext]_vars PROVE RInv'
  <1>1. AssemblerInv /\ LinkTyped /\ Foreign /\ OneUserPerId /\ Reliable /\ SweepUnseen
    BY DEF RInv
  <1>2. AssemblerInv' /\ LinkTyped'
    BY <1>1, AssemblerKept, LinkTypedKept
  <1>3. Foreign' /\ OneUserPerId'
    BY <1>1, <1>2, ForeignKept, OneUserPerIdKept
  <1>4. Reliable' /\ SweepUnseen'
    BY <1>1, <1>2, ReliableKept, SweepUnseenKept
  <1> QED BY <1>2, <1>3, <1>4 DEF RInv

LEMMA RInvMeans ==
  ASSUME RInv
  PROVE  CountersAgree /\ FragmentsWithinTtl /\ GroupsAreWhole /\ NothingLost
  <1>1. CountersAgree
    <2>1. \A T : A!Cardinality(T) = Cardinality(T)
      BY DEF A!Cardinality, Cardinality
    <2> QED BY <2>1 DEF RInv, AssemblerInv, Counted, CountersAgree, A!HaveCountsSlots
  <1>2. FragmentsWithinTtl
    BY DEF RInv, AssemblerInv, InTime, FragmentsWithinTtl, A!PartsWithinTtl
  <1>3. GroupsAreWhole
    BY DEF RInv, Foreign, OneUserPerId, GroupsAreWhole
  <1>4. NothingLost
    BY DEF RInv, Reliable, SweepUnseen, NothingLost
  <1> QED BY <1>1, <1>2, <1>3, <1>4

-----------------------------------------------------------------------------
\* The theorems of Reassembly.

\* The invariant holds in every reachable state, whatever fragments are lost,
\* late or in another order.
THEOREM ReassemblyInvariance == Spec => []RInv
  <1>1. [Next]_vars => [RNext]_vars
    BY DEF Next, RNext, ConvertAny, ConvertSome
  <1>2. RInv /\ [Next]_vars => RInv'
    BY <1>1, RInvKept
  <1> QED BY <1>2, InitRInv, PTL DEF Spec

\* A group is complete exactly when no slot is empty: have, which decides, is
\* the number of slots filled (assembler.rs, have < total).
THEOREM GroupsCompleteWhenWhole == Spec => []CountersAgree
  BY RInvMeans, ReassemblyInvariance, PTL

\* Fragments that came more than ttl apart are never joined (assembler.rs,
\* "Incomplete groups older than ttl are discarded").
THEOREM OldFragmentsAreNotJoined == Spec => []FragmentsWithinTtl
  BY RInvMeans, ReassemblyInvariance, PTL

\* A published group is of one message, whatever was lost and however long the
\* rest waited on the way, unless a sequence id was given to another message
\* before ttl had passed since its last sentence left the link (encode.rs,
\* seq % 10).
THEOREM GroupsAreOfOneMessage == Spec => []GroupsAreWhole
  BY RInvMeans, ReassemblyInvariance, PTL

\* A link that loses nothing and does not stall for ttl in the middle of a
\* message has every message published, once and in order;
\* and the sweep of the table (udp_listener, retain) is not seen from outside.
THEOREM EveryMessageArrives == Spec => []NothingLost
  BY RInvMeans, ReassemblyInvariance, PTL

-----------------------------------------------------------------------------
(***************************************************************************)
(* Numbers.  The functions that Codec defines by recursion are reached     *)
(* through induction over a set: its least element that has not the        *)
(* property would have a predecessor that has.                             *)
(***************************************************************************)
\* A set of numbers that has any has a least one.
LEMMA LeastNatural ==
  ASSUME NEW T, T \subseteq Nat, T # {}
  PROVE  \E m \in T : \A k \in T : m <= k
  <1>1. \E m \in T : \A k \in T : ~(<<k, m>> \in OpToRel(<, Nat))
    BY NatLessThanWellFounded, WFMin
  <1>2. \A k, m \in Nat : k < m => <<k, m>> \in OpToRel(<, Nat)
    BY Zenon DEF OpToRel
  <1>3. PICK m \in T : \A k \in T : ~(k < m)
    BY <1>1, <1>2, Zenon
  <1> QED BY <1>3

\* Induction over 0..n, for a set of the numbers that have the property.
LEMMA Induction ==
  ASSUME NEW n \in Nat, NEW T, 0 \in T,
         \A i \in 1..n : i - 1 \in T => i \in T
  PROVE  \A i \in 0..n : i \in T
  <1> SUFFICES ASSUME NEW i \in 0..n, i \notin T PROVE FALSE
    OBVIOUS
  <1> DEFINE Without == {k \in 0..n : k \notin T}
  <1>1. PICK m \in Without : \A k \in Without : m <= k
    <2>1. Without \subseteq Nat /\ Without # {}
      OBVIOUS
    <2> QED BY <2>1, LeastNatural
  <1>2. m \in 1..n /\ m - 1 \in 0..n /\ m \notin T
    BY <1>1
  <1>3. m - 1 \in T
    BY <1>1, <1>2
  <1> QED BY <1>2, <1>3

\* Kept folded where the provers instantiate the lemma.
Steps(n, X) == [1..n -> [X -> X]]
Runs(n, X, x0, step) ==
  {f \in [0..n -> X] : f[0] = x0 /\ \A i \in 1..n : f[i] = step[i][f[i - 1]]}

\* A function that recurs over 1..n exists, so that a CHOOSE of one is one.
LEMMA RunsExist ==
  ASSUME NEW n \in Nat, NEW X, NEW x0 \in X, NEW step \in Steps(n, X)
  PROVE  \E f : f \in Runs(n, X, x0, step)
  <1> DEFINE T == {m \in 0..n : \E f : f \in Runs(m, X, x0, step)}
  <1>1. 0 \in T
    <2> DEFINE f == [i \in 0..0 |-> x0]
    <2>1. f \in Runs(0, X, x0, step)
      BY DEF Runs
    <2> HIDE DEF f
    <2> QED BY <2>1
  <1>2. ASSUME NEW m \in 1..n, m - 1 \in T PROVE m \in T
    <2>1. PICK f : f \in Runs(m - 1, X, x0, step)
      BY <1>2
    <2> DEFINE g == [i \in 0..m |-> IF i = m THEN step[m][f[m - 1]] ELSE f[i]]
    <2>2. /\ f \in [0..(m - 1) -> X] /\ f[0] = x0
          /\ \A i \in 1..(m - 1) : f[i] = step[i][f[i - 1]]
      BY <2>1 DEF Runs
    <2>3. step[m] \in [X -> X] /\ f[m - 1] \in X
      BY <2>2 DEF Steps
    <2>4. g \in [0..m -> X] /\ g[0] = x0
      BY <2>2, <2>3
    <2>5. \A i \in 1..m : g[i] = step[i][g[i - 1]]
      BY <2>2
    <2>6. g \in Runs(m, X, x0, step)
      BY <2>4, <2>5 DEF Runs
    <2> HIDE DEF g
    <2> QED BY <2>6
  <1> HIDE DEF T
  <1>3. n \in T
    BY <1>1, <1>2, Induction
  <1> QED BY <1>3 DEF T

LEMMA RunsFacts ==
  ASSUME NEW n \in Nat, NEW X, NEW x0, NEW step, NEW f \in Runs(n, X, x0, step)
  PROVE  /\ f \in [0..n -> X] /\ f[0] = x0
         /\ \A i \in 1..n : f[i - 1] \in X /\ f[i] = step[i][f[i - 1]]
  BY DEF Runs

-----------------------------------------------------------------------------
Positive == Nat \ {0}
Doubles(f) == f = [n \in 0..30 |-> IF n = 0 THEN 1 ELSE 2 * f[n - 1]]
\* The powers of two that Codec defines by recursion.
LEMMA TwoToTyped ==
  /\ TwoTo \in [0..30 -> Positive] /\ TwoTo[0] = 1
  /\ \A n \in 1..30 : TwoTo[n] = 2 * TwoTo[n - 1]
  <1> DEFINE n == 30
             N == Positive
             step == [i \in 1..n |-> [x \in N |-> 2 * x]]
  <1>1. n \in Nat /\ 1 \in N /\ step \in Steps(n, N)
    BY DEF Steps, Positive
  <1>2. PICK f : f \in Runs(n, N, 1, step)
    <2> HIDE DEF step, N, n
    <2> QED BY <1>1, RunsExist
  <1>3. /\ f \in [0..n -> N] /\ f[0] = 1
        /\ \A i \in 1..n : f[i - 1] \in N /\ f[i] = step[i][f[i - 1]]
    <2> HIDE DEF step, N, n
    <2> QED BY <1>1, <1>2, RunsFacts
  <1>4. \A i \in 1..30 : f[i] = 2 * f[i - 1]
    BY <1>3
  <1>5. Doubles(f)
    BY <1>3, <1>4 DEF Doubles
  <1>6. Doubles(TwoTo)
    BY <1>5 DEF TwoTo, Doubles
  <1> HIDE DEF step, N
  <1>7. /\ TwoTo[0] = 1 /\ DOMAIN TwoTo = 0..30
        /\ \A i \in 1..30 : TwoTo[i] = 2 * TwoTo[i - 1]
    BY <1>6 DEF Doubles
  <1> DEFINE T == {i \in 0..30 : TwoTo[i] \in Positive}
  <1>8. \A i \in 0..30 : i \in T
    <2>1. 0 \in T /\ \A i \in 1..30 : i - 1 \in T => i \in T
      BY <1>7 DEF Positive
    <2> HIDE DEF T
    <2> QED BY <2>1, Induction
  <1> QED BY <1>6, <1>7, <1>8 DEF Doubles

\* Quotient and remainder are what they are.
LEMMA DivMod ==
  ASSUME NEW v \in Int, NEW m \in Positive
  PROVE  /\ v \div m \in Int /\ v % m \in 0..m - 1
         /\ v = m * (v \div m) + (v % m)
  BY DEF Positive

\* ... and nothing else is.
LEMMA DivUnique ==
  ASSUME NEW q \in Int, NEW m \in Positive, NEW r \in 0..m - 1
  PROVE  (m * q + r) \div m = q /\ (m * q + r) % m = r
  <1> DEFINE v == m * q + r
             p == v \div m
             s == v % m
  <1>1. m \in Nat /\ m > 0 /\ r \in Int /\ v \in Int
    BY DEF Positive
  <1>2. p \in Int /\ s \in 0..m - 1 /\ v = m * p + s
    BY <1>1, DivMod
  <1>3. m * (p - q) = r - s
    <2> HIDE DEF p, s
    <2> QED BY <1>1, <1>2
  <1>4. p = q
    <2> HIDE DEF p, s
    <2>1. ~(p - q >= 1)
      <3> SUFFICES ASSUME p - q >= 1 PROVE FALSE
        OBVIOUS
      <3>1. m * (p - q) >= m
        BY <1>1, <1>2
      <3> QED BY <1>1, <1>2, <1>3, <3>1
    <2>2. ~(q - p >= 1)
      <3> SUFFICES ASSUME q - p >= 1 PROVE FALSE
        OBVIOUS
      <3>1. m * (q - p) >= m
        BY <1>1, <1>2
      <3>2. m * (q - p) = s - r
        BY <1>1, <1>2, <1>3
      <3> QED BY <1>1, <1>2, <3>1, <3>2
    <2> QED BY <1>2, <2>1, <2>2
  <1>5. s = r
    <2> HIDE DEF p, s
    <2> QED BY <1>1, <1>2, <1>3, <1>4
  <1> QED BY <1>4, <1>5

\* Dividing twice is dividing by the product.
LEMMA DivTwice ==
  ASSUME NEW v \in Int, NEW m \in Positive
  PROVE  (v \div m) \div 2 = v \div (2 * m)
  <1> DEFINE q == v \div m
             r == v % m
             q2 == q \div 2
             r2 == q % 2
  <1>1. m \in Nat /\ m > 0 /\ 2 * m \in Positive
    BY DEF Positive
  <1>2. q \in Int /\ r \in 0..m - 1 /\ v = m * q + r
    BY DivMod, Zenon
  <1>3. q2 \in Int /\ r2 \in 0..1 /\ q = 2 * q2 + r2
    BY <1>2
  <1> HIDE DEF q, r, q2, r2
  <1>4. v = (2 * m) * q2 + (m * r2 + r)
    BY <1>1, <1>2, <1>3
  <1>5. m * r2 + r \in 0..(2 * m) - 1
    <2>1. CASE r2 = 0
      BY <1>1, <1>2, <2>1
    <2>2. CASE r2 = 1
      BY <1>1, <1>2, <2>2
    <2> QED BY <1>3, <2>1, <2>2
  <1>6. v \div (2 * m) = q2
    BY <1>1, <1>3, <1>4, <1>5, DivUnique
  <1> QED BY <1>6 DEF q, q2

-----------------------------------------------------------------------------
(***************************************************************************)
(* Bits.  A number that is pushed is read back, but for what its width     *)
(* cuts off.                                                               *)
(***************************************************************************)
Bit == {0, 1}

\* Halving twice and taking the rest.
LEMMA ModTwice ==
  ASSUME NEW q \in Int, NEW m \in Positive
  PROVE  q % (2 * m) = 2 * ((q \div 2) % m) + (q % 2)
  <1> DEFINE h == q \div 2
             b == q % 2
             k == h \div m
             r == h % m
  <1>1. m \in Nat /\ m > 0 /\ 2 * m \in Positive /\ 2 \in Positive
    BY DEF Positive
  <1>2. h \in Int /\ b \in 0..1 /\ q = 2 * h + b
    BY <1>1
  <1>3. k \in Int /\ r \in 0..m - 1 /\ h = m * k + r
    <2> HIDE DEF h
    <2> QED BY <1>1, <1>2, DivMod, Zenon
  <1> HIDE DEF h, b, k, r
  <1>4. q = (2 * m) * k + (2 * r + b)
    BY <1>1, <1>2, <1>3
  <1>5. 2 * r + b \in 0..(2 * m) - 1
    BY <1>1, <1>2, <1>3
  <1>6. q % (2 * m) = 2 * r + b
    BY <1>1, <1>3, <1>4, <1>5, DivUnique
  <1> QED BY <1>6 DEF h, b, r

\* Kept folded: thirty-one cases are too many.
Width == 0..30
LEMMA WidthFacts == \A w : w \in Width <=> w \in Nat /\ w <= 30
  BY DEF Width

\* What the powers of two are, for a prover that multiplies.
LEMMA TwoToFacts ==
  ASSUME NEW n \in Width
  PROVE  /\ TwoTo[n] \in Positive /\ TwoTo[n] \in Nat /\ TwoTo[n] > 0
         /\ n > 0 => n - 1 \in Width /\ TwoTo[n] = 2 * TwoTo[n - 1]
  <1>1. TwoTo[n] \in Positive /\ TwoTo[n] \in Nat /\ TwoTo[n] > 0
    BY TwoToTyped DEF Positive, Width
  <1>2. ASSUME n > 0 PROVE n - 1 \in Width /\ TwoTo[n] = 2 * TwoTo[n - 1]
    BY <1>2, TwoToTyped DEF Width
  <1> QED BY <1>1, <1>2

LEMMA TwoToZero == TwoTo[0] = 1
  BY TwoToTyped

\* A number is twice its half and the bit that is left.
LEMMA HalfAndRest ==
  ASSUME NEW a \in Int, NEW b \in 0..1
  PROVE  (2 * a + b) \div 2 = a /\ (2 * a + b) % 2 = b
  OBVIOUS

\* push_uint appends as many bits as it is told.
LEMMA PushUintTyped ==
  ASSUME NEW v \in Int, NEW w \in Width
  PROVE  /\ PushUint(v, w) \in Seq(Bit) /\ Len(PushUint(v, w)) = w
         /\ PushUint(v, w) \in [1..w -> Bit]
         /\ \A i \in 1..w : PushUint(v, w)[i] = (v \div TwoTo[w - i]) % 2
  <1>0. w \in Nat /\ \A i \in 0..w : w - i \in Width
    BY WidthFacts
  <1>1. \A i \in 1..w : (v \div TwoTo[w - i]) % 2 \in Bit
    <2> SUFFICES ASSUME NEW i \in 1..w PROVE (v \div TwoTo[w - i]) % 2 \in Bit
      OBVIOUS
    <2>1. w - i \in Width
      BY <1>0
    <2>2. TwoTo[w - i] \in Positive
      BY <2>1, TwoToFacts
    <2>3. v \div TwoTo[w - i] \in Int
      BY <2>2, DivMod
    <2> QED BY <2>3 DEF Bit
  <1> QED BY <1>0, <1>1 DEF PushUint

\* Kept folded: the numbers on the way to Number(bits).
Sums(bits) ==
  {f \in [0..Len(bits) -> Nat] :
     f[0] = 0 /\ \A i \in 1..Len(bits) : f[i] = 2 * f[i - 1] + bits[i]}

SumsTo(bits, f) ==
  f = [i \in 0..Len(bits) |-> IF i = 0 THEN 0 ELSE 2 * f[i - 1] + bits[i]]

\* Number counts up from the first bit.
LEMMA NumberIsSum ==
  ASSUME NEW bits \in Seq(Bit)
  PROVE  \E f \in Sums(bits) : Number(bits) = f[Len(bits)]
  <1> DEFINE n == Len(bits)
             N == Nat
             step == [i \in 1..n |-> [x \in N |-> 2 * x + bits[i]]]
             up == CHOOSE f : SumsTo(bits, f)
  <1>1. n \in Nat /\ 0 \in N /\ \A i \in 1..n : bits[i] \in Bit
    OBVIOUS
  <1>2. step \in Steps(n, N)
    BY <1>1 DEF Steps, Bit
  <1>3. PICK f : f \in Runs(n, N, 0, step)
    <2> HIDE DEF step, N, n
    <2> QED BY <1>1, <1>2, RunsExist
  <1>4. /\ f \in [0..n -> N] /\ f[0] = 0
        /\ \A i \in 1..n : f[i - 1] \in N /\ f[i] = step[i][f[i - 1]]
    <2> HIDE DEF step, N, n
    <2> QED BY <1>1, <1>3, RunsFacts
  <1>5. \A i \in 1..n : f[i] = 2 * f[i - 1] + bits[i]
    BY <1>4
  <1>6. SumsTo(bits, f)
    BY <1>1, <1>4, <1>5 DEF SumsTo
  <1>7. SumsTo(bits, up)
    BY <1>6
  <1>8. Number(bits) = up[Len(bits)]
    BY Zenon DEF Number, SumsTo
  <1> HIDE DEF up, step, N
  <1>9. /\ DOMAIN up = 0..n /\ up[0] = 0
        /\ \A i \in 1..n : up[i] = 2 * up[i - 1] + bits[i]
        /\ up = [i \in 0..n |-> up[i]]
    BY <1>1, <1>7 DEF SumsTo
  <1> DEFINE T == {i \in 0..n : up[i] \in Nat}
  <1>10. \A i \in 0..n : i \in T
    <2>1. 0 \in T /\ \A i \in 1..n : i - 1 \in T => i \in T
      BY <1>1, <1>9 DEF Bit
    <2> HIDE DEF T, n
    <2> QED BY <1>1, <2>1, Induction
  <1>11. up \in Sums(bits)
    BY <1>9, <1>10 DEF Sums
  <1> QED BY <1>8, <1>11

\* The numbers on the way are numbers.
LEMMA SumsFacts ==
  ASSUME NEW bits \in Seq(Bit), NEW f \in Sums(bits)
  PROVE  /\ f \in [0..Len(bits) -> Nat] /\ f[0] = 0
         /\ \A i \in 1..Len(bits) :
              /\ f[i - 1] \in Nat /\ f[i] \in Nat /\ bits[i] \in Bit
              /\ f[i] = 2 * f[i - 1] + bits[i]
  <1> DEFINE n == Len(bits)
  <1>1. n \in Nat /\ \A i \in 1..n : bits[i] \in Bit
    OBVIOUS
  <1>2. /\ f \in [0..n -> Nat] /\ f[0] = 0
        /\ \A i \in 1..n : f[i] = 2 * f[i - 1] + bits[i]
    BY Zenon DEF Sums
  <1> HIDE DEF n
  <1>3. \A i \in 1..n : f[i] \in Nat /\ f[i - 1] \in Nat
    <2> SUFFICES ASSUME NEW i \in 1..n PROVE f[i] \in Nat /\ f[i - 1] \in Nat
      OBVIOUS
    <2>1. i \in 0..n /\ i - 1 \in 0..n
      BY <1>1
    <2> QED BY <1>2, <2>1
  <1> QED BY <1>1, <1>2, <1>3 DEF n

\* A number of w bits is what they say of v: its remainder.
LEMMA NumberOfPushed ==
  ASSUME NEW v \in Int, NEW w \in Width
  PROVE  Number(PushUint(v, w)) = v % TwoTo[w]
  <1> DEFINE bits == PushUint(v, w)
             q(i) == v \div TwoTo[w - i]
  <1>1. /\ bits \in Seq(Bit) /\ Len(bits) = w /\ w \in Nat
        /\ \A i \in 1..w : bits[i] = q(i) % 2
    BY PushUintTyped, WidthFacts
  <1>2. PICK f \in Sums(bits) : Number(bits) = f[Len(bits)]
    BY <1>1, NumberIsSum
  <1>3. /\ f[0] = 0
        /\ \A i \in 1..w : f[i] = 2 * f[i - 1] + bits[i]
    <2> HIDE DEF bits
    <2> QED BY <1>1, SumsFacts
  <1>4. \A i \in 0..w : w - i \in Width /\ i \in Width /\ q(i) \in Int
    BY WidthFacts, TwoToFacts, DivMod
  <1>5. \A i \in 1..w : q(i) \div 2 = q(i - 1)
    <2> SUFFICES ASSUME NEW i \in 1..w PROVE q(i) \div 2 = q(i - 1)
      OBVIOUS
    <2>1. w - i \in Width /\ w - (i - 1) \in Width /\ w - (i - 1) > 0
          /\ (w - (i - 1)) - 1 = w - i
      BY WidthFacts
    <2>2. TwoTo[w - i] \in Positive /\ TwoTo[w - (i - 1)] = 2 * TwoTo[w - i]
      BY <2>1, TwoToFacts
    <2> QED BY <2>2, DivTwice
  <1> DEFINE T == {i \in 0..w : f[i] = q(i) % TwoTo[i]}
  <1>6. 0 \in T
    <2>1. q(0) % TwoTo[0] = 0
      <3>1. 0 \in 0..w /\ q(0) \in Int
        BY <1>1, <1>4
      <3> HIDE DEF q
      <3> QED BY <3>1, TwoToZero
    <2>2. 0 \in 0..w
      BY <1>1
    <2> HIDE DEF q
    <2> QED BY <1>3, <2>1, <2>2
  <1>7. ASSUME NEW i \in 1..w, i - 1 \in T PROVE i \in T
    <2>1. f[i] = 2 * (q(i - 1) % TwoTo[i - 1]) + (q(i) % 2)
      BY <1>1, <1>3, <1>7
    <2>2. q(i) \in Int /\ i - 1 \in Width /\ i \in Width /\ i > 0 /\ i \in 0..w
      BY <1>4, WidthFacts
    <2>3. TwoTo[i] = 2 * TwoTo[i - 1] /\ TwoTo[i - 1] \in Positive
      BY <2>2, TwoToFacts
    <2>4. q(i) \div 2 = q(i - 1)
      BY <1>5
    <2> HIDE DEF q
    <2>5. q(i) % (2 * TwoTo[i - 1]) = 2 * ((q(i) \div 2) % TwoTo[i - 1]) + (q(i) % 2)
      BY <2>2, <2>3, ModTwice
    <2>6. f[i] = q(i) % TwoTo[i]
      BY <2>1, <2>3, <2>4, <2>5
    <2> QED BY <2>2, <2>6
  <1>8. \A i \in 0..w : i \in T
    <2> HIDE DEF T
    <2> QED BY <1>1, <1>6, <1>7, Induction
  <1>9. f[w] = q(w) % TwoTo[w]
    BY <1>1, <1>8
  <1>10. q(w) = v
    <2>1. w - w = 0 /\ w \in Int
      BY WidthFacts
    <2> QED BY <2>1, TwoToZero
  <1> QED BY <1>1, <1>2, <1>9, <1>10

\* Bits are what their number says.
LEMMA PushedNumber ==
  ASSUME NEW bits \in Seq(Bit), Len(bits) \in Width
  PROVE  /\ Number(bits) \in Nat /\ Number(bits) < TwoTo[Len(bits)]
         /\ PushUint(Number(bits), Len(bits)) = bits
  <1> DEFINE w == Len(bits)
             v == Number(bits)
  <1>1. PICK f \in Sums(bits) : v = f[w]
    BY NumberIsSum
  <1>2. /\ f \in [0..w -> Nat] /\ f[0] = 0
        /\ \A i \in 1..w :
              /\ f[i - 1] \in Nat /\ f[i] \in Nat /\ bits[i] \in Bit
              /\ f[i] = 2 * f[i - 1] + bits[i]
    BY SumsFacts
  <1>3. w \in Width /\ w \in Nat /\ v \in Nat /\ bits = [i \in 1..w |-> bits[i]]
    BY <1>1, <1>2, WidthFacts
  <1>4. \A i \in 1..w : f[i] \div 2 = f[i - 1] /\ f[i] % 2 = bits[i]
    <2> SUFFICES ASSUME NEW i \in 1..w
                 PROVE  f[i] \div 2 = f[i - 1] /\ f[i] % 2 = bits[i]
      OBVIOUS
    <2>1. f[i - 1] \in Nat /\ bits[i] \in 0..1 /\ f[i] = 2 * f[i - 1] + bits[i]
      BY <1>2 DEF Bit
    <2>2. /\ (2 * f[i - 1] + bits[i]) \div 2 = f[i - 1]
          /\ (2 * f[i - 1] + bits[i]) % 2 = bits[i]
      <3>1. f[i - 1] \in Int
        BY <2>1
      <3> QED BY <2>1, <3>1, HalfAndRest, Zenon
    <2>3. f[i] \div 2 = (2 * f[i - 1] + bits[i]) \div 2
      BY <2>1, Zenon
    <2>4. f[i] % 2 = (2 * f[i - 1] + bits[i]) % 2
      BY <2>1, Zenon
    <2> QED BY <2>2, <2>3, <2>4, Zenon
  <1> HIDE DEF w, v
  <1> DEFINE T == {j \in 0..w : f[w - j] = v \div TwoTo[j]}
             B == {i \in 0..w : f[i] < TwoTo[i]}
  <1>5. 0 \in T
    <2>1. w - 0 = w /\ 0 \in 0..w /\ v \div TwoTo[0] = v
      BY <1>3, TwoToZero
    <2> QED BY <1>1, <2>1
  <1>6. ASSUME NEW j \in 1..w, j - 1 \in T PROVE j \in T
    <2>1. f[w - (j - 1)] = v \div TwoTo[j - 1]
      BY <1>6
    <2>2. f[w - (j - 1)] \div 2 = f[w - j]
      <3>1. w - (j - 1) \in 1..w /\ (w - (j - 1)) - 1 = w - j
        BY <1>3
      <3> QED BY <1>4, <3>1
    <2>3. j \in Width /\ j > 0 /\ j - 1 \in Width
      BY <1>3, WidthFacts
    <2>4. TwoTo[j - 1] \in Positive /\ TwoTo[j] = 2 * TwoTo[j - 1]
      BY <2>3, TwoToFacts
    <2>5. (v \div TwoTo[j - 1]) \div 2 = v \div (2 * TwoTo[j - 1])
      BY <1>3, <2>4, DivTwice
    <2> QED BY <1>3, <2>1, <2>2, <2>4, <2>5
  <1>7. \A j \in 0..w : j \in T
    <2> HIDE DEF T
    <2> QED BY <1>3, <1>5, <1>6, Induction
  <1>8. 0 \in B
    BY <1>2, <1>3, TwoToTyped
  <1>9. ASSUME NEW j \in 1..w, j - 1 \in B PROVE j \in B
    <2>1. f[j - 1] < TwoTo[j - 1] /\ f[j - 1] \in Nat /\ bits[j] \in 0..1
          /\ f[j] = 2 * f[j - 1] + bits[j]
      BY <1>2, <1>9 DEF Bit
    <2>2. j \in Width /\ j > 0 /\ j - 1 \in Width
      BY <1>3, WidthFacts
    <2>3. TwoTo[j - 1] \in Nat /\ TwoTo[j] = 2 * TwoTo[j - 1]
      BY <2>2, TwoToFacts
    <2> QED BY <2>1, <2>3
  <1>10. \A j \in 0..w : j \in B
    <2> HIDE DEF B
    <2> QED BY <1>3, <1>8, <1>9, Induction
  <1>11. v < TwoTo[w]
    BY <1>1, <1>3, <1>10
  <1>12. \A i \in 1..w : (v \div TwoTo[w - i]) % 2 = bits[i]
    <2> SUFFICES ASSUME NEW i \in 1..w PROVE (v \div TwoTo[w - i]) % 2 = bits[i]
      OBVIOUS
    <2>1. w - i \in 0..w /\ w - (w - i) = i
      BY <1>3
    <2>2. f[i] = v \div TwoTo[w - i]
      BY <1>7, <2>1
    <2> QED BY <1>4, <2>2
  <1>13. PushUint(v, w) = bits
    BY <1>3, <1>12, PushUintTyped
  <1> QED BY <1>3, <1>11, <1>13 DEF v, w

-----------------------------------------------------------------------------
(***************************************************************************)
(* Sequences joined.                                                       *)
(***************************************************************************)
\* Where each of a sequence of sequences ends when they are joined.
Ends(seqs, ends) ==
  /\ ends \in [0..Len(seqs) -> Nat] /\ ends[0] = 0
  /\ \A i \in 1..Len(seqs) : ends[i] = ends[i - 1] + Len(seqs[i])

\* Two sequences joined.
LEMMA ConcatFacts ==
  ASSUME NEW X, NEW s \in Seq(X), NEW t \in Seq(X)
  PROVE  /\ s \o t \in Seq(X) /\ Len(s \o t) = Len(s) + Len(t)
         /\ \A x \in 1..Len(s) + Len(t) :
              (s \o t)[x] = IF x <= Len(s) THEN s[x] ELSE t[x - Len(s)]
  OBVIOUS

\* Places in a piece and before it.
LEMMA Beyond ==
  ASSUME NEW a \in Nat, NEW l \in Nat, NEW j \in Nat, j > 0, j <= l
  PROVE  a + j \in 1..(a + l) /\ ~(a + j <= a) /\ (a + j) - a = j
  OBVIOUS

LEMMA Between ==
  ASSUME NEW a \in Nat, NEW b \in Nat, NEW c \in Nat, NEW d \in Nat, NEW l \in Nat,
         NEW j \in 1..l, b = a + l, b <= c, c <= d
  PROVE  a + j \in 1..d /\ a + j <= c
  OBVIOUS

\* The sequences on the way to a joined one.
FlattensTo(seqs, f) ==
  f = [i \in 1..Len(seqs) |-> IF i = 1 THEN seqs[i] ELSE f[i - 1] \o seqs[i]]

\* Joining sequences is appending one after the other.
LEMMA FlattenSteps ==
  ASSUME NEW X, NEW seqs \in Seq(Seq(X)), Len(seqs) > 0
  PROVE  \E f \in [1..Len(seqs) -> Seq(X)] :
           /\ FlattenSeq(seqs) = f[Len(seqs)]
           /\ f[1] = seqs[1]
           /\ \A i \in 2..Len(seqs) : f[i] = f[i - 1] \o seqs[i]
  <1> DEFINE n == Len(seqs)
             Y == Seq(X)
             step == [i \in 1..n |-> [x \in Y |-> IF i = 1 THEN seqs[1] ELSE x \o seqs[i]]]
             g == CHOOSE f : FlattensTo(seqs, f)
  <1>1. n \in Nat /\ n > 0 /\ <<>> \in Y /\ \A i \in 1..n : seqs[i] \in Y
    OBVIOUS
  <1>2. step \in Steps(n, Y)
    <2>1. \A i \in 1..n : [x \in Y |-> IF i = 1 THEN seqs[1] ELSE x \o seqs[i]]
                            \in [Y -> Y]
      BY <1>1
    <2> QED BY <2>1 DEF Steps
  <1>3. PICK h : h \in Runs(n, Y, <<>>, step)
    <2> HIDE DEF step, Y, n
    <2> QED BY <1>1, <1>2, RunsExist
  <1>4. /\ h \in [0..n -> Y]
        /\ \A i \in 1..n : h[i - 1] \in Y /\ h[i] = step[i][h[i - 1]]
    <2> HIDE DEF step, Y, n
    <2> QED BY <1>1, <1>3, RunsFacts
  <1> DEFINE f == [i \in 1..n |-> h[i]]
  <1>5. \A i \in 1..n : f[i] = IF i = 1 THEN seqs[i] ELSE f[i - 1] \o seqs[i]
    <2> SUFFICES ASSUME NEW i \in 1..n
                 PROVE  f[i] = IF i = 1 THEN seqs[i] ELSE f[i - 1] \o seqs[i]
      OBVIOUS
    <2>1. h[i] = IF i = 1 THEN seqs[1] ELSE h[i - 1] \o seqs[i]
      BY <1>4
    <2>2. i # 1 => i - 1 \in 1..n
      BY <1>1
    <2> HIDE DEF step, Y, n
    <2> QED BY <2>1, <2>2
  <1>6. FlattensTo(seqs, f)
    <2> HIDE DEF step, Y
    <2>1. f = [i \in 1..n |-> IF i = 1 THEN seqs[i] ELSE f[i - 1] \o seqs[i]]
      BY <1>5
    <2> HIDE DEF f
    <2> QED BY <2>1 DEF FlattensTo
  <1>7. FlattensTo(seqs, g)
    <2> HIDE DEF f
    <2> QED BY <1>6
  <1>8. FlattenSeq(seqs) = g[n]
    <2>1. Len(seqs) # 0
      BY <1>1
    <2> QED BY <2>1, Zenon DEF FlattenSeq, FlattensTo
  <1> HIDE DEF g, step, f
  <1>9. /\ DOMAIN g = 1..n /\ g = [i \in 1..n |-> g[i]]
        /\ g[1] = seqs[1] /\ \A i \in 2..n : g[i] = g[i - 1] \o seqs[i]
    <2> HIDE DEF Y
    <2>1. g = [i \in 1..n |-> IF i = 1 THEN seqs[i] ELSE g[i - 1] \o seqs[i]]
      BY <1>7 DEF FlattensTo
    <2> DEFINE e(i) == IF i = 1 THEN seqs[i] ELSE g[i - 1] \o seqs[i]
    <2>2. \A i \in 1..n : g[i] = e(i)
      BY <2>1
    <2>3. DOMAIN g = 1..n
      BY <2>1
    <2>4. g = [i \in 1..n |-> g[i]]
      <3>1. g = [i \in 1..n |-> e(i)]
        BY <2>1
      <3> HIDE DEF e
      <3> QED BY <2>2, <3>1
    <2>5. 1 \in 1..n /\ \A i \in 2..n : i \in 1..n /\ i # 1
      BY <1>1
    <2> QED BY <2>2, <2>3, <2>4, <2>5
  <1> DEFINE T == {i \in 0..n : i > 0 => g[i] \in Y}
  <1>10. \A i \in 0..n : i \in T
    <2>1. 0 \in T
      BY <1>1
    <2>2. ASSUME NEW i \in 1..n, i - 1 \in T PROVE i \in T
      <3>1. CASE i = 1
        BY <1>1, <1>9, <3>1
      <3>2. CASE i # 1
        <4>1. i \in 2..n /\ g[i - 1] \in Y /\ seqs[i] \in Y
          BY <1>1, <2>2, <3>2
        <4>2. g[i] = g[i - 1] \o seqs[i]
          BY <1>9, <4>1
        <4>3. g[i] \in Y
          BY <4>1, <4>2, ConcatFacts
        <4> HIDE DEF Y
        <4> QED BY <4>3
      <3> QED BY <3>1, <3>2
    <2> HIDE DEF T, n
    <2> QED BY <1>1, <2>1, <2>2, Induction
  <1>11. g \in [1..n -> Y]
    <2> HIDE DEF Y
    <2>1. \A i \in 1..n : g[i] \in Y
      BY <1>1, <1>10
    <2> HIDE DEF n
    <2> QED BY <1>9, <2>1
  <1> QED BY <1>8, <1>9, <1>11

\* The joined sequence has each of them where the ones before it end.
Laid(seqs, ends) ==
  \A k \in 1..Len(seqs) :
    /\ ends[k] \in Nat /\ ends[k - 1] \in Nat
    /\ ends[k] <= ends[Len(seqs)] /\ ends[k] = ends[k - 1] + Len(seqs[k])
    /\ \A j \in 1..Len(seqs[k]) : FlattenSeq(seqs)[ends[k - 1] + j] = seqs[k][j]

\* Sequences joined: their length, and where each of them is.
LEMMA FlattenFacts ==
  ASSUME NEW X, NEW seqs \in Seq(Seq(X)), Len(seqs) > 0,
         NEW ends, Ends(seqs, ends)
  PROVE  /\ FlattenSeq(seqs) \in Seq(X) /\ Len(FlattenSeq(seqs)) = ends[Len(seqs)]
         /\ Laid(seqs, ends)
  <1> DEFINE n == Len(seqs)
  <1>1. PICK f \in [1..n -> Seq(X)] :
           /\ FlattenSeq(seqs) = f[n]
           /\ f[1] = seqs[1]
           /\ \A i \in 2..n : f[i] = f[i - 1] \o seqs[i]
    BY FlattenSteps
  <1>2. n \in Nat /\ n > 0 /\ \A i \in 1..n : seqs[i] \in Seq(X) /\ Len(seqs[i]) \in Nat
    OBVIOUS
  <1>3. /\ ends[0] = 0 /\ \A i \in 0..n : ends[i] \in Nat
        /\ \A i \in 1..n : ends[i] = ends[i - 1] + Len(seqs[i])
    BY DEF Ends
  <1>4. \A i \in 1..n : f[i] \in Seq(X)
    BY <1>1
  <1> HIDE DEF n
  <1> DEFINE Good(i) ==
        /\ Len(f[i]) = ends[i]
        /\ \A k \in 1..i :
             /\ ends[k] <= ends[i]
             /\ \A j \in 1..Len(seqs[k]) : f[i][ends[k - 1] + j] = seqs[k][j]
             T == {i \in 0..n : i > 0 => Good(i)}
  <1>5. 0 \in T
    BY <1>2
  <1>6. ASSUME NEW i \in 1..n, i - 1 \in T PROVE i \in T
    <2>1. CASE i = 1
      <3>1. ends[1] = Len(seqs[1]) /\ f[1] = seqs[1] /\ 1 - 1 = 0
        BY <1>1, <1>2, <1>3
      <3>2. \A k \in 1..1 : k = 1
        OBVIOUS
      <3>3. Good(1)
        BY <1>2, <1>3, <3>1, <3>2
      <3> QED BY <2>1, <3>3
    <2>2. CASE i # 1
      <3>1. i - 1 \in 1..n /\ i \in 2..n /\ i \in Nat
        BY <1>2, <2>2
      <3>2. Good(i - 1)
        <4> HIDE DEF Good
        <4> QED BY <1>6, <3>1
      <3>3. /\ f[i] = f[i - 1] \o seqs[i] /\ f[i - 1] \in Seq(X) /\ seqs[i] \in Seq(X)
            /\ ends[i] = ends[i - 1] + Len(seqs[i])
        BY <1>1, <1>2, <1>3, <3>1
      <3>4. /\ ends[i - 1] \in Nat /\ ends[i] \in Nat /\ Len(seqs[i]) \in Nat
            /\ ends[i] = ends[i - 1] + Len(seqs[i])
        BY <1>2, <1>3, <3>1
      <3>5. Len(f[i]) = ends[i]
        <4>1. Len(f[i - 1]) = ends[i - 1]
          BY <3>2
        <4> HIDE DEF T, Good
        <4>2. Len(f[i - 1] \o seqs[i]) = Len(f[i - 1]) + Len(seqs[i])
          BY <3>3, ConcatFacts, Zenon
        <4> QED BY <3>3, <3>4, <4>1, <4>2, Zenon
      <3>6. \A x \in 1..ends[i] :
              f[i][x] = IF x <= ends[i - 1] THEN f[i - 1][x] ELSE seqs[i][x - ends[i - 1]]
        <4>1. Len(f[i - 1]) = ends[i - 1]
          BY <3>2
        <4> HIDE DEF T, Good
        <4>2. \A x \in 1..Len(f[i - 1]) + Len(seqs[i]) :
                (f[i - 1] \o seqs[i])[x] =
                  IF x <= Len(f[i - 1]) THEN f[i - 1][x] ELSE seqs[i][x - Len(f[i - 1])]
          BY <3>3, ConcatFacts, Zenon
        <4>3. f[i] = f[i - 1] \o seqs[i] /\ ends[i] = Len(f[i - 1]) + Len(seqs[i])
          BY <3>3, <4>1, Zenon
        <4> QED BY <4>1, <4>2, <4>3, Zenon
      <3>7. ASSUME NEW k \in 1..i
            PROVE  /\ ends[k] <= ends[i]
                   /\ \A j \in 1..Len(seqs[k]) : f[i][ends[k - 1] + j] = seqs[k][j]
        <4>1. CASE k = i
          <5> SUFFICES ASSUME NEW j \in 1..Len(seqs[i])
                       PROVE  f[i][ends[i - 1] + j] = seqs[i][j]
            <6>1. ends[i] <= ends[i]
              BY <3>4
            <6> HIDE DEF T, Good
            <6> QED BY <4>1, <6>1
          <5>0. i \in Nat /\ j \in Nat /\ j > 0 /\ j <= Len(seqs[i])
            BY <3>1, <3>4
          <5> HIDE DEF T, Good
          <5>1. ends[i - 1] + j \in 1..ends[i] /\ ~(ends[i - 1] + j <= ends[i - 1])
                /\ (ends[i - 1] + j) - ends[i - 1] = j
            <6>1. /\ ends[i - 1] + j \in 1..(ends[i - 1] + Len(seqs[i]))
                  /\ ~(ends[i - 1] + j <= ends[i - 1])
                  /\ (ends[i - 1] + j) - ends[i - 1] = j
              BY <3>4, <5>0, Beyond, Zenon
            <6> QED BY <3>4, <6>1, Zenon
          <5> QED BY <3>6, <5>1
        <4>2. CASE k # i
          <5>1. k \in 1..i - 1 /\ k \in 1..n /\ k \in 0..n /\ k - 1 \in 0..n
            BY <1>2, <3>1, <4>2
          <5>2. ends[k] <= ends[i - 1] /\ ends[k] = ends[k - 1] + Len(seqs[k])
                /\ ends[k] \in Nat /\ ends[k - 1] \in Nat /\ Len(seqs[k]) \in Nat
            BY <1>2, <1>3, <3>2, <5>1
          <5>3. ASSUME NEW j \in 1..Len(seqs[k])
                PROVE  f[i][ends[k - 1] + j] = seqs[k][j]
            <6>0. j \in Nat /\ j > 0 /\ j <= Len(seqs[k])
              BY <5>2
            <6>1. ends[k - 1] + j \in 1..ends[i] /\ ends[k - 1] + j <= ends[i - 1]
              <7> HIDE DEF T, Good
              <7>1. ends[i - 1] <= ends[i]
                BY <3>4
              <7> QED BY <3>4, <5>2, <7>1, Between, Zenon
            <6>2. f[i - 1][ends[k - 1] + j] = seqs[k][j]
              BY <3>2, <5>1
            <6> QED BY <3>6, <6>1, <6>2
          <5>4. ends[k] <= ends[i]
            <6> HIDE DEF T, Good
            <6> QED BY <3>4, <5>2
          <5> QED BY <5>3, <5>4
        <4> QED BY <4>1, <4>2
      <3>8. Good(i)
        BY <3>5, <3>7
      <3> HIDE DEF Good
      <3> QED BY <3>1, <3>8
    <2> QED BY <2>1, <2>2
  <1>7. \A i \in 0..n : i \in T
    <2> HIDE DEF T
    <2> QED BY <1>2, <1>5, <1>6, Induction
  <1>8. Good(n)
    <2> HIDE DEF Good
    <2> QED BY <1>2, <1>7
  <1>9. \A k \in 1..n : k - 1 \in 0..n /\ k \in 0..n
    BY <1>2
  <1>10. /\ FlattenSeq(seqs) \in Seq(X) /\ Len(FlattenSeq(seqs)) = ends[n]
         /\ \A k \in 1..n :
              /\ ends[k] \in Nat /\ ends[k - 1] \in Nat
              /\ ends[k] <= ends[n] /\ ends[k] = ends[k - 1] + Len(seqs[k])
              /\ \A j \in 1..Len(seqs[k]) :
                   FlattenSeq(seqs)[ends[k - 1] + j] = seqs[k][j]
    BY <1>1, <1>2, <1>3, <1>4, <1>8, <1>9
  <1> QED BY <1>10, Zenon DEF n, Laid

-----------------------------------------------------------------------------
(***************************************************************************)
(* The payload: bits into characters and back (to_payload, from_payload).  *)
(***************************************************************************)
\* Pieces of a sequence.
LEMMA SubSeqFacts ==
  ASSUME NEW X, NEW s \in Seq(X), NEW a \in Nat, NEW b \in Nat,
         a <= b, b <= Len(s)
  PROVE  /\ SubSeq(s, a + 1, b) \in Seq(X) /\ Len(SubSeq(s, a + 1, b)) = b - a
         /\ \A j \in 1..b - a : SubSeq(s, a + 1, b)[j] = s[a + j]
  OBVIOUS

LEMMA PrefixFacts ==
  ASSUME NEW X, NEW s \in Seq(X), NEW l \in Nat, l <= Len(s)
  PROVE  /\ SubSeq(s, 1, l) \in Seq(X) /\ Len(SubSeq(s, 1, l)) = l
         /\ \A j \in 1..l : SubSeq(s, 1, l)[j] = s[j]
  OBVIOUS

\* Sequences that agree everywhere.
LEMMA SameSeq ==
  ASSUME NEW X, NEW s \in Seq(X), NEW t \in Seq(X), Len(s) = Len(t),
         \A j \in 1..Len(s) : s[j] = t[j]
  PROVE  s = t
  OBVIOUS

\* What from_payload makes of a character of to_payload.
Sixbit == 0..63
Legal == (48..87) \cup (96..119)
LEMMA SixbitFacts == \A v : v \in Sixbit <=> v \in Nat /\ v < 64
  BY DEF Sixbit

LEMMA LegalFacts ==
  \A c : c \in Legal <=> c \in Nat /\ ((48 <= c /\ c <= 87) \/ (96 <= c /\ c <= 119))
  BY DEF Legal

LEMMA TwoToSix == TwoTo[6] = 64 /\ 6 \in Width
  <1>1. \A n \in 1..6 : n \in Width /\ n > 0
    BY WidthFacts
  <1>2. \A n \in 1..6 : TwoTo[n] = 2 * TwoTo[n - 1]
    BY <1>1, TwoToFacts
  <1>3. /\ TwoTo[1] = 2 * TwoTo[1 - 1] /\ TwoTo[2] = 2 * TwoTo[2 - 1]
        /\ TwoTo[3] = 2 * TwoTo[3 - 1] /\ TwoTo[4] = 2 * TwoTo[4 - 1]
        /\ TwoTo[5] = 2 * TwoTo[5 - 1] /\ TwoTo[6] = 2 * TwoTo[6 - 1]
    BY <1>2
  <1> QED BY <1>1, <1>3, TwoToZero

\* A character is read back as the six bits it was made of.
LEMMA ArmoredFacts ==
  ASSUME NEW v \in Sixbit
  PROVE  Armored(v) \in Legal /\ Dearmored(Armored(v)) = v
  BY SixbitFacts, LegalFacts DEF Armored, Dearmored

\* Sequences of six bits.
LEMMA SixesEnd ==
  ASSUME NEW seqs \in Seq(Seq(Bit)), \A i \in 1..Len(seqs) : Len(seqs[i]) = 6
  PROVE  Ends(seqs, [i \in 0..Len(seqs) |-> 6 * i])
  <1> DEFINE n == Len(seqs)
             ends == [i \in 0..n |-> 6 * i]
  <1>1. n \in Nat
    OBVIOUS
  <1>2. ends \in [0..n -> Nat] /\ ends[0] = 0
    BY <1>1
  <1>3. \A i \in 1..n : ends[i] = ends[i - 1] + Len(seqs[i])
    <2> SUFFICES ASSUME NEW i \in 1..n PROVE ends[i] = ends[i - 1] + Len(seqs[i])
      OBVIOUS
    <2>1. Len(seqs[i]) = 6 /\ i \in 0..n /\ i - 1 \in 0..n
      BY <1>1
    <2> HIDE DEF n
    <2>2. ends[i] = 6 * i /\ ends[i - 1] = 6 * (i - 1)
      BY <2>1
    <2>3. 6 * i = 6 * (i - 1) + 6
      BY <1>1
    <2> HIDE DEF ends
    <2> QED BY <2>1, <2>2, <2>3
  <1> QED BY <1>2, <1>3 DEF Ends

\* Sixes joined: the j-th bit of the k-th is where one looks for it.
LEMMA SixesJoined ==
  ASSUME NEW seqs \in Seq(Seq(Bit)), Len(seqs) > 0,
         \A i \in 1..Len(seqs) : Len(seqs[i]) = 6
  PROVE  /\ FlattenSeq(seqs) \in Seq(Bit) /\ Len(FlattenSeq(seqs)) = 6 * Len(seqs)
         /\ \A k \in 1..Len(seqs) : \A j \in 1..6 :
              FlattenSeq(seqs)[6 * (k - 1) + j] = seqs[k][j]
  <1> DEFINE ends == [i \in 0..Len(seqs) |-> 6 * i]
             flat == FlattenSeq(seqs)
  <1>1. Ends(seqs, ends)
    BY SixesEnd
  <1>2. ends[Len(seqs)] = 6 * Len(seqs) /\ \A k \in 1..Len(seqs) : ends[k - 1] = 6 * (k - 1)
    OBVIOUS
  <1> HIDE DEF ends
  <1>3. /\ flat \in Seq(Bit) /\ Len(flat) = ends[Len(seqs)]
        /\ \A k \in 1..Len(seqs) : \A j \in 1..Len(seqs[k]) :
             flat[ends[k - 1] + j] = seqs[k][j]
    BY <1>1, FlattenFacts DEF Laid
  <1> HIDE DEF flat
  <1>4. \A k \in 1..Len(seqs) : \A j \in 1..6 : flat[6 * (k - 1) + j] = seqs[k][j]
    BY <1>2, <1>3
  <1> QED BY <1>2, <1>3, <1>4 DEF flat

\* to_payload then from_payload: whatever bits are sent, the characters are
\* of the alphabet, and the bits that are read are those that were sent.  (This
\* is "fill bits are dropped" of bits.rs for every length.)
THEOREM PayloadFacts ==
  ASSUME NEW p, EncodeBits(p) \in Seq(Bit), Len(EncodeBits(p)) > 0
  PROVE  /\ Encode(p).chars \in Seq(Legal) /\ Len(Encode(p).chars) > 0
         /\ Encode(p).fill \in 0..5
         /\ 6 * Len(Encode(p).chars) = Len(EncodeBits(p)) + Encode(p).fill
         /\ Encode(p) = [chars |-> Encode(p).chars, fill |-> Encode(p).fill]
         /\ FromPayload(Encode(p)) = EncodeBits(p)
  <1> DEFINE bits == EncodeBits(p)
             l == Len(bits)
             fill == (6 - (l % 6)) % 6
             full == bits \o PushUint(0, fill)
             n == Len(full) \div 6
             six(i) == SubSeq(full, 6 * i - 5, 6 * i)
             chars == [i \in 1..n |-> Armored(Number(six(i)))]
             back == [i \in 1..n |-> PushUint(Dearmored(chars[i]), 6)]
  <1>1. l \in Nat /\ l > 0 /\ bits \in Seq(Bit)
    OBVIOUS
  <1>2. fill \in 0..5 /\ (l + fill) % 6 = 0 /\ fill \in Width
    BY <1>1, WidthFacts
  <1>3. /\ PushUint(0, fill) \in Seq(Bit) /\ Len(PushUint(0, fill)) = fill
        /\ 0 \in Int
    BY <1>2, PushUintTyped
  <1>4. /\ full \in Seq(Bit) /\ Len(full) = l + fill
        /\ \A x \in 1..l : full[x] = bits[x]
    <2> HIDE DEF bits, fill
    <2>1. /\ full \in Seq(Bit) /\ Len(full) = l + fill
          /\ \A x \in 1..l + fill : full[x] = IF x <= l THEN bits[x] ELSE PushUint(0, fill)[x - l]
      BY <1>1, <1>3, ConcatFacts
    <2>2. \A x \in 1..l : x \in 1..l + fill /\ x <= l
      BY <1>1, <1>2
    <2> QED BY <2>1, <2>2
  <1>5. Encode(p) = [chars |-> chars, fill |-> fill]
    BY Zenon DEF Encode
  <1> HIDE DEF bits, l, fill, full
  <1>6. n \in Nat /\ Len(full) = 6 * n /\ n > 0
    <2>1. (l + fill) \in Nat /\ l + fill > 0
      BY <1>1, <1>2
    <2>2. \A m \in Nat : m % 6 = 0 => m \div 6 \in Nat /\ m = 6 * (m \div 6)
      OBVIOUS
    <2>3. n = (l + fill) \div 6
      BY <1>4
    <2>4. (l + fill) \div 6 \in Nat /\ l + fill = 6 * ((l + fill) \div 6)
      BY <1>2, <2>1, <2>2, Zenon
    <2>5. n \in Nat /\ l + fill = 6 * n
      BY <2>3, <2>4, Zenon
    <2> HIDE DEF n
    <2>6. n > 0
      BY <2>1, <2>5
    <2> QED BY <1>4, <2>5, <2>6
  <1> HIDE DEF n
  <1>7. \A i \in 1..n : /\ six(i) \in Seq(Bit) /\ Len(six(i)) = 6
                        /\ \A j \in 1..6 : six(i)[j] = full[6 * (i - 1) + j]
    <2> SUFFICES ASSUME NEW i \in 1..n
                 PROVE  /\ six(i) \in Seq(Bit) /\ Len(six(i)) = 6
                        /\ \A j \in 1..6 : six(i)[j] = full[6 * (i - 1) + j]
      OBVIOUS
    <2> DEFINE a == 6 * (i - 1)
               b == 6 * i
    <2>1. /\ a \in Nat /\ b \in Nat /\ a <= b
          /\ b <= Len(full) /\ a + 1 = 6 * i - 5 /\ b - a = 6
      BY <1>6
    <2>2. six(i) = SubSeq(full, a + 1, b)
      BY <2>1
    <2> HIDE DEF a, b, six
    <2>3. /\ SubSeq(full, a + 1, b) \in Seq(Bit) /\ Len(SubSeq(full, a + 1, b)) = b - a
          /\ \A j \in 1..b - a : SubSeq(full, a + 1, b)[j] = full[a + j]
      <3>1. full \in Seq(Bit) /\ a \in Nat /\ b \in Nat /\ a <= b /\ b <= Len(full)
        BY <1>4, <2>1
      <3> QED BY <3>1, SubSeqFacts
    <2>4. \A j \in 1..6 : six(i)[j] = full[a + j]
      BY <2>1, <2>2, <2>3
    <2> QED BY <2>1, <2>2, <2>3, <2>4 DEF a
  <1> HIDE DEF six
  <1>8. \A i \in 1..n : /\ Number(six(i)) \in Sixbit
                        /\ PushUint(Number(six(i)), 6) = six(i)
    <2> SUFFICES ASSUME NEW i \in 1..n
                 PROVE  /\ Number(six(i)) \in Sixbit
                        /\ PushUint(Number(six(i)), 6) = six(i)
      OBVIOUS
    <2>1. six(i) \in Seq(Bit) /\ Len(six(i)) = 6
      BY <1>7
    <2>2. /\ Number(six(i)) \in Nat /\ Number(six(i)) < TwoTo[Len(six(i))]
          /\ PushUint(Number(six(i)), Len(six(i))) = six(i)
      BY <2>1, PushedNumber, TwoToSix
    <2> QED BY <2>1, <2>2, TwoToSix, SixbitFacts
  <1>9. \A i \in 1..n : chars[i] \in Legal /\ Dearmored(chars[i]) = Number(six(i))
    BY <1>8, ArmoredFacts
  <1>10. chars \in Seq(Legal) /\ Len(chars) = n /\ DOMAIN chars = 1..n
    <2>1. chars \in [1..n -> Legal]
      BY <1>9
    <2> HIDE DEF chars
    <2> QED BY <1>6, <2>1
  <1> HIDE DEF chars
  <1>11. \A i \in 1..n : back[i] = six(i)
    BY <1>8, <1>9
  <1>12. back \in Seq(Seq(Bit)) /\ Len(back) = n /\ \A i \in 1..n : Len(back[i]) = 6
    <2>1. back \in [1..n -> Seq(Bit)] /\ \A i \in 1..n : Len(back[i]) = 6
      BY <1>7, <1>11
    <2> HIDE DEF back
    <2> QED BY <1>6, <2>1
  <1>13. FromPayload([chars |-> chars, fill |-> fill])
           = SubSeq(FlattenSeq(back), 1, Len(FlattenSeq(back)) - fill)
    BY <1>10 DEF FromPayload
  <1> HIDE DEF back
  <1> DEFINE flat == FlattenSeq(back)
  <1>16. /\ flat \in Seq(Bit) /\ Len(flat) = 6 * n
         /\ \A k \in 1..n : \A j \in 1..6 : flat[6 * (k - 1) + j] = back[k][j]
    <2>1. Len(back) > 0 /\ \A i \in 1..Len(back) : Len(back[i]) = 6
      BY <1>6, <1>12
    <2>2. /\ FlattenSeq(back) \in Seq(Bit) /\ Len(FlattenSeq(back)) = 6 * Len(back)
          /\ \A k \in 1..Len(back) : \A j \in 1..6 :
               FlattenSeq(back)[6 * (k - 1) + j] = back[k][j]
      BY <1>12, <2>1, SixesJoined
    <2> QED BY <1>12, <2>2, Zenon
  <1> HIDE DEF flat
  <1>17. \A x \in 1..6 * n : flat[x] = full[x]
    <2> SUFFICES ASSUME NEW x \in 1..6 * n PROVE flat[x] = full[x]
      OBVIOUS
    <2> DEFINE k == (x + 5) \div 6
               j == x - 6 * (k - 1)
    <2>1. k \in 1..n /\ j \in 1..6 /\ 6 * (k - 1) + j = x
      BY <1>6
    <2> HIDE DEF k, j
    <2>2. flat[6 * (k - 1) + j] = back[k][j]
      BY <1>16, <2>1, Zenon
    <2>3. back[k][j] = six(k)[j]
      BY <1>11, <2>1, Zenon
    <2>4. six(k)[j] = full[6 * (k - 1) + j]
      BY <1>7, <2>1, Zenon
    <2> QED BY <2>1, <2>2, <2>3, <2>4, Zenon
  <1>20. /\ Len(flat) = l + fill /\ fill \in Nat /\ 6 * n = l + fill
         /\ Len(flat) - fill = l
    <2>1. Len(flat) = l + fill /\ fill \in Nat /\ 6 * n = l + fill
      BY <1>2, <1>4, <1>6, <1>16
    <2> QED BY <1>1, <2>1
  <1>18. /\ SubSeq(flat, 1, l) \in Seq(Bit) /\ Len(SubSeq(flat, 1, l)) = l
         /\ \A x \in 1..l : SubSeq(flat, 1, l)[x] = bits[x]
    <2>1. l <= Len(flat) /\ \A x \in 1..l : x \in 1..6 * n
      BY <1>1, <1>20
    <2>2. /\ SubSeq(flat, 1, l) \in Seq(Bit) /\ Len(SubSeq(flat, 1, l)) = l
          /\ \A x \in 1..l : SubSeq(flat, 1, l)[x] = flat[x]
      BY <1>1, <1>16, <2>1, PrefixFacts, Zenon
    <2> QED BY <1>4, <1>17, <2>1, <2>2
  <1>19. SubSeq(flat, 1, l) = bits
    BY <1>1, <1>18, SameSeq DEF l
  <1>21. FromPayload(Encode(p)) = bits
    BY <1>5, <1>13, <1>19, <1>20, Zenon DEF flat
  <1>22. Encode(p).chars = chars /\ Encode(p).fill = fill
    BY <1>5
  <1>23. 6 * Len(chars) = l + fill
    BY <1>10, <1>20
  <1> QED BY <1>2, <1>5, <1>6, <1>10, <1>21, <1>22, <1>23 DEF bits, l

-----------------------------------------------------------------------------
(***************************************************************************)
(* Layouts: the decoder reads each field where the encoder put it.         *)
(***************************************************************************)
\* Fields the provers are told of: none is wider than 30 bits, but text.
GoodField(f) ==
  /\ f.width \in Nat /\ (f.field = "blank" <=> f.as = "blank")
  /\ \/ f.as \in {"unsigned", "signed", "real", "degrees", "blank"}
        /\ 1 <= f.width /\ f.width <= 30
     \/ f.as = "string" /\ f.width \in {18, 42, 120}

\* No field is read twice.
Apart(reads) == \A x, y \in reads : x.field = y.field => x = y

\* Field f is read from a on, and nowhere else.
ReadFrom(reads, f, a) ==
  /\ At(f.field, a, f.width, f.as) \in reads
  /\ \A x \in reads : x.field = f.field => x = At(f.field, a, f.width, f.as)

\* A field from bit a up to bit b, read where it is written.
Step(reads, f, a, b) ==
  /\ a \in Nat /\ b = a + f.width
  /\ GoodField(f)
  /\ f.as # "blank" => At(f.field, a, f.width, f.as) \in reads

\* A field that is read is read from one place.
LEMMA ReadOnce ==
  ASSUME NEW reads, Apart(reads), NEW f, NEW a, At(f.field, a, f.width, f.as) \in reads
  PROVE  ReadFrom(reads, f, a)
  <1> DEFINE at == At(f.field, a, f.width, f.as)
  <1>1. at.field = f.field /\ at \in reads
    BY DEF At
  <1> HIDE DEF at
  <1>2. \A x \in reads : x.field = f.field => x = at
    BY <1>1 DEF Apart
  <1> QED BY <1>1, <1>2 DEF ReadFrom, at

\* Fields one after the other, each read where it is written; ends[i] is where
\* the i-th ends.
LaysOut(reads, seg, ends) ==
  /\ ends \in [0..Len(seg) -> Nat]
  /\ \A i \in 1..Len(seg) : Step(reads, seg[i], ends[i - 1], ends[i])

Span(reads, seg, a, b) ==
  /\ \E X : seg \in Seq(X)
  /\ \E ends : LaysOut(reads, seg, ends) /\ ends[0] = a /\ ends[Len(seg)] = b

\* Fields of known places, in one step.
LEMMA SpanOf ==
  ASSUME NEW reads, NEW X, NEW seg \in Seq(X), NEW st \in Seq(Nat),
         Len(st) = Len(seg) + 1,
         \A i \in 1..Len(seg) : Step(reads, seg[i], st[i], st[i + 1])
  PROVE  Span(reads, seg, st[1], st[Len(st)])
  <1> DEFINE n == Len(seg)
             ends == [i \in 0..n |-> st[i + 1]]
  <1>1. n \in Nat /\ Len(st) = n + 1
    OBVIOUS
  <1>2. \A i \in 0..n : st[i + 1] \in Nat
    BY <1>1
  <1>3. ends \in [0..n -> Nat] /\ ends[0] = st[1] /\ ends[n] = st[Len(st)]
    BY <1>1, <1>2
  <1>4. \A i \in 1..n : ends[i - 1] = st[i] /\ ends[i] = st[i + 1]
    BY <1>1
  <1> HIDE DEF ends
  <1>5. LaysOut(reads, seg, ends)
    BY <1>3, <1>4 DEF LaysOut
  <1> QED BY <1>3, <1>5 DEF Span

\* Two lists of fields joined.
LEMMA JoinSpans ==
  ASSUME NEW reads, NEW s, NEW t, NEW a, NEW b, NEW c,
         Span(reads, s, a, b), Span(reads, t, b, c)
  PROVE  Span(reads, s \o t, a, c)
  <1>1. PICK e : LaysOut(reads, s, e) /\ e[0] = a /\ e[Len(s)] = b
    BY DEF Span
  <1>2. PICK f : LaysOut(reads, t, f) /\ f[0] = b /\ f[Len(t)] = c
    BY DEF Span
  <1> DEFINE m == Len(s)
             n == Len(t)
             ends == [i \in 0..m + n |-> IF i <= m THEN e[i] ELSE f[i - m]]
  <1>0. PICK X : s \in Seq(X)
    BY DEF Span
  <1>00. PICK Y : t \in Seq(Y)
    BY DEF Span
  <1>3. s \in Seq(X \cup Y) /\ t \in Seq(X \cup Y)
    BY <1>0, <1>00
  <1>4. m \in Nat /\ n \in Nat
    BY <1>3
  <1>5. /\ s \o t \in Seq(X \cup Y) /\ Len(s \o t) = m + n
        /\ \A x \in 1..m + n : (s \o t)[x] = IF x <= m THEN s[x] ELSE t[x - m]
    BY <1>3, ConcatFacts
  <1>6. /\ \A i \in 0..m : e[i] \in Nat
        /\ \A i \in 1..m : Step(reads, s[i], e[i - 1], e[i])
    BY <1>1 DEF LaysOut
  <1>7. /\ \A i \in 0..n : f[i] \in Nat
        /\ \A i \in 1..n : Step(reads, t[i], f[i - 1], f[i])
    BY <1>2 DEF LaysOut
  <1> HIDE DEF m, n
  <1>8. ends \in [0..m + n -> Nat]
    <2>1. \A i \in 0..m + n : (IF i <= m THEN e[i] ELSE f[i - m]) \in Nat
      BY <1>4, <1>6, <1>7
    <2> QED BY <2>1
  <1>9. ends[0] = a
    BY <1>1, <1>4
  <1>10. ends[m + n] = c
    <2>1. CASE n = 0
      BY <1>1, <1>2, <1>4, <2>1 DEF m, n
    <2>2. CASE n # 0
      <3>1. ~(m + n <= m) /\ (m + n) - m = n /\ m + n \in 0..m + n
        BY <1>4, <2>2
      <3> QED BY <1>2, <3>1 DEF n
    <2> QED BY <2>1, <2>2
  <1>11. ASSUME NEW i \in 1..m + n
         PROVE  Step(reads, (s \o t)[i], ends[i - 1], ends[i])
    <2>1. CASE i <= m
      <3>1. i \in 1..m /\ i - 1 <= m /\ i - 1 \in 0..m + n /\ i \in 0..m + n
        BY <1>4, <2>1
      <3>2. (s \o t)[i] = s[i] /\ ends[i - 1] = e[i - 1] /\ ends[i] = e[i]
        BY <1>5, <2>1, <3>1
      <3> QED BY <1>6, <3>1, <3>2
    <2>2. CASE ~(i <= m)
      <3>1. i - m \in 1..n /\ i \in 0..m + n /\ i - 1 \in 0..m + n /\ (i - m) - 1 = (i - 1) - m
        BY <1>4, <2>2
      <3>2. (s \o t)[i] = t[i - m] /\ ends[i] = f[i - m]
        BY <1>5, <2>2, <3>1
      <3>3. ends[i - 1] = f[(i - m) - 1]
        <4>1. CASE i - 1 <= m
          <5>1. i - 1 = m /\ (i - m) - 1 = 0
            BY <1>4, <2>2, <4>1
          <5>2. ends[i - 1] = b
            BY <1>1, <3>1, <5>1 DEF m
          <5> QED BY <1>2, <5>1, <5>2
        <4>2. CASE ~(i - 1 <= m)
          BY <3>1, <4>2
        <4> QED BY <4>1, <4>2
      <3> QED BY <1>7, <3>1, <3>2, <3>3
    <2> QED BY <2>1, <2>2
  <1> HIDE DEF ends
  <1>12. LaysOut(reads, s \o t, ends)
    BY <1>5, <1>8, <1>11 DEF LaysOut
  <1> QED BY <1>5, <1>9, <1>10, <1>12 DEF Span

\* Where the decoder reads a packet of a type.
Reads(type) == HeaderRead \cup Decoder[type]

\* SpanOf for lists of one to ten fields.
LEMMA Span1 ==
  ASSUME NEW r, NEW f1,
         NEW a0, NEW a1 \in Nat,
         Step(r, f1, a0, a1)
  PROVE  Span(r, <<f1>>, a0, a1)
  <1> DEFINE seg == <<f1>>
             st == <<a0, a1>>
  <1>1. a0 \in Nat
    BY DEF Step
  <1>2. st \in Seq(Nat) /\ Len(st) = 2 /\ st[1] = a0 /\ st[Len(st)] = a1
    BY <1>1
  <1>3. seg \in Seq({f1}) /\ Len(seg) = 1 /\ Len(st) = Len(seg) + 1
    BY <1>2
  <1>4. \A i \in 1..Len(seg) : Step(r, seg[i], st[i], st[i + 1])
    BY <1>3
  <1> HIDE DEF st
  <1> QED BY <1>2, <1>3, <1>4, SpanOf, Zenon

LEMMA Span2 ==
  ASSUME NEW r, NEW f1, NEW f2,
         NEW a0, NEW a1, NEW a2 \in Nat,
         Step(r, f1, a0, a1), Step(r, f2, a1, a2)
  PROVE  Span(r, <<f1, f2>>, a0, a2)
  <1> DEFINE seg == <<f1, f2>>
             st == <<a0, a1, a2>>
  <1>1. a0 \in Nat /\ a1 \in Nat
    BY DEF Step
  <1>2. st \in Seq(Nat) /\ Len(st) = 3 /\ st[1] = a0 /\ st[Len(st)] = a2
    BY <1>1
  <1>3. seg \in Seq({f1, f2}) /\ Len(seg) = 2 /\ Len(st) = Len(seg) + 1
    BY <1>2
  <1>4. \A i \in 1..Len(seg) : Step(r, seg[i], st[i], st[i + 1])
    BY <1>3
  <1> HIDE DEF st
  <1> QED BY <1>2, <1>3, <1>4, SpanOf, Zenon

LEMMA Span3 ==
  ASSUME NEW r, NEW f1, NEW f2, NEW f3,
         NEW a0, NEW a1, NEW a2, NEW a3 \in Nat,
         Step(r, f1, a0, a1), Step(r, f2, a1, a2), Step(r, f3, a2, a3)
  PROVE  Span(r, <<f1, f2, f3>>, a0, a3)
  <1> DEFINE seg == <<f1, f2, f3>>
             st == <<a0, a1, a2, a3>>
  <1>1. a0 \in Nat /\ a1 \in Nat /\ a2 \in Nat
    BY DEF Step
  <1>2. st \in Seq(Nat) /\ Len(st) = 4 /\ st[1] = a0 /\ st[Len(st)] = a3
    BY <1>1
  <1>3. seg \in Seq({f1, f2, f3}) /\ Len(seg) = 3 /\ Len(st) = Len(seg) + 1
    BY <1>2
  <1>4. \A i \in 1..Len(seg) : Step(r, seg[i], st[i], st[i + 1])
    BY <1>3
  <1> HIDE DEF st
  <1> QED BY <1>2, <1>3, <1>4, SpanOf, Zenon

LEMMA Span4 ==
  ASSUME NEW r, NEW f1, NEW f2, NEW f3, NEW f4,
         NEW a0, NEW a1, NEW a2, NEW a3, NEW a4 \in Nat,
         Step(r, f1, a0, a1), Step(r, f2, a1, a2), Step(r, f3, a2, a3),
         Step(r, f4, a3, a4)
  PROVE  Span(r, <<f1, f2, f3, f4>>, a0, a4)
  <1> DEFINE seg == <<f1, f2, f3, f4>>
             st == <<a0, a1, a2, a3, a4>>
  <1>1. a0 \in Nat /\ a1 \in Nat /\ a2 \in Nat /\ a3 \in Nat
    BY DEF Step
  <1>2. st \in Seq(Nat) /\ Len(st) = 5 /\ st[1] = a0 /\ st[Len(st)] = a4
    BY <1>1
  <1>3. seg \in Seq({f1, f2, f3, f4}) /\ Len(seg) = 4 /\ Len(st) = Len(seg) + 1
    BY <1>2
  <1>4. \A i \in 1..Len(seg) : Step(r, seg[i], st[i], st[i + 1])
    BY <1>3
  <1> HIDE DEF st
  <1> QED BY <1>2, <1>3, <1>4, SpanOf, Zenon

LEMMA Span5 ==
  ASSUME NEW r, NEW f1, NEW f2, NEW f3, NEW f4, NEW f5,
         NEW a0, NEW a1, NEW a2, NEW a3, NEW a4, NEW a5 \in Nat,
         Step(r, f1, a0, a1), Step(r, f2, a1, a2), Step(r, f3, a2, a3),
         Step(r, f4, a3, a4), Step(r, f5, a4, a5)
  PROVE  Span(r, <<f1, f2, f3, f4, f5>>, a0, a5)
  <1> DEFINE seg == <<f1, f2, f3, f4, f5>>
             st == <<a0, a1, a2, a3, a4, a5>>
  <1>1. a0 \in Nat /\ a1 \in Nat /\ a2 \in Nat /\ a3 \in Nat /\ a4 \in Nat
    BY DEF Step
  <1>2. st \in Seq(Nat) /\ Len(st) = 6 /\ st[1] = a0 /\ st[Len(st)] = a5
    BY <1>1
  <1>3. seg \in Seq({f1, f2, f3, f4, f5}) /\ Len(seg) = 5 /\ Len(st) = Len(seg) + 1
    BY <1>2
  <1>4. \A i \in 1..Len(seg) : Step(r, seg[i], st[i], st[i + 1])
    BY <1>3
  <1> HIDE DEF st
  <1> QED BY <1>2, <1>3, <1>4, SpanOf, Zenon

LEMMA Span6 ==
  ASSUME NEW r, NEW f1, NEW f2, NEW f3, NEW f4, NEW f5, NEW f6,
         NEW a0, NEW a1, NEW a2, NEW a3, NEW a4, NEW a5, NEW a6 \in Nat,
         Step(r, f1, a0, a1), Step(r, f2, a1, a2), Step(r, f3, a2, a3),
         Step(r, f4, a3, a4), Step(r, f5, a4, a5), Step(r, f6, a5, a6)
  PROVE  Span(r, <<f1, f2, f3, f4, f5, f6>>, a0, a6)
  <1> DEFINE seg == <<f1, f2, f3, f4, f5, f6>>
             st == <<a0, a1, a2, a3, a4, a5, a6>>
  <1>1. /\ a0 \in Nat /\ a1 \in Nat /\ a2 \in Nat /\ a3 \in Nat /\ a4 \in Nat
        /\ a5 \in Nat
    BY DEF Step
  <1>2. st \in Seq(Nat) /\ Len(st) = 7 /\ st[1] = a0 /\ st[Len(st)] = a6
    BY <1>1
  <1>3. /\ seg \in Seq({f1, f2, f3, f4, f5, f6})
        /\ Len(seg) = 6
        /\ Len(st) = Len(seg) + 1
    BY <1>2
  <1>4. \A i \in 1..Len(seg) : Step(r, seg[i], st[i], st[i + 1])
    BY <1>3
  <1> HIDE DEF st
  <1> QED BY <1>2, <1>3, <1>4, SpanOf, Zenon

LEMMA Span7 ==
  ASSUME NEW r, NEW f1, NEW f2, NEW f3, NEW f4, NEW f5, NEW f6, NEW f7,
         NEW a0, NEW a1, NEW a2, NEW a3, NEW a4, NEW a5, NEW a6,
         NEW a7 \in Nat,
         Step(r, f1, a0, a1), Step(r, f2, a1, a2), Step(r, f3, a2, a3),
         Step(r, f4, a3, a4), Step(r, f5, a4, a5), Step(r, f6, a5, a6),
         Step(r, f7, a6, a7)
  PROVE  Span(r, <<f1, f2, f3, f4, f5, f6, f7>>, a0, a7)
  <1> DEFINE seg == <<f1, f2, f3, f4, f5, f6, f7>>
             st == <<a0, a1, a2, a3, a4, a5, a6, a7>>
  <1>1. /\ a0 \in Nat /\ a1 \in Nat /\ a2 \in Nat /\ a3 \in Nat /\ a4 \in Nat
        /\ a5 \in Nat /\ a6 \in Nat
    BY DEF Step
  <1>2. st \in Seq(Nat) /\ Len(st) = 8 /\ st[1] = a0 /\ st[Len(st)] = a7
    BY <1>1
  <1>3. /\ seg \in Seq({f1, f2, f3, f4, f5, f6, f7})
        /\ Len(seg) = 7
        /\ Len(st) = Len(seg) + 1
    BY <1>2
  <1>4. \A i \in 1..Len(seg) : Step(r, seg[i], st[i], st[i + 1])
    BY <1>3
  <1> HIDE DEF st
  <1> QED BY <1>2, <1>3, <1>4, SpanOf, Zenon

LEMMA Span8 ==
  ASSUME NEW r, NEW f1, NEW f2, NEW f3, NEW f4, NEW f5, NEW f6, NEW f7, NEW f8,
         NEW a0, NEW a1, NEW a2, NEW a3, NEW a4, NEW a5, NEW a6, NEW a7,
         NEW a8 \in Nat,
         Step(r, f1, a0, a1), Step(r, f2, a1, a2), Step(r, f3, a2, a3),
         Step(r, f4, a3, a4), Step(r, f5, a4, a5), Step(r, f6, a5, a6),
         Step(r, f7, a6, a7), Step(r, f8, a7, a8)
  PROVE  Span(r, <<f1, f2, f3, f4, f5, f6, f7, f8>>, a0, a8)
  <1> DEFINE seg == <<f1, f2, f3, f4, f5, f6, f7, f8>>
             st == <<a0, a1, a2, a3, a4, a5, a6, a7, a8>>
  <1>1. /\ a0 \in Nat /\ a1 \in Nat /\ a2 \in Nat /\ a3 \in Nat /\ a4 \in Nat
        /\ a5 \in Nat /\ a6 \in Nat /\ a7 \in Nat
    BY DEF Step
  <1>2. st \in Seq(Nat) /\ Len(st) = 9 /\ st[1] = a0 /\ st[Len(st)] = a8
    BY <1>1
  <1>3. /\ seg \in Seq({f1, f2, f3, f4, f5, f6, f7, f8})
        /\ Len(seg) = 8
        /\ Len(st) = Len(seg) + 1
    BY <1>2
  <1>4. \A i \in 1..Len(seg) : Step(r, seg[i], st[i], st[i + 1])
    BY <1>3
  <1> HIDE DEF st
  <1> QED BY <1>2, <1>3, <1>4, SpanOf, Zenon

LEMMA Span9 ==
  ASSUME NEW r, NEW f1, NEW f2, NEW f3, NEW f4, NEW f5, NEW f6, NEW f7, NEW f8,
         NEW f9,
         NEW a0, NEW a1, NEW a2, NEW a3, NEW a4, NEW a5, NEW a6, NEW a7,
         NEW a8, NEW a9 \in Nat,
         Step(r, f1, a0, a1), Step(r, f2, a1, a2), Step(r, f3, a2, a3),
         Step(r, f4, a3, a4), Step(r, f5, a4, a5), Step(r, f6, a5, a6),
         Step(r, f7, a6, a7), Step(r, f8, a7, a8), Step(r, f9, a8, a9)
  PROVE  Span(r, <<f1, f2, f3, f4, f5, f6, f7, f8, f9>>, a0, a9)
  <1> DEFINE seg == <<f1, f2, f3, f4, f5, f6, f7, f8, f9>>
             st == <<a0, a1, a2, a3, a4, a5, a6, a7, a8, a9>>
  <1>1. /\ a0 \in Nat /\ a1 \in Nat /\ a2 \in Nat /\ a3 \in Nat /\ a4 \in Nat
        /\ a5 \in Nat /\ a6 \in Nat /\ a7 \in Nat /\ a8 \in Nat
    BY DEF Step
  <1>2. st \in Seq(Nat) /\ Len(st) = 10 /\ st[1] = a0 /\ st[Len(st)] = a9
    BY <1>1
  <1>3. /\ seg \in Seq({f1, f2, f3, f4, f5, f6, f7, f8, f9})
        /\ Len(seg) = 9
        /\ Len(st) = Len(seg) + 1
    BY <1>2
  <1>4. \A i \in 1..Len(seg) : Step(r, seg[i], st[i], st[i + 1])
    BY <1>3
  <1> HIDE DEF st
  <1> QED BY <1>2, <1>3, <1>4, SpanOf, Zenon

LEMMA Span10 ==
  ASSUME NEW r, NEW f1, NEW f2, NEW f3, NEW f4, NEW f5, NEW f6, NEW f7, NEW f8,
         NEW f9, NEW f10,
         NEW a0, NEW a1, NEW a2, NEW a3, NEW a4, NEW a5, NEW a6, NEW a7,
         NEW a8, NEW a9, NEW a10 \in Nat,
         Step(r, f1, a0, a1), Step(r, f2, a1, a2), Step(r, f3, a2, a3),
         Step(r, f4, a3, a4), Step(r, f5, a4, a5), Step(r, f6, a5, a6),
         Step(r, f7, a6, a7), Step(r, f8, a7, a8), Step(r, f9, a8, a9),
         Step(r, f10, a9, a10)
  PROVE  Span(r, <<f1, f2, f3, f4, f5, f6, f7, f8, f9, f10>>, a0, a10)
  <1> DEFINE seg == <<f1, f2, f3, f4, f5, f6, f7, f8, f9, f10>>
             st == <<a0, a1, a2, a3, a4, a5, a6, a7, a8, a9, a10>>
  <1>1. /\ a0 \in Nat /\ a1 \in Nat /\ a2 \in Nat /\ a3 \in Nat /\ a4 \in Nat
        /\ a5 \in Nat /\ a6 \in Nat /\ a7 \in Nat /\ a8 \in Nat /\ a9 \in Nat
    BY DEF Step
  <1>2. st \in Seq(Nat) /\ Len(st) = 11 /\ st[1] = a0 /\ st[Len(st)] = a10
    BY <1>1
  <1>3. /\ seg \in Seq({f1, f2, f3, f4, f5, f6, f7, f8, f9, f10})
        /\ Len(seg) = 10
        /\ Len(st) = Len(seg) + 1
    BY <1>2
  <1>4. \A i \in 1..Len(seg) : Step(r, seg[i], st[i], st[i + 1])
    BY <1>3
  <1> HIDE DEF st
  <1> QED BY <1>2, <1>3, <1>4, SpanOf, Zenon

\* The layouts of the ten types.
LEMMA PositionReportLayout ==
  Span(Reads("PositionReport"), Encoder["PositionReport"], 0, 168)
  <1> DEFINE r == Reads("PositionReport")
  <1> USE DEF Reads, HeaderRead, Decoder, DimensionAt, MotionAt, UAt, IAt, RAt, DAt, SAt,
              At, Step, GoodField, U, I, R, D, S, Blank, Pushed
  <1>1. /\ Step(r, U("MessageID", 6), 0, 6)
        /\ Step(r, U("RepeatIndicator", 2), 6, 8)
        /\ Step(r, U("UserID", 30), 8, 38)
    OBVIOUS
  <1>2. /\ Step(r, U("NavigationalStatus", 4), 38, 42)
        /\ Step(r, I("RateOfTurn", 8), 42, 50)
    OBVIOUS
  <1>3. /\ Step(r, R("Sog", 10), 50, 60)
        /\ Step(r, U("PositionAccuracy", 1), 60, 61)
    OBVIOUS
  <1>4. /\ Step(r, D("Longitude", 28), 61, 89)
        /\ Step(r, D("Latitude", 27), 89, 116)
    OBVIOUS
  <1>5. /\ Step(r, R("Cog", 12), 116, 128)
        /\ Step(r, U("TrueHeading", 9), 128, 137)
        /\ Step(r, U("Timestamp", 6), 137, 143)
    OBVIOUS
  <1>6. /\ Step(r, U("SpecialManoeuvreIndicator", 2), 143, 145)
        /\ Step(r, U("Spare", 3), 145, 148)
        /\ Step(r, U("Raim", 1), 148, 149)
        /\ Step(r, U("CommunicationState", 19), 149, 168)
    OBVIOUS
  <1> HIDE DEF r, Reads, HeaderRead, Decoder, DimensionAt, MotionAt, UAt, IAt, RAt, DAt,
               SAt, At, Step, GoodField, U, I, R, D, S, Blank, Pushed
  <1>7. Span(r, Header, 0, 38)
    BY <1>1, Span3 DEF Header
  <1>8. Span(r, <<U("NavigationalStatus", 4), I("RateOfTurn", 8)>>, 38, 50)
    BY <1>2, Span2
  <1>9. Span(r, <<R("Sog", 10), U("PositionAccuracy", 1)>>, 50, 61)
    BY <1>3, Span2
  <1>10. Span(r, Place, 61, 116)
    BY <1>4, Span2 DEF Place
  <1>11. Span(r, <<R("Cog", 12), U("TrueHeading", 9), U("Timestamp", 6)>>, 116, 143)
    BY <1>5, Span3
  <1>12. Span(r, <<R("Sog", 10), U("PositionAccuracy", 1)>> \o Place, 50, 116)
    BY <1>9, <1>10, JoinSpans
  <1>13. Span(r, Motion, 50, 143)
    BY <1>12, <1>11, JoinSpans DEF Motion
  <1>14. Span(r, <<U("SpecialManoeuvreIndicator", 2), U("Spare", 3),
                    U("Raim", 1), U("CommunicationState", 19)>>, 143, 168)
    BY <1>6, Span4
  <1>15. Span(r, Header
                 \o <<U("NavigationalStatus", 4), I("RateOfTurn", 8)>>, 0, 50)
    BY <1>7, <1>8, JoinSpans
  <1>16. Span(r, Header
                 \o <<U("NavigationalStatus", 4), I("RateOfTurn", 8)>>
                 \o Motion, 0, 143)
    BY <1>15, <1>13, JoinSpans
  <1> QED BY <1>16, <1>14, JoinSpans DEF Encoder, r

LEMMA BaseStationReportLayout ==
  Span(Reads("BaseStationReport"), Encoder["BaseStationReport"], 0, 168)
  <1> DEFINE r == Reads("BaseStationReport")
  <1> USE DEF Reads, HeaderRead, Decoder, DimensionAt, MotionAt, UAt, IAt, RAt, DAt, SAt,
              At, Step, GoodField, U, I, R, D, S, Blank, Pushed
  <1>1. /\ Step(r, U("MessageID", 6), 0, 6)
        /\ Step(r, U("RepeatIndicator", 2), 6, 8)
        /\ Step(r, U("UserID", 30), 8, 38)
    OBVIOUS
  <1>2. /\ Step(r, U("UtcYear", 14), 38, 52)
        /\ Step(r, U("UtcMonth", 4), 52, 56)
        /\ Step(r, U("UtcDay", 5), 56, 61)
        /\ Step(r, U("UtcHour", 5), 61, 66)
        /\ Step(r, U("UtcMinute", 6), 66, 72)
    OBVIOUS
  <1>3. /\ Step(r, U("UtcSecond", 6), 72, 78)
        /\ Step(r, U("PositionAccuracy", 1), 78, 79)
    OBVIOUS
  <1>4. /\ Step(r, D("Longitude", 28), 79, 107)
        /\ Step(r, D("Latitude", 27), 107, 134)
    OBVIOUS
  <1>5. /\ Step(r, U("FixType", 4), 134, 138)
        /\ Step(r, U("Spare", 10), 138, 148)
        /\ Step(r, U("Raim", 1), 148, 149)
        /\ Step(r, U("CommunicationState", 19), 149, 168)
    OBVIOUS
  <1> HIDE DEF r, Reads, HeaderRead, Decoder, DimensionAt, MotionAt, UAt, IAt, RAt, DAt,
               SAt, At, Step, GoodField, U, I, R, D, S, Blank, Pushed
  <1>6. Span(r, Header, 0, 38)
    BY <1>1, Span3 DEF Header
  <1>7. Span(r, <<U("UtcYear", 14), U("UtcMonth", 4), U("UtcDay", 5),
                    U("UtcHour", 5), U("UtcMinute", 6), U("UtcSecond", 6),
                    U("PositionAccuracy", 1)>>, 38, 79)
    BY <1>2, <1>3, Span7
  <1>8. Span(r, Place, 79, 134)
    BY <1>4, Span2 DEF Place
  <1>9. Span(r, <<U("FixType", 4), U("Spare", 10), U("Raim", 1),
                    U("CommunicationState", 19)>>, 134, 168)
    BY <1>5, Span4
  <1>10. Span(r, Header
                 \o <<U("UtcYear", 14), U("UtcMonth", 4), U("UtcDay", 5),
                    U("UtcHour", 5), U("UtcMinute", 6), U("UtcSecond", 6),
                    U("PositionAccuracy", 1)>>, 0, 79)
    BY <1>6, <1>7, JoinSpans
  <1>11. Span(r, Header
                 \o <<U("UtcYear", 14), U("UtcMonth", 4), U("UtcDay", 5),
                    U("UtcHour", 5), U("UtcMinute", 6), U("UtcSecond", 6),
                    U("PositionAccuracy", 1)>>
                 \o Place, 0, 134)
    BY <1>10, <1>8, JoinSpans
  <1> QED BY <1>11, <1>9, JoinSpans DEF Encoder, r

LEMMA ShipStaticDataLayout ==
  Span(Reads("ShipStaticData"), Encoder["ShipStaticData"], 0, 424)
  <1> DEFINE r == Reads("ShipStaticData")
  <1> USE DEF Reads, HeaderRead, Decoder, DimensionAt, MotionAt, UAt, IAt, RAt, DAt, SAt,
              At, Step, GoodField, U, I, R, D, S, Blank, Pushed
  <1>1. /\ Step(r, U("MessageID", 6), 0, 6)
        /\ Step(r, U("RepeatIndicator", 2), 6, 8)
        /\ Step(r, U("UserID", 30), 8, 38)
    OBVIOUS
  <1>2. /\ Step(r, U("AisVersion", 2), 38, 40)
        /\ Step(r, U("ImoNumber", 30), 40, 70)
        /\ Step(r, S("CallSign", 42), 70, 112)
        /\ Step(r, S("Name", 120), 112, 232)
        /\ Step(r, U("Type", 8), 232, 240)
    OBVIOUS
  <1>3. /\ Step(r, U("A", 9), 240, 249)
        /\ Step(r, U("B", 9), 249, 258)
        /\ Step(r, U("C", 6), 258, 264)
        /\ Step(r, U("D", 6), 264, 270)
    OBVIOUS
  <1>4. /\ Step(r, U("FixType", 4), 270, 274)
        /\ Step(r, U("Month", 4), 274, 278)
        /\ Step(r, U("Day", 5), 278, 283)
        /\ Step(r, U("Hour", 5), 283, 288)
        /\ Step(r, U("Minute", 6), 288, 294)
    OBVIOUS
  <1>5. /\ Step(r, R("MaximumStaticDraught", 8), 294, 302)
        /\ Step(r, S("Destination", 120), 302, 422)
        /\ Step(r, U("Dte", 1), 422, 423)
        /\ Step(r, U("Spare", 1), 423, 424)
    OBVIOUS
  <1> HIDE DEF r, Reads, HeaderRead, Decoder, DimensionAt, MotionAt, UAt, IAt, RAt, DAt,
               SAt, At, Step, GoodField, U, I, R, D, S, Blank, Pushed
  <1>6. Span(r, Header, 0, 38)
    BY <1>1, Span3 DEF Header
  <1>7. Span(r, <<U("AisVersion", 2), U("ImoNumber", 30),
                    S("CallSign", 42), S("Name", 120), U("Type", 8)>>, 38, 240)
    BY <1>2, Span5
  <1>8. Span(r, Dimension, 240, 270)
    BY <1>3, Span4 DEF Dimension
  <1>9. Span(r, <<U("FixType", 4), U("Month", 4), U("Day", 5),
                    U("Hour", 5), U("Minute", 6),
                    R("MaximumStaticDraught", 8), S("Destination", 120),
                    U("Dte", 1), U("Spare", 1)>>, 270, 424)
    BY <1>4, <1>5, Span9
  <1>10. Span(r, Header
                 \o <<U("AisVersion", 2), U("ImoNumber", 30),
                    S("CallSign", 42), S("Name", 120), U("Type", 8)>>, 0, 240)
    BY <1>6, <1>7, JoinSpans
  <1>11. Span(r, Header
                 \o <<U("AisVersion", 2), U("ImoNumber", 30),
                    S("CallSign", 42), S("Name", 120), U("Type", 8)>>
                 \o Dimension, 0, 270)
    BY <1>10, <1>8, JoinSpans
  <1> QED BY <1>11, <1>9, JoinSpans DEF Encoder, r

LEMMA SarAircraftLayout ==
  Span(Reads("SarAircraft"), Encoder["SarAircraft"], 0, 168)
  <1> DEFINE r == Reads("SarAircraft")
  <1> USE DEF Reads, HeaderRead, Decoder, DimensionAt, MotionAt, UAt, IAt, RAt, DAt, SAt,
              At, Step, GoodField, U, I, R, D, S, Blank, Pushed
  <1>1. /\ Step(r, U("MessageID", 6), 0, 6)
        /\ Step(r, U("RepeatIndicator", 2), 6, 8)
        /\ Step(r, U("UserID", 30), 8, 38)
    OBVIOUS
  <1>2. /\ Step(r, U("Altitude", 12), 38, 50)
        /\ Step(r, U("Sog", 10), 50, 60)
        /\ Step(r, U("PositionAccuracy", 1), 60, 61)
    OBVIOUS
  <1>3. /\ Step(r, D("Longitude", 28), 61, 89)
        /\ Step(r, D("Latitude", 27), 89, 116)
    OBVIOUS
  <1>4. /\ Step(r, R("Cog", 12), 116, 128)
        /\ Step(r, U("Timestamp", 6), 128, 134)
        /\ Step(r, U("AltFromBaro", 1), 134, 135)
        /\ Step(r, Blank(7), 135, 142)
        /\ Step(r, U("Dte", 1), 142, 143)
    OBVIOUS
  <1>5. /\ Step(r, Blank(3), 143, 146)
        /\ Step(r, U("AssignedMode", 1), 146, 147)
        /\ Step(r, U("Raim", 1), 147, 148)
        /\ Step(r, U("CommunicationState", 20), 148, 168)
    OBVIOUS
  <1> HIDE DEF r, Reads, HeaderRead, Decoder, DimensionAt, MotionAt, UAt, IAt, RAt, DAt,
               SAt, At, Step, GoodField, U, I, R, D, S, Blank, Pushed
  <1>6. Span(r, Header, 0, 38)
    BY <1>1, Span3 DEF Header
  <1>7. Span(r, <<U("Altitude", 12), U("Sog", 10),
                    U("PositionAccuracy", 1)>>, 38, 61)
    BY <1>2, Span3
  <1>8. Span(r, Place, 61, 116)
    BY <1>3, Span2 DEF Place
  <1>9. Span(r, <<R("Cog", 12), U("Timestamp", 6), U("AltFromBaro", 1),
                    Blank(7), U("Dte", 1), Blank(3), U("AssignedMode", 1),
                    U("Raim", 1), U("CommunicationState", 20)>>, 116, 168)
    BY <1>4, <1>5, Span9
  <1>10. Span(r, Header
                 \o <<U("Altitude", 12), U("Sog", 10),
                    U("PositionAccuracy", 1)>>, 0, 61)
    BY <1>6, <1>7, JoinSpans
  <1>11. Span(r, Header
                 \o <<U("Altitude", 12), U("Sog", 10),
                    U("PositionAccuracy", 1)>>
                 \o Place, 0, 116)
    BY <1>10, <1>8, JoinSpans
  <1> QED BY <1>11, <1>9, JoinSpans DEF Encoder, r

LEMMA StandardClassBLayout ==
  Span(Reads("StandardClassB"), Encoder["StandardClassB"], 0, 168)
  <1> DEFINE r == Reads("StandardClassB")
  <1> USE DEF Reads, HeaderRead, Decoder, DimensionAt, MotionAt, UAt, IAt, RAt, DAt, SAt,
              At, Step, GoodField, U, I, R, D, S, Blank, Pushed
  <1>1. /\ Step(r, U("MessageID", 6), 0, 6)
        /\ Step(r, U("RepeatIndicator", 2), 6, 8)
        /\ Step(r, U("UserID", 30), 8, 38)
    OBVIOUS
  <1>2. Step(r, Blank(8), 38, 46)
    OBVIOUS
  <1>3. /\ Step(r, R("Sog", 10), 46, 56)
        /\ Step(r, U("PositionAccuracy", 1), 56, 57)
    OBVIOUS
  <1>4. /\ Step(r, D("Longitude", 28), 57, 85)
        /\ Step(r, D("Latitude", 27), 85, 112)
    OBVIOUS
  <1>5. /\ Step(r, R("Cog", 12), 112, 124)
        /\ Step(r, U("TrueHeading", 9), 124, 133)
        /\ Step(r, U("Timestamp", 6), 133, 139)
    OBVIOUS
  <1>6. /\ Step(r, Blank(2), 139, 141)
        /\ Step(r, U("ClassBUnit", 1), 141, 142)
        /\ Step(r, U("ClassBDisplay", 1), 142, 143)
        /\ Step(r, U("ClassBDsc", 1), 143, 144)
        /\ Step(r, U("ClassBBand", 1), 144, 145)
    OBVIOUS
  <1>7. /\ Step(r, U("ClassBMsg22", 1), 145, 146)
        /\ Step(r, U("AssignedMode", 1), 146, 147)
        /\ Step(r, U("Raim", 1), 147, 148)
        /\ Step(r, U("CommunicationStateIsItdma", 1), 148, 149)
        /\ Step(r, U("CommunicationState", 19), 149, 168)
    OBVIOUS
  <1> HIDE DEF r, Reads, HeaderRead, Decoder, DimensionAt, MotionAt, UAt, IAt, RAt, DAt,
               SAt, At, Step, GoodField, U, I, R, D, S, Blank, Pushed
  <1>8. Span(r, Header, 0, 38)
    BY <1>1, Span3 DEF Header
  <1>9. Span(r, <<Blank(8)>>, 38, 46)
    BY <1>2, Span1
  <1>10. Span(r, <<R("Sog", 10), U("PositionAccuracy", 1)>>, 46, 57)
    BY <1>3, Span2
  <1>11. Span(r, Place, 57, 112)
    BY <1>4, Span2 DEF Place
  <1>12. Span(r, <<R("Cog", 12), U("TrueHeading", 9), U("Timestamp", 6)>>, 112, 139)
    BY <1>5, Span3
  <1>13. Span(r, <<R("Sog", 10), U("PositionAccuracy", 1)>> \o Place, 46, 112)
    BY <1>10, <1>11, JoinSpans
  <1>14. Span(r, Motion, 46, 139)
    BY <1>13, <1>12, JoinSpans DEF Motion
  <1>15. Span(r, <<Blank(2), U("ClassBUnit", 1), U("ClassBDisplay", 1),
                    U("ClassBDsc", 1), U("ClassBBand", 1),
                    U("ClassBMsg22", 1), U("AssignedMode", 1),
                    U("Raim", 1), U("CommunicationStateIsItdma", 1),
                    U("CommunicationState", 19)>>, 139, 168)
    BY <1>6, <1>7, Span10
  <1>16. Span(r, Header
                 \o <<Blank(8)>>, 0, 46)
    BY <1>8, <1>9, JoinSpans
  <1>17. Span(r, Header
                 \o <<Blank(8)>>
                 \o Motion, 0, 139)
    BY <1>16, <1>14, JoinSpans
  <1> QED BY <1>17, <1>15, JoinSpans DEF Encoder, r

LEMMA ExtendedClassBLayout ==
  Span(Reads("ExtendedClassB"), Encoder["ExtendedClassB"], 0, 312)
  <1> DEFINE r == Reads("ExtendedClassB")
  <1> USE DEF Reads, HeaderRead, Decoder, DimensionAt, MotionAt, UAt, IAt, RAt, DAt, SAt,
              At, Step, GoodField, U, I, R, D, S, Blank, Pushed
  <1>1. /\ Step(r, U("MessageID", 6), 0, 6)
        /\ Step(r, U("RepeatIndicator", 2), 6, 8)
        /\ Step(r, U("UserID", 30), 8, 38)
    OBVIOUS
  <1>2. Step(r, Blank(8), 38, 46)
    OBVIOUS
  <1>3. /\ Step(r, R("Sog", 10), 46, 56)
        /\ Step(r, U("PositionAccuracy", 1), 56, 57)
    OBVIOUS
  <1>4. /\ Step(r, D("Longitude", 28), 57, 85)
        /\ Step(r, D("Latitude", 27), 85, 112)
    OBVIOUS
  <1>5. /\ Step(r, R("Cog", 12), 112, 124)
        /\ Step(r, U("TrueHeading", 9), 124, 133)
        /\ Step(r, U("Timestamp", 6), 133, 139)
    OBVIOUS
  <1>6. /\ Step(r, Blank(4), 139, 143)
        /\ Step(r, S("Name", 120), 143, 263)
        /\ Step(r, U("Type", 8), 263, 271)
    OBVIOUS
  <1>7. /\ Step(r, U("A", 9), 271, 280)
        /\ Step(r, U("B", 9), 280, 289)
        /\ Step(r, U("C", 6), 289, 295)
        /\ Step(r, U("D", 6), 295, 301)
    OBVIOUS
  <1>8. /\ Step(r, U("FixType", 4), 301, 305)
        /\ Step(r, U("Raim", 1), 305, 306)
        /\ Step(r, U("Dte", 1), 306, 307)
        /\ Step(r, U("AssignedMode", 1), 307, 308)
        /\ Step(r, Blank(4), 308, 312)
    OBVIOUS
  <1> HIDE DEF r, Reads, HeaderRead, Decoder, DimensionAt, MotionAt, UAt, IAt, RAt, DAt,
               SAt, At, Step, GoodField, U, I, R, D, S, Blank, Pushed
  <1>9. Span(r, Header, 0, 38)
    BY <1>1, Span3 DEF Header
  <1>10. Span(r, <<Blank(8)>>, 38, 46)
    BY <1>2, Span1
  <1>11. Span(r, <<R("Sog", 10), U("PositionAccuracy", 1)>>, 46, 57)
    BY <1>3, Span2
  <1>12. Span(r, Place, 57, 112)
    BY <1>4, Span2 DEF Place
  <1>13. Span(r, <<R("Cog", 12), U("TrueHeading", 9), U("Timestamp", 6)>>, 112, 139)
    BY <1>5, Span3
  <1>14. Span(r, <<R("Sog", 10), U("PositionAccuracy", 1)>> \o Place, 46, 112)
    BY <1>11, <1>12, JoinSpans
  <1>15. Span(r, Motion, 46, 139)
    BY <1>14, <1>13, JoinSpans DEF Motion
  <1>16. Span(r, <<Blank(4), S("Name", 120), U("Type", 8)>>, 139, 271)
    BY <1>6, Span3
  <1>17. Span(r, Dimension, 271, 301)
    BY <1>7, Span4 DEF Dimension
  <1>18. Span(r, <<U("FixType", 4), U("Raim", 1), U("Dte", 1),
                    U("AssignedMode", 1), Blank(4)>>, 301, 312)
    BY <1>8, Span5
  <1>19. Span(r, Header
                 \o <<Blank(8)>>, 0, 46)
    BY <1>9, <1>10, JoinSpans
  <1>20. Span(r, Header
                 \o <<Blank(8)>>
                 \o Motion, 0, 139)
    BY <1>19, <1>15, JoinSpans
  <1>21. Span(r, Header
                 \o <<Blank(8)>>
                 \o Motion
                 \o <<Blank(4), S("Name", 120), U("Type", 8)>>, 0, 271)
    BY <1>20, <1>16, JoinSpans
  <1>22. Span(r, Header
                 \o <<Blank(8)>>
                 \o Motion
                 \o <<Blank(4), S("Name", 120), U("Type", 8)>>
                 \o Dimension, 0, 301)
    BY <1>21, <1>17, JoinSpans
  <1> QED BY <1>22, <1>18, JoinSpans DEF Encoder, r

LEMMA AidsToNavigationLayout ==
  Span(Reads("AidsToNavigation"), Encoder["AidsToNavigation"], 0, 272)
  <1> DEFINE r == Reads("AidsToNavigation")
  <1> USE DEF Reads, HeaderRead, Decoder, DimensionAt, MotionAt, UAt, IAt, RAt, DAt, SAt,
              At, Step, GoodField, U, I, R, D, S, Blank, Pushed
  <1>1. /\ Step(r, U("MessageID", 6), 0, 6)
        /\ Step(r, U("RepeatIndicator", 2), 6, 8)
        /\ Step(r, U("UserID", 30), 8, 38)
    OBVIOUS
  <1>2. /\ Step(r, U("Type", 5), 38, 43)
        /\ Step(r, S("Name", 120), 43, 163)
        /\ Step(r, U("PositionAccuracy", 1), 163, 164)
    OBVIOUS
  <1>3. /\ Step(r, D("Longitude", 28), 164, 192)
        /\ Step(r, D("Latitude", 27), 192, 219)
    OBVIOUS
  <1>4. /\ Step(r, U("A", 9), 219, 228)
        /\ Step(r, U("B", 9), 228, 237)
        /\ Step(r, U("C", 6), 237, 243)
        /\ Step(r, U("D", 6), 243, 249)
    OBVIOUS
  <1>5. /\ Step(r, U("FixType", 4), 249, 253)
        /\ Step(r, U("Timestamp", 6), 253, 259)
        /\ Step(r, U("OffPosition", 1), 259, 260)
        /\ Step(r, U("AtoN", 8), 260, 268)
        /\ Step(r, U("Raim", 1), 268, 269)
    OBVIOUS
  <1>6. /\ Step(r, U("VirtualAtoN", 1), 269, 270)
        /\ Step(r, U("AssignedMode", 1), 270, 271)
        /\ Step(r, Blank(1), 271, 272)
    OBVIOUS
  <1> HIDE DEF r, Reads, HeaderRead, Decoder, DimensionAt, MotionAt, UAt, IAt, RAt, DAt,
               SAt, At, Step, GoodField, U, I, R, D, S, Blank, Pushed
  <1>7. Span(r, Header, 0, 38)
    BY <1>1, Span3 DEF Header
  <1>8. Span(r, <<U("Type", 5), S("Name", 120), U("PositionAccuracy", 1)>>, 38, 164)
    BY <1>2, Span3
  <1>9. Span(r, Place, 164, 219)
    BY <1>3, Span2 DEF Place
  <1>10. Span(r, Dimension, 219, 249)
    BY <1>4, Span4 DEF Dimension
  <1>11. Span(r, <<U("FixType", 4), U("Timestamp", 6),
                    U("OffPosition", 1), U("AtoN", 8), U("Raim", 1),
                    U("VirtualAtoN", 1), U("AssignedMode", 1), Blank(1)>>, 249, 272)
    BY <1>5, <1>6, Span8
  <1>12. Span(r, Header
                 \o <<U("Type", 5), S("Name", 120), U("PositionAccuracy", 1)>>, 0, 164)
    BY <1>7, <1>8, JoinSpans
  <1>13. Span(r, Header
                 \o <<U("Type", 5), S("Name", 120), U("PositionAccuracy", 1)>>
                 \o Place, 0, 219)
    BY <1>12, <1>9, JoinSpans
  <1>14. Span(r, Header
                 \o <<U("Type", 5), S("Name", 120), U("PositionAccuracy", 1)>>
                 \o Place
                 \o Dimension, 0, 249)
    BY <1>13, <1>10, JoinSpans
  <1> QED BY <1>14, <1>11, JoinSpans DEF Encoder, r

LEMMA StaticDataALayout ==
  Span(Reads("StaticDataA"), Encoder["StaticDataA"], 0, 160)
  <1> DEFINE r == Reads("StaticDataA")
  <1> USE DEF Reads, HeaderRead, Decoder, DimensionAt, MotionAt, UAt, IAt, RAt, DAt, SAt,
              At, Step, GoodField, U, I, R, D, S, Blank, Pushed
  <1>1. /\ Step(r, U("MessageID", 6), 0, 6)
        /\ Step(r, U("RepeatIndicator", 2), 6, 8)
        /\ Step(r, U("UserID", 30), 8, 38)
    OBVIOUS
  <1>2. /\ Step(r, U("PartNumber", 2), 38, 40)
        /\ Step(r, S("Name", 120), 40, 160)
    OBVIOUS
  <1> HIDE DEF r, Reads, HeaderRead, Decoder, DimensionAt, MotionAt, UAt, IAt, RAt, DAt,
               SAt, At, Step, GoodField, U, I, R, D, S, Blank, Pushed
  <1>3. Span(r, Header, 0, 38)
    BY <1>1, Span3 DEF Header
  <1>4. Span(r, <<U("PartNumber", 2), S("Name", 120)>>, 38, 160)
    BY <1>2, Span2
  <1> QED BY <1>3, <1>4, JoinSpans DEF Encoder, r

LEMMA StaticDataBLayout ==
  Span(Reads("StaticDataB"), Encoder["StaticDataB"], 0, 168)
  <1> DEFINE r == Reads("StaticDataB")
  <1> USE DEF Reads, HeaderRead, Decoder, DimensionAt, MotionAt, UAt, IAt, RAt, DAt, SAt,
              At, Step, GoodField, U, I, R, D, S, Blank, Pushed
  <1>1. /\ Step(r, U("MessageID", 6), 0, 6)
        /\ Step(r, U("RepeatIndicator", 2), 6, 8)
        /\ Step(r, U("UserID", 30), 8, 38)
    OBVIOUS
  <1>2. /\ Step(r, U("PartNumber", 2), 38, 40)
        /\ Step(r, U("ShipType", 8), 40, 48)
        /\ Step(r, S("VendorIDName", 18), 48, 66)
        /\ Step(r, U("VenderIDModel", 4), 66, 70)
        /\ Step(r, U("VenderIDSerial", 20), 70, 90)
    OBVIOUS
  <1>3. Step(r, S("CallSign", 42), 90, 132)
    OBVIOUS
  <1>4. /\ Step(r, U("A", 9), 132, 141)
        /\ Step(r, U("B", 9), 141, 150)
        /\ Step(r, U("C", 6), 150, 156)
        /\ Step(r, U("D", 6), 156, 162)
    OBVIOUS
  <1>5. Step(r, U("Spare", 6), 162, 168)
    OBVIOUS
  <1> HIDE DEF r, Reads, HeaderRead, Decoder, DimensionAt, MotionAt, UAt, IAt, RAt, DAt,
               SAt, At, Step, GoodField, U, I, R, D, S, Blank, Pushed
  <1>6. Span(r, Header, 0, 38)
    BY <1>1, Span3 DEF Header
  <1>7. Span(r, <<U("PartNumber", 2), U("ShipType", 8),
                    S("VendorIDName", 18), U("VenderIDModel", 4),
                    U("VenderIDSerial", 20), S("CallSign", 42)>>, 38, 132)
    BY <1>2, <1>3, Span6
  <1>8. Span(r, Dimension, 132, 162)
    BY <1>4, Span4 DEF Dimension
  <1>9. Span(r, <<U("Spare", 6)>>, 162, 168)
    BY <1>5, Span1
  <1>10. Span(r, Header
                 \o <<U("PartNumber", 2), U("ShipType", 8),
                    S("VendorIDName", 18), U("VenderIDModel", 4),
                    U("VenderIDSerial", 20), S("CallSign", 42)>>, 0, 132)
    BY <1>6, <1>7, JoinSpans
  <1>11. Span(r, Header
                 \o <<U("PartNumber", 2), U("ShipType", 8),
                    S("VendorIDName", 18), U("VenderIDModel", 4),
                    U("VenderIDSerial", 20), S("CallSign", 42)>>
                 \o Dimension, 0, 162)
    BY <1>10, <1>8, JoinSpans
  <1> QED BY <1>11, <1>9, JoinSpans DEF Encoder, r

LEMMA LongRangeLayout ==
  Span(Reads("LongRange"), Encoder["LongRange"], 0, 96)
  <1> DEFINE r == Reads("LongRange")
  <1> USE DEF Reads, HeaderRead, Decoder, DimensionAt, MotionAt, UAt, IAt, RAt, DAt, SAt,
              At, Step, GoodField, U, I, R, D, S, Blank, Pushed
  <1>1. /\ Step(r, U("MessageID", 6), 0, 6)
        /\ Step(r, U("RepeatIndicator", 2), 6, 8)
        /\ Step(r, U("UserID", 30), 8, 38)
    OBVIOUS
  <1>2. /\ Step(r, U("PositionAccuracy", 1), 38, 39)
        /\ Step(r, U("Raim", 1), 39, 40)
        /\ Step(r, U("NavigationalStatus", 4), 40, 44)
        /\ Step(r, D("Longitude", 18), 44, 62)
        /\ Step(r, D("Latitude", 17), 62, 79)
    OBVIOUS
  <1>3. /\ Step(r, R("Sog", 6), 79, 85)
        /\ Step(r, R("Cog", 9), 85, 94)
        /\ Step(r, U("PositionLatency", 1), 94, 95)
        /\ Step(r, U("Spare", 1), 95, 96)
    OBVIOUS
  <1> HIDE DEF r, Reads, HeaderRead, Decoder, DimensionAt, MotionAt, UAt, IAt, RAt, DAt,
               SAt, At, Step, GoodField, U, I, R, D, S, Blank, Pushed
  <1>4. Span(r, Header, 0, 38)
    BY <1>1, Span3 DEF Header
  <1>5. Span(r, <<U("PositionAccuracy", 1), U("Raim", 1),
                    U("NavigationalStatus", 4), D("Longitude", 18),
                    D("Latitude", 17), R("Sog", 6), R("Cog", 9),
                    U("PositionLatency", 1), U("Spare", 1)>>, 38, 96)
    BY <1>2, <1>3, Span9
  <1> QED BY <1>4, <1>5, JoinSpans DEF Encoder, r

-----------------------------------------------------------------------------
(***************************************************************************)
(* Fields: what is pushed of one, and what is read where it stands.        *)
(***************************************************************************)
LEMMA PushUintSeq ==
  ASSUME NEW v \in Int, NEW w \in Width
  PROVE  PushUint(v, w) \in Seq(Bit) /\ Len(PushUint(v, w)) = w
  BY PushUintTyped

\* Six bits are a number below 64, and any such number six bits.
LEMMA SixPushed ==
  ASSUME NEW x \in Int
  PROVE  PushUint(x, 6) \in Seq(Bit) /\ Len(PushUint(x, 6)) = 6
  <1>1. 6 \in Width
    BY TwoToSix
  <1>2. PushUint(x, 6) \in Seq(Bit)
    BY <1>1, PushUintSeq
  <1>3. Len(PushUint(x, 6)) = 6
    BY <1>1, PushUintSeq
  <1> QED BY <1>2, <1>3

\* Kept folded: the bits of v, w of them, stand in bits from a on.
Stands(bits, a, w, v) ==
  /\ a + w <= Len(bits)
  /\ \A j \in 1..w : bits[a + j] = PushUint(v, w)[j]

\* What stands in the bits is what is read there.
LEMMA UintReadsPushed ==
  ASSUME NEW bits \in Seq(Bit), NEW a \in Nat, NEW w \in Width, NEW v \in Int,
         Stands(bits, a, w, v)
  PROVE  Uint(bits, a, w) = v % TwoTo[w]
  <1> DEFINE s == SubSeq(bits, a + 1, a + w)
             t == PushUint(v, w)
  <1>1. w \in Nat /\ a + w \in Nat /\ a <= a + w /\ a + w <= Len(bits) /\ (a + w) - a = w
    BY WidthFacts DEF Stands
  <1>2. s \in Seq(Bit) /\ Len(s) = w /\ \A j \in 1..w : s[j] = bits[a + j]
    <2>1. s \in Seq(Bit) /\ Len(s) = (a + w) - a
          /\ \A j \in 1..(a + w) - a : s[j] = bits[a + j]
      BY <1>1, SubSeqFacts
    <2> QED BY <1>1, <2>1
  <1>3. t \in Seq(Bit) /\ Len(t) = w
    BY PushUintTyped
  <1>4. \A j \in 1..w : s[j] = t[j]
    BY <1>2 DEF Stands
  <1>5. s = t
    <2> HIDE DEF s, t
    <2> QED BY <1>2, <1>3, <1>4, SameSeq
  <1>6. ~(a + w > Len(bits))
    BY <1>1
  <1>7. Uint(bits, a, w) = Number(s)
    BY <1>6 DEF Uint
  <1> QED BY <1>5, <1>7, NumberOfPushed

\* Capitals.
LEMMA ToUpperFacts ==
  ASSUME NEW c \in Nat
  PROVE  ToUpper(c) \in Nat /\ SixBits(c) \in Sixbit
  BY SixbitFacts DEF ToUpper, SixBits

\* The six bits of the i-th character of a field, which may be past the text's end.
Char(s, i) == IF i <= Len(s) THEN SixBits(s[i]) ELSE 0

\* Where the i-th character of a field stands.
LEMMA SixthFacts ==
  ASSUME NEW w \in Nat, w \in {18, 42, 120}
  PROVE  w \div 6 \in Nat /\ w \div 6 > 0 /\ w = 6 * (w \div 6)
  OBVIOUS

\* A character is six bits.
LEMMA CharTyped ==
  ASSUME NEW s \in Seq(Nat), NEW i \in Nat, i > 0
  PROVE  Char(s, i) \in Sixbit
  <1>1. CASE i <= Len(s)
    <2>1. s[i] \in Nat
      BY <1>1
    <2> QED BY <1>1, <2>1, ToUpperFacts DEF Char
  <1>2. CASE ~(i <= Len(s))
    BY <1>2, SixbitFacts DEF Char
  <1> QED BY <1>1, <1>2

\* Kept folded: the characters of s stand one after the other.
Spelled(s, w) ==
  \A i \in 1..(w \div 6) : \A j \in 1..6 :
    PushStr(s, w)[6 * (i - 1) + j] = PushUint(Char(s, i), 6)[j]

\* Text is sent six bits a character.
LEMMA PushStrFacts ==
  ASSUME NEW s \in Seq(Nat), NEW w \in Nat, w \in {18, 42, 120}
  PROVE  /\ PushStr(s, w) \in Seq(Bit) /\ Len(PushStr(s, w)) = w
         /\ Spelled(s, w)
  <1> DEFINE n == w \div 6
             seqs == [i \in 1..n |-> PushUint(Char(s, i), 6)]
  <1>1. n \in Nat /\ n > 0 /\ w = 6 * n
    BY SixthFacts
  <1> HIDE DEF n
  <1>2. \A i \in 1..n : Char(s, i) \in Sixbit
    BY CharTyped
  <1>3. \A i \in 1..n : seqs[i] \in Seq(Bit) /\ Len(seqs[i]) = 6
    <2>1. ASSUME NEW x \in Sixbit
          PROVE  PushUint(x, 6) \in Seq(Bit) /\ Len(PushUint(x, 6)) = 6
      <3>1. x \in Int
        BY SixbitFacts
      <3> QED BY <3>1, SixPushed
    <2> QED BY <1>2, <2>1
  <1>4. /\ seqs \in Seq(Seq(Bit)) /\ Len(seqs) = n
        /\ \A i \in 1..n : seqs[i] = PushUint(Char(s, i), 6)
    <2>1. seqs \in [1..n -> Seq(Bit)]
      BY <1>3
    <2>2. \A i \in 1..n : seqs[i] = PushUint(Char(s, i), 6)
      OBVIOUS
    <2> HIDE DEF seqs
    <2> QED BY <1>1, <2>1, <2>2
  <1>5. PushStr(s, w) = FlattenSeq(seqs)
    BY DEF PushStr, Char, n
  <1> HIDE DEF seqs
  <1>6. /\ FlattenSeq(seqs) \in Seq(Bit) /\ Len(FlattenSeq(seqs)) = 6 * Len(seqs)
        /\ \A k \in 1..Len(seqs) : \A j \in 1..6 :
             FlattenSeq(seqs)[6 * (k - 1) + j] = seqs[k][j]
    BY <1>1, <1>3, <1>4, SixesJoined
  <1>7. \A i \in 1..n : \A j \in 1..6 :
          PushStr(s, w)[6 * (i - 1) + j] = PushUint(Char(s, i), 6)[j]
    <2> SUFFICES ASSUME NEW i \in 1..n, NEW j \in 1..6
                 PROVE  PushStr(s, w)[6 * (i - 1) + j] = PushUint(Char(s, i), 6)[j]
      OBVIOUS
    <2>1. FlattenSeq(seqs)[6 * (i - 1) + j] = seqs[i][j]
      <3>1. i \in 1..Len(seqs)
        BY <1>4
      <3>2. \A x \in 1..6 : FlattenSeq(seqs)[6 * (i - 1) + x] = seqs[i][x]
        BY <1>6, <3>1
      <3> QED BY <3>2
    <2>2. seqs[i] = PushUint(Char(s, i), 6)
      BY <1>4
    <2> QED BY <1>5, <2>1, <2>2, Zenon
  <1>8. PushStr(s, w) \in Seq(Bit) /\ Len(PushStr(s, w)) = w
    BY <1>1, <1>4, <1>5, <1>6
  <1> QED BY <1>7, <1>8, Zenon DEF n, Spelled

LEMMA PushStrSeq ==
  ASSUME NEW s \in Seq(Nat), NEW w \in Nat, w \in {18, 42, 120}
  PROVE  PushStr(s, w) \in Seq(Bit) /\ Len(PushStr(s, w)) = w
  <1>1. PushStr(s, w) \in Seq(Bit)
    BY PushStrFacts
  <1>2. Len(PushStr(s, w)) = w
    BY PushStrFacts
  <1> QED BY <1>1, <1>2

\* What is pushed of a number.
Sent(f, v) ==
  CASE f.as = "unsigned" -> v
    [] f.as = "signed"   -> v % TwoTo[f.width]
    [] f.as = "real"     -> Unsigned(Round(v))
    [] f.as = "degrees"  -> Round(v) % TwoTo[f.width]

\* Fields that hold numbers.
Numeric(f) == f.as \in {"unsigned", "signed", "real", "degrees"}

\* Rounding moves a value by half a unit at most.
LEMMA RoundFacts ==
  ASSUME NEW v \in Int
  PROVE  /\ Round(v) \in Int /\ Distance(v, 10 * Round(v)) <= 5
         /\ Unsigned(Round(v)) \in Nat
         /\ \A m \in Nat : v \in 0..10 * m => Round(v) \in 0..m
         /\ \A m \in Nat : Distance(v, 0) <= 10 * m => Round(v) \in -m..m
  <1>1. CASE v >= 0
    <2> DEFINE q == (v + 5) \div 10
    <2>1. q \in Nat /\ 10 * q <= v + 5 /\ v + 5 < 10 * q + 10
      BY <1>1
    <2>2. Round(v) = q
      BY <1>1 DEF Round
    <2> HIDE DEF q
    <2> QED BY <1>1, <2>1, <2>2 DEF Distance, Unsigned
  <1>2. CASE ~(v >= 0)
    <2> DEFINE q == (5 - v) \div 10
    <2>1. q \in Nat /\ 10 * q <= 5 - v /\ 5 - v < 10 * q + 10
      BY <1>2
    <2>2. Round(v) = -q
      BY <1>2 DEF Round
    <2> HIDE DEF q
    <2> QED BY <1>2, <2>1, <2>2 DEF Distance, Unsigned
  <1> QED BY <1>1, <1>2

LEMMA ModTyped ==
  ASSUME NEW v \in Int, NEW m \in Positive
  PROVE  v % m \in Int /\ v % m \in Nat /\ v % m < m
  BY DEF Positive

\* What is pushed of a field is as wide as the field.
LEMMA PushFacts ==
  ASSUME NEW f, NEW v, GoodField(f), f.as # "blank", Holds(f, v)
  PROVE  /\ Push(f, v) \in Seq(Bit) /\ Len(Push(f, v)) = f.width
         /\ Numeric(f) => /\ f.width \in Width /\ f.width > 0 /\ v \in Int
                          /\ Sent(f, v) \in Int
                          /\ Push(f, v) = PushUint(Sent(f, v), f.width)
         /\ ~Numeric(f) => /\ f.as = "string" /\ f.width \in {18, 42, 120} /\ f.width \in Nat
                           /\ v \in Seq(Nat) /\ Push(f, v) = PushStr(v, f.width)
  <1>1. CASE Numeric(f)
    <2>1. f.width \in Width /\ f.width > 0 /\ f.width \in Nat /\ v \in Int
      BY <1>1, WidthFacts DEF GoodField, Numeric, Holds
    <2>2. TwoTo[f.width] \in Positive
      BY <2>1, TwoToFacts
    <2>3. Round(v) \in Int /\ Unsigned(Round(v)) \in Int
      BY <2>1, RoundFacts
    <2>4. v % TwoTo[f.width] \in Int /\ Round(v) % TwoTo[f.width] \in Int
      BY <2>1, <2>2, <2>3, ModTyped
    <2>5. Sent(f, v) \in Int
      BY <1>1, <2>1, <2>3, <2>4 DEF Sent, Numeric
    <2>6. Push(f, v) = PushUint(Sent(f, v), f.width)
      BY <1>1 DEF Push, Sent, Numeric
    <2>7. PushUint(Sent(f, v), f.width) \in Seq(Bit) /\ Len(PushUint(Sent(f, v), f.width)) = f.width
      BY <2>1, <2>5, PushUintTyped
    <2> QED BY <1>1, <2>1, <2>5, <2>6, <2>7
  <1>2. CASE ~Numeric(f)
    <2>1. f.as = "string" /\ f.width \in {18, 42, 120} /\ f.width \in Nat
          /\ v \in Seq(Nat)
      BY <1>2 DEF GoodField, Numeric, Holds
    <2>2. Push(f, v) = PushStr(v, f.width)
      BY <2>1 DEF Push
    <2>3. PushStr(v, f.width) \in Seq(Bit) /\ Len(PushStr(v, f.width)) = f.width
      BY <2>1, PushStrSeq
    <2> QED BY <1>2, <2>1, <2>2, <2>3
  <1> QED BY <1>1, <1>2

\* Remainders of numbers that fit.
LEMMA ModSmall ==
  ASSUME NEW v \in Int, NEW m \in Positive
  PROVE  /\ v \in 0..m - 1 => v % m = v
         /\ v \in -m..-1 => v % m = v + m
         /\ (v % m) % m = v % m
  <1>0. m \in Nat /\ m > 0
    BY DEF Positive
  <1>1. ASSUME v \in 0..m - 1 PROVE v % m = v
    <2>1. (m * 0 + v) % m = v
      BY <1>1, DivUnique
    <2>2. m * 0 + v = v
      BY <1>0
    <2> QED BY <2>1, <2>2
  <1>2. ASSUME v \in -m..-1 PROVE v % m = v + m
    <2>1. v + m \in 0..m - 1 /\ -1 \in Int
      BY <1>0, <1>2
    <2>2. (m * (-1) + (v + m)) % m = v + m
      BY <2>1, DivUnique
    <2>3. m * (-1) + (v + m) = v
      BY <1>0
    <2> QED BY <2>2, <2>3
  <1>3. (v % m) % m = v % m
    <2> DEFINE r == v % m
    <2>1. r \in 0..m - 1
      BY DivMod
    <2> HIDE DEF r
    <2>2. (m * 0 + r) % m = r
      BY <2>1, DivUnique
    <2>3. m * 0 + r = r
      BY <1>0, <2>1
    <2>4. r % m = r
      BY <2>2, <2>3
    <2> QED BY <2>4 DEF r
  <1> QED BY <1>1, <1>2, <1>3

\* Two's complement: a signed number that fits is read back.
LEMMA SignedReads ==
  ASSUME NEW bits \in Seq(Bit), NEW a \in Nat, NEW w \in Width, w > 0, NEW v \in Int,
         v \in -TwoTo[w - 1]..(TwoTo[w - 1] - 1),
         Stands(bits, a, w, v % TwoTo[w])
  PROVE  SignedInt(bits, a, w) = v
  <1> DEFINE m == TwoTo[w - 1]
             n == TwoTo[w]
             x == v % n
  <1>1. w - 1 \in Width /\ m \in Nat /\ m > 0 /\ n = 2 * m /\ n \in Positive /\ n \in Nat
    BY TwoToFacts
  <1>2. x \in Int
    BY <1>1, ModTyped
  <1>3. Uint(bits, a, w) = x % n
    BY <1>2, UintReadsPushed
  <1>4. x % n = x
    BY <1>1, ModSmall
  <1>5. x = IF v >= 0 THEN v ELSE v + n
    <2>1. CASE v >= 0
      <3>1. v \in 0..n - 1
        BY <1>1, <2>1
      <3> QED BY <1>1, <2>1, <3>1, ModSmall
    <2>2. CASE ~(v >= 0)
      <3>1. v \in -n..-1
        BY <1>1, <2>2
      <3> QED BY <1>1, <2>2, <3>1, ModSmall
    <2> QED BY <2>1, <2>2
  <1>6. SignedInt(bits, a, w) = IF x >= m THEN x - n ELSE x
    BY <1>3, <1>4 DEF SignedInt
  <1> HIDE DEF x, n, m
  <1>7. v >= -m /\ v < m
    BY <1>1 DEF m
  <1> QED BY <1>1, <1>5, <1>6, <1>7

\* What a field is read as from a on.
ReadAt(bits, f, a) == Read(bits, At(f.field, a, f.width, f.as))

\* What was pushed of v in f stands from a on.
Placed(bits, f, a, v) ==
  a + f.width <= Len(bits) /\ \A j \in 1..f.width : bits[a + j] = Push(f, v)[j]

\* A number that fits its field is read back, to half a unit.
LEMMA NumericHeard ==
  ASSUME NEW f, NEW v, GoodField(f), Numeric(f), Holds(f, v),
         NEW bits \in Seq(Bit), NEW a \in Nat, Placed(bits, f, a, v), Fits(f, v)
  PROVE  /\ f.as \in {"unsigned", "signed"} => ReadAt(bits, f, a) = v
         /\ f.as = "degrees" => ReadAt(bits, f, a) = 10 * Round(v)
         /\ f.as \in {"real", "degrees"} => Distance(v, ReadAt(bits, f, a)) <= 5
  <1> DEFINE w == f.width
  <1>1. /\ f.as # "blank" /\ w \in Width /\ w > 0 /\ v \in Int /\ Sent(f, v) \in Int
        /\ Push(f, v) = PushUint(Sent(f, v), w)
    <2>1. f.as # "blank"
      BY DEF Numeric
    <2> QED BY <2>1, PushFacts
  <1>2. Stands(bits, a, w, Sent(f, v))
    BY <1>1 DEF Stands, Placed
  <1>3. Uint(bits, a, w) = Sent(f, v) % TwoTo[w]
    BY <1>1, <1>2, UintReadsPushed
  <1>4. /\ TwoTo[w] \in Positive /\ TwoTo[w] \in Nat /\ TwoTo[w] > 0
        /\ TwoTo[w - 1] \in Nat /\ TwoTo[w - 1] > 0
    BY <1>1, TwoToFacts
  <1>5. /\ Round(v) \in Int /\ Distance(v, 10 * Round(v)) <= 5
        /\ \A m \in Nat : v \in 0..10 * m => Round(v) \in 0..m
        /\ \A m \in Nat : Distance(v, 0) <= 10 * m => Round(v) \in -m..m
    BY <1>1, RoundFacts
  <1> HIDE DEF w
  <1>6. CASE f.as = "unsigned"
    <2>1. v \in 0..TwoTo[w] - 1 /\ Sent(f, v) = v
      BY <1>4, <1>6 DEF Fits, Holds, Sent, w
    <2>2. v % TwoTo[w] = v
      BY <1>1, <1>4, <2>1, ModSmall
    <2>3. ReadAt(bits, f, a) = Uint(bits, a, w)
      BY <1>6 DEF ReadAt, Read, At, w
    <2> QED BY <1>3, <1>6, <2>1, <2>2, <2>3
  <1>7. CASE f.as = "signed"
    <2>1. v \in -TwoTo[w - 1]..(TwoTo[w - 1] - 1) /\ Sent(f, v) = v % TwoTo[w]
      BY <1>7 DEF Fits, Sent, w
    <2>2. SignedInt(bits, a, w) = v
      BY <1>1, <1>2, <2>1, SignedReads
    <2>3. ReadAt(bits, f, a) = SignedInt(bits, a, w)
      BY <1>7 DEF ReadAt, Read, At, w
    <2> QED BY <1>7, <2>2, <2>3
  <1>8. CASE f.as = "real"
    <2>1. v \in 0..10 * (TwoTo[w] - 1) /\ Sent(f, v) = Unsigned(Round(v))
      BY <1>8 DEF Fits, Sent, w
    <2>2. Round(v) \in 0..TwoTo[w] - 1
      <3>1. TwoTo[w] - 1 \in Nat
        BY <1>4
      <3> QED BY <1>5, <2>1, <3>1
    <2>3. Sent(f, v) = Round(v)
      BY <1>4, <2>1, <2>2 DEF Unsigned
    <2>4. Round(v) % TwoTo[w] = Round(v)
      BY <1>4, <1>5, <2>2, ModSmall
    <2>5. ReadAt(bits, f, a) = 10 * Uint(bits, a, w)
      BY <1>8 DEF ReadAt, Read, At, w
    <2> QED BY <1>3, <1>5, <1>8, <2>3, <2>4, <2>5
  <1>9. CASE f.as = "degrees"
    <2>1. Distance(v, 0) <= 10 * (TwoTo[w - 1] - 1) /\ Sent(f, v) = Round(v) % TwoTo[w]
      BY <1>9 DEF Fits, Sent, w
    <2>2. Round(v) \in -TwoTo[w - 1]..(TwoTo[w - 1] - 1)
      <3>1. TwoTo[w - 1] - 1 \in Nat
        BY <1>4
      <3>2. Round(v) \in -(TwoTo[w - 1] - 1)..(TwoTo[w - 1] - 1)
        BY <1>5, <2>1, <3>1
      <3> QED BY <1>4, <3>2
    <2>3. SignedInt(bits, a, w) = Round(v)
      BY <1>1, <1>2, <1>5, <2>1, <2>2, SignedReads
    <2>4. ReadAt(bits, f, a) = 10 * SignedInt(bits, a, w)
      BY <1>9 DEF ReadAt, Read, At, w
    <2> QED BY <1>5, <1>9, <2>3, <2>4
  <1> QED BY <1>6, <1>7, <1>8, <1>9 DEF Numeric

\* The least of a set is what Min says.
LEMMA MinFacts ==
  ASSUME NEW T, T \subseteq Nat, NEW m \in Nat, m \in T, \A x \in T : m <= x
  PROVE  Min(T) = m
  <1>1. m \in T /\ \A y \in T : m <= y
    OBVIOUS
  <1>2. Min(T) \in T /\ \A y \in T : Min(T) <= y
    BY <1>1 DEF Min
  <1>3. Min(T) \in Nat /\ Min(T) <= m /\ m <= Min(T)
    BY <1>1, <1>2
  <1> QED BY <1>3

\* What six bits and back make of a character that can be sent.
LEMMA SendableFacts ==
  ASSUME NEW c \in Nat, Sendable(c)
  PROVE  /\ SixBits(c) \in Sixbit /\ SixBits(c) # 0
         /\ (IF SixBits(c) < 32 THEN SixBits(c) + 64 ELSE SixBits(c)) = ToUpper(c)
  <1>1. (32 <= c /\ c <= 95 /\ c # 64) \/ (97 <= c /\ c <= 122)
    BY DEF Sendable
  <1> QED BY <1>1, SixbitFacts DEF ToUpper, SixBits

\* The first zero of codes that are nonzero up to k.
LEMMA StopFacts ==
  ASSUME NEW n \in Nat, NEW k \in 0..n, NEW codes \in [1..n -> Nat],
         \A i \in 1..k : codes[i] # 0, k < n => codes[k + 1] = 0
  PROVE  SelectInSeq(codes, LAMBDA c : c = 0) = IF k < n THEN k + 1 ELSE 0
  <1> DEFINE T == {i \in 1..n : codes[i] = 0}
  <1>1. Len(codes) = n
    OBVIOUS
  <1>2. SelectInSeq(codes, LAMBDA c : c = 0) = IF T # {} THEN Min(T) ELSE 0
    BY <1>1 DEF SelectInSeq
  <1>3. T \subseteq Nat /\ \A i \in T : i > k
    OBVIOUS
  <1>4. CASE k < n
    <2>1. k + 1 \in Nat /\ k + 1 \in T /\ \A i \in T : k + 1 <= i
      BY <1>3, <1>4
    <2> HIDE DEF T
    <2>2. Min(T) = k + 1
      BY <1>3, <2>1, MinFacts
    <2> QED BY <1>2, <1>4, <2>1, <2>2
  <1>5. CASE ~(k < n)
    <2>1. T = {}
      BY <1>3, <1>5
    <2> QED BY <1>2, <1>5, <2>1
  <1> QED BY <1>4, <1>5

\* Six bits where they stand.
LEMMA SixRead ==
  ASSUME NEW bits \in Seq(Bit), NEW b \in Nat, NEW c \in Int, Stands(bits, b, 6, c)
  PROVE  Uint(bits, b, 6) = c % 64
  <1>1. 6 \in Width /\ TwoTo[6] = 64
    BY TwoToSix
  <1>2. Uint(bits, b, 6) = c % TwoTo[6]
    BY <1>1, UintReadsPushed
  <1> QED BY <1>1, <1>2

\* A character of text that was sent.
LEMMA PushStrAt ==
  ASSUME NEW s \in Seq(Nat), NEW w \in Nat, w \in {18, 42, 120},
         NEW n \in Nat, n = w \div 6, NEW i \in 1..n, NEW j \in 1..6
  PROVE  PushStr(s, w)[6 * (i - 1) + j] = PushUint(Char(s, i), 6)[j]
  <1>1. \A k \in 1..(w \div 6) : \A x \in 1..6 :
          PushStr(s, w)[6 * (k - 1) + x] = PushUint(Char(s, k), 6)[x]
    <2>1. Spelled(s, w)
      BY PushStrFacts
    <2> QED BY <2>1, Zenon DEF Spelled
  <1>2. i \in 1..(w \div 6)
    OBVIOUS
  <1>3. \A x \in 1..6 : PushStr(s, w)[6 * (i - 1) + x] = PushUint(Char(s, i), 6)[x]
    BY <1>1, <1>2, Zenon
  <1> QED BY <1>3, Zenon

\* The codes that are read are those of the text.
LEMMA CharsHeard ==
  ASSUME NEW s, NEW n \in Nat, NEW bits \in Seq(Bit), NEW a \in Nat,
         a + 6 * n <= Len(bits),
         NEW i \in 1..n, Char(s, i) \in Sixbit,
         \A j \in 1..6 : bits[a + (6 * (i - 1) + j)] = PushUint(Char(s, i), 6)[j]
  PROVE  Uint(bits, a + 6 * (i - 1), 6) = Char(s, i)
  <1> DEFINE b == a + 6 * (i - 1)
             c == Char(s, i)
  <1>1. b \in Nat /\ b + 6 <= Len(bits) /\ \A j \in 1..6 : b + j = a + (6 * (i - 1) + j)
    OBVIOUS
  <1>2. c \in Nat /\ c < 64 /\ c \in Int
    BY SixbitFacts
  <1> HIDE DEF b, c
  <1>3. \A j \in 1..6 : bits[b + j] = PushUint(c, 6)[j]
    BY <1>1 DEF c
  <1>4. Stands(bits, b, 6, c)
    BY <1>1, <1>3 DEF Stands
  <1>5. Uint(bits, b, 6) = c % 64
    BY <1>1, <1>2, <1>4, SixRead
  <1>6. c % 64 = c
    BY <1>2
  <1> QED BY <1>5, <1>6 DEF b, c

\* Where the text in codes stops, if before their end.
Stop(codes) == SelectInSeq(codes, LAMBDA c : c = 0)

\* The texts a field can send, and the codes it sends of them.
Spellable(s) == \A i \in DOMAIN s : Sendable(s[i])
Coded(codes, s, n) ==
  codes \in [1..n -> Nat] /\ \A i \in 1..n : codes[i] = Char(s, i)

Letters(text) == [i \in DOMAIN text |-> IF text[i] < 32 THEN text[i] + 64 ELSE text[i]]
UpTo(codes, stop) == IF stop = 0 THEN codes ELSE SubSeq(codes, 1, stop - 1)
Capitals(s, k) == [i \in 1..k |-> ToUpper(s[i])]

\* Text is read up to its end and no further.
LEMMA TextHeard ==
  ASSUME NEW s \in Seq(Nat), Spellable(s),
         NEW n \in Nat, NEW k \in Nat, k <= n, k <= Len(s), k < n => k = Len(s),
         NEW codes, Coded(codes, s, n)
  PROVE  Letters(UpTo(codes, Stop(codes))) = Capitals(s, k)
  <1> DEFINE letter(x) == IF x < 32 THEN x + 64 ELSE x
             stop == Stop(codes)
             text == UpTo(codes, stop)
  <1> USE DEF Spellable, Coded
  <1>1. \A i \in 1..k : i \in 1..n /\ i <= Len(s) /\ i \in DOMAIN s /\ s[i] \in Nat
    OBVIOUS
  <1>2. \A i \in 1..k : codes[i] # 0 /\ letter(codes[i]) = ToUpper(s[i])
    <2> SUFFICES ASSUME NEW i \in 1..k
                 PROVE  codes[i] # 0 /\ letter(codes[i]) = ToUpper(s[i])
      OBVIOUS
    <2>1. codes[i] = Char(s, i)
      BY <1>1
    <2>2. Char(s, i) = SixBits(s[i])
      BY <1>1 DEF Char
    <2>3. Sendable(s[i]) /\ s[i] \in Nat
      BY <1>1
    <2> QED BY <2>1, <2>2, <2>3, SendableFacts
  <1>3. k < n => codes[k + 1] = 0
    <2> SUFFICES ASSUME k < n PROVE codes[k + 1] = 0
      OBVIOUS
    <2>1. k + 1 \in 1..n /\ ~(k + 1 <= Len(s))
      OBVIOUS
    <2>2. codes[k + 1] = Char(s, k + 1)
      BY <2>1
    <2> QED BY <2>1, <2>2 DEF Char
  <1>4. stop = IF k < n THEN k + 1 ELSE 0
    <2>1. k \in 0..n /\ \A i \in 1..k : codes[i] # 0
      BY <1>2
    <2> QED BY <1>3, <2>1, StopFacts DEF Stop
  <1> HIDE DEF stop
  <1>5. DOMAIN text = 1..k /\ \A i \in 1..k : text[i] = codes[i]
    <2>1. codes \in Seq(Nat) /\ Len(codes) = n /\ DOMAIN codes = 1..n
      OBVIOUS
    <2>2. CASE k < n
      <3>1. stop = k + 1 /\ stop # 0 /\ stop - 1 = k
        BY <1>4, <2>2
      <3>2. text = SubSeq(codes, 1, k)
        BY <3>1 DEF UpTo
      <3> HIDE DEF text
      <3>3. /\ SubSeq(codes, 1, k) \in Seq(Nat) /\ Len(SubSeq(codes, 1, k)) = k
            /\ \A j \in 1..k : SubSeq(codes, 1, k)[j] = codes[j]
        BY <2>1, PrefixFacts
      <3>4. DOMAIN SubSeq(codes, 1, k) = 1..k
        BY <3>3
      <3> QED BY <3>2, <3>3, <3>4, Zenon
    <2>3. CASE ~(k < n)
      <3>1. stop = 0 /\ k = n
        BY <1>4, <2>3
      <3>2. text = codes
        BY <3>1 DEF UpTo
      <3> HIDE DEF text
      <3> QED BY <2>1, <3>1, <3>2
    <2> QED BY <2>2, <2>3
  <1> HIDE DEF text
  <1>6. \A i \in 1..k : letter(text[i]) = ToUpper(s[i])
    BY <1>2, <1>5
  <1>7. [i \in DOMAIN text |-> letter(text[i])] = [i \in 1..k |-> ToUpper(s[i])]
    <2> HIDE DEF letter
    <2> QED BY <1>5, <1>6
  <1> QED BY <1>7, Zenon DEF letter, text, stop, Letters, Capitals

\* What a text looks like at the other end.
LEMMA LegibleFacts ==
  ASSUME NEW s \in Seq(Nat), NEW w \in Nat, NEW n \in Nat, n = w \div 6,
         NEW k \in Nat, k = IF Len(s) < n THEN Len(s) ELSE n
  PROVE  Legible(s, w) = Trimmed([i \in 1..k |-> ToUpper(s[i])])
  <1> DEFINE upper == [i \in DOMAIN s |-> ToUpper(s[i])]
  <1>1. Min({Len(s), n}) = k
    <2>1. {Len(s), n} \subseteq Nat /\ k \in {Len(s), n}
      OBVIOUS
    <2>2. \A x \in {Len(s), n} : k <= x
      OBVIOUS
    <2> QED BY <2>1, <2>2, MinFacts
  <1>2. upper \in Seq(Nat) /\ Len(upper) = Len(s) /\ \A i \in 1..Len(s) : upper[i] = ToUpper(s[i])
    <2>1. \A i \in 1..Len(s) : s[i] \in Nat
      OBVIOUS
    <2>2. \A i \in 1..Len(s) : ToUpper(s[i]) \in Nat
      BY <2>1, ToUpperFacts
    <2> QED BY <2>2
  <1>3. Legible(s, w) = Trimmed(SubSeq(upper, 1, k))
    BY <1>1 DEF Legible
  <1> HIDE DEF upper
  <1>4. k <= Len(s) /\ \A i \in 1..k : i \in 1..Len(s)
    OBVIOUS
  <1>5. /\ SubSeq(upper, 1, k) \in Seq(Nat) /\ Len(SubSeq(upper, 1, k)) = k
        /\ \A j \in 1..k : SubSeq(upper, 1, k)[j] = upper[j]
    BY <1>2, <1>4, PrefixFacts
  <1>6. SubSeq(upper, 1, k) = [i \in 1..k |-> ToUpper(s[i])]
    BY <1>2, <1>4, <1>5
  <1> QED BY <1>3, <1>6

\* The characters of s stand in bits from a on.
Lettered(bits, a, w, s) ==
  a + w <= Len(bits) /\ \A j \in 1..w : bits[a + j] = PushStr(s, w)[j]

\* Text that can be sent is read back in capitals, cut to its field.
LEMMA StringHeard ==
  ASSUME NEW s \in Seq(Nat), NEW w \in Nat, w \in {18, 42, 120},
         NEW bits \in Seq(Bit), NEW a \in Nat, Lettered(bits, a, w, s), Spellable(s)
  PROVE  String(bits, a, w) = Legible(s, w)
  <1> DEFINE n == w \div 6
             k == IF Len(s) < n THEN Len(s) ELSE n
             codes == [i \in 1..n |-> Uint(bits, a + 6 * (i - 1), 6)]
             stop == SelectInSeq(codes, LAMBDA c : c = 0)
             text == IF stop = 0 THEN codes ELSE SubSeq(codes, 1, stop - 1)
  <1>0. a + w <= Len(bits) /\ \A j \in 1..w : bits[a + j] = PushStr(s, w)[j]
    BY DEF Lettered
  <1>1. n \in Nat /\ w = 6 * n
    BY SixthFacts
  <1>2. \A i \in 1..n : Char(s, i) \in Sixbit
    BY <1>1, CharTyped
  <1>3. \A i \in 1..n : \A j \in 1..6 :
          PushStr(s, w)[6 * (i - 1) + j] = PushUint(Char(s, i), 6)[j]
    <2>1. Spelled(s, w)
      BY PushStrFacts
    <2> QED BY <2>1, Zenon DEF Spelled
  <1>4. String(bits, a, w)
           = Trimmed([i \in DOMAIN text |-> IF text[i] < 32 THEN text[i] + 64 ELSE text[i]])
    <2>1. ~(a + w > Len(bits))
      BY <1>0
    <2> QED BY <2>1, Zenon DEF String
  <1> HIDE DEF n
  <1>5. k \in Nat /\ k <= n /\ k <= Len(s) /\ (k < n => k = Len(s))
    BY <1>1
  <1>6. Legible(s, w) = Trimmed([i \in 1..k |-> ToUpper(s[i])])
    <2> HIDE DEF k
    <2>1. n = w \div 6 /\ k = IF Len(s) < n THEN Len(s) ELSE n
      BY DEF n, k
    <2> QED BY <1>1, <1>5, <2>1, LegibleFacts
  <1> HIDE DEF k
  <1>7. ASSUME NEW i \in 1..n PROVE codes[i] = Char(s, i)
    <2>1. a + 6 * n <= Len(bits)
      BY <1>0, <1>1
    <2>2. ASSUME NEW j \in 1..6
          PROVE  bits[a + (6 * (i - 1) + j)] = PushUint(Char(s, i), 6)[j]
      <3>1. 6 * (i - 1) + j \in 1..w
        BY <1>1
      <3>2. bits[a + (6 * (i - 1) + j)] = PushStr(s, w)[6 * (i - 1) + j]
        BY <1>0, <3>1
      <3>0. \A x \in 1..6 : PushStr(s, w)[6 * (i - 1) + x] = PushUint(Char(s, i), 6)[x]
        BY <1>3, Zenon
      <3>3. PushStr(s, w)[6 * (i - 1) + j] = PushUint(Char(s, i), 6)[j]
        BY <3>0, Zenon
      <3> QED BY <3>2, <3>3, Zenon
    <2>3. Uint(bits, a + 6 * (i - 1), 6) = Char(s, i)
      BY <1>1, <1>2, <2>1, <2>2, CharsHeard
    <2> QED BY <2>3
  <1>8. codes \in [1..n -> Nat]
    <2>1. \A i \in 1..n : codes[i] \in Nat
      BY <1>2, <1>7, SixbitFacts
    <2> QED BY <2>1
  <1> HIDE DEF codes
  <1>11. Spellable(s) /\ Coded(codes, s, n)
    BY <1>7, <1>8 DEF Coded
  <1>9. Letters(UpTo(codes, Stop(codes))) = Capitals(s, k)
    BY <1>1, <1>5, <1>11, TextHeard
  <1> QED BY <1>4, <1>6, <1>9, Zenon DEF Letters, Capitals, UpTo, Stop

-----------------------------------------------------------------------------
(***************************************************************************)
(* Packets: what is decoded of what was encoded.                           *)
(***************************************************************************)
\* What EncodeBits pushes of field f of packet p.
Piece(p, f) == IF f.as = "blank" THEN PushUint(0, f.width) ELSE Push(f, p.is[f.field])

\* A piece is as wide as its field.
LEMMA PieceFacts ==
  ASSUME NEW p, NEW f, GoodField(f), f.as # "blank" => Holds(f, p.is[f.field])
  PROVE  Piece(p, f) \in Seq(Bit) /\ Len(Piece(p, f)) = f.width
  <1>1. CASE f.as = "blank"
    <2>1. f.width \in Width /\ 0 \in Int
      BY <1>1, WidthFacts DEF GoodField
    <2>2. PushUint(0, f.width) \in Seq(Bit) /\ Len(PushUint(0, f.width)) = f.width
      BY <2>1, PushUintSeq
    <2> QED BY <1>1, <2>2 DEF Piece
  <1>2. CASE f.as # "blank"
    <2>1. Push(f, p.is[f.field]) \in Seq(Bit) /\ Len(Push(f, p.is[f.field])) = f.width
      BY <1>2, PushFacts
    <2> QED BY <1>2, <2>1 DEF Piece
  <1> QED BY <1>1, <1>2

\* Field f of packet p stands among its bits where it is read, and only there.
Stood(p, f) ==
  \E a \in Nat : /\ ReadFrom(Reads(p.type), f, a)
                 /\ Placed(EncodeBits(p), f, a, p.is[f.field])

\* A packet is packed as its layout says.
LEMMA PackedFacts ==
  ASSUME NEW p, WellFormed(p), NEW n \in Nat, n > 0,
         Span(Reads(p.type), Encoder[p.type], 0, n), Apart(Reads(p.type))
  PROVE  /\ EncodeBits(p) \in Seq(Bit) /\ Len(EncodeBits(p)) = n
         /\ \A f \in FieldsOf(p.type) :
              GoodField(f) /\ (f.as # "blank" => Stood(p, f))
  <1> DEFINE seg == Encoder[p.type]
             m == Len(seg)
             r == Reads(p.type)
             seqs == [i \in DOMAIN seg |-> Piece(p, seg[i])]
  <1>1. PICK X : seg \in Seq(X)
    BY DEF Span
  <1>2. PICK ends : LaysOut(r, seg, ends) /\ ends[0] = 0 /\ ends[m] = n
    BY DEF Span
  <1>3. m \in Nat /\ m > 0 /\ DOMAIN seg = 1..m
    BY <1>1, <1>2
  <1>4. FieldsOf(p.type) = {seg[k] : k \in 1..m}
    BY <1>3 DEF FieldsOf
  <1>5. \A f \in FieldsOf(p.type) : f.as # "blank" => Holds(f, p.is[f.field])
    BY DEF WellFormed
  <1>6. EncodeBits(p) = FlattenSeq(seqs)
    BY Zenon DEF EncodeBits, Piece
  <1> HIDE DEF seg, r
  <1>7. ends \in [0..m -> Nat] /\ \A k \in 1..m : Step(r, seg[k], ends[k - 1], ends[k])
    BY <1>2 DEF LaysOut
  <1>8. ASSUME NEW k \in 1..m
        PROVE  /\ GoodField(seg[k]) /\ ends[k - 1] \in Nat /\ ends[k] = ends[k - 1] + seg[k].width
               /\ seg[k].as # "blank" => ReadFrom(r, seg[k], ends[k - 1])
    <2>1. Apart(r)
      BY DEF r
    <2> QED BY <1>7, <2>1, ReadOnce DEF Step
  <1>9. ASSUME NEW k \in 1..m
        PROVE  seqs[k] = Piece(p, seg[k]) /\ seqs[k] \in Seq(Bit) /\ Len(seqs[k]) = seg[k].width
    <2>1. seqs[k] = Piece(p, seg[k])
      BY <1>3
    <2>2. seg[k] \in FieldsOf(p.type)
      BY <1>4
    <2> QED BY <1>5, <1>8, <2>1, <2>2, PieceFacts
  <1>10. seqs \in Seq(Seq(Bit)) /\ Len(seqs) = m
    <2>1. seqs \in [1..m -> Seq(Bit)]
      BY <1>3, <1>9
    <2> QED BY <1>3, <2>1
  <1> HIDE DEF seqs, m
  <1>11. Ends(seqs, ends)
    BY <1>2, <1>7, <1>8, <1>9, <1>10 DEF Ends
  <1>12. Len(seqs) > 0
    BY <1>3, <1>10
  <1>13. FlattenSeq(seqs) \in Seq(Bit) /\ Len(FlattenSeq(seqs)) = ends[Len(seqs)]
    BY <1>10, <1>11, <1>12, FlattenFacts
  <1>14. \A k \in 1..Len(seqs) :
              /\ ends[k] \in Nat /\ ends[k - 1] \in Nat
              /\ ends[k] <= ends[Len(seqs)] /\ ends[k] = ends[k - 1] + Len(seqs[k])
              /\ \A j \in 1..Len(seqs[k]) :
                   FlattenSeq(seqs)[ends[k - 1] + j] = seqs[k][j]
    <2>1. Laid(seqs, ends)
      BY <1>10, <1>11, <1>12, FlattenFacts
    <2> QED BY <2>1, Zenon DEF Laid
  <1>15. ASSUME NEW f \in FieldsOf(p.type)
         PROVE  GoodField(f) /\ (f.as # "blank" => Stood(p, f))
    <2>1. PICK k \in 1..m : f = seg[k]
      BY <1>4
    <2>2. GoodField(f)
      BY <1>8, <2>1
    <2>3. ASSUME f.as # "blank" PROVE Stood(p, f)
      <3>1. k \in 1..Len(seqs) /\ Len(seqs[k]) = f.width /\ seqs[k] = Push(f, p.is[f.field])
        BY <1>9, <1>10, <2>1, <2>3 DEF Piece
      <3>2. /\ ends[k - 1] \in Nat /\ ends[k - 1] + f.width <= Len(EncodeBits(p))
            /\ \A j \in 1..f.width :
                 EncodeBits(p)[ends[k - 1] + j] = Push(f, p.is[f.field])[j]
        BY <1>6, <1>13, <1>14, <3>1
      <3>3. Placed(EncodeBits(p), f, ends[k - 1], p.is[f.field])
        BY <3>2 DEF Placed
      <3>4. ReadFrom(r, f, ends[k - 1])
        BY <1>8, <2>1, <2>3
      <3> QED BY <3>2, <3>3, <3>4 DEF Stood, r
    <2> QED BY <2>2, <2>3
  <1> QED BY <1>2, <1>6, <1>10, <1>13, <1>15

\* The types there are.
LEMMA Types ==
  /\ Type = {"PositionReport", "BaseStationReport", "ShipStaticData", "SarAircraft",
             "StandardClassB", "ExtendedClassB", "AidsToNavigation", "StaticDataA",
             "StaticDataB", "LongRange"}
  /\ "Unknown" \notin Type
  BY DEF Type, Encoder

\* The layout of a type: its fields come one after the other, each where it is
\* read, and the whole is as long as the decoder wants it.
Layout(type, n) ==
  /\ n >= 38 /\ n <= 424 /\ Needed[type] <= n
  /\ Span(Reads(type), Encoder[type], 0, n) /\ Apart(Reads(type))

\* No type has a field that is read twice.
LEMMA ReadsApart ==
  ASSUME NEW type \in Type
  PROVE  Apart(Reads(type))
  <1> USE DEF Apart, Reads, HeaderRead, Decoder, DimensionAt, MotionAt, UAt, IAt, RAt, DAt,
              SAt, At
  <1>1. Apart(Reads("PositionReport"))
    OBVIOUS
  <1>2. Apart(Reads("BaseStationReport"))
    OBVIOUS
  <1>3. Apart(Reads("ShipStaticData"))
    OBVIOUS
  <1>4. Apart(Reads("SarAircraft"))
    OBVIOUS
  <1>5. Apart(Reads("StandardClassB"))
    OBVIOUS
  <1>6. Apart(Reads("ExtendedClassB"))
    OBVIOUS
  <1>7. Apart(Reads("AidsToNavigation"))
    OBVIOUS
  <1>8. Apart(Reads("StaticDataA"))
    OBVIOUS
  <1>9. Apart(Reads("StaticDataB"))
    OBVIOUS
  <1>10. Apart(Reads("LongRange"))
    OBVIOUS
  <1> HIDE DEF Apart, Reads
  <1> QED BY <1>1, <1>2, <1>3, <1>4, <1>5, <1>6, <1>7, <1>8, <1>9, <1>10, Types

\* The two tables agree: encode.rs pushes each field of a type where decode.rs
\* reads it, and a message is at least as long as decode.rs wants it.
THEOREM Layouts ==
  ASSUME NEW type \in Type
  PROVE  \E n \in Nat : Layout(type, n)
  <1>1. CASE type = "PositionReport"
    <2>1. Layout(type, 168)
      BY <1>1, PositionReportLayout, ReadsApart DEF Layout, Needed
    <2> QED BY <2>1
  <1>2. CASE type = "BaseStationReport"
    <2>1. Layout(type, 168)
      BY <1>2, BaseStationReportLayout, ReadsApart DEF Layout, Needed
    <2> QED BY <2>1
  <1>3. CASE type = "ShipStaticData"
    <2>1. Layout(type, 424)
      BY <1>3, ShipStaticDataLayout, ReadsApart DEF Layout, Needed
    <2> QED BY <2>1
  <1>4. CASE type = "SarAircraft"
    <2>1. Layout(type, 168)
      BY <1>4, SarAircraftLayout, ReadsApart DEF Layout, Needed
    <2> QED BY <2>1
  <1>5. CASE type = "StandardClassB"
    <2>1. Layout(type, 168)
      BY <1>5, StandardClassBLayout, ReadsApart DEF Layout, Needed
    <2> QED BY <2>1
  <1>6. CASE type = "ExtendedClassB"
    <2>1. Layout(type, 312)
      BY <1>6, ExtendedClassBLayout, ReadsApart DEF Layout, Needed
    <2> QED BY <2>1
  <1>7. CASE type = "AidsToNavigation"
    <2>1. Layout(type, 272)
      BY <1>7, AidsToNavigationLayout, ReadsApart DEF Layout, Needed
    <2> QED BY <2>1
  <1>8. CASE type = "StaticDataA"
    <2>1. Layout(type, 160)
      BY <1>8, StaticDataALayout, ReadsApart DEF Layout, Needed
    <2> QED BY <2>1
  <1>9. CASE type = "StaticDataB"
    <2>1. Layout(type, 168)
      BY <1>9, StaticDataBLayout, ReadsApart DEF Layout, Needed
    <2> QED BY <2>1
  <1>10. CASE type = "LongRange"
    <2>1. Layout(type, 96)
      BY <1>10, LongRangeLayout, ReadsApart DEF Layout, Needed
    <2> QED BY <2>1
  <1> QED BY <1>1, <1>2, <1>3, <1>4, <1>5, <1>6, <1>7, <1>8, <1>9, <1>10, Types

\* The k-th field of a type.
HasField(type, k, f) == k \in DOMAIN Encoder[type] /\ Encoder[type][k] = f

\* A field of a type.
LEMMA FieldThere ==
  ASSUME NEW type, NEW k, NEW f, HasField(type, k, f)
  PROVE  f \in FieldsOf(type)
  BY DEF HasField, FieldsOf

\* Every message begins with its number.
LEMMA MessageIDFirst ==
  ASSUME NEW type \in Type
  PROVE  U("MessageID", 6) \in FieldsOf(type)
  <1>1. HasField("PositionReport", 1, U("MessageID", 6))
    BY DEF HasField, Encoder, Header, Motion, Place
  <1>2. HasField("BaseStationReport", 1, U("MessageID", 6))
    BY DEF HasField, Encoder, Header, Place
  <1>3. HasField("ShipStaticData", 1, U("MessageID", 6))
    BY DEF HasField, Encoder, Header, Dimension
  <1>4. HasField("SarAircraft", 1, U("MessageID", 6))
    BY DEF HasField, Encoder, Header, Place
  <1>5. HasField("StandardClassB", 1, U("MessageID", 6))
    BY DEF HasField, Encoder, Header, Motion, Place
  <1>6. HasField("ExtendedClassB", 1, U("MessageID", 6))
    BY DEF HasField, Encoder, Header, Motion, Place, Dimension
  <1>7. HasField("AidsToNavigation", 1, U("MessageID", 6))
    BY DEF HasField, Encoder, Header, Place, Dimension
  <1>8. HasField("StaticDataA", 1, U("MessageID", 6))
    BY DEF HasField, Encoder, Header
  <1>9. HasField("StaticDataB", 1, U("MessageID", 6))
    BY DEF HasField, Encoder, Header, Dimension
  <1>10. HasField("LongRange", 1, U("MessageID", 6))
    BY DEF HasField, Encoder, Header
  <1>11. \E k : HasField(type, k, U("MessageID", 6))
    BY <1>1, <1>2, <1>3, <1>4, <1>5, <1>6, <1>7, <1>8, <1>9, <1>10, Types, Zenon
  <1> QED BY <1>11, FieldThere

\* Both parts of type 24 say which they are.
LEMMA PartNumberThere ==
  ASSUME NEW type \in {"StaticDataA", "StaticDataB"}
  PROVE  /\ U("PartNumber", 2) \in FieldsOf(type)
         /\ UAt("PartNumber", 38, 2) \in Reads(type)
  <1>1. HasField("StaticDataA", 4, U("PartNumber", 2))
    BY DEF HasField, Encoder, Header
  <1>2. HasField("StaticDataB", 4, U("PartNumber", 2))
    BY DEF HasField, Encoder, Header, Dimension
  <1>3. U("PartNumber", 2) \in FieldsOf(type)
    BY <1>1, <1>2, FieldThere
  <1>4. /\ UAt("PartNumber", 38, 2) \in Reads("StaticDataA")
        /\ UAt("PartNumber", 38, 2) \in Reads("StaticDataB")
    BY DEF Reads, Decoder, DimensionAt
  <1> QED BY <1>3, <1>4

\* A packet is told by its number and its part.
LEMMA KindFacts ==
  ASSUME NEW m \in Nat, NEW part, KindOf(m, part) # "Unknown"
  PROVE  /\ m < 64
         /\ m = 24 => part \in {0, 1} /\ KindOf(m, part) \in {"StaticDataA", "StaticDataB"}
         /\ m # 24 => KindOf(m, part) \notin {"StaticDataA", "StaticDataB"}
         /\ m # 24 => \A other : KindOf(m, other) = KindOf(m, part)
  BY DEF KindOf

LEMMA TwoToTwo == 2 \in Width /\ TwoTo[2] = 4
  <1>1. \A n \in 1..2 : n \in Width /\ n > 0
    BY WidthFacts
  <1>2. \A n \in 1..2 : TwoTo[n] = 2 * TwoTo[n - 1]
    BY <1>1, TwoToFacts
  <1>3. TwoTo[1] = 2 * TwoTo[1 - 1] /\ TwoTo[2] = 2 * TwoTo[2 - 1]
    BY <1>2
  <1> QED BY <1>1, <1>3, TwoToZero

\* Two bits where they stand.
LEMMA TwoRead ==
  ASSUME NEW bits \in Seq(Bit), NEW b \in Nat, NEW c \in Int, Stands(bits, b, 2, c)
  PROVE  Uint(bits, b, 2) = c % 4
  <1>1. 2 \in Width /\ TwoTo[2] = 4
    BY TwoToTwo
  <1>2. Uint(bits, b, 2) = c % TwoTo[2]
    BY <1>1, UintReadsPushed
  <1> QED BY <1>1, <1>2

\* A number where a field says it is.
LEMMA StoodUnsigned ==
  ASSUME NEW p, NEW f, f.as = "unsigned", Stood(p, f), NEW b,
         At(f.field, b, f.width, f.as) \in Reads(p.type)
  PROVE  b \in Nat /\ Stands(EncodeBits(p), b, f.width, p.is[f.field])
  <1>1. PICK a \in Nat : /\ ReadFrom(Reads(p.type), f, a)
                         /\ Placed(EncodeBits(p), f, a, p.is[f.field])
    BY DEF Stood
  <1>2. At(f.field, b, f.width, f.as) = At(f.field, a, f.width, f.as)
    BY <1>1 DEF ReadFrom, At
  <1>3. a = b
    BY <1>2 DEF At
  <1>4. Push(f, p.is[f.field]) = PushUint(p.is[f.field], f.width)
    BY DEF Push
  <1> QED BY <1>1, <1>3, <1>4 DEF Placed, Stands

\* A packet is decoded as one of its type.
LEMMA TypeHeard ==
  ASSUME NEW p, WellFormed(p), EncodeBits(p) \in Seq(Bit),
         \A f \in FieldsOf(p.type) : f.as # "blank" => Stood(p, f)
  PROVE  TypeOf(EncodeBits(p)) = p.type
  <1> DEFINE bits == EncodeBits(p)
             m == p.is["MessageID"]
             part == Get(p.is, "PartNumber", 0)
             id == U("MessageID", 6)
             pn == U("PartNumber", 2)
  <1>1. p.type \in Type /\ KindOf(m, part) = p.type /\ p.type # "Unknown"
    BY Types DEF WellFormed
  <1>2. /\ id.as = "unsigned" /\ id.field = "MessageID" /\ id.width = 6
        /\ At(id.field, 0, id.width, id.as) \in Reads(p.type)
    BY DEF U, Pushed, Reads, HeaderRead, UAt
  <1>3. id \in FieldsOf(p.type)
    BY <1>1, MessageIDFirst
  <1>4. m \in Nat
    <2>1. Holds(id, m)
      BY <1>2, <1>3 DEF WellFormed
    <2> QED BY <1>2, <2>1 DEF Holds
  <1>5. Stands(bits, 0, 6, m)
    <2>1. Stood(p, id)
      BY <1>2, <1>3
    <2>2. Stands(bits, 0, id.width, p.is[id.field])
      BY <1>2, <2>1, StoodUnsigned
    <2> QED BY <1>2, <2>2
  <1>6. m < 64
    BY <1>1, <1>4, KindFacts
  <1>7. Uint(bits, 0, 6) = m
    <2>1. Uint(bits, 0, 6) = m % 64
      BY <1>4, <1>5, SixRead
    <2> QED BY <1>4, <1>6, <2>1
  <1> HIDE DEF bits, m, part
  <1>8. CASE m # 24
    BY <1>1, <1>4, <1>7, <1>8, KindFacts DEF TypeOf, bits
  <1>9. CASE m = 24
    <2>1. p.type \in {"StaticDataA", "StaticDataB"} /\ part \in {0, 1}
      BY <1>1, <1>4, <1>9, KindFacts
    <2>2. /\ pn.as = "unsigned" /\ pn.field = "PartNumber" /\ pn.width = 2
          /\ At(pn.field, 38, pn.width, pn.as) = UAt("PartNumber", 38, 2)
      BY DEF U, Pushed, UAt
    <2>3. pn \in FieldsOf(p.type) /\ At(pn.field, 38, pn.width, pn.as) \in Reads(p.type)
      BY <2>1, <2>2, PartNumberThere
    <2>4. "PartNumber" \in DOMAIN p.is
      BY <2>2, <2>3 DEF WellFormed
    <2>5. part = p.is["PartNumber"]
      BY <2>4 DEF Get, part
    <2>6. Stood(p, pn)
      BY <2>2, <2>3
    <2>7. Stands(bits, 38, pn.width, p.is[pn.field])
      BY <2>2, <2>3, <2>6, StoodUnsigned DEF bits
    <2>8. Stands(bits, 38, 2, part)
      BY <2>2, <2>5, <2>7
    <2>9. Uint(bits, 38, 2) = part % 4
      BY <2>1, <2>8, TwoRead DEF bits
    <2>10. Uint(bits, 38, 2) = part
      BY <2>1, <2>9
    <2> QED BY <1>1, <1>7, <2>10 DEF TypeOf, bits
  <1> QED BY <1>8, <1>9

\* A field that stands where it is read arrives.
LEMMA KeptFacts ==
  ASSUME NEW f, NEW v, GoodField(f), f.as # "blank", Holds(f, v),
         NEW bits \in Seq(Bit), NEW a \in Nat, Placed(bits, f, a, v)
  PROVE  Kept(f, v, ReadAt(bits, f, a))
  <1> SUFFICES ASSUME Fits(f, v)
               PROVE  CASE f.as \in {"unsigned", "signed"} -> ReadAt(bits, f, a) = v
                        [] f.as \in {"real", "degrees"} ->
                             Distance(v, ReadAt(bits, f, a)) <= 5
                        [] f.as = "string" -> ReadAt(bits, f, a) = Legible(v, f.width)
    BY Zenon DEF Kept
  <1>1. CASE Numeric(f)
    <2>1. /\ f.as \in {"unsigned", "signed"} => ReadAt(bits, f, a) = v
          /\ f.as \in {"real", "degrees"} => Distance(v, ReadAt(bits, f, a)) <= 5
      BY <1>1, NumericHeard
    <2> QED BY <1>1, <2>1 DEF Numeric
  <1>2. CASE ~Numeric(f)
    <2>1. f.as = "string" /\ f.width \in {18, 42, 120} /\ f.width \in Nat
          /\ v \in Seq(Nat) /\ Push(f, v) = PushStr(v, f.width)
      BY <1>2, PushFacts
    <2>2. Spellable(v)
      BY <2>1 DEF Fits, Spellable
    <2>3. Lettered(bits, a, f.width, v)
      BY <2>1 DEF Placed, Lettered
    <2>4. String(bits, a, f.width) = Legible(v, f.width)
      BY <2>1, <2>2, <2>3, StringHeard
    <2>5. ReadAt(bits, f, a) = String(bits, a, f.width)
      BY <2>1 DEF ReadAt, Read, At
    <2> QED BY <2>1, <2>4, <2>5
  <1> QED BY <1>1, <1>2

\* What is read at the places of reads.
Packet(type, bits, reads) ==
  [type |-> type, is |-> [f \in {x.field : x \in reads} |->
                            Read(bits, CHOOSE x \in reads : x.field = f)]]

\* What is decoded of a packet that was encoded.
LEMMA Decoded ==
  ASSUME NEW p, WellFormed(p)
  PROVE  /\ EncodeBits(p) \in Seq(Bit) /\ Len(EncodeBits(p)) > 0
         /\ Len(EncodeBits(p)) <= 424
         /\ Decode(Encode(p)).type = p.type
         /\ DOMAIN Decode(Encode(p)).is = {x.field : x \in Reads(p.type)}
         /\ \A f \in FieldsOf(p.type) : f.as = "blank" <=> f.field = "blank"
         /\ \A f \in FieldsOf(p.type) : f.as # "blank" =>
              f.field \in DOMAIN Decode(Encode(p)).is /\ \E a \in Nat :
                /\ GoodField(f) /\ Placed(EncodeBits(p), f, a, p.is[f.field])
                /\ Holds(f, p.is[f.field])
                /\ Decode(Encode(p)).is[f.field] = ReadAt(EncodeBits(p), f, a)
  <1> DEFINE bits == EncodeBits(p)
             r == Reads(p.type)
             heard == Decode(Encode(p))
  <1>1. p.type \in Type /\ p.type # "Unknown"
    BY Types DEF WellFormed
  <1>2. PICK n \in Nat : Layout(p.type, n)
    BY <1>1, Layouts
  <1>3. n > 0 /\ n >= 38 /\ n <= 424 /\ Needed[p.type] <= n /\ Span(r, Encoder[p.type], 0, n)
        /\ Apart(r)
    BY <1>2 DEF Layout
  <1>4. /\ bits \in Seq(Bit) /\ Len(bits) = n
        /\ \A f \in FieldsOf(p.type) : GoodField(f) /\ (f.as # "blank" => Stood(p, f))
    BY <1>3, PackedFacts
  <1>5. TypeOf(bits) = p.type
    BY <1>4, TypeHeard
  <1>6. FromPayload(Encode(p)) = bits
    BY <1>3, <1>4, PayloadFacts
  <1>7. heard = Packet(p.type, bits, r)
    <2> DEFINE b == FromPayload(Encode(p))
               t == TypeOf(b)
               reads == HeaderRead \cup Decoder[t]
    <2>1. heard = IF Len(b) < 38 THEN TooShort
                  ELSE IF t = "Unknown" THEN Unknown
                  ELSE IF Len(b) < Needed[t] THEN TooShort
                  ELSE Packet(t, b, reads)
      BY Zenon DEF Decode, Packet
    <2>2. b = bits /\ t = p.type
      BY <1>5, <1>6
    <2>3. reads = r
      BY <2>2 DEF Reads
    <2> HIDE DEF heard, b, t, reads
    <2>4. Needed[p.type] \in Nat
      BY <1>1, Types DEF Needed
    <2>5. ~(Len(b) < 38) /\ t # "Unknown" /\ ~(Len(b) < Needed[t])
      BY <1>1, <1>3, <1>4, <2>2, <2>4
    <2> QED BY <2>1, <2>2, <2>3, <2>5, Zenon
  <1>8. /\ heard.type = p.type /\ DOMAIN heard.is = {x.field : x \in r}
        /\ \A y \in {x.field : x \in r} :
             heard.is[y] = Read(bits, CHOOSE x \in r : x.field = y)
    <2> HIDE DEF heard
    <2> QED BY <1>7 DEF Packet
  <1> HIDE DEF heard, r, bits
  <1>9. ASSUME NEW f \in FieldsOf(p.type), f.as # "blank"
        PROVE  f.field \in DOMAIN heard.is /\ \E a \in Nat :
                 /\ GoodField(f) /\ Placed(bits, f, a, p.is[f.field])
                 /\ Holds(f, p.is[f.field])
                 /\ heard.is[f.field] = ReadAt(bits, f, a)
    <2>1. PICK a \in Nat : ReadFrom(r, f, a) /\ Placed(bits, f, a, p.is[f.field])
      BY <1>4, <1>9 DEF Stood, r, bits
    <2> DEFINE at == At(f.field, a, f.width, f.as)
    <2>2. at \in r /\ at.field = f.field /\ \A x \in r : x.field = f.field => x = at
      BY <2>1 DEF ReadFrom, At
    <2> HIDE DEF at
    <2>3. (CHOOSE x \in r : x.field = f.field) = at
      BY <2>2
    <2>4. f.field \in {x.field : x \in r}
      BY <2>2
    <2>5. heard.is[f.field] = ReadAt(bits, f, a)
      BY <1>8, <2>3, <2>4 DEF ReadAt, at
    <2>6. Holds(f, p.is[f.field])
      BY <1>9 DEF WellFormed
    <2> QED BY <1>4, <1>8, <1>9, <2>1, <2>4, <2>5, <2>6
  <1>10. bits \in Seq(Bit) /\ Len(bits) > 0 /\ Len(bits) <= 424
    BY <1>3, <1>4
  <1>11. \A f \in FieldsOf(p.type) : f.as = "blank" <=> f.field = "blank"
    BY <1>4 DEF GoodField
  <1> QED BY <1>8, <1>9, <1>10, <1>11 DEF heard, bits, r

\* Every field of a packet that fits its field arrives, whatever is in the
\* others: ProtocolRoundTrip of the tests of crates/ais, for every packet.
THEOREM FieldsKept ==
  ASSUME NEW p, WellFormed(p)
  PROVE  \A f \in FieldsOf(p.type) :
           f.as # "blank" => Kept(f, p.is[f.field], Decode(Encode(p)).is[f.field])
  <1> SUFFICES ASSUME NEW f \in FieldsOf(p.type), f.as # "blank"
               PROVE  Kept(f, p.is[f.field], Decode(Encode(p)).is[f.field])
    OBVIOUS
  <1>1. EncodeBits(p) \in Seq(Bit)
    BY Decoded
  <1>2. PICK a \in Nat :
           /\ GoodField(f) /\ Placed(EncodeBits(p), f, a, p.is[f.field])
           /\ Holds(f, p.is[f.field])
           /\ Decode(Encode(p)).is[f.field] = ReadAt(EncodeBits(p), f, a)
    BY Decoded
  <1> QED BY <1>1, <1>2, KeptFacts

-----------------------------------------------------------------------------
(***************************************************************************)
(* The time of arrival of Digitraffic (unpack_eta).                        *)
(***************************************************************************)
\* Dividing by powers of two.
LEMMA DivPowers ==
  ASSUME NEW v \in Int, NEW n \in Nat, NEW k \in Nat, n + k \in Width
  PROVE  (v \div TwoTo[n]) \div TwoTo[k] = v \div TwoTo[n + k]
  <1> DEFINE T == {i \in 0..k : (v \div TwoTo[n]) \div TwoTo[i] = v \div TwoTo[n + i]}
             x == v \div TwoTo[n]
  <1>1. n \in Width /\ \A i \in 0..k : i \in Width /\ n + i \in Width
    BY WidthFacts
  <1>2. x \in Int
    <2>1. TwoTo[n] \in Positive
      BY <1>1, TwoToFacts
    <2> QED BY <2>1, DivMod
  <1>3. 0 \in T
    <2>1. n + 0 = n /\ x \div 1 = x
      BY <1>2
    <2> QED BY <2>1, TwoToZero
  <1>4. ASSUME NEW i \in 1..k, i - 1 \in T PROVE i \in T
    <2>1. i \in 0..k /\ i - 1 \in 0..k /\ i > 0 /\ i \in Width /\ i - 1 \in Width
          /\ n + i > 0 /\ n + i \in Width /\ n + (i - 1) = (n + i) - 1
          /\ n + (i - 1) \in Width
      <3>1. i \in 0..k /\ i - 1 \in 0..k
        OBVIOUS
      <3> QED BY <1>1, <3>1
    <2>2. TwoTo[i] = 2 * TwoTo[i - 1] /\ TwoTo[n + i] = 2 * TwoTo[n + (i - 1)]
      BY <2>1, TwoToFacts
    <2>3. TwoTo[i - 1] \in Positive /\ TwoTo[n + (i - 1)] \in Positive
      BY <2>1, TwoToFacts
    <2>4. x \div TwoTo[i - 1] = v \div TwoTo[n + (i - 1)]
      BY <1>4
    <2> HIDE DEF T, x
    <2>5. x \div TwoTo[i] = (x \div TwoTo[i - 1]) \div 2
      BY <1>2, <2>2, <2>3, DivTwice
    <2>6. v \div TwoTo[n + i] = (v \div TwoTo[n + (i - 1)]) \div 2
      BY <2>2, <2>3, DivTwice
    <2>7. x \div TwoTo[i] = v \div TwoTo[n + i]
      BY <2>4, <2>5, <2>6
    <2> QED BY <2>1, <2>7 DEF T, x
  <1> HIDE DEF T
  <1>5. \A i \in 0..k : i \in T
    BY <1>3, <1>4, Induction
  <1>6. k \in T
    BY <1>5
  <1> QED BY <1>6 DEF T

\* The bits of a number are its upper ones and its lower ones.
LEMMA PushedApart ==
  ASSUME NEW v \in Int, NEW n \in Nat, NEW k \in Nat, n + k \in Width
  PROVE  PushUint(v, n + k) = PushUint(v \div TwoTo[k], n) \o PushUint(v, k)
  <1> DEFINE x == v \div TwoTo[k]
             all == PushUint(v, n + k)
             upper == PushUint(x, n)
             lower == PushUint(v, k)
  <1>1. n \in Width /\ k \in Width
    BY WidthFacts
  <1>2. x \in Int
    <2>1. TwoTo[k] \in Positive
      BY <1>1, TwoToFacts
    <2> QED BY <2>1, DivMod
  <1>3. /\ all \in Seq(Bit) /\ Len(all) = n + k
        /\ \A i \in 1..n + k : all[i] = (v \div TwoTo[n + k - i]) % 2
    <2> DEFINE w == n + k
    <2>1. w \in Width /\ all = PushUint(v, w)
      OBVIOUS
    <2> HIDE DEF w, all
    <2>2. all \in Seq(Bit) /\ Len(all) = w /\ \A i \in 1..w : all[i] = (v \div TwoTo[w - i]) % 2
      BY <2>1, PushUintTyped
    <2> QED BY <2>2 DEF w
  <1>4. /\ upper \in Seq(Bit) /\ Len(upper) = n
        /\ \A i \in 1..n : upper[i] = (x \div TwoTo[n - i]) % 2
    BY <1>1, <1>2, PushUintTyped
  <1>5. /\ lower \in Seq(Bit) /\ Len(lower) = k
        /\ \A i \in 1..k : lower[i] = (v \div TwoTo[k - i]) % 2
    BY <1>1, PushUintTyped
  <1>6. ASSUME NEW i \in 1..n PROVE x \div TwoTo[n - i] = v \div TwoTo[n + k - i]
    <2>1. n - i \in Nat /\ k + (n - i) = n + k - i /\ k + (n - i) \in Width
      <3>1. k + (n - i) \in Nat /\ k + (n - i) <= n + k
        OBVIOUS
      <3> QED BY <3>1, WidthFacts
    <2> QED BY <2>1, DivPowers
  <1> HIDE DEF x, all, upper, lower
  <1>7. /\ upper \o lower \in Seq(Bit) /\ Len(upper \o lower) = n + k
        /\ \A i \in 1..n + k :
             (upper \o lower)[i] = IF i <= n THEN upper[i] ELSE lower[i - n]
    BY <1>4, <1>5, ConcatFacts
  <1>8. ASSUME NEW i \in 1..n + k PROVE all[i] = (upper \o lower)[i]
    <2>1. CASE i <= n
      <3>1. i \in 1..n
        BY <2>1
      <3>2. upper[i] = (v \div TwoTo[n + k - i]) % 2
        BY <1>4, <1>6, <3>1
      <3> QED BY <1>3, <1>7, <2>1, <3>2
    <2>2. CASE ~(i <= n)
      <3>1. i - n \in 1..k /\ k - (i - n) = n + k - i
        BY <2>2
      <3>2. lower[i - n] = (v \div TwoTo[n + k - i]) % 2
        BY <1>5, <3>1
      <3> QED BY <1>3, <1>7, <2>2, <3>2
    <2> QED BY <2>1, <2>2
  <1>9. all = upper \o lower
    BY <1>3, <1>7, <1>8, SameSeq
  <1> QED BY <1>9 DEF all, upper, lower, x

\* Only the low bits are pushed.
LEMMA PushedRest ==
  ASSUME NEW v \in Int, NEW w \in Width
  PROVE  PushUint(v % TwoTo[w], w) = PushUint(v, w)
  <1>1. PushUint(v, w) \in Seq(Bit) /\ Len(PushUint(v, w)) = w
    BY PushUintTyped
  <1>2. Number(PushUint(v, w)) = v % TwoTo[w]
    BY NumberOfPushed
  <1> QED BY <1>1, <1>2, PushedNumber

\* The powers of two unpack_eta divides by.
LEMMA Powers ==
  /\ TwoTo[4] = 16 /\ TwoTo[5] = 32 /\ TwoTo[6] = 64 /\ TwoTo[11] = 2048
  /\ TwoTo[16] = 65536
  <1>1. \A n \in 1..16 : n \in Width /\ n > 0
    BY WidthFacts
  <1>2. \A n \in 1..16 : TwoTo[n] = 2 * TwoTo[n - 1]
    BY <1>1, TwoToFacts
  <1>3. /\ TwoTo[1] = 2 * TwoTo[1 - 1] /\ TwoTo[2] = 2 * TwoTo[2 - 1]
        /\ TwoTo[3] = 2 * TwoTo[3 - 1] /\ TwoTo[4] = 2 * TwoTo[4 - 1]
        /\ TwoTo[5] = 2 * TwoTo[5 - 1] /\ TwoTo[6] = 2 * TwoTo[6 - 1]
        /\ TwoTo[7] = 2 * TwoTo[7 - 1] /\ TwoTo[8] = 2 * TwoTo[8 - 1]
        /\ TwoTo[9] = 2 * TwoTo[9 - 1] /\ TwoTo[10] = 2 * TwoTo[10 - 1]
        /\ TwoTo[11] = 2 * TwoTo[11 - 1] /\ TwoTo[12] = 2 * TwoTo[12 - 1]
        /\ TwoTo[13] = 2 * TwoTo[13 - 1] /\ TwoTo[14] = 2 * TwoTo[14 - 1]
        /\ TwoTo[15] = 2 * TwoTo[15 - 1] /\ TwoTo[16] = 2 * TwoTo[16 - 1]
    BY <1>2
  <1> QED BY <1>3, TwoToZero

\* The four numbers unpack_eta makes of a field are its bits.
LEMMA EtaBits ==
  ASSUME NEW raw \in Int
  PROVE  Number(PushUint(UnpackEta(raw).Month, 4) \o PushUint(UnpackEta(raw).Day, 5)
                \o PushUint(UnpackEta(raw).Hour, 5) \o PushUint(UnpackEta(raw).Minute, 6))
           = raw % TwoTo[20]
  <1> DEFINE m == raw \div TwoTo[16]
             d == raw \div TwoTo[11]
             h == raw \div TwoTo[6]
  <1>1. /\ 4 \in Width /\ 5 \in Width /\ 6 \in Width /\ 11 \in Width /\ 16 \in Width
        /\ 14 \in Width /\ 9 \in Width /\ 20 \in Width
    BY WidthFacts
  <1>2. m \in Int /\ d \in Int /\ h \in Int
    <2>1. TwoTo[16] \in Positive /\ TwoTo[11] \in Positive /\ TwoTo[6] \in Positive
      BY <1>1, TwoToFacts
    <2> QED BY <2>1, DivMod
  <1>3. PushUint(raw, 20) = PushUint(h, 14) \o PushUint(raw, 6)
    <2>1. 14 + 6 = 20
      OBVIOUS
    <2>2. PushUint(raw, 14 + 6) = PushUint(raw \div TwoTo[6], 14) \o PushUint(raw, 6)
      BY <1>1, <2>1, PushedApart
    <2> QED BY <2>1, <2>2
  <1>4. PushUint(h, 14) = PushUint(d, 9) \o PushUint(h, 5)
    <2>1. 9 + 5 = 14 /\ 6 + 5 = 11
      OBVIOUS
    <2>2. PushUint(h, 9 + 5) = PushUint(h \div TwoTo[5], 9) \o PushUint(h, 5)
      BY <1>1, <1>2, <2>1, PushedApart
    <2>3. h \div TwoTo[5] = raw \div TwoTo[6 + 5]
      BY <1>1, <2>1, DivPowers
    <2> QED BY <2>1, <2>2, <2>3
  <1>5. PushUint(d, 9) = PushUint(m, 4) \o PushUint(d, 5)
    <2>1. 4 + 5 = 9 /\ 11 + 5 = 16
      OBVIOUS
    <2>2. PushUint(d, 4 + 5) = PushUint(d \div TwoTo[5], 4) \o PushUint(d, 5)
      BY <1>1, <1>2, <2>1, PushedApart
    <2>3. d \div TwoTo[5] = raw \div TwoTo[11 + 5]
      BY <1>1, <2>1, DivPowers
    <2> QED BY <2>1, <2>2, <2>3
  <1>6. Number(PushUint(raw, 20)) = raw % TwoTo[20]
    BY <1>1, NumberOfPushed
  <1>7. /\ PushUint(m % TwoTo[4], 4) = PushUint(m, 4)
        /\ PushUint(d % TwoTo[5], 5) = PushUint(d, 5)
        /\ PushUint(h % TwoTo[5], 5) = PushUint(h, 5)
        /\ PushUint(raw % TwoTo[6], 6) = PushUint(raw, 6)
    BY <1>1, <1>2, PushedRest
  <1>8. /\ UnpackEta(raw).Month = m % TwoTo[4] /\ UnpackEta(raw).Day = d % TwoTo[5]
        /\ UnpackEta(raw).Hour = h % TwoTo[5] /\ UnpackEta(raw).Minute = raw % TwoTo[6]
    BY Powers DEF UnpackEta
  <1> HIDE DEF m, d, h
  <1> QED BY <1>3, <1>4, <1>5, <1>6, <1>7, <1>8

\* Where a packet of Digitraffic's metadata has the time of arrival.
LEMMA EtaFields ==
  ASSUME NEW mmsi, NEW md
  PROVE  LET told == FromMetadata(mmsi, md)
             eta  == UnpackEta(Get(md, "eta", 0))
         IN  /\ told.type = "ShipStaticData"
             /\ told.is["Month"] = eta.Month /\ told.is["Day"] = eta.Day
             /\ told.is["Hour"] = eta.Hour /\ told.is["Minute"] = eta.Minute
  BY DEF FromMetadata

-----------------------------------------------------------------------------
(***************************************************************************)
(* What the feeds say is a packet.                                         *)
(***************************************************************************)
\* The fields of the types that Digitraffic's frames become.
LEMMA PositionReportFields ==
  FieldsOf("PositionReport") =
    {U("MessageID", 6), U("RepeatIndicator", 2), U("UserID", 30),
     U("NavigationalStatus", 4), I("RateOfTurn", 8), R("Sog", 10),
     U("PositionAccuracy", 1), D("Longitude", 28), D("Latitude", 27), R("Cog", 12),
     U("TrueHeading", 9), U("Timestamp", 6), U("SpecialManoeuvreIndicator", 2),
     U("Spare", 3), U("Raim", 1), U("CommunicationState", 19)}
  <1> DEFINE seg == Encoder["PositionReport"]
  <1>0. DOMAIN seg = 1..16
    BY DEF Encoder, Header, Motion, Place
  <1>1. /\ seg[1] = U("MessageID", 6) /\ seg[2] = U("RepeatIndicator", 2)
        /\ seg[3] = U("UserID", 30) /\ seg[4] = U("NavigationalStatus", 4)
        /\ seg[5] = I("RateOfTurn", 8)
    BY DEF Encoder, Header, Motion, Place
  <1>2. /\ seg[6] = R("Sog", 10) /\ seg[7] = U("PositionAccuracy", 1)
        /\ seg[8] = D("Longitude", 28) /\ seg[9] = D("Latitude", 27)
        /\ seg[10] = R("Cog", 12) /\ seg[11] = U("TrueHeading", 9)
        /\ seg[12] = U("Timestamp", 6)
    BY DEF Encoder, Header, Motion, Place
  <1>3. /\ seg[13] = U("SpecialManoeuvreIndicator", 2) /\ seg[14] = U("Spare", 3)
        /\ seg[15] = U("Raim", 1) /\ seg[16] = U("CommunicationState", 19)
    BY DEF Encoder, Header, Motion, Place
  <1> HIDE DEF seg
  <1>4. \A k \in 1..16 : k \in {1, 2, 3, 4, 5, 6, 7, 8, 9, 10, 11, 12, 13, 14, 15, 16}
    OBVIOUS
  <1>5. FieldsOf("PositionReport") =
          {seg[k] : k \in {1, 2, 3, 4, 5, 6, 7, 8, 9, 10, 11, 12, 13, 14, 15, 16}}
    BY <1>0, <1>4 DEF FieldsOf, seg
  <1> QED BY <1>1, <1>2, <1>3, <1>5

LEMMA ShipStaticDataFields ==
  FieldsOf("ShipStaticData") =
    {U("MessageID", 6), U("RepeatIndicator", 2), U("UserID", 30), U("AisVersion", 2),
     U("ImoNumber", 30), S("CallSign", 42), S("Name", 120), U("Type", 8), U("A", 9),
     U("B", 9), U("C", 6), U("D", 6), U("FixType", 4), U("Month", 4), U("Day", 5),
     U("Hour", 5), U("Minute", 6), R("MaximumStaticDraught", 8), S("Destination", 120),
     U("Dte", 1), U("Spare", 1)}
  <1> DEFINE seg == Encoder["ShipStaticData"]
  <1>0. DOMAIN seg = 1..21
    BY DEF Encoder, Header, Dimension
  <1>1. /\ seg[1] = U("MessageID", 6) /\ seg[2] = U("RepeatIndicator", 2)
        /\ seg[3] = U("UserID", 30) /\ seg[4] = U("AisVersion", 2)
        /\ seg[5] = U("ImoNumber", 30) /\ seg[6] = S("CallSign", 42)
        /\ seg[7] = S("Name", 120) /\ seg[8] = U("Type", 8)
    BY DEF Encoder, Header, Dimension
  <1>2. /\ seg[9] = U("A", 9) /\ seg[10] = U("B", 9) /\ seg[11] = U("C", 6)
        /\ seg[12] = U("D", 6)
    BY DEF Encoder, Header, Dimension
  <1>3. /\ seg[13] = U("FixType", 4) /\ seg[14] = U("Month", 4) /\ seg[15] = U("Day", 5)
        /\ seg[16] = U("Hour", 5) /\ seg[17] = U("Minute", 6)
        /\ seg[18] = R("MaximumStaticDraught", 8) /\ seg[19] = S("Destination", 120)
        /\ seg[20] = U("Dte", 1) /\ seg[21] = U("Spare", 1)
    BY DEF Encoder, Header, Dimension
  <1> HIDE DEF seg
  <1>4. \A k \in 1..21 : k \in {1, 2, 3, 4, 5, 6, 7, 8, 9, 10, 11, 12, 13, 14, 15, 16,
                                17, 18, 19, 20, 21}
    OBVIOUS
  <1>5. FieldsOf("ShipStaticData") =
          {seg[k] : k \in {1, 2, 3, 4, 5, 6, 7, 8, 9, 10, 11, 12, 13, 14, 15, 16,
                           17, 18, 19, 20, 21}}
    BY <1>0, <1>4 DEF FieldsOf, seg
  <1> QED BY <1>1, <1>2, <1>3, <1>5

\* Fields by name.
LEMMA FieldFacts ==
  \A x, w : /\ U(x, w).field = x /\ U(x, w).as = "unsigned"
            /\ I(x, w).field = x /\ I(x, w).as = "signed"
            /\ R(x, w).field = x /\ R(x, w).as = "real"
            /\ D(x, w).field = x /\ D(x, w).as = "degrees"
            /\ S(x, w).field = x /\ S(x, w).as = "string"
  BY DEF U, I, R, D, S, Pushed

LEMMA TextHolds ==
  ASSUME NEW x, NEW w, NEW v, v \in Seq(Nat)
  PROVE  Holds(S(x, w), v)
  <1>1. S(x, w).as = "string"
    BY FieldFacts
  <1> QED BY <1>1 DEF Holds

\* A member that may be missing.
LEMMA GetFacts ==
  ASSUME NEW json, NEW members, Obeys(json, members), NEW m \in DOMAIN members,
         NEW default \in members[m]
  PROVE  Get(json, m, default) \in members[m]
  BY DEF Get, Obeys

\* A packet can be made of every frame that serde lets through.
LEMMA LocationWellFormed ==
  ASSUME NEW mmsi \in Nat, NEW loc, Obeys(loc, Location)
  PROVE  WellFormed(FromLocation(mmsi, loc))
  <1> DEFINE p == FromLocation(mmsi, loc)
  <1>1. /\ Get(loc, "navStat", 15) \in Nat /\ Get(loc, "rot", -128) \in Int
        /\ Get(loc, "sog", 10230) \in Int /\ Get(loc, "posAcc", 0) \in Nat
        /\ Get(loc, "lon", 0) \in Int /\ Get(loc, "lat", 0) \in Int
        /\ Get(loc, "cog", 36000) \in Int /\ Get(loc, "heading", 511) \in Nat
        /\ Get(loc, "time", 0) \in Int /\ Get(loc, "raim", 0) \in Nat
    BY GetFacts DEF Location
  <1>2. Get(loc, "time", 0) % 60 \in Nat
    BY <1>1
  <1>3. Clamped(Get(loc, "rot", -128), -128, 127) \in Int
    BY <1>1 DEF Clamped
  <1>4. p.type = "PositionReport" /\ p.is["MessageID"] = 1
    BY DEF FromLocation
  <1>5. p.type \in Type /\ KindOf(p.is["MessageID"], Get(p.is, "PartNumber", 0)) = p.type
    <2> HIDE DEF p
    <2> QED BY <1>4, Types DEF KindOf
  <1>6. DOMAIN p.is = {f.field : f \in FieldsOf("PositionReport")} \ {"blank"}
    <2> DEFINE names == {"MessageID", "RepeatIndicator", "UserID", "NavigationalStatus",
                         "RateOfTurn", "Sog", "PositionAccuracy", "Longitude", "Latitude",
                         "Cog", "TrueHeading", "Timestamp", "SpecialManoeuvreIndicator",
                         "Spare", "Raim", "CommunicationState"}
    <2>1. DOMAIN p.is = names
      BY DEF FromLocation
    <2>2. {f.field : f \in FieldsOf("PositionReport")} = names
      BY PositionReportFields, FieldFacts
    <2> QED BY <2>1, <2>2
  <1>7. \A f \in FieldsOf("PositionReport") : f.as # "blank" => Holds(f, p.is[f.field])
    <2>1. /\ p.is["MessageID"] = 1 /\ p.is["RepeatIndicator"] = 0 /\ p.is["UserID"] = mmsi
          /\ p.is["NavigationalStatus"] = Get(loc, "navStat", 15)
          /\ p.is["PositionAccuracy"] = Get(loc, "posAcc", 0)
          /\ p.is["TrueHeading"] = Get(loc, "heading", 511)
          /\ p.is["Timestamp"] = Get(loc, "time", 0) % 60
      BY DEF FromLocation
    <2>2. /\ p.is["SpecialManoeuvreIndicator"] = 0 /\ p.is["Spare"] = 0
          /\ p.is["Raim"] = Get(loc, "raim", 0) /\ p.is["CommunicationState"] = 0
      BY DEF FromLocation
    <2>3. /\ p.is["RateOfTurn"] = Clamped(Get(loc, "rot", -128), -128, 127)
          /\ p.is["Sog"] = Get(loc, "sog", 10230) /\ p.is["Cog"] = Get(loc, "cog", 36000)
          /\ p.is["Longitude"] = Get(loc, "lon", 0) /\ p.is["Latitude"] = Get(loc, "lat", 0)
      BY DEF FromLocation
    <2> HIDE DEF p
    <2>4. ASSUME NEW f, f.as = "unsigned", p.is[f.field] \in Nat PROVE Holds(f, p.is[f.field])
      BY <2>4 DEF Holds
    <2>5. ASSUME NEW f, f.as \in {"signed", "real", "degrees"}, p.is[f.field] \in Int
          PROVE  Holds(f, p.is[f.field])
      BY <2>5 DEF Holds
    <2>6. \A f \in {U("MessageID", 6), U("RepeatIndicator", 2), U("UserID", 30),
                   U("NavigationalStatus", 4), U("PositionAccuracy", 1),
                   U("TrueHeading", 9), U("Timestamp", 6)} : Holds(f, p.is[f.field])
      <3>1. /\ p.is["MessageID"] \in Nat /\ p.is["RepeatIndicator"] \in Nat
            /\ p.is["UserID"] \in Nat /\ p.is["NavigationalStatus"] \in Nat
            /\ p.is["PositionAccuracy"] \in Nat /\ p.is["TrueHeading"] \in Nat
            /\ p.is["Timestamp"] \in Nat
        BY <1>1, <1>2, <2>1
      <3> QED BY <2>4, <3>1, FieldFacts
    <2>7. \A f \in {U("SpecialManoeuvreIndicator", 2), U("Spare", 3), U("Raim", 1),
                   U("CommunicationState", 19)} : Holds(f, p.is[f.field])
      <3>1. /\ p.is["SpecialManoeuvreIndicator"] \in Nat /\ p.is["Spare"] \in Nat
            /\ p.is["Raim"] \in Nat /\ p.is["CommunicationState"] \in Nat
        BY <1>1, <2>2
      <3> QED BY <2>4, <3>1, FieldFacts
    <2>8. \A f \in {I("RateOfTurn", 8), R("Sog", 10), R("Cog", 12), D("Longitude", 28),
                   D("Latitude", 27)} : Holds(f, p.is[f.field])
      <3>1. /\ p.is["RateOfTurn"] \in Int /\ p.is["Sog"] \in Int /\ p.is["Cog"] \in Int
            /\ p.is["Longitude"] \in Int /\ p.is["Latitude"] \in Int
        BY <1>1, <1>3, <2>3
      <3> QED BY <2>5, <3>1, FieldFacts
    <2> QED BY <2>6, <2>7, <2>8, PositionReportFields
  <1> QED BY <1>4, <1>5, <1>6, <1>7 DEF WellFormed

LEMMA MetadataWellFormed ==
  ASSUME NEW mmsi \in Nat, NEW md, Obeys(md, Metadata)
  PROVE  WellFormed(FromMetadata(mmsi, md))
  <1> DEFINE p == FromMetadata(mmsi, md)
             eta == UnpackEta(Get(md, "eta", 0))
  <1>1. /\ Get(md, "eta", 0) \in Nat /\ Get(md, "imo", 0) \in Nat
        /\ Get(md, "type", 0) \in Nat /\ Get(md, "refA", 0) \in Nat
        /\ Get(md, "refB", 0) \in Nat /\ Get(md, "refC", 0) \in Nat
        /\ Get(md, "refD", 0) \in Nat /\ Get(md, "posType", 0) \in Nat
        /\ Get(md, "draught", 0) \in Int
    BY GetFacts DEF Metadata
  <1>2. /\ Get(md, "callSign", <<>>) \in Seq(Nat) /\ Get(md, "name", <<>>) \in Seq(Nat)
        /\ Get(md, "destination", <<>>) \in Seq(Nat)
    <2>1. \A m \in {"callSign", "name", "destination"} :
            m \in DOMAIN Metadata /\ Metadata[m] = Seq(Nat)
      BY DEF Metadata
    <2>2. <<>> \in Seq(Nat)
      OBVIOUS
    <2>3. \A m \in {"callSign", "name", "destination"} : Get(md, m, <<>>) \in Seq(Nat)
      BY <2>1, <2>2, GetFacts
    <2> QED BY <2>3
  <1>3. /\ eta.Month \in Nat /\ eta.Day \in Nat /\ eta.Hour \in Nat /\ eta.Minute \in Nat
    BY <1>1 DEF UnpackEta
  <1>4. p.type = "ShipStaticData" /\ p.is["MessageID"] = 5
    BY DEF FromMetadata
  <1>5. p.type \in Type /\ KindOf(p.is["MessageID"], Get(p.is, "PartNumber", 0)) = p.type
    <2> HIDE DEF p
    <2> QED BY <1>4, Types DEF KindOf
  <1>6. DOMAIN p.is = {f.field : f \in FieldsOf("ShipStaticData")} \ {"blank"}
    <2> DEFINE names == {"MessageID", "RepeatIndicator", "UserID", "AisVersion",
                         "ImoNumber", "CallSign", "Name", "Type", "A", "B", "C", "D",
                         "FixType", "Month", "Day", "Hour", "Minute",
                         "MaximumStaticDraught", "Destination", "Dte", "Spare"}
    <2>1. DOMAIN p.is = names
      BY DEF FromMetadata
    <2>2. {f.field : f \in FieldsOf("ShipStaticData")} = names
      BY ShipStaticDataFields, FieldFacts
    <2> QED BY <2>1, <2>2
  <1>7. \A f \in FieldsOf("ShipStaticData") : f.as # "blank" => Holds(f, p.is[f.field])
    <2>1. /\ p.is["MessageID"] = 5 /\ p.is["RepeatIndicator"] = 0 /\ p.is["UserID"] = mmsi
          /\ p.is["AisVersion"] = 0 /\ p.is["ImoNumber"] = Get(md, "imo", 0)
          /\ p.is["Type"] = Get(md, "type", 0) /\ p.is["A"] = Get(md, "refA", 0)
          /\ p.is["B"] = Get(md, "refB", 0) /\ p.is["C"] = Get(md, "refC", 0)
          /\ p.is["D"] = Get(md, "refD", 0)
      BY DEF FromMetadata
    <2>2. /\ p.is["FixType"] = Get(md, "posType", 0) /\ p.is["Month"] = eta.Month
          /\ p.is["Day"] = eta.Day /\ p.is["Hour"] = eta.Hour
          /\ p.is["Minute"] = eta.Minute /\ p.is["Dte"] = 0 /\ p.is["Spare"] = 0
          /\ p.is["MaximumStaticDraught"] = 10 * Get(md, "draught", 0)
          /\ p.is["CallSign"] = Get(md, "callSign", <<>>)
          /\ p.is["Name"] = Get(md, "name", <<>>)
          /\ p.is["Destination"] = Get(md, "destination", <<>>)
      BY DEF FromMetadata
    <2> HIDE DEF p, eta
    <2>3. ASSUME NEW f, f.as = "unsigned", p.is[f.field] \in Nat PROVE Holds(f, p.is[f.field])
      BY <2>3 DEF Holds
    <2>5. \A f \in {U("MessageID", 6), U("RepeatIndicator", 2), U("UserID", 30),
                   U("AisVersion", 2), U("ImoNumber", 30), U("Type", 8), U("A", 9),
                   U("B", 9), U("C", 6), U("D", 6)} : Holds(f, p.is[f.field])
      BY <1>1, <2>1, <2>3, FieldFacts
    <2>6. \A f \in {U("FixType", 4), U("Month", 4), U("Day", 5), U("Hour", 5),
                   U("Minute", 6), U("Dte", 1), U("Spare", 1)} : Holds(f, p.is[f.field])
      <3>1. /\ p.is["FixType"] \in Nat /\ p.is["Month"] \in Nat /\ p.is["Day"] \in Nat
            /\ p.is["Hour"] \in Nat /\ p.is["Minute"] \in Nat /\ p.is["Dte"] \in Nat
            /\ p.is["Spare"] \in Nat
        BY <1>1, <1>3, <2>2
      <3> QED BY <2>3, <3>1, FieldFacts
    <2>7. \A f \in {S("CallSign", 42), S("Name", 120), S("Destination", 120)} :
            Holds(f, p.is[f.field])
      <3>1. /\ p.is["CallSign"] \in Seq(Nat) /\ p.is["Name"] \in Seq(Nat)
            /\ p.is["Destination"] \in Seq(Nat)
        BY <1>2, <2>2, Zenon
      <3>2. Holds(S("CallSign", 42), p.is[S("CallSign", 42).field])
        <4>1. Holds(S("CallSign", 42), p.is["CallSign"])
          BY <3>1, TextHolds, Zenon
        <4> QED BY <4>1, FieldFacts
      <3>3. Holds(S("Name", 120), p.is[S("Name", 120).field])
        <4>1. Holds(S("Name", 120), p.is["Name"])
          BY <3>1, TextHolds, Zenon
        <4> QED BY <4>1, FieldFacts
      <3>4. Holds(S("Destination", 120), p.is[S("Destination", 120).field])
        <4>1. Holds(S("Destination", 120), p.is["Destination"])
          BY <3>1, TextHolds, Zenon
        <4> QED BY <4>1, FieldFacts
      <3> QED BY <3>2, <3>3, <3>4, Zenon
    <2>8. Holds(R("MaximumStaticDraught", 8), p.is[R("MaximumStaticDraught", 8).field])
      BY <1>1, <2>2, FieldFacts DEF Holds
    <2>9. \A f \in FieldsOf("ShipStaticData") : Holds(f, p.is[f.field])
      BY <2>5, <2>6, <2>7, <2>8, ShipStaticDataFields
    <2> QED BY <2>9
  <1> QED BY <1>4, <1>5, <1>6, <1>7 DEF WellFormed

-----------------------------------------------------------------------------
(***************************************************************************)
(* Positions.                                                              *)
(***************************************************************************)
\* A type places its vessel, or it does not speak of places.
Places(type) == /\ \E w : D("Latitude", w) \in FieldsOf(type)
                /\ \E w : D("Longitude", w) \in FieldsOf(type)

LEMMA PlacesIf ==
  ASSUME NEW type, NEW k, NEW l, NEW v, NEW w,
         HasField(type, k, D("Longitude", v)), HasField(type, l, D("Latitude", w))
  PROVE  Places(type)
  BY FieldThere DEF Places

\* Every type does one or the other.
LEMMA PlacesOrNot ==
  ASSUME NEW type \in Type
  PROVE  Places(type) \/ \A x \in Reads(type) : x.field # "Latitude"
  <1>1. Places("PositionReport")
    <2>1. /\ HasField("PositionReport", 8, D("Longitude", 28))
          /\ HasField("PositionReport", 9, D("Latitude", 27))
      BY DEF HasField, Encoder, Header, Motion, Place
    <2> QED BY <2>1, PlacesIf
  <1>2. Places("BaseStationReport")
    <2>1. /\ HasField("BaseStationReport", 11, D("Longitude", 28))
          /\ HasField("BaseStationReport", 12, D("Latitude", 27))
      BY DEF HasField, Encoder, Header, Place
    <2> QED BY <2>1, PlacesIf
  <1>3. Places("SarAircraft")
    <2>1. /\ HasField("SarAircraft", 7, D("Longitude", 28))
          /\ HasField("SarAircraft", 8, D("Latitude", 27))
      BY DEF HasField, Encoder, Header, Place
    <2> QED BY <2>1, PlacesIf
  <1>4. Places("StandardClassB")
    <2>1. /\ HasField("StandardClassB", 7, D("Longitude", 28))
          /\ HasField("StandardClassB", 8, D("Latitude", 27))
      BY DEF HasField, Encoder, Header, Motion, Place
    <2> QED BY <2>1, PlacesIf
  <1>5. Places("ExtendedClassB")
    <2>1. /\ HasField("ExtendedClassB", 7, D("Longitude", 28))
          /\ HasField("ExtendedClassB", 8, D("Latitude", 27))
      BY DEF HasField, Encoder, Header, Motion, Place, Dimension
    <2> QED BY <2>1, PlacesIf
  <1>6. Places("AidsToNavigation")
    <2>1. /\ HasField("AidsToNavigation", 7, D("Longitude", 28))
          /\ HasField("AidsToNavigation", 8, D("Latitude", 27))
      BY DEF HasField, Encoder, Header, Place, Dimension
    <2> QED BY <2>1, PlacesIf
  <1>7. Places("LongRange")
    <2>1. /\ HasField("LongRange", 7, D("Longitude", 18))
          /\ HasField("LongRange", 8, D("Latitude", 17))
      BY DEF HasField, Encoder, Header
    <2> QED BY <2>1, PlacesIf
  <1>8. \A x \in Reads("ShipStaticData") \cup Reads("StaticDataA") \cup Reads("StaticDataB") :
          x.field # "Latitude"
    BY DEF Reads, HeaderRead, Decoder, DimensionAt, UAt, IAt, RAt, DAt, SAt, At
  <1> QED BY <1>1, <1>2, <1>3, <1>4, <1>5, <1>6, <1>7, <1>8, Types

\* A coordinate that fits arrives, to the unit.
LEMMA CoordinateHeard ==
  ASSUME NEW p, WellFormed(p), NEW f \in FieldsOf(p.type), f.as = "degrees",
         Fits(f, p.is[f.field])
  PROVE  /\ f.field \in DOMAIN p.is
         /\ f.field \in DOMAIN Decode(Encode(p)).is
         /\ Decode(Encode(p)).is[f.field] = 10 * Round(p.is[f.field])
  <1> DEFINE heard == Decode(Encode(p))
  <1>1. f.as # "blank"
    OBVIOUS
  <1>2. EncodeBits(p) \in Seq(Bit)
    BY Decoded
  <1>3. PICK a \in Nat :
           /\ GoodField(f) /\ Placed(EncodeBits(p), f, a, p.is[f.field])
           /\ Holds(f, p.is[f.field])
           /\ heard.is[f.field] = ReadAt(EncodeBits(p), f, a)
    BY <1>1, Decoded
  <1>4. Numeric(f)
    BY DEF Numeric
  <1>5. heard.is[f.field] = 10 * Round(p.is[f.field])
    BY <1>2, <1>3, <1>4, NumericHeard
  <1>6. f.field \in DOMAIN heard.is /\ f.field # "blank"
    BY <1>1, Decoded
  <1>7. f.field \in DOMAIN p.is
    BY <1>6 DEF WellFormed
  <1> QED BY <1>5, <1>6, <1>7

\* A vessel is placed where it was told to be, or nowhere.
LEMMA PositionHeard ==
  ASSUME NEW p, WellFormed(p),
         \A f \in FieldsOf(p.type) : f.as = "degrees" => Fits(f, p.is[f.field])
  PROVE  Position(Decode(Encode(p))) = Position(Rounded(p))
  <1> DEFINE heard == Decode(Encode(p))
             told == Rounded(p)
  <1>1. heard.type = p.type /\ told.type = p.type /\ DOMAIN told.is = DOMAIN p.is
        /\ p.type \in Type
    BY Decoded DEF Rounded, WellFormed
  <1>2. CASE Places(p.type)
    <2>1. PICK v : D("Latitude", v) \in FieldsOf(p.type)
      BY <1>2 DEF Places
    <2>2. PICK w : D("Longitude", w) \in FieldsOf(p.type)
      BY <1>2 DEF Places
    <2>3. /\ "Latitude" \in DOMAIN p.is /\ "Latitude" \in DOMAIN heard.is
          /\ heard.is["Latitude"] = 10 * Round(p.is["Latitude"])
      <3> DEFINE f == D("Latitude", v)
      <3>1. f.as = "degrees" /\ f.field = "Latitude"
        BY FieldFacts
      <3> HIDE DEF heard, f
      <3> QED BY <2>1, <3>1, CoordinateHeard DEF heard, f
    <2>4. /\ "Longitude" \in DOMAIN p.is /\ "Longitude" \in DOMAIN heard.is
          /\ heard.is["Longitude"] = 10 * Round(p.is["Longitude"])
      <3> DEFINE f == D("Longitude", w)
      <3>1. f.as = "degrees" /\ f.field = "Longitude"
        BY FieldFacts
      <3> HIDE DEF heard, f
      <3> QED BY <2>2, <3>1, CoordinateHeard DEF heard, f
    <2>5. /\ told.is["Latitude"] = heard.is["Latitude"]
          /\ told.is["Longitude"] = heard.is["Longitude"]
          /\ "Latitude" \in DOMAIN told.is
      <3> HIDE DEF heard
      <3> QED BY <2>3, <2>4 DEF Rounded
    <2> HIDE DEF heard, told
    <2> QED BY <1>1, <2>3, <2>5 DEF Position, heard, told
  <1>3. CASE ~Places(p.type)
    <2>1. \A x \in Reads(p.type) : x.field # "Latitude"
      BY <1>1, <1>3, PlacesOrNot
    <2>2. "Latitude" \notin DOMAIN heard.is
      BY <2>1, Decoded
    <2>3. "Latitude" \notin DOMAIN p.is
      <3> SUFFICES ASSUME "Latitude" \in DOMAIN p.is PROVE FALSE
        OBVIOUS
      <3>1. PICK f \in FieldsOf(p.type) : f.field = "Latitude"
        BY DEF WellFormed
      <3>2. f.as # "blank"
        BY <3>1, Decoded
      <3> QED BY <2>2, <3>1, <3>2, Decoded
    <2> HIDE DEF heard, told
    <2> QED BY <1>1, <2>2, <2>3 DEF Position, heard, told
  <1> QED BY <1>2, <1>3

-----------------------------------------------------------------------------
(***************************************************************************)
(* The frames of the feeds.                                                *)
(***************************************************************************)
\* A number that fits arrives.
LEMMA UnsignedKept ==
  ASSUME NEW x, NEW w, NEW v, NEW heard, Kept(U(x, w), v, heard), v < TwoTo[w]
  PROVE  heard = v
  <1>1. U(x, w).as = "unsigned" /\ U(x, w).width = w
    BY DEF U, Pushed
  <1>2. Fits(U(x, w), v)
    BY <1>1 DEF Fits
  <1> QED BY <1>1, <1>2 DEF Kept

\* A packed time of arrival arrives bit by bit.
LEMMA EtaHeard ==
  ASSUME NEW mmsi \in Nat, NEW md, Obeys(md, Metadata)
  PROVE  LET heard == Decode(Encode(FromMetadata(mmsi, md)))
         IN  Get(md, "eta", 0) % TwoTo[20] =
               Number(PushUint(heard.is["Month"], 4) \o PushUint(heard.is["Day"], 5)
                      \o PushUint(heard.is["Hour"], 5) \o PushUint(heard.is["Minute"], 6))
  <1> DEFINE p == FromMetadata(mmsi, md)
             heard == Decode(Encode(p))
             raw == Get(md, "eta", 0)
             eta == UnpackEta(raw)
  <1>1. WellFormed(p)
    BY MetadataWellFormed
  <1>2. raw \in Nat
    BY GetFacts DEF Metadata
  <1>3. /\ eta.Month < TwoTo[4] /\ eta.Day < TwoTo[5] /\ eta.Hour < TwoTo[5]
        /\ eta.Minute < TwoTo[6]
    <2> HIDE DEF raw
    <2> QED BY <1>2, Powers DEF UnpackEta
  <1>4. /\ p.type = "ShipStaticData"
        /\ p.is["Month"] = eta.Month /\ p.is["Day"] = eta.Day
        /\ p.is["Hour"] = eta.Hour /\ p.is["Minute"] = eta.Minute
    BY EtaFields
  <1> HIDE DEF p, raw, eta, heard
  <1>5. \A f \in FieldsOf("ShipStaticData") :
          f.as # "blank" => Kept(f, p.is[f.field], heard.is[f.field])
    BY <1>1, <1>4, FieldsKept DEF heard
  <1>6. /\ Kept(U("Month", 4), eta.Month, heard.is["Month"])
        /\ Kept(U("Day", 5), eta.Day, heard.is["Day"])
        /\ Kept(U("Hour", 5), eta.Hour, heard.is["Hour"])
        /\ Kept(U("Minute", 6), eta.Minute, heard.is["Minute"])
    <2>1. \A f \in {U("Month", 4), U("Day", 5), U("Hour", 5), U("Minute", 6)} :
            f \in FieldsOf("ShipStaticData")
      BY ShipStaticDataFields
    <2>2. \A f \in {U("Month", 4), U("Day", 5), U("Hour", 5), U("Minute", 6)} :
            Kept(f, p.is[f.field], heard.is[f.field])
      BY <1>5, <2>1, FieldFacts
    <2> QED BY <1>4, <2>2, FieldFacts
  <1>7. /\ heard.is["Month"] = eta.Month /\ heard.is["Day"] = eta.Day
        /\ heard.is["Hour"] = eta.Hour /\ heard.is["Minute"] = eta.Minute
    BY <1>3, <1>6, UnsignedKept
  <1>8. raw % TwoTo[20] =
          Number(PushUint(eta.Month, 4) \o PushUint(eta.Day, 5)
                 \o PushUint(eta.Hour, 5) \o PushUint(eta.Minute, 6))
    BY <1>2, EtaBits DEF eta
  <1>9. raw % TwoTo[20] =
          Number(PushUint(heard.is["Month"], 4) \o PushUint(heard.is["Day"], 5)
                 \o PushUint(heard.is["Hour"], 5) \o PushUint(heard.is["Minute"], 6))
    BY <1>7, <1>8
  <1> QED BY <1>9, Zenon DEF heard, p, raw

\* Whatever a feed says is a packet.
LEMMA PacketsWellFormed ==
  ASSUME NEW f \in Frames
  PROVE  WellFormed(ToPacket(f))
  <1>1. CASE f.feed = "location" /\ f.mmsi \in Nat /\ Obeys(f.json, Location)
    BY <1>1, LocationWellFormed DEF ToPacket
  <1>2. CASE f.feed = "metadata" /\ f.mmsi \in Nat /\ Obeys(f.json, Metadata)
    BY <1>2, MetadataWellFormed DEF ToPacket
  <1>3. CASE f.feed = "aisstream" /\ WellFormed(f.packet)
    BY <1>3 DEF ToPacket
  <1> QED BY <1>1, <1>2, <1>3, FramesAssumption

-----------------------------------------------------------------------------
(***************************************************************************)
(* Sentences, and the message they carry through the assembler.            *)
(***************************************************************************)
\* How many sixties there are.
LEMMA SixtyFacts ==
  ASSUME NEW l \in Nat, l > 0, NEW total, total = (l + 59) \div 60
  PROVE  /\ total \in Nat /\ total > 0 /\ 60 * (total - 1) < l /\ l <= 60 * total
         /\ l <= 71 => total <= 2
  OBVIOUS

\* The pieces of a payload are its characters, one after the other.
LEMMA ChunksFacts ==
  ASSUME NEW payload, payload.chars \in Seq(Legal), Len(payload.chars) > 0,
         payload.fill \in 0..5
  PROVE  LET content == Chunks(payload)
             total   == Len(content)
         IN  /\ total \in Nat /\ total > 0 /\ DOMAIN content = 1..total
             /\ Len(payload.chars) <= 71 => total <= 2
             /\ \A i \in 1..total : Parses(content[i])
             /\ content[total].fill = payload.fill
             /\ FlattenSeq([i \in 1..total |-> content[i].chars]) = payload.chars
  <1> DEFINE chars == payload.chars
             l == Len(chars)
             total == (l + 59) \div 60
             end(i) == IF i = total THEN l ELSE i * 60
             ends == [i \in 0..total |-> end(i)]
             piece(i) == SubSeq(chars, (i - 1) * 60 + 1, end(i))
             content == [i \in 1..total |->
                           [chars |-> piece(i), fill |-> IF i = total THEN payload.fill ELSE 0]]
             seqs == [i \in 1..total |-> content[i].chars]
  <1>1. chars \in Seq(Legal) /\ l \in Nat /\ l > 0 /\ chars # <<>>
    OBVIOUS
  <1>2. Chunks(payload) = content
    <2>1. payload.chars # <<>>
      OBVIOUS
    <2>2. PerSentence = 60 /\ Len(payload.chars) + 60 - 1 = l + 59
      BY <1>1 DEF PerSentence
    <2> QED BY <2>1, <2>2 DEF Chunks
  <1> HIDE DEF l
  <1>3. /\ total \in Nat /\ total > 0 /\ 60 * (total - 1) < l /\ l <= 60 * total
        /\ l <= 71 => total <= 2
    BY <1>1, SixtyFacts
  <1> HIDE DEF total
  <1>4. ASSUME NEW i \in 1..total
        PROVE  /\ end(i) \in Nat /\ (i - 1) * 60 \in Nat /\ (i - 1) * 60 <= end(i)
               /\ end(i) <= l /\ ends[i] = end(i) /\ ends[i - 1] = (i - 1) * 60
    <2>1. ends[i] = end(i) /\ ends[i - 1] = end(i - 1) /\ i - 1 # total
      BY <1>3
    <2>2. CASE i = total
      BY <1>1, <1>3, <2>1, <2>2
    <2>3. CASE i # total
      <3>1. i <= total - 1
        BY <1>3, <2>3
      <3> QED BY <1>1, <1>3, <2>1, <2>3, <3>1
    <2> QED BY <2>2, <2>3
  <1>5. ends \in [0..total -> Nat] /\ ends[0] = 0 /\ ends[total] = l
    <2>1. \A i \in 0..total : end(i) \in Nat
      BY <1>1, <1>3
    <2>2. 0 # total /\ end(0) = 0
      BY <1>3
    <2>3. end(total) = l
      OBVIOUS
    <2> HIDE DEF end
    <2> QED BY <1>3, <2>1, <2>2, <2>3
  <1> HIDE DEF ends
  <1>6. ASSUME NEW i \in 1..total
        PROVE  /\ piece(i) \in Seq(Legal) /\ Len(piece(i)) = ends[i] - ends[i - 1]
               /\ \A j \in 1..ends[i] - ends[i - 1] : piece(i)[j] = chars[ends[i - 1] + j]
    <2> DEFINE a == (i - 1) * 60
               b == end(i)
    <2>1. a \in Nat /\ b \in Nat /\ a <= b /\ b <= Len(chars) /\ ends[i] = b /\ ends[i - 1] = a
      BY <1>4 DEF l
    <2>2. piece(i) = SubSeq(chars, a + 1, b)
      OBVIOUS
    <2> HIDE DEF a, b, piece, chars
    <2>3. /\ SubSeq(chars, a + 1, b) \in Seq(Legal) /\ Len(SubSeq(chars, a + 1, b)) = b - a
          /\ \A j \in 1..b - a : SubSeq(chars, a + 1, b)[j] = chars[a + j]
      BY <1>1, <2>1, SubSeqFacts
    <2> QED BY <2>1, <2>2, <2>3
  <1> HIDE DEF piece, end
  <1>7. ASSUME NEW i \in 1..total
        PROVE  /\ content[i].chars = piece(i) /\ seqs[i] = piece(i)
               /\ content[i].fill = IF i = total THEN payload.fill ELSE 0
    OBVIOUS
  <1>8. Len(content) = total /\ DOMAIN content = 1..total
    BY <1>3
  <1> HIDE DEF content
  <1>9. seqs \in Seq(Seq(Legal)) /\ Len(seqs) = total
    <2>1. seqs \in [1..total -> Seq(Legal)]
      BY <1>6, <1>7
    <2> HIDE DEF seqs
    <2> QED BY <1>3, <2>1
  <1> HIDE DEF seqs, chars
  <1>10. ASSUME NEW i \in 1..total
         PROVE  ends[i] \in Nat /\ ends[i - 1] \in Nat /\ ends[i] = ends[i - 1] + Len(seqs[i])
                /\ ends[i - 1] = (i - 1) * 60
    BY <1>4, <1>6, <1>7
  <1>11. Ends(seqs, ends)
    BY <1>5, <1>9, <1>10 DEF Ends
  <1> DEFINE flat == FlattenSeq(seqs)
  <1>12. flat \in Seq(Legal) /\ Len(flat) = l
    BY <1>3, <1>5, <1>9, <1>11, FlattenFacts
  <1>13. Laid(seqs, ends)
    BY <1>3, <1>9, <1>11, FlattenFacts
  <1> HIDE DEF flat
  <1>14. ASSUME NEW x \in 1..l PROVE flat[x] = chars[x]
    <2> DEFINE i == (x + 59) \div 60
               j == x - (i - 1) * 60
    <2>1. i \in 1..total /\ j \in Nat /\ j > 0 /\ j <= 60 /\ x = (i - 1) * 60 + j
      BY <1>1, <1>3
    <2> HIDE DEF i, j
    <2>2. ends[i - 1] = (i - 1) * 60 /\ ends[i] = end(i)
      BY <1>4, <2>1
    <2>3. x <= ends[i]
      <3>1. CASE i = total
        BY <2>1, <2>2, <3>1 DEF end
      <3>2. CASE i # total
        BY <2>1, <2>2, <3>2 DEF end
      <3> QED BY <3>1, <3>2
    <2>4. j \in 1..Len(seqs[i]) /\ x = ends[i - 1] + j /\ j \in 1..ends[i] - ends[i - 1]
      BY <1>10, <2>1, <2>2, <2>3
    <2>5. flat[ends[i - 1] + j] = seqs[i][j]
      BY <1>9, <1>13, <2>1, <2>4 DEF Laid, flat
    <2>6. seqs[i][j] = chars[ends[i - 1] + j]
      BY <1>6, <1>7, <2>1, <2>4
    <2> QED BY <2>4, <2>5, <2>6
  <1>15. flat = chars
    BY <1>1, <1>12, <1>14, SameSeq DEF l
  <1>16. ASSUME NEW i \in 1..total PROVE Parses(content[i])
    <2>1. content[i].fill \in 0..5
      BY <1>7
    <2>2. content[i].chars \in Seq(Legal)
      BY <1>6, <1>7
    <2>3. \A j \in DOMAIN content[i].chars : content[i].chars[j] \in Legal
      BY <2>2
    <2> QED BY <2>1, <2>3 DEF Parses, Legal
  <1>17. content[total].fill = payload.fill
    BY <1>3, <1>7
  <1>18. FlattenSeq([i \in 1..total |-> content[i].chars]) = payload.chars
    BY <1>15, Zenon DEF flat, seqs, chars
  <1>19. Len(payload.chars) <= 71 => total <= 2
    BY <1>3 DEF l, chars
  <1> QED BY <1>2, <1>3, <1>8, <1>16, <1>17, <1>18, <1>19

\* A frame takes one or two sentences, each of which parses, and the payload
\* of its group is the one that was encoded.
LEMMA ContentFacts ==
  ASSUME NEW f \in Frames, Content = Chunks(Encode(ToPacket(f)))
  PROVE  /\ Len(Content) \in 1..2 /\ DOMAIN Content = 1..Len(Content)
         /\ \A i \in DOMAIN Content : Parses(Content[i])
         /\ DOMAIN group = 1..Len(Content) => Joined = Encode(ToPacket(f))
  <1> DEFINE p == ToPacket(f)
             payload == Encode(p)
             total == Len(Content)
  <1>1. /\ EncodeBits(p) \in Seq(Bit) /\ Len(EncodeBits(p)) > 0
        /\ Len(EncodeBits(p)) <= 424
    BY PacketsWellFormed, Decoded
  <1>2. /\ payload.chars \in Seq(Legal) /\ Len(payload.chars) > 0
        /\ payload.fill \in 0..5
        /\ 6 * Len(payload.chars) = Len(EncodeBits(p)) + payload.fill
        /\ payload = [chars |-> payload.chars, fill |-> payload.fill]
    BY <1>1, PayloadFacts
  <1> HIDE DEF payload
  <1>3. Len(payload.chars) <= 71
    <2>1. Len(EncodeBits(p)) \in Nat /\ Len(payload.chars) \in Nat
      BY <1>1, <1>2
    <2> QED BY <1>1, <1>2, <2>1
  <1>4. Content = Chunks(payload)
    BY DEF payload
  <1>5. /\ total \in Nat /\ total > 0 /\ DOMAIN Content = 1..total /\ total <= 2
        /\ \A i \in 1..total : Parses(Content[i])
        /\ Content[total].fill = payload.fill
        /\ FlattenSeq([i \in 1..total |-> Content[i].chars]) = payload.chars
    BY <1>2, <1>3, <1>4, ChunksFacts
  <1>6. ASSUME DOMAIN group = 1..total PROVE Joined = payload
    <2> HIDE DEF total
    <2>1. Cardinality(1..total) = total
      <3>1. Cardinality(1..total) = IF 1 > total THEN 0 ELSE total - 1 + 1
        BY <1>5, FS_Interval
      <3> QED BY <1>5, <3>1
    <2>2. Joined = [chars |-> FlattenSeq([i \in 1..total |-> Content[i].chars]),
                    fill |-> Content[total].fill]
      BY <1>6, <2>1 DEF Joined
    <2> QED BY <1>2, <1>5, <2>2
  <1> QED BY <1>5, <1>6 DEF payload

\* What the pipeline decodes of the payload of a frame.
LEMMA FrameHeard ==
  ASSUME NEW f \in Frames
  PROVE  LET told  == ToPacket(f)
             heard == Decode(Encode(told))
         IN  /\ heard.type = told.type
             /\ \A x \in FieldsOf(told.type) :
                  x.as # "blank" => Kept(x, told.is[x.field], heard.is[x.field])
             /\ (\A x \in FieldsOf(told.type) :
                  x.as = "degrees" => Fits(x, told.is[x.field]))
                => Position(heard) = Position(Rounded(told))
             /\ f.feed = "metadata" =>
                  Get(f.json, "eta", 0) % TwoTo[20] =
                    Number(PushUint(heard.is["Month"], 4) \o PushUint(heard.is["Day"], 5)
                           \o PushUint(heard.is["Hour"], 5)
                           \o PushUint(heard.is["Minute"], 6))
  <1> DEFINE told == ToPacket(f)
             heard == Decode(Encode(told))
  <1>1. WellFormed(told)
    BY PacketsWellFormed
  <1>2. heard.type = told.type
    BY <1>1, Decoded
  <1>3. \A x \in FieldsOf(told.type) :
          x.as # "blank" => Kept(x, told.is[x.field], heard.is[x.field])
    BY <1>1, FieldsKept
  <1>4. (\A x \in FieldsOf(told.type) : x.as = "degrees" => Fits(x, told.is[x.field]))
          => Position(heard) = Position(Rounded(told))
    BY <1>1, PositionHeard
  <1>5. ASSUME f.feed = "metadata"
        PROVE  Get(f.json, "eta", 0) % TwoTo[20] =
                 Number(PushUint(heard.is["Month"], 4) \o PushUint(heard.is["Day"], 5)
                        \o PushUint(heard.is["Hour"], 5)
                        \o PushUint(heard.is["Minute"], 6))
    <2>1. f.mmsi \in Nat /\ Obeys(f.json, Metadata)
      BY <1>5, FramesAssumption
    <2>2. told = FromMetadata(f.mmsi, f.json)
      BY <1>5 DEF ToPacket
    <2> DEFINE d == Decode(Encode(FromMetadata(f.mmsi, f.json)))
    <2>3. Get(f.json, "eta", 0) % TwoTo[20] =
            Number(PushUint(d.is["Month"], 4) \o PushUint(d.is["Day"], 5)
                   \o PushUint(d.is["Hour"], 5) \o PushUint(d.is["Minute"], 6))
      BY <2>1, EtaHeard
    <2>4. heard = d
      BY <2>2
    <2> QED BY <2>3, <2>4
  <1> QED BY <1>2, <1>3, <1>4, <1>5

-----------------------------------------------------------------------------
\* The one message of the regime "single".

Alone ==
  regime = "single" =>
    /\ "single" \in Regimes /\ frame \in Frames /\ sent \in {0, 1}
    /\ sent = 0 => link = <<>> /\ published = 0
    /\ \A i \in 1..Len(link) : link[i].fragments = Len(Content)
    /\ sent = 1 /\ link = <<>> => DOMAIN group = 1..Len(Content)

UInv == RInv /\ Alone

LEMMA ContentLength ==
  ASSUME regime = "single", Alone
  PROVE  /\ Len(Content) \in 1..MaxFragments /\ Len(Content) \in 1..2
         /\ DOMAIN Content = 1..Len(Content)
         /\ \A i \in DOMAIN Content : Parses(Content[i])
         /\ DOMAIN group = 1..Len(Content) => Joined = Encode(ToPacket(frame))
  <1>1. "single" \in Regimes /\ frame \in Frames
    BY DEF Alone
  <1>2. Content = Chunks(Encode(ToPacket(frame)))
    BY DEF Content
  <1>3. /\ Len(Content) \in 1..2 /\ DOMAIN Content = 1..Len(Content)
        /\ \A i \in DOMAIN Content : Parses(Content[i])
        /\ DOMAIN group = 1..Len(Content) => Joined = Encode(ToPacket(frame))
    BY <1>1, <1>2, ContentFacts
  <1>4. Len(Content) \in 1..MaxFragments
    <2>1. MaxFragments \in Nat /\ MaxFragments >= 2
      BY <1>1, SentencesAssumption, FragmentsAssumption
    <2>2. Len(Content) \in 1..2
      BY <1>3
    <2>3. \A n \in 1..2 : n \in 1..MaxFragments
      BY <2>1
    <2> QED BY <2>2, <2>3, Zenon
  <1> QED BY <1>3, <1>4, Zenon

LEMMA AloneKept ==
  ASSUME RInv, RInv', Alone, [UplinkNext]_<<vars, frame>>
  PROVE  Alone'
  <1> SUFFICES ASSUME regime' = "single" PROVE Alone'
    BY DEF Alone
  <1>1. frame' = frame /\ regime' = regime
    BY DEF UplinkNext, ConvertFrame, Next, ConvertAny, Convert, Send, Deliver,
       DeliverDatagram, DeliverNoise, DeliverOther, Lose, Reconnect, Tick, vars, converter
  <1>2. regime = "single"
    BY <1>1
  <1>3. /\ "single" \in Regimes /\ frame \in Frames /\ sent \in {0, 1}
        /\ sent = 0 => link = <<>> /\ published = 0
        /\ \A i \in 1..Len(link) : link[i].fragments = Len(Content)
        /\ sent = 1 /\ link = <<>> => DOMAIN group = 1..Len(Content)
    BY <1>2 DEF Alone
  <1>4. Content' = Content
    BY <1>1 DEF Content
  <1>5. LinkTyped /\ AssemblerInv /\ Reliable /\ LinkTyped' /\ Reliable'
    BY DEF RInv
  <1> DEFINE total == Len(Content)
  <1>6. total \in 1..MaxFragments
    BY <1>2, ContentLength
  <1>7. CASE ConvertFrame
    <2>1. /\ sent = 0 /\ link' = link \o ToSentences(total) /\ sent' = sent + 1
      BY <1>7 DEF ConvertFrame, Convert, Send
    <2>2. /\ Len(link') = Len(link) + total /\ Len(link) \in Nat
          /\ \A i \in 1..Len(link) : link'[i] = link[i]
          /\ \A f \in 1..total : link'[Len(link) + f] = ToSentences(total)[f]
      BY <1>5, <1>6, <2>1, LinkExtended
    <2>3. Len(link) = 0 /\ total \in Nat /\ total >= 1
      BY <1>3, <1>6, <2>1, FragmentsAssumption
    <2> HIDE DEF total
    <2>4. \A i \in 1..Len(link') : link'[i].fragments = total
      <3> SUFFICES ASSUME NEW i \in 1..Len(link') PROVE link'[i].fragments = total
        OBVIOUS
      <3>1. i \in 1..total /\ Len(link) + i = i
        BY <2>2, <2>3
      <3>2. link'[i] = ToSentences(total)[i]
        BY <2>2, <3>1
      <3>3. ToSentences(total)[i] = [key |-> seq % SeqBase, raw |-> sent + 1,
                                     fragments |-> total, fragment |-> i]
        BY <1>5, <1>6, <3>1, ToSentencesFacts
      <3> QED BY <3>2, <3>3
    <2>5. link' # <<>>
      BY <2>2, <2>3
    <2> QED BY <1>1, <1>3, <1>4, <2>1, <2>4, <2>5 DEF Alone, total
  <1>8. CASE Deliver
    <2> DEFINE h == link[1]
    <2>1. /\ link # <<>> /\ A!Add(h) /\ link' = Tail(link) /\ h \in OnLink
          /\ sent' = sent
          /\ published' = IF group' = A!None THEN published ELSE published + 1
      BY <1>5, <1>8, HeadOnLink DEF Deliver, converter
    <2>2. /\ Len(link) \in Nat \ {0} /\ Len(link') = Len(link) - 1
          /\ \A i \in 1..Len(link') : link'[i] = link[i + 1]
      <3>1. /\ Len(link) \in Nat \ {0} /\ Len(Tail(link)) = Len(link) - 1
            /\ \A i \in 1..Len(link) - 1 : Tail(link)[i] = link[i + 1]
        BY <1>5, <2>1, HeadOnLink
      <3> QED BY <2>1, <3>1
    <2>3. sent = 1 /\ h.fragments = total
      BY <1>3, <2>1, <2>2
    <2>4. \A i \in 1..Len(link') : link'[i].fragments = total
      BY <1>3, <2>2
    <2>5. ASSUME link' = <<>> PROVE DOMAIN group' = 1..total
      <3>1. published' = 1
        BY <1>1, <1>2, <1>5, <2>1, <2>3, <2>5 DEF Reliable
      <3>2. h.raw = published + 1 /\ h.raw = sent
        <4>1. Len(link) = 1
          BY <2>2, <2>5
        <4> QED BY <1>2, <1>5, <2>1, <4>1 DEF Reliable
      <3>3. published = 0
        BY <1>5, <2>3, <3>2 DEF LinkTyped
      <3>4. group' # A!None
        BY <2>1, <3>1, <3>3
      <3>5. CASE h.fragments = 1
        BY <1>5, <2>1, <2>3, <3>5, AddEffect
      <3>6. CASE h.fragments # 1
        <4>1. \E p : \/ group' = A!None
                     \/ group' = p.parts /\ DOMAIN p.parts = 1..h.fragments
          BY <1>5, <2>1, <3>6, AddEffect
        <4> QED BY <2>3, <3>4, <4>1
      <3> QED BY <3>5, <3>6
    <2> QED BY <1>1, <1>3, <1>4, <2>1, <2>3, <2>4, <2>5 DEF Alone
  <1>9. CASE ConvertAny \/ DeliverDatagram \/ DeliverNoise \/ DeliverOther \/ Lose
             \/ Reconnect \/ Tick
    BY <1>2, <1>9 DEF ConvertAny, DeliverDatagram, DeliverNoise, DeliverOther, Lose,
       Reconnect, Lossy, Tick
  <1>10. CASE UNCHANGED <<vars, frame>>
    <2>1. UNCHANGED <<link, sent, published, group>>
      BY <1>10 DEF vars, converter
    <2> QED BY <1>1, <1>3, <1>4, <2>1 DEF Alone
  <1> QED BY <1>7, <1>8, <1>9, <1>10 DEF UplinkNext, Next

\* The invariant of Reassembly, and what one message alone does.
THEOREM UplinkInvariance == UplinkSpec => []UInv
  <1>1. UplinkInit => UInv
    <2> SUFFICES ASSUME UplinkInit PROVE UInv
      OBVIOUS
    <2>1. Init /\ RInv
      BY InitRInv DEF UplinkInit
    <2>2. Alone
      BY <2>1 DEF UplinkInit, Init, Alone
    <2> QED BY <2>1, <2>2 DEF UInv
  <1>2. UInv /\ [UplinkNext]_<<vars, frame>> => UInv'
    <2> SUFFICES ASSUME UInv, [UplinkNext]_<<vars, frame>> PROVE UInv'
      OBVIOUS
    <2>1. RInv /\ Alone
      BY DEF UInv
    <2>2. [RNext]_vars
      <3>1. CASE ConvertFrame
        <4>1. regime = "single" /\ Convert(Len(Content))
          BY <3>1 DEF ConvertFrame
        <4>2. Len(Content) \in 1..MaxFragments
          BY <2>1, <4>1, ContentLength
        <4> QED BY <4>1, <4>2 DEF RNext, ConvertSome
      <3>2. CASE Next
        BY <3>2 DEF Next, RNext, ConvertAny, ConvertSome
      <3>3. CASE UNCHANGED <<vars, frame>>
        BY <3>3
      <3> QED BY <3>1, <3>2, <3>3 DEF UplinkNext
    <2>3. RInv'
      BY <2>1, <2>2, RInvKept
    <2> QED BY <2>1, <2>3, AloneKept DEF UInv
  <1> QED BY <1>1, <1>2, PTL DEF UplinkSpec

\* The same of the way from the feeds, where a frame's own sentences are on
\* the link.
THEOREM ReassemblyOfFrames ==
  UplinkSpec => [](CountersAgree /\ FragmentsWithinTtl /\ GroupsAreWhole /\ NothingLost)
  <1>1. UInv => CountersAgree /\ FragmentsWithinTtl /\ GroupsAreWhole /\ NothingLost
    BY RInvMeans DEF UInv
  <1> QED BY <1>1, UplinkInvariance, PTL

\* Whatever a frame of a feed says, the pipeline decodes: every field that
\* fits, the position, and Digitraffic's packed time of arrival (encode.rs
\* and decode.rs, to_sentences, the assembler and unpack_eta, one after the
\* other).
THEOREM WhatIsToldIsHeard == UplinkSpec => []FramesSurvive
  <1>1. UInv => FramesSurvive
    <2> SUFFICES ASSUME UInv, regime = "single" PROVE FramesSurvive
      BY DEF FramesSurvive
    <2>1. Alone /\ Reliable
      BY DEF UInv, RInv
    <2>2. /\ \A i \in DOMAIN Content : Parses(Content[i])
          /\ DOMAIN group = 1..Len(Content) => Joined = Encode(ToPacket(frame))
      BY <2>1, ContentLength
    <2>3. ASSUME sent = 1, link = <<>>
          PROVE  /\ published = 1 /\ frame \in Frames
                 /\ Joined = Encode(ToPacket(frame))
      BY <2>1, <2>2, <2>3 DEF Alone, Reliable
    <2> DEFINE told == ToPacket(frame)
               heard == Decode(Joined)
    <2>4. ASSUME sent = 1, link = <<>>
          PROVE  /\ published = 1 /\ heard.type = told.type
                 /\ \A f \in FieldsOf(told.type) :
                      f.as # "blank" => Kept(f, told.is[f.field], heard.is[f.field])
                 /\ (\A f \in FieldsOf(told.type) :
                      f.as = "degrees" => Fits(f, told.is[f.field]))
                    => Position(heard) = Position(Rounded(told))
                 /\ frame.feed = "metadata" =>
                      Get(frame.json, "eta", 0) % TwoTo[20] =
                        Number(PushUint(heard.is["Month"], 4)
                               \o PushUint(heard.is["Day"], 5)
                               \o PushUint(heard.is["Hour"], 5)
                               \o PushUint(heard.is["Minute"], 6))
      <3>1. heard = Decode(Encode(told)) /\ frame \in Frames /\ published = 1
        BY <2>3, <2>4
      <3> HIDE DEF heard, told
      <3> QED BY <3>1, FrameHeard DEF told
    <2> QED BY <2>2, <2>4 DEF FramesSurvive
  <1> QED BY <1>1, UplinkInvariance, PTL
=============================================================================
