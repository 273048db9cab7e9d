----------------------------- MODULE Assembler ------------------------------
(***************************************************************************)
(* crates/nmea/src/assembler.rs: reassembly of multi-fragment AIVDM groups *)
(* from single sentences, for one connection or one UDP source.            *)
(*                                                                         *)
(* The text of a sentence is abstract (raw); its talker, channel and       *)
(* sequence id are one value (key).  at is an auxiliary field: when the    *)
(* sentence was added.                                                     *)
(***************************************************************************)
EXTENDS Integers, FiniteSets, Functions

CONSTANTS
  Key,            \* talker|channel|seq_id
  Raw,            \* texts of sentences
  MaxFragments,   \* the largest fragment count (NMEA: 9)
  Ttl,            \* Assembler::ttl
  MaxTime         \* bound of the model: clock ticks

VARIABLES
  pending,   \* pending: key -> the incomplete group; parts maps the slots
             \* that are filled to their sentences
  group,     \* what the last add returned; the empty function for None
  now        \* the clock

vars == <<pending, group, now>>

None == [i \in {} |-> 0]

Sentence ==
  {s \in [key : Key, raw : Raw, fragments : 1..MaxFragments,
          fragment : 1..MaxFragments] : s.fragment <= s.fragments}

Init == pending = None /\ group = None /\ now = 0

-----------------------------------------------------------------------------
\* Mutations: nothing is evicted; a group lives a tick too long.
NeverEvicted == pending
EvictedLate == Restrict(pending, {k \in DOMAIN pending :
                                    now - pending[k].first_seen <= Ttl + 1})

Evicted == Restrict(pending, {k \in DOMAIN pending :
                                now - pending[k].first_seen <= Ttl})

Fresh(total) == [total |-> total, parts |-> None, have |-> 0,
                 first_seen |-> now]

\* entry().or_insert_with, and the start-over on another fragment count.
Entry(s) ==
  IF s.key \in DOMAIN Evicted /\ Evicted[s.key].total = s.fragments
    THEN Evicted[s.key]
    ELSE Fresh(s.fragments)

\* Mutation: a repeated fragment counts again.
FilledCountingCopies(p, s) ==
  [p EXCEPT
     !.have = @ + 1,
     !.parts = [i \in DOMAIN @ \cup {s.fragment} |->
                  IF i = s.fragment THEN [raw |-> s.raw, at |-> now]
                                    ELSE @[i]]]

\* The sentence goes into its slot, over an older copy if there is one; only
\* an empty slot counts.
Filled(p, s) ==
  [p EXCEPT
     !.have = IF s.fragment \in DOMAIN p.parts THEN @ ELSE @ + 1,
     !.parts = [i \in DOMAIN @ \cup {s.fragment} |->
                  IF i = s.fragment THEN [raw |-> s.raw, at |-> now]
                                    ELSE @[i]]]

AddSingle(s) ==
  /\ s.fragments = 1
  /\ group' = [i \in {1} |-> [raw |-> s.raw, at |-> now]]
  /\ UNCHANGED <<pending, now>>

AddIncomplete(s) ==
  /\ s.fragments > 1
  /\ LET p == Filled(Entry(s), s)
     IN  /\ p.have < s.fragments
         /\ pending' = [k \in DOMAIN Evicted \cup {s.key} |->
                          IF k = s.key THEN p ELSE Evicted[k]]
  /\ group' = None
  /\ UNCHANGED now

AddCompleting(s) ==
  /\ s.fragments > 1
  /\ LET p == Filled(Entry(s), s)
     IN  p.have >= s.fragments /\ group' = p.parts
  /\ pending' = Restrict(Evicted, DOMAIN Evicted \ {s.key})
  /\ UNCHANGED now

Add(s) == AddSingle(s) \/ AddIncomplete(s) \/ AddCompleting(s)

Tick ==
  /\ now < MaxTime
  /\ now' = now + 1
  /\ UNCHANGED <<pending, group>>

\* Any sentence at any time: repeated, reordered, with any of its siblings
\* lost.
Next == (\E s \in Sentence : Add(s)) \/ Tick

Spec == Init /\ [][Next]_vars

-----------------------------------------------------------------------------
\* Properties.

IsParts(parts, n) ==
  /\ DOMAIN parts \subseteq 1..n
  /\ \A i \in DOMAIN parts : parts[i] \in [raw : Raw, at : 0..MaxTime]

TypeOK ==
  /\ DOMAIN pending \subseteq Key
  /\ \A k \in DOMAIN pending :
       LET p == pending[k]
       IN  /\ p.total \in 2..MaxFragments
           /\ IsParts(p.parts, p.total)
           /\ p.have \in 1..MaxFragments
           /\ p.first_seen \in 0..MaxTime
  /\ IsParts(group, MaxFragments)
  /\ now \in 0..MaxTime

\* The counter that decides completion agrees with the slots, whatever copies,
\* restarts and evictions came before: a group neither completes with a hole
\* nor stays pending when it is whole.
HaveCountsSlots ==
  \A k \in DOMAIN pending :
    /\ pending[k].have = Cardinality(DOMAIN pending[k].parts)
    /\ pending[k].have < pending[k].total

\* A returned group has no hole: its slots are 1..n.  (into_iter().flatten()
\* would silently skip one.)
GroupHasNoHole == \E n \in 0..MaxFragments : DOMAIN group = 1..n

\* "Incomplete groups older than ttl are discarded": no group is completed
\* from fragments that arrived more than ttl apart, although eviction is lazy
\* and a repeated fragment refreshes only its slot.
CompletedWithinTtl ==
  \A i, j \in DOMAIN group : group[i].at - group[j].at <= Ttl

\* The slots of a pending group are at most ttl younger than its birth: an
\* old group cannot live on because new copies of its fragments keep coming.
PartsWithinTtl ==
  \A k \in DOMAIN pending : \A i \in DOMAIN pending[k].parts :
    pending[k].parts[i].at \in
      pending[k].first_seen..(pending[k].first_seen + Ttl)
=============================================================================
