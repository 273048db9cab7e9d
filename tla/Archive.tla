------------------------------ MODULE Archive -------------------------------
(***************************************************************************)
(* What the archiver promises about the rows it collects: an archive that  *)
(* stores each row at least once.  It holds a bounded number of rows, lets *)
(* go of a row only when that is stored, and gives rows up only for want   *)
(* of room, never more than it must.  No buffers, attempts or failures.    *)
(***************************************************************************)
EXTENDS Integers, FiniteSets

CONSTANT Room     \* rows held while the store is away

VARIABLES
  accepted,   \* the number of rows; they are numbered as they come
  held,       \* the rows it still has to see to
  stored,
  lost        \* the rows given up

archiveVars == <<accepted, held, stored, lost>>

Init == accepted = 0 /\ held = {} /\ stored = {} /\ lost = {}

\* A row is accepted only when there is room, or one over it.
Accept ==
  /\ Cardinality(held) <= Room
  /\ accepted' = accepted + 1
  /\ held' = held \cup {accepted'}
  /\ UNCHANGED <<stored, lost>>

\* Some of the rows reach the store, perhaps not for the first time.
Store ==
  /\ \E rows \in SUBSET held : stored' = stored \cup rows
  /\ UNCHANGED <<accepted, held, lost>>

LetGo ==
  /\ held' \subseteq held /\ held \ held' \subseteq stored
  /\ UNCHANGED <<accepted, stored, lost>>

GiveUp ==
  /\ Cardinality(held) > Room
  /\ held' \subseteq held /\ Cardinality(held') = Room
  /\ lost' = lost \cup (held \ held')
  /\ UNCHANGED <<accepted, stored>>

Next == Accept \/ Store \/ LetGo \/ GiveUp

Spec == Init /\ [][Next]_archiveVars
=============================================================================
