----------------------- MODULE ArchiverService_proofs -----------------------
(***************************************************************************)
(* Proofs about the archiver, for every flush size, buffer bound, number   *)
(* of rows and number of failures: no row vanishes, and the archiver       *)
(* implements Archive.  And about the importer it shares a binary with,    *)
(* for every backfill window, file limit and number of faults: a recorded  *)
(* day is imported once.                                                   *)
(***************************************************************************)
EXTENDS ArchiverService, TLAPS, SequenceTheorems, FiniteSetTheorems

-----------------------------------------------------------------------------
\* A buffer is a sequence without duplicates.

Distinct(s) == \A i, j \in 1..Len(s) : s[i] = s[j] => i = j

\* Such a sequence has as many rows as its length.
LEMMA DistinctSize ==
  ASSUME NEW S, NEW s \in Seq(S), Distinct(s)
  PROVE  /\ IsFiniteSet(ToSet(s)) /\ Cardinality(ToSet(s)) = Len(s)
         /\ ToSet(s) \subseteq S /\ ToSet(s) = {s[i] : i \in 1..Len(s)}
  <1>1. Len(s) \in Nat /\ s \in [1..Len(s) -> S] /\ DOMAIN s = 1..Len(s)
    BY LenProperties
  <1>2. ToSet(s) = {s[i] : i \in 1..Len(s)}
    BY <1>1 DEF ToSet
  <1>3. s \in Bijection(1..Len(s), ToSet(s))
    BY <1>1, <1>2 DEF Distinct, Bijection, Injection, Surjection, IsInjective
  <1>4. IsFiniteSet(1..Len(s)) /\ Cardinality(1..Len(s)) = Len(s)
    <2>1. /\ 1 \in Int /\ Len(s) \in Int
          /\ (IF 1 > Len(s) THEN 0 ELSE Len(s) - 1 + 1) = Len(s)
      BY <1>1
    <2> QED BY <2>1, FS_Interval
  <1>5. IsFiniteSet(ToSet(s)) /\ Cardinality(ToSet(s)) = Cardinality(1..Len(s))
    BY <1>3, <1>4, FS_Bijection DEF ExistsBijection
  <1> QED BY <1>1, <1>2, <1>4, <1>5

\* A row collected into a buffer that does not hold it.
LEMMA AppendDistinct ==
  ASSUME NEW S, NEW s \in Seq(S), NEW e \in S, Distinct(s), e \notin ToSet(s)
  PROVE  /\ Append(s, e) \in Seq(S) /\ Distinct(Append(s, e))
         /\ Len(Append(s, e)) = Len(s) + 1
         /\ ToSet(Append(s, e)) = ToSet(s) \cup {e}
  <1> DEFINE t == Append(s, e)
  <1>1. /\ t \in Seq(S) /\ Len(t) = Len(s) + 1 /\ Len(s) \in Nat
        /\ \A i \in 1..Len(s) : t[i] = s[i]
        /\ t[Len(s) + 1] = e
    BY AppendProperties, LenProperties
  <1>2. ToSet(s) = {s[i] : i \in 1..Len(s)} /\ ToSet(t) = {t[i] : i \in 1..Len(t)}
    BY <1>1, LenProperties DEF ToSet
  <1> HIDE DEF t
  <1>3. 1..Len(t) = 1..Len(s) \cup {Len(s) + 1}
    BY <1>1
  <1>4. ToSet(t) = ToSet(s) \cup {e}
    BY <1>1, <1>2, <1>3
  <1>5. \A i \in 1..Len(s) : s[i] # e
    BY <1>2
  <1>6. Distinct(t)
    <2> SUFFICES ASSUME NEW i \in 1..Len(t), NEW j \in 1..Len(t), t[i] = t[j]
                 PROVE  i = j
      BY DEF Distinct
    <2>1. CASE i \in 1..Len(s) /\ j \in 1..Len(s)
      BY <2>1, <1>1 DEF Distinct
    <2>2. \A n \in 1..Len(s) : t[n] # t[Len(s) + 1]
      BY <1>1, <1>5
    <2>3. CASE i = Len(s) + 1
      BY <2>2, <2>3, <1>3
    <2>4. CASE j = Len(s) + 1
      BY <2>2, <2>4, <1>3
    <2> QED BY <2>1, <2>3, <2>4, <1>3
  <1> QED BY <1>1, <1>4, <1>6 DEF t

\* What is left of a buffer when its first k rows are cut.
LEMMA SubSeqFacts ==
  ASSUME NEW S, NEW s \in Seq(S), NEW k \in 0..Len(s)
  PROVE  LET t == SubSeq(s, k + 1, Len(s))
         IN  /\ t \in Seq(S) /\ Len(t) = Len(s) - k
             /\ \A i \in 1..Len(s) - k : t[i] = s[k + i]
  <1> DEFINE t == SubSeq(s, k + 1, Len(s))
  <1>1. Len(s) \in Nat /\ s \in [1..Len(s) -> S] /\ k \in Nat
    BY LenProperties
  <1>2. \A i \in k + 1 .. Len(s) : s[i] \in S
    BY <1>1
  <1>3. /\ t \in Seq(S)
        /\ Len(t) = IF k + 1 <= Len(s) THEN Len(s) - (k + 1) + 1 ELSE 0
        /\ \A i \in 1 .. Len(s) - (k + 1) + 1 : t[i] = s[(k + 1) + i - 1]
    <2>1. k + 1 \in Int /\ Len(s) \in Int
      BY <1>1
    <2> QED BY <1>2, <2>1, SubSeqProperties
  <1> HIDE DEF t
  <1>4. Len(t) = Len(s) - k /\ Len(s) - (k + 1) + 1 = Len(s) - k
    <2>1. ASSUME NEW n \in Nat, k \in 0..n
          PROVE  /\ n - (k + 1) + 1 = n - k
                 /\ k + 1 <= n \/ n - k = 0
      BY <2>1
    <2>2. /\ Len(s) - (k + 1) + 1 = Len(s) - k
          /\ k + 1 <= Len(s) \/ Len(s) - k = 0
      BY <2>1, <1>1, Zenon
    <2>3. ASSUME k + 1 <= Len(s) PROVE Len(t) = Len(s) - k
      BY <1>3, <2>2, <2>3, Zenon
    <2>4. ASSUME ~(k + 1 <= Len(s)) PROVE Len(t) = Len(s) - k
      BY <1>3, <2>2, <2>4, Zenon
    <2> QED BY <2>2, <2>3, <2>4, Zenon
  <1>5. ASSUME NEW i \in 1..Len(s) - k PROVE t[i] = s[k + i]
    <2>1. (k + 1) + i - 1 = k + i
      BY <1>1
    <2> QED BY <2>1, <1>3, <1>4, Zenon
  <1> QED BY <1>3, <1>4, <1>5, Zenon DEF t

FirstRows(s, k) == {s[i] : i \in 1..k}

\* The rows left are distinct from those cut, and no other row is gone.
LEMMA CutDistinct ==
  ASSUME NEW S, NEW s \in Seq(S), Distinct(s), NEW k \in 0..Len(s),
         NEW t \in Seq(S), Len(t) = Len(s) - k,
         \A i \in 1..Len(s) - k : t[i] = s[k + i]
  PROVE  LET gone == FirstRows(s, k)
         IN  /\ Distinct(t)
             /\ ToSet(s) = ToSet(t) \cup gone /\ ToSet(t) \cap gone = {}
             /\ IsFiniteSet(gone) /\ Cardinality(gone) = k
  <1> DEFINE gone == FirstRows(s, k)
  <1>g. gone = {s[i] : i \in 1..k}
    BY DEF FirstRows
  <1> HIDE DEF gone
  <1>1. Len(s) \in Nat /\ s \in [1..Len(s) -> S] /\ k \in Nat
    BY LenProperties
  <1>2. /\ t \in Seq(S) /\ Len(t) = Len(s) - k
        /\ \A i \in 1..Len(s) - k : t[i] = s[k + i]
    OBVIOUS
  <1>3. Distinct(t)
    <2> SUFFICES ASSUME NEW i \in 1..Len(t), NEW j \in 1..Len(t), t[i] = t[j]
                 PROVE  i = j
      BY DEF Distinct
    <2>1. k + i \in 1..Len(s) /\ k + j \in 1..Len(s) /\ s[k + i] = s[k + j]
      BY <1>1, <1>2
    <2> QED BY <2>1, <1>1 DEF Distinct
  <1>4. /\ ToSet(s) = {s[i] : i \in 1..Len(s)}
        /\ ToSet(t) = {t[i] : i \in 1..Len(t)}
    BY <1>2, <1>3, DistinctSize
  <1>5. ToSet(t) = {s[i] : i \in k + 1 .. Len(s)}
    <2>1. ASSUME NEW i \in k + 1 .. Len(s)
          PROVE  s[i] \in {t[j] : j \in 1..Len(t)}
      <3>1. i - k \in 1..Len(t) /\ t[i - k] = s[i]
        BY <1>1, <1>2
      <3> QED BY <3>1
    <2>2. ASSUME NEW j \in 1..Len(t)
          PROVE  t[j] \in {s[i] : i \in k + 1 .. Len(s)}
      <3>1. k + j \in k + 1 .. Len(s) /\ t[j] = s[k + j]
        BY <1>1, <1>2
      <3> QED BY <3>1
    <2> QED BY <2>1, <2>2, <1>4
  <1>6. 1..Len(s) = 1..k \cup (k + 1 .. Len(s)) /\ 1..k \cap (k + 1 .. Len(s)) = {}
    BY <1>1
  <1>7. ToSet(s) = ToSet(t) \cup gone
    BY <1>4, <1>5, <1>6, <1>g
  <1>8. ToSet(t) \cap gone = {}
    <2> SUFFICES ASSUME NEW i \in k + 1 .. Len(s), NEW j \in 1..k, s[i] = s[j]
                 PROVE  FALSE
      BY <1>5, <1>g
    <2> QED BY <1>6 DEF Distinct
  <1>9. IsFiniteSet(gone) /\ Cardinality(gone) = k
    <2>1. [i \in 1..k |-> s[i]] \in Bijection(1..k, gone)
      BY <1>6, <1>g DEF Distinct, Bijection, Injection, Surjection, IsInjective
    <2>2. IsFiniteSet(1..k) /\ Cardinality(1..k) = k
      <3>1. k \in Int /\ 1 \in Int /\ (IF 1 > k THEN 0 ELSE k - 1 + 1) = k
        BY <1>1
      <3> QED BY <3>1, FS_Interval
    <2> QED BY <2>1, <2>2, FS_Bijection DEF ExistsBijection
  <1> QED BY <1>3, <1>7, <1>8, <1>9 DEF gone

-----------------------------------------------------------------------------
(***************************************************************************)
(* The inductive invariant of the archiver.  That a successful flush may   *)
(* clear the buffers needs to know what each insert of the attempt stored  *)
(* (InsertedIsStored); that dropped counts the rows given up, and that     *)
(* Archive gives up no more than it must, need buffers without duplicates  *)
(* (BuffersApart); that a row is accepted only when there is room needs    *)
(* the length at which a flush starts (RoomToCollect).                     *)
(***************************************************************************)
BuffersApart ==
  /\ Distinct(positions) /\ Distinct(statics)
  /\ ToSet(positions) \cap ToSet(statics) = {}
  /\ Buffered \subseteq 1..collected /\ cut \subseteq 1..collected
  /\ Buffered \cap cut = {}

InsertedIsStored ==
  /\ step \in {"statics", "settle"} /\ results.positions =>
       \A r \in ToSet(positions) : stored[r] > 0
  /\ step = "settle" /\ results.statics =>
       \A r \in ToSet(statics) : stored[r] > 0

RoomToCollect == step = "collect" => Total <= MaxBuffer

IInv == TypeOK /\ BuffersApart /\ InsertedIsStored /\ RoomToCollect /\ NoRowVanishes

LEMMA BufferFacts ==
  ASSUME TypeOK, BuffersApart
  PROVE  /\ Len(positions) \in Nat /\ Len(statics) \in Nat
         /\ ToSet(positions) \subseteq Row /\ ToSet(statics) \subseteq Row
         /\ IsFiniteSet(Buffered) /\ Cardinality(Buffered) = Total
         /\ collected \in Nat /\ MaxRows \in Nat /\ MaxBuffer \in Nat
         /\ IsFiniteSet(cut)
  <1>1. /\ IsFiniteSet(ToSet(positions)) /\ ToSet(positions) \subseteq Row
        /\ Cardinality(ToSet(positions)) = Len(positions)
    BY DistinctSize DEF TypeOK, BuffersApart
  <1>2. /\ IsFiniteSet(ToSet(statics)) /\ ToSet(statics) \subseteq Row
        /\ Cardinality(ToSet(statics)) = Len(statics)
    BY DistinctSize DEF TypeOK, BuffersApart
  <1>3. Len(positions) \in Nat /\ Len(statics) \in Nat
    BY LenProperties DEF TypeOK
  <1>4. collected \in Nat /\ MaxRows \in Nat /\ MaxBuffer \in Nat
    BY ArchiverBounds, BufferAssumption DEF TypeOK
  <1>5. IsFiniteSet(Buffered) /\ Cardinality(Buffered) = Total
    <2>1. Cardinality(Buffered) = Len(positions) + Len(statics) - Cardinality({})
      BY <1>1, <1>2, FS_Union DEF Buffered, BuffersApart
    <2>2. IsFiniteSet(Buffered)
      BY <1>1, <1>2, FS_Union DEF Buffered
    <2>3. Cardinality({}) = 0
      BY FS_EmptySet
    <2> QED BY <2>1, <2>2, <2>3, <1>3 DEF Total
  <1>6. IsFiniteSet(cut)
    <2>1. IsFiniteSet(1..MaxRows)
      BY <1>4, FS_Interval
    <2> QED BY <2>1, FS_Subset DEF TypeOK, Row
  <1> QED BY <1>1, <1>2, <1>3, <1>4, <1>5, <1>6

LEMMA InitIInv == Init => IInv
  <1> SUFFICES ASSUME Init PROVE IInv
    OBVIOUS
  <1>1. <<>> \in Seq(Row) /\ Len(<<>>) = 0 /\ ToSet(<<>>) = {}
    BY EmptySeq DEF ToSet
  <1>2. TypeOK
    <2>1. stored \in [Row -> Nat] /\ cut \subseteq Row
      BY DEF Init
    <2>2. results \in [positions : BOOLEAN, statics : BOOLEAN]
      BY DEF Init
    <2>3. positions \in Seq(Row) /\ statics \in Seq(Row)
      BY <1>1 DEF Init
    <2>4. collected \in 0..MaxRows /\ failures \in 0..MaxFailures
      BY ArchiverBounds DEF Init
    <2> QED BY <2>1, <2>2, <2>3, <2>4 DEF Init, TypeOK
  <1>3. BuffersApart
    BY <1>1 DEF Init, BuffersApart, Distinct, Buffered
  <1>4. NoRowVanishes
    BY FS_EmptySet DEF Init, NoRowVanishes
  <1> QED
    BY <1>1, <1>2, <1>3, <1>4, BufferAssumption
    DEF Init, IInv, InsertedIsStored, RoomToCollect, Total

LEMMA CollectKeepsIInv == IInv /\ Collect => IInv'
  <1> SUFFICES ASSUME IInv, Collect PROVE IInv'
    OBVIOUS
  <1> DEFINE e == collected + 1
  <1>t. /\ TypeOK /\ BuffersApart /\ collected \in Nat /\ MaxRows \in Nat
        /\ MaxBuffer \in Nat /\ FlushRows \in Nat
        /\ Len(positions) \in Nat /\ Len(statics) \in Nat
    BY BufferFacts, BufferAssumption DEF IInv
  <1>e. e \in Row /\ e \notin Buffered /\ e \notin cut /\ collected' = e
    BY <1>t DEF Collect, BuffersApart, Row
  <1>u. UNCHANGED <<results, stopping, written, dropped, stored, cut, failures>>
    BY DEF Collect
  <1>1. /\ Distinct(positions') /\ Distinct(statics')
        /\ positions' \in Seq(Row) /\ statics' \in Seq(Row)
        /\ ToSet(positions') \cap ToSet(statics') = {}
        /\ Buffered' = Buffered \cup {e} /\ Total' = Total + 1
    <2>1. CASE positions' = Append(positions, collected') /\ UNCHANGED statics
      <3>1. /\ positions' \in Seq(Row) /\ Distinct(positions')
            /\ Len(positions') = Len(positions) + 1
            /\ ToSet(positions') = ToSet(positions) \cup {e}
        BY <2>1, <1>e, AppendDistinct DEF IInv, TypeOK, BuffersApart, Buffered
      <3> QED
        BY <3>1, <2>1, <1>t, <1>e DEF IInv, TypeOK, BuffersApart, Buffered, Total
    <2>2. CASE statics' = Append(statics, collected') /\ UNCHANGED positions
      <3>1. /\ statics' \in Seq(Row) /\ Distinct(statics')
            /\ Len(statics') = Len(statics) + 1
            /\ ToSet(statics') = ToSet(statics) \cup {e}
        BY <2>2, <1>e, AppendDistinct DEF IInv, TypeOK, BuffersApart, Buffered
      <3> QED
        BY <3>1, <2>2, <1>t, <1>e DEF IInv, TypeOK, BuffersApart, Buffered, Total
    <2> QED BY <2>1, <2>2 DEF Collect
  <1>2. step' \in {"collect", "positions"} /\ attempt' \in {1, 2}
    BY DEF IInv, TypeOK, Collect, StartFlush
  <1>3. TypeOK'
    BY <1>1, <1>2, <1>e, <1>u, <1>t DEF IInv, TypeOK, Row
  <1>4. BuffersApart'
    <2>1. 1..collected' = 1..collected \cup {e}
      BY <1>e, <1>t
    <2> QED BY <2>1, <1>1, <1>u, <1>e DEF BuffersApart, IInv
  <1>5. RoomToCollect'
    <2>1. step' = "collect" => ~(Total' >= FlushRows)
      BY DEF Collect, StartFlush, Total
    <2> QED BY <2>1, <1>1, <1>t, BufferAssumption DEF RoomToCollect, Total
  <1>6. NoRowVanishes'
    <2>1. 1..collected' = 1..collected \cup {e}
      BY <1>e, <1>t
    <2> QED BY <2>1, <1>1, <1>u DEF NoRowVanishes, IInv
  <1> QED BY <1>2, <1>3, <1>4, <1>5, <1>6 DEF IInv, InsertedIsStored

\* flush_tick, Stop and Retry start an attempt and touch no buffer.
LEMMA StartKeepsIInv == IInv /\ (FlushTick \/ Stop \/ Retry) => IInv'
  <1> SUFFICES ASSUME IInv, FlushTick \/ Stop \/ Retry PROVE IInv'
    OBVIOUS
  <1>1. /\ step' = "positions" /\ attempt' \in {1, 2} /\ stopping' \in BOOLEAN
        /\ UNCHANGED <<buffers, results, counters, stored, cut, failures>>
    BY DEF FlushTick, Stop, Retry, StartFlush, IInv, TypeOK
  <1>2. TypeOK'
    BY <1>1 DEF IInv, TypeOK, buffers, counters
  <1>3. BuffersApart' /\ NoRowVanishes'
    BY <1>1 DEF IInv, BuffersApart, NoRowVanishes, Buffered, buffers, counters
  <1>4. InsertedIsStored' /\ RoomToCollect'
    BY <1>1 DEF InsertedIsStored, RoomToCollect
  <1> QED BY <1>2, <1>3, <1>4 DEF IInv

\* What an insert does to the table, whether or not it is answered.
LEMMA InsertFacts ==
  ASSUME TypeOK, NEW table \in {"positions", "statics"},
         NEW rows, ToSet(rows) \subseteq Row, Insert(table, rows)
  PROVE  /\ stored' \in [Row -> Nat]
         /\ \A r \in Row : stored[r] > 0 => stored'[r] > 0
         /\ \/ UNCHANGED stored
            \/ \A r \in Row : stored'[r] > 0 <=> stored[r] > 0 \/ r \in ToSet(rows)
         /\ results' \in [positions : BOOLEAN, statics : BOOLEAN]
         /\ results'[table] => \A r \in ToSet(rows) : stored'[r] > 0
         /\ table = "statics" => results'.positions = results.positions
         /\ failures' \in 0..MaxFailures
  <1> DEFINE more == [r \in Row |-> IF r \in ToSet(rows) THEN stored[r] + 1
                                                         ELSE stored[r]]
  <1>t. /\ stored \in [Row -> Nat] /\ failures \in 0..MaxFailures
        /\ results \in [positions : BOOLEAN, statics : BOOLEAN]
        /\ MaxFailures \in Nat
    BY ArchiverBounds DEF TypeOK
  <1>1. /\ more \in [Row -> Nat]
        /\ \A r \in Row : more[r] > 0 <=> stored[r] > 0 \/ r \in ToSet(rows)
    BY <1>t
  <1>2. stored' = stored \/ stored' = more
    BY DEF Insert
  <1>3. /\ results' = [results EXCEPT ![table] = TRUE]
        /\ stored' = more /\ failures' = failures
        \/
        /\ results' = [results EXCEPT ![table] = FALSE]
        /\ failures < MaxFailures /\ failures' = failures + 1
    BY DEF Insert
  <1>4. failures' \in 0..MaxFailures
    BY <1>3, <1>t
  <1> HIDE DEF more
  <1>5. results' \in [positions : BOOLEAN, statics : BOOLEAN]
        /\ (table = "statics" => results'.positions = results.positions)
    BY <1>3, <1>t
  <1>6. results'[table] => stored' = more
    <2>1. CASE table = "positions"
      BY <1>3, <1>t, <2>1
    <2>2. CASE table = "statics"
      BY <1>3, <1>t, <2>2
    <2> QED BY <2>1, <2>2
  <1>7. results'[table] => \A r \in ToSet(rows) : stored'[r] > 0
    BY <1>6, <1>1
  <1> QED BY <1>1, <1>2, <1>4, <1>5, <1>7, <1>t

LEMMA InsertPositionsKeepsIInv == IInv /\ InsertPositions => IInv'
  <1> SUFFICES ASSUME IInv, InsertPositions PROVE IInv'
    OBVIOUS
  <1>t. TypeOK /\ BuffersApart /\ ToSet(positions) \subseteq Row
    BY BufferFacts DEF IInv
  <1>1. /\ stored' \in [Row -> Nat]
        /\ \A r \in Row : stored[r] > 0 => stored'[r] > 0
        /\ results' \in [positions : BOOLEAN, statics : BOOLEAN]
        /\ results'["positions"] => \A r \in ToSet(positions) : stored'[r] > 0
        /\ failures' \in 0..MaxFailures
    BY <1>t, InsertFacts DEF InsertPositions
  <1>2. /\ step' = "statics"
        /\ UNCHANGED <<positions, statics, attempt, stopping, collected, written,
                       dropped, cut>>
    BY DEF InsertPositions, buffers, counters
  <1>3. TypeOK'
    BY <1>1, <1>2 DEF IInv, TypeOK
  <1>4. BuffersApart'
    BY <1>2 DEF IInv, BuffersApart, Buffered
  <1>5. InsertedIsStored'
    BY <1>1, <1>2 DEF InsertedIsStored
  <1>6. NoRowVanishes'
    <2>1. \A r \in 1..collected : r \in Row
      BY <1>t, ArchiverBounds DEF TypeOK, Row
    <2> QED BY <2>1, <1>1, <1>2 DEF IInv, NoRowVanishes, Buffered
  <1> QED BY <1>2, <1>3, <1>4, <1>5, <1>6 DEF IInv, RoomToCollect

LEMMA InsertStaticsKeepsIInv == IInv /\ InsertStatics => IInv'
  <1> SUFFICES ASSUME IInv, InsertStatics PROVE IInv'
    OBVIOUS
  <1>t. /\ TypeOK /\ BuffersApart
        /\ ToSet(statics) \subseteq Row /\ ToSet(positions) \subseteq Row
    BY BufferFacts DEF IInv
  <1>1. /\ stored' \in [Row -> Nat]
        /\ \A r \in Row : stored[r] > 0 => stored'[r] > 0
        /\ results' \in [positions : BOOLEAN, statics : BOOLEAN]
        /\ results'["statics"] => \A r \in ToSet(statics) : stored'[r] > 0
        /\ results'.positions = results.positions
        /\ failures' \in 0..MaxFailures
    BY <1>t, InsertFacts DEF InsertStatics
  <1>2. /\ step = "statics" /\ step' = "settle"
        /\ UNCHANGED <<positions, statics, attempt, stopping, collected, written,
                       dropped, cut>>
    BY DEF InsertStatics, buffers, counters
  <1>3. TypeOK'
    BY <1>1, <1>2 DEF IInv, TypeOK
  <1>4. BuffersApart'
    BY <1>2 DEF IInv, BuffersApart, Buffered
  <1>5. InsertedIsStored'
    BY <1>1, <1>2, <1>t DEF IInv, InsertedIsStored
  <1>6. NoRowVanishes'
    <2>1. \A r \in 1..collected : r \in Row
      BY <1>t, ArchiverBounds DEF TypeOK, Row
    <2> QED BY <2>1, <1>1, <1>2 DEF IInv, NoRowVanishes, Buffered
  <1> QED BY <1>2, <1>3, <1>4, <1>5, <1>6 DEF IInv, RoomToCollect

LEMMA SucceedKeepsIInv == IInv /\ Succeed => IInv'
  <1> SUFFICES ASSUME IInv, Succeed PROVE IInv'
    OBVIOUS
  <1>1. <<>> \in Seq(Row) /\ Len(<<>>) = 0 /\ ToSet(<<>>) = {}
    BY EmptySeq DEF ToSet
  <1>t. /\ Len(positions) \in Nat /\ Len(statics) \in Nat
        /\ written \in Nat /\ MaxBuffer \in Nat
    BY BufferFacts DEF IInv, TypeOK
  <1>2. /\ step' \in {"collect", "stopped"} /\ written' \in Nat
        /\ UNCHANGED <<attempt, results, stopping, collected, dropped, stored, cut,
                       failures>>
    BY <1>t DEF Succeed, EndFlush, Total
  <1>3. /\ positions' \in Seq(Row) /\ statics' \in Seq(Row)
        /\ ToSet(positions') = {} /\ ToSet(statics') = {}
        /\ Len(positions') = 0 /\ Len(statics') = 0
    BY <1>1 DEF Succeed
  <1>4. TypeOK'
    BY <1>2, <1>3 DEF IInv, TypeOK
  <1>5. BuffersApart'
    BY <1>2, <1>3 DEF IInv, BuffersApart, Buffered, Distinct
  <1>6. \A r \in Buffered : stored[r] > 0
    BY DEF IInv, InsertedIsStored, Succeed, Buffered
  <1>7. NoRowVanishes'
    BY <1>2, <1>6 DEF IInv, NoRowVanishes
  <1>8. InsertedIsStored' /\ RoomToCollect'
    BY <1>2, <1>3, <1>t DEF InsertedIsStored, RoomToCollect, Total
  <1> QED BY <1>4, <1>5, <1>7, <1>8 DEF IInv

Excess == IF Total > MaxBuffer THEN Total - MaxBuffer ELSE 0

\* What a flush that gives up cuts: as many rows as exceed MaxBuffer, all of
\* them from the buffers, and no row besides.
LEMMA GiveUpFacts ==
  ASSUME IInv, GiveUp
  PROVE  \E gone \in SUBSET Buffered :
           /\ IsFiniteSet(gone) /\ Cardinality(gone) = Excess
           /\ cut' = cut \cup gone /\ dropped' = dropped + Excess
           /\ positions' \in Seq(Row) /\ statics' \in Seq(Row)
           /\ Distinct(positions') /\ Distinct(statics')
           /\ ToSet(positions') \cap ToSet(statics') = {}
           /\ Buffered' = Buffered \ gone
           /\ Total' = Total - Excess
  <1> DEFINE cutP == IF Excess < Len(positions) THEN Excess ELSE Len(positions)
             cutS == Excess - cutP
             goneP == FirstRows(positions, cutP)
             goneS == FirstRows(statics, cutS)
             restP == SubSeq(positions, cutP + 1, Len(positions))
             restS == SubSeq(statics, cutS + 1, Len(statics))
  <1>1. /\ positions' = restP /\ statics' = restS
        /\ dropped' = dropped + Excess /\ cut' = cut \cup goneP \cup goneS
    BY DEF GiveUp, Excess, FirstRows
  <1>t. /\ Len(positions) \in Nat /\ Len(statics) \in Nat /\ MaxBuffer \in Nat
        /\ positions \in Seq(Row) /\ statics \in Seq(Row)
        /\ Distinct(positions) /\ Distinct(statics)
        /\ ToSet(positions) \cap ToSet(statics) = {}
    BY BufferFacts DEF IInv, TypeOK, BuffersApart
  <1>2. /\ Excess \in Nat /\ Excess <= Len(positions) + Len(statics)
        /\ cutP \in 0..Len(positions) /\ cutS \in 0..Len(statics)
        /\ cutP + cutS = Excess
    BY <1>t DEF Excess, Total
  <1> HIDE DEF cutP, cutS
  <1>3. /\ restP \in Seq(Row) /\ Len(restP) = Len(positions) - cutP
        /\ \A i \in 1..Len(positions) - cutP : restP[i] = positions[cutP + i]
    BY <1>t, <1>2, SubSeqFacts
  <1>4. /\ restS \in Seq(Row) /\ Len(restS) = Len(statics) - cutS
        /\ \A i \in 1..Len(statics) - cutS : restS[i] = statics[cutS + i]
    BY <1>t, <1>2, SubSeqFacts
  <1> HIDE DEF restP, restS
  <1>5. /\ Distinct(restP) /\ ToSet(positions) = ToSet(restP) \cup goneP
        /\ ToSet(restP) \cap goneP = {}
        /\ IsFiniteSet(goneP) /\ Cardinality(goneP) = cutP
    <2>1. /\ positions \in Seq(Row) /\ Distinct(positions)
          /\ cutP \in 0..Len(positions)
      BY <1>t, <1>2
    <2> QED BY <2>1, <1>3, CutDistinct
  <1>6. /\ Distinct(restS) /\ ToSet(statics) = ToSet(restS) \cup goneS
        /\ ToSet(restS) \cap goneS = {}
        /\ IsFiniteSet(goneS) /\ Cardinality(goneS) = cutS
    <2>1. statics \in Seq(Row) /\ Distinct(statics) /\ cutS \in 0..Len(statics)
      BY <1>t, <1>2
    <2> QED BY <2>1, <1>4, CutDistinct
  <1> HIDE DEF goneP, goneS
  <1>7. goneP \cap goneS = {}
    BY <1>5, <1>6, <1>t
  <1>8. IsFiniteSet(goneP \cup goneS) /\ Cardinality(goneP \cup goneS) = Excess
    <2>1. IsFiniteSet(goneP \cup goneS)
      BY <1>5, <1>6, FS_Union
    <2>2. Cardinality(goneP \cup goneS) = cutP + cutS - Cardinality({})
      BY <1>5, <1>6, <1>7, FS_Union
    <2>3. Cardinality({}) = 0
      BY FS_EmptySet
    <2> QED BY <2>1, <2>2, <2>3, <1>2
  <1>9. Total' = Total - Excess
    <2>1. Total' = Len(restP) + Len(restS)
      BY <1>1 DEF Total
    <2>2. Len(restP) = Len(positions) - cutP /\ Len(restS) = Len(statics) - cutS
      BY <1>3, <1>4
    <2>3. Excess \in Nat /\ cutP \in Nat /\ cutS \in Nat /\ cutP + cutS = Excess
      BY <1>2, <1>t
    <2> HIDE DEF Excess
    <2> QED BY <2>1, <2>2, <2>3, <1>t DEF Total
  <1>10. /\ goneP \cup goneS \in SUBSET Buffered
         /\ Buffered' = Buffered \ (goneP \cup goneS)
    BY <1>1, <1>5, <1>6, <1>t DEF Buffered
  <1>11. ToSet(restP) \cap ToSet(restS) = {}
    BY <1>5, <1>6, <1>t
  <1>12. cut' = cut \cup (goneP \cup goneS)
    BY <1>1
  <1> QED
    BY <1>1, <1>3, <1>4, <1>5, <1>6, <1>8, <1>9, <1>10, <1>11, <1>12

LEMMA GiveUpKeepsIInv == IInv /\ GiveUp => IInv'
  <1> SUFFICES ASSUME IInv, GiveUp PROVE IInv'
    OBVIOUS
  <1>1. PICK gone \in SUBSET Buffered :
           /\ IsFiniteSet(gone) /\ Cardinality(gone) = Excess
           /\ cut' = cut \cup gone /\ dropped' = dropped + Excess
           /\ positions' \in Seq(Row) /\ statics' \in Seq(Row)
           /\ Distinct(positions') /\ Distinct(statics')
           /\ ToSet(positions') \cap ToSet(statics') = {}
           /\ Buffered' = Buffered \ gone
           /\ Total' = Total - Excess
    BY GiveUpFacts
  <1>t. /\ Total \in Nat /\ MaxBuffer \in Nat /\ Excess \in Nat /\ IsFiniteSet(cut)
        /\ ToSet(positions) \subseteq Row /\ ToSet(statics) \subseteq Row
        /\ cut \subseteq Row /\ dropped \in Nat /\ stopping \in BOOLEAN
    BY BufferFacts DEF IInv, TypeOK, Total, Excess
  <1>2. /\ step' \in {"collect", "stopped"}
        /\ UNCHANGED <<attempt, results, stopping, collected, written, stored,
                       failures>>
    BY DEF GiveUp, EndFlush
  <1>3. TypeOK'
    <2>1. cut' \subseteq Row
      BY <1>1, <1>t DEF Buffered
    <2>2. dropped' \in Nat
      BY <1>1, <1>t
    <2> QED BY <1>1, <1>2, <2>1, <2>2 DEF IInv, TypeOK
  <1>4. BuffersApart'
    BY <1>1, <1>2 DEF IInv, BuffersApart
  <1>5. NoRowVanishes'
    <2>1. cut \cap gone = {}
      BY <1>1 DEF IInv, BuffersApart
    <2>2. Cardinality(cut') = Cardinality(cut) + Excess - Cardinality({})
      BY <1>1, <1>t, <2>1, FS_Union
    <2>3. Cardinality({}) = 0 /\ dropped = Cardinality(cut)
      BY FS_EmptySet DEF IInv, NoRowVanishes
    <2>4. dropped' = Cardinality(cut')
      BY <2>2, <2>3, <1>1, <1>t
    <2> QED BY <2>4, <1>1, <1>2 DEF IInv, NoRowVanishes
  <1>6. RoomToCollect'
    BY <1>1, <1>t DEF RoomToCollect, Excess
  <1> QED BY <1>2, <1>3, <1>4, <1>5, <1>6 DEF IInv, InsertedIsStored

LEMMA NextKeepsIInv == IInv /\ [Next]_vars => IInv'
  <1>1. IInv /\ UNCHANGED vars => IInv'
    BY DEF IInv, TypeOK, BuffersApart, InsertedIsStored, RoomToCollect,
           NoRowVanishes, Buffered, Total, vars
  <1> QED
    BY <1>1, CollectKeepsIInv, StartKeepsIInv, InsertPositionsKeepsIInv,
       InsertStaticsKeepsIInv, SucceedKeepsIInv, GiveUpKeepsIInv
    DEF Next, Flush

LEMMA ArchiveStep == [ServiceNext]_serviceVars => [Next]_vars
  BY DEF ServiceNext, Archive, ImportDumps, serviceVars

LEMMA ServiceIInv == ServiceSpec => []IInv
  <1>1. ServiceInit => IInv
    BY InitIInv DEF ServiceInit
  <1>2. IInv /\ [ServiceNext]_serviceVars => IInv'
    BY ArchiveStep, NextKeepsIInv
  <1> QED BY <1>1, <1>2, PTL DEF ServiceSpec

\* flush clears the buffers only after both inserts of one attempt succeeded,
\* and counts what it cuts: no collected row is lost otherwise.
THEOREM RowsAreKept == ServiceSpec => []NoRowVanishes
  <1>1. IInv => NoRowVanishes
    BY DEF IInv
  <1> QED BY <1>1, ServiceIInv, PTL

-----------------------------------------------------------------------------
(***************************************************************************)
(* The archiver implements Archive.  A message is an acceptance, an insert *)
(* stores rows (or none), a successful settlement lets go of rows that are *)
(* stored, and a failed one gives up what exceeds MaxBuffer; every other   *)
(* step is a stutter.                                                      *)
(***************************************************************************)
StoredRows == {r \in Row : stored[r] > 0}

\* Archive's Cardinality is the library's.
LEMMA SameCardinality == \A S : Abstract!Cardinality(S) = Cardinality(S)
  BY Zenon DEF Cardinality, Abstract!Cardinality

LEMMA AbstractInit == Init => Abstract!Init
  <1> SUFFICES ASSUME Init PROVE Abstract!Init
    OBVIOUS
  <1>1. ToSet(<<>>) = {}
    BY DEF ToSet
  <1> QED BY <1>1 DEF Init, Buffered, Abstract!Init

LEMMA CollectAccepts == IInv /\ Collect => Abstract!Accept
  <1> SUFFICES ASSUME IInv, Collect PROVE Abstract!Accept
    OBVIOUS
  <1>1. Cardinality(Buffered) = Total /\ Total <= MaxBuffer
    BY BufferFacts DEF IInv, RoomToCollect, Collect
  <1>2. collected' = collected + 1 /\ UNCHANGED <<stored, cut>>
    BY DEF Collect
  <1>3. Buffered' = Buffered \cup {collected'}
    <2>t. /\ collected' \in Row /\ collected' \notin Buffered
          /\ positions \in Seq(Row) /\ statics \in Seq(Row)
          /\ Distinct(positions) /\ Distinct(statics)
      <3>1. collected \in Nat /\ MaxRows \in Nat /\ Buffered \subseteq 1..collected
        BY BufferFacts DEF IInv, BuffersApart
      <3>2. collected' \in Row /\ collected' \notin Buffered
        BY <1>2, <3>1 DEF Collect, Row
      <3> QED BY <3>2 DEF IInv, TypeOK, BuffersApart
    <2>1. CASE positions' = Append(positions, collected') /\ UNCHANGED statics
      BY <2>1, <2>t, AppendDistinct DEF Buffered
    <2>2. CASE statics' = Append(statics, collected') /\ UNCHANGED positions
      BY <2>2, <2>t, AppendDistinct DEF Buffered
    <2> QED BY <2>1, <2>2 DEF Collect
  <1>4. StoredRows' = StoredRows
    BY <1>2 DEF StoredRows
  <1> QED
    BY <1>1, <1>2, <1>3, <1>4, SameCardinality DEF Abstract!Accept, StoredRows

LEMMA InsertStores ==
  IInv /\ (InsertPositions \/ InsertStatics) => Abstract!Store
  <1> SUFFICES ASSUME IInv, InsertPositions \/ InsertStatics
               PROVE  Abstract!Store
    OBVIOUS
  <1>t. /\ TypeOK /\ stored \in [Row -> Nat]
        /\ ToSet(positions) \subseteq Row /\ ToSet(statics) \subseteq Row
    BY BufferFacts DEF IInv, TypeOK
  <1>1. UNCHANGED <<positions, statics, collected, cut>>
    BY DEF InsertPositions, InsertStatics, buffers, counters
  <1>2. PICK rows \in {ToSet(positions), ToSet(statics)} :
          \/ UNCHANGED stored
          \/ \A r \in Row : stored'[r] > 0 <=> stored[r] > 0 \/ r \in rows
    <2>1. CASE InsertPositions
      BY <2>1, <1>t, InsertFacts DEF InsertPositions
    <2>2. CASE InsertStatics
      BY <2>2, <1>t, InsertFacts DEF InsertStatics
    <2> QED BY <2>1, <2>2
  <1>3. \E some \in SUBSET Buffered : StoredRows' = StoredRows \cup some
    <2>1. rows \subseteq Buffered /\ rows \subseteq Row
      BY <1>t DEF Buffered
    <2>2. CASE UNCHANGED stored
      <3>1. StoredRows' = StoredRows \cup {}
        BY <2>2 DEF StoredRows
      <3> QED BY <3>1
    <2>3. CASE \A r \in Row : stored'[r] > 0 <=> stored[r] > 0 \/ r \in rows
      <3>1. StoredRows' = StoredRows \cup rows
        BY <2>3, <2>1 DEF StoredRows
      <3> QED BY <3>1, <2>1
    <2> QED BY <1>2, <2>2, <2>3
  <1> QED BY <1>1, <1>3 DEF Abstract!Store, StoredRows, Buffered

LEMMA SucceedLetsGo == IInv /\ Succeed => Abstract!LetGo
  <1> SUFFICES ASSUME IInv, Succeed PROVE Abstract!LetGo
    OBVIOUS
  <1>1. ToSet(<<>>) = {}
    BY DEF ToSet
  <1>2. Buffered' = {} /\ UNCHANGED <<collected, stored, cut>>
    BY <1>1 DEF Succeed, Buffered
  <1>3. \A r \in Buffered : r \in Row /\ stored[r] > 0
    BY BufferFacts DEF IInv, InsertedIsStored, Succeed, Buffered
  <1> QED BY <1>2, <1>3 DEF Abstract!LetGo

LEMMA GiveUpGivesUp ==
  IInv /\ GiveUp => Abstract!GiveUp \/ UNCHANGED Abstract!archiveVars
  <1> SUFFICES ASSUME IInv, GiveUp
               PROVE  Abstract!GiveUp \/ UNCHANGED Abstract!archiveVars
    OBVIOUS
  <1>1. PICK gone \in SUBSET Buffered :
           /\ IsFiniteSet(gone) /\ Cardinality(gone) = Excess
           /\ cut' = cut \cup gone
           /\ Buffered' = Buffered \ gone
    BY GiveUpFacts
  <1>2. UNCHANGED <<collected, stored>>
    BY DEF GiveUp
  <1>t. /\ Total \in Nat /\ MaxBuffer \in Nat /\ Excess \in Nat
        /\ IsFiniteSet(Buffered) /\ Cardinality(Buffered) = Total
    BY BufferFacts DEF IInv, Total, Excess
  <1>3. CASE Total > MaxBuffer
    <2>1. Buffered \cap gone = gone
      BY <1>1
    <2>2. Cardinality(Buffered') = Cardinality(Buffered) - Cardinality(gone)
      <3>1. Cardinality(Buffered \ gone) =
              Cardinality(Buffered) - Cardinality(Buffered \cap gone)
        BY <1>t, FS_Difference, Zenon
      <3> QED BY <1>1, <2>1, <3>1, Zenon
    <2>3. Cardinality(Buffered') = MaxBuffer
      BY <2>2, <1>1, <1>3, <1>t DEF Excess
    <2>4. gone = Buffered \ Buffered' /\ Buffered' \subseteq Buffered
      BY <1>1
    <2>5. StoredRows' = StoredRows /\ cut' = cut \cup (Buffered \ Buffered')
      BY <1>1, <1>2, <2>4 DEF StoredRows
    <2>6. Abstract!Cardinality(Buffered) > MaxBuffer
      BY <1>3, <1>t, SameCardinality
    <2>7. Abstract!Cardinality(Buffered') = MaxBuffer
      BY <2>3, SameCardinality, Zenon
    <2>8. Abstract!GiveUp
      BY <2>4, <2>5, <2>6, <2>7, <1>2 DEF Abstract!GiveUp, StoredRows
    <2> QED BY <2>8
  <1>4. CASE ~(Total > MaxBuffer)
    <2>1. gone = {}
      BY <1>1, <1>4, FS_EmptySet DEF Excess
    <2> QED BY <2>1, <1>1, <1>2 DEF Abstract!archiveVars
  <1> QED BY <1>3, <1>4

LEMMA AbstractStep ==
  IInv /\ [Next]_vars => [Abstract!Next]_Abstract!archiveVars
  <1>1. IInv /\ (FlushTick \/ Stop \/ Retry \/ UNCHANGED vars)
          => UNCHANGED Abstract!archiveVars
    BY DEF FlushTick, Stop, Retry, vars, buffers, counters, Buffered,
           Abstract!archiveVars
  <1> QED
    BY <1>1, CollectAccepts, InsertStores, SucceedLetsGo, GiveUpGivesUp
    DEF Next, Flush, Abstract!Next

\* The archiver implements Archive: its two buffers, two tables and two
\* attempts are one set of rows that leave it stored, or given up beyond
\* MAX_BUFFER.
THEOREM RefinesArchive == ServiceSpec => ImplementsArchive
  <1>1. ServiceInit => Abstract!Init
    BY AbstractInit DEF ServiceInit
  <1>2. IInv /\ [ServiceNext]_serviceVars => [Abstract!Next]_Abstract!archiveVars
    BY ArchiveStep, AbstractStep
  <1> QED
    BY <1>1, <1>2, ServiceIInv, PTL DEF ServiceSpec, ImplementsArchive, Abstract!Spec

-----------------------------------------------------------------------------
(***************************************************************************)
(* The inductive invariant of the importer.  A recorded day stays imported *)
(* once because no file is imported again once it is recorded              *)
(* (PlanUnrecorded), and because a request that a poll gave up leaves no   *)
(* trace that its file's next import does not clear: such a request is     *)
(* alone, and none is left when a poll runs (OneAdrift, NoneWhileBusy);    *)
(* a record is sent only for a day that is complete, a delete or a batch   *)
(* only for one that is not recorded (AdriftHarmless).                     *)
(***************************************************************************)
Busy == {"delete", "download", "rows", "statics", "record"}
Complete(d) == \A b \in 1..Batches : loaded[d][b] = 1

PlanUnrecorded == plan \cap recorded \subseteq late

OneAdrift == \A q, r \in adrift : ~q.stale /\ ~r.stale => q = r

NoneWhileBusy == phase \in Busy => \A r \in adrift : r.stale

AdriftHarmless ==
  \A r \in adrift : ~r.stale /\ r.file \notin late =>
    IF r.what = "record" THEN Complete(r.file) ELSE r.file \notin recorded

BatchesInTurn ==
  /\ phase \notin {"rows", "statics", "record"} => sent = 0
  /\ phase = "rows" => sent < Batches
  /\ phase \in Busy /\ Import!File \notin late =>
       /\ phase \in {"download", "rows"} =>
            \A b \in 1..Batches :
              loaded[Import!File][b] = IF b <= sent THEN 1 ELSE 0
       /\ phase \in {"statics", "record"} => Complete(Import!File)

ImportInv ==
  /\ Import!ImportTypeOK
  /\ PlanUnrecorded
  /\ OneAdrift
  /\ NoneWhileBusy
  /\ AdriftHarmless
  /\ BatchesInTurn
  /\ ImportedOnce

\* A set of naturals has a least element: the sets 1..n for n in T have a
\* minimal one under inclusion.
LEMMA LeastElement ==
  ASSUME NEW T \in SUBSET Nat, T # {}
  PROVE  \E m \in T : \A k \in T : m <= k
  <1> DEFINE Initials == {1..n : n \in T}
  <1>1. IsWellFoundedOn(StrictSubsetOrdering(Nat), FiniteSubsetsOf(Nat))
    BY FS_StrictSubsetOrderingWellFounded
  <1>2. Initials \subseteq FiniteSubsetsOf(Nat)
    <2> SUFFICES ASSUME NEW n \in T PROVE 1..n \in FiniteSubsetsOf(Nat)
      OBVIOUS
    <2>1. IsFiniteSet(1..n) /\ 1..n \in SUBSET Nat
      BY FS_Interval
    <2> QED BY <2>1 DEF FiniteSubsetsOf
  <1>3. Initials # {}
    OBVIOUS
  <1> HIDE DEF Initials
  <1>4. PICK x \in Initials :
          \A y \in Initials : ~ (<<y, x>> \in StrictSubsetOrdering(Nat))
    BY <1>1, <1>2, <1>3, WFMin, Zenon
  <1>5. PICK m \in T : x = 1..m
    BY DEF Initials
  <1>6. SUFFICES ASSUME NEW k \in T, ~(m <= k) PROVE FALSE
    OBVIOUS
  <1>7. 1..k \subseteq 1..m /\ 1..k # 1..m /\ 1..k \in Initials
    <2>1. 1..k \subseteq 1..m
      BY <1>6
    <2>2. m \in 1..m /\ m \notin 1..k
      BY <1>6
    <2> QED BY <2>1, <2>2 DEF Initials
  <1>8. <<1..k, 1..m>> \in StrictSubsetOrdering(Nat)
    BY <1>7 DEF StrictSubsetOrdering
  <1> QED BY <1>4, <1>5, <1>7, <1>8

\* The file a poll imports is one it planned.
LEMMA FileInPlan ==
  ASSUME plan \subseteq Import!Day, plan # {}
  PROVE  Import!File \in plan
  <1>t. LastDay \in Nat /\ \A d \in plan : d \in 1..LastDay
    BY ImporterBounds DEF Import!Day
  <1> DEFINE T == {LastDay - d : d \in plan}
  <1>1. T \in SUBSET Nat /\ T # {}
    BY <1>t
  <1>2. PICK m \in T : \A k \in T : m <= k
    BY <1>1, LeastElement
  <1>3. PICK d \in plan : m = LastDay - d
    BY <1>2
  <1>4. \A e \in plan : e <= d
    <2> SUFFICES ASSUME NEW e \in plan PROVE e <= d
      OBVIOUS
    <2>1. m <= LastDay - e
      BY <1>2
    <2> QED BY <2>1, <1>3, <1>t
  <1> QED BY <1>4 DEF Import!File, Import!Newest

LEMMA InitImportInv == Import!Init => ImportInv
  <1> SUFFICES ASSUME Import!Init PROVE ImportInv
    OBVIOUS
  <1>1. Import!ImportTypeOK
    <2>1. loaded \in [Import!Day -> [Import!Batch -> Nat]]
      BY DEF Import!Init
    <2> QED BY <2>1, ImporterBounds
        DEF Import!Init, Import!ImportTypeOK, Import!Busy, Import!Day
  <1> QED
    BY <1>1
    DEF Import!Init, ImportInv, PlanUnrecorded, OneAdrift, NoneWhileBusy, Busy,
        AdriftHarmless, BatchesInTurn, ImportedOnce, Import!ImportedOnce

\* Days pass, dumps appear, the migration ends and the process starts again:
\* nothing else moves.
LEMMA QuietKeepsImportInv ==
  ASSUME ImportInv,
         Import!NextDay \/ (\E d \in Import!Day : Import!Publish(d))
           \/ Import!Migrate \/ Import!Restart \/ UNCHANGED importVars
  PROVE  ImportInv'
  <1>1. /\ UNCHANGED <<broken, plan, sent, loaded, recorded, adrift, late, faults>>
        /\ phase' = phase \/ (phase' \in {"poll", "migrate"} /\ phase \notin Busy)
    BY DEF Import!NextDay, Import!Publish, Import!Migrate, Import!Restart,
           importVars, Import!clickhouse, Busy
  <1>2. today' \in 1..(LastDay + 1) /\ listed' \subseteq Import!Day
    BY ImporterBounds
    DEF Import!NextDay, Import!Publish, Import!Migrate, Import!Restart,
        importVars, ImportInv, Import!ImportTypeOK
  <1>3. Import!ImportTypeOK'
    <2>1. phase' \in Busy <=> phase \in Busy
      BY <1>1 DEF Busy
    <2>2. phase' \in Busy \cup {"migrate", "poll", "down"}
      BY <1>1 DEF Busy, ImportInv, Import!ImportTypeOK, Import!Busy
    <2> QED BY <1>1, <1>2, <2>1, <2>2
        DEF ImportInv, Import!ImportTypeOK, Import!Busy, Busy
  <1>4. PlanUnrecorded' /\ OneAdrift' /\ AdriftHarmless' /\ ImportedOnce'
    BY <1>1 DEF ImportInv, PlanUnrecorded, OneAdrift, AdriftHarmless, Complete,
                ImportedOnce, Import!ImportedOnce
  <1>5. NoneWhileBusy'
    BY <1>1 DEF ImportInv, NoneWhileBusy, Busy
  <1>6. BatchesInTurn'
    BY <1>1 DEF ImportInv, BatchesInTurn, Complete, Import!File, Busy
  <1> QED BY <1>3, <1>4, <1>5, <1>6 DEF ImportInv

\* A poll is over, by an error or by the end of the process; the request that
\* failed may be left adrift.
LEMMA AbandonKeepsImportInv ==
  ASSUME ImportInv, phase' \in {"poll", "down"}, plan' = {}, sent' = 0,
         UNCHANGED <<today, listed, broken, loaded, recorded, late>>,
         faults' \in 0..MaxFaults,
         NEW q,
         \/ UNCHANGED adrift
         \/ /\ phase \in Busy /\ adrift' = adrift \cup {q}
            /\ q \in Import!Request /\ ~q.stale /\ q.file = Import!File
            /\ q.what = "record" => phase = "record"
  PROVE  ImportInv'
  <1>1. phase' \notin Busy
    BY DEF Busy
  <1>2. Import!ImportTypeOK'
    BY <1>1, ImporterBounds DEF ImportInv, Import!ImportTypeOK, Import!Busy, Busy
  <1>3. PlanUnrecorded' /\ NoneWhileBusy' /\ BatchesInTurn' /\ ImportedOnce'
    BY <1>1 DEF ImportInv, PlanUnrecorded, NoneWhileBusy, BatchesInTurn, Busy,
                ImportedOnce, Import!ImportedOnce
  <1>4. OneAdrift'
    BY DEF ImportInv, OneAdrift, NoneWhileBusy
  <1>5. AdriftHarmless'
    <2>1. CASE UNCHANGED adrift
      BY <2>1 DEF ImportInv, AdriftHarmless, Complete
    <2>2. CASE /\ phase \in Busy /\ adrift' = adrift \cup {q}
               /\ q.file = Import!File
               /\ q.what = "record" => phase = "record"
      <3>1. Import!File \in plan
        BY <2>2, FileInPlan DEF ImportInv, Import!ImportTypeOK, Import!Busy, Busy
      <3> SUFFICES ASSUME NEW r \in adrift', ~r.stale, r.file \notin late
                   PROVE  IF r.what = "record" THEN Complete(r.file)
                                               ELSE r.file \notin recorded
        BY DEF AdriftHarmless, Complete
      <3>2. CASE r \in adrift
        BY <3>2 DEF ImportInv, AdriftHarmless
      <3>3. CASE r = q /\ q.what = "record" /\ q.file = Import!File
        BY <3>3, <2>2 DEF ImportInv, BatchesInTurn, Busy
      <3>4. CASE r = q /\ q.what # "record" /\ q.file = Import!File
        BY <3>4, <3>1 DEF ImportInv, PlanUnrecorded
      <3> QED BY <3>2, <3>3, <3>4, <2>1, <2>2
    <2> QED BY <2>1, <2>2
  <1> QED BY <1>2, <1>3, <1>4, <1>5 DEF ImportInv

LEMMA PollKeepsImportInv == ImportInv /\ Import!Poll => ImportInv'
  <1> SUFFICES ASSUME ImportInv, Import!Poll PROVE ImportInv'
    OBVIOUS
  <1>1. /\ phase = "poll" /\ phase' \in {"poll", "delete"}
        /\ phase' = "delete" <=> plan' # {}
        /\ adrift' = {[r EXCEPT !.stale = TRUE] : r \in adrift}
        /\ UNCHANGED <<today, listed, broken, sent, loaded, recorded, late, faults>>
    BY DEF Import!Poll, Import!clickhouse
  <1>2. plan' \subseteq listed /\ plan' \cap recorded = {}
    BY DEF Import!Poll, Import!PlanImports
  <1>3. \A r \in adrift' : r.stale /\ r \in Import!Request
    <2> SUFFICES ASSUME NEW q \in adrift, NEW r, r = [q EXCEPT !.stale = TRUE]
                 PROVE  r.stale /\ r \in Import!Request
      BY <1>1
    <2>1. q \in Import!Request
      BY DEF ImportInv, Import!ImportTypeOK
    <2> QED BY <2>1 DEF Import!Request
  <1>4. Import!ImportTypeOK'
    <2>1. phase' \in Busy \cup {"migrate", "poll", "down"}
      BY <1>1 DEF Busy
    <2>2. phase' \in Busy <=> plan' # {}
      BY <1>1 DEF Busy
    <2>3. adrift' \subseteq Import!Request
      BY <1>3
    <2> QED
      BY <1>1, <1>2, <2>1, <2>2, <2>3
      DEF ImportInv, Import!ImportTypeOK, Import!Busy, Busy
  <1>5. PlanUnrecorded' /\ OneAdrift' /\ NoneWhileBusy' /\ AdriftHarmless'
    BY <1>1, <1>2, <1>3 DEF PlanUnrecorded, OneAdrift, NoneWhileBusy, AdriftHarmless
  <1>6. BatchesInTurn' /\ ImportedOnce'
    BY <1>1 DEF ImportInv, BatchesInTurn, ImportedOnce, Import!ImportedOnce
  <1> QED BY <1>4, <1>5, <1>6 DEF ImportInv

\* A request that fails, in the phase that sends it, is an abandoned poll.
LEMMA FailedKeepsImportInv ==
  ASSUME ImportInv, phase \in {"delete", "rows", "record"},
         NEW n \in 0..Batches, Import!Failed(phase, n),
         UNCHANGED <<today, listed, broken, late>>
  PROVE  ImportInv'
  <1> DEFINE q == [what |-> phase, file |-> Import!File, batch |-> n,
                   stale |-> FALSE]
  <1>1. Import!File \in Import!Day
    BY FileInPlan DEF ImportInv, Import!ImportTypeOK, Import!Busy
  <1>2. /\ q \in Import!Request /\ ~q.stale /\ q.file = Import!File
        /\ q.what = phase
    BY <1>1 DEF Import!Request, Import!Batch
  <1>3. UNCHANGED adrift \/ adrift' = adrift \cup {q}
    BY DEF Import!Failed, Import!GiveUp
  <1> HIDE DEF q
  <1>4. /\ phase' = "poll" /\ plan' = {} /\ sent' = 0
        /\ UNCHANGED <<loaded, recorded>> /\ faults' \in 0..MaxFaults
    BY ImporterBounds
    DEF Import!Failed, Import!EndPoll, Import!Fault, Import!clickhouse,
        ImportInv, Import!ImportTypeOK
  <1> QED
    BY <1>2, <1>3, <1>4, AbandonKeepsImportInv DEF Busy

LEMMA CrashKeepsImportInv == ImportInv /\ Import!Crash => ImportInv'
  <1> SUFFICES ASSUME ImportInv, Import!Crash PROVE ImportInv'
    OBVIOUS
  <1>1. /\ phase' = "down" /\ plan' = {} /\ sent' = 0 /\ faults' \in 0..MaxFaults
        /\ UNCHANGED <<today, listed, broken, loaded, recorded, late>>
    BY ImporterBounds
    DEF Import!Crash, Import!Fault, Import!clickhouse, ImportInv,
        Import!ImportTypeOK
  <1>2. CASE phase \in {"delete", "rows", "record"}
    <2> DEFINE q == [what |-> phase, file |-> Import!File,
                     batch |-> IF phase = "rows" THEN sent + 1 ELSE 0,
                     stale |-> FALSE]
    <2>1. Import!File \in Import!Day
      BY <1>2, FileInPlan DEF ImportInv, Import!ImportTypeOK, Import!Busy
    <2>2. (IF phase = "rows" THEN sent + 1 ELSE 0) \in 0..Batches
      BY ImporterBounds DEF ImportInv, BatchesInTurn, Import!ImportTypeOK
    <2>3. /\ q \in Import!Request /\ ~q.stale /\ q.file = Import!File
          /\ q.what = phase
      BY <1>2, <2>1, <2>2 DEF Import!Request
    <2>4. UNCHANGED adrift \/ adrift' = adrift \cup {q}
      <3>1. CASE phase = "rows"
        BY <3>1 DEF Import!Crash, Import!GiveUp
      <3>2. CASE phase = "delete"
        BY <3>2 DEF Import!Crash, Import!GiveUp
      <3>3. CASE phase = "record"
        BY <3>3 DEF Import!Crash, Import!GiveUp
      <3> QED BY <1>2, <3>1, <3>2, <3>3
    <2> HIDE DEF q
    <2> QED BY <1>1, <1>2, <2>3, <2>4, AbandonKeepsImportInv DEF Busy
  <1>3. CASE phase \notin {"delete", "rows", "record"}
    <2>1. UNCHANGED adrift
      BY <1>3 DEF Import!Crash
    <2> QED BY <1>1, <2>1, AbandonKeepsImportInv
  <1> QED BY <1>2, <1>3

\* The conjuncts that a step which leaves the plan, the records and what is
\* adrift alone cannot disturb.
LEMMA SamePlanKeeps ==
  ASSUME ImportInv, phase \in Busy, phase' \in Busy,
         UNCHANGED <<plan, recorded, adrift, late>>,
         \A d \in Import!Day \ {Import!File} : loaded'[d] = loaded[d]
  PROVE  /\ PlanUnrecorded' /\ OneAdrift' /\ NoneWhileBusy' /\ AdriftHarmless'
         /\ ImportedOnce' /\ UNCHANGED Import!File
  <1>1. UNCHANGED Import!File
    BY DEF Import!File
  <1>2. PlanUnrecorded' /\ OneAdrift' /\ NoneWhileBusy' /\ AdriftHarmless'
    BY DEF ImportInv, PlanUnrecorded, OneAdrift, NoneWhileBusy, AdriftHarmless
  <1>3. Import!File \in plan
    BY FileInPlan DEF ImportInv, Import!ImportTypeOK, Import!Busy, Busy
  <1>4. ImportedOnce'
    BY <1>3 DEF ImportInv, PlanUnrecorded, ImportedOnce, Import!ImportedOnce,
                Import!ImportTypeOK
  <1> QED BY <1>1, <1>2, <1>4

LEMMA DeleteKeepsImportInv == ImportInv /\ Import!Delete => ImportInv'
  <1> SUFFICES ASSUME ImportInv, Import!Delete PROVE ImportInv'
    OBVIOUS
  <1>1. CASE Import!Failed("delete", 0)
    BY <1>1, ImporterBounds, FailedKeepsImportInv DEF Import!Delete
  <1>2. CASE Import!Answered("delete", 0) /\ phase' = "download"
             /\ UNCHANGED <<plan, sent>>
    <2> DEFINE none == [b \in Import!Batch |-> 0]
    <2>1. /\ phase = "delete"
          /\ loaded' = [loaded EXCEPT ![Import!File] = none]
          /\ UNCHANGED <<today, listed, broken, recorded, adrift, late, faults>>
      BY <1>2 DEF Import!Delete, Import!Answered, Import!CarryOut, Import!NoFault
    <2>t. /\ Import!File \in Import!Day
          /\ loaded \in [Import!Day -> [Import!Batch -> Nat]]
          /\ none \in [Import!Batch -> Nat] /\ \A b \in Import!Batch : none[b] = 0
      BY <2>1, FileInPlan DEF ImportInv, Import!ImportTypeOK, Import!Busy
    <2> HIDE DEF none
    <2>2. /\ loaded' \in [Import!Day -> [Import!Batch -> Nat]]
          /\ loaded'[Import!File] = none
          /\ \A d \in Import!Day \ {Import!File} : loaded'[d] = loaded[d]
      BY <2>1, <2>t
    <2>3. /\ PlanUnrecorded' /\ OneAdrift' /\ NoneWhileBusy' /\ AdriftHarmless'
          /\ ImportedOnce' /\ UNCHANGED Import!File
      BY <1>2, <2>1, <2>2, SamePlanKeeps DEF Busy
    <2>4. Import!ImportTypeOK'
      BY <1>2, <2>1, <2>2 DEF ImportInv, Import!ImportTypeOK, Import!Busy
    <2>5. BatchesInTurn'
      <3>1. sent' = 0 /\ phase' = "download"
        BY <1>2, <2>1 DEF ImportInv, BatchesInTurn
      <3>2. \A b \in 1..Batches :
              loaded'[Import!File'][b] = IF b <= sent' THEN 1 ELSE 0
        BY <3>1, <2>2, <2>3, <2>t, ImporterBounds DEF Import!Batch
      <3> QED BY <3>1, <3>2 DEF BatchesInTurn
    <2> QED BY <2>3, <2>4, <2>5 DEF ImportInv
  <1> QED BY <1>1, <1>2 DEF Import!Delete

LEMMA DownloadKeepsImportInv == ImportInv /\ Import!Download => ImportInv'
  <1> SUFFICES ASSUME ImportInv, Import!Download PROVE ImportInv'
    OBVIOUS
  <1>0. /\ phase = "download"
        /\ UNCHANGED <<today, listed, broken, loaded, recorded, adrift, late>>
    BY DEF Import!Download, Import!clickhouse
  <1>1. CASE Import!EndPoll
    <2>1. faults' \in 0..MaxFaults
      BY ImporterBounds DEF Import!Download, Import!Fault, Import!NoFault,
                            ImportInv, Import!ImportTypeOK
    <2> QED BY <1>0, <1>1, <2>1, AbandonKeepsImportInv DEF Import!EndPoll
  <1>2. CASE phase' = "rows" /\ UNCHANGED <<plan, sent, faults>>
    <2>1. /\ PlanUnrecorded' /\ OneAdrift' /\ NoneWhileBusy' /\ AdriftHarmless'
          /\ ImportedOnce' /\ UNCHANGED Import!File
      BY <1>0, <1>2, SamePlanKeeps DEF Busy
    <2>2. Import!ImportTypeOK'
      BY <1>0, <1>2 DEF ImportInv, Import!ImportTypeOK, Import!Busy
    <2>3. BatchesInTurn'
      BY <1>0, <1>2, <2>1, ImporterBounds DEF ImportInv, BatchesInTurn, Busy
    <2> QED BY <2>1, <2>2, <2>3 DEF ImportInv
  <1> QED BY <1>1, <1>2 DEF Import!Download

LEMMA InsertRowsKeepsImportInv == ImportInv /\ Import!InsertRows => ImportInv'
  <1> SUFFICES ASSUME ImportInv, Import!InsertRows PROVE ImportInv'
    OBVIOUS
  <1>t. /\ phase = "rows" /\ sent \in Nat /\ sent < Batches /\ Batches \in Nat
        /\ UNCHANGED <<today, listed, broken, late>>
    BY ImporterBounds
    DEF Import!InsertRows, ImportInv, BatchesInTurn, Import!ImportTypeOK
  <1>1. CASE Import!Failed("rows", sent + 1)
    BY <1>1, <1>t, FailedKeepsImportInv
  <1>2. CASE Import!Answered("rows", sent + 1) /\ sent' = sent + 1
             /\ phase' = (IF sent' = Batches THEN "statics" ELSE "rows")
             /\ UNCHANGED plan
    <2> DEFINE f == Import!File
    <2>1. /\ loaded' = [loaded EXCEPT ![f][sent + 1] = @ + 1]
          /\ UNCHANGED <<recorded, adrift, faults>>
      BY <1>2 DEF Import!Answered, Import!CarryOut, Import!NoFault
    <2>2. /\ f \in Import!Day /\ sent + 1 \in 1..Batches
          /\ loaded \in [Import!Day -> [1..Batches -> Nat]]
      BY <1>t, FileInPlan
      DEF ImportInv, Import!ImportTypeOK, Import!Busy, Import!Batch
    <2> HIDE DEF f
    <2>3. /\ loaded' \in [Import!Day -> [1..Batches -> Nat]]
          /\ \A d \in Import!Day \ {f} : loaded'[d] = loaded[d]
          /\ \A b \in 1..Batches :
               loaded'[f][b] = IF b = sent + 1 THEN loaded[f][b] + 1
                                               ELSE loaded[f][b]
      <3> DEFINE row == [loaded[f] EXCEPT ![sent + 1] = @ + 1]
      <3>1. loaded' = [loaded EXCEPT ![f] = row]
        BY <2>1
      <3>2. /\ row \in [1..Batches -> Nat]
            /\ \A b \in 1..Batches : row[b] = IF b = sent + 1 THEN loaded[f][b] + 1
                                                            ELSE loaded[f][b]
        <4>1. loaded[f] \in [1..Batches -> Nat]
          BY <2>2
        <4> QED BY <4>1, <2>2
      <3> HIDE DEF row
      <3> QED BY <3>1, <3>2, <2>2
    <2>4. phase' \in {"rows", "statics"}
      BY <1>2
    <2>5. /\ PlanUnrecorded' /\ OneAdrift' /\ NoneWhileBusy' /\ AdriftHarmless'
          /\ ImportedOnce' /\ UNCHANGED Import!File
      BY <1>2, <1>t, <2>1, <2>3, <2>4, SamePlanKeeps DEF Busy, f
    <2>6. Import!ImportTypeOK'
      <3>1. sent' \in 0..Batches
        BY <1>2, <1>t
      <3> QED BY <1>2, <1>t, <2>1, <2>3, <2>4, <3>1
          DEF ImportInv, Import!ImportTypeOK, Import!Busy, Import!Batch
    <2>7. BatchesInTurn'
      <3>1. f \notin late => \A b \in 1..Batches :
              loaded'[f][b] = IF b <= sent + 1 THEN 1 ELSE 0
        <4> SUFFICES ASSUME f \notin late, NEW b \in 1..Batches
                     PROVE  loaded'[f][b] = IF b <= sent + 1 THEN 1 ELSE 0
          OBVIOUS
        <4>1. loaded[f][b] = IF b <= sent THEN 1 ELSE 0
          BY <1>t DEF ImportInv, BatchesInTurn, Busy, f
        <4> QED BY <4>1, <2>3, <1>t
      <3>2. phase' = "rows" => sent' < Batches
        BY <1>2, <1>t
      <3>3. phase' = "statics" => sent + 1 = Batches
        BY <1>2, <1>t
      <3> QED BY <1>2, <1>t, <2>4, <2>5, <3>1, <3>2, <3>3
          DEF BatchesInTurn, Complete, f
    <2> QED BY <2>5, <2>6, <2>7 DEF ImportInv
  <1> QED BY <1>1, <1>2 DEF Import!InsertRows

LEMMA InsertStaticsKeepsImportInv ==
  ImportInv /\ Import!InsertStatics => ImportInv'
  <1> SUFFICES ASSUME ImportInv, Import!InsertStatics PROVE ImportInv'
    OBVIOUS
  <1>0. /\ phase = "statics"
        /\ UNCHANGED <<today, listed, broken, loaded, recorded, adrift, late>>
    BY DEF Import!InsertStatics, Import!clickhouse
  <1>1. CASE Import!EndPoll
    <2>1. faults' \in 0..MaxFaults
      BY ImporterBounds DEF Import!InsertStatics, Import!Fault, Import!NoFault,
                            ImportInv, Import!ImportTypeOK
    <2> QED BY <1>0, <1>1, <2>1, AbandonKeepsImportInv DEF Import!EndPoll
  <1>2. CASE phase' = "record" /\ UNCHANGED <<plan, sent, faults>>
    <2>1. /\ PlanUnrecorded' /\ OneAdrift' /\ NoneWhileBusy' /\ AdriftHarmless'
          /\ ImportedOnce' /\ UNCHANGED Import!File
      BY <1>0, <1>2, SamePlanKeeps DEF Busy
    <2>2. Import!ImportTypeOK'
      BY <1>0, <1>2 DEF ImportInv, Import!ImportTypeOK, Import!Busy
    <2>3. BatchesInTurn'
      BY <1>0, <1>2, <2>1 DEF ImportInv, BatchesInTurn, Busy, Complete
    <2> QED BY <2>1, <2>2, <2>3 DEF ImportInv
  <1> QED BY <1>1, <1>2 DEF Import!InsertStatics, Import!NoFault

LEMMA RecordKeepsImportInv == ImportInv /\ Import!Record => ImportInv'
  <1> SUFFICES ASSUME ImportInv, Import!Record PROVE ImportInv'
    OBVIOUS
  <1>t. phase = "record" /\ UNCHANGED <<today, listed, broken, late>>
    BY DEF Import!Record
  <1>1. CASE Import!Failed("record", 0)
    BY <1>1, <1>t, ImporterBounds, FailedKeepsImportInv
  <1>2. CASE Import!Answered("record", 0)
    <2> DEFINE f == Import!File
    <2>1. /\ recorded' = recorded \cup {f} /\ UNCHANGED <<loaded, adrift, faults>>
      BY <1>2 DEF Import!Answered, Import!CarryOut, Import!NoFault
    <2>2. /\ f \in plan /\ f \in Import!Day /\ plan \subseteq Import!Day
      BY <1>t, FileInPlan DEF ImportInv, Import!ImportTypeOK, Import!Busy
    <2>3. f \notin late => Complete(f)
      BY <1>t DEF ImportInv, BatchesInTurn, Busy
    <2>4. /\ plan' = plan \ {f}
          /\ phase' = (IF plan' = {} THEN "poll" ELSE "delete")
          /\ sent' = 0
      <3>2. CASE plan = {f}
        BY <3>2, <1>2, <1>t DEF Import!Record, Import!EndPoll, Import!Failed
      <3>3. CASE plan # {f}
        <4>1. plan \ {f} # {}
          BY <2>2, <3>3
        <4>2. ~Import!Failed("record", 0)
          BY <2>1, ImporterBounds
          DEF Import!Failed, Import!Fault, ImportInv, Import!ImportTypeOK
        <4>3. phase' = "delete" /\ plan' = plan \ {f} /\ sent' = 0
          BY <4>2, <3>3 DEF Import!Record
        <4> QED BY <4>1, <4>3
      <3> QED BY <3>2, <3>3
    <2> HIDE DEF f
    <2>5. Import!ImportTypeOK'
      BY <1>t, <2>1, <2>2, <2>4, ImporterBounds
      DEF ImportInv, Import!ImportTypeOK, Import!Busy
    <2>6. PlanUnrecorded'
      BY <1>t, <2>1, <2>2, <2>4 DEF ImportInv, PlanUnrecorded
    <2>7. OneAdrift' /\ NoneWhileBusy' /\ AdriftHarmless'
      BY <1>t, <2>1 DEF ImportInv, OneAdrift, NoneWhileBusy, AdriftHarmless, Busy
    <2>8. BatchesInTurn'
      BY <2>4 DEF BatchesInTurn
    <2>9. ImportedOnce'
      BY <1>t, <2>1, <2>3
      DEF ImportInv, ImportedOnce, Import!ImportedOnce, Complete, Import!Batch
    <2> QED BY <2>5, <2>6, <2>7, <2>8, <2>9 DEF ImportInv
  <1> QED BY <1>1, <1>2 DEF Import!Record

\* A request given up earlier is carried out after all.
LEMMA LandKeepsImportInv ==
  ASSUME ImportInv, NEW r \in adrift, Import!Land(r)
  PROVE  ImportInv'
  <1> DEFINE f == r.file
  <1>1. /\ adrift' = adrift \ {r}
        /\ late' = (IF r.stale THEN late \cup {f} ELSE late)
        /\ UNCHANGED <<today, listed, broken, phase, plan, sent, faults>>
    BY DEF Import!Land
  <1>2. /\ r \in Import!Request /\ f \in Import!Day /\ r.stale \in BOOLEAN
        /\ r.what \in {"delete", "rows", "record"}
        /\ loaded \in [Import!Day -> [Import!Batch -> Nat]]
        /\ recorded \subseteq Import!Day
    BY DEF ImportInv, Import!ImportTypeOK, Import!Request
  <1>3. /\ loaded' \in [Import!Day -> [Import!Batch -> Nat]]
        /\ \A d \in Import!Day \ {f} : loaded'[d] = loaded[d]
        /\ recorded \subseteq recorded' /\ recorded' \subseteq recorded \cup {f}
        /\ r.what = "record" => loaded' = loaded
        /\ r.what # "record" => recorded' = recorded
    <2>1. CASE r.what = "delete"
      <3> DEFINE none == [b \in Import!Batch |-> 0]
      <3>1. loaded' = [loaded EXCEPT ![f] = none] /\ recorded' = recorded
        BY <2>1 DEF Import!Land, Import!CarryOut
      <3>2. none \in [Import!Batch -> Nat]
        OBVIOUS
      <3> HIDE DEF none
      <3> QED BY <2>1, <3>1, <3>2, <1>2
    <2>2. CASE r.what = "rows"
      <3> DEFINE row == [loaded[f] EXCEPT ![r.batch] = @ + 1]
      <3>1. loaded' = [loaded EXCEPT ![f] = row] /\ recorded' = recorded
        BY <2>2 DEF Import!Land, Import!CarryOut
      <3>2. row \in [Import!Batch -> Nat]
        <4>1. loaded[f] \in [Import!Batch -> Nat]
          BY <1>2
        <4>2. CASE r.batch \in Import!Batch
          BY <4>1, <4>2
        <4>3. CASE r.batch \notin Import!Batch
          <5>1. row = loaded[f]
            BY <4>1, <4>3
          <5> QED BY <4>1, <5>1
        <4> QED BY <4>2, <4>3
      <3> HIDE DEF row
      <3> QED BY <2>2, <3>1, <3>2, <1>2
    <2>3. CASE r.what = "record"
      BY <2>3, <1>2 DEF Import!Land, Import!CarryOut
    <2> QED BY <1>2, <2>1, <2>2, <2>3
  <1> HIDE DEF f
  <1>4. Import!ImportTypeOK'
    BY <1>1, <1>2, <1>3 DEF ImportInv, Import!ImportTypeOK, Import!Busy
  <1>5. phase \in Busy => r.stale /\ f \in late'
    BY <1>1 DEF ImportInv, NoneWhileBusy
  <1>6. PlanUnrecorded'
    <2>1. plan # {} => phase \in Busy
      BY DEF ImportInv, Import!ImportTypeOK, Import!Busy, Busy
    <2> QED BY <1>1, <1>3, <1>5, <2>1 DEF ImportInv, PlanUnrecorded
  <1>7. OneAdrift' /\ NoneWhileBusy'
    BY <1>1 DEF ImportInv, OneAdrift, NoneWhileBusy
  <1>8. AdriftHarmless'
    <2> SUFFICES ASSUME NEW q \in adrift, q # r, ~q.stale, q.file \notin late'
                 PROVE  IF q.what = "record" THEN Complete(q.file)'
                                             ELSE q.file \notin recorded'
      BY <1>1 DEF AdriftHarmless, Complete
    <2>1. r.stale
      BY DEF ImportInv, OneAdrift
    <2>2. q.file # f /\ q.file \notin late /\ q.file \in Import!Day
      BY <2>1, <1>1 DEF ImportInv, Import!ImportTypeOK, Import!Request
    <2>3. IF q.what = "record" THEN Complete(q.file) ELSE q.file \notin recorded
      BY <2>2 DEF ImportInv, AdriftHarmless
    <2> QED BY <2>2, <2>3, <1>3 DEF Complete
  <1>9. BatchesInTurn'
    <2>1. UNCHANGED Import!File
      BY <1>1 DEF Import!File
    <2>2. CASE phase \notin Busy
      BY <2>2, <1>1 DEF ImportInv, BatchesInTurn, Busy
    <2>3. CASE phase \in Busy
      <3>1. Import!File \in Import!Day
        BY <2>3, FileInPlan
        DEF ImportInv, Import!ImportTypeOK, Import!Busy, Busy
      <3>2. CASE Import!File = f
        BY <3>2, <2>1, <2>3, <1>1, <1>5 DEF ImportInv, BatchesInTurn
      <3>3. CASE Import!File # f
        <4>1. /\ loaded'[Import!File] = loaded[Import!File]
              /\ Import!File \notin late' => Import!File \notin late
          BY <3>1, <3>3, <1>1, <1>3
        <4> QED BY <4>1, <2>1, <1>1 DEF ImportInv, BatchesInTurn, Complete
      <3> QED BY <3>2, <3>3
    <2> QED BY <2>2, <2>3
  <1>10. ImportedOnce'
    <2> SUFFICES ASSUME NEW d \in recorded', d \notin late', NEW b \in 1..Batches
                 PROVE  loaded'[d][b] = 1
      BY DEF ImportedOnce, Import!ImportedOnce, Import!Batch
    <2>1. CASE d # f
      BY <2>1, <1>1, <1>2, <1>3
      DEF ImportInv, ImportedOnce, Import!ImportedOnce, Import!Batch
    <2>2. CASE d = f
      <3>1. ~r.stale /\ f \notin late
        BY <2>2, <1>1
      <3>2. IF r.what = "record" THEN Complete(f) ELSE f \notin recorded
        BY <3>1 DEF ImportInv, AdriftHarmless, f
      <3> QED BY <3>2, <2>2, <1>3 DEF Complete
    <2> QED BY <2>1, <2>2
  <1> QED BY <1>4, <1>6, <1>7, <1>8, <1>9, <1>10 DEF ImportInv

LEMMA NextKeepsImportInv ==
  ImportInv /\ [Import!Next]_importVars => ImportInv'
  <1> SUFFICES ASSUME ImportInv, [Import!Next]_importVars PROVE ImportInv'
    OBVIOUS
  <1>1. CASE Import!Work
    BY <1>1, QuietKeepsImportInv, PollKeepsImportInv, DeleteKeepsImportInv,
       DownloadKeepsImportInv, InsertRowsKeepsImportInv,
       InsertStaticsKeepsImportInv, RecordKeepsImportInv DEF Import!Work
  <1>2. CASE Import!NextDay \/ (\E d \in Import!Day : Import!Publish(d))
             \/ Import!Restart \/ UNCHANGED importVars
    BY <1>2, QuietKeepsImportInv
  <1>3. CASE \E r \in adrift : Import!Land(r)
    BY <1>3, LandKeepsImportInv
  <1> QED BY <1>1, <1>2, <1>3, CrashKeepsImportInv DEF Import!Next

LEMMA ServiceImportInv == ServiceSpec => []ImportInv
  <1>1. ServiceInit => ImportInv
    BY InitImportInv DEF ServiceInit
  <1>2. ImportInv /\ [ServiceNext]_serviceVars => ImportInv'
    <2>1. [ServiceNext]_serviceVars => [Import!Next]_importVars
      BY DEF ServiceNext, Archive, ImportDumps, serviceVars
    <2> QED BY <2>1, NextKeepsImportInv
  <1> QED BY <1>1, <1>2, PTL DEF ServiceSpec

\* Both jobs are well typed, whatever either does to the database they share:
\* the buffers hold collected rows, a flush is in one of its steps and what has
\* been stored is counted; a poll's plan is of files in the window, and what the
\* importer has sent of a file is a number of its batches.
THEOREM ServiceTyped == ServiceSpec => [](TypeOK /\ Import!ImportTypeOK)
  <1>1. IInv => TypeOK
    BY DEF IInv
  <1>2. ImportInv => Import!ImportTypeOK
    BY DEF ImportInv
  <1> QED BY <1>1, <1>2, ServiceIInv, ServiceImportInv, PTL

\* dma_imports promises that "restarts and re-polls are idempotent": whatever
\* requests fail, land late or are repeated, and wherever the process stops, a
\* recorded day is in the archive once, every batch of it, unless ClickHouse
\* carried out a request of an earlier poll.
THEOREM DaysImportedOnce == ServiceSpec => []ImportedOnce
  <1>1. ImportInv => ImportedOnce
    BY DEF ImportInv
  <1> QED BY <1>1, ServiceImportInv, PTL
=============================================================================
