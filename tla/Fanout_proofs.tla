---------------------------- MODULE Fanout_proofs ----------------------------
(***************************************************************************)
(* Proofs about Fanout, for every world, set of boxes and bound: the cover *)
(* of any box is sound, every frame sent matches the subscription it was   *)
(* sent under, and of what a client asked for each message comes once.     *)
(*                                                                         *)
(* Encode, Cells and Rounds are recursive functions.  That they are what   *)
(* their recursion says, and what they compute, is proved by induction     *)
(* over the least counterexample: < on Nat is well founded.                *)
(***************************************************************************)
EXTENDS Fanout, WellFoundedInduction, FiniteSetTheorems, SequenceTheorems, TLAPS

-----------------------------------------------------------------------------
(* Induction and recursion over 0..n. *)

LEMMA LeastNatural ==
  ASSUME NEW T, T \subseteq Nat, T # {}
  PROVE  \E m \in T : \A k \in T : m <= k
  <1>1. \E m \in T : \A k \in T : ~(<<k, m>> \in OpToRel(<, Nat))
    BY NatLessThanWellFounded, WFMin
  <1>2. \A k, m \in Nat : k < m => <<k, m>> \in OpToRel(<, Nat)
    BY Zenon DEF OpToRel
  <1>3. PICK m \in T : \A k \in T : ~(k < m)
    BY <1>1, <1>2, Zenon
  <1> QED BY <1>3

(* Induction over 0..n, for a set of the numbers that have the property. *)
LEMMA Induction ==
  ASSUME NEW n \in Nat, NEW T, 0 \in T,
         \A i \in 1..n : i - 1 \in T => i \in T
  PROVE  \A i \in 0..n : i \in T
  <1> SUFFICES ASSUME NEW i \in 0..n, i \notin T PROVE FALSE
    OBVIOUS
  <1> DEFINE Without == {k \in 0..n : k \notin T}
  <1>1. PICK m \in Without : \A k \in Without : m <= k
    <2>1. Without \subseteq Nat /\ Without # {}
      OBVIOUS
    <2> QED BY <2>1, LeastNatural
  <1>2. m \in 1..n /\ m - 1 \in 0..n /\ m \notin T
    BY <1>1
  <1>3. m - 1 \in T
    BY <1>1, <1>2
  <1> QED BY <1>2, <1>3

(* Kept folded where the provers instantiate the lemma. *)
Steps(X) == [X -> X]
Iterates(n, X, x0, step) ==
  {f \in [0..n -> X] : f[0] = x0 /\ \A i \in 1..n : f[i] = step[f[i - 1]]}

LEMMA IteratesExist ==
  ASSUME NEW n \in Nat, NEW X, NEW x0 \in X, NEW step \in Steps(X)
  PROVE  \E f : f \in Iterates(n, X, x0, step)
  <1> DEFINE T == {m \in 0..n : \E f : f \in Iterates(m, X, x0, step)}
  <1>1. 0 \in T
    <2> DEFINE f == [i \in 0..0 |-> x0]
    <2>1. f \in Iterates(0, X, x0, step)
      BY DEF Iterates
    <2> HIDE DEF f
    <2> QED BY <2>1
  <1>2. ASSUME NEW m \in 1..n, m - 1 \in T PROVE m \in T
    <2>1. PICK f : f \in Iterates(m - 1, X, x0, step)
      BY <1>2
    <2> DEFINE g == [i \in 0..m |-> IF i = m THEN step[f[m - 1]] ELSE f[i]]
    <2>2. /\ f \in [0..(m - 1) -> X] /\ f[0] = x0
          /\ \A i \in 1..(m - 1) : f[i] = step[f[i - 1]]
      BY <2>1 DEF Iterates
    <2>3. g \in [0..m -> X] /\ g[0] = x0
      BY <2>2 DEF Steps
    <2>4. \A i \in 1..m : g[i] = step[g[i - 1]]
      BY <2>2
    <2>5. g \in Iterates(m, X, x0, step)
      BY <2>3, <2>4 DEF Iterates
    <2> HIDE DEF g
    <2> QED BY <2>5
  <1> HIDE DEF T
  <1>3. n \in T
    BY <1>1, <1>2, Induction
  <1> QED BY <1>3 DEF T

LEMMA IteratesFacts ==
  ASSUME NEW n \in Nat, NEW X, NEW x0, NEW step, NEW f \in Iterates(n, X, x0, step)
  PROVE  /\ f \in [0..n -> X] /\ f[0] = x0
         /\ \A i \in 1..n : f[i - 1] \in X /\ f[i] = step[f[i - 1]]
  BY DEF Iterates

LEMMA SideTyped == Side \in Nat
  <1> DEFINE N == Nat
             twice == [n \in N |-> 2 * n]
  <1>1. SubjectPrecision \in Nat /\ 1 \in N /\ twice \in Steps(N)
    BY GeoAssumption DEF Steps
  <1>2. PICK f : f \in Iterates(SubjectPrecision, N, 1, twice)
    <2> HIDE DEF twice, N
    <2> QED BY <1>1, IteratesExist
  <1>3. f = [n \in 0..SubjectPrecision |-> IF n = 0 THEN 1 ELSE 2 * f[n - 1]]
    <2>1. /\ f \in [0..SubjectPrecision -> N] /\ f[0] = 1
          /\ \A i \in 1..SubjectPrecision : f[i - 1] \in N /\ f[i] = twice[f[i - 1]]
      <3> HIDE DEF twice, N
      <3> QED BY <1>1, <1>2, IteratesFacts
    <2>2. \A i \in 1..SubjectPrecision : f[i] = 2 * f[i - 1]
      BY <2>1
    <2> QED BY <2>1, <2>2
  <1> HIDE DEF twice, N
  <1>4. PICK g : g = [n \in 0..SubjectPrecision |-> IF n = 0 THEN 1 ELSE 2 * g[n - 1]]
                 /\ g[SubjectPrecision] = Side
    BY <1>3 DEF Side
  <1> DEFINE T == {n \in 0..SubjectPrecision : g[n] \in Nat}
  <1>5. \A n \in 0..SubjectPrecision : n \in T
    <2>1. 0 \in T
      BY <1>1, <1>4
    <2>2. \A i \in 1..SubjectPrecision : i - 1 \in T => i \in T
      BY <1>1, <1>4
    <2> HIDE DEF T
    <2> QED BY <1>1, <2>1, <2>2, Induction
  <1> QED BY <1>1, <1>4, <1>5

-----------------------------------------------------------------------------
(* Cells. *)

Corner == [1..2 -> Int]
Cell == [prefix : Seq(Character), bounds : [lo : Corner, hi : Corner]]

LEMMA WorldTyped == World \in Cell
  <1>1. [k \in 1..2 |-> 0] \in Corner /\ [k \in 1..2 |-> Side] \in Corner
    BY SideTyped DEF Corner
  <1> QED BY <1>1 DEF World, Cell

LEMMA MidTyped ==
  ASSUME NEW c \in Cell, NEW k \in 1..2
  PROVE  /\ c.bounds.lo[k] \in Int /\ c.bounds.hi[k] \in Int
         /\ Mid(c.bounds, k) \in Int
  BY DEF Cell, Corner, Mid

LEMMA ChildTyped ==
  ASSUME NEW c \in Cell, NEW char \in Character
  PROVE  /\ Child(c, char) \in Cell
         /\ Child(c, char).prefix = Append(c.prefix, char)
         /\ \A k \in 1..2 :
              /\ Child(c, char).bounds.lo[k]
                   = IF char[k] = 1 THEN Mid(c.bounds, k) ELSE c.bounds.lo[k]
              /\ Child(c, char).bounds.hi[k]
                   = IF char[k] = 1 THEN c.bounds.hi[k] ELSE Mid(c.bounds, k)
  <1> DEFINE lo == [k \in 1..2 |-> IF char[k] = 1 THEN Mid(c.bounds, k)
                                                 ELSE c.bounds.lo[k]]
             hi == [k \in 1..2 |-> IF char[k] = 1 THEN c.bounds.hi[k]
                                                 ELSE Mid(c.bounds, k)]
  <1>1. Child(c, char) = [prefix |-> Append(c.prefix, char),
                          bounds |-> [lo |-> lo, hi |-> hi]]
    BY DEF Child
  <1>2. lo \in Corner /\ hi \in Corner
    BY MidTyped DEF Corner
  <1>3. Append(c.prefix, char) \in Seq(Character)
    BY AppendProperties DEF Cell
  <1> HIDE DEF lo, hi
  <1>4. Child(c, char) \in Cell
    BY <1>1, <1>2, <1>3 DEF Cell
  <1>5. Child(c, char).bounds.lo = lo /\ Child(c, char).bounds.hi = hi
    BY <1>1
  <1> QED BY <1>1, <1>4, <1>5 DEF lo, hi

\* The children of a cell have different prefixes, and so have those of cells
\* with different prefixes.
LEMMA ChildInjective ==
  ASSUME NEW c \in Cell, NEW d \in Cell, NEW x \in Character, NEW y \in Character,
         Child(c, x).prefix = Child(d, y).prefix
  PROVE  c.prefix = d.prefix /\ x = y
  <1>1. Append(c.prefix, x) = Append(d.prefix, y)
    <2>1. Child(c, x).prefix = Append(c.prefix, x)
      BY ChildTyped
    <2>2. Child(d, y).prefix = Append(d.prefix, y)
      BY ChildTyped
    <2> QED BY <2>1, <2>2
  <1>2. c.prefix \in Seq(Character) /\ d.prefix \in Seq(Character)
    BY DEF Cell
  <1> QED BY <1>1, <1>2, AppendInjective

-----------------------------------------------------------------------------
(* The cells a position lies in, as encode finds them. *)

In(p, cell) == \A k \in 1..2 : cell.bounds.lo[k] <= p[k] /\ p[k] <= cell.bounds.hi[k]

LEMMA HalvesTyped == \A c, p : Halves(c.bounds, p) \in Character
  BY DEF Halves, Character

LEMMA InHalf ==
  ASSUME NEW p \in Places, NEW c \in Cell, In(p, c)
  PROVE  In(p, Child(c, Halves(c.bounds, p)))
  <1> DEFINE char == Halves(c.bounds, p)
  <1>1. char \in Character /\ \A k \in 1..2 : char[k] = IF p[k] >= Mid(c.bounds, k) THEN 1 ELSE 0
    BY HalvesTyped DEF Halves
  <1> HIDE DEF char
  <1>2. SUFFICES ASSUME NEW k \in 1..2
                 PROVE  /\ Child(c, char).bounds.lo[k] <= p[k]
                        /\ p[k] <= Child(c, char).bounds.hi[k]
    BY DEF In, char
  <1>3. p[k] \in Int /\ c.bounds.lo[k] <= p[k] /\ p[k] <= c.bounds.hi[k]
    BY SideTyped DEF Places, In
  <1>4. /\ Child(c, char).bounds.lo[k]
             = IF char[k] = 1 THEN Mid(c.bounds, k) ELSE c.bounds.lo[k]
        /\ Child(c, char).bounds.hi[k]
             = IF char[k] = 1 THEN c.bounds.hi[k] ELSE Mid(c.bounds, k)
    BY <1>1, ChildTyped
  <1> QED BY <1>1, <1>3, <1>4, MidTyped

CellsRecursion(p, f) ==
  f = [n \in 0..SubjectPrecision |->
         IF n = 0 THEN World ELSE Child(f[n - 1], Halves(f[n - 1].bounds, p))]

LEMMA CellsDefined == ASSUME NEW p PROVE CellsRecursion(p, Cells(p))
  <1> DEFINE into == [c \in Cell |-> Child(c, Halves(c.bounds, p))]
  <1>1. SubjectPrecision \in Nat /\ World \in Cell /\ into \in Steps(Cell)
    BY GeoAssumption, WorldTyped, ChildTyped, HalvesTyped DEF Steps
  <1>2. PICK f : f \in Iterates(SubjectPrecision, Cell, World, into)
    <2> HIDE DEF into
    <2> QED BY <1>1, IteratesExist
  <1>3. CellsRecursion(p, f)
    <2>1. /\ f \in [0..SubjectPrecision -> Cell] /\ f[0] = World
          /\ \A i \in 1..SubjectPrecision : f[i - 1] \in Cell /\ f[i] = into[f[i - 1]]
      <3> HIDE DEF into
      <3> QED BY <1>1, <1>2, IteratesFacts
    <2>2. \A i \in 1..SubjectPrecision :
            f[i] = Child(f[i - 1], Halves(f[i - 1].bounds, p))
      BY <2>1
    <2> QED BY <2>1, <2>2 DEF CellsRecursion
  <1> QED BY <1>3 DEF CellsRecursion, Cells

LEMMA CellsTyped ==
  ASSUME NEW p \in Places
  PROVE  /\ Cells(p)[0] = World
         /\ \A n \in 1..SubjectPrecision :
              Cells(p)[n] = Child(Cells(p)[n - 1], Halves(Cells(p)[n - 1].bounds, p))
         /\ \A n \in 0..SubjectPrecision :
              /\ Cells(p)[n] \in Cell
              /\ Len(Cells(p)[n].prefix) = n
              /\ In(p, Cells(p)[n])
  <1> DEFINE f == Cells(p)
             T == {n \in 0..SubjectPrecision :
                     f[n] \in Cell /\ Len(f[n].prefix) = n /\ In(p, f[n])}
  <1>1. /\ f[0] = World
        /\ \A n \in 1..SubjectPrecision :
             f[n] = Child(f[n - 1], Halves(f[n - 1].bounds, p))
    BY CellsDefined, GeoAssumption DEF CellsRecursion
  <1> HIDE DEF f
  <1>2. 0 \in T
    <2>1. Len(World.prefix) = 0
      BY DEF World
    <2>2. In(p, World)
      BY SideTyped DEF In, World, Places
    <2> QED BY <1>1, <2>1, <2>2, WorldTyped, GeoAssumption
  <1>3. ASSUME NEW n \in 1..SubjectPrecision, n - 1 \in T PROVE n \in T
    <2> DEFINE c == f[n - 1]
    <2>1. c \in Cell /\ Len(c.prefix) = n - 1 /\ In(p, c)
      BY <1>3
    <2> DEFINE char == Halves(c.bounds, p)
    <2>2. f[n] = Child(c, char) /\ char \in Character
      BY <1>1, HalvesTyped
    <2>3. In(p, f[n])
      BY <2>1, <2>2, InHalf
    <2> HIDE DEF c, char
    <2>4. f[n] \in Cell /\ f[n].prefix = Append(c.prefix, char)
      BY <2>1, <2>2, ChildTyped
    <2>5. Len(f[n].prefix) = n
      <3>1. c.prefix \in Seq(Character)
        BY <2>1 DEF Cell
      <3>2. Len(Append(c.prefix, char)) = Len(c.prefix) + 1
        BY <3>1, <2>2, AppendProperties
      <3> QED BY <2>1, <2>4, <3>2
    <2> QED BY <2>3, <2>4, <2>5
  <1> HIDE DEF T
  <1>4. \A n \in 0..SubjectPrecision : n \in T
    BY <1>2, <1>3, Induction, GeoAssumption
  <1> QED BY <1>1, <1>4 DEF f, T

-----------------------------------------------------------------------------
(* The rounds of a cover. *)

CellSets == {cells \in SUBSET Cell : IsFiniteSet(cells)}

\* The cells whose children replace them.
Split(cells, box) == {c \in cells : ~Inside(c.bounds, box)}

LEMMA ImageFinite ==
  ASSUME NEW S, IsFiniteSet(S), NEW f
  PROVE  /\ IsFiniteSet({f[x] : x \in S})
         /\ Cardinality({f[x] : x \in S}) <= Cardinality(S)
  <1> DEFINE T == {f[x] : x \in S}
             g == [x \in S |-> f[x]]
  <1>1. g \in Surjection(S, T)
    BY DEF Surjection
  <1> HIDE DEF g, T
  <1>2. IsFiniteSet(T) /\ Cardinality(T) <= Cardinality(S)
    BY <1>1, FS_Surjection
  <1> QED BY <1>2 DEF T

LEMMA ChildrenFinite ==
  ASSUME NEW c \in Cell
  PROVE  Children(c) \in SUBSET Cell /\ IsFiniteSet(Children(c))
  <1>1. IsFiniteSet(Character)
    <2> DEFINE f == [q \in (0..1) \X (0..1) |-> [k \in 1..2 |-> q[k]]]
    <2>1. IsFiniteSet((0..1) \X (0..1))
      <3>1. IsFiniteSet(0..1)
        <4>1. \A x : IsFiniteSet({x})
          BY FS_Singleton
        <4>2. IsFiniteSet({0} \cup {1})
          BY <4>1, FS_Union
        <4> QED BY <4>2, 0..1 = {0} \cup {1}
      <3> QED BY <3>1, FS_Product
    <2>2. {f[q] : q \in (0..1) \X (0..1)} = Character
      <3>1. ASSUME NEW x \in Character
            PROVE  x \in {f[q] : q \in (0..1) \X (0..1)}
        <4>1. <<x[1], x[2]>> \in (0..1) \X (0..1)
          BY DEF Character
        <4>2. f[<<x[1], x[2]>>] = x
          BY <4>1 DEF Character
        <4> QED BY <4>1, <4>2
      <3>2. ASSUME NEW q \in (0..1) \X (0..1) PROVE f[q] \in Character
        BY DEF Character
      <3> QED BY <3>1, <3>2
    <2> HIDE DEF f
    <2>3. IsFiniteSet({f[q] : q \in (0..1) \X (0..1)})
      BY <2>1, ImageFinite
    <2> QED BY <2>2, <2>3
  <1> DEFINE g == [char \in Character |-> Child(c, char)]
  <1>2. Children(c) = {g[char] : char \in Character}
    BY DEF Children
  <1>3. IsFiniteSet({g[char] : char \in Character})
    <2> HIDE DEF g
    <2> QED BY <1>1, ImageFinite
  <1> QED BY <1>2, <1>3, ChildTyped DEF Children

LEMMA RefinedTyped ==
  ASSUME NEW cells \in CellSets, NEW box
  PROVE  Refined(cells, box) \in CellSets
  <1> DEFINE split == Split(cells, box)
             sets == {Children(c) : c \in split}
  <1>1. IsFiniteSet(split) /\ split \subseteq cells /\ cells \subseteq Cell /\ IsFiniteSet(cells)
    BY FS_Subset DEF CellSets, Split
  <1>2. IsFiniteSet(UNION sets) /\ UNION sets \subseteq Cell
    <2> DEFINE f == [c \in split |-> Children(c)]
    <2>1. sets = {f[c] : c \in split}
      OBVIOUS
    <2>2. IsFiniteSet({f[c] : c \in split})
      <3> HIDE DEF f, split
      <3> QED BY <1>1, ImageFinite
    <2>3. \A s \in sets : IsFiniteSet(s) /\ s \subseteq Cell
      BY <1>1, ChildrenFinite
    <2> HIDE DEF sets
    <2> QED BY <2>1, <2>2, <2>3, FS_UNION
  <1>3. Refined(cells, box) \subseteq cells \cup UNION sets
    BY DEF Refined, Split
  <1> HIDE DEF sets, split
  <1>4. IsFiniteSet(cells \cup UNION sets)
    BY <1>1, <1>2, FS_Union
  <1> QED BY <1>1, <1>2, <1>3, <1>4, FS_Subset DEF CellSets

NextRound(cells, box) ==
  IF Cardinality(Refined(cells, box)) > MaxCells THEN cells ELSE Refined(cells, box)

LEMMA RoundsDefined ==
  ASSUME NEW box
  PROVE  /\ Rounds(box)[0] = {World}
         /\ \A n \in 1..CoverPrecision :
              Rounds(box)[n] = NextRound(Rounds(box)[n - 1], box)
  <1> DEFINE next == [cells \in CellSets |-> NextRound(cells, box)]
             Recursion(f) ==
               f = [n \in 0..CoverPrecision |->
                      IF n = 0 THEN {World} ELSE NextRound(f[n - 1], box)]
  <1>1. CoverPrecision \in Nat /\ {World} \in CellSets /\ next \in Steps(CellSets)
    <2>1. IsFiniteSet({World})
      BY FS_Singleton
    <2> QED BY <2>1, GeoAssumption, WorldTyped, RefinedTyped DEF Steps, NextRound, CellSets
  <1>2. PICK f : f \in Iterates(CoverPrecision, CellSets, {World}, next)
    <2> HIDE DEF next
    <2> QED BY <1>1, IteratesExist
  <1>3. Recursion(f)
    <2>1. /\ f \in [0..CoverPrecision -> CellSets] /\ f[0] = {World}
          /\ \A i \in 1..CoverPrecision : f[i - 1] \in CellSets /\ f[i] = next[f[i - 1]]
      <3> HIDE DEF next
      <3> QED BY <1>1, <1>2, IteratesFacts
    <2>2. \A i \in 1..CoverPrecision : f[i] = NextRound(f[i - 1], box)
      BY <2>1
    <2> QED BY <2>1, <2>2
  <1>4. Recursion(Rounds(box))
    BY <1>3 DEF Rounds, NextRound
  <1>5. 0 \in 0..CoverPrecision /\ \A n \in 1..CoverPrecision : n \in 0..CoverPrecision /\ n # 0
    BY <1>1
  <1> DEFINE r == Rounds(box)
  <1>6. r = [n \in 0..CoverPrecision |->
                      IF n = 0 THEN {World} ELSE NextRound(r[n - 1], box)]
    BY <1>4
  <1> HIDE DEF r
  <1>7. r[0] = {World} /\ \A n \in 1..CoverPrecision : r[n] = NextRound(r[n - 1], box)
    BY <1>5, <1>6
  <1> QED BY <1>7 DEF r

-----------------------------------------------------------------------------
(* Every round is sound, and so is the cover. *)

IsBox(box) == \A k \in 1..2 : box.lo[k] \in Int /\ box.hi[k] \in Int

\* A cell of the round with the prefix of a place is the cell of that place.
PrefixesTell(cells) ==
  \A c \in cells : \A p \in Places : \A m \in 0..SubjectPrecision :
    c.prefix = Cells(p)[m].prefix => c = Cells(p)[m]

\* Each place of the box is in one cell of the round.
OneCell(cells, p, n) ==
  \E m \in 0..n : /\ Cells(p)[m] \in cells
                  /\ \A j \in 0..SubjectPrecision : Cells(p)[j] \in cells => j = m

RoundOK(cells, box, n) ==
  /\ cells \in CellSets /\ Cardinality(cells) <= MaxCells
  /\ PrefixesTell(cells)
  /\ \A p \in Places : InBox(box, p) => OneCell(cells, p, n)

LEMMA FirstRoundOK == ASSUME NEW box PROVE RoundOK({World}, box, 0)
  <1>1. {World} \in CellSets /\ Cardinality({World}) <= MaxCells
    <2>1. IsFiniteSet({World}) /\ Cardinality({World}) = 1
      BY FS_Singleton
    <2> QED BY <2>1, WorldTyped, GeoAssumption DEF CellSets
  <1>2. ASSUME NEW p \in Places, NEW m \in 0..SubjectPrecision, m # 0
        PROVE  Cells(p)[m].prefix # World.prefix
    <2>1. Len(Cells(p)[m].prefix) = m /\ Len(World.prefix) = 0
      BY CellsTyped DEF World
    <2> QED BY <1>2, <2>1
  <1>3. \A p \in Places : Cells(p)[0] = World
    BY CellsTyped
  <1>4. PrefixesTell({World})
    BY <1>2, <1>3 DEF PrefixesTell
  <1>5. \A p \in Places : OneCell({World}, p, 0)
    BY <1>2, <1>3 DEF OneCell
  <1> QED BY <1>1, <1>4, <1>5 DEF RoundOK

LEMMA RefinedCells ==
  ASSUME NEW cells, NEW box, NEW c
  PROVE  c \in Refined(cells, box) <=>
           \/ c \in cells /\ Inside(c.bounds, box)
           \/ /\ \E d \in cells : /\ ~Inside(d.bounds, box)
                                  /\ \E char \in Character : c = Child(d, char)
              /\ Intersects(c.bounds, box)
  BY DEF Refined, Children

LEMMA RefinedPrefixesTell ==
  ASSUME NEW cells \in CellSets, NEW box, PrefixesTell(cells)
  PROVE  PrefixesTell(Refined(cells, box))
  <1> SUFFICES ASSUME NEW c \in Refined(cells, box), NEW p \in Places,
                      NEW m \in 0..SubjectPrecision, c.prefix = Cells(p)[m].prefix
               PROVE  c = Cells(p)[m]
    BY DEF PrefixesTell
  <1>1. CASE c \in cells
    BY <1>1 DEF PrefixesTell
  <1>2. CASE c \notin cells
    <2>1. PICK d \in cells, char \in Character : c = Child(d, char)
      BY <1>2, RefinedCells
    <2>2. d \in Cell
      BY DEF CellSets
    <2>3. m # 0
      <3>1. Len(c.prefix) = Len(d.prefix) + 1 /\ Len(d.prefix) \in Nat
        <4>1. d.prefix \in Seq(Character)
          BY <2>2 DEF Cell
        <4>2. c.prefix = Append(d.prefix, char)
          BY <2>1, <2>2, ChildTyped
        <4> QED BY <4>1, <4>2, AppendProperties, LenProperties
      <3>2. Len(c.prefix) = m
        BY CellsTyped
      <3> QED BY <3>1, <3>2
    <2> DEFINE e == Cells(p)[m - 1]
               other == Halves(e.bounds, p)
    <2>4. /\ m - 1 \in 0..SubjectPrecision /\ e \in Cell
          /\ Cells(p)[m] = Child(e, other) /\ other \in Character
      <3>1. m \in 1..SubjectPrecision /\ m - 1 \in 0..SubjectPrecision
        BY <2>3, GeoAssumption
      <3> QED BY <3>1, CellsTyped, HalvesTyped
    <2>5. d.prefix = e.prefix /\ char = other
      <3>1. Child(d, char).prefix = Child(e, other).prefix
        BY <2>1, <2>4
      <3> HIDE DEF e, other
      <3> QED BY <2>2, <2>4, <3>1, ChildInjective
    <2>6. d = e
      BY <2>4, <2>5 DEF PrefixesTell
    <2> QED BY <2>1, <2>4, <2>5, <2>6
  <1> QED BY <1>1, <1>2

LEMMA RefinedOneCell ==
  ASSUME NEW cells \in CellSets, NEW box, IsBox(box), PrefixesTell(cells),
         NEW p \in Places, InBox(box, p), NEW n \in 1..CoverPrecision,
         OneCell(cells, p, n - 1)
  PROVE  OneCell(Refined(cells, box), p, n)
  <1>1. PICK m \in 0..(n - 1) :
          /\ Cells(p)[m] \in cells
          /\ \A j \in 0..SubjectPrecision : Cells(p)[j] \in cells => j = m
    BY DEF OneCell
  <1>2. /\ m \in 0..SubjectPrecision /\ m + 1 \in 1..SubjectPrecision
        /\ m \in 0..n /\ m + 1 \in 0..n /\ m + 1 - 1 = m
    BY GeoAssumption
  \* A cell of the place in the new round was there, or its parent was.
  <1>3. ASSUME NEW j \in 0..SubjectPrecision, Cells(p)[j] \in Refined(cells, box)
        PROVE  \/ j = m /\ Inside(Cells(p)[m].bounds, box)
               \/ j = m + 1 /\ ~Inside(Cells(p)[m].bounds, box)
    <2>1. CASE Cells(p)[j] \in cells /\ Inside(Cells(p)[j].bounds, box)
      BY <1>1, <2>1
    <2>2. CASE \E d \in cells : /\ ~Inside(d.bounds, box)
                                /\ \E char \in Character : Cells(p)[j] = Child(d, char)
      <3>1. PICK d \in cells, char \in Character :
              ~Inside(d.bounds, box) /\ Cells(p)[j] = Child(d, char)
        BY <2>2
      <3>2. d \in Cell
        BY DEF CellSets
      <3>3. j # 0
        <4>1. d.prefix \in Seq(Character)
          BY <3>2 DEF Cell
        <4>2. Cells(p)[j].prefix = Append(d.prefix, char)
          BY <3>1, <3>2, ChildTyped
        <4>3. Len(Append(d.prefix, char)) = Len(d.prefix) + 1 /\ Len(d.prefix) \in Nat
          BY <4>1, AppendProperties, LenProperties
        <4>4. Len(Cells(p)[j].prefix) = j
          BY CellsTyped
        <4> QED BY <4>2, <4>3, <4>4
      <3> DEFINE e == Cells(p)[j - 1]
                 other == Halves(e.bounds, p)
      <3>4. /\ j - 1 \in 0..SubjectPrecision /\ e \in Cell
            /\ Cells(p)[j] = Child(e, other) /\ other \in Character
        <4>1. j \in 1..SubjectPrecision /\ j - 1 \in 0..SubjectPrecision
          BY <3>3, GeoAssumption
        <4> QED BY <4>1, CellsTyped, HalvesTyped
      <3>5. d.prefix = e.prefix
        <4>1. Child(d, char).prefix = Child(e, other).prefix
          BY <3>1, <3>4
        <4> HIDE DEF e, other
        <4> QED BY <3>2, <3>4, <4>1, ChildInjective
      <3>6. d = e
        BY <3>4, <3>5 DEF PrefixesTell
      <3>7. j - 1 = m
        BY <1>1, <3>4, <3>6
      <3>8. j = m + 1
        BY <3>7
      <3> QED BY <3>1, <3>6, <3>7, <3>8
    <2> QED BY <1>3, <2>1, <2>2, RefinedCells
  <1>4. CASE Inside(Cells(p)[m].bounds, box)
    <2>1. Cells(p)[m] \in Refined(cells, box)
      BY <1>1, <1>4, RefinedCells
    <2>2. \A j \in 0..SubjectPrecision : Cells(p)[j] \in Refined(cells, box) => j = m
      BY <1>3, <1>4
    <2> QED BY <1>2, <2>1, <2>2 DEF OneCell
  <1>5. CASE ~Inside(Cells(p)[m].bounds, box)
    <2> DEFINE c == Cells(p)[m]
               char == Halves(c.bounds, p)
    <2>1. Cells(p)[m + 1] = Child(c, char) /\ char \in Character
      <3>1. Cells(p)[m + 1]
              = Child(Cells(p)[m + 1 - 1], Halves(Cells(p)[m + 1 - 1].bounds, p))
        BY <1>2, CellsTyped
      <3> QED BY <3>1, <1>2, HalvesTyped
    <2>2. Intersects(Cells(p)[m + 1].bounds, box)
      <3> DEFINE b == Cells(p)[m + 1].bounds
      <3>1. m + 1 \in 0..SubjectPrecision
        BY <1>2
      <3>2. Cells(p)[m + 1] \in Cell /\ In(p, Cells(p)[m + 1])
        BY <3>1, CellsTyped
      <3>3. ASSUME NEW k \in 1..2 PROVE b.lo[k] <= box.hi[k] /\ b.hi[k] >= box.lo[k]
        <4>1. /\ b.lo[k] \in Int /\ b.hi[k] \in Int
              /\ b.lo[k] <= p[k] /\ p[k] <= b.hi[k]
          BY <3>2, MidTyped DEF In
        <4>2. /\ p[k] \in Int /\ box.lo[k] \in Int /\ box.hi[k] \in Int
              /\ box.lo[k] <= p[k] /\ p[k] <= box.hi[k]
          BY SideTyped DEF Places, InBox, IsBox
        <4> HIDE DEF b
        <4> QED BY <4>1, <4>2
      <3> QED BY <3>3 DEF Intersects
    <2>3. Cells(p)[m + 1] \in Refined(cells, box)
      BY <1>1, <1>5, <2>1, <2>2, RefinedCells
    <2>4. \A j \in 0..SubjectPrecision : Cells(p)[j] \in Refined(cells, box) => j = m + 1
      BY <1>3, <1>5
    <2> QED BY <1>2, <2>3, <2>4 DEF OneCell
  <1> QED BY <1>4, <1>5

LEMMA NextRoundOK ==
  ASSUME NEW box, IsBox(box), NEW n \in 1..CoverPrecision, NEW cells,
         RoundOK(cells, box, n - 1)
  PROVE  RoundOK(NextRound(cells, box), box, n)
  <1> DEFINE next == Refined(cells, box)
  <1>1. cells \in CellSets /\ PrefixesTell(cells)
    BY DEF RoundOK
  <1>2. CASE Cardinality(next) > MaxCells
    <2>1. NextRound(cells, box) = cells
      BY <1>2 DEF NextRound
    <2>2. ASSUME NEW p \in Places, InBox(box, p) PROVE OneCell(cells, p, n)
      <3>1. OneCell(cells, p, n - 1)
        BY <2>2 DEF RoundOK
      <3> QED BY <3>1 DEF OneCell
    <2> QED BY <2>1, <2>2 DEF RoundOK
  <1>3. CASE ~(Cardinality(next) > MaxCells)
    <2>1. NextRound(cells, box) = next
      BY <1>3 DEF NextRound
    <2>2. next \in CellSets /\ PrefixesTell(next)
      BY <1>1, RefinedTyped, RefinedPrefixesTell
    <2>3. Cardinality(next) <= MaxCells
      <3>1. Cardinality(next) \in Nat
        BY <2>2, FS_CardinalityType DEF CellSets
      <3> QED BY <1>3, <3>1, GeoAssumption
    <2>4. ASSUME NEW p \in Places, InBox(box, p) PROVE OneCell(next, p, n)
      <3>1. OneCell(cells, p, n - 1)
        BY <2>4 DEF RoundOK
      <3> QED BY <1>1, <2>4, <3>1, RefinedOneCell
    <2> QED BY <2>1, <2>2, <2>3, <2>4 DEF RoundOK
  <1> QED BY <1>2, <1>3

LEMMA LastRoundOK ==
  ASSUME NEW box, IsBox(box)
  PROVE  RoundOK(Rounds(box)[CoverPrecision], box, CoverPrecision)
  <1> DEFINE T == {n \in 0..CoverPrecision : RoundOK(Rounds(box)[n], box, n)}
  <1>1. CoverPrecision \in Nat
    BY GeoAssumption
  <1>2. 0 \in T
    BY <1>1, FirstRoundOK, RoundsDefined
  <1>3. ASSUME NEW n \in 1..CoverPrecision, n - 1 \in T PROVE n \in T
    <2>1. RoundOK(Rounds(box)[n - 1], box, n - 1)
      BY <1>3
    <2>2. Rounds(box)[n] = NextRound(Rounds(box)[n - 1], box)
      BY RoundsDefined
    <2>3. RoundOK(Rounds(box)[n], box, n)
      BY <2>1, <2>2, NextRoundOK
    <2> QED BY <2>3
  <1> HIDE DEF T
  <1>4. \A n \in 0..CoverPrecision : n \in T
    BY <1>1, <1>2, <1>3, Induction
  <1>5. CoverPrecision \in T
    BY <1>1, <1>4
  <1> QED BY <1>5 DEF T

\* Whatever the box: at most MaxCells prefixes, and of the prefixes of a place
\* in it exactly one.
LEMMA CoverIsSound ==
  ASSUME NEW box, IsBox(box)
  PROVE  SoundCover(box)
  <1> DEFINE cells == Rounds(box)[CoverPrecision]
             cover == Cover(box)
  <1>1. RoundOK(cells, box, CoverPrecision)
    BY LastRoundOK
  <1>2. CoverPrecision \in Nat /\ 0..CoverPrecision \subseteq 0..SubjectPrecision
    BY GeoAssumption
  <1>3. Cardinality(cover) <= MaxCells
    <2> DEFINE f == [c \in cells |-> c.prefix]
    <2>1. cover = {f[c] : c \in cells}
      BY DEF Cover
    <2>2. IsFiniteSet(cells) /\ Cardinality(cells) <= MaxCells
      BY <1>1 DEF RoundOK, CellSets
    <2> HIDE DEF f, cells, cover
    <2>3. /\ IsFiniteSet(cover) /\ Cardinality(cover) <= Cardinality(cells)
      BY <2>1, <2>2, ImageFinite
    <2>4. Cardinality(cover) \in Nat /\ Cardinality(cells) \in Nat
      BY <2>2, <2>3, FS_CardinalityType
    <2> QED BY <2>2, <2>3, <2>4, GeoAssumption
  <1>4. ASSUME NEW p \in Places, NEW n \in 0..CoverPrecision
        PROVE  Encode(p, n) \in cover <=> Cells(p)[n] \in cells
    <2>1. Cells(p)[n] \in cells => Encode(p, n) \in cover
      BY DEF Cover, Encode
    <2>2. ASSUME Encode(p, n) \in cover PROVE Cells(p)[n] \in cells
      <3>1. PICK c \in cells : c.prefix = Cells(p)[n].prefix
        BY <2>2 DEF Cover, Encode
      <3>2. n \in 0..SubjectPrecision
        BY <1>2
      <3>3. c = Cells(p)[n]
        BY <1>1, <3>1, <3>2 DEF RoundOK, PrefixesTell
      <3> QED BY <3>3
    <2> QED BY <2>1, <2>2
  <1>5. ASSUME NEW p \in Places, InBox(box, p)
        PROVE  Cardinality({n \in 0..CoverPrecision : Encode(p, n) \in cover}) = 1
    <2>1. OneCell(cells, p, CoverPrecision)
      BY <1>1, <1>5 DEF RoundOK
    <2> HIDE DEF cells, cover
    <2>2. PICK m \in 0..CoverPrecision :
            /\ Cells(p)[m] \in cells
            /\ \A j \in 0..SubjectPrecision : Cells(p)[j] \in cells => j = m
      BY <2>1 DEF OneCell
    <2>3. {n \in 0..CoverPrecision : Encode(p, n) \in cover} = {m}
      BY <1>2, <1>4, <2>2
    <2> QED BY <2>3, FS_Singleton
  <1> QED BY <1>3, <1>5 DEF SoundCover

-----------------------------------------------------------------------------
(* The prefixes of a cover, and the subject of a position. *)

LEMMA CoverTyped ==
  ASSUME NEW box
  PROVE  \A q \in Cover(box) : q \in Seq(Character) /\ Len(q) <= CoverPrecision
  <1> DEFINE T == {n \in 0..CoverPrecision :
                     /\ Rounds(box)[n] \in CellSets
                     /\ \A c \in Rounds(box)[n] : Len(c.prefix) <= n}
  <1>1. CoverPrecision \in Nat
    BY GeoAssumption
  <1>2. 0 \in T
    <2>1. {World} \in CellSets
      <3>1. IsFiniteSet({World})
        BY FS_Singleton
      <3> QED BY <3>1, WorldTyped DEF CellSets
    <2>2. Len(World.prefix) = 0
      BY DEF World
    <2>3. Rounds(box)[0] = {World}
      BY RoundsDefined
    <2>4. \A c \in {World} : Len(c.prefix) <= 0
      BY <2>2
    <2>5. Rounds(box)[0] \in CellSets /\ \A c \in Rounds(box)[0] : Len(c.prefix) <= 0
      BY <2>1, <2>3, <2>4
    <2>6. 0 \in 0..CoverPrecision
      BY <1>1
    <2> QED BY <2>5, <2>6
  <1>3. ASSUME NEW n \in 1..CoverPrecision, n - 1 \in T PROVE n \in T
    <2> DEFINE cells == Rounds(box)[n - 1]
    <2>1. cells \in CellSets /\ \A c \in cells : Len(c.prefix) <= n - 1
      BY <1>3
    <2>2. Rounds(box)[n] = NextRound(cells, box)
      BY RoundsDefined
    <2> HIDE DEF cells
    <2>3. Refined(cells, box) \in CellSets
      BY <2>1, RefinedTyped
    <2>4. ASSUME NEW c \in Refined(cells, box) PROVE Len(c.prefix) <= n
      <3>1. CASE c \in cells
        BY <2>1, <3>1 DEF CellSets, Cell
      <3>2. CASE \E d \in cells : \E char \in Character : c = Child(d, char)
        <4>1. PICK d \in cells, char \in Character : c = Child(d, char)
          BY <3>2
        <4>2. d \in Cell
          BY <2>1 DEF CellSets
        <4>3. c.prefix = Append(d.prefix, char)
          BY <4>1, <4>2, ChildTyped
        <4>4. d.prefix \in Seq(Character) /\ Len(d.prefix) <= n - 1
          BY <2>1, <4>2 DEF Cell
        <4> QED BY <4>3, <4>4
      <3> QED BY <3>1, <3>2, RefinedCells DEF Children
    <2>5. /\ NextRound(cells, box) \in CellSets
          /\ \A c \in NextRound(cells, box) : Len(c.prefix) <= n
      <3>1. ASSUME NEW c \in cells PROVE Len(c.prefix) <= n
        <4>1. c.prefix \in Seq(Character) /\ Len(c.prefix) <= n - 1
          BY <2>1 DEF CellSets, Cell
        <4> QED BY <4>1
      <3> QED BY <2>1, <2>3, <2>4, <3>1 DEF NextRound
    <2> QED BY <1>1, <2>2, <2>5
  <1> HIDE DEF T
  <1>4. \A n \in 0..CoverPrecision : n \in T
    BY <1>1, <1>2, <1>3, Induction
  <1>5. CoverPrecision \in T
    BY <1>1, <1>4
  <1>6. /\ Rounds(box)[CoverPrecision] \in CellSets
        /\ \A c \in Rounds(box)[CoverPrecision] : Len(c.prefix) <= CoverPrecision
    BY <1>5 DEF T
  <1> QED BY <1>6 DEF Cover, CellSets, Cell

\* A hash of a place is that of one character less, and one more.
LEMMA EncodeTyped ==
  ASSUME NEW p \in Places
  PROVE  /\ \A n \in 0..SubjectPrecision :
              Encode(p, n) \in Seq(Character) /\ Len(Encode(p, n)) = n
         /\ \A n \in 1..SubjectPrecision :
              \E char \in Character : Encode(p, n) = Append(Encode(p, n - 1), char)
  <1>1. ASSUME NEW n \in 0..SubjectPrecision
        PROVE  Encode(p, n) \in Seq(Character) /\ Len(Encode(p, n)) = n
    <2>1. Cells(p)[n] \in Cell /\ Len(Cells(p)[n].prefix) = n
      BY CellsTyped
    <2> QED BY <2>1 DEF Encode, Cell
  <1>2. ASSUME NEW n \in 1..SubjectPrecision
        PROVE  \E char \in Character : Encode(p, n) = Append(Encode(p, n - 1), char)
    <2> DEFINE c == Cells(p)[n - 1]
               char == Halves(c.bounds, p)
    <2>1. c \in Cell
      BY CellsTyped, GeoAssumption
    <2>2. Cells(p)[n] = Child(c, char) /\ char \in Character
      BY CellsTyped, HalvesTyped
    <2>3. Encode(p, n) = Append(c.prefix, char)
      <3> HIDE DEF c, char
      <3> QED BY <2>1, <2>2, ChildTyped DEF Encode
    <2> QED BY <2>2, <2>3 DEF Encode
  <1> QED BY <1>1, <1>2

\* So the prefixes of a hash are the shorter hashes of the place.
LEMMA PrefixesOfSubject ==
  ASSUME NEW p \in Places, NEW q \in Seq(Character), NEW n \in 0..SubjectPrecision
  PROVE  IsPrefix(q, Encode(p, n)) <=> Len(q) <= n /\ q = Encode(p, Len(q))
  <1> DEFINE T == {m \in 0..n : SubSeq(Encode(p, n), 1, n - m) = Encode(p, n - m)}
  <1>1. n \in Nat /\ 0..n \subseteq 0..SubjectPrecision
    BY GeoAssumption
  <1>2. Encode(p, n) \in Seq(Character) /\ Len(Encode(p, n)) = n
    BY EncodeTyped
  <1>3. 0 \in T
    <2>1. SubSeq(Encode(p, n), 1, n) = Encode(p, n)
      BY <1>2
    <2> QED BY <1>1, <2>1
  <1>4. ASSUME NEW m \in 1..n, m - 1 \in T PROVE m \in T
    <2> DEFINE k == n - m + 1
               s == Encode(p, n)
    <2>1. /\ k \in 1..n /\ k - 1 = n - m /\ n - (m - 1) = k /\ k \in 1..SubjectPrecision
          /\ k - 1 \in 0..SubjectPrecision
      BY <1>1
    <2>2. SubSeq(s, 1, k) = Encode(p, k)
      BY <1>4, <2>1
    <2>3. PICK char \in Character : Encode(p, k) = Append(Encode(p, k - 1), char)
      BY <2>1, EncodeTyped
    <2>4. Encode(p, k - 1) \in Seq(Character) /\ Len(Encode(p, k - 1)) = k - 1
      BY <1>1, <2>1, EncodeTyped
    <2> HIDE DEF s
    <2>5. s \in Seq(Character) /\ Len(s) = n
      BY <1>2 DEF s
    <2>6. SubSeq(s, 1, k - 1) = SubSeq(SubSeq(s, 1, k), 1, k - 1)
      <3> HIDE DEF k
      <3> QED BY <2>1, <2>5
    <2>7. SubSeq(Append(Encode(p, k - 1), char), 1, k - 1) = Encode(p, k - 1)
      <3> HIDE DEF k
      <3> QED BY <2>1, <2>4
    <2>8. SubSeq(s, 1, n - m) = Encode(p, n - m)
      BY <2>1, <2>2, <2>3, <2>6, <2>7
    <2> QED BY <2>8 DEF s
  <1> HIDE DEF T
  <1>5. \A m \in 0..n : m \in T
    BY <1>1, <1>3, <1>4, Induction
  <1>6. ASSUME NEW k \in 0..n PROVE SubSeq(Encode(p, n), 1, k) = Encode(p, k)
    <2>1. n - k \in T
      BY <1>1, <1>5
    <2>2. n - (n - k) = k
      BY <1>1
    <2> QED BY <2>1, <2>2 DEF T
  <1>7. Len(q) \in Nat /\ SubSeq(q, 1, Len(q)) = q
    OBVIOUS
  <1>8. CASE Len(q) <= n
    <2>1. SubSeq(Encode(p, n), 1, Len(q)) = Encode(p, Len(q))
      BY <1>1, <1>6, <1>7, <1>8
    <2> QED BY <1>2, <1>7, <1>8, <2>1 DEF IsPrefix
  <1>9. CASE ~(Len(q) <= n)
    BY <1>2, <1>9 DEF IsPrefix
  <1> QED BY <1>8, <1>9

\* Two prefixes of one sequence are prefixes of each other.
LEMMA PrefixesCompare ==
  ASSUME NEW S, NEW s \in Seq(S), NEW R, NEW p \in Seq(R), NEW q \in Seq(R),
         IsPrefix(p, s), IsPrefix(q, s), Len(p) <= Len(q)
  PROVE  IsPrefix(p, q)
  <1>1. /\ Len(q) <= Len(s)
        /\ p = SubSeq(s, 1, Len(p)) /\ q = SubSeq(s, 1, Len(q))
    <2>1. SubSeq(p, 1, Len(p)) = p /\ SubSeq(q, 1, Len(q)) = q
      OBVIOUS
    <2> QED BY <2>1 DEF IsPrefix
  <1>2. SubSeq(SubSeq(s, 1, Len(q)), 1, Len(p)) = SubSeq(s, 1, Len(p))
    <2>1. Len(p) \in Nat /\ Len(q) \in Nat
      OBVIOUS
    <2> QED BY <1>1, <2>1
  <1>3. SubSeq(p, 1, Len(p)) = p
    OBVIOUS
  <1> QED BY <1>1, <1>2, <1>3 DEF IsPrefix

-----------------------------------------------------------------------------
(* The subscriptions of a client. *)

LEMMA AllPrefixes ==
  ASSUME NEW view \in View
  PROVE  /\ view.boxes \subseteq Boxes
         /\ \A q : q \in UNION {CoverOf[b] : b \in view.boxes} <=>
                     \E b \in view.boxes : q \in Cover(b)
  <1>1. view.boxes \subseteq Boxes
    BY DEF View
  <1>2. \A b \in view.boxes : CoverOf[b] = Cover(b)
    BY <1>1 DEF CoverOf
  <1> QED BY <1>1, <1>2

LEMMA ClientCoverTyped ==
  ASSUME NEW view \in View, NEW p \in ClientCover(view)
  PROVE  p \in Seq(Character) /\ Len(p) <= CoverPrecision
  <1>1. p \in UNION {CoverOf[b] : b \in view.boxes}
    BY DEF ClientCover
  <1>2. PICK b \in view.boxes : p \in Cover(b)
    BY <1>1, AllPrefixes
  <1> QED BY <1>2, CoverTyped

LEMMA SubjectTyped ==
  /\ \A at \in Position \cup {Nowhere} : \E S : Subject(at) \in Seq(S)
  /\ \A at \in Position : at \in Places /\ (at # Nowhere => Subject(at) = Encode(at, SubjectPrecision))
  <1>1. ASSUME NEW at \in Position, at # Nowhere
        PROVE  at \in Places /\ Subject(at) = Encode(at, SubjectPrecision)
    BY <1>1, FanoutAssumption DEF Places, Subject, SubjectOf
  <1>2. ASSUME NEW at \in Position, at # Nowhere
        PROVE  Subject(at) \in Seq(Character)
    BY <1>1, <1>2, EncodeTyped, GeoAssumption
  <1>3. Subject(Nowhere) \in Seq({Nowhere})
    BY DEF Subject
  <1>4. \A at \in Position : at \in Places
    BY FanoutAssumption DEF Places
  <1> QED BY <1>1, <1>2, <1>3, <1>4

\* A message comes through one subscription at most.
LEMMA OneSubscription ==
  ASSUME NEW view \in View, NEW p \in ClientCover(view), NEW q \in ClientCover(view),
         NEW at \in Position \cup {Nowhere},
         IsPrefix(p, Subject(at)), IsPrefix(q, Subject(at))
  PROVE  p = q
  <1>1. PICK S : Subject(at) \in Seq(S)
    BY SubjectTyped
  <1>2. p \in Seq(Character) /\ q \in Seq(Character)
    BY ClientCoverTyped
  <1>3. IsPrefix(p, q) \/ IsPrefix(q, p)
    <2>1. Len(p) <= Len(q) \/ Len(q) <= Len(p)
      <3>1. Len(p) \in Nat /\ Len(q) \in Nat
        BY <1>2
      <3> QED BY <3>1
    <2> QED BY <1>1, <1>2, <2>1, PrefixesCompare
  <1> QED BY <1>3 DEF ClientCover

\* And what lies in a box of the client through one.
LEMMA Subscribed ==
  ASSUME NEW view \in View, NEW at \in Position, at # Nowhere,
         NEW b \in view.boxes, InBox(b, at)
  PROVE  \E p \in ClientCover(view) : IsPrefix(p, Subject(at))
  <1> DEFINE all == UNION {CoverOf[c] : c \in view.boxes}
             N == {n \in 0..CoverPrecision : Encode(at, n) \in all}
  <1>1. at \in Places /\ Subject(at) = Encode(at, SubjectPrecision)
    BY SubjectTyped
  <1>2. CoverPrecision \in Nat /\ 0..CoverPrecision \subseteq 0..SubjectPrecision
        /\ SubjectPrecision \in 0..SubjectPrecision
    BY GeoAssumption
  <1>3. N # {}
    <2>1. IsBox(b)
      BY AllPrefixes, FanoutAssumption DEF IsBox
    <2>2. OneCell(Rounds(b)[CoverPrecision], at, CoverPrecision)
      BY <1>1, <2>1, LastRoundOK DEF RoundOK
    <2>3. PICK m \in 0..CoverPrecision : Cells(at)[m] \in Rounds(b)[CoverPrecision]
      BY <2>2 DEF OneCell
    <2>4. Encode(at, m) \in Cover(b)
      BY <2>3 DEF Encode, Cover
    <2> QED BY <2>4, AllPrefixes
  <1>4. PICK n \in N : \A k \in N : n <= k
    <2>1. N \subseteq Nat
      BY <1>2
    <2> HIDE DEF N
    <2> QED BY <1>3, <2>1, LeastNatural
  <1>5. /\ Encode(at, n) \in Seq(Character) /\ Len(Encode(at, n)) = n
        /\ n \in 0..SubjectPrecision
    BY <1>1, <1>2, EncodeTyped
  <1>6. ASSUME NEW q \in all, IsPrefix(q, Encode(at, n)) PROVE q = Encode(at, n)
    <2>1. q \in Seq(Character) /\ Len(q) <= CoverPrecision
      BY AllPrefixes, CoverTyped
    <2>2. Len(q) <= n /\ q = Encode(at, Len(q))
      BY <1>1, <1>5, <1>6, <2>1, PrefixesOfSubject
    <2>3. Len(q) \in N
      <3>1. Len(q) \in 0..CoverPrecision
        BY <1>2, <2>1
      <3> QED BY <2>2, <3>1
    <2>4. n <= Len(q)
      BY <1>4, <2>3
    <2>5. Len(q) = n
      BY <1>5, <2>1, <2>2, <2>4
    <2> QED BY <2>2, <2>5
  <1>7. Encode(at, n) \in ClientCover(view)
    BY <1>6 DEF ClientCover
  <1>8. IsPrefix(Encode(at, n), Subject(at))
    <2>1. n <= SubjectPrecision
      BY <1>5
    <2> QED BY <1>1, <1>2, <1>5, <2>1, PrefixesOfSubject
  <1> QED BY <1>7, <1>8

-----------------------------------------------------------------------------
(* The buffers when a message comes in, and when one is taken out. *)

Held(qs, n) == \E p \in DOMAIN qs : \E i \in 1..Len(qs[p]) : qs[p][i] = n

\* A buffer holds, in order, messages published under its prefix.
Buffers(pub, qs) ==
  \A p \in DOMAIN qs : \A i \in 1..Len(qs[p]) :
    /\ qs[p][i] \in 1..Len(pub)
    /\ IsPrefix(p, Subject(pub[qs[p][i]].at))
    /\ \A j \in 1..Len(qs[p]) : i < j => qs[p][i] < qs[p][j]

LEMMA MessageBuffered ==
  ASSUME NEW qs, IsQueues(qs), NEW pub \in Seq(Message), Len(pub) < MaxMessages,
         Buffers(pub, qs), NEW m \in Message
  PROVE  LET new == Buffered(qs, Len(pub) + 1, m.at)
         IN  /\ DOMAIN new = DOMAIN qs
             /\ IsQueues(new)
             /\ Buffers(Append(pub, m), new)
             /\ \A x \in 1..Len(pub) : Held(new, x) <=> Held(qs, x)
             /\ \A p \in DOMAIN qs :
                  IsPrefix(p, Subject(m.at)) /\ Len(qs[p]) < Buffer =>
                    Held(new, Len(pub) + 1)
  <1> DEFINE n == Len(pub) + 1
             all == Append(pub, m)
             new == Buffered(qs, n, m.at)
  <1>1. n \in Number /\ Len(pub) \in Nat
    BY FanoutBounds DEF Number
  <1>2. /\ Len(all) = n /\ all[n] = m
        /\ \A x \in 1..Len(pub) : all[x] = pub[x]
    OBVIOUS
  <1>3. DOMAIN new = DOMAIN qs
    BY DEF Buffered
  <1>4. \A p \in DOMAIN qs :
          new[p] = IF IsPrefix(p, Subject(m.at)) /\ Len(qs[p]) < Buffer
                     THEN Append(qs[p], n) ELSE qs[p]
    BY DEF Buffered
  <1> HIDE DEF n, all, new
  <1>5. ASSUME NEW p \in DOMAIN qs
        PROVE  /\ new[p] \in Seq(Number) /\ Len(new[p]) <= Buffer
               /\ Len(qs[p]) \in Nat
               /\ Len(new[p]) \in Len(qs[p])..(Len(qs[p]) + 1)
               /\ \A i \in 1..Len(qs[p]) : new[p][i] = qs[p][i] /\ qs[p][i] \in 1..Len(pub)
               /\ \A i \in 1..Len(new[p]) : i > Len(qs[p]) =>
                     new[p][i] = n /\ IsPrefix(p, Subject(m.at))
    <2>1. qs[p] \in Seq(Number) /\ Len(qs[p]) <= Buffer
      BY DEF IsQueues
    <2>2. \A i \in 1..Len(qs[p]) : qs[p][i] \in 1..Len(pub)
      BY DEF Buffers
    <2>3. CASE IsPrefix(p, Subject(m.at)) /\ Len(qs[p]) < Buffer
      <3>1. new[p] = Append(qs[p], n)
        BY <1>4, <2>3
      <3>2. /\ Append(qs[p], n) \in Seq(Number)
            /\ Len(Append(qs[p], n)) = Len(qs[p]) + 1
            /\ \A i \in 1..Len(qs[p]) : Append(qs[p], n)[i] = qs[p][i]
            /\ Append(qs[p], n)[Len(qs[p]) + 1] = n
        BY <1>1, <2>1
      <3> HIDE DEF Number
      <3>3. Len(qs[p]) \in Nat /\ Buffer \in Nat
        BY <2>1, FanoutAssumption
      <3> QED BY <2>2, <2>3, <3>1, <3>2, <3>3
    <2>4. CASE ~(IsPrefix(p, Subject(m.at)) /\ Len(qs[p]) < Buffer)
      <3>1. new[p] = qs[p]
        BY <1>4, <2>4
      <3> QED BY <2>1, <2>2, <3>1
    <2> QED BY <2>3, <2>4
  <1>6. IsQueues(new)
    BY <1>3, <1>5 DEF IsQueues
  <1>7. Buffers(all, new)
    <2> SUFFICES ASSUME NEW p \in DOMAIN qs, NEW i \in 1..Len(new[p])
                 PROVE  /\ new[p][i] \in 1..n
                        /\ IsPrefix(p, Subject(all[new[p][i]].at))
                        /\ \A j \in 1..Len(new[p]) : i < j => new[p][i] < new[p][j]
      BY <1>2, <1>3 DEF Buffers
    <2>1. \A j \in 1..Len(new[p]) :
            \/ j \in 1..Len(qs[p]) /\ new[p][j] = qs[p][j] /\ qs[p][j] \in 1..Len(pub)
            \/ j = Len(qs[p]) + 1 /\ new[p][j] = n /\ IsPrefix(p, Subject(m.at))
      BY <1>5
    <2>2. \A j \in 1..Len(qs[p]) :
            /\ IsPrefix(p, Subject(pub[qs[p][j]].at))
            /\ \A k \in 1..Len(qs[p]) : j < k => qs[p][j] < qs[p][k]
      BY DEF Buffers
    <2>3. n = Len(pub) + 1
      BY DEF n
    <2>4. Len(qs[p]) \in Nat /\ Len(new[p]) \in Nat
      BY <1>5
    <2>5. new[p][i] \in 1..n
      BY <1>1, <2>1, <2>3
    <2>6. IsPrefix(p, Subject(all[new[p][i]].at))
      BY <1>2, <2>1, <2>2
    <2>7. ASSUME NEW j \in 1..Len(new[p]), i < j PROVE new[p][i] < new[p][j]
      <3>1. i \in 1..Len(qs[p]) /\ new[p][i] = qs[p][i] /\ qs[p][i] \in 1..Len(pub)
        BY <2>1, <2>4, <2>7
      <3>2. CASE j \in 1..Len(qs[p]) /\ new[p][j] = qs[p][j]
        BY <2>2, <2>7, <3>1, <3>2
      <3>3. CASE new[p][j] = n
        BY <1>1, <2>3, <3>1, <3>3
      <3> QED BY <2>1, <3>2, <3>3
    <2> QED BY <2>5, <2>6, <2>7
  <1>8. ASSUME NEW x \in 1..Len(pub) PROVE Held(new, x) <=> Held(qs, x)
    <2>1. ASSUME NEW p \in DOMAIN qs, NEW i \in 1..Len(new[p]), new[p][i] = x
          PROVE  i \in 1..Len(qs[p]) /\ qs[p][i] = x
      <3>1. x # n
        BY <1>1 DEF n
      <3>2. Len(qs[p]) \in Nat /\ (i > Len(qs[p]) => new[p][i] = n)
        BY <1>5
      <3>3. i \in 1..Len(qs[p])
        BY <2>1, <3>1, <3>2
      <3> QED BY <1>5, <2>1, <3>3
    <2>2. ASSUME NEW p \in DOMAIN qs, NEW i \in 1..Len(qs[p]), qs[p][i] = x
          PROVE  i \in 1..Len(new[p]) /\ new[p][i] = x
      BY <1>5, <2>2
    <2> QED BY <1>3, <2>1, <2>2 DEF Held
  <1>9. ASSUME NEW p \in DOMAIN qs, IsPrefix(p, Subject(m.at)), Len(qs[p]) < Buffer
        PROVE  Held(new, n)
    <2>1. new[p] = Append(qs[p], n)
      BY <1>4, <1>9
    <2>2. qs[p] \in Seq(Number)
      BY DEF IsQueues
    <2>3. Len(qs[p]) + 1 \in 1..Len(new[p]) /\ new[p][Len(qs[p]) + 1] = n
      BY <2>1, <2>2
    <2> QED BY <1>3, <2>3 DEF Held
  <1> QED BY <1>3, <1>6, <1>7, <1>8, <1>9 DEF n, all, new

\* No message is in two buffers whose prefixes are never those of one subject.
LEMMA MessageTaken ==
  ASSUME NEW qs, IsQueues(qs), NEW pub, Len(pub) \in Nat, Buffers(pub, qs),
         NEW p \in DOMAIN qs, qs[p] # <<>>,
         \A q \in DOMAIN qs : \A x \in 1..Len(pub) :
           IsPrefix(p, Subject(pub[x].at)) /\ IsPrefix(q, Subject(pub[x].at)) => p = q
  PROVE  LET new == [qs EXCEPT ![p] = Tail(@)]
             n   == Head(qs[p])
         IN  /\ DOMAIN new = DOMAIN qs
             /\ IsQueues(new)
             /\ Buffers(pub, new)
             /\ n \in 1..Len(pub) /\ n \in Number /\ Held(qs, n)
             /\ \A x : Held(new, x) <=> Held(qs, x) /\ x # n
  <1> DEFINE new == [qs EXCEPT ![p] = Tail(@)]
             n   == Head(qs[p])
  <1>1. DOMAIN new = DOMAIN qs /\ new[p] = Tail(qs[p])
        /\ \A q \in DOMAIN qs : q # p => new[q] = qs[q]
    OBVIOUS
  <1> HIDE DEF new
  <1>2. qs[p] \in Seq(Number) /\ Len(qs[p]) <= Buffer /\ Len(qs[p]) \in Nat
    BY DEF IsQueues
  <1>3. /\ n = qs[p][1] /\ 1 \in 1..Len(qs[p]) /\ n \in Number
        /\ new[p] \in Seq(Number) /\ Len(new[p]) = Len(qs[p]) - 1
        /\ \A i \in 1..(Len(qs[p]) - 1) : new[p][i] = qs[p][i + 1]
    BY <1>1, <1>2
  <1> HIDE DEF n
  <1>4. IsQueues(new)
    <2>1. Len(new[p]) <= Buffer
      BY <1>2, <1>3, FanoutAssumption
    <2> QED BY <1>1, <1>3, <2>1 DEF IsQueues
  <1>5. n \in 1..Len(pub) /\ IsPrefix(p, Subject(pub[n].at))
        /\ \A i \in 2..Len(qs[p]) : n < qs[p][i]
    <2>1. /\ qs[p][1] \in 1..Len(pub) /\ IsPrefix(p, Subject(pub[qs[p][1]].at))
          /\ \A j \in 1..Len(qs[p]) : 1 < j => qs[p][1] < qs[p][j]
      BY <1>3 DEF Buffers
    <2> QED BY <1>2, <1>3, <2>1
  <1>6. Buffers(pub, new)
    <2> SUFFICES ASSUME NEW q \in DOMAIN qs, NEW i \in 1..Len(new[q])
                 PROVE  /\ new[q][i] \in 1..Len(pub)
                        /\ IsPrefix(q, Subject(pub[new[q][i]].at))
                        /\ \A j \in 1..Len(new[q]) : i < j => new[q][i] < new[q][j]
      BY <1>1 DEF Buffers
    <2>1. CASE q # p
      BY <1>1, <2>1 DEF Buffers
    <2>2. CASE q = p
      <3>1. /\ i \in 1..(Len(qs[p]) - 1)
            /\ \A j \in 1..Len(new[q]) : /\ j + 1 \in 1..Len(qs[p])
                                         /\ new[q][j] = qs[p][j + 1]
                                         /\ i < j => i + 1 < j + 1
        BY <1>2, <1>3, <2>2
      <3>2. \A k \in 1..Len(qs[p]) :
              /\ qs[p][k] \in 1..Len(pub)
              /\ IsPrefix(p, Subject(pub[qs[p][k]].at))
              /\ \A j \in 1..Len(qs[p]) : k < j => qs[p][k] < qs[p][j]
        BY DEF Buffers
      <3> QED BY <2>2, <3>1, <3>2
    <2> QED BY <2>1, <2>2
  <1>7. Held(qs, n)
    BY <1>3 DEF Held
  <1>8. ASSUME NEW x, Held(new, x) PROVE Held(qs, x) /\ x # n
    <2>0. PICK q \in DOMAIN qs : \E i \in 1..Len(new[q]) : new[q][i] = x
      BY <1>1, <1>8 DEF Held
    <2>1. PICK i \in 1..Len(new[q]) : new[q][i] = x
      BY <2>0
    <2>2. CASE q = p
      <3>1. i + 1 \in 1..Len(qs[p]) /\ qs[p][i + 1] = x /\ i + 1 \in 2..Len(qs[p])
        BY <1>2, <1>3, <2>1, <2>2
      <3>2. n < x
        BY <1>5, <3>1
      <3>3. n \in Int
        BY <1>5
      <3> QED BY <3>1, <3>2, <3>3 DEF Held
    <2>3. CASE q # p
      <3>1. i \in 1..Len(qs[q]) /\ qs[q][i] = x
        BY <1>1, <2>1, <2>3
      <3>2. x \in 1..Len(pub) /\ IsPrefix(q, Subject(pub[x].at))
        BY <3>1 DEF Buffers
      <3>3. x # n
        BY <1>5, <2>3, <3>2
      <3> QED BY <3>1, <3>3 DEF Held
    <2> QED BY <2>2, <2>3
  <1>9. ASSUME NEW x, Held(qs, x), x # n PROVE Held(new, x)
    <2>0. PICK q \in DOMAIN qs : \E i \in 1..Len(qs[q]) : qs[q][i] = x
      BY <1>9 DEF Held
    <2>1. PICK i \in 1..Len(qs[q]) : qs[q][i] = x
      BY <2>0
    <2>2. CASE q = p
      <3>1. i # 1
        BY <1>3, <1>9, <2>1, <2>2
      <3>2. i - 1 \in 1..Len(new[p]) /\ new[p][i - 1] = qs[p][i - 1 + 1] /\ i - 1 + 1 = i
        BY <1>2, <1>3, <2>1, <2>2, <3>1
      <3> QED BY <1>1, <2>1, <2>2, <3>2 DEF Held
    <2>3. CASE q # p
      BY <1>1, <2>1, <2>3 DEF Held
    <2> QED BY <2>2, <2>3
  <1> QED BY <1>1, <1>3, <1>4, <1>5, <1>6, <1>7, <1>8, <1>9 DEF new, n

-----------------------------------------------------------------------------
(* The inductive invariant. *)

\* What a session has in each of its phases.
PhaseOK ==
  /\ phase = "connecting" => views = <<>>
  /\ phase \in {"seeding", "live"} => views # <<>>
  /\ phase = "applying" =>
       request \in View /\ TierAllows(request) /\ Len(views) < MaxViews
  /\ phase \in {"connecting", "seeding", "live"} => request = NoRequest
  /\ phase # "applying" => opening = NoQueues
  /\ \A v \in 1..Len(views) : TierAllows(views[v])

\* The NATS subscriptions are those of the cover.
CoverInForce ==
  /\ phase = "applying" => DOMAIN opening \subseteq ClientCover(request)
  /\ phase # "closed" /\ views # <<>> => DOMAIN queues = ClientCover(views[Current])

BuffersOK == Buffers(published, queues) /\ Buffers(published, opening)

\* The fleet is made from position reports.
FleetOK == fleet # 0 => published[fleet].kind = "position"

\* A frame is of a message and a subscription there were, and they match.
Lies(view, m) ==
  /\ \E b \in view.boxes : InBox(b, m.at)
  /\ view.types = {} \/ m.kind \in view.types
FramesOK ==
  \A i \in 1..Len(sent) : /\ sent[i].n \in 1..Len(published)
                          /\ sent[i].view \in 1..Len(views)
                          /\ Lies(views[sent[i].view], published[sent[i].n])
SeedsFirst ==
  /\ phase = "seeding" => \A i \in 1..Len(sent) : sent[i].view # Current
  /\ \A i, j \in 1..Len(sent) :
       i < j /\ sent[j].seed => sent[i].view # sent[j].view

\* No delta goes out twice, and one that went out is not buffered any more.
DeltasDiffer ==
  \A i, j \in 1..Len(sent) :
    ~sent[i].seed /\ ~sent[j].seed /\ sent[i].view = sent[j].view
      /\ sent[i].n = sent[j].n => i = j
SentIsNotHeld ==
  \A i \in 1..Len(sent) :
    ~sent[i].seed /\ sent[i].view = Current => ~Held(queues, sent[i].n)

\* What the client asked for was sent, is buffered or overran a buffer.
Served(n) ==
  \E i \in 1..Len(sent) : ~sent[i].seed /\ sent[i].view = Current /\ sent[i].n = n
Complete ==
  phase # "closed" /\ views # <<>> =>
    \A n \in 1..Len(published) :
      n > since /\ Matches(views[Current], n) =>
        Served(n) \/ Held(queues, n) \/ n \in overrun

IInv ==
  /\ TypeOK /\ PhaseOK /\ CoverInForce /\ BuffersOK /\ FleetOK
  /\ FramesOK /\ SeedsFirst /\ DeltasDiffer /\ SentIsNotHeld /\ Complete

LEMMA NoQueuesFacts ==
  /\ DOMAIN NoQueues = {} /\ IsQueues(NoQueues)
  /\ \A pub : Buffers(pub, NoQueues)
  /\ \A n, at : Buffered(NoQueues, n, at) = NoQueues
  /\ \A n : ~Held(NoQueues, n)
  <1>1. DOMAIN NoQueues = {}
    BY DEF NoQueues
  <1>2. \A n, at : Buffered(NoQueues, n, at) = NoQueues
    BY <1>1 DEF Buffered, NoQueues
  <1> QED BY <1>1, <1>2 DEF IsQueues, Buffers, Held

LEMMA CurrentTyped ==
  ASSUME TypeOK, views # <<>>
  PROVE  Current \in 1..Len(views) /\ views[Current] \in View
  BY DEF TypeOK, Current

THEOREM Initially == Init => IInv
  <1> SUFFICES ASSUME Init PROVE IInv
    OBVIOUS
  <1> USE DEF Init
  <1>1. TypeOK
    BY NoQueuesFacts, FanoutBounds DEF TypeOK
  <1>2. PhaseOK /\ CoverInForce /\ BuffersOK /\ FleetOK
    BY NoQueuesFacts DEF PhaseOK, CoverInForce, BuffersOK, FleetOK
  <1>3. FramesOK /\ SeedsFirst /\ DeltasDiffer /\ SentIsNotHeld /\ Complete
    BY DEF FramesOK, SeedsFirst, DeltasDiffer, SentIsNotHeld, Complete
  <1> QED BY <1>1, <1>2, <1>3 DEF IInv

LEMMA PublishStep == ASSUME IInv, Publish PROVE IInv'
  <1> DEFINE n == Len(published) + 1
  <1>1. PICK m \in Message :
          /\ published' = Append(published, m)
          /\ queues' = Buffered(queues, n, m.at)
          /\ opening' = Buffered(opening, n, m.at)
          /\ overrun' = IF Lost(queues, m.at) THEN overrun \cup {n} ELSE overrun
    BY DEF Publish
  <1>2. /\ Len(published) < MaxMessages /\ phase # "closed"
        /\ fleet' = fleet /\ phase' = phase /\ request' = request
        /\ views' = views /\ since' = since /\ sent' = sent
    BY DEF Publish
  <1>3. /\ published \in Seq(Message) /\ IsQueues(queues) /\ IsQueues(opening)
        /\ Buffers(published, queues) /\ Buffers(published, opening)
    BY DEF IInv, TypeOK, BuffersOK
  <1>4. /\ published' \in Seq(Message) /\ Len(published') = n /\ published'[n] = m
        /\ \A k \in 1..Len(published) : published'[k] = published[k] /\ k \in 1..n
        /\ Len(published) \in Nat /\ n \in Number
        /\ 1..n = 1..Len(published) \cup {n}
    BY <1>1, <1>2, <1>3, FanoutBounds DEF Number
  <1>5. /\ DOMAIN queues' = DOMAIN queues /\ IsQueues(queues')
        /\ Buffers(published', queues')
        /\ \A x \in 1..Len(published) : Held(queues', x) <=> Held(queues, x)
        /\ \A p \in DOMAIN queues :
             IsPrefix(p, Subject(m.at)) /\ Len(queues[p]) < Buffer => Held(queues', n)
    BY <1>1, <1>2, <1>3, MessageBuffered
  <1>6. /\ DOMAIN opening' = DOMAIN opening /\ IsQueues(opening')
        /\ Buffers(published', opening')
    BY <1>1, <1>2, <1>3, MessageBuffered
  <1> HIDE DEF n
  <1>7. TypeOK'
    <2>1. /\ Len(published') <= MaxMessages /\ 0..Len(published) \subseteq 0..Len(published')
      BY <1>2, <1>4, FanoutBounds DEF n
    <2>2. overrun' \subseteq Number
      BY <1>1, <1>4 DEF IInv, TypeOK
    <2> QED BY <1>2, <1>4, <1>5, <1>6, <2>1, <2>2 DEF IInv, TypeOK
  <1>8. PhaseOK'
    <2>1. opening = NoQueues => opening' = NoQueues
      BY <1>1, NoQueuesFacts
    <2> QED BY <1>2, <2>1 DEF IInv, PhaseOK, TierAllows
  <1>9. CoverInForce'
    BY <1>2, <1>5, <1>6 DEF IInv, CoverInForce, Current
  <1>10. BuffersOK'
    BY <1>5, <1>6 DEF BuffersOK
  <1>11. FleetOK'
    BY <1>2, <1>4 DEF IInv, FleetOK, TypeOK
  <1>12. FramesOK'
    BY <1>2, <1>4 DEF IInv, FramesOK, Lies
  <1>13. SeedsFirst' /\ DeltasDiffer'
    BY <1>2 DEF IInv, SeedsFirst, DeltasDiffer, Current
  <1>14. SentIsNotHeld'
    <2>1. \A i \in 1..Len(sent) : sent[i].n \in 1..Len(published)
      BY DEF IInv, FramesOK
    <2> QED BY <1>2, <1>5, <2>1 DEF IInv, SentIsNotHeld, Current
  <1>15. Complete'
    <2> SUFFICES ASSUME views # <<>>, NEW x \in 1..n, x > since,
                        Matches(views[Current], x)'
                 PROVE  (Served(x) \/ Held(queues, x) \/ x \in overrun)'
      BY <1>2, <1>4 DEF Complete
    <2>1. Passes(views[Current], published'[x].at, published'[x].kind)
      BY <1>2 DEF Matches, Current
    <2>2. CASE x \in 1..Len(published)
      <3>1. Matches(views[Current], x)
        BY <1>4, <2>1, <2>2 DEF Matches
      <3>2. Served(x) \/ Held(queues, x) \/ x \in overrun
        BY <1>2, <2>2, <3>1 DEF IInv, Complete
      <3> QED BY <1>1, <1>2, <1>5, <2>2, <3>2 DEF Served, Current
    <2>3. CASE x = n
      <3>1. Passes(views[Current], m.at, m.kind)
        BY <1>4, <2>1, <2>3
      <3>2. PICK b \in views[Current].boxes : InBox(b, m.at)
        BY <3>1 DEF Passes
      <3>3. m.at \in Position /\ m.at # Nowhere
        BY <3>1 DEF Passes, Message
      <3>4. views[Current] \in View
        BY CurrentTyped DEF IInv
      <3>5. PICK p \in ClientCover(views[Current]) : IsPrefix(p, Subject(m.at))
        BY <3>2, <3>3, <3>4, Subscribed
      <3>6. p \in DOMAIN queues
        BY <1>2 DEF IInv, CoverInForce
      <3>7. CASE Len(queues[p]) < Buffer
        BY <1>5, <2>3, <3>5, <3>6, <3>7
      <3>8. CASE ~(Len(queues[p]) < Buffer)
        <4>1. Len(queues[p]) \in Nat /\ Buffer \in Nat
          BY <1>3, <3>6, FanoutAssumption DEF IsQueues
        <4>2. Lost(queues, m.at)
          BY <3>5, <3>6, <3>8, <4>1 DEF Lost
        <4> QED BY <1>1, <2>3, <4>2
      <3> QED BY <3>7, <3>8
    <2> QED BY <1>4, <2>2, <2>3
  <1> QED BY <1>7, <1>8, <1>9, <1>10, <1>11, <1>12, <1>13, <1>14, <1>15 DEF IInv

LEMMA RefreshStep == ASSUME IInv, Refresh PROVE IInv'
  <1>1. /\ published' = published /\ phase' = phase /\ request' = request
        /\ opening' = opening /\ queues' = queues /\ views' = views
        /\ since' = since /\ overrun' = overrun /\ sent' = sent
    BY DEF Refresh
  <1>2. PICK n \in 0..Len(published) :
          (n # 0 => published[n].kind = "position") /\ fleet' = n
    BY DEF Refresh
  <1>3. TypeOK'
    BY <1>1, <1>2 DEF IInv, TypeOK
  <1>4. FleetOK'
    BY <1>1, <1>2 DEF FleetOK
  <1>5. PhaseOK' /\ CoverInForce' /\ BuffersOK'
    BY <1>1 DEF IInv, PhaseOK, TierAllows, CoverInForce, Current, BuffersOK
  <1>6. FramesOK' /\ SeedsFirst' /\ DeltasDiffer' /\ SentIsNotHeld'
    BY <1>1 DEF IInv, FramesOK, SeedsFirst, DeltasDiffer, SentIsNotHeld, Current
  <1>7. Complete'
    BY <1>1 DEF IInv, Complete, Matches, Served, Current
  <1> QED BY <1>3, <1>4, <1>5, <1>6, <1>7 DEF IInv

LEMMA ApplyStep == ASSUME IInv, NEW view \in View, Apply(view) PROVE IInv'
  <1>1. /\ published' = published /\ fleet' = fleet /\ opening' = opening
        /\ queues' = queues /\ views' = views /\ since' = since
        /\ overrun' = overrun /\ sent' = sent
    BY DEF Apply
  <1>2. /\ phase \in {"connecting", "live"} /\ phase' = "applying"
        /\ request' = view /\ TierAllows(view) /\ Len(views) < MaxViews
    BY DEF Apply
  <1>3. TypeOK'
    BY <1>1, <1>2 DEF IInv, TypeOK
  <1>4. PhaseOK'
    BY <1>1, <1>2 DEF IInv, PhaseOK, TierAllows
  <1>5. CoverInForce'
    <2>1. DOMAIN opening' = {}
      BY <1>1, <1>2, NoQueuesFacts DEF IInv, PhaseOK
    <2> QED BY <1>1, <1>2, <2>1 DEF IInv, CoverInForce, Current
  <1>6. BuffersOK' /\ FleetOK'
    BY <1>1 DEF IInv, BuffersOK, FleetOK
  <1>7. FramesOK' /\ SeedsFirst' /\ DeltasDiffer' /\ SentIsNotHeld'
    BY <1>1, <1>2 DEF IInv, FramesOK, SeedsFirst, DeltasDiffer, SentIsNotHeld, Current
  <1>8. Complete'
    BY <1>1, <1>2 DEF IInv, Complete, Matches, Served, Current
  <1> QED BY <1>3, <1>4, <1>5, <1>6, <1>7, <1>8 DEF IInv

LEMMA SubscribeStep == ASSUME IInv, Subscribe PROVE IInv'
  <1>1. /\ published' = published /\ fleet' = fleet /\ phase' = phase
        /\ request' = request /\ queues' = queues /\ views' = views
        /\ since' = since /\ overrun' = overrun /\ sent' = sent
    BY DEF Subscribe
  <1>2. phase = "applying" /\ request \in View
    BY DEF Subscribe, IInv, PhaseOK
  <1>3. PICK p \in ClientCover(request) \ DOMAIN opening :
          opening' = [q \in DOMAIN opening \cup {p} |->
                        IF q = p THEN <<>> ELSE opening[q]]
    BY DEF Subscribe
  <1>4. /\ DOMAIN opening' = DOMAIN opening \cup {p} /\ opening'[p] = <<>>
        /\ \A q \in DOMAIN opening : opening'[q] = opening[q]
    BY <1>3
  <1>5. p \in Prefix
    <2>1. p \in Seq(Character) /\ Len(p) <= CoverPrecision
      BY <1>2, ClientCoverTyped
    <2>2. Len(p) \in 0..CoverPrecision /\ p \in [1..Len(p) -> Character]
      BY <2>1, GeoAssumption
    <2> QED BY <2>2 DEF Prefix
  <1>6. IsQueues(opening')
    <2>1. IsQueues(opening) /\ <<>> \in Seq(Number) /\ Len(<<>>) <= Buffer
      BY FanoutAssumption DEF IInv, TypeOK
    <2>2. DOMAIN opening' \subseteq Prefix
      BY <1>4, <1>5, <2>1 DEF IsQueues
    <2>3. \A q \in DOMAIN opening' : opening'[q] \in Seq(Number) /\ Len(opening'[q]) <= Buffer
      BY <1>4, <2>1 DEF IsQueues
    <2> QED BY <2>2, <2>3 DEF IsQueues
  <1>7. TypeOK'
    BY <1>1, <1>6 DEF IInv, TypeOK
  <1>8. PhaseOK'
    BY <1>1, <1>2 DEF IInv, PhaseOK, TierAllows
  <1>9. CoverInForce'
    BY <1>1, <1>3, <1>4 DEF IInv, CoverInForce, Current
  <1>10. BuffersOK'
    <2>1. Buffers(published, opening)
      BY DEF IInv, BuffersOK
    <2>2. Buffers(published', opening')
      <3> SUFFICES ASSUME NEW q \in DOMAIN opening', NEW i \in 1..Len(opening'[q])
                   PROVE  /\ opening'[q][i] \in 1..Len(published)
                          /\ IsPrefix(q, Subject(published[opening'[q][i]].at))
                          /\ \A j \in 1..Len(opening'[q]) :
                               i < j => opening'[q][i] < opening'[q][j]
        BY <1>1 DEF Buffers
      <3>1. q # p
        BY <1>4
      <3>2. q \in DOMAIN opening /\ opening'[q] = opening[q]
        BY <1>4, <3>1
      <3> QED BY <2>1, <3>2 DEF Buffers
    <2> QED BY <1>1, <2>2 DEF IInv, BuffersOK
  <1>11. FleetOK' /\ FramesOK' /\ SeedsFirst' /\ DeltasDiffer' /\ SentIsNotHeld'
    BY <1>1 DEF IInv, FleetOK, FramesOK, SeedsFirst, DeltasDiffer, SentIsNotHeld, Current
  <1>12. Complete'
    BY <1>1 DEF IInv, Complete, Matches, Served, Current
  <1> QED BY <1>7, <1>8, <1>9, <1>10, <1>11, <1>12 DEF IInv

LEMMA AppliedStep == ASSUME IInv, Applied PROVE IInv'
  <1>1. /\ published' = published /\ fleet' = fleet /\ sent' = sent
        /\ queues' = opening /\ opening' = NoQueues /\ request' = NoRequest
        /\ views' = Append(views, request) /\ since' = Len(published)
        /\ overrun' = {} /\ phase' = IF request.seed THEN "seeding" ELSE "live"
    BY DEF Applied
  <1>2. /\ phase = "applying" /\ request \in View /\ TierAllows(request)
        /\ DOMAIN opening = ClientCover(request)
    BY DEF Applied, IInv, PhaseOK
  <1>3. /\ views \in Seq(View) /\ Len(views') = Len(views) + 1
        /\ Len(views) \in Nat /\ views' # <<>>
        /\ views'[Len(views) + 1] = request
        /\ \A v \in 1..Len(views) : views'[v] = views[v] /\ v \in 1..Len(views')
    <2>1. views \in Seq(View) /\ request \in View /\ views' = Append(views, request)
      BY <1>1, <1>2 DEF IInv, TypeOK
    <2> QED BY <2>1
  <1>4. phase' \in {"seeding", "live"}
    BY <1>1
  <1>5. Current' = Len(views) + 1 /\ views'[Current'] = request
    BY <1>3 DEF Current
  <1>6. \A i \in 1..Len(sent) : sent[i].view # Current'
    <2>1. \A i \in 1..Len(sent) : sent[i].view \in 1..Len(views)
      BY DEF IInv, FramesOK
    <2> QED BY <1>3, <1>5, <2>1
  <1>7. TypeOK'
    <2>1. views' \in Seq(View) /\ Len(views') <= MaxViews
      <3>1. Append(views, request) \in Seq(View)
        BY <1>2, <1>3
      <3>2. Len(views) < MaxViews
        BY <1>2 DEF IInv, PhaseOK
      <3> QED BY <1>1, <1>3, <3>1, <3>2, FanoutBounds
    <2>2. since' \in 0..Len(published')
      BY <1>1 DEF IInv, TypeOK
    <2> QED BY <1>1, <1>4, <2>1, <2>2, NoQueuesFacts DEF IInv, TypeOK
  <1>8. PhaseOK'
    <2>1. ASSUME NEW v \in 1..Len(views') PROVE TierAllows(views'[v])
      <3>1. CASE v \in 1..Len(views)
        BY <1>3, <3>1 DEF IInv, PhaseOK
      <3>2. CASE v = Len(views) + 1
        BY <1>2, <1>3, <3>2
      <3> QED BY <1>3, <3>1, <3>2
    <2>2. \A v \in 1..Len(views') : TierAllows(views[v])'
      BY <2>1 DEF TierAllows
    <2> QED BY <1>1, <1>3, <1>4, <2>2 DEF PhaseOK
  <1>9. CoverInForce'
    BY <1>1, <1>2, <1>4, <1>5 DEF CoverInForce
  <1>10. BuffersOK' /\ FleetOK'
    BY <1>1, NoQueuesFacts DEF IInv, BuffersOK, FleetOK
  <1>11. FramesOK'
    BY <1>1, <1>3 DEF IInv, FramesOK
  <1>12. SeedsFirst' /\ DeltasDiffer' /\ SentIsNotHeld'
    BY <1>1, <1>6 DEF IInv, SeedsFirst, DeltasDiffer, SentIsNotHeld
  <1>13. Complete'
    BY <1>1 DEF IInv, TypeOK, Complete
  <1> QED BY <1>7, <1>8, <1>9, <1>10, <1>11, <1>12, <1>13 DEF IInv

LEMMA SubscribeFailsStep == ASSUME IInv, SubscribeFails PROVE IInv'
  <1>1. /\ published' = published /\ fleet' = fleet /\ queues' = queues
        /\ views' = views /\ since' = since /\ overrun' = overrun /\ sent' = sent
        /\ opening' = NoQueues /\ request' = NoRequest
    BY DEF SubscribeFails
  <1>2. phase = "applying" /\ phase' = IF views = <<>> THEN "closed" ELSE "live"
    BY DEF SubscribeFails
  <1>3. TypeOK'
    BY <1>1, <1>2, NoQueuesFacts DEF IInv, TypeOK
  <1>4. PhaseOK'
    BY <1>1, <1>2 DEF IInv, PhaseOK, TierAllows
  <1>5. CoverInForce' /\ BuffersOK' /\ FleetOK'
    BY <1>1, <1>2, NoQueuesFacts DEF IInv, CoverInForce, BuffersOK, FleetOK, Current
  <1>6. FramesOK' /\ SeedsFirst' /\ DeltasDiffer' /\ SentIsNotHeld'
    BY <1>1, <1>2 DEF IInv, FramesOK, SeedsFirst, DeltasDiffer, SentIsNotHeld, Current
  <1>7. Complete'
    BY <1>1, <1>2 DEF IInv, Complete, Matches, Served, Current
  <1> QED BY <1>3, <1>4, <1>5, <1>6, <1>7 DEF IInv

LEMMA DisconnectStep == ASSUME IInv, Disconnect PROVE IInv'
  <1>1. /\ published' = published /\ fleet' = fleet /\ request' = request
        /\ views' = views /\ since' = since /\ overrun' = overrun /\ sent' = sent
        /\ opening' = NoQueues /\ queues' = NoQueues /\ phase' = "closed"
    BY DEF Disconnect
  <1>2. TypeOK'
    BY <1>1, NoQueuesFacts DEF IInv, TypeOK
  <1>3. PhaseOK' /\ CoverInForce' /\ BuffersOK' /\ FleetOK'
    BY <1>1, NoQueuesFacts
    DEF IInv, PhaseOK, TierAllows, CoverInForce, BuffersOK, FleetOK, Current
  <1>4. FramesOK' /\ SeedsFirst' /\ DeltasDiffer'
    BY <1>1 DEF IInv, FramesOK, SeedsFirst, DeltasDiffer, Current
  <1>5. SentIsNotHeld' /\ Complete'
    BY <1>1, NoQueuesFacts DEF SentIsNotHeld, Complete
  <1> QED BY <1>2, <1>3, <1>4, <1>5 DEF IInv

\* The frames after one more, or none.
FrameSet == [n : Number, seed : BOOLEAN, view : 1..MaxViews]
WithFrame(s, e, goes) == IF goes THEN Append(s, e) ELSE s

LEMMA FramesAppended ==
  ASSUME NEW s \in Seq(FrameSet), NEW e, NEW goes \in BOOLEAN, goes => e \in FrameSet
  PROVE  LET t == WithFrame(s, e, goes)
         IN  /\ t \in Seq(FrameSet)
             /\ \A i \in 1..Len(s) : i \in 1..Len(t) /\ t[i] = s[i]
             /\ \A i \in 1..Len(t) :
                  \/ i \in 1..Len(s) /\ t[i] = s[i]
                  \/ i = Len(t) /\ t[i] = e /\ goes /\ i \notin 1..Len(s)
             /\ goes => Len(t) \in 1..Len(t) /\ t[Len(t)] = e
  <1>1. CASE goes
    <2> DEFINE t == Append(s, e)
    <2>1. WithFrame(s, e, goes) = t /\ e \in FrameSet
      BY <1>1 DEF WithFrame
    <2>2. /\ t \in Seq(FrameSet) /\ Len(t) = Len(s) + 1 /\ Len(s) \in Nat
          /\ \A i \in 1..Len(s) : t[i] = s[i]
          /\ t[Len(s) + 1] = e
      BY <2>1
    <2> HIDE DEF t
    <2>3. \A i \in 1..Len(t) :
            i \in 1..Len(s) \/ (i = Len(t) /\ i = Len(s) + 1 /\ i \notin 1..Len(s))
      BY <2>2
    <2>4. \A i \in 1..Len(s) : i \in 1..Len(t)
      BY <2>2
    <2>5. Len(t) \in 1..Len(t) /\ t[Len(t)] = e
      BY <2>2
    <2> QED BY <1>1, <2>1, <2>2, <2>3, <2>4, <2>5
  <1>2. CASE ~goes
    BY <1>2 DEF WithFrame
  <1> QED BY <1>1, <1>2

LEMMA SeedStep == ASSUME IInv, Seed PROVE IInv'
  <1> DEFINE frame == Frame(fleet, TRUE)
             goes == fleet # 0 /\ MatchesSeed(views[Current], fleet)
  <1>1. /\ published' = published /\ fleet' = fleet /\ request' = request
        /\ opening' = opening /\ queues' = queues /\ views' = views
        /\ since' = since /\ overrun' = overrun
    BY DEF Seed
  <1>2. /\ phase = "seeding" /\ phase' = "live"
        /\ sent' = WithFrame(sent, frame, goes)
    BY DEF Seed, Current, WithFrame
  <1>3. views # <<>> /\ Current \in 1..Len(views) /\ Current \in 1..MaxViews
    <2>1. views # <<>>
      BY <1>2 DEF IInv, PhaseOK
    <2>2. views \in Seq(View) /\ Len(views) <= MaxViews
      BY DEF IInv, TypeOK
    <2>3. Current \in 1..Len(views)
      BY <2>1, <2>2 DEF Current
    <2> QED BY <2>1, <2>2, <2>3, FanoutBounds
  <1>4. /\ frame.n = fleet /\ frame.seed = TRUE /\ frame.view = Current
        /\ goes => frame \in FrameSet
    <2>1. fleet # 0 => fleet \in Number
      BY FanoutBounds DEF IInv, TypeOK, Number
    <2> QED BY <1>3, <2>1 DEF Frame, Current, FrameSet
  <1>5. goes => /\ fleet \in 1..Len(published)
                /\ Lies(views[Current], published[fleet])
    <2>1. fleet # 0 => fleet \in 1..Len(published) /\ published[fleet].kind = "position"
      BY DEF IInv, TypeOK, FleetOK
    <2> QED BY <2>1 DEF MatchesSeed, Passes, Lies
  <1>6. \A i \in 1..Len(sent) : sent[i].view # Current
    BY <1>2 DEF IInv, SeedsFirst
  <1>7. sent \in Seq(FrameSet)
    BY DEF IInv, TypeOK, FrameSet
  <1> HIDE DEF frame, goes
  <1>0. goes \in BOOLEAN
    BY DEF goes
  <1>8. /\ sent' \in Seq(FrameSet)
        /\ \A i \in 1..Len(sent) : i \in 1..Len(sent') /\ sent'[i] = sent[i]
        /\ \A i \in 1..Len(sent') :
             \/ i \in 1..Len(sent) /\ sent'[i] = sent[i]
             \/ i = Len(sent') /\ sent'[i] = frame /\ goes /\ i \notin 1..Len(sent)
    BY <1>0, <1>2, <1>4, <1>7, FramesAppended
  <1>9. TypeOK'
    BY <1>1, <1>2, <1>8 DEF IInv, TypeOK, FrameSet
  <1>10. PhaseOK' /\ CoverInForce' /\ BuffersOK' /\ FleetOK'
    BY <1>1, <1>2, <1>3 DEF IInv, PhaseOK, TierAllows, CoverInForce, Current, BuffersOK, FleetOK
  <1>11. FramesOK'
    BY <1>1, <1>3, <1>4, <1>5, <1>8 DEF IInv, FramesOK
  <1>12. SeedsFirst'
    <2>1. ASSUME NEW i \in 1..Len(sent'), NEW j \in 1..Len(sent'), i < j, sent'[j].seed
          PROVE  sent'[i].view # sent'[j].view
      <3>1. i \in 1..Len(sent) /\ sent'[i] = sent[i]
        BY <1>8, <2>1
      <3>2. CASE j \in 1..Len(sent) /\ sent'[j] = sent[j]
        BY <2>1, <3>1, <3>2 DEF IInv, SeedsFirst
      <3>3. CASE sent'[j] = frame
        BY <1>4, <1>6, <3>1, <3>3
      <3> QED BY <1>8, <3>2, <3>3
    <2> QED BY <1>2, <2>1 DEF SeedsFirst
  <1>13. DeltasDiffer'
    BY <1>4, <1>8 DEF IInv, DeltasDiffer
  <1>14. SentIsNotHeld'
    <2>1. \A i \in 1..Len(sent') : ~sent'[i].seed => i \in 1..Len(sent) /\ sent'[i] = sent[i]
      BY <1>4, <1>8
    <2> QED BY <1>1, <2>1 DEF IInv, SentIsNotHeld, Current
  <1>15. Complete'
    <2>1. \A n : Served(n) => Served(n)'
      BY <1>1, <1>8 DEF Served, Current
    <2> QED BY <1>1, <1>2, <2>1 DEF IInv, Complete, Matches, Current
  <1> QED BY <1>9, <1>10, <1>11, <1>12, <1>13, <1>14, <1>15 DEF IInv

LEMMA ForwardStep == ASSUME IInv, Forward PROVE IInv'
  <1>1. /\ published' = published /\ fleet' = fleet /\ phase' = phase
        /\ request' = request /\ opening' = opening /\ views' = views
        /\ since' = since /\ overrun' = overrun /\ phase = "live"
    BY DEF Forward
  <1>2. PICK p \in DOMAIN queues :
          /\ queues[p] # <<>>
          /\ queues' = [queues EXCEPT ![p] = Tail(@)]
          /\ sent' = IF Matches(views[Current], Head(queues[p]))
                       THEN Append(sent, Frame(Head(queues[p]), FALSE)) ELSE sent
    BY DEF Forward, Current
  <1> DEFINE n == Head(queues[p])
             frame == Frame(n, FALSE)
             goes == Matches(views[Current], n)
  <1>3. views # <<>> /\ Current \in 1..Len(views) /\ Current \in 1..MaxViews
        /\ views[Current] \in View
    <2>1. views # <<>>
      BY <1>1 DEF IInv, PhaseOK
    <2>2. views \in Seq(View) /\ Len(views) <= MaxViews
      BY DEF IInv, TypeOK
    <2>3. Current \in 1..Len(views)
      BY <2>1, <2>2 DEF Current
    <2> QED BY <2>1, <2>2, <2>3, FanoutBounds
  <1>4. DOMAIN queues = ClientCover(views[Current])
    BY <1>1, <1>3 DEF IInv, CoverInForce
  <1>5. ASSUME NEW q \in DOMAIN queues, NEW x \in 1..Len(published),
               IsPrefix(p, Subject(published[x].at)), IsPrefix(q, Subject(published[x].at))
        PROVE  p = q
    <2>1. published[x].at \in Position \cup {Nowhere}
      <3>1. published[x] \in Message
        BY DEF IInv, TypeOK
      <3> QED BY <3>1 DEF Message
    <2> QED BY <1>3, <1>4, <1>5, <2>1, OneSubscription
  <1>6. /\ DOMAIN queues' = DOMAIN queues /\ IsQueues(queues')
        /\ Buffers(published, queues')
        /\ n \in 1..Len(published) /\ n \in Number /\ Held(queues, n)
        /\ \A x : Held(queues', x) <=> Held(queues, x) /\ x # n
    <2>1. IsQueues(queues) /\ Buffers(published, queues) /\ Len(published) \in Nat
      BY DEF IInv, TypeOK, BuffersOK
    <2> QED BY <1>2, <1>5, <2>1, MessageTaken
  <1>7. /\ frame.n = n /\ frame.seed = FALSE /\ frame.view = Current
        /\ frame \in FrameSet
    <2> HIDE DEF n
    <2> QED BY <1>3, <1>6 DEF Frame, Current, FrameSet
  <1>8. goes => Lies(views[Current], published[n])
    BY DEF Matches, Passes, Lies
  <1>9. sent \in Seq(FrameSet)
    BY DEF IInv, TypeOK, FrameSet
  <1>10. sent' = WithFrame(sent, frame, goes)
    BY <1>2 DEF WithFrame
  <1> HIDE DEF n, frame, goes
  <1>0. goes \in BOOLEAN
    BY DEF goes, Matches, Passes
  <1>11. /\ sent' \in Seq(FrameSet)
         /\ \A i \in 1..Len(sent) : i \in 1..Len(sent') /\ sent'[i] = sent[i]
         /\ \A i \in 1..Len(sent') :
              \/ i \in 1..Len(sent) /\ sent'[i] = sent[i]
              \/ i = Len(sent') /\ sent'[i] = frame /\ goes /\ i \notin 1..Len(sent)
         /\ goes => Len(sent') \in 1..Len(sent') /\ sent'[Len(sent')] = frame
    BY <1>0, <1>7, <1>9, <1>10, FramesAppended
  <1>12. TypeOK'
    BY <1>1, <1>6, <1>11 DEF IInv, TypeOK, FrameSet
  <1>13. PhaseOK' /\ CoverInForce' /\ BuffersOK' /\ FleetOK'
    BY <1>1, <1>3, <1>6
    DEF IInv, PhaseOK, TierAllows, CoverInForce, Current, BuffersOK, FleetOK
  <1>14. FramesOK'
    BY <1>1, <1>3, <1>6, <1>7, <1>8, <1>11 DEF IInv, FramesOK
  <1>15. SeedsFirst'
    <2>1. ASSUME NEW i \in 1..Len(sent'), NEW j \in 1..Len(sent'), i < j, sent'[j].seed
          PROVE  sent'[i].view # sent'[j].view
      <3>1. j \in 1..Len(sent) /\ sent'[j] = sent[j]
        BY <1>7, <1>11, <2>1
      <3>2. i \in 1..Len(sent) /\ sent'[i] = sent[i]
        BY <1>11, <2>1, <3>1
      <3> QED BY <2>1, <3>1, <3>2 DEF IInv, SeedsFirst
    <2> QED BY <1>1, <2>1 DEF SeedsFirst
  \* What was held had not been sent.
  <1>16. \A i \in 1..Len(sent) :
           ~sent[i].seed /\ sent[i].view = Current => sent[i].n # n
    BY <1>6 DEF IInv, SentIsNotHeld
  <1>17. DeltasDiffer'
    BY <1>7, <1>11, <1>16 DEF IInv, DeltasDiffer
  <1>18. SentIsNotHeld'
    <2> SUFFICES ASSUME NEW i \in 1..Len(sent'), ~sent'[i].seed, sent'[i].view = Current
                 PROVE  ~Held(queues', sent'[i].n)
      BY <1>1 DEF SentIsNotHeld, Current
    <2>1. CASE i \in 1..Len(sent) /\ sent'[i] = sent[i]
      BY <1>6, <2>1 DEF IInv, SentIsNotHeld
    <2>2. CASE sent'[i] = frame
      BY <1>6, <1>7, <2>2
    <2> QED BY <1>11, <2>1, <2>2
  <1>19. Complete'
    <2> SUFFICES ASSUME NEW x \in 1..Len(published), x > since,
                        Matches(views[Current], x)
                 PROVE  (Served(x) \/ Held(queues, x) \/ x \in overrun)'
      BY <1>1 DEF Complete, Matches, Current
    <2>1. Served(x) \/ Held(queues, x) \/ x \in overrun
      BY <1>1, <1>3 DEF IInv, Complete
    <2>2. CASE Served(x)
      BY <1>1, <1>11, <2>2 DEF Served, Current
    <2>3. CASE Held(queues, x) /\ x # n
      BY <1>6, <2>3
    <2>4. CASE x = n
      <3>1. goes
        BY <2>4 DEF goes
      <3> QED BY <1>1, <1>7, <1>11, <2>4, <3>1 DEF Served, Current
    <2>5. CASE x \in overrun
      BY <1>1, <2>5
    <2> QED BY <2>1, <2>2, <2>3, <2>4, <2>5
  <1> QED BY <1>12, <1>13, <1>14, <1>15, <1>17, <1>18, <1>19 DEF IInv

LEMMA StutterStep == ASSUME IInv, UNCHANGED vars PROVE IInv'
  <1>1. /\ published' = published /\ fleet' = fleet /\ phase' = phase
        /\ request' = request /\ opening' = opening /\ queues' = queues
        /\ views' = views /\ since' = since /\ overrun' = overrun /\ sent' = sent
    BY DEF vars
  <1>2. TypeOK' /\ PhaseOK' /\ CoverInForce' /\ BuffersOK' /\ FleetOK'
    BY <1>1 DEF IInv, TypeOK, PhaseOK, TierAllows, CoverInForce, BuffersOK, FleetOK, Current
  <1>3. FramesOK' /\ SeedsFirst' /\ DeltasDiffer' /\ SentIsNotHeld' /\ Complete'
    BY <1>1
    DEF IInv, FramesOK, SeedsFirst, DeltasDiffer, SentIsNotHeld, Complete, Served,
        Matches, Current
  <1> QED BY <1>2, <1>3 DEF IInv

\* The parts of the invariant are inductive together.
THEOREM Inductive == Spec => []IInv
  <1>1. ASSUME IInv, [Next]_vars PROVE IInv'
    <2>1. CASE Publish \/ Refresh
      BY <1>1, <2>1, PublishStep, RefreshStep
    <2>2. CASE \E view \in View : Apply(view)
      BY <1>1, <2>2, ApplyStep
    <2>3. CASE Subscribe \/ Applied \/ SubscribeFails
      BY <1>1, <2>3, SubscribeStep, AppliedStep, SubscribeFailsStep
    <2>4. CASE Seed \/ Forward \/ Disconnect
      BY <1>1, <2>4, SeedStep, ForwardStep, DisconnectStep
    <2>5. CASE UNCHANGED vars
      BY <1>1, <2>5, StutterStep
    <2> QED BY <1>1, <2>1, <2>2, <2>3, <2>4, <2>5 DEF Next
  <1> QED BY Initially, <1>1, PTL DEF Spec

-----------------------------------------------------------------------------
(* What the invariant gives. *)

\* Every variable keeps to its type.
THEOREM Typed == Spec => []TypeOK
  <1>1. IInv => TypeOK
    BY DEF IInv
  <1> QED BY <1>1, Inductive, PTL

\* The covers of all boxes are sound, not only those of a small world: within
\* the budget, without a gap, without an overlap.
THEOREM SoundInEveryWorld == SoundCovers
  <1> SUFFICES ASSUME NEW lo \in Places, NEW hi \in Places
               PROVE  SoundCover(FromCorners(lo, hi))
    BY DEF SoundCovers
  <1>1. IsBox(FromCorners(lo, hi))
    <2>1. /\ lo[1] \in Int /\ lo[2] \in Int /\ hi[1] \in Int /\ hi[2] \in Int
          /\ Side \in Int
      BY SideTyped DEF Places
    <2>2. /\ FromCorners(lo, hi).lo = <<Clamp(Lower(lo[1], hi[1])), Clamp(Lower(lo[2], hi[2]))>>
          /\ FromCorners(lo, hi).hi = <<Clamp(Upper(lo[1], hi[1])), Clamp(Upper(lo[2], hi[2]))>>
      BY DEF FromCorners
    <2>3. \A a, b \in Int : Clamp(Lower(a, b)) \in Int /\ Clamp(Upper(a, b)) \in Int
      BY <2>1 DEF Clamp, Lower, Upper
    <2> DEFINE box == FromCorners(lo, hi)
    <2> HIDE DEF box
    <2>4. \E a, b, c, d \in Int : box.lo = <<a, b>> /\ box.hi = <<c, d>>
      <3>1. /\ Clamp(Lower(lo[1], hi[1])) \in Int /\ Clamp(Lower(lo[2], hi[2])) \in Int
            /\ Clamp(Upper(lo[1], hi[1])) \in Int /\ Clamp(Upper(lo[2], hi[2])) \in Int
        BY <2>1, <2>3
      <3> QED BY <2>2, <3>1, Zenon DEF box
    <2>5. \A k \in 1..2 : k = 1 \/ k = 2
      OBVIOUS
    <2> QED BY <2>4, <2>5 DEF IsBox, box
  <1> QED BY <1>1, CoverIsSound

THEOREM CoversSound == Spec => []CoversAreSound
  <1>1. CoversAreSound
    BY SoundInEveryWorld DEF CoversAreSound
  <1> QED BY <1>1, PTL

\* A frame matches the subscription it was sent under, whatever was buffered,
\* published or seeded while the client changed it; the initial state is first.
THEOREM FramesMatch == Spec => []FramesMatchTheirView
  <1>1. IInv => FramesMatchTheirView
    <2> SUFFICES ASSUME IInv PROVE FramesMatchTheirView
      OBVIOUS
    <2>1. ASSUME NEW i \in 1..Len(sent)
          PROVE  /\ sent[i].view \in 1..Len(views)
                 /\ Lies(views[sent[i].view], published[sent[i].n])
      BY DEF IInv, FramesOK
    <2>2. \A v \in 1..Len(views) : TierAllows(views[v])
      BY DEF IInv, PhaseOK
    <2>3. \A i, j \in 1..Len(sent) :
            i < j /\ sent[j].seed => sent[i].view # sent[j].view
      BY DEF IInv, SeedsFirst
    <2> QED BY <2>1, <2>2, <2>3 DEF FramesMatchTheirView, Lies, TierAllows
  <1> QED BY <1>1, Inductive, PTL

LEMMA AtMostOne ==
  ASSUME NEW S, \A x, y \in S : x = y
  PROVE  IsFiniteSet(S) /\ Cardinality(S) \in 0..1 /\ (Cardinality(S) = 0 <=> S = {})
  <1>1. CASE S = {}
    BY <1>1, FS_EmptySet
  <1>2. CASE S # {}
    <2>1. PICK x \in S : TRUE
      BY <1>2
    <2>2. S = {x}
      BY <2>1
    <2>3. IsFiniteSet({x}) /\ Cardinality({x}) = 1
      BY FS_Singleton
    <2> QED BY <2>2, <2>3
  <1> QED BY <1>1, <1>2

\* A message is sent or buffered once, and not both; one that is asked for is
\* lost to a full buffer only.
THEOREM ExactlyOnce == Spec => []DeltasExactlyOnce
  <1>1. IInv => DeltasExactlyOnce
    <2> SUFFICES ASSUME IInv, phase # "closed", views # <<>>,
                        NEW n \in 1..Len(published)
                 PROVE  /\ Cardinality(Deltas(n)) + Cardinality(Waiting(n)) <= 1
                        /\ n > since /\ Matches(views[Current], n) =>
                             Deltas(n) # {} \/ Waiting(n) # {} \/ n \in overrun
      BY DEF DeltasExactlyOnce
    <2>1. /\ IsQueues(queues) /\ Buffers(published, queues)
          /\ views[Current] \in View /\ DOMAIN queues = ClientCover(views[Current])
          /\ published[n].at \in Position \cup {Nowhere}
      <3>1. published[n] \in Message
        BY DEF IInv, TypeOK
      <3>2. published[n].at \in Position \cup {Nowhere}
        BY <3>1 DEF Message
      <3> QED BY <3>2, CurrentTyped DEF IInv, TypeOK, BuffersOK, CoverInForce
    <2>2. \A p \in DOMAIN queues :
            Len(queues[p]) \in Nat /\ Len(queues[p]) <= Buffer
      BY <2>1 DEF IsQueues
    <2>3. ASSUME NEW w, w \in Waiting(n)
          PROVE  /\ w = <<w[1], w[2]>> /\ w[1] \in DOMAIN queues
                 /\ w[2] \in 1..Len(queues[w[1]]) /\ queues[w[1]][w[2]] = n
                 /\ IsPrefix(w[1], Subject(published[n].at))
      <3>1. /\ w = <<w[1], w[2]>> /\ w[1] \in DOMAIN queues
            /\ w[2] \in 1..Buffer /\ w[2] <= Len(queues[w[1]])
            /\ queues[w[1]][w[2]] = n
        BY <2>3 DEF Waiting
      <3>2. w[2] \in 1..Len(queues[w[1]])
        BY <2>2, <3>1
      <3> QED BY <2>1, <3>1, <3>2 DEF Buffers
    <2>4. ASSUME NEW w \in Waiting(n), NEW v \in Waiting(n) PROVE w = v
      <3>1. w[1] = v[1]
        BY <2>1, <2>3, OneSubscription
      <3>2. w[2] = v[2]
        <4> DEFINE p == w[1]
                   i == w[2]
                   j == v[2]
        <4>1. /\ p \in DOMAIN queues /\ i \in 1..Len(queues[p]) /\ j \in 1..Len(queues[p])
              /\ queues[p][i] = n /\ queues[p][j] = n
          BY <2>3, <3>1
        <4> HIDE DEF p, i, j
        <4>2. ~(i < j) /\ ~(j < i)
          BY <2>1, <4>1 DEF Buffers
        <4>3. i = j
          BY <4>1, <4>2
        <4> QED BY <4>3 DEF i, j
      <3>3. w = <<w[1], w[2]>> /\ v = <<v[1], v[2]>>
        BY <2>3
      <3> QED BY <3>1, <3>2, <3>3
    <2>5. Held(queues, n) <=> Waiting(n) # {}
      <3>1. ASSUME NEW p \in DOMAIN queues, NEW i \in 1..Len(queues[p]), queues[p][i] = n
            PROVE  <<p, i>> \in Waiting(n)
        <4>1. i \in 1..Buffer /\ i <= Len(queues[p])
          BY <2>2, FanoutAssumption
        <4> QED BY <3>1, <4>1 DEF Waiting
      <3>2. Held(queues, n) => Waiting(n) # {}
        BY <3>1 DEF Held
      <3>3. Waiting(n) # {} => Held(queues, n)
        BY <2>3 DEF Held
      <3> QED BY <3>2, <3>3
    <2>6. \A i, j \in Deltas(n) : i = j
      BY DEF IInv, DeltasDiffer, Deltas
    <2>7. Deltas(n) # {} => ~Held(queues, n)
      BY DEF IInv, SentIsNotHeld, Deltas
    <2>8. Cardinality(Deltas(n)) \in 0..1 /\ (Cardinality(Deltas(n)) = 0 <=> Deltas(n) = {})
      BY <2>6, AtMostOne
    <2>9. Cardinality(Waiting(n)) \in 0..1 /\ (Cardinality(Waiting(n)) = 0 <=> Waiting(n) = {})
      BY <2>4, AtMostOne
    <2>10. Cardinality(Deltas(n)) + Cardinality(Waiting(n)) <= 1
      BY <2>5, <2>7, <2>8, <2>9
    <2>11. Served(n) => Deltas(n) # {}
      BY DEF Served, Deltas
    <2>12. n > since /\ Matches(views[Current], n) =>
             Served(n) \/ Held(queues, n) \/ n \in overrun
      BY DEF IInv, Complete
    <2> QED BY <2>5, <2>10, <2>11, <2>12
  <1> QED BY <1>1, Inductive, PTL
=============================================================================
