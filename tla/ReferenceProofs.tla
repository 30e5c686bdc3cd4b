--------------------------- MODULE ReferenceProofs ---------------------------
(***************************************************************************)
(* Machine-checked proofs about the hash set of hash_set.c, for every      *)
(* initial size, threshold and coverage, and about its agreement with the  *)
(* table of the inserted code, whose invariant (CollectorProofs) they use. *)
(***************************************************************************)
EXTENDS CollectorReference, CollectorProofs

SlotsOf(h) == 0 .. h.size - 1

(* The lines that a table has. *)
LinesIn(t, S) == {t[k] : k \in S} \ {0}

(* d is how far a probe for the line goes. *)
FirstProcessed(h, line, d) ==
    Processed(h, line, d) /\ \A x \in 0 .. d - 1 : ~Processed(h, line, x)

(* The fields of a hash set. *)
HashTypes(h) ==
    /\ h = [size |-> h.size, maxElementsBeforeResize |-> h.maxElementsBeforeResize,
            setOfEntries |-> h.setOfEntries, numberOfEntries |-> h.numberOfEntries,
            numberOfCollisions |-> h.numberOfCollisions,
            numberOfDuplicates |-> h.numberOfDuplicates,
            numberOfResizes |-> h.numberOfResizes]
    /\ h.size \in Nat \ {0} /\ h.setOfEntries \in [SlotsOf(h) -> Nat]
    /\ h.numberOfEntries \in Nat /\ h.numberOfCollisions \in Nat
    /\ h.numberOfDuplicates \in Nat /\ h.numberOfResizes \in Nat

(* Every line is where the probe for it ends, and the statistics are right. *)
HashOK(h) ==
    /\ \A k \in SlotsOf(h) :
           h.setOfEntries[k] # 0 =>
               \E d \in SlotsOf(h) : /\ FirstProcessed(h, h.setOfEntries[k], d)
                                     /\ ProbeSlot(h, h.setOfEntries[k], d) = k
    /\ h.numberOfEntries = Cardinality(SetLines(h))
    /\ h.numberOfDuplicates <= h.numberOfCollisions

(* The threshold, also of the next table. *)
SizeOK(h) ==
    /\ h.maxElementsBeforeResize = MaxElements(h.size)
    /\ (2 * h.size * ThresholdNum) % ThresholdDen = 0

(* Where the reference is, and where the inserted code is then. *)
RefPhase ==
    /\ hpc \in {"idle", "stubs", "insert", "resize"}
    /\ alignedAddress \in Nat /\ stubEnd \in Nat
    /\ hpc # "idle" => /\ inSection /\ build = "dedup" /\ pc = "insert_stubs"
                       /\ alignedAddress % Coverage = 0 /\ alignedAddress > 0
    /\ hpc \in {"insert", "resize"} => alignedAddress < stubEnd
    /\ pc \in {"insert_stubs", "try_to_insert"} => dest % LineSize = 0
    /\ pc = "try_to_insert" => dest < range

(* There is room for the next line, and for all lines of a table that is
   copied. *)
RefRoom ==
    /\ reference.numberOfEntries <= reference.maxElementsBeforeResize
    /\ hpc = "insert" => reference.numberOfEntries < reference.maxElementsBeforeResize
    /\ hpc = "resize" =>
           \E n \in Nat :
               /\ original \in [0 .. n - 1 -> Nat] /\ copied \in 0 .. n
               /\ Cardinality(LinesIn(original, 0 .. n - 1)) < reference.maxElementsBeforeResize
               /\ SetLines(reference) = LinesIn(original, 0 .. copied - 1)

Blocks(S) == {Aligned(l, Coverage) : l \in S}

(* What the store in progress still brings to the table, and to the reference. *)
TableTodo ==
    IF pc \in {"insert_stubs", "try_to_insert"}
    THEN Blocks({a \in dest .. range - 1 : a % LineSize = 0}) ELSE {}
ReferenceTodo ==
    IF hpc # "idle" THEN {a \in alignedAddress .. stubEnd - 1 : a % Coverage = 0} ELSE {}

ReferenceLines ==
    IF hpc = "resize" THEN LinesIn(original, DOMAIN original) ELSE SetLines(reference)

Agreement ==
    inSection /\ build = "dedup" /\ pc \notin {"memcpys", "collect"} =>
        Blocks(Lines) \cup TableTodo = ReferenceLines \cup ReferenceTodo

RefInv ==
    /\ HashTypes(reference) /\ HashOK(reference) /\ SizeOK(reference)
    /\ RefPhase /\ RefRoom /\ Agreement
-----------------------------------------------------------------------------
(* A set of naturals has a least element. *)
LEMMA LeastElement ==
    ASSUME NEW T, T \subseteq Nat, T # {}
    PROVE  \E x \in T : \A y \in T : x <= y
<1> DEFINE TT == {0 .. n : n \in T}
<1>1. TT \subseteq FiniteSubsetsOf(Nat)
  <2> SUFFICES ASSUME NEW n \in T PROVE 0 .. n \in FiniteSubsetsOf(Nat)
    OBVIOUS
  <2>1. IsFiniteSet(0 .. n)
    BY FS_Interval
  <2> QED BY <2>1 DEF FiniteSubsetsOf
<1>2. TT # {}
  OBVIOUS
<1>3. IsWellFoundedOn(StrictSubsetOrdering(Nat), FiniteSubsetsOf(Nat))
  BY FS_StrictSubsetOrderingWellFounded
<1> HIDE DEF TT
<1>4. \E X \in TT : \A Y \in TT : ~(<<Y, X>> \in StrictSubsetOrdering(Nat))
  BY <1>1, <1>2, <1>3, WFMin
<1>5. PICK x \in T : \A y \in T : ~(<<0 .. y, 0 .. x>> \in StrictSubsetOrdering(Nat))
  BY <1>4 DEF TT
<1>6. \A y \in T : x <= y
  <2> SUFFICES ASSUME NEW y \in T, y < x PROVE FALSE
    OBVIOUS
  <2>1. 0 .. y \subseteq 0 .. x /\ x \in 0 .. x /\ x \notin 0 .. y
    OBVIOUS
  <2>2. <<0 .. y, 0 .. x>> \in StrictSubsetOrdering(Nat)
    BY <2>1 DEF StrictSubsetOrdering
  <2> QED BY <2>2, <1>5
<1> QED BY <1>6


(* A probe of a table of n slots. *)
LEMMA SlotOfMultiple ==
    ASSUME NEW n \in Nat \ {0}, NEW q \in Int, NEW r \in 0 .. n - 1
    PROVE  ((n * q) + r) % n = r
OBVIOUS

LEMMA ProbeReaches ==
    ASSUME NEW n \in Nat \ {0}, NEW line \in Nat, NEW k \in 0 .. n - 1
    PROVE  \E d \in 0 .. n - 1 : (line + d) % n = k
<1> DEFINE q == (k - line) \div n
           d == (k - line) % n
<1>1. k - line \in Int
  OBVIOUS
<1>2. q \in Int /\ d \in 0 .. n - 1 /\ k - line = (n * q) + d
  BY <1>1
<1> HIDE DEF q, d
<1>3. -q \in Int /\ n * q \in Int /\ n * (-q) = -(n * q)
  BY <1>2
<1>4. line + d = (n * (-q)) + k
  BY <1>2, <1>3
<1>5. (line + d) % n = k
  BY <1>3, <1>4, SlotOfMultiple
<1> QED BY <1>2, <1>5

-----------------------------------------------------------------------------
(***************************************************************************)
(* The hash set.                                                           *)
(***************************************************************************)
LEMMA TableFinite ==
    ASSUME NEW n \in Nat, NEW t \in [0 .. n - 1 -> Nat], NEW S \in SUBSET (0 .. n - 1)
    PROVE  /\ IsFiniteSet(LinesIn(t, S)) /\ IsFiniteSet(LinesIn(t, 0 .. n - 1))
           /\ Cardinality(LinesIn(t, S)) <= Cardinality(LinesIn(t, 0 .. n - 1))
           /\ Cardinality(LinesIn(t, S)) \in Nat /\ Cardinality(LinesIn(t, 0 .. n - 1)) \in Nat
<1> DEFINE Values == {t[k] : k \in 0 .. n - 1}
<1>1. IsFiniteSet(0 .. n - 1)
  BY FS_Interval
<1>2. t \in Surjection(0 .. n - 1, Values)
  BY DEF Surjection
<1>3. LinesIn(t, 0 .. n - 1) \subseteq Values
  BY DEF LinesIn
<1> HIDE DEF Values
<1>4. IsFiniteSet(Values)
  BY <1>1, <1>2, FS_Surjection
<1>5. IsFiniteSet(LinesIn(t, 0 .. n - 1))
  BY <1>3, <1>4, FS_Subset
<1>6. LinesIn(t, S) \subseteq LinesIn(t, 0 .. n - 1)
  BY DEF LinesIn
<1>7. IsFiniteSet(LinesIn(t, S)) /\ Cardinality(LinesIn(t, S)) <= Cardinality(LinesIn(t, 0 .. n - 1))
  BY <1>5, <1>6, FS_Subset
<1> QED BY <1>5, <1>7, FS_CardinalityType

LEMMA SetLinesIn ==
    ASSUME NEW h, HashTypes(h)
    PROVE  /\ DOMAIN h.setOfEntries = SlotsOf(h) /\ SetLines(h) = LinesIn(h.setOfEntries, SlotsOf(h))
           /\ IsFiniteSet(SetLines(h)) /\ Cardinality(SetLines(h)) \in Nat
           /\ IsFiniteSet(SlotsOf(h)) /\ Cardinality(SlotsOf(h)) = h.size
<1>1. h.size \in Nat /\ h.size > 0 /\ h.setOfEntries \in [0 .. h.size - 1 -> Nat]
  BY DEF HashTypes, SlotsOf
<1>2. DOMAIN h.setOfEntries = SlotsOf(h) /\ SetLines(h) = LinesIn(h.setOfEntries, SlotsOf(h))
  BY <1>1 DEF SetLines, LinesIn, SlotsOf
<1>3. IsFiniteSet(SetLines(h)) /\ Cardinality(SetLines(h)) \in Nat
  BY <1>1, <1>2, TableFinite DEF SlotsOf
<1>4. IsFiniteSet(SlotsOf(h)) /\ Cardinality(SlotsOf(h)) = h.size
  <2>1. PICK n \in Nat \ {0} : n = h.size
    BY <1>1
  <2>2. IsFiniteSet(0 .. n - 1) /\ Cardinality(0 .. n - 1) = n
    <3>1. 0 \in Int /\ n - 1 \in Int /\ ~(0 > n - 1) /\ (n - 1) - 0 + 1 = n
      OBVIOUS
    <3> QED BY <3>1, FS_Interval
  <2> QED BY <2>1, <2>2 DEF SlotsOf
<1> QED BY <1>2, <1>3, <1>4

(* A probe ends at one place. *)
LEMMA FirstIsUnique ==
    ASSUME NEW h, NEW line, NEW d \in Nat, NEW e \in Nat,
           FirstProcessed(h, line, d), FirstProcessed(h, line, e)
    PROVE  d = e
<1>1. ~(d < e)
  BY DEF FirstProcessed
<1>2. ~(e < d)
  BY DEF FirstProcessed
<1> QED BY <1>1, <1>2

LEMMA DistanceIsFirst ==
    ASSUME NEW h, HashTypes(h), NEW line, NEW d \in SlotsOf(h), FirstProcessed(h, line, d)
    PROVE  Distance(h, line) = d
<1>1. Distance(h, line) = CHOOSE x \in SlotsOf(h) : FirstProcessed(h, line, x)
  BY DEF Distance, FirstProcessed, SlotsOf
<1>2. Distance(h, line) \in SlotsOf(h) /\ FirstProcessed(h, line, Distance(h, line))
  BY <1>1
<1>3. d \in Nat /\ Distance(h, line) \in Nat
  BY <1>2 DEF HashTypes, SlotsOf
<1> QED BY <1>2, <1>3, FirstIsUnique

LEMMA ProbeEnds ==
    ASSUME NEW h, HashTypes(h), NEW line \in Nat,
           NEW k \in SlotsOf(h), h.setOfEntries[k] \in {0, line}
    PROVE  \E d \in SlotsOf(h) : FirstProcessed(h, line, d)
<1> DEFINE Ends == {d \in SlotsOf(h) : Processed(h, line, d)}
<1>1. h.size \in Nat \ {0} /\ SlotsOf(h) = 0 .. h.size - 1
  BY DEF HashTypes, SlotsOf
<1>2. PICK d \in 0 .. h.size - 1 : (line + d) % h.size = k
  BY ZenonT(30), <1>1, ProbeReaches
<1>3. d \in Ends
  BY <1>1, <1>2 DEF Processed, ProbeSlot
<1>4. Ends \subseteq Nat
  BY <1>1
<1>5. PICK x \in Ends : \A y \in Ends : x <= y
  BY <1>3, <1>4, LeastElement
<1>6. \A y \in 0 .. x - 1 : ~Processed(h, line, y)
  BY <1>1, <1>5
<1> QED BY <1>5, <1>6 DEF FirstProcessed

(* No line is in the set twice. *)
LEMMA LinesDistinct ==
    ASSUME NEW h, HashTypes(h), HashOK(h), NEW k \in SlotsOf(h), NEW m \in SlotsOf(h),
           h.setOfEntries[k] = h.setOfEntries[m], h.setOfEntries[k] # 0
    PROVE  k = m
<1> DEFINE line == h.setOfEntries[k]
<1>1. PICK d \in SlotsOf(h) : FirstProcessed(h, line, d) /\ ProbeSlot(h, line, d) = k
  BY DEF HashOK
<1>2. PICK e \in SlotsOf(h) : FirstProcessed(h, line, e) /\ ProbeSlot(h, line, e) = m
  BY DEF HashOK
<1>3. d \in Nat /\ e \in Nat
  BY DEF HashTypes, SlotsOf
<1>4. d = e
  BY <1>1, <1>2, <1>3, FirstIsUnique
<1> QED BY <1>1, <1>2, <1>4

(* Fewer entries than slots leave a slot free. *)
LEMMA SlotIsFree ==
    ASSUME NEW h, HashTypes(h), HashOK(h), h.numberOfEntries < h.size
    PROVE  \E k \in SlotsOf(h) : h.setOfEntries[k] = 0
<1> SUFFICES ASSUME \A k \in SlotsOf(h) : h.setOfEntries[k] # 0 PROVE FALSE
  OBVIOUS
<1>1. h.setOfEntries \in [SlotsOf(h) -> SetLines(h)]
  BY DEF HashTypes, SetLines
<1>2. /\ IsFiniteSet(SetLines(h)) /\ IsFiniteSet(SlotsOf(h)) /\ Cardinality(SlotsOf(h)) = h.size
      /\ Cardinality(SetLines(h)) < Cardinality(SlotsOf(h))
  BY SetLinesIn DEF HashOK
<1>3. \E x, y \in SlotsOf(h) : x # y /\ h.setOfEntries[x] = h.setOfEntries[y]
  BY <1>1, <1>2, FS_PigeonHole
<1> QED BY <1>3, LinesDistinct

(* address_hash_set_insert_aligned_block_address: the line is in the set
   afterwards, nothing else has changed in it, and every line is still found. *)
LEMMA InsertLine ==
    ASSUME NEW h, HashTypes(h), HashOK(h), NEW line \in Nat \ {0}, h.numberOfEntries < h.size
    PROVE  /\ HashTypes(InsertAligned(h, line)) /\ HashOK(InsertAligned(h, line))
           /\ SetLines(InsertAligned(h, line)) = SetLines(h) \cup {line}
           /\ InsertAligned(h, line).size = h.size
           /\ InsertAligned(h, line).maxElementsBeforeResize = h.maxElementsBeforeResize
           /\ InsertAligned(h, line).numberOfEntries <= h.numberOfEntries + 1
<1> DEFINE g == InsertAligned(h, line)
           t == h.setOfEntries
<1>1. PICK d \in SlotsOf(h) : FirstProcessed(h, line, d)
  BY SlotIsFree, ProbeEnds
<1>2. Distance(h, line) = d
  BY <1>1, DistanceIsFirst
<1>3. PICK k \in SlotsOf(h) : k = ProbeSlot(h, line, d)
  <2>1. h.size \in Nat /\ h.size > 0 /\ d \in Nat /\ line \in Nat
    BY DEF HashTypes, SlotsOf
  <2>2. (line + d) % h.size \in 0 .. h.size - 1
    BY <2>1
  <2> QED BY <2>2 DEF ProbeSlot, SlotsOf
<1>4. t[k] \in {0, line} /\ d \in Nat
  BY <1>1, <1>3 DEF FirstProcessed, Processed, HashTypes, SlotsOf
<1>5. /\ h.size \in Nat \ {0} /\ t \in [SlotsOf(h) -> Nat]
      /\ h.numberOfEntries \in Nat /\ h.numberOfCollisions \in Nat
      /\ h.numberOfDuplicates \in Nat /\ h.numberOfResizes \in Nat
      /\ h.numberOfEntries = Cardinality(SetLines(h)) /\ h.numberOfDuplicates <= h.numberOfCollisions
  BY DEF HashTypes, HashOK
<1>6. CASE t[k] = 0
  <2>1. g = [h EXCEPT !.setOfEntries[k] = line,
                      !.numberOfEntries = @ + 1,
                      !.numberOfCollisions = @ + d]
    BY <1>2, <1>3, <1>6 DEF InsertAligned
  <2>2. /\ g = [size |-> h.size, maxElementsBeforeResize |-> h.maxElementsBeforeResize,
                setOfEntries |-> [t EXCEPT ![k] = line], numberOfEntries |-> h.numberOfEntries + 1,
                numberOfCollisions |-> h.numberOfCollisions + d,
                numberOfDuplicates |-> h.numberOfDuplicates,
                numberOfResizes |-> h.numberOfResizes]
    BY <2>1 DEF HashTypes
  <2> HIDE DEF g
  <2>3. /\ g.size = h.size /\ g.maxElementsBeforeResize = h.maxElementsBeforeResize
        /\ g.setOfEntries = [t EXCEPT ![k] = line] /\ g.numberOfEntries = h.numberOfEntries + 1
        /\ g.numberOfCollisions = h.numberOfCollisions + d
        /\ g.numberOfDuplicates = h.numberOfDuplicates /\ g.numberOfResizes = h.numberOfResizes
    BY <2>2
  <2>4. SlotsOf(g) = SlotsOf(h)
    BY <2>3 DEF SlotsOf
  <2>5. HashTypes(g)
    BY <2>2, <2>3, <2>4, <1>4, <1>5 DEF HashTypes
  <2>6. g.setOfEntries[k] = line /\ \A m \in SlotsOf(h) : m # k => g.setOfEntries[m] = t[m]
    BY <2>3, <1>5
  <2>7. \A m \in SlotsOf(h) : t[m] # line
    <3> SUFFICES ASSUME NEW m \in SlotsOf(h), t[m] = line PROVE FALSE
      OBVIOUS
    <3>1. PICK e \in SlotsOf(h) : FirstProcessed(h, line, e) /\ ProbeSlot(h, line, e) = m
      BY DEF HashOK
    <3>2. e \in Nat
      BY DEF HashTypes, SlotsOf
    <3>3. e = d
      BY <1>1, <1>4, <3>1, <3>2, FirstIsUnique
    <3> QED BY <3>1, <3>3, <1>3, <1>6
  <2>8. SetLines(g) = SetLines(h) \cup {line} /\ line \notin SetLines(h)
    <3>1. SetLines(g) = LinesIn(g.setOfEntries, SlotsOf(h)) /\ SetLines(h) = LinesIn(t, SlotsOf(h))
      BY <2>4, <2>5, SetLinesIn
    <3> QED BY <3>1, <2>6, <2>7, <1>6 DEF LinesIn
  <2>9. g.numberOfEntries = Cardinality(SetLines(g))
    <3>1. IsFiniteSet(SetLines(h))
      BY SetLinesIn
    <3>2. Cardinality(SetLines(h) \cup {line}) = Cardinality(SetLines(h)) + 1
      BY <3>1, <2>8, FS_AddElement
    <3> QED BY <3>2, <2>3, <2>8, <1>5
  <2>10. ASSUME NEW m \in SlotsOf(h), NEW l \in Nat, NEW e \in SlotsOf(h),
                \A x \in 0 .. e - 1 : ~Processed(h, l, x)
         PROVE  \A x \in 0 .. e - 1 : ~Processed(g, l, x) /\ ProbeSlot(g, l, x) # k
    <3> SUFFICES ASSUME NEW x \in 0 .. e - 1
                 PROVE  ~Processed(g, l, x) /\ ProbeSlot(g, l, x) # k
      OBVIOUS
    <3>1. t[ProbeSlot(h, l, x)] \notin {0, l}
      BY <2>10 DEF Processed
    <3>2. ProbeSlot(g, l, x) = ProbeSlot(h, l, x)
      BY <2>3 DEF ProbeSlot
    <3>3. ProbeSlot(h, l, x) \in SlotsOf(h)
      <4>1. h.size \in Nat /\ h.size > 0 /\ x \in Nat
        BY DEF HashTypes, SlotsOf
      <4>2. (l + x) % h.size \in 0 .. h.size - 1
        BY <4>1
      <4> QED BY <4>2 DEF ProbeSlot, SlotsOf
    <3> QED BY <3>1, <3>2, <3>3, <2>6, <1>6 DEF Processed
  <2>11. ASSUME NEW m \in SlotsOf(g), g.setOfEntries[m] # 0
         PROVE  \E e \in SlotsOf(g) : /\ FirstProcessed(g, g.setOfEntries[m], e)
                                      /\ ProbeSlot(g, g.setOfEntries[m], e) = m
    <3>1. CASE m = k
      <4>1. ProbeSlot(g, line, d) = k
        BY <1>3, <2>3 DEF ProbeSlot
      <4>2. FirstProcessed(g, line, d)
        BY <4>1, <2>6, <2>10, <1>1 DEF FirstProcessed, Processed
      <4> QED BY <3>1, <4>1, <4>2, <2>4, <2>6
    <3>2. CASE m # k
      <4>1. m \in SlotsOf(h) /\ g.setOfEntries[m] = t[m] /\ t[m] # 0 /\ t[m] \in Nat
        BY <3>2, <2>4, <2>6, <2>11, <1>5
      <4>2. PICK e \in SlotsOf(h) : FirstProcessed(h, t[m], e) /\ ProbeSlot(h, t[m], e) = m
        BY <4>1 DEF HashOK
      <4>3. ProbeSlot(g, t[m], e) = m
        BY <4>2, <2>3 DEF ProbeSlot
      <4>4. FirstProcessed(g, t[m], e)
        BY <4>1, <4>2, <4>3, <2>10 DEF FirstProcessed, Processed
      <4> QED BY <4>1, <4>3, <4>4, <2>4
    <3> QED BY <3>1, <3>2
  <2>12. HashOK(g)
    BY <2>3, <2>9, <2>11, <1>4, <1>5 DEF HashOK
  <2> QED BY <2>3, <2>5, <2>8, <2>12, <1>5 DEF g
<1>7. CASE t[k] # 0
  <2>1. g = [h EXCEPT !.numberOfDuplicates = @ + 1, !.numberOfCollisions = @ + d + 1]
    BY <1>2, <1>3, <1>7 DEF InsertAligned
  <2>2. /\ g = [size |-> h.size, maxElementsBeforeResize |-> h.maxElementsBeforeResize,
                setOfEntries |-> t, numberOfEntries |-> h.numberOfEntries,
                numberOfCollisions |-> h.numberOfCollisions + d + 1,
                numberOfDuplicates |-> h.numberOfDuplicates + 1,
                numberOfResizes |-> h.numberOfResizes]
    BY <2>1 DEF HashTypes
  <2> HIDE DEF g
  <2>3. /\ g.size = h.size /\ g.maxElementsBeforeResize = h.maxElementsBeforeResize
        /\ g.setOfEntries = t /\ g.numberOfEntries = h.numberOfEntries
        /\ g.numberOfCollisions = h.numberOfCollisions + d + 1
        /\ g.numberOfDuplicates = h.numberOfDuplicates + 1 /\ g.numberOfResizes = h.numberOfResizes
    BY <2>2
  <2>4. SlotsOf(g) = SlotsOf(h)
    BY <2>3 DEF SlotsOf
  <2>5. HashTypes(g)
    BY <2>2, <2>3, <2>4, <1>4, <1>5 DEF HashTypes
  <2>6. SetLines(g) = SetLines(h) /\ line \in SetLines(h)
    <3>1. t[k] = line
      BY <1>4, <1>7
    <3>2. SetLines(h) = LinesIn(t, SlotsOf(h)) /\ SetLines(g) = LinesIn(t, SlotsOf(h))
      BY <2>3, <2>4, <2>5, SetLinesIn
    <3> QED BY <3>1, <3>2 DEF LinesIn
  <2>7. \A l, x : Processed(g, l, x) = Processed(h, l, x) /\ ProbeSlot(g, l, x) = ProbeSlot(h, l, x)
    BY <2>3 DEF Processed, ProbeSlot
  <2>8. HashOK(g)
    BY <2>3, <2>4, <2>6, <2>7, <1>4, <1>5 DEF HashOK, FirstProcessed
  <2> QED BY <2>3, <2>5, <2>6, <2>8, <1>5 DEF g
<1> QED BY <1>6, <1>7

(* An empty set. *)
LEMMA EmptyHashSet ==
    ASSUME NEW h, HashTypes(h), \A k \in SlotsOf(h) : h.setOfEntries[k] = 0,
           h.numberOfEntries = 0, h.numberOfDuplicates <= h.numberOfCollisions
    PROVE  HashOK(h) /\ SetLines(h) = {}
<1>1. SetLines(h) = LinesIn(h.setOfEntries, SlotsOf(h))
  BY SetLinesIn
<1>2. SetLines(h) = {}
  BY <1>1 DEF LinesIn
<1> QED BY <1>2, FS_EmptySet DEF HashOK

(* The threshold: there is a slot for every entry, and a table of twice the
   size takes more lines. *)
LEMMA ThresholdFits ==
    ASSUME NEW n \in Nat \ {0}
    PROVE  MaxElements(n) \in Nat /\ MaxElements(n) <= n
<1> DEFINE a == n * ThresholdNum
           q == a \div ThresholdDen
<1>1. /\ ThresholdDen \in Nat \ {0} /\ ThresholdNum \in Nat /\ ThresholdNum >= 1
      /\ ThresholdNum <= ThresholdDen
  BY ThresholdAssumption
<1>2. a \in Nat
  BY <1>1
<1>3. a <= n * ThresholdDen
  <2>1. PICK x \in Nat : ThresholdDen = ThresholdNum + x
    <3>1. ThresholdDen - ThresholdNum \in Nat /\ ThresholdDen = ThresholdNum + (ThresholdDen - ThresholdNum)
      BY <1>1
    <3> QED BY <3>1
  <2>2. n * x >= 0 /\ n * ThresholdDen = n * ThresholdNum + n * x
    BY <2>1, <1>1
  <2> QED BY <2>2, <1>1
<1> HIDE DEF a
<1>4. q \in Nat /\ ThresholdDen * q <= a
  BY <1>1, <1>2
<1>5. MaxElements(n) = q
  BY DEF MaxElements, a
<1> HIDE DEF q
<1>6. q <= n
  <2> SUFFICES ASSUME q > n PROVE FALSE
    BY <1>4
  <2>1. PICK x \in Nat : q = n + 1 + x
    <3>1. q - n - 1 \in Nat /\ q = n + 1 + (q - n - 1)
      BY <1>4
    <3> QED BY <3>1
  <2>2. ThresholdDen * x >= 0 /\ ThresholdDen * q = n * ThresholdDen + ThresholdDen + ThresholdDen * x
    BY <2>1, <1>1
  <2>3. n * ThresholdDen \in Nat /\ ThresholdDen * x \in Nat /\ ThresholdDen * q \in Nat
    BY <1>1, <1>4, <2>1
  <2> QED BY <2>2, <2>3, <1>1, <1>2, <1>3, <1>4
<1> QED BY <1>4, <1>5, <1>6

LEMMA ThresholdGrows ==
    ASSUME NEW n \in Nat \ {0}, (2 * n * ThresholdNum) % ThresholdDen = 0
    PROVE  /\ MaxElements(n) < MaxElements(2 * n)
           /\ (2 * (2 * n) * ThresholdNum) % ThresholdDen = 0
<1> DEFINE a == n * ThresholdNum
           q == a \div ThresholdDen
           p == (2 * a) \div ThresholdDen
<1>1. ThresholdDen \in Nat \ {0} /\ ThresholdNum \in Nat \ {0}
  BY ThresholdAssumption
<1>2. a \in Nat /\ a >= 1
  <2>1. PICK x \in Nat : n = 1 + x
    <3>1. n - 1 \in Nat /\ n = 1 + (n - 1)
      OBVIOUS
    <3> QED BY <3>1
  <2>2. x * ThresholdNum >= 0 /\ n * ThresholdNum = ThresholdNum + x * ThresholdNum
    BY <2>1, <1>1
  <2> QED BY <2>2, <1>1
<1>3. 2 * n * ThresholdNum = 2 * a /\ 2 * (2 * n) * ThresholdNum = 2 * (2 * a) /\ (2 * n) * ThresholdNum = 2 * a
  BY <1>1
<1>4. MaxElements(n) = q /\ MaxElements(2 * n) = p
  BY <1>3 DEF MaxElements
<1> HIDE DEF a
<1>5. q \in Nat /\ p \in Nat /\ ThresholdDen * q <= a
  BY <1>1, <1>2
<1>6. 2 * a = ThresholdDen * p
  <2>1. 2 * a \in Nat /\ (2 * a) % ThresholdDen = 0
    BY <1>2, <1>3
  <2>2. PICK b \in Nat : b = 2 * a
    BY <2>1
  <2>3. b = (ThresholdDen * (b \div ThresholdDen)) + (b % ThresholdDen)
    BY <1>1
  <2>4. p = b \div ThresholdDen /\ b % ThresholdDen = 0
    BY <2>1, <2>2
  <2> HIDE DEF p
  <2> QED BY <2>2, <2>3, <2>4, <1>1, <1>5
<1> HIDE DEF p, q
<1>7. q < p
  <2> SUFFICES ASSUME q >= p PROVE FALSE
    BY <1>5
  <2>1. PICK x \in Nat : q = p + x
    <3>1. q - p \in Nat /\ q = p + (q - p)
      BY <1>5
    <3> QED BY <3>1
  <2>2. ThresholdDen * x >= 0 /\ ThresholdDen * q = ThresholdDen * p + ThresholdDen * x
    BY <2>1, <1>1, <1>5
  <2>3. ThresholdDen * x \in Nat /\ ThresholdDen * q \in Nat /\ ThresholdDen * p \in Nat
    BY <1>1, <1>5, <2>1
  <2> QED BY <2>2, <2>3, <1>2, <1>5, <1>6
<1>8. (2 * (2 * a)) % ThresholdDen = 0
  <2>1. 2 * (2 * a) = (ThresholdDen * (2 * p)) + 0
    BY <1>1, <1>5, <1>6
  <2>2. 2 * p \in Int /\ 0 \in 0 .. ThresholdDen - 1
    BY <1>1, <1>5
  <2> QED BY <2>1, <2>2, <1>1, SlotOfMultiple
<1> QED BY <1>3, <1>4, <1>7, <1>8

-----------------------------------------------------------------------------
(***************************************************************************)
(* Lines and blocks.                                                       *)
(***************************************************************************)
LEMMA MultiplesApart ==
    ASSUME NEW c \in Nat \ {0}, NEW a \in Nat, NEW b \in Nat, a % c = 0, b % c = 0, a < b
    PROVE  a + c <= b
<1> DEFINE x == a \div c
           y == b \div c
<1>1. x \in Nat /\ y \in Nat /\ a = c * x /\ b = c * y
  OBVIOUS
<1> HIDE DEF x, y
<1>2. x < y
  <2> SUFFICES ASSUME x >= y PROVE FALSE
    BY <1>1
  <2>1. PICK z \in Nat : x = y + z
    <3>1. x - y \in Nat /\ x = y + (x - y)
      BY <1>1
    <3> QED BY <3>1
  <2>2. c * z >= 0 /\ c * x = c * y + c * z /\ c * z \in Nat /\ c * y \in Nat
    BY <2>1, <1>1
  <2> QED BY <2>2, <1>1
<1>3. PICK z \in Nat : y = x + 1 + z
  <2>1. y - x - 1 \in Nat /\ y = x + 1 + (y - x - 1)
    BY <1>1, <1>2
  <2> QED BY <2>1
<1>4. c * z >= 0 /\ c * y = c * x + c + c * z /\ c * z \in Nat /\ c * x \in Nat
  BY <1>1, <1>3
<1> QED BY <1>1, <1>4

LEMMA MultipleNext ==
    ASSUME NEW c \in Nat \ {0}, NEW a \in Nat, a % c = 0
    PROVE  (a + c) % c = 0
<1> DEFINE x == a \div c
<1>1. x \in Nat /\ a = c * x
  OBVIOUS
<1> HIDE DEF x
<1>2. a + c = (c * (x + 1)) + 0 /\ x + 1 \in Int /\ 0 \in 0 .. c - 1
  BY <1>1
<1> QED BY <1>2, SlotOfMultiple

LEMMA AlignedBlock ==
    ASSUME NEW c \in Nat \ {0}, NEW a \in Nat
    PROVE  /\ Aligned(a, c) \in Nat /\ Aligned(a, c) <= a /\ a < Aligned(a, c) + c
           /\ Aligned(a, c) % c = 0
           /\ \A b \in Nat : b % c = 0 /\ b <= a => b <= Aligned(a, c)
           /\ \A b \in Nat : b % c = 0 /\ b <= a /\ a < b + c => Aligned(a, c) = b
<1> DEFINE x == a \div c
           r == a % c
<1>1. x \in Nat /\ r \in 0 .. c - 1 /\ a = (c * x) + r
  OBVIOUS
<1>2. Aligned(a, c) = a - r
  BY DEF Aligned
<1> HIDE DEF x, r
<1>3. c * x \in Nat /\ Aligned(a, c) = (c * x) + 0 /\ 0 \in 0 .. c - 1 /\ x \in Int
  BY <1>1, <1>2
<1>4. Aligned(a, c) % c = 0
  BY <1>3, SlotOfMultiple
<1>5. Aligned(a, c) \in Nat /\ Aligned(a, c) <= a /\ a < Aligned(a, c) + c
  BY <1>1, <1>3
<1>6. ASSUME NEW b \in Nat, b % c = 0, b <= a PROVE b <= Aligned(a, c)
  <2> SUFFICES ASSUME Aligned(a, c) < b PROVE FALSE
    BY <1>5
  <2>1. Aligned(a, c) + c <= b
    BY <1>4, <1>5, <1>6, MultiplesApart
  <2> QED BY <2>1, <1>5, <1>6
<1>7. ASSUME NEW b \in Nat, b % c = 0, b <= a, a < b + c PROVE Aligned(a, c) = b
  <2>1. b <= Aligned(a, c)
    BY <1>6, <1>7
  <2>2. ~(b < Aligned(a, c))
    <3> SUFFICES ASSUME b < Aligned(a, c) PROVE FALSE
      OBVIOUS
    <3>1. b + c <= Aligned(a, c)
      BY <1>4, <1>5, <1>7, MultiplesApart
    <3> QED BY <3>1, <1>5, <1>7
  <2> QED BY <2>1, <2>2, <1>5
<1> QED BY <1>4, <1>5, <1>6, <1>7

(* A block starts with a line. *)
LEMMA BlockIsLine ==
    ASSUME NEW a \in Nat, a % Coverage = 0
    PROVE  a % LineSize = 0
<1> DEFINE x == a \div Coverage
           y == Coverage \div LineSize
<1>1. Coverage \in Nat \ {0} /\ LineSize \in Nat \ {0} /\ Coverage % LineSize = 0
  BY ThresholdAssumption, TableAssumption, CoverageAssumption
<1>2. x \in Nat /\ a = Coverage * x
  BY <1>1
<1>3. y \in Nat /\ Coverage = LineSize * y
  BY <1>1
<1> HIDE DEF x, y
<1>4. a = (LineSize * (y * x)) + 0 /\ y * x \in Int /\ 0 \in 0 .. LineSize - 1
  BY <1>1, <1>2, <1>3
<1> QED BY <1>1, <1>4, SlotOfMultiple

(* The multiples of c from a on are a and those from a + c on. *)
LEMMA FirstMultiple ==
    ASSUME NEW c \in Nat \ {0}, NEW a \in Nat, a % c = 0, NEW end \in Nat, a < end
    PROVE  {x \in a .. end - 1 : x % c = 0} = {a} \cup {x \in a + c .. end - 1 : x % c = 0}
<1>1. ASSUME NEW x \in a .. end - 1, x % c = 0, x # a PROVE x \in a + c .. end - 1
  <2>1. x \in Nat /\ a < x
    BY <1>1
  <2>2. a + c <= x
    BY <2>1, <1>1, MultiplesApart
  <2> QED BY <2>1, <2>2, <1>1
<1>2. a \in a .. end - 1 /\ a + c .. end - 1 \subseteq a .. end - 1
  OBVIOUS
<1> QED BY <1>1, <1>2

(* The lines that a store touches lie in the blocks that it touches. *)
LEMMA SameBlocks ==
    ASSUME NEW addr \in Nat, NEW size \in Nat, size > 0
    PROVE  Blocks({a \in Aligned(addr, LineSize) .. addr + size - 1 : a % LineSize = 0})
             = {a \in Aligned(addr, Coverage) .. addr + size - 1 : a % Coverage = 0}
<1> DEFINE dst == Aligned(addr, LineSize)
           blk == Aligned(addr, Coverage)
           end == addr + size
<1>1. Coverage \in Nat \ {0} /\ LineSize \in Nat \ {0}
  BY ThresholdAssumption, TableAssumption
<1>2. /\ dst \in Nat /\ dst <= addr /\ addr < dst + LineSize /\ dst % LineSize = 0
      /\ blk \in Nat /\ blk <= addr /\ addr < blk + Coverage /\ blk % Coverage = 0
  BY <1>1, AlignedBlock
<1>3. blk <= dst
  BY <1>1, <1>2, BlockIsLine, AlignedBlock
<1>4. end \in Nat /\ addr < end
  OBVIOUS
<1> HIDE DEF dst, blk, end
<1>5. ASSUME NEW l \in dst .. end - 1, l % LineSize = 0
      PROVE  Aligned(l, Coverage) \in blk .. end - 1 /\ Aligned(l, Coverage) % Coverage = 0
  <2>1. l \in Nat /\ blk <= l
    BY <1>2, <1>3, <1>4
  <2>2. /\ Aligned(l, Coverage) \in Nat /\ Aligned(l, Coverage) <= l
        /\ Aligned(l, Coverage) % Coverage = 0 /\ blk <= Aligned(l, Coverage)
    BY <2>1, <1>1, <1>2, AlignedBlock
  <2> QED BY <2>1, <2>2, <1>2, <1>4, <1>5
<1>6. ASSUME NEW a \in blk .. end - 1, a % Coverage = 0
      PROVE  \E l \in dst .. end - 1 : l % LineSize = 0 /\ Aligned(l, Coverage) = a
  <2>1. a \in Nat /\ blk <= a
    BY <1>2, <1>4
  <2>2. CASE a = blk
    <3>1. Aligned(dst, Coverage) = blk
      BY <1>1, <1>2, <1>3, AlignedBlock
    <3>2. dst \in dst .. end - 1
      BY <1>2, <1>4
    <3> QED BY <3>1, <3>2, <2>2, <1>2
  <2>3. CASE a # blk
    <3>0. blk < a
      BY <2>1, <2>3, <1>2
    <3>1. blk + Coverage <= a
      BY <3>0, <2>1, <1>1, <1>2, <1>6, MultiplesApart
    <3>2. dst <= a
      BY <3>1, <2>1, <1>1, <1>2
    <3>3. a % LineSize = 0 /\ Aligned(a, Coverage) = a
      <4>1. a % LineSize = 0
        BY <2>1, <1>6, BlockIsLine
      <4>2. a <= a /\ a < a + Coverage
        BY <2>1, <1>1
      <4> QED BY <4>1, <4>2, <2>1, <1>1, <1>6, AlignedBlock
    <3>4. a \in dst .. end - 1
      BY <3>2, <2>1, <1>2, <1>4
    <3> QED BY <3>3, <3>4
  <2> QED BY <2>2, <2>3
<1>7. Blocks({a \in dst .. end - 1 : a % LineSize = 0}) = {a \in blk .. end - 1 : a % Coverage = 0}
  BY <1>5, <1>6 DEF Blocks
<1> QED BY <1>7 DEF dst, blk, end

LEMMA BlocksUnion ==
    ASSUME NEW S, NEW T
    PROVE  Blocks(S \cup T) = Blocks(S) \cup Blocks(T) /\ Blocks({}) = {}
BY DEF Blocks

-----------------------------------------------------------------------------
(***************************************************************************)
(* The steps of the reference.  Nothing of the inserted code moves.        *)
(***************************************************************************)
HashInv(h) == HashTypes(h) /\ HashOK(h) /\ SizeOK(h)

(* address_hash_set_initialise and address_hash_set_reset: an empty table. *)
LEMMA InitialiseIsEmpty ==
    ASSUME NEW n \in Nat \ {0}
    PROVE  /\ HashTypes(Initialise(n)) /\ HashOK(Initialise(n)) /\ SetLines(Initialise(n)) = {}
           /\ Initialise(n).size = n /\ Initialise(n).numberOfEntries = 0
           /\ Initialise(n).maxElementsBeforeResize = MaxElements(n)
<1> DEFINE h == Initialise(n)
<1>1. h = [size |-> n, maxElementsBeforeResize |-> MaxElements(n),
           setOfEntries |-> [k \in 0 .. n - 1 |-> 0], numberOfEntries |-> 0,
           numberOfCollisions |-> 0, numberOfDuplicates |-> 0, numberOfResizes |-> 0]
  BY DEF Initialise
<1> HIDE DEF h
<1>2. /\ h.size = n /\ h.maxElementsBeforeResize = MaxElements(n)
      /\ h.setOfEntries = [k \in 0 .. n - 1 |-> 0] /\ h.numberOfEntries = 0
      /\ h.numberOfCollisions = 0 /\ h.numberOfDuplicates = 0 /\ h.numberOfResizes = 0
  BY <1>1
<1>3. HashTypes(h)
  BY <1>1, <1>2 DEF HashTypes, SlotsOf
<1>4. HashOK(h) /\ SetLines(h) = {}
  BY <1>2, <1>3, EmptyHashSet DEF SlotsOf
<1> QED BY <1>2, <1>3, <1>4 DEF h

(* The end of the table does not lie before the threshold. *)
LEMMA RoomInTable ==
    ASSUME NEW h, HashInv(h)
    PROVE  /\ h.maxElementsBeforeResize \in Nat /\ h.maxElementsBeforeResize <= h.size
           /\ h.size \in Nat \ {0} /\ h.numberOfEntries \in Nat
BY ThresholdFits DEF HashInv, HashTypes, SizeOK

(* The reference takes in a line: the invariant of its record. *)
LEMMA InsertKeeps ==
    ASSUME NEW h, HashInv(h), NEW line \in Nat \ {0},
           h.numberOfEntries < h.maxElementsBeforeResize
    PROVE  /\ HashInv(InsertAligned(h, line))
           /\ SetLines(InsertAligned(h, line)) = SetLines(h) \cup {line}
           /\ InsertAligned(h, line).maxElementsBeforeResize = h.maxElementsBeforeResize
           /\ InsertAligned(h, line).numberOfEntries <= h.maxElementsBeforeResize
<1>1. h.numberOfEntries < h.size /\ HashTypes(h) /\ HashOK(h)
  BY RoomInTable DEF HashInv
<1>2. PICK g : g = InsertAligned(h, line)
  OBVIOUS
<1>3. /\ HashTypes(g) /\ HashOK(g) /\ SetLines(g) = SetLines(h) \cup {line}
      /\ g.size = h.size /\ g.maxElementsBeforeResize = h.maxElementsBeforeResize
      /\ g.numberOfEntries <= h.numberOfEntries + 1
  BY <1>1, <1>2, InsertLine
<1>4. SizeOK(g)
  BY <1>3 DEF SizeOK, HashInv
<1>5. g.numberOfEntries <= h.maxElementsBeforeResize
  BY <1>3, RoomInTable DEF HashTypes
<1> QED BY <1>2, <1>3, <1>4, <1>5 DEF HashInv

(* The agreement does not depend on the place of the line: to do, or done. *)
LEMMA AgreementKept ==
    ASSUME RefInv, UNCHANGED vars,
           ReferenceLines' \cup ReferenceTodo' = ReferenceLines \cup ReferenceTodo
    PROVE  Agreement'
<1>1. Lines' = Lines /\ TableTodo' = TableTodo
  BY DEF vars, tableVars, registers, Lines, TableTodo, Blocks
<1>2. Blocks(Lines)' = Blocks(Lines)
  BY <1>1 DEF Blocks
<1> QED BY <1>1, <1>2 DEF RefInv, Agreement, vars, history

LEMMA PhaseKept ==
    ASSUME RefInv, UNCHANGED vars, hpc # "idle", hpc' \in {"idle", "stubs", "insert", "resize"},
           alignedAddress' \in Nat, stubEnd' \in Nat,
           hpc' # "idle" => alignedAddress' % Coverage = 0 /\ alignedAddress' > 0,
           hpc' \in {"insert", "resize"} => alignedAddress' < stubEnd'
    PROVE  RefPhase'
BY DEF RefInv, RefPhase, vars, tableVars, registers, history

LEMMA StubSteps ==
    ASSUME RefInv, UNCHANGED vars, StubsDone \/ StubFits
    PROVE  RefInv'
<1>1. HashTypes(reference) /\ HashOK(reference) /\ SizeOK(reference) /\ RefPhase /\ RefRoom
  BY DEF RefInv
<1>2. UNCHANGED <<reference, original, copied>> /\ hpc = "stubs"
  BY DEF StubsDone, StubFits, resizeVars
<1>3. HashTypes(reference)' /\ HashOK(reference)' /\ SizeOK(reference)'
  BY <1>1, <1>2 DEF HashTypes, HashOK, SizeOK
<1>4. SetLines(reference)' = SetLines(reference)
  BY <1>2
<1>5. CASE StubsDone
  <2>1. hpc' = "idle" /\ alignedAddress >= stubEnd /\ alignedAddress' = 0 /\ stubEnd' = 0
    BY <1>5 DEF StubsDone
  <2>2. RefPhase'
    BY <1>2, <2>1, PhaseKept
  <2>3. RefRoom'
    BY <1>1, <1>2, <2>1 DEF RefRoom
  <2>4. ReferenceTodo = {} /\ ReferenceTodo' = {} /\ ReferenceLines' = ReferenceLines
    <3>1. alignedAddress .. stubEnd - 1 = {}
      BY <1>1, <2>1 DEF RefPhase
    <3> QED BY <3>1, <2>1, <1>2, <1>4 DEF ReferenceTodo, ReferenceLines
  <2>5. Agreement'
    BY <2>4, AgreementKept
  <2> QED BY <1>3, <2>2, <2>3, <2>5 DEF RefInv
<1>6. CASE StubFits
  <2>1. /\ hpc' = "insert" /\ alignedAddress < stubEnd /\ UNCHANGED <<alignedAddress, stubEnd>>
        /\ reference.numberOfEntries # reference.maxElementsBeforeResize
    BY <1>6 DEF StubFits, stubVars
  <2>2. RefPhase'
    BY <1>1, <1>2, <2>1, PhaseKept DEF RefPhase
  <2>3. reference.numberOfEntries < reference.maxElementsBeforeResize
    BY <1>1, <2>1, RoomInTable DEF RefRoom, HashInv
  <2>4. RefRoom'
    BY <1>1, <1>2, <2>1, <2>3 DEF RefRoom
  <2>5. ReferenceTodo' = ReferenceTodo /\ ReferenceLines' = ReferenceLines
    BY <2>1, <1>2, <1>4 DEF ReferenceTodo, ReferenceLines
  <2>6. Agreement'
    BY <2>5, AgreementKept
  <2> QED BY <1>3, <2>2, <2>4, <2>6 DEF RefInv
<1> QED BY <1>5, <1>6

LEMMA InsertStep ==
    ASSUME RefInv, UNCHANGED vars, InsertStub
    PROVE  RefInv'
<1>1. /\ HashInv(reference) /\ RefPhase /\ RefRoom
  BY DEF RefInv, HashInv
<1>2. /\ hpc = "insert" /\ hpc' = "stubs" /\ reference' = InsertAligned(reference, alignedAddress)
      /\ alignedAddress' = alignedAddress + Coverage /\ UNCHANGED <<stubEnd, original, copied>>
  BY DEF InsertStub, resizeVars
<1>3. /\ alignedAddress \in Nat \ {0} /\ alignedAddress % Coverage = 0 /\ stubEnd \in Nat
      /\ alignedAddress < stubEnd /\ reference.numberOfEntries < reference.maxElementsBeforeResize
      /\ Coverage \in Nat \ {0}
  BY <1>1, <1>2, ThresholdAssumption DEF RefPhase, RefRoom
<1>4. /\ HashInv(reference') /\ SetLines(reference') = SetLines(reference) \cup {alignedAddress}
      /\ reference'.numberOfEntries <= reference'.maxElementsBeforeResize
  BY <1>1, <1>2, <1>3, InsertKeeps
<1>5. RefPhase'
  <2>1. (alignedAddress + Coverage) % Coverage = 0
    BY <1>3, MultipleNext
  <2> QED BY <2>1, <1>1, <1>2, <1>3, PhaseKept
<1>6. RefRoom'
  BY <1>2, <1>4 DEF RefRoom
<1>7. ReferenceLines' \cup ReferenceTodo' = ReferenceLines \cup ReferenceTodo
  <2>1. {x \in alignedAddress .. stubEnd - 1 : x % Coverage = 0}
          = {alignedAddress} \cup {x \in alignedAddress + Coverage .. stubEnd - 1 : x % Coverage = 0}
    BY <1>3, FirstMultiple
  <2>2. ReferenceLines = SetLines(reference) /\ ReferenceLines' = SetLines(reference')
    BY <1>2 DEF ReferenceLines
  <2>3. /\ ReferenceTodo = {x \in alignedAddress .. stubEnd - 1 : x % Coverage = 0}
        /\ ReferenceTodo' = {x \in alignedAddress + Coverage .. stubEnd - 1 : x % Coverage = 0}
    BY <1>2 DEF ReferenceTodo
  <2> QED BY <2>1, <2>2, <2>3, <1>4
<1>8. Agreement'
  BY <1>7, AgreementKept
<1> QED BY <1>4, <1>5, <1>6, <1>8 DEF RefInv, HashInv

(* address_hash_set_resize: a larger table is empty, and has room for all
   lines of the old one and one more. *)
LEMMA ResizeStep ==
    ASSUME RefInv, UNCHANGED vars, Resize
    PROVE  RefInv'
<1>1. /\ HashInv(reference) /\ RefPhase /\ RefRoom
  BY DEF RefInv, HashInv
<1>2. /\ hpc = "stubs" /\ hpc' = "resize" /\ alignedAddress < stubEnd
      /\ reference.numberOfEntries = reference.maxElementsBeforeResize
      /\ original' = reference.setOfEntries /\ copied' = 0
      /\ UNCHANGED <<alignedAddress, stubEnd>>
  BY DEF Resize, stubVars
<1>3. PICK n \in Nat \ {0} : n = reference.size
  BY <1>1, RoomInTable
<1>4. PICK c \in Nat, d \in Nat, r \in Nat :
          /\ c = reference.numberOfCollisions /\ d = reference.numberOfDuplicates
          /\ r = reference.numberOfResizes + 1 /\ d <= c
  BY <1>1 DEF HashInv, HashTypes, HashOK
<1>5. PICK g : g = reference'
  OBVIOUS
<1>6. g = [size |-> 2 * n, maxElementsBeforeResize |-> MaxElements(2 * n),
           setOfEntries |-> [k \in 0 .. (2 * n) - 1 |-> 0], numberOfEntries |-> 0,
           numberOfCollisions |-> c, numberOfDuplicates |-> d, numberOfResizes |-> r]
  BY <1>3, <1>4, <1>5 DEF Resize, Initialise
<1>7. /\ g.size = 2 * n /\ g.maxElementsBeforeResize = MaxElements(2 * n)
      /\ g.setOfEntries = [k \in 0 .. (2 * n) - 1 |-> 0] /\ g.numberOfEntries = 0
      /\ g.numberOfCollisions = c /\ g.numberOfDuplicates = d /\ g.numberOfResizes = r
  BY <1>6
<1>8. HashTypes(g)
  BY <1>6, <1>7 DEF HashTypes, SlotsOf
<1>9. HashOK(g) /\ SetLines(g) = {}
  BY <1>4, <1>7, <1>8, EmptyHashSet DEF SlotsOf
<1>10. /\ reference.maxElementsBeforeResize = MaxElements(n)
       /\ (2 * n * ThresholdNum) % ThresholdDen = 0
  BY <1>1, <1>3 DEF HashInv, SizeOK
<1>11. MaxElements(n) < MaxElements(2 * n) /\ (2 * (2 * n) * ThresholdNum) % ThresholdDen = 0
  BY <1>10, ThresholdGrows
<1>12. SizeOK(g)
  BY <1>7, <1>11 DEF SizeOK
<1>13. RefPhase'
  BY <1>1, <1>2, PhaseKept DEF RefPhase
<1>14. /\ reference.setOfEntries \in [0 .. n - 1 -> Nat]
       /\ SetLines(reference) = LinesIn(reference.setOfEntries, 0 .. n - 1)
       /\ Cardinality(SetLines(reference)) = MaxElements(n)
  BY <1>1, <1>2, <1>3, <1>10, SetLinesIn DEF HashInv, HashTypes, HashOK, SlotsOf
<1>15. RefRoom'
  <2>1. MaxElements(2 * n) \in Nat
    BY ThresholdFits
  <2>2. g.numberOfEntries <= g.maxElementsBeforeResize
    BY <2>1, <1>7
  <2>3. /\ original' \in [0 .. n - 1 -> Nat] /\ copied' \in 0 .. n
        /\ Cardinality(LinesIn(original', 0 .. n - 1)) < g.maxElementsBeforeResize
    BY <1>2, <1>7, <1>11, <1>14
  <2>4. LinesIn(original', 0 .. copied' - 1) = {}
    <3>1. 0 .. 0 - 1 = {}
      OBVIOUS
    <3> QED BY <3>1, <1>2 DEF LinesIn
  <2> QED BY <2>2, <2>3, <2>4, <1>2, <1>5, <1>9 DEF RefRoom
<1>16. ReferenceLines' = ReferenceLines /\ ReferenceTodo' = ReferenceTodo
  <2>1. DOMAIN original' = 0 .. n - 1
    BY <1>2, <1>14
  <2> QED BY <2>1, <1>2, <1>14 DEF ReferenceLines, ReferenceTodo
<1>17. Agreement'
  BY <1>16, AgreementKept
<1> QED BY <1>5, <1>8, <1>9, <1>12, <1>13, <1>15, <1>17 DEF RefInv

(* Its loop: the copied slots' lines are in the new table. *)
LEMMA CopyStep ==
    ASSUME RefInv, UNCHANGED vars, CopyEntry
    PROVE  RefInv'
<1>1. /\ HashInv(reference) /\ RefPhase /\ RefRoom
  BY DEF RefInv, HashInv
<1>2. /\ hpc = "resize" /\ hpc' = "resize" /\ copied' = copied + 1 /\ copied \in DOMAIN original
      /\ UNCHANGED <<alignedAddress, stubEnd, original>>
  BY DEF CopyEntry, stubVars
<1>3. PICK n \in Nat :
          /\ original \in [0 .. n - 1 -> Nat] /\ copied \in 0 .. n
          /\ Cardinality(LinesIn(original, 0 .. n - 1)) < reference.maxElementsBeforeResize
          /\ SetLines(reference) = LinesIn(original, 0 .. copied - 1)
  BY <1>1, <1>2 DEF RefRoom
<1>4. PICK k \in 0 .. n - 1 : k = copied
  BY <1>2, <1>3
<1>5. PICK line \in Nat : line = original[k]
  BY <1>3
<1>6. SetLines(reference) = LinesIn(original, 0 .. k - 1)
  BY <1>3, <1>4
<1>7. 0 .. (k + 1) - 1 = (0 .. k - 1) \cup {k} /\ 0 .. k \subseteq 0 .. n - 1 /\ 0 .. k - 1 \subseteq 0 .. n - 1
  OBVIOUS
<1>8. LinesIn(original, 0 .. (k + 1) - 1) = IF line # 0 THEN SetLines(reference) \cup {line}
                                           ELSE SetLines(reference)
  BY <1>5, <1>6, <1>7 DEF LinesIn
<1>9. reference.numberOfEntries < reference.maxElementsBeforeResize
  <2>1. Cardinality(LinesIn(original, 0 .. k - 1)) <= Cardinality(LinesIn(original, 0 .. n - 1))
        /\ Cardinality(LinesIn(original, 0 .. k - 1)) \in Nat
        /\ Cardinality(LinesIn(original, 0 .. n - 1)) \in Nat
    BY <1>3, <1>7, TableFinite
  <2>2. reference.numberOfEntries = Cardinality(LinesIn(original, 0 .. k - 1))
    BY <1>1, <1>6 DEF HashInv, HashOK
  <2> QED BY <2>1, <2>2, <1>1, <1>3, RoomInTable
<1>10. /\ HashInv(reference') /\ SetLines(reference') = LinesIn(original, 0 .. (k + 1) - 1)
       /\ reference'.maxElementsBeforeResize = reference.maxElementsBeforeResize
       /\ reference'.numberOfEntries <= reference'.maxElementsBeforeResize
  <2>1. CASE line # 0
    <3>1. reference' = InsertAligned(reference, line) /\ line \in Nat \ {0}
      BY <2>1, <1>4, <1>5 DEF CopyEntry
    <3> QED BY <3>1, <2>1, <1>1, <1>8, <1>9, InsertKeeps
  <2>2. CASE line = 0
    <3>1. reference' = reference
      BY <2>2, <1>4, <1>5 DEF CopyEntry
    <3> QED BY <3>1, <2>2, <1>1, <1>8 DEF RefRoom
  <2> QED BY <2>1, <2>2
<1>11. RefPhase'
  BY <1>1, <1>2, PhaseKept DEF RefPhase
<1>12. RefRoom'
  <2>1. k + 1 \in 0 .. n /\ copied' = k + 1
    BY <1>2, <1>4
  <2> QED BY <2>1, <1>2, <1>3, <1>10 DEF RefRoom
<1>13. ReferenceLines' = ReferenceLines /\ ReferenceTodo' = ReferenceTodo
  BY <1>2 DEF ReferenceLines, ReferenceTodo
<1>14. Agreement'
  BY <1>13, AgreementKept
<1> QED BY <1>10, <1>11, <1>12, <1>14 DEF RefInv, HashInv

(* Its end: the new table has the lines of the old one. *)
LEMMA ResizeEndStep ==
    ASSUME RefInv, UNCHANGED vars, ResizeDone
    PROVE  RefInv'
<1>1. /\ HashInv(reference) /\ RefPhase /\ RefRoom
  BY DEF RefInv, HashInv
<1>2. /\ hpc = "resize" /\ hpc' = "insert" /\ copied \notin DOMAIN original
      /\ UNCHANGED <<alignedAddress, stubEnd, reference>>
  BY DEF ResizeDone, stubVars
<1>3. PICK n \in Nat :
          /\ original \in [0 .. n - 1 -> Nat] /\ copied \in 0 .. n
          /\ Cardinality(LinesIn(original, 0 .. n - 1)) < reference.maxElementsBeforeResize
          /\ SetLines(reference) = LinesIn(original, 0 .. copied - 1)
  BY <1>1, <1>2 DEF RefRoom
<1>4. copied = n /\ DOMAIN original = 0 .. n - 1
  BY <1>2, <1>3
<1>5. HashInv(reference')
  BY <1>1, <1>2
<1>6. RefPhase'
  BY <1>1, <1>2, PhaseKept DEF RefPhase
<1>7. RefRoom'
  <2>1. reference.numberOfEntries = Cardinality(LinesIn(original, 0 .. n - 1))
    BY <1>1, <1>3, <1>4 DEF HashInv, HashOK
  <2> QED BY <2>1, <1>1, <1>2, <1>3, RoomInTable DEF RefRoom
<1>8. ReferenceLines' = ReferenceLines /\ ReferenceTodo' = ReferenceTodo
  BY <1>2, <1>3, <1>4 DEF ReferenceLines, ReferenceTodo
<1>9. Agreement'
  BY <1>8, AgreementKept
<1> QED BY <1>5, <1>6, <1>7, <1>9 DEF RefInv, HashInv

LEMMA ReferenceSteps ==
    ASSUME RefInv, UNCHANGED vars, ReferenceStep
    PROVE  RefInv'
BY StubSteps, InsertStep, ResizeStep, CopyStep, ResizeEndStep DEF ReferenceStep

-----------------------------------------------------------------------------
(***************************************************************************)
(* The steps of the inserted code and of the application.                  *)
(***************************************************************************)

(* Where the reference does not move, only the label and the lines matter. *)
LEMMA IdleKept ==
    ASSUME RefInv, hpc = "idle", UNCHANGED hashSetVars, RefPhase',
           (inSection /\ build = "dedup" /\ pc \notin {"memcpys", "collect"})' =>
               /\ inSection /\ build = "dedup" /\ pc \notin {"memcpys", "collect"}
               /\ Blocks(Lines') \cup TableTodo' = Blocks(Lines) \cup TableTodo
    PROVE  RefInv'
<1>1. UNCHANGED <<reference, hpc, alignedAddress, stubEnd, original, copied>>
  BY DEF hashSetVars, stubVars, resizeVars
<1>2. HashTypes(reference)' /\ HashOK(reference)' /\ SizeOK(reference)'
  BY <1>1 DEF RefInv
<1>3. RefRoom'
  BY <1>1 DEF RefInv, RefRoom
<1>4. ReferenceLines' = ReferenceLines /\ ReferenceTodo' = ReferenceTodo
  BY <1>1 DEF ReferenceLines, ReferenceTodo
<1>5. Agreement'
  <2> SUFFICES ASSUME (inSection /\ build = "dedup" /\ pc \notin {"memcpys", "collect"})'
               PROVE  Blocks(Lines') \cup TableTodo' = ReferenceLines' \cup ReferenceTodo'
    BY DEF Agreement, Blocks
  <2>1. Blocks(Lines) \cup TableTodo = ReferenceLines \cup ReferenceTodo
    BY DEF RefInv, Agreement
  <2> QED BY <2>1, <1>4
<1> QED BY <1>2, <1>3, <1>5 DEF RefInv

(* The label and the registers of an idle reference. *)
LEMMA IdlePhase ==
    ASSUME RefInv, hpc = "idle", UNCHANGED hashSetVars,
           pc' \in {"insert_stubs", "try_to_insert"} => dest' % LineSize = 0,
           pc' = "try_to_insert" => dest' < range'
    PROVE  RefPhase'
BY DEF RefInv, RefPhase, hashSetVars, stubVars

(* The insertion loop: the line goes from what is to do to the table. *)
LEMMA InsertLoop ==
    ASSUME CollectorInv, RefInv, hpc = "idle", UNCHANGED hashSetVars, InsertStubs \/ TryToInsert
    PROVE  RefInv'
<1>1. /\ CTypes /\ dest \in Nat /\ range \in Nat /\ LineSize \in Nat \ {0} /\ DOMAIN hash_set_entries = Table
      /\ hash_set_entries \in [Table -> Nat] /\ Slot \in Table /\ LowLimit \in Nat
  BY TableTypes, LinesFinite DEF CollectorInv
<1>2. pc \in {"insert_stubs", "try_to_insert"} => dest % LineSize = 0
  BY DEF RefInv, RefPhase
<1>3. CASE InsertStubs
  <2>1. /\ pc = "insert_stubs" /\ UNCHANGED <<inSection, build, dest, range, hash_set_entries>>
        /\ \/ dest >= range /\ pc' = "write"
           \/ dest < range /\ pc' = "try_to_insert"
    BY <1>3 DEF InsertStubs, history, tableVars
  <2>2. Blocks(Lines') = Blocks(Lines)
    BY <2>1 DEF Lines
  <2>3. RefPhase'
    BY <1>2, <2>1, IdlePhase
  <2>4. TableTodo' = TableTodo
    <3>1. CASE dest >= range /\ pc' = "write"
      <4>1. dest .. range - 1 = {}
        BY <1>1, <3>1
      <4> QED BY <4>1, <3>1, <2>1 DEF TableTodo, Blocks
    <3>2. CASE dest < range /\ pc' = "try_to_insert"
      BY <3>2, <2>1 DEF TableTodo, Blocks
    <3> QED BY <2>1, <3>1, <3>2
  <2> QED BY <2>1, <2>2, <2>3, <2>4, IdleKept
<1>4. CASE TryToInsert
  <2>1. /\ pc = "try_to_insert" /\ UNCHANGED <<inSection, build, range>>
        /\ StoreLine \/ Duplicate \/ CheckNextIndex
    BY <1>4 DEF TryToInsert, history
  <2>2. dest > LowLimit /\ dest % LineSize = 0 /\ dest < range
    BY <2>1 DEF CollectorInv, ProbeInv, RefInv, RefPhase
  <2>3. CASE CheckNextIndex
    <3>1. UNCHANGED <<hash_set_entries, dest, pc>>
      BY <2>3 DEF CheckNextIndex
    <3>2. Blocks(Lines') = Blocks(Lines) /\ TableTodo' = TableTodo
      BY <2>1, <3>1 DEF Lines, TableTodo, Blocks
    <3>3. RefPhase'
      BY <2>1, <2>2, <3>1, IdlePhase
    <3> QED BY <2>1, <3>1, <3>2, <3>3, IdleKept
  <2>4. CASE StoreLine \/ Duplicate
    <3>1. dest' = dest + LineSize /\ pc' = "insert_stubs"
      BY <2>4 DEF StoreLine, Duplicate, NextLine
    <3>2. Lines' = Lines \cup {dest}
      <4>1. CASE StoreLine
        <5>1. hash_set_entries' = [hash_set_entries EXCEPT ![Slot] = dest] /\ hash_set_entries[Slot] = 0
          BY <4>1 DEF StoreLine
        <5>2. /\ DOMAIN hash_set_entries' = Table
              /\ \A k \in Table : hash_set_entries'[k] = IF k = Slot THEN dest ELSE hash_set_entries[k]
          BY <1>1, <5>1
        <5> QED BY <1>1, <2>2, <5>1, <5>2 DEF Lines
      <4>2. CASE Duplicate
        <5>1. hash_set_entries' = hash_set_entries /\ hash_set_entries[Slot] = dest
          BY <4>2 DEF Duplicate
        <5> QED BY <1>1, <2>2, <5>1 DEF Lines
      <4> QED BY <2>4, <4>1, <4>2
    <3>3. {x \in dest .. range - 1 : x % LineSize = 0}
            = {dest} \cup {x \in dest + LineSize .. range - 1 : x % LineSize = 0}
      <4>1. /\ dest \in Nat /\ range \in Nat /\ LineSize \in Nat \ {0}
            /\ dest % LineSize = 0 /\ dest < range
        BY <1>1, <2>2
      <4> QED BY <4>1, FirstMultiple
    <3>4. Blocks(Lines') = Blocks(Lines) \cup Blocks({dest})
      BY <3>2, BlocksUnion
    <3>5. TableTodo = Blocks({dest}) \cup TableTodo'
      <4>1. TableTodo = Blocks({x \in dest .. range - 1 : x % LineSize = 0})
        BY <2>1 DEF TableTodo
      <4>2. TableTodo' = Blocks({x \in dest + LineSize .. range - 1 : x % LineSize = 0})
        BY <2>1, <3>1 DEF TableTodo, Blocks
      <4> QED BY <4>1, <4>2, <3>3, BlocksUnion
    <3>6. RefPhase'
      <4>1. (dest + LineSize) % LineSize = 0
        BY <1>1, <2>2, MultipleNext
      <4> QED BY <4>1, <3>1, IdlePhase
    <3> QED BY <2>1, <3>1, <3>4, <3>5, <3>6, IdleKept
  <2> QED BY <2>1, <2>3, <2>4
<1> QED BY <1>3, <1>4

(* The store itself, instrument_stop, reset_hash_set and memcpys: neither the
   table nor the reference takes in a line. *)
LEMMA OtherSteps ==
    ASSUME CollectorInv, RefInv, hpc = "idle", UNCHANGED hashSetVars,
           \/ Write \/ LogMemcpy \/ MemcpysLogged \/ Collect \/ StopEnd
           \/ InstrumentStop \/ ResetHashSet
           \/ \E r \in CopyRanges : InstrumentedMemcpy(r)
    PROVE  RefInv'
<1>1. CASE Write \/ \E r \in CopyRanges : InstrumentedMemcpy(r)
  <2>1. /\ pc \in {"write", "app"} /\ pc' = "app" /\ UNCHANGED <<inSection, build, hash_set_entries>>
    BY <1>1 DEF Write, InstrumentedMemcpy, tableVars
  <2>2. Blocks(Lines') = Blocks(Lines) /\ TableTodo' = {} /\ TableTodo = {}
    BY <2>1 DEF Lines, TableTodo
  <2>3. RefPhase'
    BY <2>1, IdlePhase
  <2> QED BY <2>1, <2>2, <2>3, IdleKept
<1>2. CASE LogMemcpy \/ MemcpysLogged \/ Collect \/ InstrumentStop
  <2>1. pc' \in {"memcpys", "collect"}
    BY <1>2 DEF LogMemcpy, MemcpysLogged, Collect, InstrumentStop
  <2>2. RefPhase'
    BY <2>1, IdlePhase
  <2> QED BY <2>1, <2>2, IdleKept
<1>3. CASE StopEnd \/ ResetHashSet
  <2>1. pc' = "app" /\ ~inSection'
    BY <1>3 DEF StopEnd, ResetHashSet, history, CollectorInv, CTypes, CollectorTypeOK
  <2>2. RefPhase'
    BY <2>1, IdlePhase
  <2> QED BY <2>1, <2>2, IdleKept
<1> QED BY <1>1, <1>2, <1>3

(* instrument_start: both start empty. *)
LEMMA StartStep ==
    ASSUME CollectorInv, RefInv, RefStart
    PROVE  RefInv'
<1>1. /\ pc = "app" /\ pc' = "app" /\ ~inSection /\ hash_set_entries' = hash_set_entries
      /\ hpc = "idle" /\ hpc' = "idle" /\ UNCHANGED <<alignedAddress, stubEnd>>
  BY DEF RefStart, InstrumentStart, ResetReference, tableVars, stubVars
<1>2. PICK n \in Nat \ {0} : n = reference.size
  BY DEF RefInv, HashTypes
<1>3. reference' = Initialise(n)
  BY <1>2 DEF RefStart, ResetReference, Reset
<1>4. /\ HashTypes(reference') /\ HashOK(reference') /\ SetLines(reference') = {}
      /\ reference'.size = n /\ reference'.numberOfEntries = 0
      /\ reference'.maxElementsBeforeResize = MaxElements(n)
  BY <1>3, InitialiseIsEmpty
<1>5. SizeOK(reference')
  BY <1>2, <1>4 DEF RefInv, SizeOK
<1>6. RefPhase'
  BY <1>1 DEF RefInv, RefPhase
<1>7. RefRoom'
  BY <1>1, <1>4, ThresholdFits DEF RefRoom
<1>8. Agreement'
  <2>1. Lines' = {}
    BY <1>1, LinesFinite DEF CollectorInv, ProbeInv, Lines
  <2>2. Blocks(Lines') = {}
    BY <2>1, BlocksUnion
  <2>3. TableTodo' = {} /\ ReferenceTodo' = {} /\ ReferenceLines' = {}
    BY <1>1, <1>4 DEF TableTodo, ReferenceTodo, ReferenceLines
  <2> QED BY <2>2, <2>3 DEF Agreement, Blocks
<1> QED BY <1>4, <1>5, <1>6, <1>7, <1>8 DEF RefInv

(* A store: the lines that the table has to take in lie in the blocks that the
   reference has to take in. *)
LEMMA StoreStep ==
    ASSUME CollectorInv, RefInv, NEW r \in StoreRanges, RefStore(r)
    PROVE  RefInv'
<1>1. /\ pc = "app" /\ hpc = "idle" /\ UNCHANGED <<build, inSection>>
      /\ SkipStore \/ AlignStore(r) \/ RecordStore(r)
  BY DEF RefStore, BeginStore, RefInv, RefPhase
<1>2. inSection \in BOOLEAN /\ (CombinerWord # 0) = inSection
  BY <1>1 DEF CollectorInv, CTypes, CollectorTypeOK, PhaseInv, CombinerWord
<1>3. CASE ~(CombinerWord # 0 /\ build = "dedup")
  <2>1. UNCHANGED hashSetVars
    BY <1>3 DEF RefStore
  <2>2. pc' = "write" /\ ~(inSection' /\ build' = "dedup")
    BY <1>1, <1>2, <1>3 DEF SkipStore, RecordStore, AlignStore
  <2>3. RefPhase'
    BY <1>1, <2>1, <2>2, IdlePhase
  <2> QED BY <1>1, <2>1, <2>2, <2>3, IdleKept
<1>4. CASE CombinerWord # 0 /\ build = "dedup"
  <2>1. /\ alignedAddress' = Aligned(r.addr, Coverage) /\ stubEnd' = r.addr + r.size
        /\ hpc' = "stubs" /\ UNCHANGED <<reference, original, copied>>
    BY <1>4 DEF RefStore, AddRedoLogStub, Aligned, resizeVars
  <2>2. /\ dest' = Aligned(r.addr, LineSize) /\ range' = r.addr + r.size /\ pc' = "insert_stubs"
        /\ hash_set_entries' = hash_set_entries /\ inSection
    BY <1>1, <1>2, <1>4 DEF SkipStore, RecordStore, AlignStore, tableVars
  <2>3. r.addr \in Nat /\ r.size \in Nat /\ r.size > 0 /\ r.addr >= Coverage
    BY WorkloadAssumption, CoverageAssumption DEF Ranges
  <2>4. Coverage \in Nat \ {0} /\ LineSize \in Nat \ {0} /\ Coverage % Coverage = 0
    <3>1. Coverage \in Nat \ {0} /\ LineSize \in Nat \ {0}
      BY ThresholdAssumption, TableAssumption
    <3>2. Coverage % Coverage = 0
      BY <3>1
    <3> QED BY <3>1, <3>2
  <2>5. /\ Aligned(r.addr, Coverage) \in Nat /\ Coverage <= Aligned(r.addr, Coverage)
        /\ Aligned(r.addr, Coverage) % Coverage = 0
        /\ Aligned(r.addr, LineSize) % LineSize = 0
    BY <2>3, <2>4, AlignedBlock
  <2>6. RefPhase'
    <3>1. r.addr + r.size \in Nat /\ Aligned(r.addr, Coverage) > 0
      BY <2>3, <2>4, <2>5
    <3> QED BY <3>1, <1>1, <1>4, <2>1, <2>2, <2>5 DEF RefPhase
  <2>7. HashTypes(reference)' /\ HashOK(reference)' /\ SizeOK(reference)'
    BY <2>1 DEF RefInv
  <2>8. RefRoom'
    BY <1>1, <2>1 DEF RefInv, RefRoom
  <2>9. Blocks(Lines) = SetLines(reference)
    BY <1>1, <1>4, <2>2 DEF RefInv, Agreement, TableTodo, ReferenceTodo, ReferenceLines
  <2>10. Blocks(Lines') = Blocks(Lines) /\ ReferenceLines' = SetLines(reference)
    BY <2>1, <2>2 DEF Lines, ReferenceLines
  <2>11. TableTodo' = ReferenceTodo'
    <3>1. PICK line, block, end :
              line = Aligned(r.addr, LineSize) /\ block = Aligned(r.addr, Coverage)
              /\ end = r.addr + r.size
      OBVIOUS
    <3>2. Blocks({a \in line .. end - 1 : a % LineSize = 0}) = {a \in block .. end - 1 : a % Coverage = 0}
      BY <2>3, <3>1, SameBlocks
    <3>3. dest' = line /\ range' = end /\ pc' = "insert_stubs"
      BY <2>2, <3>1
    <3>4. TableTodo' = Blocks({a \in line .. end - 1 : a % LineSize = 0})
      BY <3>3 DEF TableTodo, Blocks
    <3>5. alignedAddress' = block /\ stubEnd' = end /\ hpc' = "stubs"
      BY <2>1, <3>1
    <3>6. ReferenceTodo' = {a \in block .. end - 1 : a % Coverage = 0}
      BY <3>5 DEF ReferenceTodo
    <3> QED BY <3>2, <3>4, <3>6
  <2>12. Agreement'
    BY <2>9, <2>10, <2>11 DEF Agreement, Blocks
  <2> QED BY <2>6, <2>7, <2>8, <2>12 DEF RefInv
<1> QED BY <1>3, <1>4

-----------------------------------------------------------------------------
(* The collector beside its reference is the collector. *)
LEMMA ReferenceOnlyWatches ==
    RefSpec => Spec
<1>1. RefInit => Init
  BY DEF RefInit
<1>2. [RefNext]_refVars => [Next]_vars
  BY DEF RefNext, refVars, RefStart, RefStore, ClientStep, Next, Application
<1> QED BY <1>1, <1>2, PTL DEF RefSpec, Spec

(* The inductive invariant of hash_set.c beside the inserted code: every line
   where its probe ends, room for the next one, the growing table's lines, and
   what the store in progress still brings to either. *)
THEOREM ReferenceInvariant ==
    ASSUME Unset = {0}
    PROVE  RefSpec => [](CollectorInv /\ RefInv)
<1>1. RefInit => RefInv
  <2> SUFFICES ASSUME RefInit PROVE RefInv
    OBVIOUS
  <2>1. /\ reference = Initialise(InitialSize) /\ hpc = "idle" /\ alignedAddress = 0 /\ stubEnd = 0
        /\ pc = "app" /\ ~inSection
    BY DEF RefInit, Init, HashSetInit
  <2>2. InitialSize \in Nat \ {0} /\ (2 * InitialSize * ThresholdNum) % ThresholdDen = 0
    BY ThresholdAssumption
  <2>3. /\ HashTypes(reference) /\ HashOK(reference) /\ reference.size = InitialSize
        /\ reference.numberOfEntries = 0
        /\ reference.maxElementsBeforeResize = MaxElements(InitialSize)
    BY <2>1, <2>2, InitialiseIsEmpty
  <2>4. SizeOK(reference)
    BY <2>2, <2>3 DEF SizeOK
  <2>5. RefPhase /\ Agreement
    BY <2>1 DEF RefPhase, Agreement
  <2>6. RefRoom
    BY <2>1, <2>2, <2>3, ThresholdFits DEF RefRoom
  <2> QED BY <2>3, <2>4, <2>5, <2>6 DEF RefInv
<1>2. CollectorInv /\ RefInv /\ [RefNext]_refVars => RefInv'
  <2> SUFFICES ASSUME CollectorInv, RefInv, [RefNext]_refVars PROVE RefInv'
    OBVIOUS
  <2>1. pc = "app" => hpc = "idle"
    BY DEF RefInv, RefPhase
  <2>2. CASE RefStart
    BY <2>2, StartStep
  <2>3. CASE \E r \in StoreRanges : RefStore(r)
    BY <2>3, StoreStep
  <2>4. CASE (InstrumentStop \/ ResetHashSet) /\ UNCHANGED hashSetVars
    BY <2>1, <2>4, OtherSteps DEF InstrumentStop, ResetHashSet
  <2>5. CASE \E r \in CopyRanges : (InstrumentedMemcpy(r) \/ WrapPre(r)) /\ UNCHANGED hashSetVars
    BY <2>1, <2>5, OtherSteps DEF InstrumentedMemcpy, WrapPre
  <2>6. CASE ClientStep
    BY <2>6, InsertLoop, OtherSteps DEF ClientStep, Client
  <2>7. CASE ReferenceStep /\ UNCHANGED vars
    BY <2>7, ReferenceSteps
  <2>8. CASE UNCHANGED refVars
    <3>1. UNCHANGED vars /\ UNCHANGED <<reference, hpc, alignedAddress, stubEnd, original, copied>>
      BY <2>8 DEF refVars, hashSetVars, stubVars, resizeVars
    <3>2. Agreement'
      BY <3>1, AgreementKept DEF ReferenceLines, ReferenceTodo
    <3>3. RefPhase' /\ RefRoom'
      BY <3>1 DEF RefInv, RefPhase, RefRoom, vars, tableVars, registers, history
    <3> QED BY <3>1, <3>2, <3>3 DEF RefInv
  <2> QED BY <2>2, <2>3, <2>4, <2>5, <2>6, <2>7, <2>8 DEF RefNext
<1>3. Spec => []CollectorInv
  BY CollectorInvariant
<1> QED BY <1>1, <1>2, <1>3, ReferenceOnlyWatches, PTL DEF RefSpec

(* hash_set.c at every step of every store, also while its table grows: no
   block twice, every block where its probe from the home slot ends, never more
   entries than the threshold, which the table always has slots for, and the
   statistics right. *)
THEOREM ReferenceIsSound ==
    ASSUME Unset = {0}
    PROVE  RefSpec => []ReferenceSound
<1>1. RefInv => ReferenceSound
  <2> SUFFICES ASSUME RefInv PROVE ReferenceSound
    OBVIOUS
  <2>1. HashInv(reference) /\ HashTypes(reference) /\ HashOK(reference)
    BY DEF RefInv, HashInv
  <2>2. ASSUME NEW k \in DOMAIN reference.setOfEntries, reference.setOfEntries[k] # 0
        PROVE  ProbeSlot(reference, reference.setOfEntries[k],
                         Distance(reference, reference.setOfEntries[k])) = k
    <3>1. k \in SlotsOf(reference)
      BY <2>1, <2>2, SetLinesIn
    <3>2. PICK d \in SlotsOf(reference) :
              /\ FirstProcessed(reference, reference.setOfEntries[k], d)
              /\ ProbeSlot(reference, reference.setOfEntries[k], d) = k
      BY <3>1, <2>1, <2>2 DEF HashOK
    <3> QED BY <3>2, <2>1, DistanceIsFirst
  <2>3. reference.maxElementsBeforeResize <= reference.size
    BY <2>1, RoomInTable
  <2> QED BY <2>1, <2>2, <2>3 DEF ReferenceSound, HashOK, RefInv, RefRoom
<1> QED BY <1>1, ReferenceInvariant, PTL

(* Between two stores of a section, the table that the inserted code fills and
   the hash set of hash_set.c name the same blocks, for every pair of table
   sizes and every sequence of stores, however often the reference has grown. *)
THEOREM TableAgreesWithReference ==
    ASSUME Unset = {0}
    PROVE  RefSpec => []AgreesWithReference
<1>1. RefInv => AgreesWithReference
  <2> SUFFICES ASSUME RefInv, pc = "app", inSection, build = "dedup"
               PROVE  {Aligned(l, Coverage) : l \in Lines} = SetLines(reference)
    BY DEF AgreesWithReference
  <2>1. hpc = "idle"
    BY DEF RefInv, RefPhase
  <2>2. Blocks(Lines) \cup {} = SetLines(reference) \cup {}
    BY <2>1 DEF RefInv, Agreement, TableTodo, ReferenceLines, ReferenceTodo
  <2> QED BY <2>2 DEF Blocks
<1> QED BY <1>1, ReferenceInvariant, PTL
=============================================================================
