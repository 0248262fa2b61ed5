---------------------------- MODULE PackingProofs ----------------------------
(***************************************************************************)
(* The search returns a smallest carton that holds the order, for any      *)
(* cartons and items.  In the words and rounded numbers of module Measures *)
(* it is the same search, and wrong by less than a millimetre.             *)
(***************************************************************************)
EXTENDS Measures, FiniteSetTheorems, WellFoundedInduction, TLAPS

\* Rotations lead back and on.
LEMMA RotationsGroup ==
  ASSUME NEW d \in Dims, NEW r \in Rotations(d)
  PROVE  r \in Dims /\ d \in Rotations(r) /\ Rotations(r) = Rotations(d)
  <1>1. r \in Dims
    BY DEF Rotations, Dims
  <1>2. d = <<d[1], d[2], d[3]>>
    BY DEF Dims
  <1>3. d \in Rotations(r)
    BY <1>2 DEF Rotations
  <1>4. Rotations(r) = Rotations(d)
    BY DEF Rotations
  <1> QED BY <1>1, <1>3, <1>4

LEMMA SortIntsSorts ==
  ASSUME NEW d \in Dims
  PROVE  /\ SortInts(d) \in Rotations(d)
         /\ SortInts(d)[1] <= SortInts(d)[2]
         /\ SortInts(d)[2] <= SortInts(d)[3]
  <1>1. d[1] \in Nat /\ d[2] \in Nat /\ d[3] \in Nat
    BY DEF Dims
  <1>2. \E s \in Rotations(d) : s[1] <= s[2] /\ s[2] <= s[3]
    BY <1>1 DEF Rotations
  <1> QED BY <1>2 DEF SortInts

\* Comparing sorted dimensions finds out whether some rotation fits: no
\* arrangement is overlooked and none is invented.
THEOREM RotationsSuffice ==
  ASSUME NEW item, NEW carton, item.dims \in Dims, carton.dims \in Dims
  PROVE  itemFitsCarton(item, carton) <=> FitsTurned(item, carton)
  <1> DEFINE a == SortInts(item.dims)
             b == SortInts(carton.dims)
             c == carton.dims
  <1>1. /\ a \in Rotations(item.dims) /\ a[1] <= a[2] /\ a[2] <= a[3] /\ a \in Dims
        /\ Rotations(a) = Rotations(item.dims)
    BY SortIntsSorts, RotationsGroup
  <1>2. /\ b \in Rotations(c) /\ b[1] <= b[2] /\ b[2] <= b[3] /\ b \in Dims
        /\ c \in Rotations(b)
    BY SortIntsSorts, RotationsGroup
  <1> HIDE DEF a, b
  <1>3. ASSUME \A k \in 1 .. 3 : a[k] <= b[k]
        PROVE  \E d \in Rotations(a) : \A k \in 1 .. 3 : d[k] <= c[k]
    <2>1. a[1] <= b[1] /\ a[2] <= b[2] /\ a[3] <= b[3]
      BY <1>3
    <2> QED BY <1>2, <2>1 DEF Rotations
  <1>4. ASSUME NEW d \in Rotations(item.dims), \A k \in 1 .. 3 : d[k] <= c[k]
        PROVE  \A k \in 1 .. 3 : a[k] <= b[k]
    <2>1. d[1] <= c[1] /\ d[2] <= c[2] /\ d[3] <= c[3]
      BY <1>4
    <2>2. d \in Dims /\ a \in Rotations(d)
      BY <1>1, RotationsGroup
    <2>3. /\ d[1] \in Nat /\ d[2] \in Nat /\ d[3] \in Nat
          /\ c[1] \in Nat /\ c[2] \in Nat /\ c[3] \in Nat
      BY <2>2 DEF Dims
    <2>4. \/ a[1] = d[1] /\ a[2] = d[2] /\ a[3] = d[3]
          \/ a[1] = d[1] /\ a[2] = d[3] /\ a[3] = d[2]
          \/ a[1] = d[2] /\ a[2] = d[1] /\ a[3] = d[3]
          \/ a[1] = d[2] /\ a[2] = d[3] /\ a[3] = d[1]
          \/ a[1] = d[3] /\ a[2] = d[1] /\ a[3] = d[2]
          \/ a[1] = d[3] /\ a[2] = d[2] /\ a[3] = d[1]
      BY <2>2 DEF Rotations
    <2>5. \/ b[1] = c[1] /\ b[2] = c[2] /\ b[3] = c[3]
          \/ b[1] = c[1] /\ b[2] = c[3] /\ b[3] = c[2]
          \/ b[1] = c[2] /\ b[2] = c[1] /\ b[3] = c[3]
          \/ b[1] = c[2] /\ b[2] = c[3] /\ b[3] = c[1]
          \/ b[1] = c[3] /\ b[2] = c[1] /\ b[3] = c[2]
          \/ b[1] = c[3] /\ b[2] = c[2] /\ b[3] = c[1]
      BY <1>2 DEF Rotations
    <2>6. a[1] <= b[1] /\ a[2] <= b[2] /\ a[3] <= b[3]
      BY <1>1, <1>2, <2>1, <2>3, <2>4, <2>5
    <2> QED BY <2>6
  <1> QED BY <1>1, <1>3, <1>4 DEF itemFitsCarton, FitsTurned, a, b

LEMMA SuitableHolds ==
  ASSUME NEW carton \in Carton, NEW list \in Seq(Item)
  PROVE  Suitable(carton, list) <=> Holds(carton, list)
  <1>1. carton.dims \in Dims /\ \A k \in DOMAIN list : list[k].dims \in Dims
    <2>1. ASSUME NEW k \in DOMAIN list PROVE list[k] \in Item
      OBVIOUS
    <2> QED BY <2>1 DEF Carton, Item
  <1>2. \A k \in DOMAIN list : itemFitsCarton(list[k], carton) <=> FitsTurned(list[k], carton)
    BY <1>1, RotationsSuffice
  <1> QED BY <1>2 DEF Suitable, Holds

\* The cartons passed over hold nothing, and the search stops at one that does.
IInv ==
  /\ cartons \in Seq(Carton) /\ ByVolume(cartons)
  /\ items \in Seq(Item)
  /\ i \in Nat \ {0}
  /\ \A k \in 1 .. Len(cartons) : k < i => ~Suitable(cartons[k], items)
  /\ \/ result = -1
     \/ result = 0 /\ i > Len(cartons)
     \/ result = i /\ i <= Len(cartons) /\ Suitable(cartons[i], items)

LEMMA InitIInv == Init => IInv
  <1> SUFFICES ASSUME Init PROVE IInv
    OBVIOUS
  <1>1. cartons \in Seq(Carton)
    BY PackingAssumption DEF Init
  <1> QED BY <1>1, PackingAssumption DEF Init, IInv

LEMMA Inductive == IInv /\ [Next]_vars => IInv'
  <1> SUFFICES ASSUME IInv, [Next]_vars PROVE IInv'
    OBVIOUS
  <1> USE DEF IInv, ByVolume
  <1>1. CASE TryNext
    BY <1>1 DEF TryNext, Searching
  <1>2. CASE Found
    BY <1>2 DEF Found, Searching
  <1>3. CASE NotFound
    BY <1>3 DEF NotFound
  <1>4. CASE UNCHANGED vars
    BY <1>4 DEF vars
  <1> QED BY <1>1, <1>2, <1>3, <1>4 DEF Next

LEMMA Invariance == Spec => []IInv
  BY InitIInv, Inductive, PTL DEF Spec

LEMMA Correct == IInv => FoundIsSmallest /\ NilMeansNone
  <1> SUFFICES ASSUME IInv PROVE FoundIsSmallest /\ NilMeansNone
    OBVIOUS
  <1>1. \A k \in 1 .. Len(cartons) :
          cartons[k] \in Carton /\ (Suitable(cartons[k], items) <=> Holds(cartons[k], items))
    BY SuitableHolds DEF IInv
  <1>2. NilMeansNone
    BY <1>1 DEF IInv, NilMeansNone
  <1>3. ASSUME result > 0 PROVE FoundIsSmallest
    <2>1. result = i /\ i \in 1 .. Len(cartons) /\ Suitable(cartons[i], items)
      BY <1>3 DEF IInv
    <2>2. ASSUME NEW k \in 1 .. Len(cartons), Holds(cartons[k], items)
          PROVE  Volume(cartons[i].dims) <= Volume(cartons[k].dims)
      <3>1. i <= k
        BY <1>1, <2>1, <2>2 DEF IInv
      <3>2. Volume(cartons[i].dims) \in Nat
        <4>1. cartons[i].dims \in Dims
          BY <1>1, <2>1 DEF Carton
        <4>2. \A x, y, z \in Nat : x * y * z \in Nat
          OBVIOUS
        <4> QED BY <4>1, <4>2 DEF Volume, Dims
      <3>3. CASE i = k
        BY <3>2, <3>3
      <3>4. CASE i < k
        BY <2>1, <3>4 DEF IInv, ByVolume
      <3> QED BY <2>1, <3>1, <3>3, <3>4
    <2>3. Holds(cartons[i], items)
      BY <1>1, <2>1
    <2> QED BY <2>1, <2>2, <2>3 DEF FoundIsSmallest
  <1> QED BY <1>2, <1>3 DEF FoundIsSmallest

\* The carton found holds the order, and no smaller active carton does.
THEOREM FoundIsSmallestAlways == Spec => []FoundIsSmallest
  BY Invariance, Correct, PTL

\* An order is given up only if no active carton holds it.
THEOREM NilMeansNoneAlways == Spec => []NilMeansNone
  BY Invariance, Correct, PTL

-----------------------------------------------------------------------------
(* Rounding, on the numbers of module Measures *)

\* A turn of a list's positions comes by each of them.
LEMMA TurnsMeetAll ==
  ASSUME NEW n \in Nat, NEW S \in SUBSET (1 .. n), NEW turn \in SetToSeqs(S), NEW k \in S
  PROVE  \E j \in DOMAIN turn : turn[j] = k
  <1>1. IsFiniteSet(S) /\ Cardinality(S) \in Nat
    <2>1. IsFiniteSet(1 .. n)
      BY FS_Interval
    <2>2. IsFiniteSet(S)
      BY <2>1, FS_Subset
    <2> QED BY <2>2, FS_CardinalityType
  <1> DEFINE D == 1 .. Cardinality(S)
  <1>2. IsFiniteSet(D) /\ Cardinality(D) = Cardinality(S)
    BY <1>1, FS_Interval
  <1>3. turn \in [D -> S] /\ turn \in Injection(D, S)
    BY DEF SetToSeqs, Injection, IsInjective
  <1>4. turn \in Surjection(D, S)
    BY <1>1, <1>2, <1>3, FS_Injection
  <1> QED BY <1>3, <1>4 DEF Surjection

\* What a parsable item is stored as is among the items read back.
LEMMA EveryItemStored ==
  ASSUME NEW d \in Seq(RawItem), NEW list \in StoredItems(d), list # <<>>,
         NEW x \in Range(d), ItemParsable(x)
  PROVE  ItemStorable(ParsedItem(x)) /\ \E j \in DOMAIN list : list[j] = ParsedItem(x)
  <1> DEFINE parsable == {k \in DOMAIN d : ItemParsable(d[k])}
  <1>1. PICK k \in parsable : d[k] = x
    BY DEF Range
  <1>2. /\ \A l \in parsable : ItemStorable(ParsedItem(d[l]))
        /\ \E turn \in SetToSeqs(parsable) :
             list = [n \in DOMAIN turn |-> ParsedItem(d[turn[n]])]
    BY DEF StoredItems
  <1>3. PICK turn \in SetToSeqs(parsable) :
          list = [n \in DOMAIN turn |-> ParsedItem(d[turn[n]])]
    BY <1>2
  <1>4. PICK j \in DOMAIN turn : turn[j] = k
    <2>1. Len(d) \in Nat /\ parsable \in SUBSET (1 .. Len(d))
      OBVIOUS
    <2> QED BY <1>1, <2>1, TurnsMeetAll
  <1> QED BY <1>1, <1>2, <1>3, <1>4

Rounded(r) == (2 * r + Grain) \div (2 * Grain)

\* Rounding keeps the order, and moves a number by half a unit at most.
LEMMA RoundingBounds ==
  ASSUME NEW a \in Nat, NEW b \in Nat
  PROVE  /\ Rounded(a) \in Nat
         /\ a <= b => Rounded(a) <= Rounded(b)
         /\ Rounded(a) <= Rounded(b) => a < b + Grain
  <1> DEFINE G == 2 * Grain
  <1>0. Grain \in Nat /\ G \in Nat /\ G > 0
    BY MeasuresAssumption
  <1>1. ASSUME NEW r \in Nat, NEW g \in Nat, g > 0
        PROVE  /\ r \div g \in Nat
               /\ (r \div g) * g <= r
               /\ r < (r \div g) * g + g
    BY <1>1
  <1>2. ASSUME NEW q \in Nat, NEW p \in Nat, NEW g \in Nat, g > 0
        PROVE  /\ q * g \in Nat /\ p * g \in Nat
               /\ q <= p => q * g <= p * g
               /\ q < p => q * g + g <= p * g
    BY <1>2
  <1> HIDE DEF G
  <1>3. /\ Rounded(a) \in Nat /\ Rounded(b) \in Nat
        /\ Rounded(a) * G <= 2 * a + Grain /\ 2 * a + Grain < Rounded(a) * G + G
        /\ Rounded(b) * G <= 2 * b + Grain /\ 2 * b + Grain < Rounded(b) * G + G
    BY <1>0, <1>1 DEF Rounded, G
  <1> DEFINE x == Rounded(a) * G
             y == Rounded(b) * G
  <1>4. /\ x \in Nat /\ y \in Nat
        /\ Rounded(a) <= Rounded(b) => x <= y
        /\ Rounded(b) < Rounded(a) => y + G <= x
    <2> DEFINE q == Rounded(a)
               p == Rounded(b)
    <2>1. q \in Nat /\ p \in Nat
      BY <1>3
    <2> HIDE DEF q, p
    <2>2. /\ q * G \in Nat /\ p * G \in Nat
          /\ q <= p => q * G <= p * G
          /\ p < q => p * G + G <= q * G
      BY <1>0, <1>2, <2>1
    <2> QED BY <2>2 DEF q, p
  <1> HIDE DEF x, y
  <1>5. /\ x <= 2 * a + Grain /\ 2 * a + Grain < x + G
        /\ y <= 2 * b + Grain /\ 2 * b + Grain < y + G
    BY <1>3 DEF x, y
  <1>6. a <= b => ~(Rounded(b) < Rounded(a))
    BY <1>0, <1>4, <1>5
  <1>7. G = 2 * Grain
    BY DEF G
  <1>8. Rounded(a) <= Rounded(b) => a < b + Grain
    BY <1>0, <1>4, <1>5, <1>7
  <1> QED BY <1>3, <1>6, <1>8

\* What an INT4 column holds was a number.
LEMMA StoredIsNumber ==
  ASSUME NEW d \in Raw \X Raw \X Raw, DimsParsable(d), DimsStorable(ParsedDims(d))
  PROVE  /\ d \in Dims
         /\ \A k \in 1 .. 3 : ParsedDims(d)[k] = Rounded(d[k])
  <1>1. ASSUME NEW k \in 1 .. 3 PROVE d[k] \in Nat /\ ParsedDims(d)[k] = Rounded(d[k])
    <2>1. d[k] \in Raw /\ d[k] # Unparsable
      BY DEF DimsParsable
    <2>2. ParsedDims(d)[k] = parseDecimalToScaledInt(d[k])
      BY DEF ParsedDims
    <2>3. ParsedDims(d)[k] \in -Int4Max - 1 .. Int4Max
      BY DEF DimsStorable, Word
    <2>4. d[k] # NaN
      BY <2>2, <2>3, MeasuresAssumption DEF parseDecimalToScaledInt
    <2> QED BY <2>1, <2>2, <2>4 DEF Raw, parseDecimalToScaledInt, Rounded
  <1>2. d = <<d[1], d[2], d[3]>>
    OBVIOUS
  <1> QED BY <1>1, <1>2 DEF Dims

\* Three numbers have one order.
LEMMA SortedOnce ==
  ASSUME NEW d \in Dims, NEW s \in Rotations(d), s[1] <= s[2], s[2] <= s[3]
  PROVE  \A k \in 1 .. 3 : SortInts(d)[k] = s[k]
  <1> DEFINE t == SortInts(d)
  <1>1. t \in Rotations(d) /\ t[1] <= t[2] /\ t[2] <= t[3]
    BY SortIntsSorts
  <1>2. d[1] \in Nat /\ d[2] \in Nat /\ d[3] \in Nat
    BY DEF Dims
  <1> HIDE DEF t
  <1>3. \A r \in Rotations(d) :
          \/ r[1] = d[1] /\ r[2] = d[2] /\ r[3] = d[3]
          \/ r[1] = d[1] /\ r[2] = d[3] /\ r[3] = d[2]
          \/ r[1] = d[2] /\ r[2] = d[1] /\ r[3] = d[3]
          \/ r[1] = d[2] /\ r[2] = d[3] /\ r[3] = d[1]
          \/ r[1] = d[3] /\ r[2] = d[1] /\ r[3] = d[2]
          \/ r[1] = d[3] /\ r[2] = d[2] /\ r[3] = d[1]
    BY DEF Rotations
  <1>4. t[1] = s[1] /\ t[2] = s[2] /\ t[3] = s[3]
    BY <1>1, <1>2, <1>3
  <1> QED BY <1>4 DEF t

\* To round and then to sort is to sort and then to round.
LEMMA RoundingSorts ==
  ASSUME NEW d \in Raw \X Raw \X Raw, DimsParsable(d), DimsStorable(ParsedDims(d))
  PROVE  /\ SortInts(d) \in Dims
         /\ \A k \in 1 .. 3 : SortInts(ParsedDims(d))[k] = Rounded(SortInts(d)[k])
  <1> DEFINE s == SortInts(d)
             t == <<Rounded(s[1]), Rounded(s[2]), Rounded(s[3])>>
             e == <<Rounded(d[1]), Rounded(d[2]), Rounded(d[3])>>
  <1>1. d \in Dims /\ \A k \in 1 .. 3 : ParsedDims(d)[k] = Rounded(d[k])
    BY StoredIsNumber
  <1>2. s \in Rotations(d) /\ s \in Dims /\ s[1] <= s[2] /\ s[2] <= s[3]
    BY <1>1, SortIntsSorts, RotationsGroup
  <1> HIDE DEF s
  <1>3. s[1] \in Nat /\ s[2] \in Nat /\ s[3] \in Nat
        /\ d[1] \in Nat /\ d[2] \in Nat /\ d[3] \in Nat
    BY <1>1, <1>2 DEF Dims
  <1>4. t[1] <= t[2] /\ t[2] <= t[3]
    BY <1>2, <1>3, RoundingBounds
  <1>5. e \in Dims
    BY <1>3, RoundingBounds DEF Dims
  <1>6. ParsedDims(d) = e
    BY <1>1 DEF ParsedDims
  <1>7. t \in Rotations(e)
    <2>1. \/ s[1] = d[1] /\ s[2] = d[2] /\ s[3] = d[3]
          \/ s[1] = d[1] /\ s[2] = d[3] /\ s[3] = d[2]
          \/ s[1] = d[2] /\ s[2] = d[1] /\ s[3] = d[3]
          \/ s[1] = d[2] /\ s[2] = d[3] /\ s[3] = d[1]
          \/ s[1] = d[3] /\ s[2] = d[1] /\ s[3] = d[2]
          \/ s[1] = d[3] /\ s[2] = d[2] /\ s[3] = d[1]
      BY <1>2 DEF Rotations
    <2> QED BY <2>1 DEF Rotations
  <1>8. \A k \in 1 .. 3 : SortInts(e)[k] = t[k]
    BY <1>4, <1>5, <1>7, SortedOnce
  <1>9. \A k \in 1 .. 3 : t[k] = Rounded(s[k])
    OBVIOUS
  <1> QED BY <1>2, <1>6, <1>8, <1>9 DEF s

\* What fits when both are rounded sticks out by less than a millimetre.
THEOREM RoundingSlack ==
  ASSUME NEW d \in Raw \X Raw \X Raw, DimsParsable(d), DimsStorable(ParsedDims(d)),
         NEW c \in Raw \X Raw \X Raw, DimsParsable(c), DimsStorable(ParsedDims(c)),
         \A k \in 1 .. 3 : SortInts(ParsedDims(d))[k] <= SortInts(ParsedDims(c))[k]
  PROVE  \A k \in 1 .. 3 : SortInts(d)[k] < SortInts(c)[k] + Grain
  <1> TAKE k \in 1 .. 3
  <1>1. SortInts(d) \in Dims /\ SortInts(c) \in Dims
        /\ Rounded(SortInts(d)[k]) <= Rounded(SortInts(c)[k])
    BY RoundingSorts
  <1>2. SortInts(d)[k] \in Nat /\ SortInts(c)[k] \in Nat
    BY <1>1 DEF Dims
  <1> QED BY <1>1, <1>2, RoundingBounds

\* What the search has found holds what was read back, as rounded.
MeasuredInv ==
  /\ detail \in Details /\ offer \in Offers
  /\ items \in StoredItems(detail) /\ items # <<>>
  /\ result > 0 => \A k \in DOMAIN items : itemFitsCarton(items[k], cartons[result])

LEMMA MeasuredStep == MeasuredInv /\ [NextInWords]_measured => MeasuredInv'
  <1> SUFFICES ASSUME MeasuredInv, [NextInWords]_measured PROVE MeasuredInv'
    OBVIOUS
  <1> USE DEF MeasuredInv
  <1>1. CASE TryNextInWords /\ UNCHANGED <<detail, offer>>
    BY <1>1 DEF TryNextInWords
  <1>2. CASE FoundInWords /\ UNCHANGED <<detail, offer>>
    BY <1>2 DEF FoundInWords, SuitableInWords
  <1>3. CASE NotFound /\ UNCHANGED <<detail, offer>>
    BY <1>3 DEF NotFound
  <1>4. CASE UNCHANGED measured
    BY <1>4 DEF measured, vars
  <1> QED BY <1>1, <1>2, <1>3, <1>4 DEF NextInWords

\* An item that is judged to fit sticks out of the carton, as Flux measures
\* the two, by less than a millimetre on each side.
THEOREM RoundingIsSmallAlways == SpecInWords => []RoundingIsSmall
  <1>1. InitInWords => MeasuredInv
    BY DEF InitInWords, MeasuredInv
  <1>2. MeasuredInv => RoundingIsSmall
    <2> SUFFICES ASSUME MeasuredInv, result > 0,
                        NEW c \in Range(offer), NEW x \in Range(detail),
                        CartonKept(c), ParsedCarton(c) = cartons[result], ItemParsable(x)
                 PROVE  \A k \in 1 .. 3 : SortInts(x.dims)[k] < SortInts(c.dims)[k] + Grain
      BY DEF RoundingIsSmall
    <2>1. detail \in Seq(RawItem) /\ offer \in Seq(RawCarton)
      BY MeasuresAssumption DEF MeasuredInv
    <2>2. x \in RawItem /\ c \in RawCarton
      BY <2>1 DEF Range
    <2>3. ItemStorable(ParsedItem(x)) /\ \E j \in DOMAIN items : items[j] = ParsedItem(x)
      BY <2>1, EveryItemStored DEF MeasuredInv
    <2>4. itemFitsCarton(ParsedItem(x), ParsedCarton(c))
      BY <2>3 DEF MeasuredInv
    <2>5. \A k \in 1 .. 3 : SortInts(ParsedDims(x.dims))[k] <= SortInts(ParsedDims(c.dims))[k]
      BY <2>4 DEF itemFitsCarton, ParsedItem, ParsedCarton
    <2>6. /\ x.dims \in Raw \X Raw \X Raw /\ c.dims \in Raw \X Raw \X Raw
          /\ DimsParsable(x.dims) /\ DimsParsable(c.dims)
          /\ DimsStorable(ParsedDims(x.dims)) /\ DimsStorable(ParsedDims(c.dims))
      BY <2>2, <2>3 DEF RawItem, RawCarton, ItemParsable, CartonKept, ItemStorable, ParsedItem,
         ParsedCarton
    <2> QED BY <2>5, <2>6, RoundingSlack
  <1> QED BY <1>1, <1>2, MeasuredStep, PTL DEF SpecInWords

-----------------------------------------------------------------------------
(* Sums, for the totals of an order *)

\* A set of numbers has a least one; induction here is the search for the least
\* counterexample.
LEMMA LeastNumber ==
  ASSUME NEW T, T \subseteq Nat, T # {}
  PROVE  \E n \in T : \A m \in T : n <= m
  <1>1. PICK n \in T : \A m \in T : <<m, n>> \notin OpToRel(<, Nat)
    BY NatLessThanWellFounded, WFMin
  <1>2. ASSUME NEW m \in T PROVE n <= m
    <2>1. ~(m < n)
      BY <1>1 DEF OpToRel
    <2>2. m \in Nat /\ n \in Nat
      OBVIOUS
    <2> QED BY <2>1, <2>2
  <1> QED BY <1>2

LEMMA MaxIsMember ==
  ASSUME NEW n \in Nat, NEW s \in SUBSET (1 .. n), s # {}
  PROVE  Max(s) \in s
  <1> DEFINE T == {n - x : x \in s}
  <1>1. T \subseteq Nat /\ T # {}
    <2>1. \A x \in s : n - x \in Nat
      OBVIOUS
    <2> QED BY <2>1
  <1>2. PICK m \in T : \A k \in T : m <= k
    BY <1>1, LeastNumber
  <1>3. PICK x \in s : m = n - x
    BY <1>2
  <1>4. \A y \in s : x >= y
    <2> TAKE y \in s
    <2>1. n - x <= n - y
      BY <1>2, <1>3
    <2> QED BY <2>1
  <1> QED BY <1>4 DEF Max

\* g is the sum of the numbers t over every set of positions, as the community
\* modules fold: the largest position is added last.
IsSum(t, D, g) ==
  g = [s \in SUBSET D |-> IF s = {} THEN 0 ELSE g[s \ {Max(s)}] + t[Max(s)]]

\* A set of positions without its largest one.
LEMMA Smaller ==
  ASSUME NEW n \in Nat, NEW s \in SUBSET (1 .. n)
  PROVE  /\ Cardinality(s) \in Nat /\ Cardinality(s) <= n
         /\ Cardinality(s) = 0 <=> s = {}
         /\ s # {} => /\ Max(s) \in s /\ s \ {Max(s)} \in SUBSET (1 .. n)
                      /\ Cardinality(s \ {Max(s)}) = Cardinality(s) - 1
  <1>1. IsFiniteSet(1 .. n) /\ Cardinality(1 .. n) = n
    BY FS_Interval
  <1>2. IsFiniteSet(s) /\ Cardinality(s) <= n
    BY <1>1, FS_Subset
  <1>3. Cardinality(s) \in Nat /\ (Cardinality(s) = 0 <=> s = {})
    BY <1>2, FS_CardinalityType, FS_EmptySet
  <1>4. s # {} => Max(s) \in s
    BY MaxIsMember
  <1>5. s # {} => Cardinality(s \ {Max(s)}) = Cardinality(s) - 1
    BY <1>2, <1>4, FS_RemoveElement
  <1> QED BY <1>2, <1>3, <1>4, <1>5

\* The recursion defines something: sums over n positions come from sums over
\* fewer.
LEMMA SumExists ==
  ASSUME NEW n \in Nat, NEW t PROVE \E g : IsSum(t, 1 .. n, g)
  <1> DEFINE Small(k) == {s \in SUBSET (1 .. n) : Cardinality(s) <= k}
             Part(k, g) == g = [s \in Small(k) |-> IF s = {} THEN 0
                                                   ELSE g[s \ {Max(s)}] + t[Max(s)]]
             T == {k \in Nat : ~\E g : Part(k, g)}
  <1>1. ASSUME T = {} PROVE \E g : IsSum(t, 1 .. n, g)
    <2>1. PICK g : Part(n, g)
      BY <1>1
    <2>2. Small(n) = SUBSET (1 .. n)
      BY Smaller
    <2> QED BY <2>1, <2>2 DEF IsSum
  <1>2. ASSUME T # {} PROVE FALSE
    <2>1. PICK k \in T : \A j \in T : k <= j
      BY <1>2, LeastNumber
    <2>2. k # 0
      <3> SUFFICES ASSUME k = 0 PROVE FALSE
        OBVIOUS
      <3>1. ASSUME NEW s \in Small(0) PROVE s = {}
        <4>1. s \in SUBSET (1 .. n) /\ Cardinality(s) \in Nat /\ Cardinality(s) <= 0
          BY Smaller
        <4>2. Cardinality(s) = 0
          BY <4>1
        <4> HIDE DEF Small
        <4> QED BY <4>1, <4>2, Smaller
      <3>2. Part(0, [s \in Small(0) |-> 0])
        BY <3>1
      <3> QED BY <2>1, <3>2
    <2>3. PICK g : Part(k - 1, g)
      <3>1. k - 1 \in Nat /\ ~(k <= k - 1)
        BY <2>2
      <3>2. k - 1 \notin T
        BY <2>1, <3>1
      <3> QED BY <3>1, <3>2
    <2> DEFINE h == [s \in Small(k) |-> IF s = {} THEN 0 ELSE g[s \ {Max(s)}] + t[Max(s)]]
    <2>4. ASSUME NEW s \in Small(k), s # {}
          PROVE  h[s \ {Max(s)}] = g[s \ {Max(s)}]
      <3>1. s \ {Max(s)} \in Small(k - 1) /\ s \ {Max(s)} \in Small(k)
        <4> DEFINE r == s \ {Max(s)}
        <4>1. /\ r \in SUBSET (1 .. n) /\ Cardinality(r) = Cardinality(s) - 1
              /\ Cardinality(s) \in Nat /\ Cardinality(s) <= k /\ k \in Nat
          BY <2>1, <2>4, Smaller
        <4> HIDE DEF r
        <4>2. Cardinality(r) <= k - 1 /\ Cardinality(r) <= k
          BY <4>1
        <4> QED BY <4>1, <4>2 DEF r
      <3> QED BY <2>3, <3>1
    <2>5. Part(k, h)
      BY <2>4
    <2> QED BY <2>1, <2>5
  <1> QED BY <1>1, <1>2

\* A sum of n numbers up to B is up to n * B.
LEMMA SumBounded ==
  ASSUME NEW n \in Nat, NEW B \in Nat, NEW t, \A k \in 1 .. n : t[k] \in 0 .. B,
         NEW g, IsSum(t, 1 .. n, g)
  PROVE  g[1 .. n] \in 0 .. n * B
  <1> DEFINE T == {k \in Nat : \E s \in SUBSET (1 .. n) :
                                 Cardinality(s) = k /\ g[s] \notin 0 .. k * B}
  <1>1. ASSUME T # {} PROVE FALSE
    <2>1. PICK k \in T : \A j \in T : k <= j
      BY <1>1, LeastNumber
    <2>2. PICK s \in SUBSET (1 .. n) : Cardinality(s) = k /\ g[s] \notin 0 .. k * B
      BY <2>1
    <2>3. g[s] = IF s = {} THEN 0 ELSE g[s \ {Max(s)}] + t[Max(s)]
      BY DEF IsSum
    <2>4. s # {}
      BY <2>2, <2>3, Smaller
    <2>5. k - 1 \in Nat /\ k - 1 \notin T
      <3>1. k \in Nat /\ k # 0
        BY <2>2, <2>4, Smaller
      <3>2. k - 1 \in Nat /\ ~(k <= k - 1)
        BY <3>1
      <3> QED BY <2>1, <3>2
    <2>6. g[s \ {Max(s)}] \in 0 .. (k - 1) * B
      BY <2>2, <2>4, <2>5, Smaller
    <2>7. t[Max(s)] \in 0 .. B
      BY <2>4, Smaller
    <2>8. (k - 1) * B + B = k * B
      BY <2>1
    <2>9. g[s] \in 0 .. (k - 1) * B + B
      BY <2>3, <2>4, <2>6, <2>7
    <2> QED BY <2>2, <2>8, <2>9
  <1>2. Cardinality(1 .. n) = n
    BY FS_Interval
  <1> QED BY <1>1, <1>2

\* The totals of CalculateOrderDimensions are such sums.
LEMMA TotalVolumeBounded ==
  ASSUME NEW list, NEW n \in Nat, DOMAIN list = 1 .. n, NEW B \in Nat,
         \A k \in 1 .. n : Volume(list[k].dims) * list[k].qty \in 0 .. B
  PROVE  TotalVolume(list) \in 0 .. n * B
  <1> DEFINE t == [k \in 1 .. n |-> Volume(list[k].dims) * list[k].qty]
             P(g) == g = [s \in SUBSET (1 .. n) |->
                            IF s = {} THEN 0
                            ELSE g[s \ {Max(s)}] + Volume(list[Max(s)].dims) * list[Max(s)].qty]
             sum == CHOOSE g : P(g)
  <1>1. TotalVolume(list) = sum[1 .. n]
    BY DEF TotalVolume, FoldLeft, MapThenFoldSet
  <1>2. \A g : IsSum(t, 1 .. n, g) <=> P(g)
    BY Smaller DEF IsSum
  <1>3. P(sum)
    BY <1>2, SumExists
  <1>4. IsSum(t, 1 .. n, sum)
    BY <1>2, <1>3
  <1> HIDE DEF sum
  <1> QED BY <1>1, <1>4, SumBounded

LEMMA TotalWeightBounded ==
  ASSUME NEW list, NEW n \in Nat, DOMAIN list = 1 .. n, NEW B \in Nat,
         \A k \in 1 .. n : list[k].weight * list[k].qty \in 0 .. B
  PROVE  TotalWeight(list) \in 0 .. n * B
  <1> DEFINE t == [k \in 1 .. n |-> list[k].weight * list[k].qty]
             P(g) == g = [s \in SUBSET (1 .. n) |->
                            IF s = {} THEN 0
                            ELSE g[s \ {Max(s)}] + list[Max(s)].weight * list[Max(s)].qty]
             sum == CHOOSE g : P(g)
  <1>1. TotalWeight(list) = sum[1 .. n]
    BY DEF TotalWeight, FoldLeft, MapThenFoldSet
  <1>2. \A g : IsSum(t, 1 .. n, g) <=> P(g)
    BY Smaller DEF IsSum
  <1>3. P(sum)
    BY <1>2, SumExists
  <1>4. IsSum(t, 1 .. n, sum)
    BY <1>2, <1>3
  <1> HIDE DEF sum
  <1> QED BY <1>1, <1>4, SumBounded

-----------------------------------------------------------------------------
(* The search in words, on the numbers of module Measures *)

\* A number of 64 bits stays what it is.
LEMMA WrapKeeps ==
  ASSUME NEW n \in 0 .. Int8Max PROVE Wrap(n) = n
  <1>1. Int8Max \in Nat
    BY MeasuresAssumption
  <1>2. \A x, y \in Nat : x < y => x % y = x
    OBVIOUS
  <1>3. n + Int8Max + 1 \in Nat /\ 2 * (Int8Max + 1) \in Nat
        /\ n + Int8Max + 1 < 2 * (Int8Max + 1)
    BY <1>1
  <1>4. (n + Int8Max + 1) % (2 * (Int8Max + 1)) = n + Int8Max + 1
    BY <1>2, <1>3
  <1> QED BY <1>1, <1>4 DEF Wrap

\* A box has one volume, however it is turned.
LEMMA VolumeTurned ==
  ASSUME NEW d \in Dims, NEW r \in Rotations(d)
  PROVE  Volume(r) \in Nat /\ Volume(r) = Volume(d)
  <1>1. \A x, y, z \in Nat : /\ x * y * z \in Nat
                             /\ x * z * y = x * y * z /\ y * x * z = x * y * z
                             /\ y * z * x = x * y * z /\ z * x * y = x * y * z
                             /\ z * y * x = x * y * z
    OBVIOUS
  <1>2. d[1] \in Nat /\ d[2] \in Nat /\ d[3] \in Nat
    BY DEF Dims
  <1>3. \/ r[1] = d[1] /\ r[2] = d[2] /\ r[3] = d[3]
        \/ r[1] = d[1] /\ r[2] = d[3] /\ r[3] = d[2]
        \/ r[1] = d[2] /\ r[2] = d[1] /\ r[3] = d[3]
        \/ r[1] = d[2] /\ r[2] = d[3] /\ r[3] = d[1]
        \/ r[1] = d[3] /\ r[2] = d[1] /\ r[3] = d[2]
        \/ r[1] = d[3] /\ r[2] = d[2] /\ r[3] = d[1]
    BY DEF Rotations
  <1> QED BY <1>1, <1>2, <1>3 DEF Volume

\* What fits has no larger volume.
LEMMA FittingIsSmaller ==
  ASSUME NEW item, NEW carton, item.dims \in Dims, carton.dims \in Dims,
         itemFitsCarton(item, carton)
  PROVE  Volume(item.dims) \in Nat /\ Volume(carton.dims) \in Nat
         /\ Volume(item.dims) <= Volume(carton.dims)
  <1>1. PICK r \in Rotations(item.dims) : \A k \in 1 .. 3 : r[k] <= carton.dims[k]
    BY RotationsSuffice DEF FitsTurned
  <1>2. r \in Dims /\ Volume(r) = Volume(item.dims)
    BY RotationsGroup, VolumeTurned
  <1>3. ASSUME NEW a \in Nat, NEW b \in Nat, NEW c \in Nat,
               NEW x \in Nat, NEW y \in Nat, NEW z \in Nat, a <= x, b <= y, c <= z
        PROVE  a * b * c \in Nat /\ x * y * z \in Nat /\ a * b * c <= x * y * z
    <2>1. \A u, v, w \in Nat : u <= v => u * w <= v * w
      OBVIOUS
    <2>2. a * b \in Nat /\ x * b \in Nat /\ x * y \in Nat /\ b * x \in Nat
      BY <1>3
    <2>3. a * b <= x * b /\ x * b <= x * y
      <3>1. x * b = b * x /\ x * y = y * x
        BY <1>3
      <3> QED BY <1>3, <2>1, <3>1
    <2>4. a * b * c <= x * y * c
      BY <1>3, <2>1, <2>2, <2>3
    <2>5. x * y * c <= x * y * z
      <3>1. \A m \in Nat : c * m <= z * m /\ m * c = c * m /\ m * z = z * m
        BY <1>3
      <3> QED BY <2>2, <3>1
    <2> DEFINE p == x * y
               q == a * b
    <2>6. \A m, l \in Nat : m * l \in Nat
      OBVIOUS
    <2>7. q * c \in Nat /\ p * c \in Nat /\ p * z \in Nat
      BY <2>2, <2>6
    <2> QED BY <2>4, <2>5, <2>7
  <1>4. /\ r[1] \in Nat /\ r[2] \in Nat /\ r[3] \in Nat
        /\ carton.dims[1] \in Nat /\ carton.dims[2] \in Nat /\ carton.dims[3] \in Nat
        /\ r[1] <= carton.dims[1] /\ r[2] <= carton.dims[2] /\ r[3] <= carton.dims[3]
    BY <1>1, <1>2 DEF Dims
  <1>5. Volume(r) \in Nat /\ Volume(carton.dims) \in Nat /\ Volume(r) <= Volume(carton.dims)
    BY <1>3, <1>4 DEF Volume
  <1> QED BY <1>2, <1>5

\* What came out of a column is within its bounds.
LEMMA StoredInBounds ==
  ASSUME NEW d \in Details, NEW list \in StoredItems(d), list # <<>>
  PROVE  /\ list \in Seq(Item)
         /\ Len(list) \in Nat /\ Len(list) * (Int4Max * Int2Max) <= Int8Max
         /\ \A k \in DOMAIN list : list[k].weight <= Int4Max /\ list[k].qty <= Int2Max
  <1> DEFINE parsable == {k \in DOMAIN d : ItemParsable(d[k])}
  <1>0. d \in Seq(RawItem) /\ Len(d) \in Nat /\ list \in Seq(Item) /\ Len(list) \in Nat
    BY MeasuresAssumption, PackedAssumption, PackingAssumption
  <1>1. /\ \A l \in parsable : ItemStorable(ParsedItem(d[l]))
        /\ \E turn \in SetToSeqs(parsable) :
             list = [n \in DOMAIN turn |-> ParsedItem(d[turn[n]])]
    BY DEF StoredItems
  <1>2. PICK turn \in SetToSeqs(parsable) :
          list = [n \in DOMAIN turn |-> ParsedItem(d[turn[n]])]
    BY <1>1
  <1>3. turn \in [1 .. Cardinality(parsable) -> parsable]
    BY DEF SetToSeqs
  <1>4. parsable \in SUBSET (1 .. Len(d))
    BY <1>0
  <1>5. Cardinality(parsable) \in Nat /\ Cardinality(parsable) <= Len(d)
    BY <1>0, <1>4, Smaller
  <1>6. Len(list) <= Len(d)
    <2>1. DOMAIN list = 1 .. Cardinality(parsable)
      BY <1>2, <1>3
    <2>2. DOMAIN list = 1 .. Len(list)
      BY <1>0
    <2>3. Len(list) = Cardinality(parsable)
      BY <1>0, <1>5, <2>1, <2>2
    <2> QED BY <1>5, <2>3
  <1>7. Len(list) * (Int4Max * Int2Max) <= Int8Max
    <2>1. Int4Max \in Nat /\ Int2Max \in Nat /\ Int8Max \in Nat
          /\ Len(d) * Int4Max * Int2Max <= Int8Max
      BY MeasuresAssumption
    <2>2. \A x, y, z \in Nat : x * y * z = x * (y * z) /\ y * z \in Nat
      OBVIOUS
    <2>3. \A x, y, z \in Nat : x <= y => x * z <= y * z /\ x * z \in Nat /\ y * z \in Nat
      OBVIOUS
    <2> DEFINE B == Int4Max * Int2Max
    <2>4. B \in Nat /\ Len(d) * B <= Int8Max
      BY <1>0, <2>1, <2>2
    <2> HIDE DEF B
    <2>5. Len(list) * B <= Len(d) * B /\ Len(list) * B \in Nat /\ Len(d) * B \in Nat
      BY <1>0, <1>6, <2>3, <2>4
    <2>6. Len(list) * B <= Int8Max
      BY <2>1, <2>4, <2>5
    <2> QED BY <2>6 DEF B
  <1>8. ASSUME NEW k \in DOMAIN list
        PROVE  list[k].weight <= Int4Max /\ list[k].qty <= Int2Max
    <2>1. list[k] = ParsedItem(d[turn[k]]) /\ ItemStorable(list[k])
      BY <1>1, <1>2, <1>3
    <2>2. list[k].weight \in Word(Int4Max) /\ list[k].qty \in Word(Int2Max)
      BY <2>1 DEF ItemStorable
    <2> QED BY <2>2, MeasuresAssumption DEF Word
  <1> QED BY <1>0, <1>7, <1>8

\* A carton that the query for active cartons answers has a volume in INT4.
LEMMA OfferedInBounds ==
  ASSUME NEW o \in Offers, NEW list \in ActiveCartons(o)
  PROVE  /\ ByVolume(list) /\ list \in Seq(Cartons) /\ Len(list) \in 0 .. MaxCartons
         /\ \A k \in 1 .. Len(list) : list[k].dims \in Dims /\ Volume(list[k].dims) <= Int4Max
  <1> DEFINE kept == {k \in DOMAIN o : CartonKept(o[k])}
  <1>0. o \in Seq(RawCarton) /\ Len(o) \in Nat /\ Len(o) <= MaxCartons
    BY MeasuresAssumption, PackedAssumption
  <1>1. /\ \A k \in kept : volumeInInt4(ParsedCarton(o[k]).dims)
        /\ ByVolume(list)
        /\ \E turn \in SetToSeqs(kept) :
             list = [n \in DOMAIN turn |-> ParsedCarton(o[turn[n]])]
    BY DEF ActiveCartons
  <1>2. PICK turn \in SetToSeqs(kept) :
          list = [n \in DOMAIN turn |-> ParsedCarton(o[turn[n]])]
    BY <1>1
  <1>3. turn \in [1 .. Cardinality(kept) -> kept]
    BY DEF SetToSeqs
  <1>4. list \in Seq(Cartons) /\ Len(list) \in Nat /\ DOMAIN list = 1 .. Len(list)
    BY <1>1 DEF ByVolume
  <1>5. Len(list) \in 0 .. MaxCartons
    <2>1. kept \in SUBSET (1 .. Len(o))
      BY <1>0
    <2>2. Cardinality(kept) \in Nat /\ Cardinality(kept) <= Len(o)
      BY <1>0, <2>1, Smaller
    <2>3. 1 .. Len(list) = 1 .. Cardinality(kept)
      BY <1>2, <1>3, <1>4
    <2>4. Len(list) = Cardinality(kept)
      BY <1>4, <2>2, <2>3
    <2> QED BY <1>0, <1>4, <2>2, <2>4, PackingAssumption
  <1>6. ASSUME NEW k \in 1 .. Len(list)
        PROVE  list[k].dims \in Dims /\ Volume(list[k].dims) <= Int4Max
    <2>1. list[k] \in Carton
      BY <1>4, PackingAssumption
    <2>2. turn[k] \in kept /\ list[k] = ParsedCarton(o[turn[k]])
      BY <1>2, <1>3, <1>4
    <2>3. Volume(list[k].dims) \in Word(Int4Max)
      BY <1>1, <2>2 DEF volumeInInt4
    <2> QED BY <2>1, <2>3, MeasuresAssumption DEF Carton, Word
  <1> QED BY <1>1, <1>4, <1>5, <1>6

\* Words of 64 bits are enough for what fits.
LEMMA WordsSuffice ==
  ASSUME NEW d \in Details, NEW list \in StoredItems(d), list # <<>>,
         NEW carton, carton.dims \in Dims, Volume(carton.dims) <= Int4Max
  PROVE  SuitableInWords(carton, list) <=> Suitable(carton, list)
  <1>1. /\ list \in Seq(Item) /\ DOMAIN list = 1 .. Len(list)
        /\ Len(list) \in Nat /\ Len(list) * (Int4Max * Int2Max) <= Int8Max
        /\ \A k \in DOMAIN list : list[k].weight <= Int4Max /\ list[k].qty <= Int2Max
    BY StoredInBounds
  <1>2. /\ Int4Max \in Nat /\ Int2Max \in Nat /\ Int8Max \in Nat /\ Int4Max < Int8Max
        /\ Int4Max * Int2Max \in Nat
    BY MeasuresAssumption
  <1>3. \A x, y \in Nat : x <= Int4Max /\ y <= Int2Max => x * y \in 0 .. Int4Max * Int2Max
    <2> SUFFICES ASSUME NEW x \in Nat, NEW y \in Nat, x <= Int4Max, y <= Int2Max
                 PROVE  x * y \in 0 .. Int4Max * Int2Max
      OBVIOUS
    <2>1. x * y \in Nat /\ x * y <= Int4Max * y
      BY <1>2
    <2>2. Int4Max * y <= Int4Max * Int2Max
      BY <1>2
    <2> QED BY <1>2, <2>1, <2>2
  <1>4. ASSUME NEW k \in DOMAIN list PROVE list[k] \in Item
    BY <1>1
  <1> SUFFICES ASSUME \A k \in DOMAIN list : itemFitsCarton(list[k], carton)
               PROVE  /\ Wrap(TotalVolume(list)) = TotalVolume(list)
                      /\ Wrap(Volume(carton.dims)) = Volume(carton.dims)
                      /\ Wrap(TotalWeight(list)) = TotalWeight(list)
    BY DEF SuitableInWords, Suitable
  <1>5. Volume(carton.dims) \in Nat
    BY VolumeTurned DEF Rotations
  <1>6. ASSUME NEW k \in 1 .. Len(list)
        PROVE  /\ Volume(list[k].dims) * list[k].qty \in 0 .. Int4Max * Int2Max
               /\ list[k].weight * list[k].qty \in 0 .. Int4Max * Int2Max
    <2>1. list[k].dims \in Dims /\ list[k].weight \in Nat /\ list[k].qty \in Nat
      BY <1>1, <1>4 DEF Item
    <2>2. Volume(list[k].dims) \in Nat /\ Volume(list[k].dims) <= Int4Max
      BY <1>1, <1>2, <1>5, <2>1, FittingIsSmaller
    <2> QED BY <1>1, <1>3, <2>1, <2>2
  <1>7. /\ TotalVolume(list) \in 0 .. Len(list) * (Int4Max * Int2Max)
        /\ TotalWeight(list) \in 0 .. Len(list) * (Int4Max * Int2Max)
    BY <1>1, <1>2, <1>6, TotalVolumeBounded, TotalWeightBounded
  <1>8. \A x : x \in 0 .. Len(list) * (Int4Max * Int2Max) => x \in 0 .. Int8Max
    BY <1>1, <1>2
  <1>9. Volume(carton.dims) \in 0 .. Int8Max
    BY <1>2, <1>5
  <1> QED BY <1>7, <1>8, <1>9, WrapKeeps

\* The state of the search, in what Packing says of it.
WordsInv ==
  /\ detail \in Details /\ offer \in Offers
  /\ items \in StoredItems(detail) /\ items # <<>>
  /\ cartons \in ActiveCartons(offer)
  /\ i \in Nat \ {0}

LEMMA WordsStep ==
  ASSUME WordsInv, [NextInWords]_measured PROVE WordsInv' /\ [Next]_vars
  <1>1. CASE UNCHANGED measured
    BY <1>1 DEF measured, vars, WordsInv
  <1>2. CASE NotFound /\ UNCHANGED <<detail, offer>>
    BY <1>2 DEF NotFound, Next, WordsInv
  <1>3. ASSUME Searching PROVE SuitableInWords(cartons[i], items) <=> Suitable(cartons[i], items)
    <2>1. Len(cartons) \in Nat /\ i \in 1 .. Len(cartons)
      BY <1>3, OfferedInBounds DEF WordsInv, Searching
    <2> QED BY <2>1, OfferedInBounds, WordsSuffice DEF WordsInv
  <1>4. CASE TryNextInWords /\ UNCHANGED <<detail, offer>>
    BY <1>3, <1>4 DEF TryNextInWords, TryNext, Searching, Next, WordsInv
  <1>5. CASE FoundInWords /\ UNCHANGED <<detail, offer>>
    BY <1>3, <1>5 DEF FoundInWords, Found, Searching, Next, WordsInv
  <1> QED BY <1>1, <1>2, <1>4, <1>5 DEF NextInWords

\* No overflow changes what is found: the search in words takes the steps of
\* the search in numbers.
THEOREM SearchIsExactAlways == SpecInWords => SearchIsExact
  <1>1. InitInWords => WordsInv
    BY DEF InitInWords, WordsInv
  <1>2. InitInWords => Init
    <2> SUFFICES ASSUME InitInWords PROVE Init
      OBVIOUS
    <2>1. items \in ItemLists
      BY PackedAssumption DEF InitInWords
    <2>2. ByVolume(cartons) /\ cartons \in Seq(Cartons) /\ Len(cartons) \in 0 .. MaxCartons
      BY OfferedInBounds DEF InitInWords
    <2>3. cartons \in [1 .. Len(cartons) -> Cartons]
      BY <2>2
    <2> QED BY <2>1, <2>2, <2>3 DEF InitInWords, Init
  <1>3. WordsInv /\ [NextInWords]_measured => WordsInv' /\ [Next]_vars
    BY WordsStep
  <1> QED BY <1>1, <1>2, <1>3, PTL DEF SpecInWords, SearchIsExact, Spec

\* So the program's search, in its words, returns a smallest carton that holds
\* the order, and gives up only if there is none.
THEOREM FoundInWordsIsSmallest == SpecInWords => [](FoundIsSmallest /\ NilMeansNone)
  BY SearchIsExactAlways, FoundIsSmallestAlways, NilMeansNoneAlways, PTL DEF SearchIsExact
=============================================================================
