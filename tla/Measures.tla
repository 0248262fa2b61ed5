------------------------------ MODULE Measures ------------------------------
(***************************************************************************)
(* The search of Packing on the numbers the program really has: decimals   *)
(* of Flux that are rounded to millimetres and grams, columns of INT4 and  *)
(* SMALLINT, volumes that PostgreSQL multiplies in INT4 and Go in 64 bits. *)
(*                                                                         *)
(* A raw measure is a whole number of grains; there are Grain of them in a *)
(* millimetre or gram.  Flux is taken to send none below zero.             *)
(***************************************************************************)
EXTENDS Packing

CONSTANTS
  Details,     \* the items Flux may answer with, and
  Offers,      \* the cartons, both in raw measures
  Grain,
  Unparsable,  \* what ParseFloat refuses
  NaN,         \* what it does not, though it is no number: NaN, Inf
  Int2Max, Int4Max, Int8Max   \* the largest SMALLINT, INT4, and Go int

Raw == {Unparsable, NaN} \cup Nat
RawItem == [dims : Raw \X Raw \X Raw, weight : Raw, qty : Nat]
RawCarton == [dims : Raw \X Raw \X Raw, maxWeight : Raw]

ASSUME MeasuresAssumption ==
  /\ Details \subseteq Seq(RawItem) /\ Offers \subseteq Seq(RawCarton)
  /\ Grain \in Nat \ {0}
  /\ NaN \notin Nat
  /\ Int2Max \in Nat /\ Int4Max \in Nat /\ Int8Max \in Nat
  /\ Int4Max < Int8Max
  /\ \A d \in Details : Len(d) * Int4Max * Int2Max <= Int8Max

VARIABLES detail, offer

measured == <<vars, detail, offer>>

Word(max) == -max - 1 .. max

\* Two's complement.
Wrap(n) == ((n + Int8Max + 1) % (2 * (Int8Max + 1))) - Int8Max - 1

\* Mutant: rounded before it is scaled, to centimetres of ten millimetres.
parseThenScale(r) ==
  IF r = NaN THEN -Int8Max - 1 ELSE 10 * ((2 * r + 10 * Grain) \div (20 * Grain))

\* math.Round: halves away from zero.  No number becomes the smallest int.
parseDecimalToScaledInt(r) ==
  IF r = NaN THEN -Int8Max - 1 ELSE (2 * r + Grain) \div (2 * Grain)

ParsedDims(d) == [k \in 1 .. 3 |-> parseDecimalToScaledInt(d[k])]
DimsParsable(d) == \A k \in 1 .. 3 : d[k] # Unparsable
DimsStorable(d) == \A k \in 1 .. 3 : d[k] \in Word(Int4Max)

-----------------------------------------------------------------------------
(* Items *)

ParsedItem(x) == [dims |-> ParsedDims(x.dims), weight |-> parseDecimalToScaledInt(x.weight),
                  qty |-> x.qty]
ItemParsable(x) == DimsParsable(x.dims) /\ x.weight # Unparsable
ItemStorable(y) ==
  DimsStorable(y.dims) /\ y.weight \in Word(Int4Max) /\ y.qty \in Word(Int2Max)

\* An item that cannot be parsed is skipped; one that a column cannot hold
\* fails the transaction.  The query for them has no ORDER BY.
StoredItems(d) ==
  LET parsable == {k \in DOMAIN d : ItemParsable(d[k])}
  IN  IF \A k \in parsable : ItemStorable(ParsedItem(d[k]))
      THEN {[n \in DOMAIN turn |-> ParsedItem(d[turn[n]])] : turn \in SetToSeqs(parsable)}
      ELSE {<<>>}

-----------------------------------------------------------------------------
(* Cartons *)

ParsedCarton(c) == [dims |-> ParsedDims(c.dims),
                    maxWeight |-> parseDecimalToScaledInt(c.maxWeight)]

\* A carton that cannot be parsed or stored is skipped.
CartonKept(c) ==
  /\ DimsParsable(c.dims) /\ c.maxWeight # Unparsable
  /\ DimsStorable(ParsedCarton(c).dims) /\ ParsedCarton(c).maxWeight \in Word(Int4Max)

\* Mutant: ORDER BY length::bigint * width * height.
volumeInInt8(d) == TRUE

\* length * width * height, from the left; out of range fails the query.
volumeInInt4(d) == d[1] * d[2] \in Word(Int4Max) /\ Volume(d) \in Word(Int4Max)

\* What GetActiveCartons may answer, if it answers: nobody is spared when one
\* carton is too large.
ActiveCartons(o) ==
  LET kept == {k \in DOMAIN o : CartonKept(o[k])}
      lists == {[n \in DOMAIN turn |-> ParsedCarton(o[turn[n]])] : turn \in SetToSeqs(kept)}
  IN  IF \A k \in kept : volumeInInt4(ParsedCarton(o[k]).dims)
      THEN {list \in lists : ByVolume(list)} ELSE {}

\* Packing is given the cartons and the item lists that come of this.
ASSUME PackedAssumption ==
  /\ \A o \in Offers : Len(o) <= MaxCartons
  /\ \A o \in Offers : \A c \in Range(o) : CartonKept(c) => ParsedCarton(c) \in Cartons
  /\ \A d \in Details : StoredItems(d) \subseteq ItemLists

-----------------------------------------------------------------------------
(* The search *)

\* Sums and products of 64 bits, and a carton's Volume() of 64 bits.
SuitableInWords(carton, list) ==
  /\ Wrap(TotalVolume(list)) <= Wrap(Volume(carton.dims))
  /\ Wrap(TotalWeight(list)) <= carton.maxWeight
  /\ \A k \in DOMAIN list : itemFitsCarton(list[k], carton)

\* Job 3 has an order with items and the answer of GetActiveCartons.
InitInWords ==
  /\ detail \in Details
  /\ offer \in Offers
  /\ items \in StoredItems(detail)
  /\ items # <<>>
  /\ cartons \in ActiveCartons(offer)
  /\ i = 1
  /\ result = -1

TryNextInWords ==
  /\ Searching
  /\ ~SuitableInWords(cartons[i], items)
  /\ i' = i + 1
  /\ UNCHANGED <<cartons, items, result>>

FoundInWords ==
  /\ Searching
  /\ SuitableInWords(cartons[i], items)
  /\ result' = i
  /\ UNCHANGED <<cartons, items, i>>

NextInWords == (TryNextInWords \/ FoundInWords \/ NotFound) /\ UNCHANGED <<detail, offer>>

SpecInWords == InitInWords /\ [][NextInWords]_measured

-----------------------------------------------------------------------------
\* No overflow changes what is found: the search in words is the search of
\* Packing.  A volume may well wrap round, but only by an item that is too
\* large for the carton anyway, as no carton is larger than an INT4 holds.
SearchIsExact == Spec

\* An item of the detail that is judged to fit sticks out of the carton, as
\* Flux measures the two, by less than a millimetre on each side.
RoundingIsSmall ==
  result > 0 =>
    \A c \in Range(offer), x \in Range(detail) :
      CartonKept(c) /\ ParsedCarton(c) = cartons[result] /\ ItemParsable(x) =>
        \A k \in 1 .. 3 : SortInts(x.dims)[k] < SortInts(c.dims)[k] + Grain
=============================================================================
