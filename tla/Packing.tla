------------------------------- MODULE Packing -------------------------------
(***************************************************************************)
(* FindBestCarton: the search of job 3 for the carton of one order.  Its   *)
(* result is what module Tables calls BestCartons.                         *)
(*                                                                         *)
(* Cartons come sorted by volume from GetActiveCartons; the search takes   *)
(* the first that is large and strong enough and holds every item in some  *)
(* rotation.                                                               *)
(***************************************************************************)
EXTENDS Integers, Sequences, SequencesExt

CONSTANTS
  Cartons,     \* cartons that may be active: dims (three numbers), maxWeight
  ItemLists,   \* lists of items: dims, weight and qty
  MaxCartons   \* the longest list of active cartons

Dims == Nat \X Nat \X Nat
Carton == [dims : Dims, maxWeight : Nat]
Item == [dims : Dims, weight : Nat, qty : Nat]

ASSUME PackingAssumption ==
  /\ Cartons \subseteq Carton
  /\ ItemLists \subseteq Seq(Item)
  /\ MaxCartons \in Nat

VARIABLES
  cartons,   \* the answer of GetActiveCartons
  items,     \* the order's items
  i,         \* the loop's position in cartons
  result     \* what the search returned: an index, or 0 for nil

vars == <<cartons, items, i, result>>

Volume(dims) == dims[1] * dims[2] * dims[3]

\* CalculateOrderDimensions.
TotalVolume(list) == FoldLeft(LAMBDA sum, x : sum + Volume(x.dims) * x.qty, 0, list)
TotalWeight(list) == FoldLeft(LAMBDA sum, x : sum + x.weight * x.qty, 0, list)

Rotations(d) == {<<d[1], d[2], d[3]>>, <<d[1], d[3], d[2]>>, <<d[2], d[1], d[3]>>,
                 <<d[2], d[3], d[1]>>, <<d[3], d[1], d[2]>>, <<d[3], d[2], d[1]>>}

\* sort.Ints of three numbers.
SortInts(d) == CHOOSE s \in Rotations(d) : s[1] <= s[2] /\ s[2] <= s[3]

\* Mutant: the dimensions are compared as they come.
itemFitsAsGiven(item, carton) == \A k \in 1 .. 3 : item.dims[k] <= carton.dims[k]

itemFitsCarton(item, carton) ==
  \A k \in 1 .. 3 : SortInts(item.dims)[k] <= SortInts(carton.dims)[k]

\* The three tests of the loop's body.
Suitable(carton, list) ==
  /\ TotalVolume(list) <= Volume(carton.dims)
  /\ TotalWeight(list) <= carton.maxWeight
  /\ \A k \in DOMAIN list : itemFitsCarton(list[k], carton)

\* Mutant: ORDER BY is left out.
ByVolumeUnsorted(list) == list \in Seq(Cartons)

\* ORDER BY length * width * height: equal volumes come in any order.
ByVolume(list) ==
  /\ list \in Seq(Cartons)
  /\ \A k, l \in 1 .. Len(list) :
       k < l => Volume(list[k].dims) <= Volume(list[l].dims)

Init ==
  /\ \E n \in 0 .. MaxCartons : cartons \in [1 .. n -> Cartons]
  /\ ByVolume(cartons)
  /\ items \in ItemLists
  /\ i = 1
  /\ result = -1

Searching == result = -1 /\ i <= Len(cartons)

TryNext ==
  /\ Searching
  /\ ~Suitable(cartons[i], items)
  /\ i' = i + 1
  /\ UNCHANGED <<cartons, items, result>>

Found ==
  /\ Searching
  /\ Suitable(cartons[i], items)
  /\ result' = i
  /\ UNCHANGED <<cartons, items, i>>

NotFound ==
  /\ result = -1
  /\ i > Len(cartons)
  /\ result' = 0
  /\ UNCHANGED <<cartons, items, i>>

Next == TryNext \/ Found \/ NotFound

Spec == Init /\ [][Next]_vars

-----------------------------------------------------------------------------
(* What the search promises, in terms of rotations *)

\* The item goes into the carton if it is turned the right way.
FitsTurned(item, carton) ==
  \E d \in Rotations(item.dims) : \A k \in 1 .. 3 : d[k] <= carton.dims[k]

Holds(carton, list) ==
  /\ TotalVolume(list) <= Volume(carton.dims)
  /\ TotalWeight(list) <= carton.maxWeight
  /\ \A k \in DOMAIN list : FitsTurned(list[k], carton)

\* The carton found holds the order, and no smaller active carton does.
FoundIsSmallest ==
  result > 0 =>
    /\ Holds(cartons[result], items)
    /\ \A k \in 1 .. Len(cartons) :
         Holds(cartons[k], items)
           => Volume(cartons[result].dims) <= Volume(cartons[k].dims)

\* An order is given up only if no active carton holds it, turned as you like.
NilMeansNone ==
  result = 0 => \A k \in 1 .. Len(cartons) : ~Holds(cartons[k], items)
=============================================================================
