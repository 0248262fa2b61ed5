----------------------------- MODULE MCMeasures -----------------------------
(* Small instances of Measures: words of 3, 5 and 8 bits, four grains to a    *)
(* millimetre, and every box with sides of 1 to 3 millimetres.                *)
EXTENDS Measures, TLC

Millimetres(d) == <<4 * d[1], 4 * d[2], 4 * d[3]>>
Boxes == (1 .. 3) \X (1 .. 3) \X (1 .. 3)
ItemOf(d, w, q) == [dims |-> d, weight |-> w, qty |-> q]
CartonOf(d, w) == [dims |-> d, maxWeight |-> w]

\* Whole millimetres; two items; halves and quarters; too large for a carton,
\* for INT4, for SMALLINT; no numbers.
OneItem == {<<ItemOf(Millimetres(d), 4, q)>> : d \in Boxes, q \in {1, 2}}
TwoItems == {<<ItemOf(Millimetres(d), 4, 1), ItemOf(Millimetres(e), 0, 1)>> :
               d \in {<<1, 1, 1>>, <<1, 2, 3>>}, e \in {<<1, 3, 1>>, <<2, 2, 1>>}}
Uneven == {<<ItemOf(<<6, 9, 5>>, 2, q)>> : q \in {1, 3, 4}}
Large == {<<ItemOf(Millimetres(<<n, n, m>>), 4, q), ItemOf(<<4, 4, 4>>, 0, 1)>> :
            n \in {5, 15, 17}, m \in {1, 5}, q \in {1, 2, 3}}
Odd == {<<ItemOf(<<4, 4, x>>, y, 1), ItemOf(<<8, 4, 4>>, 4, 1)>> :
          x \in {4, NaN, Unparsable}, y \in {4, NaN, Unparsable}}
MCDetails == OneItem \cup TwoItems \cup Uneven \cup Large \cup Odd

\* Weak and strong cartons, some of which are turns of each other or have one
\* volume in different shapes, and the same edges as above.
MCOffered ==
  {CartonOf(Millimetres(d), w) :
     d \in {<<1, 1, 1>>, <<1, 1, 3>>, <<3, 1, 1>>, <<2, 1, 2>>, <<1, 3, 2>>, <<2, 3, 1>>,
            <<2, 2, 2>>, <<3, 1, 3>>},
     w \in {4, 60}}
  \cup {CartonOf(<<6, 5, 10>>, 5), CartonOf(Millimetres(<<5, 3, 1>>), 60),
        CartonOf(Millimetres(<<5, 5, 5>>), 60), CartonOf(<<4, 4, NaN>>, 60),
        CartonOf(<<4, 4, 12>>, Unparsable)}
MCCartons == {ParsedCarton(c) : c \in {x \in MCOffered : CartonKept(x)}}
MCItemLists == UNION {StoredItems(d) : d \in MCDetails}
MCOffers == {<<c>> : c \in MCOffered} \cup {<<c, d>> : c, d \in MCOffered}
=============================================================================
