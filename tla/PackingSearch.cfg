\* Every offer of up to two cartons, every order.
CONSTANTS
  Cartons <- MCCartons
  ItemLists <- MCItemLists
  MaxCartons = 2
  Details <- MCDetails
  Offers <- MCOffers
  Grain = 4
  Unparsable = Unparsable
  NaN = NaN
  Int2Max = 3
  Int4Max = 15
  Int8Max = 127
SPECIFICATION SpecInWords
INVARIANTS FoundIsSmallest NilMeansNone RoundingIsSmall
PROPERTIES SearchIsExact
CHECK_DEADLOCK FALSE
