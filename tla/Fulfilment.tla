----------------------------- MODULE Fulfilment -----------------------------
(***************************************************************************)
(* What the engine promises Flux, without saying how: for each order one   *)
(* assignment is chosen, once; Flux is told that assignment and no other,  *)
(* perhaps more than once; and the order is closed, for good, only after   *)
(* Flux has been told.                                                     *)
(***************************************************************************)
CONSTANTS Orders, Assignments, None

VARIABLES
  choice,   \* the assignment chosen for an order, or None
  told,     \* the assignments Flux has applied to an order
  closed    \* the orders that are done

Init ==
  /\ choice = [o \in Orders |-> None]
  /\ told = [o \in Orders |-> {}]
  /\ closed = {}

Choose(o) ==
  /\ choice[o] = None
  /\ \E a \in Assignments : choice' = [choice EXCEPT ![o] = a]
  /\ UNCHANGED <<told, closed>>

Tell(o) ==
  /\ choice[o] # None
  /\ told' = [told EXCEPT ![o] = {choice[o]}]
  /\ UNCHANGED <<choice, closed>>

Close(o) ==
  /\ told[o] # {}
  /\ closed' = closed \cup {o}
  /\ UNCHANGED <<choice, told>>

Next == \E o \in Orders : Choose(o) \/ Tell(o) \/ Close(o)

Spec == Init /\ [][Next]_<<choice, told, closed>>
=============================================================================
