----------------------------- MODULE MCPipeline -----------------------------
(* Small instances of Pipeline: contents and specs are sizes, and contents   *)
(* of size n fit a spec of size n or more.                                   *)
EXTENDS Pipeline, TLC

MCSuits(k, s) == k <= s
MCVolume(s) == s

\* A catalogue with a small and a large carton.
Cartons(small, large) ==
  [c \in CartonIds |-> IF c = "small" THEN small ELSE large]

Stable == {Cartons([flux |-> "7", spec |-> 1], [flux |-> "8", spec |-> 2])}

\* Flux adds the small carton and gives the large one another id.
Changing == {Cartons(Null, [flux |-> "7", spec |-> 2]),
             Cartons([flux |-> "7", spec |-> 1], [flux |-> "8", spec |-> 2])}

Symmetric == Permutations(PushRuns)
=============================================================================
