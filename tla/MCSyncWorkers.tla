--------------------------- MODULE MCSyncWorkers ---------------------------
(* Small instances of SyncWorkers: contents are the products of a detail in   *)
(* their order, and nothing is ever packed.                                   *)
EXTENDS SyncWorkers, TLC

MCContents == {<<>>, <<"p", "q">>, <<"q", "r">>, <<"r", "p">>, <<"q", "p">>}
MCNoItems == <<>>
MCSuits(k, s) == FALSE
MCVolume(s) == 0
MCProductsOf(k) == k

\* Orders that want the same products in different orders; one of them may
\* have nothing that can be parsed.
MCDetailOf(o) == CASE o = 1 -> {<<"p", "q">>}
                   [] o = 2 -> {<<"q", "r">>, <<"q", "p">>}
                   [] o = 3 -> {<<"r", "p">>, <<>>}
                   [] o = 4 -> {<<"q", "p">>}
=============================================================================
