------------------------------ MODULE MCReactor ----------------------------
(* Instances of Reactor for TLC.  Orderly: three clients share two         *)
(* descriptors, so that one of them is reused, and there are two workers,  *)
(* so that answers overtake each other; the scripts cover both protocols   *)
(* and, within HTTP, a page and a query.                                   *)
EXTENDS Reactor

CONSTANTS c1, c2, c3

OrderlyClients == {c1, c2, c3}
OrderlyScript == (c1 :> <<"query", "page">>) @@ (c2 :> <<"line", "line">>)
                 @@ (c3 :> <<"query">>)

AbruptClients == {c1, c2}
AbruptScript == (c1 :> <<"query", "unknown">>) @@ (c2 :> <<"line">>)

LineClients == {c1, c2}
LineScript == (c1 :> <<"line", "line">>) @@ (c2 :> <<"line", "line">>)
=============================================================================
