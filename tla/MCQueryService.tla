--------------------------- MODULE MCQueryService --------------------------
(* Instances of QueryService for TLC: two queries at a time.  PlaceCache   *)
(* lets them meet two updates with one, two or three connections, fewer    *)
(* than, as many as and more than the queries; RefreshLost gives them two. *)
EXTENDS QueryService

CONSTANTS w1, w2
MCWorkers == {w1, w2}
=============================================================================
