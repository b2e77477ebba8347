---------------------------- MODULE MCHotUpdate ----------------------------
(* Instance of HotUpdate for TLC: two places beside the start.  Each may   *)
(* be behind the other, and a key of one build and one of the other then   *)
(* lead in a circle; or one of them is out of reach, and a key left over   *)
(* shows.  Any two of the three runs can come to trees that tell.          *)
EXTENDS HotUpdate, TLC

CONSTANTS east, west, home
MCPlaces == {east, west}
EastFirst == east :> home @@ west :> east
WestFirst == east :> west @@ west :> home
EastOnly  == east :> home @@ west :> Nil
MCTrees == <<{EastFirst}, {WestFirst, EastOnly}, {EastFirst, EastOnly}>>
=============================================================================
